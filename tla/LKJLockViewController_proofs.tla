-------------------- MODULE LKJLockViewController_proofs --------------------
(* Theorems about LKJLockViewController, for every set of peripherals and  *)
(* any bound on the history.                                               *)
EXTENDS LKJLockViewController, TLAPS, SequenceTheorems

LEMMA ControlTypeInit == Init => TypeOK
<1> SUFFICES ASSUME Init PROVE TypeOK
  OBVIOUS
<1>1. /\ visible \in BOOLEAN /\ hidden \in BOOLEAN /\ lockViewIsLocked \in BOOLEAN
      /\ alert \in BOOLEAN /\ drifted \in BOOLEAN
  BY Zenon DEF Init
<1>2. <<>> \in Seq(LKJHistory)
  BY EmptySeq
<1> QED BY <1>1, <1>2 DEF Init, TypeOK, LinkState

(* The flags only ever hold a truth value. *)
LEMMA FlagsStep ==
  ASSUME TypeOK, [Next]_vars
  PROVE  /\ visible' \in BOOLEAN /\ hidden' \in BOOLEAN /\ lockViewIsLocked' \in BOOLEAN
         /\ alert' \in BOOLEAN /\ drifted' \in BOOLEAN
<1>1. /\ visible \in BOOLEAN /\ hidden \in BOOLEAN /\ lockViewIsLocked \in BOOLEAN
      /\ alert \in BOOLEAN /\ drifted \in BOOLEAN
  BY DEF TypeOK
<1>2. CASE Relaunch
  BY <1>2, Zenon DEF Relaunch
<1>3. CASE \E p \in Peripheral :
             DidConnectPeripheral(p) \/ DidDisconnectPeripheral(p) \/ LinkLost(p)
  <2>1. drifted' \in BOOLEAN
    BY <1>1, <1>3, Zenon DEF DidConnectPeripheral, DidDisconnectPeripheral, LinkLost
  <2> QED BY <1>1, <1>3, <2>1 DEF DidConnectPeripheral, DidDisconnectPeripheral, LinkLost,
                                  LinkBecomes, viewVars, tapVars
<1>4. CASE \E p \in Peripheral : KnownPeripheralFound(p) \/ SelectPeripheral(p)
  <2>1. drifted' \in BOOLEAN
    BY <1>1, <1>4, Zenon DEF KnownPeripheralFound, SelectPeripheral
  <2> QED BY <1>1, <1>4, <2>1 DEF KnownPeripheralFound, SelectPeripheral, viewVars, tapVars
<1>5. CASE ViewDidAppear \/ ViewWillDisappear \/ DismissAlert
  <2>1. visible' \in BOOLEAN /\ hidden' \in BOOLEAN /\ alert' \in BOOLEAN
    BY <1>1, <1>5, Zenon DEF ViewDidAppear, ViewWillDisappear, DismissAlert, viewVars
  <2> QED BY <1>1, <1>5, <2>1 DEF ViewDidAppear, ViewWillDisappear, DismissAlert, tapVars
<1>6. CASE ChangeLockStatus \/ ReadAgain
  <2>1. alert' \in BOOLEAN
    BY <1>1, <1>6, Zenon DEF ChangeLockStatus, ReadAgain, PresentAlert, viewVars
  <2> QED BY <1>1, <1>6, <2>1 DEF ChangeLockStatus, ReadAgain, PresentAlert, Goto, viewVars
<1>7. CASE Toggle
  <2>1. lockViewIsLocked' \in BOOLEAN
    BY <1>1, <1>7, Zenon DEF Toggle, ChangedLockStatus
  <2> QED BY <1>1, <1>7, <2>1 DEF Toggle, viewVars
<1>8. CASE LockDevice \/ UnlockDevice \/ Save
  BY <1>1, <1>8 DEF LockDevice, UnlockDevice, Save, Goto, viewVars
<1>9. CASE UNCHANGED vars
  BY <1>1, <1>9 DEF vars, viewVars, tapVars
<1> QED
  BY <1>2, <1>3, <1>4, <1>5, <1>6, <1>7, <1>8, <1>9 DEF Next, Answers, User, MainStep

LEMMA ControlTypeStep == TypeOK /\ MethodRunning /\ [Next]_vars => TypeOK'
<1> SUFFICES ASSUME TypeOK, MethodRunning, [Next]_vars PROVE TypeOK'
  OBVIOUS
<1>1. /\ visible' \in BOOLEAN /\ hidden' \in BOOLEAN /\ lockViewIsLocked' \in BOOLEAN
      /\ alert' \in BOOLEAN /\ drifted' \in BOOLEAN
  BY FlagsStep
<1>2. /\ connectedPeripherals' \subseteq Peripheral
      /\ selected' \in connectedPeripherals' \cup {Nil}
  BY DEF TypeOK, Next, Relaunch, Answers, DidConnectPeripheral, DidDisconnectPeripheral,
         LinkLost, LinkBecomes, KnownPeripheralFound, User, ViewDidAppear, ViewWillDisappear,
         DismissAlert, ChangeLockStatus, SelectPeripheral, MainStep, ReadAgain, Toggle,
         LockDevice, UnlockDevice, Save, vars, deviceVars
<1>3. link' \in [Peripheral -> LinkState]
  BY DEF TypeOK, Next, Relaunch, Answers, DidConnectPeripheral, DidDisconnectPeripheral,
         LinkLost, LinkBecomes, KnownPeripheralFound, User, ViewDidAppear, ViewWillDisappear,
         DismissAlert, ChangeLockStatus, SelectPeripheral, MainStep, ReadAgain, Toggle,
         LockDevice, UnlockDevice, Save, vars, LinkState
<1>4. pc' \in {"idle", "readAgain", "toggle", "lockDevice", "unlockDevice", "save"}
  BY DEF TypeOK, Next, Relaunch, Answers, DidConnectPeripheral, DidDisconnectPeripheral,
         LinkLost, LinkBecomes, KnownPeripheralFound, User, ViewDidAppear, ViewWillDisappear,
         DismissAlert, ChangeLockStatus, SelectPeripheral, MainStep, ReadAgain, Toggle,
         LockDevice, UnlockDevice, Save, PresentAlert, Goto, vars, tapVars
<1>5. historyObject' \in LKJHistory \cup {Nil} /\ history' \in Seq(LKJHistory)
  <2>1. CASE Toggle
    <3>1. selected \in Peripheral
      BY <2>1 DEF Toggle, MethodRunning, TypeOK
    <3>2. (~IsLocked(selected)) \in BOOLEAN
      BY Zenon DEF IsLocked
    <3> QED BY <2>1, <3>1, <3>2 DEF Toggle, CurrentName, IsLockAction, LKJHistory, TypeOK
  <2>2. CASE Save
    BY <2>2, AppendProperties DEF Save, MethodRunning, TypeOK
  <2>3. CASE ~Toggle /\ ~Save
    BY <2>3
    DEF TypeOK, Next, Relaunch, Answers, DidConnectPeripheral, DidDisconnectPeripheral,
         LinkLost, LinkBecomes, KnownPeripheralFound, User, ViewDidAppear, ViewWillDisappear,
         DismissAlert, ChangeLockStatus, SelectPeripheral, MainStep, ReadAgain,
         LockDevice, UnlockDevice, PresentAlert, Goto, vars, tapVars
  <2> QED BY <2>1, <2>2, <2>3
<1> QED BY <1>1, <1>2, <1>3, <1>4, <1>5 DEF TypeOK

(***************************************************************************)
(* The inductive step, one action at a time.                               *)
(***************************************************************************)
LEMMA ControlInit == Init => ControlInv
<1> QED BY DEF Init, ControlInv, MethodRunning, CommandAtRest, CommandPending,
               InterfaceAgrees, RecordMatchesInterface

LEMMA ControlStep == TypeOK /\ ControlInv /\ [Next]_vars => ControlInv'
<1> SUFFICES ASSUME TypeOK, ControlInv, [Next]_vars PROVE ControlInv'
  OBVIOUS
<1> USE DEF ControlInv, MethodRunning, CommandAtRest, CommandPending, InterfaceAgrees,
            RecordMatchesInterface, Locked
<1>1. CASE Relaunch
  BY <1>1 DEF Relaunch
<1>2. CASE \E p \in Peripheral : DidConnectPeripheral(p) \/ DidDisconnectPeripheral(p)
  BY <1>2 DEF DidConnectPeripheral, DidDisconnectPeripheral, LinkBecomes, deviceVars,
              tapVars, TypeOK
<1>3. ASSUME NEW p \in Peripheral, LinkLost(p) PROVE ControlInv'
  <2>1. ~drifted' => ~drifted /\ p # selected
    BY <1>3, Zenon DEF LinkLost
  <2>2. CASE p = selected
    <3>1. drifted'
      BY <2>1, <2>2
    <3> QED BY <1>3, <2>2, <3>1 DEF LinkLost, LinkBecomes, deviceVars, tapVars, TypeOK
  <2>3. CASE p # selected
    <3>1. selected' = selected /\ link'[selected] = link[selected]
      BY <1>3, <2>3 DEF LinkLost, LinkBecomes, deviceVars, TypeOK
    <3> QED BY <1>3, <2>1, <3>1 DEF LinkLost, LinkBecomes, tapVars
  <2> QED BY <2>2, <2>3
<1>4. CASE \E p \in Peripheral : KnownPeripheralFound(p)
  BY <1>4 DEF KnownPeripheralFound, tapVars
<1>5. ASSUME NEW p \in Peripheral, SelectPeripheral(p) PROVE ControlInv'
  <2>1. ~drifted' => (lockViewIsLocked <=> Locked(p))
    BY <1>5, Zenon DEF SelectPeripheral
  <2> QED BY <1>5, <2>1 DEF SelectPeripheral, tapVars
<1>6. CASE ViewDidAppear \/ ViewWillDisappear \/ DismissAlert
  BY <1>6 DEF ViewDidAppear, ViewWillDisappear, DismissAlert, deviceVars, tapVars
<1>7. CASE ChangeLockStatus \/ ReadAgain
  BY <1>7 DEF ChangeLockStatus, ReadAgain, PresentAlert, Goto, IsDisconnected, deviceVars
<1>8. CASE Toggle
  BY <1>8 DEF Toggle, ChangedLockStatus, CurrentName, IsLockAction, IsLocked, LKJHistory,
              deviceVars, TypeOK
<1>9. CASE LockDevice
  BY <1>9 DEF LockDevice, Goto, IsLocked, deviceVars, TypeOK
<1>10. CASE UnlockDevice
  BY <1>10 DEF UnlockDevice, Goto, IsLocked, deviceVars, TypeOK
<1>11. CASE Save
  BY <1>11 DEF Save, deviceVars
<1>12. CASE UNCHANGED vars
  BY <1>12 DEF vars, deviceVars, tapVars
<1> QED
  BY <1>1, <1>2, <1>3, <1>4, <1>5, <1>6, <1>7, <1>8, <1>9, <1>10, <1>11, <1>12
  DEF Next, Answers, User, MainStep

(* Every variable keeps its type, and the invariant holds.                 *)
THEOREM ControlTypeCorrect == Spec => []TypeOK
<1>1. TypeOK /\ ControlInv /\ [Next]_vars => TypeOK' /\ ControlInv'
  BY ControlTypeStep, ControlStep DEF ControlInv
<1> QED BY <1>1, ControlTypeInit, ControlInit, PTL DEF Spec

(* The inductive invariant of changeLockStatus: and its environment.       *)
THEOREM ControlInvariant == Spec => []ControlInv
<1>1. TypeOK /\ ControlInv /\ [Next]_vars => TypeOK' /\ ControlInv'
  BY ControlTypeStep, ControlStep DEF ControlInv
<1> QED BY <1>1, ControlTypeInit, ControlInit, PTL DEF Spec

(* No tap alone sets the lock view and the lock apart.                     *)
THEOREM InterfaceStaysTrue == Spec => []InterfaceAgrees
<1>1. ControlInv => InterfaceAgrees
  BY DEF ControlInv
<1> QED BY <1>1, ControlInvariant, PTL

(* lockDevice and unlockDevice find the link at rest.                      *)
THEOREM CommandsAtRest == Spec => []CommandAtRest
<1>1. ControlInv => CommandAtRest
  BY DEF ControlInv
<1> QED BY <1>1, ControlInvariant, PTL

(* The object stored says what the lock view shows. *)
THEOREM RecordsAgree == Spec => []RecordMatchesInterface
<1>1. ControlInv => RecordMatchesInterface
  BY DEF ControlInv
<1> QED BY <1>1, ControlInvariant, PTL

LEMMA ShownStep == TypeOK /\ SelectedLockShown /\ [Next]_vars => SelectedLockShown'
<1> SUFFICES ASSUME TypeOK, SelectedLockShown, [Next]_vars PROVE SelectedLockShown'
  OBVIOUS
<1>1. CASE ViewDidAppear
  <2>1. selected' # Nil => ExistsBluetoothDevice
    BY <1>1 DEF ViewDidAppear, ExistsBluetoothDevice, deviceVars, TypeOK
  <2> QED BY <1>1, <2>1, Zenon DEF ViewDidAppear, SelectedLockShown
<1>2. CASE Relaunch \/ ViewWillDisappear
  BY <1>2, Zenon DEF Relaunch, ViewWillDisappear, SelectedLockShown
<1>3. CASE \E p \in Peripheral : SelectPeripheral(p)
  <2>1. ~visible /\ visible' = visible
    BY <1>3 DEF SelectPeripheral, viewVars
  <2> QED BY <2>1, Zenon DEF SelectedLockShown
<1>4. CASE ~ViewDidAppear /\ ~Relaunch /\ ~ViewWillDisappear
           /\ ~ \E p \in Peripheral : SelectPeripheral(p)
  <2>1. UNCHANGED <<visible, hidden, selected>>
    BY <1>4 DEF Next, Answers, DidConnectPeripheral, DidDisconnectPeripheral, LinkLost,
       LinkBecomes, KnownPeripheralFound, User, DismissAlert, ChangeLockStatus, PresentAlert,
       MainStep, ReadAgain, Toggle, LockDevice, UnlockDevice, Save, viewVars, deviceVars, vars
  <2>2. visible' = visible /\ hidden' = hidden /\ selected' = selected
    BY <2>1
  <2> QED BY <2>2, Zenon DEF SelectedLockShown
<1> QED BY <1>1, <1>2, <1>3, <1>4

(* A selected lock is on the Control tab whenever the tab is on screen. *)
THEOREM SelectedIsShown == Spec => []SelectedLockShown
<1>1. Init => SelectedLockShown
  BY Zenon DEF Init, SelectedLockShown
<1> QED BY <1>1, ShownStep, ControlTypeCorrect, PTL DEF Spec
=============================================================================
