------------------------ MODULE LKJLockViewController ------------------------
(***************************************************************************)
(* The Control tab: LKJLockViewController.m, its LKJLockView, and the      *)
(* methods of LKJBluetoothController.m it calls to lock, to unlock and to  *)
(* ask.  changeLockStatus: runs on the main thread and reads the state of  *)
(* the selected CBPeripheral up to four times; CoreBluetooth changes that  *)
(* state on its own, between any two of them.                              *)
(*                                                                         *)
(* The selected index is modelled as the device it finds, or Nil for -1:   *)
(* LKJBluetoothController implements this reading of it                    *)
(* (ImplementsControlDevices), so only a tap changes it.                   *)
(***************************************************************************)
EXTENDS Naturals, Sequences

CONSTANTS
  Peripheral,   \* the named peripherals
  Nil,          \* no peripheral
  MaxHistory    \* bound: history objects stored

ASSUME ControlAssumption == Nil \notin Peripheral /\ MaxHistory \in Nat \ {0}

VARIABLES
  connectedPeripherals,  \* the devices in the controller's array
  selected,      \* the one selectedBluetoothDeviceIndex finds, or Nil
  link,          \* CBPeripheral.state of each peripheral (external)
  visible,       \* the Control tab is on screen (external)
  hidden,        \* lockView.hidden
  lockViewIsLocked,  \* lockView.isLocked
  alert,         \* the alert is on screen
  pc,            \* where the main thread is in changeLockStatus:
  historyObject, \* the local variable of that name
  history,       \* the LKJHistory objects committed to Realm
  drifted        \* history: link[selected] changed behind the lock view

deviceVars == <<connectedPeripherals, selected>>
viewVars == <<visible, hidden, alert>>
tapVars == <<lockViewIsLocked, pc, historyObject, history>>
vars == <<deviceVars, link, viewVars, tapVars, drifted>>

LinkState == {"disconnected", "connecting", "connected", "disconnecting"}

LKJHistory == [lockName : Peripheral, isLockAction : BOOLEAN]

(* What the lock is, or is on its way to be: the notion of the properties; *)
(* what the code asks is IsLocked, below.                                  *)
Locked(p) == link[p] \in {"disconnected", "disconnecting"}

Init ==
  /\ connectedPeripherals = {}
  /\ selected = Nil
  /\ link = [p \in Peripheral |-> "disconnected"]
  /\ visible = FALSE
  /\ hidden = FALSE
  /\ lockViewIsLocked = TRUE
  /\ alert = FALSE
  /\ pc = "idle"
  /\ historyObject = Nil
  /\ history = <<>>
  /\ drifted = FALSE

(* The process dies, which drops its connections, and is started again. *)
Relaunch ==
  /\ connectedPeripherals' = {}
  /\ selected' = Nil
  /\ link' = [p \in Peripheral |-> "disconnected"]
  /\ visible' = FALSE
  /\ hidden' = FALSE
  /\ lockViewIsLocked' = TRUE
  /\ alert' = FALSE
  /\ pc' = "idle"
  /\ historyObject' = Nil
  /\ drifted' = FALSE
  /\ UNCHANGED history
-----------------------------------------------------------------------------
(***************************************************************************)
(* CoreBluetooth.  The delegate methods it calls post notifications that   *)
(* nothing in the app observes, so only the state of the peripheral moves. *)
(***************************************************************************)
LinkBecomes(p, state) ==
  /\ link' = [link EXCEPT ![p] = state]
  /\ UNCHANGED <<deviceVars, viewVars, tapVars>>

DidConnectPeripheral(p) ==
  /\ link[p] = "connecting"
  /\ LinkBecomes(p, "connected")
  /\ UNCHANGED drifted

DidDisconnectPeripheral(p) ==
  /\ link[p] = "disconnecting"
  /\ LinkBecomes(p, "disconnected")
  /\ UNCHANGED drifted

(* Out of range, the radio off, or the connection refused. *)
LinkLost(p) ==
  /\ link[p] \in {"connecting", "connected"}
  /\ LinkBecomes(p, "disconnected")
  /\ drifted' = (drifted \/ p = selected)
-----------------------------------------------------------------------------
(* The BLE queue finds a peripheral known from an earlier launch. *)
KnownPeripheralFound(p) ==
  /\ connectedPeripherals' = connectedPeripherals \cup {p}
  /\ UNCHANGED <<selected, link, viewVars, tapVars, drifted>>

(* A row of the Connect tab is tapped.  The lock view hears nothing of it. *)
SelectPeripheral(p) ==
  /\ pc = "idle"
  /\ ~visible
  /\ connectedPeripherals' = connectedPeripherals \cup {p}
  /\ selected' = p
  /\ drifted' = ~(lockViewIsLocked <=> Locked(p))
  /\ UNCHANGED <<link, viewVars, tapVars>>

SecondDeviceMutant == \E p, q \in connectedPeripherals : p # q

ExistsBluetoothDevice == connectedPeripherals # {}

ViewDidAppear ==
  /\ pc = "idle"
  /\ ~visible
  /\ visible' = TRUE
  /\ hidden' = ~ExistsBluetoothDevice
  /\ UNCHANGED <<deviceVars, link, alert, tapVars, drifted>>

(* The alert is modal: no tab can be chosen behind it. *)
ViewWillDisappear ==
  /\ pc = "idle"
  /\ visible
  /\ ~alert
  /\ visible' = FALSE
  /\ UNCHANGED <<deviceVars, link, hidden, alert, tapVars, drifted>>

DismissAlert ==
  /\ alert
  /\ alert' = FALSE
  /\ UNCHANGED <<deviceVars, link, visible, hidden, tapVars, drifted>>
-----------------------------------------------------------------------------
(***************************************************************************)
(* changeLockStatus: asks isElgibleForLock, which reads the state once to  *)
(* see whether it is connected and again to see whether it is not.         *)
(***************************************************************************)
Goto(label) == pc' = label /\ UNCHANGED <<lockViewIsLocked, historyObject, history>>

PresentAlert ==
  /\ alert' = TRUE
  /\ Goto("idle")
  /\ UNCHANGED <<visible, hidden>>

ChangeLockStatus ==
  /\ pc = "idle"
  /\ visible /\ ~hidden /\ ~alert
  /\ Len(history) < MaxHistory
  /\ \/ selected = Nil /\ PresentAlert
     \/ selected # Nil /\ link[selected] = "connected" /\ Goto("toggle") /\ UNCHANGED viewVars
     \/ selected # Nil /\ link[selected] # "connected" /\ Goto("readAgain") /\ UNCHANGED viewVars
  /\ UNCHANGED <<deviceVars, link, drifted>>

AnyStateMutant(p) == link[p] # "connected"

IsDisconnected(p) == link[p] = "disconnected"

ReadAgain ==
  /\ pc = "readAgain"
  /\ \/ IsDisconnected(selected) /\ Goto("toggle") /\ UNCHANGED viewVars
     \/ ~IsDisconnected(selected) /\ PresentAlert
  /\ UNCHANGED <<deviceVars, link, drifted>>

AlwaysLockedMutant == TRUE

(* -[LKJLockView changeLockStatus]. *)
ChangedLockStatus == ~lockViewIsLocked

NoNameMutant == Nil

CurrentName == selected

IsLocked(p) == link[p] # "connected"

FromViewMutant == ~lockViewIsLocked

IsLockAction == ~IsLocked(selected)

(* The lock view turns, then isLocked chooses which command to record. *)
Toggle ==
  /\ pc = "toggle"
  /\ lockViewIsLocked' = ChangedLockStatus
  /\ historyObject' = [lockName |-> CurrentName, isLockAction |-> IsLockAction]
  /\ pc' = IF IsLocked(selected) THEN "unlockDevice" ELSE "lockDevice"
  /\ UNCHANGED <<deviceVars, link, viewVars, history, drifted>>

(* Both ask isLocked once more before they send anything. *)
LockDevice ==
  /\ pc = "lockDevice"
  /\ link' = IF IsLocked(selected) THEN link ELSE [link EXCEPT ![selected] = "disconnecting"]
  /\ Goto("save")
  /\ UNCHANGED <<deviceVars, viewVars, drifted>>

UnlockDevice ==
  /\ pc = "unlockDevice"
  /\ link' = IF IsLocked(selected) THEN [link EXCEPT ![selected] = "connecting"] ELSE link
  /\ Goto("save")
  /\ UNCHANGED <<deviceVars, viewVars, drifted>>

Save ==
  /\ pc = "save"
  /\ history' = Append(history, historyObject)
  /\ historyObject' = Nil
  /\ pc' = "idle"
  /\ UNCHANGED <<deviceVars, link, viewVars, lockViewIsLocked, drifted>>
-----------------------------------------------------------------------------
MainStep == ReadAgain \/ Toggle \/ LockDevice \/ UnlockDevice \/ Save

User ==
  \/ ViewDidAppear
  \/ ViewWillDisappear
  \/ DismissAlert
  \/ ChangeLockStatus
  \/ \E p \in Peripheral : SelectPeripheral(p)

Answers == \E p \in Peripheral : DidConnectPeripheral(p) \/ DidDisconnectPeripheral(p)

Next ==
  \/ Relaunch
  \/ Answers
  \/ \E p \in Peripheral : LinkLost(p)
  \/ \E p \in Peripheral : KnownPeripheralFound(p)
  \/ User
  \/ MainStep

Spec == Init /\ [][Next]_vars

(* Nothing fails: the app stays alive and each lock answers and stays near. *)
CalmSpec ==
  /\ Init
  /\ [][ \/ Answers
         \/ \E p \in Peripheral : KnownPeripheralFound(p)
         \/ User
         \/ MainStep ]_vars
  /\ WF_vars(Answers)
  /\ WF_vars(MainStep)
-----------------------------------------------------------------------------
TypeOK ==
  /\ connectedPeripherals \subseteq Peripheral
  /\ selected \in connectedPeripherals \cup {Nil}
  /\ link \in [Peripheral -> LinkState]
  /\ visible \in BOOLEAN
  /\ hidden \in BOOLEAN
  /\ lockViewIsLocked \in BOOLEAN
  /\ alert \in BOOLEAN
  /\ pc \in {"idle", "readAgain", "toggle", "lockDevice", "unlockDevice", "save"}
  /\ historyObject \in LKJHistory \cup {Nil}
  /\ history \in Seq(LKJHistory)
  /\ drifted \in BOOLEAN

(***************************************************************************)
(* The lock view shows what the selected lock is, or is about to be,       *)
(* unless its link was lost or another device was selected since: whatever *)
(* the state does between the reads of changeLockStatus:, no tap alone     *)
(* sets the view and the lock apart.                                       *)
(***************************************************************************)
InterfaceAgrees ==
  pc \notin {"lockDevice", "unlockDevice"} /\ selected # Nil /\ ~drifted =>
    (lockViewIsLocked <=> Locked(selected))

(***************************************************************************)
(* A command reaches a peripheral only while its link is at rest: a second *)
(* tap never calls cancelPeripheralConnection: or connectPeripheral: on a  *)
(* link that is still answering the first, though the state was read two   *)
(* messages earlier.                                                       *)
(***************************************************************************)
CommandAtRest ==
  pc \in {"toggle", "lockDevice", "unlockDevice"} =>
    link[selected] \in {"connected", "disconnected"}

(* What is recorded is what the lock view shows, unless a link was lost or *)
(* another device selected: the view turns before isLocked is asked.       *)
RecordMatchesInterface ==
  pc = "save" /\ ~drifted => (historyObject.isLockAction <=> lockViewIsLocked)

(***************************************************************************)
(* A selected lock is never behind "No Capsus connected.", though the view *)
(* asks only when it appears and devices are found and selected later: one *)
(* found while the tab is on screen is not shown, but cannot be selected.  *)
(***************************************************************************)
SelectedLockShown == visible /\ selected # Nil => ~hidden

(***************************************************************************)
(* Why: between the read that passes isElgibleForLock and the command only *)
(* the loss of the link can move it, and the view has turned just once.    *)
(***************************************************************************)
MethodRunning ==
  /\ pc # "idle" => selected # Nil
  /\ pc \in {"lockDevice", "unlockDevice", "save"} => historyObject \in LKJHistory

CommandPending ==
  /\ pc = "lockDevice" => historyObject.isLockAction
  /\ pc = "unlockDevice" => ~historyObject.isLockAction
  /\ pc = "lockDevice" /\ ~drifted => lockViewIsLocked /\ link[selected] = "connected"
  /\ pc = "unlockDevice" /\ ~drifted => ~lockViewIsLocked /\ link[selected] = "disconnected"

ControlInv ==
  /\ MethodRunning
  /\ CommandAtRest
  /\ CommandPending
  /\ InterfaceAgrees
  /\ RecordMatchesInterface
-----------------------------------------------------------------------------
(***************************************************************************)
(* What the repository says and the code does not do.                      *)
(***************************************************************************)
AtRest(p) == link[p] \in {"connected", "disconnected"}

(* README.md:3: the "locking interface" wraps connecting and               *)
(* disconnecting: once all is quiet it shows a lock that is not connected  *)
(* as locked.  Nothing tells it of a lost link or of another selection.    *)
InterfaceShowsLock ==
  pc = "idle" /\ visible /\ ~hidden /\ selected # Nil /\ AtRest(selected) =>
    (lockViewIsLocked <=> link[selected] = "disconnected")

(* LKJLockViewController.m:120: "Please try again in a few seconds.": if   *)
(* each lock answers, a tap finds the lock eligible in the end.  With no   *)
(* device selected, as after a relaunch, none ever does.                   *)
IsElgibleForLock == selected # Nil /\ AtRest(selected)

TryingAgainHelps == alert ~> IsElgibleForLock
=============================================================================
