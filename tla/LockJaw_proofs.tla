--------------------------- MODULE LockJaw_proofs ---------------------------
(***************************************************************************)
(* Theorems about the app: the tabs keep their invariant, and with them in *)
(* place the Control tab is that of LKJLockViewController.                 *)
(***************************************************************************)
EXTENDS LockJaw, LKJHistoryTableViewController_proofs, SequenceTheorems

(* Whatever the app does, the tabs take one of their own steps or none.    *)
LEMMA TabsUnderneath ==
  ASSUME [AppNext]_appVars
  PROVE  [TabNext]_tabVars
<1>1. CASE AppRelaunch
  BY <1>1 DEF AppRelaunch, HistoryRelaunch, TabNext
<1>2. CASE Launched
  <2>1. ViewDidLoad(Lock!ExistsBluetoothDevice)
    BY <1>2 DEF Launched
  <2>2. Lock!ExistsBluetoothDevice \in BOOLEAN
    BY DEF Lock!ExistsBluetoothDevice
  <2>3. \E existsBluetoothDevice \in BOOLEAN : ViewDidLoad(existsBluetoothDevice)
    BY <2>1, <2>2
  <2> QED BY <2>3, Zenon DEF TabSwitches, TabNext
<1>3. CASE Opened
  BY <1>3 DEF Opened, TabNext
<1>4. CASE Appeared
  BY <1>4 DEF Appeared, Appear, TabNext
<1>5. CASE \E t \in Tab : TabTapped(t)
  BY <1>5, Zenon DEF TabTapped, TabSwitches, TabNext
<1>6. CASE \E p \in Peripheral : RowTapped(p)
  BY <1>6, Zenon DEF RowTapped, TabSwitches, TabNext
<1>7. CASE \E object \in LKJHistory : Saved(object)
  BY <1>7, Zenon DEF Saved, StoreHistory
<1>8. CASE LockTapped
  BY <1>8, Zenon DEF LockTapped
<1>9. CASE Bluetooth
  BY <1>9, Zenon DEF Bluetooth
<1>10. CASE UNCHANGED appVars
  BY <1>10, Zenon DEF appVars
<1> QED BY <1>1, <1>2, <1>3, <1>4, <1>5, <1>6, <1>7, <1>8, <1>9, <1>10, Zenon DEF AppNext

(* The tabs keep their invariant in every execution of the app.            *)
THEOREM TabInvariant == AppSpec => []TabInv
<1>1. AppInit => TabInv
  BY TabInitOK DEF AppInit, HistoryInit
<1>2. TabInv /\ [AppNext]_appVars => TabInv'
  BY TabsUnderneath, TabStepOK
<1> QED BY <1>1, <1>2, PTL DEF AppSpec

(* The current content, and it alone, fills the content view.              *)
THEOREM OneContent == AppSpec => []ContentFillsView
<1>1. TabInv => ContentFillsView
  BY TabInvImplies
<1> QED BY <1>1, TabInvariant, PTL

(* The lit button is the one of the content on screen.                     *)
THEOREM HighlightIsContent == AppSpec => []HighlightShowsContent
<1>1. TabInv => HighlightShowsContent
  BY TabInvImplies
<1> QED BY <1>1, TabInvariant, PTL
-----------------------------------------------------------------------------
(***************************************************************************)
(* The life cycle of the contents.  With TabInv before and after a step,   *)
(* what a content has registered follows from where it is; and no content  *)
(* comes on screen without having been told that it will.                  *)
(***************************************************************************)
LEMMA NoneAppearsUntold ==
  ASSUME TabInv, [TabNext]_tabVars, NEW t \in Tab, appearance[t] = "hidden"
  PROVE  appearance'[t] # "visible"
<1>1. CASE TabRelaunch
  BY <1>1 DEF TabRelaunch
<1>2. CASE TabSwitches
  <2>1. PICK v \in Tab : ButtonClicked(v)
    BY <1>2 DEF TabSwitches, ViewDidLoad, TapButton, RowSelected, Tab
  <2> QED BY <2>1 DEF ButtonClicked, ActionBlock
<1>3. CASE EntersWindow \/ ContentAppears \/ UNCHANGED tabVars
  BY <1>3 DEF EntersWindow, ContentAppears, tabVars, TabInv
<1> QED BY <1>1, <1>2, <1>3 DEF TabNext

LEMMA LifeCycleStep ==
  ASSUME TabInv, TabInv', [TabNext]_tabVars
  PROVE  /\ [ConnectContent!Next]_(ConnectContent!vars)
         /\ [ControlContent!Next]_(ControlContent!vars)
<1>1. /\ Connect \in Tab /\ Control \in Tab
      /\ \A t \in Tab : /\ appearance[t] \in {"hidden", "appearing", "visible"}
                        /\ appearance'[t] \in {"hidden", "appearing", "visible"}
  BY DEF TabInv, Tab
<1>2. /\ registrations[Connect] = 1 <=> appearance[Connect] # "hidden"
      /\ registrations'[Connect] = 1 <=> appearance'[Connect] # "hidden"
      /\ registrations[Control] = 1 <=> appearance[Control] = "visible"
      /\ registrations'[Control] = 1 <=> appearance'[Control] = "visible"
  BY DEF TabInv, RegistersWhileShown
<1>3. [ConnectContent!Next]_(ConnectContent!vars)
  BY <1>1, <1>2, NoneAppearsUntold
  DEF ConnectContent!Next, ConnectContent!ViewWillAppear, ConnectContent!ViewDidAppear,
      ConnectContent!ViewWillDisappear, ConnectContent!TakenOutAndPutBack, ConnectContent!vars
<1>4. [ControlContent!Next]_(ControlContent!vars)
  BY <1>1, <1>2, NoneAppearsUntold
  DEF ControlContent!Next, ControlContent!ViewWillAppear, ControlContent!ViewDidAppear,
      ControlContent!ViewWillDisappear, ControlContent!TakenOutAndPutBack, ControlContent!vars
<1> QED BY <1>3, <1>4

(***************************************************************************)
(* The tabs drive the Connect and the Control content through the life     *)
(* cycle each of them is written for, and each observes as it says.        *)
(***************************************************************************)
THEOREM ContentsLifeCycle == AppSpec => ContentsKeepLifeCycle
<1>1. TabInit => ConnectContent!Init /\ ControlContent!Init
  BY DEF TabInit, ConnectContent!Init, ControlContent!Init, Tab, Control, Connect
<1>2. AppInit => ConnectContent!Init /\ ControlContent!Init
  BY <1>1 DEF AppInit, HistoryInit
<1>3. TabInv /\ TabInv' /\ [AppNext]_appVars
        => /\ [ConnectContent!Next]_(ConnectContent!vars)
           /\ [ControlContent!Next]_(ControlContent!vars)
  BY TabsUnderneath, LifeCycleStep
<1> QED
  BY <1>2, <1>3, TabInvariant, PTL
  DEF AppSpec, ContentsKeepLifeCycle, ConnectContent!Spec, ControlContent!Spec
-----------------------------------------------------------------------------
(***************************************************************************)
(* The refinement.  visible is appearance[Control] = "visible".            *)
(***************************************************************************)
LEMMA LeavingHides ==
  ASSUME NEW v \in Tab, ButtonClicked(v)
  PROVE  ~visible'
BY DEF ButtonClicked, ActionBlock, visible, Tab, Control, Connect, History

LEMMA AppInitRefines == AppInit => Lock!Init
BY DEF AppInit

(* Steps that leave the Control tab's own variables alone.                 *)
LEMMA Unseen ==
  ASSUME UNCHANGED controlVars, visible' = visible
  PROVE  UNCHANGED Lock!vars
BY Zenon DEF controlVars, Lock!vars, Lock!deviceVars, Lock!viewVars, Lock!tapVars

LEMMA LaunchedRefines ==
  ASSUME TabInv, Launched
  PROVE  UNCHANGED Lock!vars
<1>1. ~visible
  BY NilIsNoTab DEF Launched, ViewDidLoad, TabInv, OnlyContentAppears, visible,
                    Tab, Control, Connect, History
<1>2. ~visible'
  <2>1. PICK v \in Tab : ButtonClicked(v)
    BY DEF Launched, ViewDidLoad, Tab
  <2> QED BY <2>1, LeavingHides
<1>3. visible' = visible
  BY <1>1, <1>2, Zenon DEF visible
<1>4. UNCHANGED controlVars
  BY Zenon DEF Launched
<1> QED BY <1>3, <1>4, Unseen

LEMMA OpenedRefines ==
  ASSUME TabInv, Opened
  PROVE  UNCHANGED Lock!vars
<1>1. currentContent \in Tab /\ currentContent # Nil /\ appearance[currentContent] = "hidden"
  BY DEF Opened, EntersWindow, TabInv, OnlyContentAppears
<1>2. appearance' = [appearance EXCEPT ![currentContent] = "appearing"]
  BY DEF Opened, EntersWindow
<1>3. (appearance'[Control] = "visible") <=> (appearance[Control] = "visible")
  BY <1>1, <1>2 DEF TabInv, Tab
<1>4. visible' = visible
  BY <1>3, Zenon DEF visible
<1>5. UNCHANGED controlVars
  BY Zenon DEF Opened
<1> QED BY <1>4, <1>5, Unseen

LEMMA AppearedRefines ==
  ASSUME TabInv, Appeared
  PROVE  [Lock!Next]_(Lock!vars)
<1>1. CASE currentContent = Control
  BY <1>1 DEF Appeared, Lock!Next, Lock!User
<1>2. CASE currentContent # Control
  <2>1. appearance' = [appearance EXCEPT ![currentContent] = "visible"]
    BY DEF Appeared, Appear, ContentAppears
  <2>2. appearance'[Control] = appearance[Control]
    BY <1>2, <2>1 DEF TabInv, Tab
  <2>3. visible' = visible
    BY <2>2 DEF visible
  <2>4. UNCHANGED controlVars
    BY <1>2 DEF Appeared
  <2> QED BY <2>3, <2>4, Unseen
<1> QED BY <1>1, <1>2

LEMMA TabTappedRefines ==
  ASSUME NEW t \in Tab, TabTapped(t)
  PROVE  [Lock!Next]_(Lock!vars)
<1>1. ~visible'
  BY LeavingHides DEF TabTapped, TapButton
<1>2. UNCHANGED controlVars
  BY Zenon DEF TabTapped
<1>3. CASE visible
  <2>1. visible' = FALSE
    BY <1>1, Zenon DEF visible
  <2>2. Lock!ViewWillDisappear
    BY <1>2, <1>3, <2>1, Zenon DEF TabTapped, TouchesReachTabs, controlVars,
         Lock!ViewWillDisappear, Lock!deviceVars, Lock!tapVars
  <2> QED BY <2>2, Zenon DEF Lock!Next, Lock!User
<1>4. CASE ~visible
  <2>1. visible' = visible
    BY <1>1, <1>4, Zenon DEF visible
  <2> QED BY <1>2, <2>1, Unseen
<1> QED BY <1>3, <1>4

(***************************************************************************)
(* The app implements LKJLockViewController: a switch of tabs is its       *)
(* ViewWillDisappear or nothing to it, and never comes in the middle of    *)
(* changeLockStatus: or under the alert.                                   *)
(***************************************************************************)
THEOREM ControlRefinement == AppSpec => ImplementsControl
<1>1. ASSUME TabInv, [AppNext]_appVars
      PROVE  [Lock!Next]_(Lock!vars)
  <2>1. CASE AppRelaunch
    BY <2>1, Zenon DEF AppRelaunch, Lock!Next
  <2>2. CASE Launched
    BY <1>1, <2>2, LaunchedRefines
  <2>3. CASE Opened
    BY <1>1, <2>3, OpenedRefines
  <2>4. CASE Appeared
    BY <1>1, <2>4, AppearedRefines
  <2>5. CASE \E t \in Tab : TabTapped(t)
    BY <2>5, TabTappedRefines
  <2>6. CASE \E p \in Peripheral : RowTapped(p)
    BY <2>6, Zenon DEF RowTapped, Lock!Next, Lock!User
  <2>7. CASE \E object \in LKJHistory : Saved(object)
    BY <2>7, Zenon DEF Saved, Lock!Next, Lock!MainStep
  <2>8. CASE LockTapped
    BY <2>8, Zenon DEF LockTapped, Lock!Next, Lock!MainStep, Lock!User
  <2>9. CASE Bluetooth
    BY <2>9, Zenon DEF Bluetooth, Lock!Next
  <2>10. CASE UNCHANGED appVars
    <3>1. UNCHANGED controlVars /\ appearance' = appearance
      BY <2>10, Zenon DEF appVars, tabVars
    <3>2. visible' = visible
      BY <3>1 DEF visible
    <3> QED BY <3>1, <3>2, Unseen
  <2> QED BY <1>1, <2>1, <2>2, <2>3, <2>4, <2>5, <2>6, <2>7, <2>8, <2>9, <2>10, Zenon
          DEF AppNext
<1> QED BY <1>1, AppInitRefines, TabInvariant, PTL DEF AppSpec, ImplementsControl, Lock!Spec

(***************************************************************************)
(* The theorems on the Control tab were proved of LKJLockViewController.   *)
(* Proved is that module with its theorems, over the variables of the app; *)
(* its specification is Lock's, read once more.                            *)
(***************************************************************************)
Proved == INSTANCE LKJLockViewController_proofs

LEMMA SameControlStep ==
  ASSUME [Lock!Next]_(Lock!vars)
  PROVE  [Proved!Next]_(Proved!vars)
<1>1. CASE Lock!Relaunch
  <2>1. Proved!Relaunch
    BY <1>1 DEF Lock!Relaunch, Proved!Relaunch
  <2> QED BY <2>1 DEF Proved!Next
<1>2. CASE Lock!Answers
  <2>1. Proved!Answers
    BY <1>2 DEF Lock!Answers, Proved!Answers, Lock!DidConnectPeripheral,
           Proved!DidConnectPeripheral, Lock!DidDisconnectPeripheral,
           Proved!DidDisconnectPeripheral, Lock!LinkBecomes, Proved!LinkBecomes,
           Lock!deviceVars, Proved!deviceVars, Lock!viewVars, Proved!viewVars,
           Lock!tapVars, Proved!tapVars
  <2> QED BY <2>1 DEF Proved!Next
<1>3. CASE \E p \in Peripheral : Lock!LinkLost(p)
  <2>1. \E p \in Peripheral : Proved!LinkLost(p)
    BY <1>3 DEF Lock!LinkLost, Proved!LinkLost, Lock!LinkBecomes,
           Proved!LinkBecomes, Lock!deviceVars, Proved!deviceVars, Lock!viewVars,
           Proved!viewVars, Lock!tapVars, Proved!tapVars
  <2> QED BY <2>1, Zenon DEF Proved!Next
<1>4. CASE \E p \in Peripheral : Lock!KnownPeripheralFound(p)
  <2>1. \E p \in Peripheral : Proved!KnownPeripheralFound(p)
    BY <1>4 DEF Lock!KnownPeripheralFound, Proved!KnownPeripheralFound,
           Lock!viewVars, Proved!viewVars, Lock!tapVars, Proved!tapVars
  <2> QED BY <2>1, Zenon DEF Proved!Next
<1>5. CASE Lock!User
  <2>1. Proved!User
    BY <1>5 DEF Lock!User, Proved!User, Lock!SelectPeripheral,
           Proved!SelectPeripheral, Lock!Locked, Proved!Locked, Lock!ViewDidAppear,
           Proved!ViewDidAppear, Lock!ExistsBluetoothDevice,
           Proved!ExistsBluetoothDevice, Lock!ViewWillDisappear,
           Proved!ViewWillDisappear, Lock!DismissAlert, Proved!DismissAlert,
           Lock!ChangeLockStatus, Proved!ChangeLockStatus, Lock!PresentAlert,
           Proved!PresentAlert, Lock!Goto, Proved!Goto, Lock!deviceVars,
           Proved!deviceVars, Lock!viewVars, Proved!viewVars, Lock!tapVars,
           Proved!tapVars
  <2> QED BY <2>1 DEF Proved!Next
<1>6. CASE Lock!MainStep
  <2>1. Proved!MainStep
    BY <1>6 DEF Lock!MainStep, Proved!MainStep, Lock!ReadAgain, Proved!ReadAgain,
           Lock!IsDisconnected, Proved!IsDisconnected, Lock!PresentAlert,
           Proved!PresentAlert, Lock!Goto, Proved!Goto, Lock!Toggle, Proved!Toggle,
           Lock!ChangedLockStatus, Proved!ChangedLockStatus, Lock!CurrentName,
           Proved!CurrentName, Lock!IsLockAction, Proved!IsLockAction, Lock!IsLocked, Proved!IsLocked, Lock!LockDevice,
           Proved!LockDevice, Lock!UnlockDevice, Proved!UnlockDevice, Lock!Save,
           Proved!Save, Lock!deviceVars, Proved!deviceVars, Lock!viewVars,
           Proved!viewVars, Lock!tapVars, Proved!tapVars
  <2> QED BY <2>1 DEF Proved!Next
<1>7. CASE UNCHANGED Lock!vars
  BY <1>7 DEF Lock!vars, Proved!vars, Lock!deviceVars, Proved!deviceVars,
           Lock!viewVars, Proved!viewVars, Lock!tapVars, Proved!tapVars
<1> QED BY <1>1, <1>2, <1>3, <1>4, <1>5, <1>6, <1>7, Zenon DEF Lock!Next

LEMMA SameControlTab == Lock!Spec => Proved!Spec
<1>1. Lock!Init => Proved!Init
  BY DEF Lock!Init, Proved!Init
<1> QED BY <1>1, SameControlStep, PTL DEF Lock!Spec, Proved!Spec

(***************************************************************************)
(* Hence in the app: whatever the tabs, the rows and the links do, the     *)
(* lock view, the record and the selected lock agree, commands find a link *)
(* at rest, and a selected lock is shown.                                  *)
(***************************************************************************)
THEOREM ControlAgrees ==
  AppSpec => [](/\ Lock!InterfaceAgrees
                /\ Lock!RecordMatchesInterface
                /\ Lock!CommandAtRest
                /\ Lock!SelectedLockShown)
<1>1. Proved!ControlAssumption
  BY AppAssumption DEF AppAssumption, Proved!ControlAssumption
<1>2. Proved!Spec => []Proved!InterfaceAgrees
  BY <1>1, Proved!InterfaceStaysTrue, PTL
<1>3. Proved!Spec => []Proved!RecordMatchesInterface
  BY <1>1, Proved!RecordsAgree, PTL
<1>4. Proved!Spec => []Proved!CommandAtRest
  BY <1>1, Proved!CommandsAtRest, PTL
<1>5. Proved!Spec => []Proved!SelectedLockShown
  BY <1>1, Proved!SelectedIsShown, PTL
<1>6. Proved!InterfaceAgrees => Lock!InterfaceAgrees
  BY DEF Proved!InterfaceAgrees, Lock!InterfaceAgrees, Proved!Locked, Lock!Locked
<1>7. Proved!RecordMatchesInterface => Lock!RecordMatchesInterface
  BY DEF Proved!RecordMatchesInterface, Lock!RecordMatchesInterface
<1>8. Proved!CommandAtRest => Lock!CommandAtRest
  BY DEF Proved!CommandAtRest, Lock!CommandAtRest
<1>9. Proved!SelectedLockShown => Lock!SelectedLockShown
  BY DEF Proved!SelectedLockShown, Lock!SelectedLockShown
<1>10. ImplementsControl => Lock!Spec
  BY DEF ImplementsControl
<1> QED BY <1>2, <1>3, <1>4, <1>5, <1>6, <1>7, <1>8, <1>9, <1>10, ControlRefinement,
           SameControlTab, PTL
-----------------------------------------------------------------------------
(***************************************************************************)
(* The History tab.  First, what one more record adds.                     *)
(***************************************************************************)
Kind(o, locked) == IF locked THEN o.isLockAction ELSE ~o.isLockAction

Entries(q, locked) == {i \in DOMAIN q : Kind(q[i], locked)}

Objects(objects, locked) == {o \in objects : Kind(o, locked)}

LEMMA EntriesAppend ==
  ASSUME NEW S, NEW q \in Seq(S), NEW x \in S, NEW locked
  PROVE  /\ Cardinality(Entries(q, locked)) \in Nat
         /\ Cardinality(Entries(Append(q, x), locked))
              = Cardinality(Entries(q, locked)) + (IF Kind(x, locked) THEN 1 ELSE 0)
<1> DEFINE a == Append(q, x)
           n == Len(q)
<1>1. /\ DOMAIN q = 1..n /\ n \in Nat
      /\ DOMAIN a = 1..(n + 1)
      /\ \A i \in 1..n : a[i] = q[i]
      /\ a[n + 1] = x
  BY LenProperties, AppendProperties
<1> HIDE DEF a, n
<1>2. IsFiniteSet(1..n)
  BY <1>1, FS_Interval
<1>3. IsFiniteSet(Entries(q, locked))
  BY <1>1, <1>2, FS_Subset DEF Entries
<1>4. n + 1 \notin Entries(q, locked)
  BY <1>1 DEF Entries
<1>5. Entries(a, locked) = Entries(q, locked) \cup (IF Kind(x, locked) THEN {n + 1} ELSE {})
  <2>1. \A i : i \in 1..(n + 1) <=> i \in 1..n \/ i = n + 1
    BY <1>1
  <2>2. \A i \in 1..n : Kind(a[i], locked) <=> Kind(q[i], locked)
    BY <1>1 DEF Kind
  <2>3. Kind(a[n + 1], locked) <=> Kind(x, locked)
    BY <1>1 DEF Kind
  <2> HIDE DEF Kind
  <2> QED BY <1>1, <2>1, <2>2, <2>3 DEF Entries
<1>6. CASE Kind(x, locked)
  BY <1>3, <1>4, <1>5, <1>6, FS_AddElement, FS_CardinalityType DEF a
<1>7. CASE ~Kind(x, locked)
  BY <1>3, <1>5, <1>7, FS_CardinalityType DEF a
<1> QED BY <1>6, <1>7

LEMMA ObjectsAdd ==
  ASSUME NEW objects, IsFiniteSet(objects), NEW x, x \notin objects, NEW locked
  PROVE  Cardinality(Objects(objects \cup {x}, locked))
           = Cardinality(Objects(objects, locked)) + (IF Kind(x, locked) THEN 1 ELSE 0)
<1>1. IsFiniteSet(Objects(objects, locked)) /\ x \notin Objects(objects, locked)
  BY FS_Subset DEF Objects
<1>2. CASE Kind(x, locked)
  <2>1. Objects(objects \cup {x}, locked) = Objects(objects, locked) \cup {x}
    BY <1>2 DEF Objects
  <2> QED BY <1>1, <1>2, <2>1, FS_AddElement, FS_CardinalityType
<1>3. CASE ~Kind(x, locked)
  <2>1. Objects(objects \cup {x}, locked) = Objects(objects, locked)
    BY <1>3 DEF Objects
  <2> QED BY <1>1, <1>3, <2>1, FS_CardinalityType
<1> QED BY <1>2, <1>3

CellsTyped == cells \in Seq([colour : {"locked", "unlocked"}, date : Date])

AppOK ==
  /\ StoredInv
  /\ CellsTyped
  /\ \E S : history \in Seq(S)

LEMMA CommandsStoredIs ==
  CommandsStored <=>
    \A locked \in BOOLEAN :
      Cardinality(Objects(stored, locked)) = Cardinality(Entries(history, locked))
BY DEF CommandsStored, Objects, Entries, Kind

LEMMA AppInitOK == AppInit => AppOK
<1> SUFFICES ASSUME AppInit PROVE AppOK
  OBVIOUS
<1>1. /\ stored = {} /\ cells = <<>> /\ history = <<>> /\ pc = "idle"
      /\ currentContent = Nil
      /\ appearance[History] = "hidden"
  BY DEF AppInit, HistoryInit, TabInit, Lock!Init, Tab, Control, Connect, History
<1>2. CommandsStored
  <2>1. {o \in stored : o.isLockAction} = {} /\ {o \in stored : ~o.isLockAction} = {}
    BY <1>1
  <2>2. /\ {i \in DOMAIN history : history[i].isLockAction} = {}
        /\ {i \in DOMAIN history : ~history[i].isLockAction} = {}
    BY <1>1
  <2> QED BY <2>1, <2>2 DEF CommandsStored
<1>3. IsFiniteSet(stored)
  BY <1>1, FS_EmptySet
<1>4. currentContent # History
  BY <1>1, NilIsNoTab DEF Tab
<1>5. CellsTyped /\ \E S : history \in Seq(S)
  BY <1>1 DEF CellsTyped
<1> QED BY <1>1, <1>2, <1>3, <1>4, <1>5 DEF AppOK, StoredInv

(***************************************************************************)
(* A step that records nothing.  If it reloads the table the copy is new,  *)
(* and otherwise the History tab does not come on screen.                  *)
(***************************************************************************)
LEMMA RecordsNothing ==
  ASSUME AppOK, UNCHANGED <<stored, history>>,
         pc' # "idle" => visible',
         currentContent' = History => results',
         \/ cells' = CellsFor(stored)
         \/ cells' = cells /\ (appearance'[History] = "visible" => appearance[History] = "visible")
         \/ cells' = <<>> /\ appearance'[History] # "visible"
  PROVE  AppOK'
<1>1. CommandsStored'
  BY DEF AppOK, StoredInv, CommandsStored
<1>2. DatesDiffer(stored)
  BY DEF AppOK, StoredInv, DatesDiffer
<1>3. CellsTyped'
  <2>1. CellsFor(stored) \in Seq([colour : {"locked", "unlocked"}, date : Date])
    BY <1>2, CellsForIs DEF AppOK, StoredInv
  <2>2. <<>> \in Seq([colour : {"locked", "unlocked"}, date : Date])
    OBVIOUS
  <2> QED BY <2>1, <2>2 DEF AppOK, CellsTyped
<1>4. appearance'[History] = "visible" => cells' = CellsFor(stored')
  BY DEF AppOK, StoredInv
<1>5. \E S : history' \in Seq(S)
  BY DEF AppOK
<1>6. /\ stored' \subseteq LKJHistory /\ IsFiniteSet(stored')
      /\ \A o, p \in stored' : o.activatedDate = p.activatedDate => o = p
  BY DEF AppOK, StoredInv
<1> QED BY <1>1, <1>3, <1>4, <1>5, <1>6, Zenon DEF AppOK, StoredInv

LEMMA RelaunchOK ==
  ASSUME AppOK, AppRelaunch
  PROVE  AppOK'
<1>1. /\ UNCHANGED <<stored, history>>
      /\ pc' = "idle" /\ cells' = <<>> /\ currentContent' = Nil
      /\ appearance'[History] = "hidden"
  BY DEF AppRelaunch, HistoryRelaunch, TabRelaunch, Lock!Relaunch, Tab, Control, Connect, History
<1>2. currentContent' # History
  BY <1>1, NilIsNoTab DEF Tab
<1> QED BY <1>1, <1>2, RecordsNothing

(* A switch of tabs, which only an idle main thread makes.                 *)
LEMMA SwitchRecordsNothing ==
  ASSUME AppOK, NEW v \in Tab, ButtonClicked(v), LoadsView,
         pc' = "idle", history' = history
  PROVE  AppOK'
<1>1. /\ stored' = stored /\ cells' = cells
      /\ currentContent' = History => results'
  BY Zenon DEF LoadsView
<1>2. appearance'[History] # "visible"
  BY DEF ButtonClicked, ActionBlock, Tab, Control, Connect, History
<1> QED BY <1>1, <1>2, RecordsNothing

LEMMA LaunchedOK ==
  ASSUME TabInv, AppOK, Launched
  PROVE  AppOK'
<1>1. currentContent = Nil
  BY DEF Launched, ViewDidLoad
<1>2. ~visible
  BY <1>1, NilIsNoTab DEF TabInv, OnlyContentAppears, visible, Tab, Control, Connect, History
<1>3. pc = "idle"
  BY <1>2 DEF AppOK, StoredInv
<1>4. pc' = "idle" /\ history' = history
  BY <1>3 DEF Launched, controlVars
<1>5. \E v \in Tab : ButtonClicked(v)
  BY DEF Launched, ViewDidLoad, Tab
<1>6. LoadsView
  BY Zenon DEF Launched
<1> QED BY <1>4, <1>5, <1>6, SwitchRecordsNothing

LEMMA TabTappedOK ==
  ASSUME AppOK, NEW t \in Tab, TabTapped(t)
  PROVE  AppOK'
<1>1. pc' = "idle" /\ history' = history
  BY DEF TabTapped, TouchesReachTabs, controlVars
<1>2. ButtonClicked(t) /\ LoadsView
  BY Zenon DEF TabTapped, TapButton
<1> QED BY <1>1, <1>2, SwitchRecordsNothing

LEMMA RowTappedOK ==
  ASSUME AppOK, NEW p \in Peripheral, RowTapped(p)
  PROVE  AppOK'
<1>1. pc' = "idle" /\ history' = history
  BY DEF RowTapped, TouchesReachTabs, Lock!SelectPeripheral, Lock!tapVars
<1>2. ButtonClicked(Control) /\ LoadsView
  BY Zenon DEF RowTapped, RowSelected
<1> QED BY <1>1, <1>2, SwitchRecordsNothing DEF Tab

LEMMA OpenedOK ==
  ASSUME TabInv, AppOK, Opened
  PROVE  AppOK'
<1>1. \A t \in Tab : appearance[t] = "hidden"
  BY DEF Opened, EntersWindow, TabInv, OnlyContentAppears
<1>2. pc = "idle"
  BY <1>1 DEF AppOK, StoredInv, visible, Tab
<1>3. pc' = "idle" /\ UNCHANGED <<stored, history, cells>>
  BY <1>2 DEF Opened, historyVars, controlVars
<1>4. appearance'[History] # "visible"
  BY <1>1 DEF Opened, EntersWindow, TabInv, Tab
<1>5. currentContent' = History => results'
  BY Zenon DEF Opened, EntersWindow, historyVars, AppOK, StoredInv
<1> QED BY <1>3, <1>4, <1>5, RecordsNothing

LEMMA AppearedOK ==
  ASSUME TabInv, AppOK, Appeared
  PROVE  AppOK'
<1>1. /\ currentContent \in Tab /\ currentContent # Nil
      /\ appearance' = [appearance EXCEPT ![currentContent] = "visible"]
      /\ currentContent' = currentContent
      /\ stored' = stored
  BY DEF Appeared, Appear, ContentAppears, TabInv, ContentIsOnlyChild
<1>2. /\ currentContent = History => cells' = CellsFor(stored)
      /\ currentContent # History => cells' = cells
  BY DEF Appeared, Appear, ReloadData
<1>3. currentContent # History => appearance'[History] = appearance[History]
  BY <1>1 DEF TabInv, Tab
<1>4. history' = history /\ pc' = pc
  BY DEF Appeared, Lock!ViewDidAppear, Lock!tapVars, controlVars
<1>5. pc' # "idle" => visible'
  <2>1. CASE currentContent = Control
    BY <1>4, <2>1 DEF Appeared, Lock!ViewDidAppear
  <2>2. CASE currentContent # Control
    <3>1. appearance'[Control] = appearance[Control]
      BY <1>1, <2>2 DEF TabInv, Tab
    <3> QED BY <1>4, <3>1 DEF AppOK, StoredInv, visible
  <2> QED BY <2>1, <2>2
<1>6. currentContent' = History => results'
  <2>1. results' = results
    BY Zenon DEF Appeared, Appear
  <2> QED BY <1>1, <2>1, Zenon DEF AppOK, StoredInv
<1> QED BY <1>1, <1>2, <1>3, <1>4, <1>5, <1>6, RecordsNothing

(* Steps of the Control tab and of CoreBluetooth: the tabs stay.           *)
LEMMA TabsStay ==
  ASSUME AppOK, UNCHANGED <<tabVars, historyVars>>, history' = history,
         pc' # "idle" => visible
  PROVE  AppOK'
<1>1. /\ appearance' = appearance /\ currentContent' = currentContent
      /\ stored' = stored /\ cells' = cells
  BY DEF tabVars, historyVars
<1>2. pc' # "idle" => visible'
  BY <1>1 DEF visible
<1>3. currentContent' = History => results'
  <2>1. results' = results
    BY Zenon DEF historyVars
  <2> QED BY <1>1, <2>1, Zenon DEF AppOK, StoredInv
<1> QED BY <1>1, <1>2, <1>3, RecordsNothing

LEMMA LockTappedOK ==
  ASSUME AppOK, LockTapped
  PROVE  AppOK'
<1>1. UNCHANGED <<tabVars, historyVars>>
  BY Zenon DEF LockTapped
<1>2. pc # "idle" => visible
  BY DEF AppOK, StoredInv
<1>3. history' = history /\ (pc' # "idle" => visible)
  <2>1. CASE Lock!ChangeLockStatus
    BY <2>1 DEF Lock!ChangeLockStatus, Lock!PresentAlert, Lock!Goto
  <2>2. CASE Lock!ReadAgain \/ Lock!Toggle \/ Lock!LockDevice \/ Lock!UnlockDevice
    BY <1>2, <2>2 DEF Lock!ReadAgain, Lock!Toggle, Lock!LockDevice, Lock!UnlockDevice,
                      Lock!PresentAlert, Lock!Goto
  <2>3. CASE Lock!DismissAlert
    BY <1>2, <2>3 DEF Lock!DismissAlert, Lock!tapVars
  <2> QED BY <2>1, <2>2, <2>3 DEF LockTapped
<1> QED BY <1>1, <1>3, TabsStay

LEMMA BluetoothOK ==
  ASSUME AppOK, Bluetooth
  PROVE  AppOK'
<1>1. UNCHANGED <<tabVars, historyVars>>
  BY Zenon DEF Bluetooth
<1>2. history' = history /\ pc' = pc
  BY DEF Bluetooth, Lock!Answers, Lock!DidConnectPeripheral, Lock!DidDisconnectPeripheral,
         Lock!LinkLost, Lock!LinkBecomes, Lock!KnownPeripheralFound, Lock!tapVars
<1> QED BY <1>1, <1>2, TabsStay DEF AppOK, StoredInv

(* The transaction: the Control tab is on screen, so the History tab is    *)
(* not, and one object of the same kind goes into both.                    *)
LEMMA SavedOK ==
  ASSUME TabInv, AppOK, NEW object \in LKJHistory, Saved(object)
  PROVE  AppOK'
<1>1. /\ pc = "save" /\ pc' = "idle"
      /\ stored' = stored \cup {object}
      /\ history' = Append(history, historyObject)
      /\ \A o \in stored : o.activatedDate # object.activatedDate
      /\ object.isLockAction <=> historyObject.isLockAction
  BY DEF Saved, StoreHistory, Lock!Save, AsCommanded
<1>2. cells' = cells /\ appearance' = appearance /\ currentContent' = currentContent
  BY DEF Saved, StoreHistory, tabVars
<1>3. visible
  BY <1>1 DEF AppOK, StoredInv
<1>4. appearance'[History] # "visible"
  <2>1. currentContent = Control
    BY <1>3 DEF visible, TabInv, OnlyContentAppears, Tab
  <2> QED BY <1>2, <2>1 DEF TabInv, OnlyContentAppears, Tab, Control, History
<1>5. /\ stored' \subseteq LKJHistory /\ IsFiniteSet(stored')
      /\ \A o, p \in stored' : o.activatedDate = p.activatedDate => o = p
  BY <1>1, FS_AddElement DEF AppOK, StoredInv
<1>6. PICK S : history \in Seq(S)
  BY DEF AppOK
<1> DEFINE T == S \cup {historyObject}
<1>7. history \in Seq(T) /\ historyObject \in T
  BY <1>6
<1> HIDE DEF T
<1>8. \E U : history' \in Seq(U)
  <2>1. history' \in Seq(T)
    BY <1>1, <1>7
  <2> QED BY <2>1
<1>9. CommandsStored'
  <2>1. ASSUME NEW locked \in BOOLEAN
        PROVE  Cardinality(Objects(stored', locked)) = Cardinality(Entries(history', locked))
    <3>1. Cardinality(Objects(stored, locked)) = Cardinality(Entries(history, locked))
      BY CommandsStoredIs DEF AppOK, StoredInv
    <3>2. Kind(object, locked) <=> Kind(historyObject, locked)
      BY <1>1 DEF Kind
    <3>3. object \notin stored /\ IsFiniteSet(stored)
      BY <1>1 DEF AppOK, StoredInv
    <3> HIDE DEF Kind
    <3> QED BY <1>1, <1>7, <3>1, <3>2, <3>3, EntriesAppend, ObjectsAdd
  <2>2. CommandsStored' <=>
          \A locked \in BOOLEAN :
            Cardinality(Objects(stored', locked)) = Cardinality(Entries(history', locked))
    BY DEF CommandsStored, Objects, Entries, Kind
  <2> QED BY <2>1, <2>2
<1>10. CellsTyped'
  BY <1>2 DEF AppOK, CellsTyped
<1>11. currentContent' = History => results'
  <2>1. results' = results
    BY Zenon DEF Saved, StoreHistory
  <2> QED BY <1>2, <2>1, Zenon DEF AppOK, StoredInv
<1>12. pc' # "idle" => visible'
  BY <1>1
<1> QED BY <1>4, <1>5, <1>8, <1>9, <1>10, <1>11, <1>12, Zenon DEF AppOK, StoredInv

LEMMA AppStepOK ==
  ASSUME TabInv, AppOK, [AppNext]_appVars
  PROVE  AppOK'
<1>1. CASE AppRelaunch
  BY <1>1, RelaunchOK
<1>2. CASE Launched
  BY <1>2, LaunchedOK
<1>3. CASE Opened
  BY <1>3, OpenedOK
<1>4. CASE Appeared
  BY <1>4, AppearedOK
<1>5. CASE \E t \in Tab : TabTapped(t)
  BY <1>5, TabTappedOK
<1>6. CASE \E p \in Peripheral : RowTapped(p)
  BY <1>6, RowTappedOK
<1>7. CASE \E object \in LKJHistory : Saved(object)
  BY <1>7, SavedOK
<1>8. CASE LockTapped
  BY <1>8, LockTappedOK
<1>9. CASE Bluetooth
  BY <1>9, BluetoothOK
<1>10. CASE UNCHANGED appVars
  <2>1. UNCHANGED <<tabVars, historyVars>> /\ history' = history /\ pc' = pc
    BY <1>10, Zenon DEF appVars, controlVars
  <2> QED BY <2>1, TabsStay DEF AppOK, StoredInv
<1> QED BY <1>1, <1>2, <1>3, <1>4, <1>5, <1>6, <1>7, <1>8, <1>9, <1>10, Zenon DEF AppNext

(* The taps on the lock and the History tab's copy of the Realm, with the  *)
(* types of the copy.                                                      *)
LEMMA AppInvariantOK == AppSpec => []AppOK
<1>1. AppInit => AppOK
  BY AppInitOK
<1>2. TabInv /\ AppOK /\ [AppNext]_appVars => AppOK'
  BY AppStepOK
<1> QED BY <1>1, <1>2, TabInvariant, PTL DEF AppSpec

LEMMA StoredInvariant == AppSpec => [](StoredInv /\ CellsTyped)
<1>1. AppOK => StoredInv /\ CellsTyped
  BY DEF AppOK
<1> QED BY <1>1, AppInvariantOK, PTL

-----------------------------------------------------------------------------
(***************************************************************************)
(* What the taps sent.  The Control tab's own invariant, carried over by   *)
(* the refinement, says which way the record points when the command goes. *)
(***************************************************************************)
RecordChosen ==
  /\ pc = "lockDevice" => historyObject.isLockAction
  /\ pc = "unlockDevice" => ~historyObject.isLockAction
  /\ pc \in {"lockDevice", "unlockDevice"} => selected \in DOMAIN link

LEMMA RecordIsChosen == AppSpec => []RecordChosen
<1>1. Proved!ControlAssumption
  BY AppAssumption DEF AppAssumption, Proved!ControlAssumption
<1>2. Proved!Spec => []Proved!ControlInv
  BY <1>1, Proved!ControlInvariant, PTL
<1>3. Proved!Spec => []Proved!TypeOK
  BY <1>1, Proved!ControlTypeCorrect, PTL
<1>4. Proved!ControlInv /\ Proved!TypeOK => RecordChosen
  BY DEF Proved!ControlInv, Proved!MethodRunning, Proved!CommandPending, Proved!TypeOK, RecordChosen
<1>5. ImplementsControl => Lock!Spec
  BY DEF ImplementsControl
<1> QED BY <1>2, <1>3, <1>4, <1>5, ControlRefinement, SameControlTab, PTL

(* Steps in which the tap under way goes no further.                       *)
LEMMA SendsNothing ==
  ASSUME CommandsInv, UNCHANGED <<pc, historyObject, history, commandVars>>
  PROVE  CommandsInv'
BY DEF CommandsInv, AgreesWith, commandVars

(* Steps of the Control tab that neither send nor store anything.          *)
LEMMA GoesOn ==
  ASSUME CommandsInv, UNCHANGED <<link, history, commands>>, sent' = Sends
  PROVE  CommandsInv'
BY DEF CommandsInv, AgreesWith, Sends

(* The command: the link shows which it was.                               *)
LEMMA CommandAgrees ==
  ASSUME CommandsInv, RecordChosen, Lock!LockDevice \/ Lock!UnlockDevice, sent' = Sends,
         commands' = commands
  PROVE  CommandsInv'
<1>1. /\ pc' = "save" /\ historyObject' = historyObject /\ history' = history
  BY DEF Lock!LockDevice, Lock!UnlockDevice, Lock!Goto
<1>2. sent' \in {"lock", "unlock", "none"}
  BY DEF Sends
<1>3. AgreesWith(historyObject, sent')
  <2>1. CASE Lock!LockDevice
    <3>1. historyObject.isLockAction /\ selected \in DOMAIN link
      BY <2>1 DEF Lock!LockDevice, RecordChosen
    <3>2. link' = link \/ link'[selected] = "disconnecting"
      BY <2>1, <3>1 DEF Lock!LockDevice
    <3>3. sent' # "unlock"
      BY <3>2 DEF Sends
    <3> QED BY <3>1, <3>3 DEF AgreesWith
  <2>2. CASE Lock!UnlockDevice
    <3>1. ~historyObject.isLockAction /\ selected \in DOMAIN link
      BY <2>2 DEF Lock!UnlockDevice, RecordChosen
    <3>2. link' = link \/ link'[selected] = "connecting"
      BY <2>2, <3>1 DEF Lock!UnlockDevice
    <3>3. sent' # "lock"
      BY <3>2 DEF Sends
    <3> QED BY <3>1, <3>3 DEF AgreesWith
  <2> QED BY <2>1, <2>2
<1> QED BY <1>1, <1>2, <1>3 DEF CommandsInv, AgreesWith

LEMMA LockTappedSends ==
  ASSUME CommandsInv, RecordChosen, LockTapped
  PROVE  CommandsInv'
<1>1. commands' = commands /\ sent' = Sends
  BY Zenon DEF LockTapped
<1>2. CASE Lock!ChangeLockStatus \/ Lock!ReadAgain \/ Lock!Toggle \/ Lock!DismissAlert
  <2>1. UNCHANGED <<link, history>>
    BY <1>2 DEF Lock!ChangeLockStatus, Lock!ReadAgain, Lock!Toggle, Lock!DismissAlert,
                Lock!PresentAlert, Lock!Goto, Lock!tapVars
  <2> QED BY <1>1, <2>1, GoesOn
<1>3. CASE Lock!LockDevice \/ Lock!UnlockDevice
  BY <1>1, <1>3, CommandAgrees
<1> QED BY <1>2, <1>3 DEF LockTapped

(* The transaction: the record, and what was sent, are the next of each.   *)
LEMMA SavedTells ==
  ASSUME CommandsInv, \E S : history \in Seq(S), NEW object, Saved(object)
  PROVE  CommandsInv'
<1>1. /\ pc = "save" /\ pc' = "idle" /\ sent' = "none"
      /\ history' = Append(history, historyObject)
      /\ commands' = Append(commands, sent)
  BY DEF Saved, Lock!Save
<1> DEFINE command == {"lock", "unlock", "none"}
<1>2. commands \in Seq(command) /\ sent \in command
  BY DEF CommandsInv
<1>3. commands' \in Seq(command)
  BY <1>1, <1>2
<1>4. /\ DOMAIN commands = 1..Len(commands) /\ Len(commands) \in Nat
      /\ DOMAIN commands' = 1..(Len(commands) + 1) /\ Len(commands') = Len(commands) + 1
      /\ \A i \in 1..Len(commands) : commands'[i] = commands[i]
      /\ commands'[Len(commands) + 1] = sent
  BY <1>1, <1>2, LenProperties, AppendProperties
<1>5. PICK S : history \in Seq(S)
  OBVIOUS
<1> DEFINE T == S \cup {historyObject}
<1>6. history \in Seq(T) /\ historyObject \in T
  BY <1>5
<1> HIDE DEF T
<1>7. /\ Len(history') = Len(history) + 1
      /\ \A i \in 1..Len(history) : history'[i] = history[i]
      /\ history'[Len(history) + 1] = historyObject
  BY <1>1, <1>6, LenProperties, AppendProperties
<1>8. Len(commands) = Len(history)
  BY DEF CommandsInv
<1>9. ASSUME NEW i \in DOMAIN commands' PROVE AgreesWith(history'[i], commands'[i])
  <2>1. CASE i \in DOMAIN commands
    <3>1. AgreesWith(history[i], commands[i])
      BY <2>1 DEF CommandsInv
    <3> QED BY <1>4, <1>7, <1>8, <2>1, <3>1
  <2>2. CASE i \notin DOMAIN commands
    <3>1. i = Len(commands) + 1
      BY <1>4, <2>2
    <3>2. AgreesWith(historyObject, sent)
      BY <1>1 DEF CommandsInv
    <3> QED BY <1>4, <1>7, <1>8, <3>1, <3>2
  <2> QED BY <2>1, <2>2
<1>10. /\ Len(commands') = Len(history')
       /\ pc' # "save"
  BY <1>1, <1>4, <1>7, <1>8
<1> QED BY <1>1, <1>3, <1>9, <1>10, Zenon DEF CommandsInv

LEMMA CommandsStep ==
  ASSUME CommandsInv, RecordChosen, \E S : history \in Seq(S), [AppNext]_appVars
  PROVE  CommandsInv'
<1>1. CASE AppRelaunch
  <2>1. /\ pc' = "idle" /\ sent' = "none" /\ history' = history /\ commands' = commands
    BY <1>1 DEF AppRelaunch, Lock!Relaunch
  <2> QED BY <2>1 DEF CommandsInv, AgreesWith
<1>2. ASSUME UNCHANGED <<controlVars, commandVars>> PROVE CommandsInv'
  BY <1>2, SendsNothing DEF controlVars
<1>3. CASE Launched \/ Opened \/ (\E t \in Tab : TabTapped(t)) \/ UNCHANGED appVars
  BY <1>2, <1>3, Zenon DEF Launched, Opened, TabTapped, appVars
<1>4. CASE Appeared
  BY <1>2, <1>4, SendsNothing DEF Appeared, Lock!ViewDidAppear, Lock!tapVars
<1>5. CASE \E p \in Peripheral : RowTapped(p)
  BY <1>5, SendsNothing DEF RowTapped, Lock!SelectPeripheral, Lock!tapVars
<1>6. CASE \E object \in LKJHistory : Saved(object)
  BY <1>6, SavedTells
<1>7. CASE LockTapped
  BY <1>7, LockTappedSends
<1>8. CASE Bluetooth
  BY <1>8, SendsNothing
     DEF Bluetooth, Lock!Answers, Lock!DidConnectPeripheral, Lock!DidDisconnectPeripheral,
         Lock!LinkLost, Lock!LinkBecomes, Lock!KnownPeripheralFound, Lock!tapVars
<1> QED BY <1>1, <1>3, <1>4, <1>5, <1>6, <1>7, <1>8, Zenon DEF AppNext

LEMMA CommandsInvariant == AppSpec => []CommandsInv
<1>1. AppInit => CommandsInv
  BY DEF AppInit, Lock!Init, CommandsInv
<1>2. AppOK => \E S : history \in Seq(S)
  BY DEF AppOK
<1>3. CommandsInv /\ RecordChosen /\ AppOK /\ [AppNext]_appVars => CommandsInv'
  BY <1>2, CommandsStep
<1> QED BY <1>1, <1>3, RecordIsChosen, AppInvariantOK, PTL DEF AppSpec

(* The inductive invariant of the app: the tabs, the taps, the records and *)
(* the commands.                                                           *)
THEOREM AppInvariant == AppSpec => []AppInv
BY TabInvariant, StoredInvariant, CommandsInvariant, PTL DEF AppInv

(* The types those two say nothing of.                                     *)
ResultsTyped == results \in BOOLEAN

LEMMA ResultsStep ==
  ASSUME ResultsTyped, [AppNext]_appVars
  PROVE  ResultsTyped'
<1>1. CASE AppRelaunch
  BY <1>1 DEF AppRelaunch, HistoryRelaunch, ResultsTyped
<1>2. ASSUME LoadsView PROVE ResultsTyped'
  <2>1. results' = (results \/ currentContent' = History)
    BY <1>2, Zenon DEF LoadsView
  <2>2. (results \/ currentContent' = History) \in BOOLEAN
    OBVIOUS
  <2> QED BY <2>1, <2>2, Zenon DEF ResultsTyped
<1>3. ASSUME results' = results PROVE ResultsTyped'
  BY <1>3, Zenon DEF ResultsTyped
<1>4. CASE Launched \/ (\E t \in Tab : TabTapped(t)) \/ (\E p \in Peripheral : RowTapped(p))
  BY <1>2, <1>4, Zenon DEF Launched, TabTapped, RowTapped
<1>5. CASE Opened \/ Appeared \/ LockTapped \/ Bluetooth \/ UNCHANGED appVars
  BY <1>3, <1>5, Zenon DEF Opened, Appeared, Appear, LockTapped, Bluetooth, appVars, historyVars
<1>6. CASE \E object \in LKJHistory : Saved(object)
  BY <1>3, <1>6, Zenon DEF Saved, StoreHistory
<1> QED BY <1>1, <1>4, <1>5, <1>6, Zenon DEF AppNext

(* Every variable of the tabs and of the History tab keeps its type.       *)
THEOREM HistoryTypeCorrect == AppSpec => []HistoryTypeOK
<1>1. AppInit => TabTypes /\ ResultsTyped
  <2>1. AppInit => TabTypes
    BY TabTypesInit, Zenon DEF AppInit, HistoryInit
  <2>2. AppInit => ResultsTyped
    BY DEF AppInit, HistoryInit, ResultsTyped
  <2> QED BY <2>1, <2>2
<1>2. TabInv /\ TabTypes /\ ResultsTyped /\ [AppNext]_appVars => (TabTypes /\ ResultsTyped)'
  <2>1. SUFFICES ASSUME TabInv, TabTypes, ResultsTyped, [AppNext]_appVars
                 PROVE  TabTypes' /\ ResultsTyped'
    OBVIOUS
  <2>2. TabTypes'
    BY <2>1, TabsUnderneath, TabTypesStep
  <2> QED BY <2>1, <2>2, ResultsStep
<1>3. TabInv /\ StoredInv /\ CellsTyped /\ TabTypes /\ ResultsTyped => HistoryTypeOK
  BY Zenon DEF TabInv, ContentIsOnlyChild, StoredInv, CellsTyped, TabTypes, ContentViewOK,
               ResultsTyped, HistoryTypeOK
<1> QED BY <1>1, <1>2, <1>3, TabInvariant, StoredInvariant, PTL DEF AppSpec

(* The History tab on screen is complete and in order.                     *)
THEOREM HistoryIsComplete == AppSpec => []HistoryComplete
<1>1. ASSUME TabInv, StoredInv PROVE HistoryComplete
  <2>1. CASE appearance[History] = "visible"
    <3>1. currentContent = History
      BY <1>1, <2>1 DEF TabInv, OnlyContentAppears, Tab, Control, Connect, History
    <3>2. results
      BY <1>1, <3>1 DEF StoredInv
    <3>3. /\ stored \subseteq LKJHistory /\ IsFiniteSet(stored) /\ DatesDiffer(stored)
          /\ cells = CellsFor(stored)
      BY <1>1, <2>1 DEF StoredInv, DatesDiffer
    <3> QED BY <3>2, <3>3, CopyIsComplete
  <2>2. CASE appearance[History] # "visible"
    BY <2>2 DEF HistoryComplete
  <2> QED BY <2>1, <2>2
<1> QED BY <1>1, TabInvariant, StoredInvariant, PTL

LEMMA DisjointUnion ==
  ASSUME NEW S, NEW T, IsFiniteSet(S), IsFiniteSet(T), S \cap T = {}
  PROVE  Cardinality(S \cup T) = Cardinality(S) + Cardinality(T)
<1>1. Cardinality(S \cup T) = Cardinality(S) + Cardinality(T) - Cardinality(S \cap T)
  BY FS_Union
<1>2. Cardinality(S \cap T) = 0
  BY FS_EmptySet
<1>3. Cardinality(S) \in Nat /\ Cardinality(T) \in Nat
  BY FS_CardinalityType
<1> QED BY <1>1, <1>2, <1>3

(* It tells what the taps sent, each in its colour.                        *)
THEOREM HistoryTells == AppSpec => []HistoryTellsCommands
<1>1. ASSUME StoredInv, CommandsInv, \E S : history \in Seq(S) PROVE HistoryTellsCommands
  <2>1. SUFFICES ASSUME appearance[History] = "visible"
                 PROVE  /\ Len(cells) = Len(commands)
                        /\ Cardinality(Rows("locked")) >= Cardinality(Sent("lock"))
                        /\ Cardinality(Rows("unlocked")) >= Cardinality(Sent("unlock"))
    BY DEF HistoryTellsCommands
  <2> DEFINE locks == {i \in DOMAIN history : history[i].isLockAction}
             unlocks == {i \in DOMAIN history : ~history[i].isLockAction}
  <2>2. /\ stored \subseteq LKJHistory /\ IsFiniteSet(stored) /\ DatesDiffer(stored)
        /\ cells = CellsFor(stored)
    BY <1>1, <2>1 DEF StoredInv, DatesDiffer
  <2>3. /\ Cardinality(Rows("locked")) = Cardinality({o \in stored : o.isLockAction})
        /\ Cardinality(Rows("unlocked")) = Cardinality({o \in stored : ~o.isLockAction})
    BY <2>2, CopyCounts DEF Rows
  <2>4. /\ Cardinality(Rows("locked")) = Cardinality(locks)
        /\ Cardinality(Rows("unlocked")) = Cardinality(unlocks)
    BY <1>1, <2>3 DEF StoredInv, CommandsStored
  <2>5. /\ DOMAIN commands = 1..Len(commands) /\ Len(commands) \in Nat
        /\ DOMAIN history = 1..Len(history) /\ Len(commands) = Len(history)
    BY <1>1, LenProperties DEF CommandsInv
  <2>6. IsFiniteSet(DOMAIN history) /\ Cardinality(DOMAIN history) = Len(commands)
    <3> DEFINE n == Len(commands)
    <3>1. n \in Nat /\ DOMAIN history = 1..n
      BY <2>5
    <3> HIDE DEF n
    <3>2. IsFiniteSet(1..n) /\ Cardinality(1..n) = n
      BY <3>1, FS_Interval
    <3> QED BY <3>1, <3>2 DEF n
  <2>7. /\ IsFiniteSet(locks) /\ IsFiniteSet(unlocks)
        /\ locks \cup unlocks = DOMAIN history /\ locks \cap unlocks = {}
    BY <2>6, FS_Subset
  <2>8. Sent("lock") \subseteq locks /\ Sent("unlock") \subseteq unlocks
    BY <1>1, <2>5 DEF Sent, CommandsInv, AgreesWith
  <2> HIDE DEF locks, unlocks
  <2>9. /\ Cardinality(Sent("lock")) <= Cardinality(locks)
        /\ Cardinality(Sent("unlock")) <= Cardinality(unlocks)
        /\ IsFiniteSet(Sent("lock")) /\ IsFiniteSet(Sent("unlock"))
    BY <2>7, <2>8, FS_Subset
  <2>10. /\ Cardinality(locks) \in Nat /\ Cardinality(unlocks) \in Nat
         /\ Cardinality(Sent("lock")) \in Nat /\ Cardinality(Sent("unlock")) \in Nat
    BY <2>7, <2>9, FS_CardinalityType
  <2>11. Len(cells) = Cardinality(stored)
    BY <2>2, CellsForIs
  <2>12. Cardinality(stored) = Len(commands)
    <3> DEFINE l == {o \in stored : o.isLockAction}
               u == {o \in stored : ~o.isLockAction}
    <3>1. IsFiniteSet(l) /\ IsFiniteSet(u) /\ l \cup u = stored /\ l \cap u = {}
      BY <2>2, FS_Subset
    <3>2. Cardinality(l) = Cardinality(locks) /\ Cardinality(u) = Cardinality(unlocks)
      BY <2>3, <2>4
    <3> HIDE DEF l, u
    <3>3. Cardinality(stored) = Cardinality(locks) + Cardinality(unlocks)
      <4>1. Cardinality(l \cup u) = Cardinality(l) + Cardinality(u)
        BY <3>1, DisjointUnion
      <4> QED BY <3>1, <3>2, <4>1
    <3>4. Len(commands) = Cardinality(locks) + Cardinality(unlocks)
      <4>1. Cardinality(locks \cup unlocks) = Cardinality(locks) + Cardinality(unlocks)
        BY <2>7, DisjointUnion
      <4> QED BY <2>6, <2>7, <4>1
    <3> QED BY <3>3, <3>4
  <2> QED BY <2>4, <2>9, <2>10, <2>11, <2>12
<1>2. AppOK => \E S : history \in Seq(S)
  BY DEF AppOK
<1> QED BY <1>1, <1>2, StoredInvariant, CommandsInvariant, AppInvariantOK, PTL
=============================================================================
