------------------------------ MODULE LockJaw ------------------------------
(***************************************************************************)
(* The app as its user meets it: the tabs and the History tab with the     *)
(* Control tab among them, over the locks.  What LKJLockViewController     *)
(* takes as external is here the doing of the tabs: its view is on screen  *)
(* when the tab view controller has put it there and UIKit has told it so. *)
(* Of the Connect tab there is the tap on a row, which selects a lock and  *)
(* asks for the Control tab.                                               *)
(*                                                                         *)
(* The main thread does one thing at a time: no button is touched while    *)
(* changeLockStatus: runs, nor under its alert, which is modal.            *)
(***************************************************************************)
EXTENDS LKJHistoryTableViewController

CONSTANTS
  Peripheral,   \* the named peripherals
  MaxHistory    \* bound: history objects stored

ASSUME AppAssumption ==
  /\ Nil \notin Peripheral
  /\ MaxHistory \in Nat \ {0}
  /\ MaxHistory <= Cardinality(Date)

VARIABLES
  connectedPeripherals, selected, link,   \* the controller and the links
  hidden, lockViewIsLocked, alert,        \* the Control tab
  pc, historyObject, history, drifted,    \* its changeLockStatus:
  sent,       \* history: what this tap has sent the lock so far
  commands    \* history: what each tap whose record is stored had sent

controlVars == <<connectedPeripherals, selected, link, hidden, lockViewIsLocked,
                 alert, pc, historyObject, history, drifted>>
commandVars == <<sent, commands>>
appVars == <<tabVars, historyVars, controlVars, commandVars>>

visible == appearance[Control] = "visible"

Lock == INSTANCE LKJLockViewController

AppInit ==
  /\ HistoryInit
  /\ Lock!Init
  /\ sent = "none"
  /\ commands = <<>>

(* The process dies and is started again. *)
AppRelaunch ==
  /\ HistoryRelaunch
  /\ Lock!Relaunch
  /\ sent' = "none"
  /\ UNCHANGED commands
-----------------------------------------------------------------------------
(* viewDidLoad asks the controller which tab to begin with. *)
Launched ==
  /\ ViewDidLoad(Lock!ExistsBluetoothDevice)
  /\ LoadsView
  /\ UNCHANGED <<controlVars, commandVars>>

Opened == EntersWindow /\ UNCHANGED <<historyVars, controlVars, commandVars>>

LoadedOnceMutant == Appear /\ UNCHANGED <<controlVars, commandVars>>

Appeared ==
  /\ Appear
  /\ UNCHANGED commandVars
  /\ IF currentContent = Control THEN Lock!ViewDidAppear ELSE UNCHANGED controlVars

TouchesReachTabs == pc = "idle" /\ ~alert

TabTapped(t) ==
  /\ TouchesReachTabs
  /\ TapButton(t)
  /\ LoadsView
  /\ UNCHANGED <<controlVars, commandVars>>

(* tableView:didSelectRowAtIndexPath: of the Connect tab. *)
RowTapped(p) ==
  /\ TouchesReachTabs
  /\ RowSelected
  /\ LoadsView
  /\ Lock!SelectPeripheral(p)
  /\ UNCHANGED commandVars
-----------------------------------------------------------------------------
AsShownMutant(object) == object.isLockAction <=> lockViewIsLocked

AsCommanded(object) == object.isLockAction <=> historyObject.isLockAction

Saved(object) ==
  /\ pc = "save"
  /\ AsCommanded(object)
  /\ StoreHistory(object)
  /\ Lock!Save
  /\ commands' = Append(commands, sent)
  /\ sent' = "none"

(* Told from what becomes of the link: nothing is sent if it was lost.     *)
Sends ==
  IF link' = link THEN "none"
  ELSE IF link'[selected] = "connecting" THEN "unlock" ELSE "lock"

LockTapped ==
  /\ UNCHANGED <<tabVars, historyVars, commands>>
  /\ \/ Lock!ChangeLockStatus
     \/ Lock!ReadAgain
     \/ Lock!Toggle
     \/ Lock!LockDevice
     \/ Lock!UnlockDevice
     \/ Lock!DismissAlert
  /\ sent' = Sends

(* CoreBluetooth, on its own queue. *)
Bluetooth ==
  /\ UNCHANGED <<tabVars, historyVars, commandVars>>
  /\ \/ Lock!Answers
     \/ \E p \in Peripheral : Lock!LinkLost(p)
     \/ \E p \in Peripheral : Lock!KnownPeripheralFound(p)

AppNext ==
  \/ AppRelaunch
  \/ Launched
  \/ Opened
  \/ Appeared
  \/ \E t \in Tab : TabTapped(t)
  \/ \E p \in Peripheral : RowTapped(p)
  \/ \E object \in LKJHistory : Saved(object)
  \/ LockTapped
  \/ Bluetooth

AppSpec == AppInit /\ [][AppNext]_appVars
-----------------------------------------------------------------------------
(***************************************************************************)
(* The tabs keep to what LKJLockViewController asks of them: with them in  *)
(* place of its external steps the app is one of that specification's,     *)
(* so that what holds of the Control tab by itself holds of it in the app. *)
(***************************************************************************)
ImplementsControl == Lock!Spec

Rows(colour) == {i \in DOMAIN cells : cells[i].colour = colour}

Sent(command) == {i \in DOMAIN commands : commands[i] = command}

(***************************************************************************)
(* The History tab on screen tells what the taps have done to the locks,   *)
(* in this launch or an earlier one: a row for each tap that was recorded, *)
(* with as many locked rows as disconnections were asked for at least, and *)
(* as many unlocked ones as connections.  What is recorded was chosen      *)
(* before the link was asked again and the command sent; only a tap that   *)
(* found the link lost by then, and sent nothing, may have either colour.  *)
(***************************************************************************)
HistoryTellsCommands ==
  appearance[History] = "visible" =>
    /\ Len(cells) = Len(commands)
    /\ Cardinality(Rows("locked")) >= Cardinality(Sent("lock"))
    /\ Cardinality(Rows("unlocked")) >= Cardinality(Sent("unlock"))

(***************************************************************************)
(* Why: changeLockStatus: runs only in a Control tab on screen, so the     *)
(* Realm does not change behind the table of the History tab.              *)
(***************************************************************************)
CommandsStored ==
  /\ Cardinality({o \in stored : o.isLockAction})
       = Cardinality({i \in DOMAIN history : history[i].isLockAction})
  /\ Cardinality({o \in stored : ~o.isLockAction})
       = Cardinality({i \in DOMAIN history : ~history[i].isLockAction})

StoredInv ==
  /\ stored \subseteq LKJHistory /\ IsFiniteSet(stored)
  /\ \A o, p \in stored : o.activatedDate = p.activatedDate => o = p
  /\ CommandsStored
  /\ pc # "idle" => visible
  /\ currentContent = History => results
  /\ appearance[History] = "visible" => cells = CellsFor(stored)

(* And while changeLockStatus: runs its record agrees with what it sends.  *)
AgreesWith(object, command) ==
  /\ command = "lock" => object.isLockAction
  /\ command = "unlock" => ~object.isLockAction

CommandsInv ==
  /\ commands \in Seq({"lock", "unlock", "none"})
  /\ sent \in {"lock", "unlock", "none"}
  /\ Len(commands) = Len(history)
  /\ \A i \in DOMAIN commands : AgreesWith(history[i], commands[i])
  /\ pc = "save" => AgreesWith(historyObject, sent)
  /\ pc # "save" => sent = "none"

(* The inductive invariant of the app, given that of the Control tab.      *)
AppInv == TabInv /\ StoredInv /\ CommandsInv
=============================================================================
