--------------------- MODULE LKJConnectionViewController ---------------------
(***************************************************************************)
(* The Connect tab of LKJConnectionViewController.m on top of the          *)
(* Bluetooth controller: a table whose row counts the view controller      *)
(* keeps itself, from the arrays of the controller when the view appears   *)
(* and from its notifications while it is observing.                       *)
(*                                                                         *)
(* A device added to an array by the BLE queue reaches the table through   *)
(* two more queues: "com.lockjaw.ble.notification", which calls the        *)
(* observer, and the main queue, to which the observer dispatches.         *)
(***************************************************************************)
EXTENDS LKJBluetoothController, FiniteSets

VARIABLES
  view,          \* the life cycle UIKit drives (external)
  observing,     \* it is an observer of the controller's notifications
  mainQueue,     \* the blocks newBluetoothDevice: has dispatched, by section
  numberOfRows,  \* numberOfRowsInSectionZero and numberofRowsInSectionOne
  shown,         \* the cells UITableView has, below the headers (external)
  noDevicesLabelHidden,  \* of the label that says "No devices found."
  recounted      \* the last count took in devices still to be announced (history)

viewVars ==
  <<view, observing, mainQueue, numberOfRows, shown, noDevicesLabelHidden, recounted>>
connectVars == <<vars, viewVars>>

Section == {MyDevices, ConnectDevice}

Devices(s) == IF s = MyDevices THEN knownDevicesArray ELSE discoveredDevicesArray

NumberOfDevicesInSection(s) == Len(Devices(s))

OnlySelectedMutant(p) == [peripheral |-> p, connected |-> p = SelectedPeripheral]

(* configureWithPeripheral:andRSSI: asks the controller whether the device *)
(* is connected while it makes the cell, and never again.                  *)
Cell(p) == [peripheral |-> p, connected |-> IsConnectedToPeripheral(p)]

OneSectionMutant(rows) == rows[ConnectDevice] > 0

(* tableView:numberOfRowsInSection: answers UIKit, and hides the label or  *)
(* shows it: UIKit asks whenever the table is laid out or has changed.     *)
AskNumberOfRows(rows) == \E s \in Section : rows[s] > 0

ViewInit ==
  /\ view = "unloaded"
  /\ observing = FALSE
  /\ mainQueue = <<>>
  /\ numberOfRows = [s \in Section |-> 0]
  /\ shown = [s \in Section |-> <<>>]
  /\ noDevicesLabelHidden = TRUE
  /\ recounted = FALSE

ConnectInit == Init /\ ViewInit

(* The process dies and is started again. *)
ConnectRelaunch ==
  /\ Relaunch
  /\ view' = "unloaded"
  /\ observing' = FALSE
  /\ mainQueue' = <<>>
  /\ numberOfRows' = [s \in Section |-> 0]
  /\ shown' = [s \in Section |-> <<>>]
  /\ noDevicesLabelHidden' = TRUE
  /\ recounted' = FALSE
-----------------------------------------------------------------------------
MainThreadFree == pc["main"] = "idle" /\ view \notin {"leaving", "counting"}

ViewDidLoad ==
  /\ MainThreadFree
  /\ view = "unloaded"
  /\ view' = "hidden"
  /\ numberOfRows' = [s \in Section |-> 0]
  /\ noDevicesLabelHidden' = TRUE
  /\ IF isOnline THEN BeginScanning ELSE UNCHANGED vars
  /\ UNCHANGED <<observing, mainQueue, shown, recounted>>

LateRegistrationMutant == UNCHANGED observing

RegisterForNotifications == observing' = TRUE

ViewWillAppear ==
  /\ MainThreadFree
  /\ view = "hidden"
  /\ view' = "appearing"
  /\ RegisterForNotifications
  /\ noDevicesLabelHidden' = AskNumberOfRows(numberOfRows)
  /\ UNCHANGED <<vars, mainQueue, numberOfRows, shown, recounted>>

FewestTwoMutant(devices) == IF devices > 1 THEN devices + 1 ELSE 0
HeaderSubtractedMutant(devices) == devices - 1

(* One row more than there are devices, for the header, or none at all. *)
RowsFor(devices) == IF devices > 0 THEN devices + 1 ELSE 0

(* The announcements of a section that the table is still to receive.      *)
Count(queue, s) == Cardinality({i \in DOMAIN queue : queue[i] = s})
Announced(s) == Count(mainQueue, s) + Count(notificationQueue, s)

CountSection(s) ==
  numberOfRows' = [numberOfRows EXCEPT ![s] = RowsFor(NumberOfDevicesInSection(s))]

(***************************************************************************)
(* It counts the devices afresh, announced or not, one section and then    *)
(* the other, and reloads the table; the BLE queue goes on meanwhile.      *)
(***************************************************************************)
ViewDidAppear ==
  /\ MainThreadFree
  /\ view = "appearing"
  /\ view' = "counting"
  /\ CountSection(MyDevices)
  /\ recounted' = (Announced(MyDevices) # 0)
  /\ UNCHANGED <<vars, observing, mainQueue, shown, noDevicesLabelHidden>>

CellsFrom(devices, rows) == [i \in 1..(rows - 1) |-> Cell(devices[i])]

ReloadData ==
  /\ view = "counting"
  /\ view' = "visible"
  /\ CountSection(ConnectDevice)
  /\ recounted' = (recounted \/ Announced(ConnectDevice) # 0)
  /\ shown' = [s \in Section |-> CellsFrom(Devices(s), numberOfRows'[s])]
  /\ noDevicesLabelHidden' = AskNumberOfRows(numberOfRows')
  /\ UNCHANGED <<vars, observing, mainQueue>>

(* Another tab is shown, by its button or after a row has been selected. *)
ViewWillDisappear ==
  /\ pc["main"] = "idle"
  /\ view \in {"appearing", "visible", "leaving"}
  /\ view' = "hidden"
  /\ observing' = FALSE
  /\ UNCHANGED <<vars, mainQueue, numberOfRows, shown, noDevicesLabelHidden, recounted>>
-----------------------------------------------------------------------------
(* newBluetoothDevice:, on the notification queue, if anyone observes. *)
NewBluetoothDevice ==
  /\ PostNotification
  /\ mainQueue' = IF observing THEN Append(mainQueue, Head(notificationQueue)) ELSE mainQueue
  /\ UNCHANGED <<view, observing, numberOfRows, shown, noDevicesLabelHidden, recounted>>

(***************************************************************************)
(* The block newBluetoothDevice: dispatches: the header first if there is  *)
(* none, then a row at the end.  While the view is in the window UIKit     *)
(* asks for the cell of the new row, and peripheralAtIndex:inSection:      *)
(* raises when the array is shorter: the app dies.                         *)
(***************************************************************************)
NoIncrementMutant(s) == IF numberOfRows[s] = 0 THEN 2 ELSE numberOfRows[s]

RowsAfterBlock(s) == IF numberOfRows[s] = 0 THEN 2 ELSE numberOfRows[s] + 1

InWindow == view \in {"appearing", "visible"}

BlockRaises ==
  /\ mainQueue # <<>>
  /\ InWindow
  /\ RowsAfterBlock(Head(mainQueue)) - 1 > NumberOfDevicesInSection(Head(mainQueue))

InsertRow ==
  /\ MainThreadFree
  /\ mainQueue # <<>>
  /\ ~BlockRaises
  /\ mainQueue' = Tail(mainQueue)
  /\ LET s == Head(mainQueue) IN
       /\ numberOfRows' = [numberOfRows EXCEPT ![s] = RowsAfterBlock(s)]
       /\ shown' = IF InWindow
                   THEN [shown EXCEPT ![s] = Append(@, Cell(Devices(s)[RowsAfterBlock(s) - 1]))]
                   ELSE shown
  /\ noDevicesLabelHidden' = AskNumberOfRows(numberOfRows')
  /\ UNCHANGED <<vars, view, observing, recounted>>

InsertRowRaises ==
  /\ MainThreadFree
  /\ BlockRaises
  /\ ConnectRelaunch

(***************************************************************************)
(* tableView:didSelectRowAtIndexPath:.  The delegate then shows the        *)
(* Control tab, before the main thread does anything else.  Row 0 is the   *)
(* header: index -1 is in no array, which raises.                          *)
(***************************************************************************)
IndexOfRow(row) == row - 1

DidSelectRow(s, row) ==
  /\ MainThreadFree
  /\ view = "visible"
  /\ row \in 1..(numberOfRows[s] - 1)
  /\ IF s = MyDevices THEN SelectKnown(IndexOfRow(row)) ELSE SelectDiscovered(IndexOfRow(row))
  /\ view' = "leaving"
  /\ UNCHANGED <<observing, mainQueue, numberOfRows, shown, noDevicesLabelHidden, recounted>>

DidSelectHeader(s) ==
  /\ MainThreadFree
  /\ view = "visible"
  /\ numberOfRows[s] > 0
  /\ ConnectRelaunch
-----------------------------------------------------------------------------
ControllerStep ==
  /\ \/ RadioChanges
     \/ CentralManagerDidUpdateState
     \/ \E p \in Peripheral : DidDiscoverPeripheral(p)
     \/ BleStep
     \/ MainStep
  /\ UNCHANGED viewVars

Tap ==
  \/ \E s \in Section : \E row \in 1..(numberOfRows[s] - 1) : DidSelectRow(s, row)
  \/ \E s \in Section : DidSelectHeader(s)

ConnectNext ==
  \/ ConnectRelaunch
  \/ ControllerStep
  \/ ViewDidLoad
  \/ ViewWillAppear
  \/ ViewDidAppear
  \/ ReloadData
  \/ ViewWillDisappear
  \/ NewBluetoothDevice
  \/ InsertRow
  \/ InsertRowRaises
  \/ Tap

(* The user may leave a tab and come back; UIKit finishes what it starts. *)
ConnectFairness ==
  /\ WF_connectVars(CentralManagerDidUpdateState /\ UNCHANGED viewVars)
  /\ WF_connectVars(BleStep /\ UNCHANGED viewVars)
  /\ WF_connectVars(MainStep /\ UNCHANGED viewVars)
  /\ WF_connectVars(NewBluetoothDevice)
  /\ WF_connectVars(InsertRow)
  /\ WF_connectVars(InsertRowRaises)
  /\ WF_connectVars(ViewDidAppear)
  /\ WF_connectVars(ReloadData)

ConnectSpec ==
  ConnectInit /\ [][ConnectNext /\ ~raced']_connectVars /\ ConnectFairness
-----------------------------------------------------------------------------
ConnectTypeOK ==
  /\ view \in {"unloaded", "hidden", "appearing", "counting", "visible", "leaving"}
  /\ observing \in BOOLEAN
  /\ mainQueue \in Seq(Section)
  /\ numberOfRows \in [Section -> Nat]
  /\ shown \in [Section -> Seq([peripheral : Peripheral, connected : BOOLEAN])]
  /\ noDevicesLabelHidden \in BOOLEAN
  /\ recounted \in BOOLEAN

(***************************************************************************)
(* No announcement falls between the registration of viewWillAppear: and   *)
(* the count of viewDidAppear:, nor is one received while the view is away *)
(* needed: once nothing is queued, a visible table has one row per device. *)
(***************************************************************************)
DeviceRows(s) == IF numberOfRows[s] = 0 THEN 0 ELSE numberOfRows[s] - 1

Quiet == Idle /\ notificationQueue = <<>> /\ mainQueue = <<>>

NoDeviceMissing ==
  view = "visible" /\ Quiet =>
    \A s \in Section : DeviceRows(s) = NumberOfDevicesInSection(s)

(***************************************************************************)
(* The books of the visible table balance, with announcements anywhere in  *)
(* the two queues, unless the count of viewDidAppear: took in a device     *)
(* whose announcement was still on its way.  When they balance the table   *)
(* never asks for a row beyond the array; that count is the only cause.    *)
(***************************************************************************)
RowsBalance ==
  view = "visible" /\ ~recounted =>
    \A s \in Section : DeviceRows(s) + Announced(s) = NumberOfDevicesInSection(s)

(***************************************************************************)
(* From the tap on a row until the tab has left, through all the messages  *)
(* of selectPeripheralAtIndex:inSection: and whatever the BLE queue adds   *)
(* to the arrays between them, the device the method works on is the one   *)
(* whose cell was tapped.  In the end it can be locked and unlocked, and   *)
(* if it was one of "My Devices" it is the one selected.  (Of the other    *)
(* section that is not so: the comment on MyDevicesTapSelects says why.)   *)
(***************************************************************************)
TappedDevice == shown[section][index + 1].peripheral

TappedIsSelected ==
  view = "leaving" =>
    IF pc["main"] = "idle"
    THEN /\ TappedDevice \in Range(connectedPeripherals)
         /\ section = MyDevices => SelectedPeripheral = TappedDevice
    ELSE peripheral["main"] = TappedDevice

(***************************************************************************)
(* A device in a visible table is said to be connected when it is one of   *)
(* "My Devices" and disconnected otherwise, though a cell asks only once,  *)
(* between the additions that make a device known and connected.           *)
(***************************************************************************)
LabelMatchesSection ==
  view = "visible" =>
    \A s \in Section : \A row \in DOMAIN shown[s] :
      shown[s][row].connected <=> s = MyDevices

(***************************************************************************)
(* Once nothing is queued a visible table says "No devices found." when    *)
(* the controller has none, and only then.                                 *)
(***************************************************************************)
LabelSaysNoDevices ==
  view = "visible" /\ Quiet =>
    (noDevicesLabelHidden <=> \E s \in Section : NumberOfDevicesInSection(s) > 0)

(***************************************************************************)
(* Why the safety properties hold: the inductive invariant of the table,   *)
(* given RaceFreeInv.  A block on the main queue never adds a row too many *)
(* to a table on screen, and one is on its way for each row it lacks.      *)
(***************************************************************************)
NothingMissed(s) ==
  /\ DeviceRows(s) <= NumberOfDevicesInSection(s)
  /\ DeviceRows(s) + Announced(s) >= NumberOfDevicesInSection(s)
  /\ ~recounted => DeviceRows(s) + Announced(s) = NumberOfDevicesInSection(s)

CellsAreRows(s) ==
  /\ Len(shown[s]) = DeviceRows(s)
  /\ \A row \in DOMAIN shown[s] : shown[s][row].peripheral = Devices(s)[row]

ConnectInv ==
  /\ pc["main"] # "idle" => view = "leaving"
  /\ observing <=> view \in {"appearing", "counting", "visible", "leaving"}
  /\ \A s \in Section : numberOfRows[s] # 1
  /\ view = "counting" => NothingMissed(MyDevices)
  /\ view = "visible" =>
       /\ \A s \in Section : NothingMissed(s) /\ CellsAreRows(s)
       /\ noDevicesLabelHidden <=> \E s \in Section : numberOfRows[s] > 0
  /\ LabelMatchesSection

(***************************************************************************)
(* The tab observes as the life cycle of a content has it: from            *)
(* viewWillAppear: to viewWillDisappear:, the tap that makes it leave and  *)
(* the deaths of the process included.                                     *)
(***************************************************************************)
Content == INSTANCE ContentLifeCycle WITH
  RegistersIn <- "viewWillAppear",
  phase <- CASE view \in {"unloaded", "hidden"} -> "hidden"
             [] view = "appearing" -> "appearing"
             [] view \in {"counting", "visible", "leaving"} -> "visible"

KeepsLifeCycle == Content!Spec

Shows(s, p) == \E row \in DOMAIN shown[s] : shown[s][row].peripheral = p

(* While the view stays visible a device found is eventually shown.        *)
FoundIsShown ==
  \A p \in Peripheral :
    view = "visible" /\ p \in Range(discoveredDevicesArray) \cup Range(knownDevicesArray)
      ~> view # "visible" \/ \E s \in Section : Shows(s, p)
=============================================================================
