----------------------- MODULE LKJBluetoothController -----------------------
(***************************************************************************)
(* The singleton of LKJBluetoothController.m: what it knows of the radio,  *)
(* the three arrays and the dictionary of peripherals, the selected index, *)
(* and the LKJPeripheral objects it stores in Realm.                       *)
(*                                                                         *)
(* Two threads run its methods: the serial queue "com.lockjaw.ble", on     *)
(* which CoreBluetooth calls the delegate methods, and the main thread, on *)
(* which the view controllers call the rest.  Nothing synchronises them.   *)
(* An action is one message to shared state (an array, Realm, an ivar), so *)
(* the handlers of the two threads interleave message by message.          *)
(***************************************************************************)
EXTENDS Integers, Sequences, SequencesExt

CONSTANTS
  Peripheral,      \* the named peripherals that may advertise
  Nil,             \* Objective-C nil, as the value of a string property
  MaxStateEvents   \* bound: state callbacks waiting on the BLE queue

ASSUME ConstantAssumption ==
  /\ Nil \notin Peripheral
  /\ MaxStateEvents \in Nat \ {0}

VARIABLES
  radio,        \* CBCentralManager.state (external)
  stateEvents,  \* centralManagerDidUpdateState: calls still queued (external)
  scanning,     \* CoreBluetooth is scanning for us (external)
  isOnline,
  discoveredDevicesArray,
  knownDevicesArray,
  connectedPeripherals,
  discoveredDevicesDictionary,    \* the identifiers it has as keys
  selectedBluetoothDeviceIndex,
  notificationQueue,  \* sections announced and not yet posted
  stored,       \* the LKJPeripheral objects committed to Realm
  bleRealm,     \* the version the BLE queue's cached RLMRealm is pinned at
  pc,           \* what each thread sends next
  peripheral,   \* each thread's local variable of that name
  index,        \* the main thread's argument of that name
  section,      \* the main thread's argument of that name
  stale,        \* the array a thread is about to change, as it was before
  raced         \* two messages to one array have overlapped

realmVars == <<stored, bleRealm>>
radioVars == <<radio, stateEvents, scanning, isOnline>>
arrays == <<discoveredDevicesArray, knownDevicesArray, connectedPeripherals>>
registryVars == <<arrays, discoveredDevicesDictionary,
                  selectedBluetoothDeviceIndex, notificationQueue, raced>>
threadVars == <<pc, peripheral, index, section, stale>>
vars == <<radioVars, registryVars, realmVars, threadVars>>

Thread == {"main", "ble"}

NSNotFound == 2147483647   \* NSIntegerMax of the armv7 build

LKJPeripheral == [uuid : Peripheral, name : Peripheral \cup {Nil}]

(* objectsWhere:"uuid = ..." finds an object for these peripherals. *)
StoredUUIDs == {stored[i].uuid : i \in DOMAIN stored}

(***************************************************************************)
(* Definitions named ...Mutant are plausible mistakes in the definition    *)
(* that follows them; PROJECT.json says which property notices each.       *)
(***************************************************************************)
SectionMutant == 2

(* The two sections of the Connect table. *)
MyDevices == 0
ConnectDevice == 1

NotSeenMutant(p) == FALSE

(* discoveredDevicesDictionary[p.identifier] is set. *)
AlreadySeen(p) == p \in discoveredDevicesDictionary

NoMatchMutant(p, version) == FALSE

(* objectsWhere: finds an object for p in that version of the Realm. *)
ExistingPeripheral(p, version) == p \in version

KnowsPeripheralMutant(p) == Contains(knownDevicesArray, p)

IsConnectedToPeripheral(p) == Contains(connectedPeripherals, p)

RowInTableMutant(array, p) == index

(* -[NSArray indexOfObject:], from 0. *)
IndexOfObject(array, p) ==
  IF Contains(array, p)
  THEN (CHOOSE i \in DOMAIN array :
          array[i] = p /\ \A j \in 1..(i - 1) : array[j] # p) - 1
  ELSE NSNotFound
-----------------------------------------------------------------------------
(***************************************************************************)
(* NSMutableArray is not thread safe.  A message that does not overlap     *)
(* another one changes the array as it is.  One that overlaps an addition  *)
(* or a removal of the other thread may instead work from the array as it  *)
(* was and so undo that change.  The other thing that can happen is that   *)
(* the app dies, which Relaunch covers.                                    *)
(***************************************************************************)
InsertFirstMutant(array, thread, p) == array' = <<p>> \o array /\ UNCHANGED raced

AddObject(array, thread, p) ==
  \/ array' = Append(array, p) /\ UNCHANGED raced
  \/ /\ stale[thread] # array
     /\ array' = Append(stale[thread], p)
     /\ raced' = TRUE

RemoveLastObjectMutant(array, thread, i) == array' = Front(array) /\ UNCHANGED raced

(* An index that is out of range raises: the app dies. *)
RemoveObjectAtIndex(array, thread, i) ==
  \/ /\ i + 1 \in DOMAIN array
     /\ array' = RemoveAt(array, i + 1)
     /\ UNCHANGED raced
  \/ /\ stale[thread] # array
     /\ i + 1 \in DOMAIN stale[thread]
     /\ array' = RemoveAt(stale[thread], i + 1)
     /\ raced' = TRUE

Goto(thread, label) == pc' = [pc EXCEPT ![thread] = label]

(* The thread's next message changes array. *)
AboutToChange(thread, array) == stale' = [stale EXCEPT ![thread] = array]
NoLongerChanging(thread) == stale' = [stale EXCEPT ![thread] = <<>>]
-----------------------------------------------------------------------------
Init ==
  /\ radio = "poweredOff"
  /\ stateEvents = 1
  /\ scanning = FALSE
  /\ isOnline = FALSE
  /\ discoveredDevicesArray = <<>>
  /\ knownDevicesArray = <<>>
  /\ connectedPeripherals = <<>>
  /\ discoveredDevicesDictionary = {}
  /\ selectedBluetoothDeviceIndex = -1
  /\ notificationQueue = <<>>
  /\ stored = <<>>
  /\ bleRealm = {}
  /\ pc = [t \in Thread |-> "idle"]
  /\ peripheral = [t \in Thread |-> Nil]
  /\ index = 0
  /\ section = MyDevices
  /\ stale = [t \in Thread |-> <<>>]
  /\ raced = FALSE

(* The process dies, at any point, and is started again: -init. *)
Relaunch ==
  /\ stateEvents' = 1
  /\ scanning' = FALSE
  /\ isOnline' = FALSE
  /\ discoveredDevicesArray' = <<>>
  /\ knownDevicesArray' = <<>>
  /\ connectedPeripherals' = <<>>
  /\ discoveredDevicesDictionary' = {}
  /\ selectedBluetoothDeviceIndex' = -1
  /\ notificationQueue' = <<>>
  /\ bleRealm' = {}
  /\ pc' = [t \in Thread |-> "idle"]
  /\ peripheral' = [t \in Thread |-> Nil]
  /\ index' = 0
  /\ section' = MyDevices
  /\ stale' = [t \in Thread |-> <<>>]
  /\ UNCHANGED <<radio, stored, raced>>

(***************************************************************************)
(* The radio.  Every state but poweredOn is treated alike by the switch in *)
(* centralManagerDidUpdateState:, so one of them stands for all.           *)
(***************************************************************************)
RadioChanges ==
  /\ stateEvents < MaxStateEvents
  /\ radio' = IF radio = "poweredOn" THEN "poweredOff" ELSE "poweredOn"
  /\ scanning' = FALSE
  /\ stateEvents' = stateEvents + 1
  /\ UNCHANGED <<isOnline, registryVars, realmVars, threadVars>>

NoScanMutant == UNCHANGED scanning

(* CoreBluetooth ignores the request unless the radio is on. *)
ScanForPeripherals == scanning' = (scanning \/ radio = "poweredOn")

CentralManagerDidUpdateState ==
  /\ pc["ble"] = "idle"
  /\ stateEvents > 0
  /\ stateEvents' = stateEvents - 1
  /\ \/ /\ radio = "poweredOn"
        /\ isOnline' = TRUE
        /\ ScanForPeripherals
     \/ /\ radio # "poweredOn"
        /\ UNCHANGED <<isOnline, scanning>>
  /\ UNCHANGED <<radio, registryVars, realmVars, threadVars>>

BeginScanning ==
  /\ pc["main"] = "idle"
  /\ isOnline
  /\ ScanForPeripherals
  /\ UNCHANGED <<radio, stateEvents, isOnline, registryVars, realmVars, threadVars>>
-----------------------------------------------------------------------------
(***************************************************************************)
(* centralManager:didDiscoverPeripheral:.  A peripheral already in the     *)
(* dictionary only has its discoveryDate renewed, and one without a name   *)
(* is ignored, so neither is a step.  The lookup reads the version the     *)
(* queue's cached RLMRealm is pinned at, when there is one: nothing        *)
(* refreshes a Realm on a queue without a run loop.  When the cached Realm *)
(* has been released, a new one is opened at the last commit.              *)
(***************************************************************************)
DidDiscoverPeripheral(p) ==
  /\ pc["ble"] = "idle"
  /\ isOnline
  /\ ~AlreadySeen(p)
  /\ \E version \in bleRealm \cup {StoredUUIDs} :
       /\ bleRealm' = {version}
       /\ IF ExistingPeripheral(p, version)
          THEN /\ Goto("ble", "connect")
               /\ AboutToChange("ble", connectedPeripherals)
          ELSE /\ Goto("ble", "list")
               /\ AboutToChange("ble", discoveredDevicesArray)
  /\ peripheral' = [peripheral EXCEPT !["ble"] = p]
  /\ UNCHANGED <<radioVars, registryVars, stored, index, section>>

(* [connectedPeripherals addObject:] of a peripheral found in Realm. *)
BleConnect ==
  /\ pc["ble"] = "connect"
  /\ AddObject(connectedPeripherals, "ble", peripheral["ble"])
  /\ Goto("ble", "know")
  /\ AboutToChange("ble", knownDevicesArray)
  /\ UNCHANGED <<radioVars, discoveredDevicesArray, knownDevicesArray,
                 discoveredDevicesDictionary, selectedBluetoothDeviceIndex,
                 notificationQueue, realmVars, peripheral, index, section>>

(* What follows the last array message: the announcement, the dictionary. *)
Announce(s) ==
  /\ notificationQueue' = Append(notificationQueue, s)
  /\ discoveredDevicesDictionary' = discoveredDevicesDictionary \cup {peripheral["ble"]}
  /\ Goto("ble", "idle")
  /\ peripheral' = [peripheral EXCEPT !["ble"] = Nil]
  /\ NoLongerChanging("ble")
  /\ UNCHANGED <<radioVars, connectedPeripherals, selectedBluetoothDeviceIndex,
                 realmVars, index, section>>

(* [knownDevicesArray addObject:]. *)
BleKnow ==
  /\ pc["ble"] = "know"
  /\ AddObject(knownDevicesArray, "ble", peripheral["ble"])
  /\ Announce(MyDevices)
  /\ UNCHANGED discoveredDevicesArray

(* [discoveredDevicesArray addObject:] of a peripheral not found in Realm. *)
BleList ==
  /\ pc["ble"] = "list"
  /\ AddObject(discoveredDevicesArray, "ble", peripheral["ble"])
  /\ Announce(ConnectDevice)
  /\ UNCHANGED knownDevicesArray

(* The next block of "com.lockjaw.ble.notification" posts to the observers. *)
PostNotification ==
  /\ notificationQueue # <<>>
  /\ notificationQueue' = Tail(notificationQueue)
  /\ UNCHANGED <<radioVars, arrays, discoveredDevicesDictionary,
                 selectedBluetoothDeviceIndex, raced, realmVars, threadVars>>
-----------------------------------------------------------------------------
(***************************************************************************)
(* selectPeripheralAtIndex:inSection:, called with the row the user taps.  *)
(***************************************************************************)
SelectKnown(i) ==
  /\ pc["main"] = "idle"
  /\ i + 1 \in DOMAIN knownDevicesArray
  /\ peripheral' = [peripheral EXCEPT !["main"] = knownDevicesArray[i + 1]]
  /\ index' = i
  /\ section' = MyDevices
  /\ Goto("main", "contains")
  /\ UNCHANGED <<radioVars, registryVars, realmVars, stale>>

SelectDiscovered(i) ==
  /\ pc["main"] = "idle"
  /\ i + 1 \in DOMAIN discoveredDevicesArray
  /\ peripheral' = [peripheral EXCEPT !["main"] = discoveredDevicesArray[i + 1]]
  /\ index' = i
  /\ section' = ConnectDevice
  /\ Goto("main", "remove")
  /\ AboutToChange("main", discoveredDevicesArray)
  /\ UNCHANGED <<radioVars, registryVars, realmVars>>

(* [discoveredDevicesArray removeObjectAtIndex:index]. *)
MainRemove ==
  /\ pc["main"] = "remove"
  /\ RemoveObjectAtIndex(discoveredDevicesArray, "main", index)
  /\ Goto("main", "know")
  /\ AboutToChange("main", knownDevicesArray)
  /\ UNCHANGED <<radioVars, knownDevicesArray, connectedPeripherals,
                 discoveredDevicesDictionary, selectedBluetoothDeviceIndex,
                 notificationQueue, realmVars, peripheral, index, section>>

(* [knownDevicesArray addObject:]. *)
MainKnow ==
  /\ pc["main"] = "know"
  /\ AddObject(knownDevicesArray, "main", peripheral["main"])
  /\ Goto("main", "persist")
  /\ NoLongerChanging("main")
  /\ UNCHANGED <<radioVars, discoveredDevicesArray, connectedPeripherals,
                 discoveredDevicesDictionary, selectedBluetoothDeviceIndex,
                 notificationQueue, realmVars, peripheral, index, section>>

CancelledWriteMutant(p) == UNCHANGED stored

(***************************************************************************)
(* The write transaction.  The new object's name is assigned from itself,  *)
(* so it stays nil.                                                        *)
(***************************************************************************)
WriteTransaction(p) == stored' = Append(stored, [uuid |-> p, name |-> Nil])

MainPersist ==
  /\ pc["main"] = "persist"
  /\ WriteTransaction(peripheral["main"])
  /\ Goto("main", "contains")
  /\ UNCHANGED <<radioVars, registryVars, bleRealm, peripheral, index, section, stale>>

(* [connectedPeripherals containsObject:peripheral]. *)
MainContains ==
  /\ pc["main"] = "contains"
  /\ \/ /\ IsConnectedToPeripheral(peripheral["main"])
        /\ Goto("main", "indexOf")
        /\ UNCHANGED stale
     \/ /\ ~IsConnectedToPeripheral(peripheral["main"])
        /\ Goto("main", "connect")
        /\ AboutToChange("main", connectedPeripherals)
  /\ UNCHANGED <<radioVars, registryVars, realmVars, peripheral, index, section>>

(* [connectedPeripherals addObject:peripheral]. *)
MainConnect ==
  /\ pc["main"] = "connect"
  /\ AddObject(connectedPeripherals, "main", peripheral["main"])
  /\ Goto("main", "count")
  /\ NoLongerChanging("main")
  /\ UNCHANGED <<radioVars, discoveredDevicesArray, knownDevicesArray,
                 discoveredDevicesDictionary, selectedBluetoothDeviceIndex,
                 notificationQueue, realmVars, peripheral, index, section>>

(* The method's last message leaves the main thread idle. *)
Select(i) ==
  /\ selectedBluetoothDeviceIndex' = i
  /\ Goto("main", "idle")
  /\ peripheral' = [peripheral EXCEPT !["main"] = Nil]
  /\ UNCHANGED <<radioVars, arrays, discoveredDevicesDictionary,
                 notificationQueue, raced, realmVars, index, section, stale>>

CountMutant == Len(connectedPeripherals)

(* connectedPeripherals.count - 1. *)
LastIndex == Len(connectedPeripherals) - 1

MainCount ==
  /\ pc["main"] = "count"
  /\ Select(LastIndex)

MainIndexOf ==
  /\ pc["main"] = "indexOf"
  /\ Select(IndexOfObject(connectedPeripherals, peripheral["main"]))
-----------------------------------------------------------------------------
MainStep ==
  \/ MainRemove
  \/ MainKnow
  \/ MainPersist
  \/ MainContains
  \/ MainConnect
  \/ MainCount
  \/ MainIndexOf

BleStep ==
  \/ BleConnect
  \/ BleKnow
  \/ BleList

Next ==
  \/ Relaunch
  \/ RadioChanges
  \/ CentralManagerDidUpdateState
  \/ BeginScanning
  \/ \E p \in Peripheral : DidDiscoverPeripheral(p)
  \/ BleStep
  \/ PostNotification
  \/ \E i \in DOMAIN knownDevicesArray : SelectKnown(i - 1)
  \/ \E i \in DOMAIN discoveredDevicesArray : SelectDiscovered(i - 1)
  \/ MainStep

(***************************************************************************)
(* A queue runs the blocks it holds and a method that has started runs to  *)
(* its end.  The user, the radio and the peripherals owe nothing.          *)
(***************************************************************************)
Fairness ==
  /\ WF_vars(CentralManagerDidUpdateState)
  /\ WF_vars(BleStep)
  /\ WF_vars(PostNotification)
  /\ WF_vars(MainStep)

Spec == Init /\ [][Next]_vars /\ Fairness

(* The executions in which no two messages to one array overlap. *)
RaceFreeSpec == Init /\ [][Next /\ ~raced']_vars /\ Fairness
-----------------------------------------------------------------------------
Arrays == Seq(Peripheral)
Labels == {"idle", "connect", "know", "list", "remove", "persist", "contains",
           "count", "indexOf"}

(* The types of all the variables, whatever the threads do. *)
TypeOK ==
  /\ radio \in {"poweredOn", "poweredOff"}
  /\ stateEvents \in 0..MaxStateEvents
  /\ scanning \in BOOLEAN
  /\ isOnline \in BOOLEAN
  /\ discoveredDevicesArray \in Arrays
  /\ knownDevicesArray \in Arrays
  /\ connectedPeripherals \in Arrays
  /\ discoveredDevicesDictionary \subseteq Peripheral
  /\ selectedBluetoothDeviceIndex \in Nat \cup {-1}
  /\ notificationQueue \in Seq(0..1)
  /\ stored \in Seq(LKJPeripheral)
  /\ bleRealm \subseteq SUBSET Peripheral
  /\ pc \in [Thread -> Labels]
  /\ peripheral \in [Thread -> Peripheral \cup {Nil}]
  /\ \A t \in Thread : pc[t] # "idle" => peripheral[t] # Nil
  /\ index \in Nat
  /\ section \in 0..1
  /\ stale \in [Thread -> Arrays]
  /\ raced \in BOOLEAN

Idle == \A t \in Thread : pc[t] = "idle"

(***************************************************************************)
(* Absent a race no device has two rows in the Connect table, in whatever  *)
(* order the discoveries of the BLE queue and the taps interleave.         *)
(***************************************************************************)
OneRowPerDevice ==
  /\ IsInjective(discoveredDevicesArray)
  /\ IsInjective(knownDevicesArray)
  /\ Range(discoveredDevicesArray) \cap Range(knownDevicesArray) = {}

(***************************************************************************)
(* Absent a race, and with no method running, the devices that can be      *)
(* locked are those shown under "My Devices": each path that adds to one   *)
(* array adds to the other.                                                *)
(***************************************************************************)
KnownIffConnected ==
  Idle => Range(knownDevicesArray) = Range(connectedPeripherals)

(***************************************************************************)
(* Absent a race no peripheral is stored twice, though the BLE queue may   *)
(* look it up in a Realm that is older than the transaction storing it and *)
(* the app may die anywhere in selectPeripheralAtIndex:inSection:.         *)
(***************************************************************************)
NoDuplicateRecord ==
  \A i, j \in DOMAIN stored : stored[i].uuid = stored[j].uuid => i = j

(***************************************************************************)
(* Absent a race, and with no method running, each peripheral that will    *)
(* never be announced again, being in the dictionary, has a row.           *)
(***************************************************************************)
NothingLost ==
  Idle => discoveredDevicesDictionary
            \subseteq Range(discoveredDevicesArray) \cup Range(knownDevicesArray)

(* Absent a race the index is -1 or finds a device: no lock command raises. *)
SelectionInRange == selectedBluetoothDeviceIndex \in -1..(Len(connectedPeripherals) - 1)

(***************************************************************************)
(* Absent a race only a tap can change which device the index selects:     *)
(* devices found in the background never shift it.                         *)
(***************************************************************************)
SelectedPeripheral ==
  IF selectedBluetoothDeviceIndex + 1 \in DOMAIN connectedPeripherals
  THEN connectedPeripherals[selectedBluetoothDeviceIndex + 1]
  ELSE Nil

SelectionKept ==
  [][ UNCHANGED selectedBluetoothDeviceIndex
      => SelectedPeripheral' = SelectedPeripheral ]_vars

(***************************************************************************)
(* Absent a race a tap under "My Devices" selects the device tapped.  (One *)
(* under "Connect Device" may select another: the BLE queue can add to     *)
(* connectedPeripherals between the main thread's addObject: and count.)   *)
(***************************************************************************)
MyDevicesTapSelects ==
  [][ /\ pc["main"] \in {"count", "indexOf"}
      /\ pc'["main"] = "idle"
      /\ section = MyDevices
      => \/ SelectedPeripheral' = peripheral["main"]
         \/ Relaunch ]_vars

(* Absent a race the arrays and the Realm implement a DeviceRegistry; a    *)
(* device is claimed when the transaction that stores it commits.          *)
InClaim == IF pc["main"] \in {"know", "persist"} THEN {peripheral["main"]} ELSE {}

Registry == INSTANCE DeviceRegistry WITH
  listed <- Range(discoveredDevicesArray) \cup InClaim,
  mine <- Range(knownDevicesArray) \ InClaim,
  stored <- StoredUUIDs

ImplementsRegistry == Registry!Spec

(***************************************************************************)
(* Absent a race the controller is what LKJLockViewController takes it     *)
(* for: a set of devices that grows and the one of them that is selected,  *)
(* in place of an array, an index and the messages in between.  The rest   *)
(* of that module's variables are as they are behind the Connect tab.      *)
(***************************************************************************)
ControlTab == INSTANCE LKJLockViewController WITH
  MaxHistory <- 1,
  connectedPeripherals <- Range(connectedPeripherals),
  selected <- SelectedPeripheral,
  link <- [p \in Peripheral |-> "disconnected"],
  visible <- FALSE,
  hidden <- FALSE,
  lockViewIsLocked <- TRUE,
  alert <- FALSE,
  pc <- "idle",
  historyObject <- Nil,
  history <- <<>>,
  drifted <- FALSE

ImplementsControlDevices == ControlTab!Spec

(***************************************************************************)
(* Why all of this holds: the inductive invariant of the executions        *)
(* without a race.  It says where the device of each thread is while the   *)
(* thread is half way through its method.                                  *)
(***************************************************************************)

(* The device main has announced as known but not yet as connected. *)
NotYetConnected ==
  IF \/ pc["main"] \in {"persist", "connect"}
     \/ pc["main"] = "contains" /\ section = ConnectDevice
  THEN {peripheral["main"]} ELSE {}

(* The device the BLE queue has added to connectedPeripherals only. *)
NotYetKnown == IF pc["ble"] = "know" THEN {peripheral["ble"]} ELSE {}

(* The device main has taken out of one array and not put into another. *)
InTransit == IF pc["main"] = "know" THEN {peripheral["main"]} ELSE {}

ArraysInv ==
  /\ OneRowPerDevice
  /\ IsInjective(connectedPeripherals)
  /\ Range(connectedPeripherals)
       = (Range(knownDevicesArray) \ NotYetConnected) \cup NotYetKnown
  /\ discoveredDevicesDictionary
       = Range(discoveredDevicesArray) \cup Range(knownDevicesArray) \cup InTransit
  /\ SelectionInRange

RealmInv ==
  /\ NoDuplicateRecord
  /\ Range(discoveredDevicesArray) \cap StoredUUIDs = {}
  /\ Range(knownDevicesArray) \ InClaim \subseteq StoredUUIDs
  /\ InClaim \cap StoredUUIDs = {}
  /\ \A version \in bleRealm :
       /\ version \subseteq StoredUUIDs
       /\ StoredUUIDs \ version \subseteq discoveredDevicesDictionary

MainInv ==
  /\ pc["main"] \in {"idle", "remove", "know", "persist", "contains",
                     "connect", "count", "indexOf"}
  /\ pc["main"] \in {"remove", "know", "persist", "connect", "count"}
       => section = ConnectDevice
  /\ pc["main"] = "remove" =>
       /\ index + 1 \in DOMAIN discoveredDevicesArray
       /\ discoveredDevicesArray[index + 1] = peripheral["main"]
  /\ pc["main"] = "know" =>
       peripheral["main"] \notin Range(discoveredDevicesArray) \cup Range(knownDevicesArray)
  /\ pc["main"] \in {"persist", "contains", "connect"} =>
       peripheral["main"] \in Range(knownDevicesArray)
  /\ pc["main"] \in {"count", "indexOf"} =>
       peripheral["main"] \in Range(connectedPeripherals)

BleInv ==
  /\ pc["ble"] \in {"idle", "connect", "know", "list"}
  /\ pc["ble"] # "idle" => ~AlreadySeen(peripheral["ble"])
  /\ pc["ble"] \in {"connect", "know"} => peripheral["ble"] \in StoredUUIDs
  /\ pc["ble"] = "list" => peripheral["ble"] \notin StoredUUIDs

(* Absent a race. *)
RaceFreeInv == ArraysInv /\ RealmInv /\ MainInv /\ BleInv

(***************************************************************************)
(* LKJPeripheral.h:13, "Persist connected devices.": races or not, and     *)
(* wherever the app dies, a device the app can lock and unlock is one that *)
(* is committed to Realm, and so is one shown under "My Devices", but for  *)
(* the one a tap is about to commit.                                       *)
(***************************************************************************)
ConnectedArePersisted ==
  /\ Range(connectedPeripherals) \subseteq StoredUUIDs
  /\ Range(knownDevicesArray) \subseteq StoredUUIDs \cup InClaim

(***************************************************************************)
(* Why: a thread adds to these arrays only what it has found in Realm, in  *)
(* however old a version, or has just committed, and an array as it was    *)
(* before another thread changed it had no other devices in it.            *)
(***************************************************************************)
PersistInv ==
  /\ ConnectedArePersisted
  /\ \A version \in bleRealm : version \subseteq StoredUUIDs
  /\ pc["ble"] \in {"connect", "know"} => peripheral["ble"] \in StoredUUIDs
  /\ pc["main"] \in {"contains", "connect"} => peripheral["main"] \in StoredUUIDs
  /\ \A t \in Thread :
       /\ pc[t] = "connect" => Range(stale[t]) \subseteq StoredUUIDs
       /\ pc[t] = "know" => Range(stale[t]) \subseteq StoredUUIDs \cup InClaim

(***************************************************************************)
(* Races or not, wherever the app dies, and however old the version of the *)
(* Realm that the BLE queue is pinned at, the lookup of a discovery finds  *)
(* a peripheral exactly when it is stored, and it stays so until the       *)
(* peripheral is announced: no stored device is offered under "Connect     *)
(* Device" by a discovery, and none that is not goes to "My Devices".      *)
(***************************************************************************)
LookupIsRight ==
  pc["ble"] # "idle" =>
    (peripheral["ble"] \in StoredUUIDs <=> pc["ble"] \in {"connect", "know"})

(***************************************************************************)
(* Why: what the pinned version lacks was committed by a tap in this       *)
(* launch, the row tapped had been announced, and what has been announced  *)
(* is not looked up again.  A race never brings into an array a device     *)
(* that is not in the dictionary.                                          *)
(***************************************************************************)
SeenInv ==
  /\ LookupIsRight
  /\ \A version \in bleRealm :
       version \subseteq StoredUUIDs /\ StoredUUIDs \ version \subseteq discoveredDevicesDictionary
  /\ Range(discoveredDevicesArray) \cup Range(knownDevicesArray)
       \subseteq discoveredDevicesDictionary
  /\ \A t \in Thread :
       pc[t] \in {"list", "remove", "know"} => Range(stale[t]) \subseteq discoveredDevicesDictionary
  /\ pc["ble"] # "idle" => ~AlreadySeen(peripheral["ble"])
  /\ pc["main"] # "idle" => AlreadySeen(peripheral["main"])

(* With or without a race: the inductive invariant of all executions. *)
RacesInv == PersistInv /\ SeenInv

(***************************************************************************)
(* The scan is never forgotten while the radio is on: either CoreBluetooth *)
(* is scanning or a call of centralManagerDidUpdateState: is still to come *)
(* that will ask it to, however often the radio has gone off and on since. *)
(***************************************************************************)
ScanIsComing == radio = "poweredOn" => scanning \/ stateEvents > 0

(***************************************************************************)
(* Races or not, whenever the radio comes back on the app ends up scanning *)
(* again, though CoreBluetooth drops the scan whenever it goes off.        *)
(***************************************************************************)
ScanningResumes == []<>(scanning \/ radio # "poweredOn")
-----------------------------------------------------------------------------
(***************************************************************************)
(* What the comments of the repository say and the code does not do.       *)
(***************************************************************************)

(* LKJBluetoothController.m:81: "in known devices because always know      *)
(* device if connected", of the selected index: it finds the same device   *)
(* in knownDevicesArray.  Each array is filled in an order of its own.     *)
SelectedInKnownDevices ==
  Idle /\ selectedBluetoothDeviceIndex >= 0 =>
    /\ selectedBluetoothDeviceIndex < Len(knownDevicesArray)
    /\ knownDevicesArray[selectedBluetoothDeviceIndex + 1] = SelectedPeripheral

(* The same comment: a connected device is a known one.  A race may lose   *)
(* the addition to knownDevicesArray.                                      *)
AlwaysKnowDeviceIfConnected ==
  Idle => Range(connectedPeripherals) \subseteq Range(knownDevicesArray)

(* LKJPeripheral.h:13: "Persist connected devices.", of uuid and name: the *)
(* stored object carries the name.                                         *)
NamesPersisted == \A i \in DOMAIN stored : stored[i].name # Nil
=============================================================================
