-------------------- MODULE LKJBluetoothController_proofs --------------------
(* Theorems about LKJBluetoothController, for every set of peripherals. *)
EXTENDS LKJBluetoothController, ArrayTheorems

(* indexOfObject: answers a position, from 0, at which the array has it.   *)
LEMMA IndexOfObjectFound ==
  ASSUME NEW S, NEW array \in Seq(S), NEW p, Contains(array, p)
  PROVE  /\ IndexOfObject(array, p) \in Nat
         /\ IndexOfObject(array, p) + 1 \in 1..Len(array)
         /\ array[IndexOfObject(array, p) + 1] = p
<1> DEFINE I == {i \in 1..Len(array) : array[i] = p}
           First(i) == array[i] = p /\ \A j \in 1..(i - 1) : array[j] # p
<1>1. Len(array) \in Nat /\ DOMAIN array = 1..Len(array)
  BY LenProperties
<1>2. \E i \in I : \A j \in I : i <= j
  BY <1>1, LeastPosition DEF Contains
<1>3. \E i \in 1..Len(array) : First(i)
  BY <1>1, <1>2
<1>4. PICK i \in 1..Len(array) : First(i) /\ i = CHOOSE k \in 1..Len(array) : First(k)
  BY <1>3
<1>5. IndexOfObject(array, p) = i - 1
  BY <1>1, <1>4 DEF IndexOfObject
<1> QED BY <1>1, <1>4, <1>5

(***************************************************************************)
(* Types.  A message to an array keeps it an array, even when it works     *)
(* from the array as it was.                                               *)
(***************************************************************************)
LEMMA AddObjectType ==
  ASSUME TypeOK, NEW t \in Thread, NEW p \in Peripheral,
         NEW array \in Arrays, NEW array1,
         \/ array1 = Append(array, p)
         \/ array1 = Append(stale[t], p)
  PROVE  array1 \in Arrays
<1>1. stale[t] \in Arrays
  BY DEF TypeOK
<1>2. \A s \in Arrays : Append(s, p) \in Arrays
  BY AppendProperties DEF Arrays
<1> QED BY <1>1, <1>2

LEMMA TypeInit == Init => TypeOK
<1> SUFFICES ASSUME Init PROVE TypeOK
  OBVIOUS
<1>1. scanning \in BOOLEAN /\ isOnline \in BOOLEAN /\ raced \in BOOLEAN
  BY Zenon DEF Init
<1>2. <<>> \in Arrays /\ <<>> \in Seq(0..1) /\ <<>> \in Seq(LKJPeripheral)
  BY EmptySeq DEF Arrays
<1>3. stateEvents \in 0..MaxStateEvents
  BY ConstantAssumption DEF Init, ConstantAssumption
<1> QED BY <1>1, <1>2, <1>3 DEF Init, TypeOK, Labels, Thread, MyDevices

LEMMA TypeStep == TypeOK /\ [Next]_vars => TypeOK'
<1> SUFFICES ASSUME TypeOK, [Next]_vars PROVE TypeOK'
  OBVIOUS
<1> USE DEF Thread, Labels, MyDevices, ConnectDevice
<1>a. ConstantAssumption
  BY ConstantAssumption
<1>b. ASSUME NEW t \in Thread, pc[t] # "idle" PROVE peripheral[t] \in Peripheral
  BY <1>b DEF TypeOK
<1>1. CASE Relaunch
  <2>1. scanning' \in BOOLEAN /\ isOnline' \in BOOLEAN
    BY <1>1, Zenon DEF Relaunch
  <2>2. <<>> \in Arrays /\ <<>> \in Seq(0..1)
    BY EmptySeq DEF Arrays
  <2>3. stateEvents' \in 0..MaxStateEvents
    BY <1>1, <1>a DEF Relaunch, ConstantAssumption
  <2> QED BY <1>1, <2>1, <2>2, <2>3 DEF Relaunch, TypeOK
<1>2. CASE RadioChanges
  <2>1. scanning' \in BOOLEAN
    BY <1>2, Zenon DEF RadioChanges
  <2>2. stateEvents' \in 0..MaxStateEvents
    BY <1>2, <1>a DEF RadioChanges, TypeOK, ConstantAssumption
  <2> QED BY <1>2, <2>1, <2>2 DEF RadioChanges, TypeOK, registryVars, arrays, realmVars,
                                  threadVars
<1>3. CASE CentralManagerDidUpdateState
  <2>1. scanning' \in BOOLEAN /\ isOnline' \in BOOLEAN
    BY <1>3, Zenon DEF CentralManagerDidUpdateState, ScanForPeripherals, TypeOK
  <2>2. stateEvents' \in 0..MaxStateEvents
    BY <1>3, <1>a DEF CentralManagerDidUpdateState, TypeOK, ConstantAssumption
  <2> QED BY <1>3, <2>1, <2>2 DEF CentralManagerDidUpdateState, TypeOK, registryVars, arrays,
                                  realmVars, threadVars
<1>4. CASE BeginScanning
  BY <1>4 DEF BeginScanning, ScanForPeripherals, TypeOK, registryVars, arrays, realmVars, threadVars
<1>5. ASSUME NEW p \in Peripheral, DidDiscoverPeripheral(p) PROVE TypeOK'
  <2>1. bleRealm' \subseteq SUBSET Peripheral
    <3>1. stored \in Seq(LKJPeripheral)
      BY DEF TypeOK
    <3>2. \A i \in DOMAIN stored : stored[i] \in LKJPeripheral
      BY <3>1, LenProperties, ElementOfSeq
    <3>3. StoredUUIDs \subseteq Peripheral
      BY <3>2 DEF StoredUUIDs, LKJPeripheral
    <3> QED BY <1>5, <3>3 DEF DidDiscoverPeripheral, TypeOK
  <2>2. /\ pc' \in [Thread -> Labels]
        /\ stale' \in [Thread -> Arrays]
        /\ peripheral' \in [Thread -> Peripheral \cup {Nil}]
        /\ \A t \in Thread : pc'[t] # "idle" => peripheral'[t] # Nil
    BY <1>5, <1>a DEF DidDiscoverPeripheral, TypeOK, Goto, AboutToChange, ConstantAssumption
  <2> QED BY <1>5, <2>1, <2>2 DEF DidDiscoverPeripheral, TypeOK, radioVars, registryVars, arrays
<1>6. CASE BleStep
  <2>1. CASE BleConnect
    <3>1. connectedPeripherals' \in Arrays
      BY <1>b, <2>1, AddObjectType DEF BleConnect, AddObject, TypeOK
    <3> QED BY <2>1, <3>1 DEF BleConnect, AddObject, Goto, AboutToChange, TypeOK,
                              radioVars, realmVars
  <2>2. ASSUME NEW s \in 0..1, Announce(s), pc["ble"] # "idle",
               discoveredDevicesArray' \in Arrays, knownDevicesArray' \in Arrays,
               raced' \in BOOLEAN
        PROVE  TypeOK'
    <3>1. notificationQueue' \in Seq(0..1)
      BY <2>2, AppendProperties DEF Announce, TypeOK
    <3> QED BY <1>b, <2>2, <3>1 DEF Announce, Goto, NoLongerChanging, TypeOK, Arrays,
                                    radioVars, realmVars
  <2>3. CASE BleKnow
    <3>1. knownDevicesArray' \in Arrays
      BY <1>b, <2>3, AddObjectType DEF BleKnow, AddObject, TypeOK
    <3>2. raced' \in BOOLEAN /\ discoveredDevicesArray' \in Arrays
      BY <2>3, Zenon DEF BleKnow, AddObject, TypeOK
    <3> QED BY <2>2, <2>3, <3>1, <3>2 DEF BleKnow
  <2>4. CASE BleList
    <3>1. discoveredDevicesArray' \in Arrays
      BY <1>b, <2>4, AddObjectType DEF BleList, AddObject, TypeOK
    <3>2. raced' \in BOOLEAN /\ knownDevicesArray' \in Arrays
      BY <2>4, Zenon DEF BleList, AddObject, TypeOK
    <3> QED BY <2>2, <2>4, <3>1, <3>2 DEF BleList
  <2> QED BY <1>6, <2>1, <2>3, <2>4 DEF BleStep
<1>7. CASE PostNotification
  <2>1. notificationQueue' \in Seq(0..1)
    BY <1>7, HeadTailProperties DEF PostNotification, TypeOK
  <2> QED BY <1>7, <2>1 DEF PostNotification, TypeOK, radioVars, arrays, realmVars, threadVars
<1>8. ASSUME NEW i \in DOMAIN knownDevicesArray, SelectKnown(i - 1) PROVE TypeOK'
  <2>1. i - 1 \in Nat /\ knownDevicesArray[i] \in Peripheral /\ i - 1 + 1 = i
    BY LenProperties, ElementOfSeq DEF TypeOK, Arrays
  <2> QED BY <1>a, <1>8, <2>1 DEF SelectKnown, Goto, TypeOK, radioVars, registryVars,
                                  arrays, realmVars, ConstantAssumption
<1>9. ASSUME NEW i \in DOMAIN discoveredDevicesArray, SelectDiscovered(i - 1) PROVE TypeOK'
  <2>1. i - 1 \in Nat /\ discoveredDevicesArray[i] \in Peripheral /\ i - 1 + 1 = i
    BY LenProperties, ElementOfSeq DEF TypeOK, Arrays
  <2> QED BY <1>a, <1>9, <2>1 DEF SelectDiscovered, Goto, AboutToChange, TypeOK, radioVars,
                                  registryVars, arrays, realmVars, ConstantAssumption
<1>10. CASE MainStep
  <2>1. CASE MainRemove
    <3>1. ASSUME NEW array \in Arrays, index + 1 \in DOMAIN array
          PROVE  RemoveAt(array, index + 1) \in Arrays
      BY <3>1, LenProperties, RemoveAtProperties DEF Arrays
    <3>2. discoveredDevicesArray' \in Arrays
      BY <2>1, <3>1 DEF MainRemove, RemoveObjectAtIndex, TypeOK
    <3> QED BY <2>1, <3>2 DEF MainRemove, RemoveObjectAtIndex, Goto, AboutToChange, TypeOK,
                              radioVars, realmVars
  <2>2. CASE MainKnow
    <3>1. knownDevicesArray' \in Arrays
      BY <1>b, <2>2, AddObjectType DEF MainKnow, AddObject, TypeOK
    <3>2. raced' \in BOOLEAN
      BY <2>2, Zenon DEF MainKnow, AddObject, TypeOK
    <3>3. stale' \in [Thread -> Arrays]
      BY <2>2, EmptySeq DEF MainKnow, NoLongerChanging, TypeOK, Arrays
    <3> QED BY <2>2, <3>1, <3>2, <3>3 DEF MainKnow, Goto, TypeOK, radioVars, realmVars
  <2>3. CASE MainPersist
    <3>1. stored' \in Seq(LKJPeripheral)
      BY <1>b, <2>3, AppendProperties DEF MainPersist, WriteTransaction, LKJPeripheral, TypeOK
    <3> QED BY <2>3, <3>1 DEF MainPersist, Goto, TypeOK, radioVars, registryVars, arrays
  <2>4. CASE MainContains
    BY <2>4 DEF MainContains, Goto, AboutToChange, TypeOK, radioVars, registryVars, arrays,
                realmVars
  <2>5. CASE MainConnect
    <3>1. connectedPeripherals' \in Arrays
      BY <1>b, <2>5, AddObjectType DEF MainConnect, AddObject, TypeOK
    <3>2. raced' \in BOOLEAN
      BY <2>5, Zenon DEF MainConnect, AddObject, TypeOK
    <3>3. stale' \in [Thread -> Arrays]
      BY <2>5, EmptySeq DEF MainConnect, NoLongerChanging, TypeOK, Arrays
    <3> QED BY <2>5, <3>1, <3>2, <3>3 DEF MainConnect, Goto, TypeOK, radioVars, realmVars
  <2>6. ASSUME NEW i \in Nat \cup {-1}, Select(i) PROVE TypeOK'
    BY <2>6 DEF Select, Goto, TypeOK, radioVars, arrays, realmVars
  <2>7. CASE MainCount
    <3>1. LastIndex \in Nat \cup {-1}
      BY LenProperties DEF LastIndex, TypeOK, Arrays
    <3> QED BY <2>6, <2>7, <3>1 DEF MainCount
  <2>8. CASE MainIndexOf
    <3>1. IndexOfObject(connectedPeripherals, peripheral["main"]) \in Nat
      <4>1. CASE Contains(connectedPeripherals, peripheral["main"])
        BY <4>1, IndexOfObjectFound DEF TypeOK, Arrays
      <4>2. CASE ~Contains(connectedPeripherals, peripheral["main"])
        BY <4>2 DEF IndexOfObject, NSNotFound
      <4> QED BY <4>1, <4>2
    <3> QED BY <2>6, <2>8, <3>1 DEF MainIndexOf
  <2> QED BY <1>10, <2>1, <2>2, <2>3, <2>4, <2>5, <2>7, <2>8 DEF MainStep
<1>11. CASE UNCHANGED vars
  BY <1>11 DEF vars, radioVars, registryVars, arrays, realmVars, threadVars, TypeOK
<1> QED BY <1>1, <1>2, <1>3, <1>4, <1>5, <1>6, <1>7, <1>8, <1>9, <1>10, <1>11 DEF Next

(***************************************************************************)
(* Whatever the threads do, and however their messages overlap, every      *)
(* variable keeps its type.                                                *)
(***************************************************************************)
THEOREM TypeCorrect == Spec => []TypeOK
BY TypeInit, TypeStep, PTL DEF Spec
-----------------------------------------------------------------------------
(***************************************************************************)
(* Executions without a race.  RaceFreeInv is inductive given the types.   *)
(***************************************************************************)

(* A commit adds the claimed device, which was not stored, to the stored.  *)
LEMMA StoredAfterCommit ==
  ASSUME TypeOK, NEW p \in Peripheral, WriteTransaction(p)
  PROVE  /\ StoredUUIDs' = StoredUUIDs \cup {p}
         /\ NoDuplicateRecord /\ p \notin StoredUUIDs => NoDuplicateRecord'
<1> DEFINE record == [uuid |-> p, name |-> Nil]
<1>1. /\ stored' = Append(stored, record)
      /\ record \in LKJPeripheral
      /\ record.uuid = p
  BY DEF WriteTransaction, LKJPeripheral
<1> HIDE DEF record
<1>2. /\ stored \in Seq(LKJPeripheral)
      /\ Len(stored) \in Nat
      /\ DOMAIN stored = 1..Len(stored)
  BY LenProperties DEF TypeOK
<1>3. /\ DOMAIN stored' = 1..(Len(stored) + 1)
      /\ \A i \in 1..Len(stored) : stored'[i] = stored[i]
      /\ stored'[Len(stored) + 1] = record
  BY <1>1, <1>2, AppendProperties, LenProperties
<1>4. StoredUUIDs' = StoredUUIDs \cup {p}
  BY <1>1, <1>2, <1>3 DEF StoredUUIDs
<1>5. ASSUME NoDuplicateRecord, p \notin StoredUUIDs PROVE NoDuplicateRecord'
  BY <1>1, <1>2, <1>3, <1>5 DEF NoDuplicateRecord, StoredUUIDs
<1> QED BY <1>4, <1>5

(* An addition that does not overlap another message. *)
LEMMA CleanAppend ==
  ASSUME NEW array \in Arrays, NEW p \in Peripheral
  PROVE  /\ Range(Append(array, p)) = Range(array) \cup {p}
         /\ IsInjective(array) /\ p \notin Range(array) => IsInjective(Append(array, p))
         /\ Len(Append(array, p)) = Len(array) + 1
         /\ Len(array) \in Nat
         /\ DOMAIN array \subseteq DOMAIN Append(array, p)
         /\ \A i \in DOMAIN array : Append(array, p)[i] = array[i]
BY AppendArray, AppendProperties, LenProperties DEF Arrays

LEMMA RaceFreeInit == Init => RaceFreeInv
<1> SUFFICES ASSUME Init PROVE RaceFreeInv
  OBVIOUS
<1>1. /\ Range(<<>>) = {}
      /\ IsInjective(<<>>)
      /\ Len(<<>>) = 0
      /\ DOMAIN <<>> = {}
  BY DEF Range, IsInjective
<1>2. StoredUUIDs = {} /\ NoDuplicateRecord
  BY <1>1 DEF Init, StoredUUIDs, NoDuplicateRecord
<1>3. pc["main"] = "idle" /\ pc["ble"] = "idle"
  BY DEF Init, Thread
<1>4. ArraysInv
  BY <1>1, <1>3 DEF Init, ArraysInv, OneRowPerDevice, SelectionInRange, NotYetConnected,
                    NotYetKnown, InTransit
<1>5. RealmInv
  BY <1>1, <1>2, <1>3 DEF Init, RealmInv, InClaim
<1>6. MainInv /\ BleInv
  BY <1>3 DEF MainInv, BleInv
<1> QED BY <1>4, <1>5, <1>6 DEF RaceFreeInv

(* What the steps that touch no shared array of the app leave as it is. *)
LEMMA QuietStep ==
  ASSUME RaceFreeInv, UNCHANGED <<arrays, discoveredDevicesDictionary,
                                selectedBluetoothDeviceIndex, realmVars, threadVars>>
  PROVE  RaceFreeInv'
<1> USE DEF arrays, realmVars, threadVars
<1>1. StoredUUIDs' = StoredUUIDs /\ NoDuplicateRecord' = NoDuplicateRecord
  BY DEF StoredUUIDs, NoDuplicateRecord
<1>2. /\ InClaim' = InClaim
      /\ InTransit' = InTransit
      /\ NotYetKnown' = NotYetKnown
      /\ NotYetConnected' = NotYetConnected
  BY DEF InClaim, InTransit, NotYetKnown, NotYetConnected
<1>3. ArraysInv'
  BY <1>2 DEF RaceFreeInv, ArraysInv, OneRowPerDevice, SelectionInRange
<1>4. RealmInv'
  BY <1>1, <1>2 DEF RaceFreeInv, RealmInv
<1>5. MainInv'
  BY DEF RaceFreeInv, MainInv
<1>6. BleInv'
  BY <1>1 DEF RaceFreeInv, BleInv, AlreadySeen
<1> QED BY <1>3, <1>4, <1>5, <1>6 DEF RaceFreeInv

(* A relaunch keeps only what is stored. *)
LEMMA RelaunchStep == RaceFreeInv /\ Relaunch => RaceFreeInv'
<1> SUFFICES ASSUME RaceFreeInv, Relaunch PROVE RaceFreeInv'
  OBVIOUS
<1>1. /\ Range(<<>>) = {}
      /\ IsInjective(<<>>)
      /\ Len(<<>>) = 0
  BY DEF Range, IsInjective
<1>2. StoredUUIDs' = StoredUUIDs /\ NoDuplicateRecord'
  BY DEF Relaunch, StoredUUIDs, NoDuplicateRecord, RaceFreeInv, RealmInv
<1>3. pc'["main"] = "idle" /\ pc'["ble"] = "idle"
  BY DEF Relaunch, Thread
<1>4. ArraysInv'
  BY <1>1, <1>3 DEF Relaunch, ArraysInv, OneRowPerDevice, SelectionInRange, NotYetConnected,
                    NotYetKnown, InTransit
<1>5. RealmInv'
  BY <1>1, <1>2, <1>3 DEF Relaunch, RealmInv, InClaim
<1>6. MainInv' /\ BleInv'
  BY <1>3 DEF MainInv, BleInv
<1> QED BY <1>4, <1>5, <1>6 DEF RaceFreeInv

(* A discovery looks the device up in a Realm that may be old, and finds   *)
(* it exactly when it is stored.                                           *)
LEMMA DiscoverStep ==
  ASSUME TypeOK, RaceFreeInv, NEW p \in Peripheral, DidDiscoverPeripheral(p)
  PROVE  RaceFreeInv'
<1> USE DEF registryVars, arrays
<1>1. PICK version \in bleRealm \cup {StoredUUIDs} :
        /\ bleRealm' = {version}
        /\ IF p \in version THEN Goto("ble", "connect") ELSE Goto("ble", "list")
  BY DEF DidDiscoverPeripheral, ExistingPeripheral
<1>2. p \in version <=> p \in StoredUUIDs
  BY <1>1 DEF RaceFreeInv, RealmInv, DidDiscoverPeripheral, AlreadySeen
<1>3. /\ pc'["main"] = pc["main"]
      /\ pc'["ble"] = IF p \in StoredUUIDs THEN "connect" ELSE "list"
      /\ peripheral'["main"] = peripheral["main"]
      /\ peripheral'["ble"] = p
  BY <1>1, <1>2 DEF DidDiscoverPeripheral, Goto, TypeOK, Thread
<1>4. StoredUUIDs' = StoredUUIDs /\ NoDuplicateRecord' = NoDuplicateRecord
  BY DEF DidDiscoverPeripheral, StoredUUIDs, NoDuplicateRecord
<1>5. /\ InClaim' = InClaim
      /\ InTransit' = InTransit
      /\ NotYetConnected' = NotYetConnected
      /\ NotYetKnown = {}
      /\ NotYetKnown' = {}
  BY <1>3 DEF DidDiscoverPeripheral, InClaim, InTransit, NotYetKnown, NotYetConnected
<1>6. ArraysInv'
  BY <1>5 DEF DidDiscoverPeripheral, RaceFreeInv, ArraysInv, OneRowPerDevice, SelectionInRange
<1>7. RealmInv'
  BY <1>1, <1>4, <1>5 DEF DidDiscoverPeripheral, RaceFreeInv, RealmInv
<1>8. MainInv'
  BY <1>3 DEF DidDiscoverPeripheral, RaceFreeInv, MainInv
<1>9. BleInv'
  BY <1>3, <1>4 DEF DidDiscoverPeripheral, BleInv, AlreadySeen
<1> QED BY <1>6, <1>7, <1>8, <1>9 DEF RaceFreeInv

(* The three messages of the BLE queue to the arrays. *)
LEMMA BleStepInv ==
  ASSUME TypeOK, RaceFreeInv, BleStep, ~raced'
  PROVE  RaceFreeInv'
<1> USE DEF registryVars, arrays, realmVars
<1> DEFINE p == peripheral["ble"]
           q == peripheral["main"]
<1>1. /\ pc["ble"] \in {"connect", "know", "list"}
      /\ p \in Peripheral
      /\ p \notin discoveredDevicesDictionary
  BY DEF BleStep, BleConnect, BleKnow, BleList, TypeOK, RaceFreeInv, BleInv, AlreadySeen, Thread
<1>2. /\ p \notin Range(discoveredDevicesArray)
      /\ p \notin Range(knownDevicesArray)
      /\ pc["ble"] # "know" => p \notin Range(connectedPeripherals)
      /\ pc["main"] \in {"know", "persist", "contains", "connect"} => q # p
      /\ p \notin NotYetConnected /\ p \notin InTransit
  <2>1. /\ p \notin Range(discoveredDevicesArray)
        /\ p \notin Range(knownDevicesArray)
        /\ p \notin InTransit
    BY <1>1 DEF RaceFreeInv, ArraysInv
  <2>2. pc["ble"] # "know" => p \notin Range(connectedPeripherals)
    BY <2>1 DEF RaceFreeInv, ArraysInv, NotYetKnown
  <2>3. pc["main"] \in {"know", "persist", "contains", "connect"} => q # p
    BY <2>1 DEF RaceFreeInv, MainInv, InTransit
  <2>4. p \notin NotYetConnected
    BY <2>3 DEF NotYetConnected
  <2> QED BY <2>1, <2>2, <2>3, <2>4
<1>3. StoredUUIDs' = StoredUUIDs /\ NoDuplicateRecord' = NoDuplicateRecord
  BY DEF BleStep, BleConnect, BleKnow, BleList, Announce, StoredUUIDs, NoDuplicateRecord
<1>4. /\ pc'["main"] = pc["main"]
      /\ peripheral'["main"] = q
      /\ section' = section /\ index' = index
      /\ selectedBluetoothDeviceIndex' = selectedBluetoothDeviceIndex
      /\ bleRealm' = bleRealm
  BY DEF BleStep, BleConnect, BleKnow, BleList, Announce, Goto, TypeOK, Thread
<1>5. /\ InClaim' = InClaim
      /\ InTransit' = InTransit
      /\ NotYetConnected' = NotYetConnected
  BY <1>4 DEF InClaim, InTransit, NotYetConnected
<1>t. /\ discoveredDevicesArray \in Arrays
      /\ knownDevicesArray \in Arrays
      /\ connectedPeripherals \in Arrays
      /\ selectedBluetoothDeviceIndex \in Int
  BY DEF TypeOK
<1>6. CASE BleConnect
  <2>1. /\ connectedPeripherals' = Append(connectedPeripherals, p)
        /\ pc'["ble"] = "know" /\ peripheral'["ble"] = p /\ pc["ble"] = "connect"
    BY <1>6 DEF BleConnect, AddObject, Goto, TypeOK, Thread
  <2>2. NotYetKnown' = {p} /\ NotYetKnown = {}
    BY <2>1 DEF NotYetKnown
  <2> HIDE DEF p, q
  <2>3. ArraysInv'
    BY <1>1, <1>2, <1>4, <1>5, <1>6, <1>t, <2>1, <2>2, CleanAppend
    DEF BleConnect, RaceFreeInv, ArraysInv, OneRowPerDevice, SelectionInRange
  <2>4. RealmInv'
    BY <1>3, <1>5, <1>6 DEF BleConnect, RaceFreeInv, RealmInv
  <2>5. MainInv'
    BY <1>1, <1>4, <1>6, <1>t, <2>1, CleanAppend DEF BleConnect, RaceFreeInv, MainInv, q
  <2>6. BleInv'
    BY <1>3, <1>6, <2>1 DEF BleConnect, RaceFreeInv, BleInv, AlreadySeen, p
  <2> QED BY <2>3, <2>4, <2>5, <2>6 DEF RaceFreeInv
<1>7. CASE BleKnow
  <2>1. /\ knownDevicesArray' = Append(knownDevicesArray, p)
        /\ discoveredDevicesDictionary' = discoveredDevicesDictionary \cup {p}
        /\ pc'["ble"] = "idle" /\ pc["ble"] = "know"
        /\ UNCHANGED <<discoveredDevicesArray, connectedPeripherals>>
    BY <1>7 DEF BleKnow, Announce, AddObject, Goto, TypeOK, Thread
  <2>2. NotYetKnown' = {} /\ NotYetKnown = {p} /\ p \in StoredUUIDs
    BY <2>1 DEF NotYetKnown, RaceFreeInv, BleInv
  <2> HIDE DEF p, q
  <2>3. ArraysInv'
    BY <1>1, <1>2, <1>4, <1>5, <1>t, <2>1, <2>2, CleanAppend
    DEF RaceFreeInv, ArraysInv, OneRowPerDevice, SelectionInRange
  <2>4. RealmInv'
    BY <1>1, <1>3, <1>4, <1>5, <1>t, <2>1, <2>2, CleanAppend DEF RaceFreeInv, RealmInv
  <2>5. MainInv'
    BY <1>1, <1>2, <1>4, <1>t, <2>1, CleanAppend DEF RaceFreeInv, MainInv, q
  <2>6. BleInv'
    BY <2>1 DEF BleInv
  <2> QED BY <2>3, <2>4, <2>5, <2>6 DEF RaceFreeInv
<1>8. CASE BleList
  <2>1. /\ discoveredDevicesArray' = Append(discoveredDevicesArray, p)
        /\ discoveredDevicesDictionary' = discoveredDevicesDictionary \cup {p}
        /\ pc'["ble"] = "idle" /\ pc["ble"] = "list"
        /\ UNCHANGED <<knownDevicesArray, connectedPeripherals>>
    BY <1>8 DEF BleList, Announce, AddObject, Goto, TypeOK, Thread
  <2>2. NotYetKnown' = {} /\ NotYetKnown = {} /\ p \notin StoredUUIDs
    BY <2>1 DEF NotYetKnown, RaceFreeInv, BleInv
  <2> HIDE DEF p, q
  <2>3. ArraysInv'
    BY <1>1, <1>2, <1>4, <1>5, <1>t, <2>1, <2>2, CleanAppend
    DEF RaceFreeInv, ArraysInv, OneRowPerDevice, SelectionInRange
  <2>4. RealmInv'
    BY <1>1, <1>3, <1>4, <1>5, <1>t, <2>1, <2>2, CleanAppend DEF RaceFreeInv, RealmInv
  <2>5. MainInv'
    BY <1>1, <1>2, <1>4, <1>t, <2>1, CleanAppend DEF RaceFreeInv, MainInv, q
  <2>6. BleInv'
    BY <2>1 DEF BleInv
  <2> QED BY <2>3, <2>4, <2>5, <2>6 DEF RaceFreeInv
<1> QED BY <1>6, <1>7, <1>8 DEF BleStep

(* Taps and the rest of selectPeripheralAtIndex:inSection:. *)
LEMMA SelectInv ==
  ASSUME TypeOK, RaceFreeInv,
         \/ \E i \in DOMAIN knownDevicesArray : SelectKnown(i - 1)
         \/ \E i \in DOMAIN discoveredDevicesArray : SelectDiscovered(i - 1)
  PROVE  RaceFreeInv'
<1> USE DEF registryVars, arrays, realmVars, MyDevices, ConnectDevice
<1>1. /\ pc["main"] = "idle"
      /\ pc'["ble"] = pc["ble"]
      /\ peripheral'["ble"] = peripheral["ble"]
      /\ UNCHANGED <<registryVars, realmVars>>
  BY DEF SelectKnown, SelectDiscovered, Goto, TypeOK, Thread
<1>2. /\ pc'["main"] \in {"contains", "remove"}
      /\ pc'["main"] = "contains" =>
           /\ section' = MyDevices
           /\ peripheral'["main"] \in Range(knownDevicesArray)
      /\ pc'["main"] = "remove" =>
           /\ section' = ConnectDevice
           /\ index' + 1 \in DOMAIN discoveredDevicesArray
           /\ peripheral'["main"] = discoveredDevicesArray[index' + 1]
  <2>1. CASE \E i \in DOMAIN knownDevicesArray : SelectKnown(i - 1)
    BY <2>1 DEF SelectKnown, Goto, TypeOK, Thread, Range
  <2>2. CASE \E i \in DOMAIN discoveredDevicesArray : SelectDiscovered(i - 1)
    BY <2>2 DEF SelectDiscovered, Goto, TypeOK, Thread
  <2> QED BY <2>1, <2>2
<1>3. /\ InClaim = {} /\ InClaim' = {}
      /\ InTransit = {} /\ InTransit' = {}
      /\ NotYetConnected = {} /\ NotYetConnected' = {}
      /\ NotYetKnown' = NotYetKnown
  BY <1>1, <1>2 DEF InClaim, InTransit, NotYetConnected, NotYetKnown
<1>4. StoredUUIDs' = StoredUUIDs /\ NoDuplicateRecord' = NoDuplicateRecord
  BY <1>1 DEF StoredUUIDs, NoDuplicateRecord
<1>5. ArraysInv'
  BY <1>1, <1>3 DEF RaceFreeInv, ArraysInv, OneRowPerDevice, SelectionInRange
<1>6. RealmInv'
  BY <1>1, <1>3, <1>4 DEF RaceFreeInv, RealmInv
<1>7. MainInv'
  BY <1>1, <1>2 DEF MainInv
<1>8. BleInv'
  BY <1>1, <1>4 DEF RaceFreeInv, BleInv, AlreadySeen
<1> QED BY <1>5, <1>6, <1>7, <1>8 DEF RaceFreeInv

LEMMA MainStepInv ==
  ASSUME TypeOK, RaceFreeInv, MainStep, ~raced'
  PROVE  RaceFreeInv'
<1> USE DEF registryVars, arrays, realmVars, MyDevices, ConnectDevice
<1> DEFINE p == peripheral["main"]
<1>1. /\ pc["main"] \in {"remove", "know", "persist", "contains", "connect", "count", "indexOf"}
      /\ p \in Peripheral
      /\ pc'["ble"] = pc["ble"]
      /\ peripheral'["ble"] = peripheral["ble"]
      /\ section' = section
      /\ discoveredDevicesDictionary' = discoveredDevicesDictionary
      /\ bleRealm' = bleRealm
  BY DEF MainStep, MainRemove, MainKnow, MainPersist, MainContains, MainConnect, MainCount,
         MainIndexOf, Select, Goto, TypeOK, Thread
<1>t. /\ discoveredDevicesArray \in Arrays
      /\ knownDevicesArray \in Arrays
      /\ connectedPeripherals \in Arrays
      /\ selectedBluetoothDeviceIndex \in Int
  BY DEF TypeOK
<1>2. NotYetKnown' = NotYetKnown
  BY <1>1 DEF NotYetKnown
<1>b. ASSUME StoredUUIDs' = StoredUUIDs PROVE BleInv'
  BY <1>1, <1>b DEF RaceFreeInv, BleInv, AlreadySeen
<1>c. ASSUME UNCHANGED stored
      PROVE  StoredUUIDs' = StoredUUIDs /\ NoDuplicateRecord' = NoDuplicateRecord
  BY <1>c DEF StoredUUIDs, NoDuplicateRecord
<1>3. CASE MainRemove
  <2>1. /\ discoveredDevicesArray' = RemoveAt(discoveredDevicesArray, index + 1)
        /\ pc["main"] = "remove" /\ pc'["main"] = "know" /\ peripheral'["main"] = p
        /\ UNCHANGED <<knownDevicesArray, connectedPeripherals, selectedBluetoothDeviceIndex,
                       stored>>
    BY <1>3 DEF MainRemove, RemoveObjectAtIndex, Goto, TypeOK, Thread
  <2>2. /\ p \in Range(discoveredDevicesArray)
        /\ Range(discoveredDevicesArray') = Range(discoveredDevicesArray) \ {p}
        /\ IsInjective(discoveredDevicesArray')
    <3>1. /\ index + 1 \in 1..Len(discoveredDevicesArray)
          /\ discoveredDevicesArray[index + 1] = p
          /\ p \in Range(discoveredDevicesArray)
      BY <1>t, <2>1, LenProperties DEF RaceFreeInv, MainInv, Arrays, Range
    <3>2. IsInjective(discoveredDevicesArray)
      BY DEF RaceFreeInv, ArraysInv, OneRowPerDevice
    <3> QED BY <1>t, <2>1, <3>1, <3>2, RemoveAtArray DEF Arrays
  <2>3. /\ InClaim = {} /\ InClaim' = {p}
        /\ InTransit = {} /\ InTransit' = {p}
        /\ NotYetConnected = {} /\ NotYetConnected' = {}
    BY <2>1 DEF InClaim, InTransit, NotYetConnected
  <2> HIDE DEF p
  <2>4. ArraysInv'
    BY <1>1, <1>2, <2>1, <2>2, <2>3 DEF RaceFreeInv, ArraysInv, OneRowPerDevice, SelectionInRange
  <2>5. RealmInv'
    BY <1>1, <1>c, <2>1, <2>2, <2>3 DEF RaceFreeInv, RealmInv, ArraysInv, OneRowPerDevice
  <2>6. MainInv'
    BY <1>1, <2>1, <2>2 DEF RaceFreeInv, MainInv, ArraysInv, OneRowPerDevice, p
  <2> QED BY <1>b, <1>c, <2>1, <2>4, <2>5, <2>6 DEF RaceFreeInv
<1>4. CASE MainKnow
  <2>1. /\ knownDevicesArray' = Append(knownDevicesArray, p)
        /\ pc["main"] = "know" /\ pc'["main"] = "persist" /\ peripheral'["main"] = p
        /\ UNCHANGED <<discoveredDevicesArray, connectedPeripherals,
                       selectedBluetoothDeviceIndex, stored>>
    BY <1>4 DEF MainKnow, AddObject, Goto, TypeOK, Thread
  <2>2. /\ p \notin Range(discoveredDevicesArray)
        /\ p \notin Range(knownDevicesArray)
        /\ Range(knownDevicesArray') = Range(knownDevicesArray) \cup {p}
        /\ IsInjective(knownDevicesArray')
    BY <1>1, <1>t, <2>1, CleanAppend DEF RaceFreeInv, MainInv, ArraysInv, OneRowPerDevice
  <2>3. /\ InClaim = {p} /\ InClaim' = {p}
        /\ InTransit = {p} /\ InTransit' = {}
        /\ NotYetConnected = {} /\ NotYetConnected' = {p}
    BY <2>1 DEF InClaim, InTransit, NotYetConnected
  <2> HIDE DEF p
  <2>4. ArraysInv'
    BY <1>1, <1>2, <2>1, <2>2, <2>3 DEF RaceFreeInv, ArraysInv, OneRowPerDevice, SelectionInRange
  <2>5. RealmInv'
    BY <1>1, <1>c, <2>1, <2>2, <2>3 DEF RaceFreeInv, RealmInv
  <2>6. MainInv'
    BY <1>1, <2>1, <2>2 DEF RaceFreeInv, MainInv, p
  <2> QED BY <1>b, <1>c, <2>1, <2>4, <2>5, <2>6 DEF RaceFreeInv
<1>5. CASE MainPersist
  <2>1. /\ WriteTransaction(p)
        /\ pc["main"] = "persist" /\ pc'["main"] = "contains" /\ peripheral'["main"] = p
        /\ section = ConnectDevice
        /\ UNCHANGED <<discoveredDevicesArray, knownDevicesArray, connectedPeripherals,
                       selectedBluetoothDeviceIndex>>
    BY <1>5 DEF MainPersist, Goto, TypeOK, Thread, RaceFreeInv, MainInv
  <2>2. /\ InClaim = {p} /\ InClaim' = {}
        /\ InTransit = {} /\ InTransit' = {}
        /\ NotYetConnected = {p} /\ NotYetConnected' = {p}
    BY <1>1, <2>1 DEF InClaim, InTransit, NotYetConnected
  <2>3. /\ p \notin StoredUUIDs
        /\ p \in Range(knownDevicesArray)
        /\ p \notin Range(discoveredDevicesArray)
        /\ p \in discoveredDevicesDictionary
    BY <2>1, <2>2 DEF RaceFreeInv, RealmInv, MainInv, ArraysInv, OneRowPerDevice
  <2>4. StoredUUIDs' = StoredUUIDs \cup {p} /\ NoDuplicateRecord'
    BY <1>1, <2>1, <2>3, StoredAfterCommit DEF RaceFreeInv, RealmInv
  <2> HIDE DEF p
  <2>5. ArraysInv'
    BY <1>1, <1>2, <2>1, <2>2 DEF RaceFreeInv, ArraysInv, OneRowPerDevice, SelectionInRange
  <2>6. RealmInv'
    BY <1>1, <2>1, <2>2, <2>3, <2>4 DEF RaceFreeInv, RealmInv
  <2>7. MainInv'
    BY <1>1, <2>1, <2>3 DEF MainInv, p
  <2>8. BleInv'
    BY <1>1, <2>3, <2>4 DEF RaceFreeInv, BleInv, AlreadySeen
  <2> QED BY <2>5, <2>6, <2>7, <2>8 DEF RaceFreeInv
<1>6. CASE MainContains
  <2>1. /\ pc["main"] = "contains" /\ pc'["main"] \in {"indexOf", "connect"}
        /\ pc'["main"] = "indexOf" <=> Contains(connectedPeripherals, p)
        /\ peripheral'["main"] = p
        /\ UNCHANGED <<arrays, selectedBluetoothDeviceIndex, stored>>
    BY <1>6 DEF MainContains, IsConnectedToPeripheral, Goto, TypeOK, Thread
  <2>2. Contains(connectedPeripherals, p) <=> p \in Range(connectedPeripherals)
    BY <1>t, RangeOfArray DEF Contains, Arrays
  <2>3. p \in Range(knownDevicesArray)
    BY <2>1 DEF RaceFreeInv, MainInv
  <2>4. section \in {MyDevices, ConnectDevice}
    BY DEF TypeOK
  <2>5. p \in Range(connectedPeripherals) <=> section = MyDevices
    <3>1. p \notin NotYetKnown
      BY <2>3 DEF RaceFreeInv, ArraysInv, BleInv, AlreadySeen, NotYetKnown
    <3>2. p \in NotYetConnected <=> section = ConnectDevice
      BY <2>1 DEF NotYetConnected
    <3> QED BY <2>3, <2>4, <3>1, <3>2 DEF RaceFreeInv, ArraysInv
  <2>6. /\ InClaim = {} /\ InClaim' = {}
        /\ InTransit = {} /\ InTransit' = {}
        /\ NotYetConnected' = NotYetConnected
    BY <1>1, <2>1, <2>2, <2>4, <2>5 DEF InClaim, InTransit, NotYetConnected
  <2>7. ArraysInv'
    BY <1>1, <1>2, <2>1, <2>6 DEF RaceFreeInv, ArraysInv, OneRowPerDevice, SelectionInRange
  <2>8. RealmInv'
    BY <1>1, <1>c, <2>1, <2>6 DEF RaceFreeInv, RealmInv
  <2>9. MainInv'
    BY <1>1, <2>1, <2>2, <2>3, <2>4, <2>5 DEF MainInv
  <2> QED BY <1>b, <1>c, <2>1, <2>7, <2>8, <2>9 DEF RaceFreeInv
<1>7. CASE MainConnect
  <2>1. /\ connectedPeripherals' = Append(connectedPeripherals, p)
        /\ pc["main"] = "connect" /\ pc'["main"] = "count" /\ peripheral'["main"] = p
        /\ UNCHANGED <<discoveredDevicesArray, knownDevicesArray,
                       selectedBluetoothDeviceIndex, stored>>
    BY <1>7 DEF MainConnect, AddObject, Goto, TypeOK, Thread
  <2>2. /\ InClaim = {} /\ InClaim' = {}
        /\ InTransit = {} /\ InTransit' = {}
        /\ NotYetConnected = {p} /\ NotYetConnected' = {}
    BY <2>1 DEF InClaim, InTransit, NotYetConnected
  <2>3. p \in Range(knownDevicesArray) /\ p \notin Range(connectedPeripherals)
    <3>1. p \in Range(knownDevicesArray)
      BY <2>1 DEF RaceFreeInv, MainInv
    <3>2. p \notin NotYetKnown
      BY <3>1 DEF RaceFreeInv, ArraysInv, BleInv, AlreadySeen, NotYetKnown
    <3> QED BY <2>2, <3>1, <3>2 DEF RaceFreeInv, ArraysInv
  <2>4. /\ Range(connectedPeripherals') = Range(connectedPeripherals) \cup {p}
        /\ IsInjective(connectedPeripherals')
        /\ Len(connectedPeripherals') = Len(connectedPeripherals) + 1
        /\ Len(connectedPeripherals) \in Nat
    BY <1>1, <1>t, <2>1, <2>3, CleanAppend DEF RaceFreeInv, ArraysInv
  <2> HIDE DEF p
  <2>5. ArraysInv'
    BY <1>1, <1>2, <1>t, <2>1, <2>2, <2>3, <2>4
    DEF RaceFreeInv, ArraysInv, OneRowPerDevice, SelectionInRange
  <2>6. RealmInv'
    BY <1>1, <1>c, <2>1, <2>2 DEF RaceFreeInv, RealmInv
  <2>7. MainInv'
    BY <1>1, <2>1, <2>4 DEF RaceFreeInv, MainInv
  <2> QED BY <1>b, <1>c, <2>1, <2>5, <2>6, <2>7 DEF RaceFreeInv
<1>8. ASSUME NEW i \in 0..(Len(connectedPeripherals) - 1), Select(i),
             pc["main"] \in {"count", "indexOf"}
      PROVE  RaceFreeInv'
  <2>1. /\ pc'["main"] = "idle"
        /\ UNCHANGED <<arrays, stored>>
        /\ selectedBluetoothDeviceIndex' = i
    BY <1>8 DEF Select, Goto, TypeOK, Thread
  <2>2. /\ InClaim = {} /\ InClaim' = {}
        /\ InTransit = {} /\ InTransit' = {}
        /\ NotYetConnected = {} /\ NotYetConnected' = {}
    BY <1>8, <2>1 DEF InClaim, InTransit, NotYetConnected
  <2>3. SelectionInRange'
    BY <1>t, <2>1, LenProperties DEF SelectionInRange, Arrays
  <2>4. ArraysInv'
    BY <1>1, <1>2, <2>1, <2>2, <2>3 DEF RaceFreeInv, ArraysInv, OneRowPerDevice
  <2>5. RealmInv'
    BY <1>1, <1>c, <2>1, <2>2 DEF RaceFreeInv, RealmInv
  <2>6. MainInv'
    BY <2>1 DEF MainInv
  <2> QED BY <1>b, <1>c, <2>1, <2>4, <2>5, <2>6 DEF RaceFreeInv
<1>9. ASSUME pc["main"] \in {"count", "indexOf"}
      PROVE  /\ Len(connectedPeripherals) \in Nat \ {0}
             /\ Contains(connectedPeripherals, p)
  <2>1. p \in Range(connectedPeripherals)
    BY <1>9 DEF RaceFreeInv, MainInv
  <2>2. PICK i \in 1..Len(connectedPeripherals) : connectedPeripherals[i] = p
    BY <1>t, <2>1, RangeOfArray DEF Arrays
  <2> QED BY <1>t, <2>2, LenProperties DEF Contains, Arrays
<1>10. CASE MainCount
  <2>1. LastIndex \in 0..(Len(connectedPeripherals) - 1)
    BY <1>9, <1>10 DEF MainCount, LastIndex
  <2> QED BY <1>8, <1>10, <2>1 DEF MainCount
<1>11. CASE MainIndexOf
  <2>1. IndexOfObject(connectedPeripherals, p) \in 0..(Len(connectedPeripherals) - 1)
    BY <1>9, <1>11, <1>t, IndexOfObjectFound DEF MainIndexOf, Arrays
  <2> QED BY <1>8, <1>11, <2>1 DEF MainIndexOf
<1> QED BY <1>3, <1>4, <1>5, <1>6, <1>7, <1>10, <1>11 DEF MainStep

LEMMA RaceFreeStep == TypeOK /\ RaceFreeInv /\ [Next /\ ~raced']_vars => RaceFreeInv'
<1> SUFFICES ASSUME TypeOK, RaceFreeInv, [Next /\ ~raced']_vars PROVE RaceFreeInv'
  OBVIOUS
<1>1. CASE RadioChanges \/ CentralManagerDidUpdateState \/ BeginScanning \/ PostNotification
  BY <1>1, QuietStep DEF RadioChanges, CentralManagerDidUpdateState, BeginScanning,
                         PostNotification, registryVars
<1>2. CASE UNCHANGED vars
  BY <1>2, QuietStep DEF vars, registryVars
<1> QED
  BY <1>1, <1>2, RelaunchStep, DiscoverStep, BleStepInv, SelectInv, MainStepInv DEF Next

(***************************************************************************)
(* However discoveries, taps, commits, relaunches and the radio interleave,*)
(* the arrays, the dictionary and the Realm agree as long as no two        *)
(* messages to one array overlap.                                          *)
(***************************************************************************)
THEOREM RaceFreeInvariant == RaceFreeSpec => []RaceFreeInv
<1>1. [Next /\ ~raced']_vars => [Next]_vars
  OBVIOUS
<1> QED BY <1>1, TypeInit, TypeStep, RaceFreeInit, RaceFreeStep, PTL DEF RaceFreeSpec

(* Absent a race no device has two rows. *)
THEOREM OneRow == RaceFreeSpec => []OneRowPerDevice
<1>1. RaceFreeInv => OneRowPerDevice
  BY DEF RaceFreeInv, ArraysInv
<1> QED BY <1>1, RaceFreeInvariant, PTL

(* Absent a race no peripheral is stored twice, over all the launches. *)
THEOREM NoDuplicates == RaceFreeSpec => []NoDuplicateRecord
<1>1. RaceFreeInv => NoDuplicateRecord
  BY DEF RaceFreeInv, RealmInv
<1> QED BY <1>1, RaceFreeInvariant, PTL

(* Absent a race no command to the selected device raises for its index. *)
THEOREM IndexInRange == RaceFreeSpec => []SelectionInRange
<1>1. RaceFreeInv => SelectionInRange
  BY DEF RaceFreeInv, ArraysInv
<1> QED BY <1>1, RaceFreeInvariant, PTL

(* Absent a race and between methods, known devices are the connected ones *)
(* and each device seen is in the table.                                   *)
THEOREM QuiescentAgreement == RaceFreeSpec => [](KnownIffConnected /\ NothingLost)
<1>1. RaceFreeInv => KnownIffConnected /\ NothingLost
  BY DEF RaceFreeInv, ArraysInv, KnownIffConnected, NothingLost, Idle, Thread,
         NotYetConnected, NotYetKnown, InTransit
<1> QED BY <1>1, RaceFreeInvariant, PTL

(* No device that is never to be announced again is without a row.         *)
THEOREM NoneLost == RaceFreeSpec => []NothingLost
BY QuiescentAgreement, PTL

(* Absent a race the array of connected peripherals only grows at its end, *)
(* until the next launch.                                                  *)
LEMMA ConnectedGrows ==
  ASSUME TypeOK, [Next /\ ~raced']_vars, ~Relaunch
  PROVE  \/ UNCHANGED connectedPeripherals
         \/ \E p \in Peripheral : connectedPeripherals' = Append(connectedPeripherals, p)
<1> USE DEF registryVars, arrays
<1>1. CASE BleConnect /\ ~raced'
  <2>1. connectedPeripherals' = Append(connectedPeripherals, peripheral["ble"])
    BY <1>1 DEF BleConnect, AddObject
  <2>2. peripheral["ble"] \in Peripheral
    BY <1>1 DEF BleConnect, TypeOK, Thread
  <2> QED BY <2>1, <2>2
<1>2. CASE MainConnect /\ ~raced'
  <2>1. connectedPeripherals' = Append(connectedPeripherals, peripheral["main"])
    BY <1>2 DEF MainConnect, AddObject
  <2>2. peripheral["main"] \in Peripheral
    BY <1>2 DEF MainConnect, TypeOK, Thread
  <2> QED BY <2>1, <2>2
<1>3. CASE BleKnow \/ BleList
  BY <1>3 DEF BleKnow, BleList, Announce
<1>4. CASE \/ MainRemove \/ MainKnow \/ MainPersist \/ MainContains
           \/ MainCount \/ MainIndexOf
  BY <1>4 DEF MainRemove, MainKnow, MainPersist, MainContains, MainCount, MainIndexOf, Select
<1>5. CASE \/ RadioChanges \/ CentralManagerDidUpdateState \/ BeginScanning
           \/ PostNotification \/ UNCHANGED vars
           \/ \E p \in Peripheral : DidDiscoverPeripheral(p)
           \/ \E i \in DOMAIN knownDevicesArray : SelectKnown(i - 1)
           \/ \E i \in DOMAIN discoveredDevicesArray : SelectDiscovered(i - 1)
  BY <1>5 DEF RadioChanges, CentralManagerDidUpdateState, BeginScanning, PostNotification,
              DidDiscoverPeripheral, SelectKnown, SelectDiscovered, vars
<1> QED BY <1>1, <1>2, <1>3, <1>4, <1>5 DEF Next, BleStep, MainStep

(* A device found in the background is added behind the selected one.      *)
LEMMA SelectionUnmoved ==
  ASSUME TypeOK, RaceFreeInv, [Next /\ ~raced']_vars,
         UNCHANGED selectedBluetoothDeviceIndex
  PROVE  SelectedPeripheral' = SelectedPeripheral
<1>1. CASE Relaunch
  <2>1. 0 \notin DOMAIN connectedPeripherals /\ 0 \notin DOMAIN connectedPeripherals'
    BY <1>1, LenProperties DEF Relaunch, TypeOK, Arrays
  <2> QED BY <1>1, <2>1 DEF Relaunch, SelectedPeripheral
<1>2. ASSUME NEW p \in Peripheral, connectedPeripherals' = Append(connectedPeripherals, p)
      PROVE  SelectedPeripheral' = SelectedPeripheral
  <2>1. /\ connectedPeripherals \in Arrays
        /\ selectedBluetoothDeviceIndex + 1 \in 0..Len(connectedPeripherals)
    BY LenProperties DEF TypeOK, RaceFreeInv, ArraysInv, SelectionInRange, Arrays
  <2>2. /\ DOMAIN connectedPeripherals = 1..Len(connectedPeripherals)
        /\ DOMAIN connectedPeripherals' = 1..(Len(connectedPeripherals) + 1)
        /\ Len(connectedPeripherals) \in Nat
    BY <1>2, <2>1, AppendProperties, LenProperties DEF Arrays
  <2>3. /\ selectedBluetoothDeviceIndex + 1 \in DOMAIN connectedPeripherals
             <=> selectedBluetoothDeviceIndex + 1 \in DOMAIN connectedPeripherals'
        /\ \A i \in DOMAIN connectedPeripherals :
             connectedPeripherals'[i] = connectedPeripherals[i]
    BY <1>2, <2>1, <2>2, CleanAppend
  <2> QED BY <2>3 DEF SelectedPeripheral
<1>3. CASE UNCHANGED connectedPeripherals
  BY <1>3 DEF SelectedPeripheral
<1> QED BY <1>1, <1>2, <1>3, ConnectedGrows

(* Absent a race only a tap or a relaunch changes the device selected. *)
THEOREM SelectionStays == RaceFreeSpec => SelectionKept
<1>1. [Next /\ ~raced']_vars => [Next]_vars
  OBVIOUS
<1>2. TypeOK /\ RaceFreeInv /\ [Next /\ ~raced']_vars
        => [UNCHANGED selectedBluetoothDeviceIndex
              => SelectedPeripheral' = SelectedPeripheral]_vars
  BY SelectionUnmoved
<1> QED
  BY <1>1, <1>2, TypeInit, TypeStep, RaceFreeInvariant, PTL DEF RaceFreeSpec, SelectionKept

(* What indexOfObject: answers selects the device looked up.              *)
LEMMA IndexOfSelects ==
  ASSUME TypeOK, RaceFreeInv, MainIndexOf
  PROVE  SelectedPeripheral' = peripheral["main"]
<1>1. connectedPeripherals \in Seq(Peripheral)
  BY DEF TypeOK, Arrays
<1>2. peripheral["main"] \in Range(connectedPeripherals)
  BY DEF MainIndexOf, RaceFreeInv, MainInv
<1>3. Contains(connectedPeripherals, peripheral["main"])
  BY <1>1, <1>2, LenProperties, RangeOfArray DEF Contains
<1>4. LET i == IndexOfObject(connectedPeripherals, peripheral["main"])
      IN  i + 1 \in DOMAIN connectedPeripherals /\ connectedPeripherals[i + 1] = peripheral["main"]
  BY <1>1, <1>3, IndexOfObjectFound, LenProperties
<1> QED BY <1>4 DEF MainIndexOf, Select, SelectedPeripheral, arrays

(* Absent a race a tap under My Devices selects the device it is made on.  *)
THEOREM TapsSelect == RaceFreeSpec => MyDevicesTapSelects
<1> DEFINE Selected ==
      /\ pc["main"] \in {"count", "indexOf"}
      /\ pc'["main"] = "idle"
      /\ section = MyDevices
<1>1. ASSUME TypeOK, RaceFreeInv, [Next /\ ~raced']_vars, Selected, ~Relaunch
      PROVE  SelectedPeripheral' = peripheral["main"]
  <2>1. pc["main"] = "indexOf"
    BY <1>1 DEF RaceFreeInv, MainInv, MyDevices, ConnectDevice
  <2>2. MainIndexOf
    BY <1>1, <2>1 DEF TypeOK, Next, MainStep, BleStep, vars, threadVars, Thread, Goto,
      RadioChanges, CentralManagerDidUpdateState, BeginScanning, DidDiscoverPeripheral,
      BleConnect, BleKnow, BleList, Announce, PostNotification, SelectKnown,
      SelectDiscovered, MainRemove, MainKnow, MainPersist, MainContains, MainConnect, MainCount
  <2> QED BY <1>1, <2>2, IndexOfSelects
<1>2. [Next /\ ~raced']_vars => [Next]_vars
  OBVIOUS
<1>3. TypeOK /\ RaceFreeInv /\ [Next /\ ~raced']_vars
        => [Selected => SelectedPeripheral' = peripheral["main"] \/ Relaunch]_vars
  BY <1>1
<1> QED
  BY <1>2, <1>3, TypeInit, TypeStep, RaceFreeInvariant, PTL DEF RaceFreeSpec, MyDevicesTapSelects
-----------------------------------------------------------------------------
(***************************************************************************)
(* With races: what is connected is committed, and the scan comes.         *)
(***************************************************************************)

(* An overlapping addition brings back nothing but what was there.         *)
LEMMA AddObjectRange ==
  ASSUME TypeOK, NEW t \in Thread, NEW p \in Peripheral, NEW array \in Arrays, NEW array1,
         \/ array1 = Append(array, p)
         \/ array1 = Append(stale[t], p),
         NEW S, p \in S, Range(array) \subseteq S, Range(stale[t]) \subseteq S
  PROVE  Range(array1) \subseteq S
<1>1. stale[t] \in Arrays
  BY DEF TypeOK
<1>2. \A s \in Arrays : Range(Append(s, p)) = Range(s) \cup {p}
  BY AppendArray DEF Arrays
<1> QED BY <1>1, <1>2

LEMMA PersistInit == Init => PersistInv
<1>1. Range(<<>>) = {}
  BY DEF Range
<1> QED BY <1>1 DEF Init, PersistInv, ConnectedArePersisted, Thread

(* A step that leaves the Realm and the claim alone. *)
LEMMA PersistBle ==
  ASSUME TypeOK, PersistInv, BleStep
  PROVE  PersistInv'
<1> DEFINE p == peripheral["ble"]
<1>1. /\ p \in Peripheral
      /\ connectedPeripherals \in Arrays
      /\ knownDevicesArray \in Arrays
      /\ "ble" \in Thread
  BY DEF BleStep, BleConnect, BleKnow, BleList, TypeOK, Thread
<1>2. StoredUUIDs' = StoredUUIDs /\ bleRealm' = bleRealm
  BY DEF BleStep, BleConnect, BleKnow, BleList, Announce, realmVars, StoredUUIDs
<1>3. /\ pc'["main"] = pc["main"]
      /\ peripheral'["main"] = peripheral["main"]
      /\ stale'["main"] = stale["main"]
  BY DEF BleStep, BleConnect, BleKnow, BleList, Announce, Goto, AboutToChange,
         NoLongerChanging, TypeOK, Thread
<1>4. InClaim' = InClaim
  BY <1>3 DEF InClaim
<1>5. CASE BleConnect
  <2>1. /\ pc["ble"] = "connect" /\ pc'["ble"] = "know"
        /\ stale'["ble"] = knownDevicesArray
        /\ UNCHANGED <<knownDevicesArray, peripheral>>
    BY <1>5 DEF BleConnect, Goto, AboutToChange, TypeOK, Thread
  <2>2. /\ p \in StoredUUIDs
        /\ Range(stale["ble"]) \subseteq StoredUUIDs
        /\ Range(connectedPeripherals) \subseteq StoredUUIDs
    BY <1>1, <2>1 DEF PersistInv, ConnectedArePersisted
  <2>3. Range(connectedPeripherals') \subseteq StoredUUIDs
    BY <1>1, <1>5, <2>2, AddObjectRange DEF BleConnect, AddObject
  <2> QED BY <1>2, <1>3, <1>4, <2>1, <2>2, <2>3 DEF PersistInv, ConnectedArePersisted, Thread
<1>6. CASE BleKnow
  <2>1. /\ pc["ble"] = "know" /\ pc'["ble"] = "idle"
        /\ UNCHANGED connectedPeripherals
    BY <1>6 DEF BleKnow, Announce, Goto, TypeOK, Thread
  <2>2. /\ p \in StoredUUIDs \cup InClaim
        /\ Range(stale["ble"]) \subseteq StoredUUIDs \cup InClaim
        /\ Range(knownDevicesArray) \subseteq StoredUUIDs \cup InClaim
    BY <1>1, <2>1 DEF PersistInv, ConnectedArePersisted
  <2>3. Range(knownDevicesArray') \subseteq StoredUUIDs \cup InClaim
    BY <1>1, <1>6, <2>2, AddObjectRange DEF BleKnow, AddObject
  <2> QED BY <1>2, <1>3, <1>4, <2>1, <2>3 DEF PersistInv, ConnectedArePersisted, Thread
<1>7. CASE BleList
  <2>1. /\ pc'["ble"] = "idle"
        /\ UNCHANGED <<connectedPeripherals, knownDevicesArray>>
    BY <1>7 DEF BleList, Announce, Goto, TypeOK, Thread
  <2> QED BY <1>2, <1>3, <1>4, <2>1 DEF PersistInv, ConnectedArePersisted, Thread
<1> QED BY <1>5, <1>6, <1>7 DEF BleStep

LEMMA PersistMain ==
  ASSUME TypeOK, PersistInv, MainStep
  PROVE  PersistInv'
<1> DEFINE p == peripheral["main"]
<1>1. /\ p \in Peripheral
      /\ connectedPeripherals \in Arrays
      /\ knownDevicesArray \in Arrays
      /\ "main" \in Thread
  BY DEF MainStep, MainRemove, MainKnow, MainPersist, MainContains, MainConnect, MainCount,
         MainIndexOf, TypeOK, Thread
<1>2. bleRealm' = bleRealm
  BY DEF MainStep, MainRemove, MainKnow, MainPersist, MainContains, MainConnect, MainCount,
         MainIndexOf, Select, realmVars
<1>3. /\ pc'["ble"] = pc["ble"]
      /\ peripheral'["ble"] = peripheral["ble"]
      /\ stale'["ble"] = stale["ble"]
  BY DEF MainStep, MainRemove, MainKnow, MainPersist, MainContains, MainConnect, MainCount,
         MainIndexOf, Select, Goto, AboutToChange, NoLongerChanging, TypeOK, Thread
<1>4. ASSUME UNCHANGED stored PROVE StoredUUIDs' = StoredUUIDs
  BY <1>4 DEF StoredUUIDs
<1>5. CASE MainRemove
  <2>1. /\ pc["main"] = "remove" /\ pc'["main"] = "know"
        /\ stale'["main"] = knownDevicesArray
        /\ UNCHANGED <<knownDevicesArray, connectedPeripherals, stored>>
    BY <1>5 DEF MainRemove, Goto, AboutToChange, realmVars, TypeOK, Thread
  <2>2. InClaim = {}
    BY <2>1 DEF InClaim
  <2> QED BY <1>2, <1>3, <1>4, <2>1, <2>2 DEF PersistInv, ConnectedArePersisted, Thread
<1>6. CASE MainKnow
  <2>1. /\ pc["main"] = "know" /\ pc'["main"] = "persist" /\ peripheral'["main"] = p
        /\ UNCHANGED <<connectedPeripherals, stored>>
    BY <1>6 DEF MainKnow, Goto, realmVars, TypeOK, Thread
  <2>2. InClaim = {p} /\ InClaim' = {p}
    BY <2>1 DEF InClaim
  <2>3. /\ p \in StoredUUIDs \cup InClaim
        /\ Range(stale["main"]) \subseteq StoredUUIDs \cup InClaim
        /\ Range(knownDevicesArray) \subseteq StoredUUIDs \cup InClaim
    BY <1>1, <2>1, <2>2 DEF PersistInv, ConnectedArePersisted
  <2>4. Range(knownDevicesArray') \subseteq StoredUUIDs \cup InClaim
    BY <1>1, <1>6, <2>3, AddObjectRange DEF MainKnow, AddObject
  <2> HIDE DEF p
  <2> QED BY <1>2, <1>3, <1>4, <2>1, <2>2, <2>4 DEF PersistInv, ConnectedArePersisted, Thread
<1>7. CASE MainPersist
  <2>1. /\ pc["main"] = "persist" /\ pc'["main"] = "contains" /\ peripheral'["main"] = p
        /\ WriteTransaction(p)
        /\ UNCHANGED <<knownDevicesArray, connectedPeripherals>>
    BY <1>7 DEF MainPersist, Goto, registryVars, arrays, TypeOK, Thread
  <2>2. InClaim = {p} /\ InClaim' = {}
    BY <2>1 DEF InClaim
  <2>3. StoredUUIDs' = StoredUUIDs \cup {p}
    BY <1>1, <2>1, StoredAfterCommit
  <2> HIDE DEF p
  <2> QED BY <1>2, <1>3, <2>1, <2>2, <2>3 DEF PersistInv, ConnectedArePersisted, Thread
<1>8. CASE MainContains
  <2>1. /\ pc["main"] = "contains" /\ pc'["main"] \in {"indexOf", "connect"}
        /\ peripheral'["main"] = p
        /\ pc'["main"] = "connect" => stale'["main"] = connectedPeripherals
        /\ UNCHANGED <<knownDevicesArray, connectedPeripherals, stored>>
    BY <1>8 DEF MainContains, Goto, AboutToChange, registryVars, arrays, realmVars, TypeOK, Thread
  <2>2. InClaim = {} /\ InClaim' = {}
    BY <2>1 DEF InClaim
  <2> HIDE DEF p
  <2>3. p \in StoredUUIDs
    BY <2>1 DEF PersistInv, p
  <2> QED BY <1>2, <1>3, <1>4, <2>1, <2>2, <2>3 DEF PersistInv, ConnectedArePersisted, Thread
<1>9. CASE MainConnect
  <2>1. /\ pc["main"] = "connect" /\ pc'["main"] = "count"
        /\ UNCHANGED <<knownDevicesArray, stored>>
    BY <1>9 DEF MainConnect, Goto, realmVars, TypeOK, Thread
  <2>2. InClaim = {} /\ InClaim' = {}
    BY <2>1 DEF InClaim
  <2>3. /\ p \in StoredUUIDs
        /\ Range(stale["main"]) \subseteq StoredUUIDs
        /\ Range(connectedPeripherals) \subseteq StoredUUIDs
    BY <1>1, <2>1 DEF PersistInv, ConnectedArePersisted
  <2>4. Range(connectedPeripherals') \subseteq StoredUUIDs
    BY <1>1, <1>9, <2>3, AddObjectRange DEF MainConnect, AddObject
  <2> QED BY <1>2, <1>3, <1>4, <2>1, <2>2, <2>4 DEF PersistInv, ConnectedArePersisted, Thread
<1>10. CASE MainCount \/ MainIndexOf
  <2>1. /\ pc["main"] \in {"count", "indexOf"} /\ pc'["main"] = "idle"
        /\ UNCHANGED <<knownDevicesArray, connectedPeripherals, stored>>
    BY <1>10 DEF MainCount, MainIndexOf, Select, Goto, arrays, realmVars, TypeOK, Thread
  <2>2. InClaim = {} /\ InClaim' = {}
    BY <2>1 DEF InClaim
  <2> QED BY <1>2, <1>3, <1>4, <2>1, <2>2 DEF PersistInv, ConnectedArePersisted, Thread
<1> QED BY <1>5, <1>6, <1>7, <1>8, <1>9, <1>10 DEF MainStep

LEMMA PersistStep == TypeOK /\ PersistInv /\ [Next]_vars => PersistInv'
<1> SUFFICES ASSUME TypeOK, PersistInv, [Next]_vars PROVE PersistInv'
  OBVIOUS
<1> USE DEF registryVars, arrays, realmVars, threadVars
<1>1. ASSUME UNCHANGED stored PROVE StoredUUIDs' = StoredUUIDs
  BY <1>1 DEF StoredUUIDs
<1>2. CASE Relaunch
  <2>1. Range(<<>>) = {}
    BY DEF Range
  <2> QED BY <1>1, <1>2, <2>1 DEF Relaunch, PersistInv, ConnectedArePersisted, Thread
<1>3. CASE \/ RadioChanges \/ CentralManagerDidUpdateState \/ BeginScanning
           \/ PostNotification \/ UNCHANGED vars
  <2>1. UNCHANGED <<arrays, realmVars, threadVars>>
    BY <1>3 DEF RadioChanges, CentralManagerDidUpdateState, BeginScanning, PostNotification, vars
  <2> QED BY <1>1, <2>1 DEF PersistInv, ConnectedArePersisted, InClaim
<1>4. ASSUME NEW p \in Peripheral, DidDiscoverPeripheral(p) PROVE PersistInv'
  <2>1. PICK version \in bleRealm \cup {StoredUUIDs} :
          /\ bleRealm' = {version}
          /\ pc'["ble"] \in {"connect", "list"}
          /\ pc'["ble"] = "connect" =>
               p \in version /\ stale'["ble"] = connectedPeripherals
    BY <1>4 DEF DidDiscoverPeripheral, ExistingPeripheral, Goto, AboutToChange, TypeOK, Thread
  <2>2. version \subseteq StoredUUIDs
    BY DEF PersistInv
  <2>3. /\ pc'["main"] = pc["main"] /\ stale'["main"] = stale["main"]
        /\ peripheral'["main"] = peripheral["main"] /\ peripheral'["ble"] = p
        /\ UNCHANGED <<knownDevicesArray, connectedPeripherals, stored>>
    BY <1>4 DEF DidDiscoverPeripheral, Goto, AboutToChange, TypeOK, Thread
  <2>4. InClaim' = InClaim
    BY <2>3 DEF InClaim
  <2> QED BY <1>1, <2>1, <2>2, <2>3, <2>4 DEF PersistInv, ConnectedArePersisted, Thread
<1>5. ASSUME NEW i \in DOMAIN knownDevicesArray, SelectKnown(i - 1) PROVE PersistInv'
  <2>1. i - 1 + 1 = i /\ knownDevicesArray[i] \in Range(knownDevicesArray)
    BY LenProperties DEF TypeOK, Arrays, Range
  <2>2. /\ pc["main"] = "idle" /\ pc'["main"] = "contains" /\ pc'["ble"] = pc["ble"]
        /\ peripheral'["main"] = knownDevicesArray[i] /\ peripheral'["ble"] = peripheral["ble"]
        /\ UNCHANGED <<knownDevicesArray, connectedPeripherals, stored, bleRealm, stale>>
    BY <1>5, <2>1 DEF SelectKnown, Goto, TypeOK, Thread
  <2>3. InClaim = {} /\ InClaim' = {}
    BY <2>2 DEF InClaim
  <2> QED BY <1>1, <2>1, <2>2, <2>3 DEF PersistInv, ConnectedArePersisted, Thread
<1>6. ASSUME NEW i \in DOMAIN discoveredDevicesArray, SelectDiscovered(i - 1) PROVE PersistInv'
  <2>1. /\ pc["main"] = "idle" /\ pc'["main"] = "remove" /\ pc'["ble"] = pc["ble"]
        /\ peripheral'["ble"] = peripheral["ble"] /\ stale'["ble"] = stale["ble"]
        /\ UNCHANGED <<knownDevicesArray, connectedPeripherals, stored, bleRealm>>
    BY <1>6 DEF SelectDiscovered, Goto, AboutToChange, TypeOK, Thread
  <2>2. InClaim = {} /\ InClaim' = {}
    BY <2>1 DEF InClaim
  <2> QED BY <1>1, <2>1, <2>2 DEF PersistInv, ConnectedArePersisted, Thread
<1> QED BY <1>2, <1>3, <1>4, <1>5, <1>6, PersistBle, PersistMain DEF Next

(* The invariant behind it, with races and relaunches. *)
LEMMA PersistInvariant == Spec => []PersistInv
BY TypeInit, TypeStep, PersistInit, PersistStep, PTL DEF Spec

(***************************************************************************)
(* Whatever the threads do and wherever the app dies, a device that can be *)
(* locked and unlocked is one that the next launch will know again.        *)
(***************************************************************************)
THEOREM ConnectedPersisted == Spec => []ConnectedArePersisted
<1>1. PersistInv => ConnectedArePersisted
  BY DEF PersistInv
<1> QED BY <1>1, PersistInvariant, PTL

(* Nor does an overlapping removal.                                        *)
LEMMA RemoveRange ==
  ASSUME NEW s \in Arrays, NEW i, i + 1 \in DOMAIN s
  PROVE  Range(RemoveAt(s, i + 1)) \subseteq Range(s)
<1> DEFINE r == RemoveAt(s, i + 1)
           k == i + 1
<1>1. /\ k \in 1..Len(s) /\ Len(s) \in Nat
      /\ DOMAIN s = 1..Len(s)
  BY LenProperties DEF Arrays
<1> HIDE DEF k
<1>2. /\ r \in Seq(Peripheral)
      /\ Len(r) = Len(s) - 1
      /\ \A j \in 1..(k - 1) : r[j] = s[j]
      /\ \A j \in k..(Len(s) - 1) : r[j] = s[j + 1]
  BY <1>1, RemoveAtProperties DEF Arrays, k
<1> HIDE DEF r
<1>3. SUFFICES ASSUME NEW x \in Range(r) PROVE x \in Range(s)
  BY DEF r
<1>4. PICK j \in 1..(Len(s) - 1) : r[j] = x
  BY <1>2, RangeOfArray
<1>5. CASE j < k
  BY <1>1, <1>2, <1>4, <1>5 DEF Range
<1>6. CASE j >= k
  <2>1. s[j + 1] = x /\ j + 1 \in 1..Len(s)
    BY <1>1, <1>2, <1>4, <1>6
  <2> QED BY <1>1, <2>1 DEF Range
<1> QED BY <1>1, <1>4, <1>5, <1>6

LEMMA SeenInit == Init => SeenInv
<1>1. Range(<<>>) = {}
  BY DEF Range
<1> QED BY <1>1 DEF Init, SeenInv, LookupIsRight, Thread

(* The BLE queue announces what it adds.                                   *)
LEMMA SeenBle ==
  ASSUME TypeOK, SeenInv, BleStep
  PROVE  SeenInv'
<1> USE DEF AlreadySeen
<1> DEFINE p == peripheral["ble"]
           dictionary == discoveredDevicesDictionary
<1>1. /\ p \in Peripheral /\ "ble" \in Thread
      /\ discoveredDevicesArray \in Arrays /\ knownDevicesArray \in Arrays
  BY DEF BleStep, BleConnect, BleKnow, BleList, TypeOK, Thread
<1>2. StoredUUIDs' = StoredUUIDs /\ bleRealm' = bleRealm
  BY DEF BleStep, BleConnect, BleKnow, BleList, Announce, realmVars, StoredUUIDs
<1>3. /\ pc'["main"] = pc["main"]
      /\ peripheral'["main"] = peripheral["main"]
      /\ stale'["main"] = stale["main"]
  BY DEF BleStep, BleConnect, BleKnow, BleList, Announce, Goto, AboutToChange,
         NoLongerChanging, TypeOK, Thread
<1>4. CASE BleConnect
  <2>1. /\ pc["ble"] = "connect" /\ pc'["ble"] = "know"
        /\ stale'["ble"] = knownDevicesArray
        /\ UNCHANGED <<discoveredDevicesArray, knownDevicesArray, dictionary, peripheral>>
    BY <1>4 DEF BleConnect, Goto, AboutToChange, TypeOK, Thread
  <2> QED BY <1>2, <1>3, <2>1 DEF SeenInv, LookupIsRight, Thread
<1>5. CASE BleKnow \/ BleList
  <2>1. /\ pc["ble"] \in {"know", "list"} /\ pc'["ble"] = "idle"
        /\ dictionary' = dictionary \cup {p}
    BY <1>5 DEF BleKnow, BleList, Announce, Goto, TypeOK, Thread
  <2>2. /\ p \in dictionary'
        /\ Range(discoveredDevicesArray) \subseteq dictionary'
        /\ Range(knownDevicesArray) \subseteq dictionary'
        /\ Range(stale["ble"]) \subseteq dictionary'
    BY <1>1, <2>1 DEF SeenInv
  <2>3. /\ Range(discoveredDevicesArray') \subseteq dictionary'
        /\ Range(knownDevicesArray') \subseteq dictionary'
    <3>1. CASE BleKnow
      BY <1>1, <2>2, <3>1, AddObjectRange DEF BleKnow, AddObject
    <3>2. CASE BleList
      BY <1>1, <2>2, <3>2, AddObjectRange DEF BleList, AddObject
    <3> QED BY <1>5, <3>1, <3>2
  <2> QED BY <1>2, <1>3, <2>1, <2>3 DEF SeenInv, LookupIsRight, Thread
<1> QED BY <1>4, <1>5 DEF BleStep

(* A tap is made on what has been announced.                               *)
LEMMA SeenMain ==
  ASSUME TypeOK, SeenInv, MainStep
  PROVE  SeenInv'
<1> USE DEF AlreadySeen
<1> DEFINE p == peripheral["main"]
           dictionary == discoveredDevicesDictionary
<1>1. /\ p \in Peripheral /\ p \in dictionary /\ "main" \in Thread
      /\ discoveredDevicesArray \in Arrays /\ knownDevicesArray \in Arrays
  BY DEF MainStep, MainRemove, MainKnow, MainPersist, MainContains, MainConnect, MainCount,
         MainIndexOf, TypeOK, SeenInv, Thread
<1>2. UNCHANGED <<bleRealm, dictionary>>
  BY DEF MainStep, MainRemove, MainKnow, MainPersist, MainContains, MainConnect, MainCount,
         MainIndexOf, Select, realmVars, registryVars
<1>3. /\ pc'["ble"] = pc["ble"]
      /\ peripheral'["ble"] = peripheral["ble"]
      /\ stale'["ble"] = stale["ble"]
      /\ pc'["main"] # "idle" => peripheral'["main"] = p
  BY DEF MainStep, MainRemove, MainKnow, MainPersist, MainContains, MainConnect, MainCount,
         MainIndexOf, Select, Goto, AboutToChange, NoLongerChanging, TypeOK, Thread
<1>4. ASSUME UNCHANGED stored PROVE StoredUUIDs' = StoredUUIDs
  BY <1>4 DEF StoredUUIDs
<1>5. CASE MainRemove
  <2>1. /\ pc["main"] = "remove" /\ pc'["main"] = "know"
        /\ stale'["main"] = knownDevicesArray
        /\ UNCHANGED <<knownDevicesArray, stored>>
    BY <1>5 DEF MainRemove, Goto, AboutToChange, realmVars, TypeOK, Thread
  <2>2. /\ Range(discoveredDevicesArray) \subseteq dictionary
        /\ Range(stale["main"]) \subseteq dictionary
        /\ stale["main"] \in Arrays
    BY <1>1, <2>1 DEF SeenInv, TypeOK
  <2>3. Range(discoveredDevicesArray') \subseteq dictionary
    BY <1>1, <1>5, <2>2, RemoveRange DEF MainRemove, RemoveObjectAtIndex
  <2> QED BY <1>1, <1>2, <1>3, <1>4, <2>1, <2>3 DEF SeenInv, LookupIsRight, Thread
<1>6. CASE MainKnow
  <2>1. /\ pc["main"] = "know" /\ pc'["main"] = "persist"
        /\ UNCHANGED <<discoveredDevicesArray, stored>>
    BY <1>6 DEF MainKnow, Goto, realmVars, TypeOK, Thread
  <2>2. /\ Range(knownDevicesArray) \subseteq dictionary
        /\ Range(stale["main"]) \subseteq dictionary
    BY <1>1, <2>1 DEF SeenInv
  <2>3. Range(knownDevicesArray') \subseteq dictionary
    BY <1>1, <1>6, <2>2, AddObjectRange DEF MainKnow, AddObject
  <2> QED BY <1>1, <1>2, <1>3, <1>4, <2>1, <2>3 DEF SeenInv, LookupIsRight, Thread
<1>7. CASE MainPersist
  <2>1. /\ pc'["main"] = "contains"
        /\ UNCHANGED <<discoveredDevicesArray, knownDevicesArray>>
        /\ StoredUUIDs' = StoredUUIDs \cup {p}
    BY <1>1, <1>7, StoredAfterCommit
    DEF MainPersist, Goto, registryVars, arrays, TypeOK, Thread
  <2>2. pc["ble"] # "idle" => peripheral["ble"] # p
    BY <1>1 DEF SeenInv
  <2> QED BY <1>1, <1>2, <1>3, <2>1, <2>2 DEF SeenInv, LookupIsRight, Thread
<1>8. CASE MainContains \/ MainConnect \/ MainCount \/ MainIndexOf
  <2>1. /\ pc'["main"] \notin {"list", "remove", "know"}
        /\ UNCHANGED <<discoveredDevicesArray, knownDevicesArray, stored>>
    BY <1>8 DEF MainContains, MainConnect, MainCount, MainIndexOf, Select, Goto, registryVars,
                arrays, realmVars, TypeOK, Thread
  <2> QED BY <1>1, <1>2, <1>3, <1>4, <2>1 DEF SeenInv, LookupIsRight, Thread
<1> QED BY <1>5, <1>6, <1>7, <1>8 DEF MainStep

LEMMA SeenStep == TypeOK /\ SeenInv /\ [Next]_vars => SeenInv'
<1> SUFFICES ASSUME TypeOK, SeenInv, [Next]_vars PROVE SeenInv'
  OBVIOUS
<1> USE DEF registryVars, arrays, realmVars, threadVars, AlreadySeen
<1>1. ASSUME UNCHANGED stored PROVE StoredUUIDs' = StoredUUIDs
  BY <1>1 DEF StoredUUIDs
<1>2. CASE Relaunch
  <2>1. Range(<<>>) = {}
    BY DEF Range
  <2> QED BY <1>2, <2>1 DEF Relaunch, SeenInv, LookupIsRight, Thread
<1>3. CASE \/ RadioChanges \/ CentralManagerDidUpdateState \/ BeginScanning
           \/ PostNotification \/ UNCHANGED vars
  <2>1. UNCHANGED <<arrays, discoveredDevicesDictionary, realmVars, threadVars>>
    BY <1>3 DEF RadioChanges, CentralManagerDidUpdateState, BeginScanning, PostNotification, vars
  <2> QED BY <1>1, <2>1 DEF SeenInv, LookupIsRight
<1>4. ASSUME NEW p \in Peripheral, DidDiscoverPeripheral(p) PROVE SeenInv'
  <2>1. PICK version \in bleRealm \cup {StoredUUIDs} :
          /\ bleRealm' = {version}
          /\ pc'["ble"] = IF p \in version THEN "connect" ELSE "list"
          /\ pc'["ble"] = "list" => stale'["ble"] = discoveredDevicesArray
    BY <1>4 DEF DidDiscoverPeripheral, ExistingPeripheral, Goto, AboutToChange, TypeOK, Thread
  <2>2. /\ version \subseteq StoredUUIDs
        /\ StoredUUIDs \ version \subseteq discoveredDevicesDictionary
    BY DEF SeenInv
  <2>3. /\ pc'["main"] = pc["main"] /\ stale'["main"] = stale["main"]
        /\ peripheral'["main"] = peripheral["main"] /\ peripheral'["ble"] = p
        /\ UNCHANGED <<discoveredDevicesArray, knownDevicesArray, discoveredDevicesDictionary,
                       stored>>
        /\ p \notin discoveredDevicesDictionary
    BY <1>4 DEF DidDiscoverPeripheral, Goto, AboutToChange, TypeOK, Thread
  <2>4. p \in StoredUUIDs <=> p \in version
    BY <2>2, <2>3
  <2> QED BY <1>1, <2>1, <2>2, <2>3, <2>4 DEF SeenInv, LookupIsRight, Thread
<1>5. ASSUME NEW i \in DOMAIN knownDevicesArray, SelectKnown(i - 1) PROVE SeenInv'
  <2>1. i - 1 + 1 = i /\ knownDevicesArray[i] \in Range(knownDevicesArray)
    BY LenProperties DEF TypeOK, Arrays, Range
  <2>2. /\ pc'["main"] = "contains" /\ pc'["ble"] = pc["ble"]
        /\ peripheral'["main"] = knownDevicesArray[i] /\ peripheral'["ble"] = peripheral["ble"]
        /\ UNCHANGED <<discoveredDevicesArray, knownDevicesArray, discoveredDevicesDictionary,
                       stored, bleRealm, stale>>
    BY <1>5, <2>1 DEF SelectKnown, Goto, TypeOK, Thread
  <2> QED BY <1>1, <2>1, <2>2 DEF SeenInv, LookupIsRight, Thread
<1>6. ASSUME NEW i \in DOMAIN discoveredDevicesArray, SelectDiscovered(i - 1) PROVE SeenInv'
  <2>1. i - 1 + 1 = i /\ discoveredDevicesArray[i] \in Range(discoveredDevicesArray)
    BY LenProperties DEF TypeOK, Arrays, Range
  <2>2. /\ pc'["ble"] = pc["ble"]
        /\ peripheral'["main"] = discoveredDevicesArray[i]
        /\ peripheral'["ble"] = peripheral["ble"]
        /\ stale'["main"] = discoveredDevicesArray /\ stale'["ble"] = stale["ble"]
        /\ UNCHANGED <<discoveredDevicesArray, knownDevicesArray, discoveredDevicesDictionary,
                       stored, bleRealm>>
    BY <1>6, <2>1 DEF SelectDiscovered, Goto, AboutToChange, TypeOK, Thread
  <2> QED BY <1>1, <2>1, <2>2 DEF SeenInv, LookupIsRight, Thread
<1> QED BY <1>2, <1>3, <1>4, <1>5, <1>6, SeenBle, SeenMain DEF Next

(* The invariant behind the next theorem, with races and relaunches.       *)
LEMMA SeenInvariant == Spec => []SeenInv
BY TypeInit, TypeStep, SeenInit, SeenStep, PTL DEF Spec

(* Both are kept in every execution, with races and relaunches.            *)
THEOREM RacesInvariant == Spec => []RacesInv
BY PersistInvariant, SeenInvariant, PTL DEF RacesInv

(***************************************************************************)
(* Whatever the threads do and wherever the app dies, the old Realm of the *)
(* BLE queue answers as the last commit would.                             *)
(***************************************************************************)
THEOREM LookupsRight == Spec => []LookupIsRight
<1>1. SeenInv => LookupIsRight
  BY DEF SeenInv
<1> QED BY <1>1, SeenInvariant, PTL

(***************************************************************************)
(* With the radio on, a scan is under way or a callback that starts one is *)
(* queued: what ScanningResumes needs beyond the fairness of the queue.    *)
(***************************************************************************)
THEOREM ScanComes == Spec => []ScanIsComing
<1>1. Init => ScanIsComing
  BY DEF Init, ScanIsComing
<1>2. ASSUME TypeOK, ScanIsComing, [Next]_vars PROVE ScanIsComing'
  <2>1. stateEvents \in Nat
    BY <1>2 DEF TypeOK
  <2>2. CASE Relaunch
    BY <2>2 DEF Relaunch, ScanIsComing
  <2>3. CASE RadioChanges
    BY <2>1, <2>3 DEF RadioChanges, ScanIsComing
  <2>4. CASE CentralManagerDidUpdateState
    BY <2>4 DEF CentralManagerDidUpdateState, ScanForPeripherals, ScanIsComing
  <2>5. CASE BeginScanning
    BY <1>2, <2>5 DEF BeginScanning, ScanForPeripherals, ScanIsComing
  <2>6. ASSUME UNCHANGED radioVars PROVE ScanIsComing'
    BY <1>2, <2>6 DEF radioVars, ScanIsComing
  <2>7. CASE BleStep \/ PostNotification \/ UNCHANGED vars
    BY <2>6, <2>7 DEF BleStep, BleConnect, BleKnow, BleList, Announce, PostNotification, vars
  <2>8. CASE MainStep
    BY <2>6, <2>8 DEF MainStep, MainRemove, MainKnow, MainPersist, MainContains, MainConnect,
                      MainCount, MainIndexOf, Select
  <2>9. CASE \/ \E p \in Peripheral : DidDiscoverPeripheral(p)
             \/ \E i \in DOMAIN knownDevicesArray : SelectKnown(i - 1)
             \/ \E i \in DOMAIN discoveredDevicesArray : SelectDiscovered(i - 1)
    BY <2>6, <2>9 DEF DidDiscoverPeripheral, SelectKnown, SelectDiscovered
  <2> QED BY <1>2, <2>2, <2>3, <2>4, <2>5, <2>7, <2>8, <2>9 DEF Next
<1> QED BY <1>1, <1>2, TypeInit, TypeStep, PTL DEF Spec
-----------------------------------------------------------------------------
(* LKJBluetoothController implements DeviceRegistry, absent a race.        *)

LEMMA RegistryInit == Init => Registry!Init
<1> SUFFICES ASSUME Init PROVE Registry!Init
  OBVIOUS
<1>1. Range(<<>>) = {} /\ DOMAIN <<>> = {}
  BY DEF Range
<1>2. StoredUUIDs = {} /\ InClaim = {}
  BY <1>1 DEF Init, StoredUUIDs, InClaim, Thread
<1> QED BY <1>1, <1>2 DEF Init, Registry!Init

(* A device found in the Realm, or not, appears when its row does. *)
LEMMA RegistryFind ==
  ASSUME TypeOK, RaceFreeInv, BleStep, ~raced'
  PROVE  [Registry!Next]_(Registry!vars)
<1> USE DEF registryVars, arrays, realmVars
<1> DEFINE p == peripheral["ble"]
<1>1. /\ p \in Peripheral
      /\ p \notin Range(discoveredDevicesArray)
      /\ p \notin Range(knownDevicesArray)
      /\ p \notin InClaim
  <2>1. p \in Peripheral /\ p \notin discoveredDevicesDictionary
    BY DEF BleStep, BleConnect, BleKnow, BleList, TypeOK, RaceFreeInv, BleInv, AlreadySeen,
           Thread
  <2>2. InClaim \subseteq discoveredDevicesDictionary
    BY DEF RaceFreeInv, ArraysInv, MainInv, InClaim, InTransit
  <2> QED BY <2>1, <2>2 DEF RaceFreeInv, ArraysInv
<1>2. /\ StoredUUIDs' = StoredUUIDs
      /\ InClaim' = InClaim
  <2>1. /\ stored' = stored
        /\ pc'["main"] = pc["main"]
        /\ peripheral'["main"] = peripheral["main"]
    BY DEF BleStep, BleConnect, BleKnow, BleList, Announce, Goto, TypeOK, Thread
  <2> QED BY <2>1 DEF StoredUUIDs, InClaim
<1>3. /\ discoveredDevicesArray \in Arrays
      /\ knownDevicesArray \in Arrays
  BY DEF TypeOK
<1>4. CASE BleConnect
  BY <1>2, <1>4 DEF BleConnect, Registry!vars
<1>5. CASE BleKnow
  <2>1. /\ knownDevicesArray' = Append(knownDevicesArray, p)
        /\ UNCHANGED discoveredDevicesArray
        /\ p \in StoredUUIDs
    BY <1>5 DEF BleKnow, AddObject, RaceFreeInv, BleInv
  <2> HIDE DEF p
  <2>2. Range(knownDevicesArray') = Range(knownDevicesArray) \cup {p}
    BY <1>1, <1>3, <2>1, CleanAppend
  <2>3. Registry!FindMine(p)
    BY <1>1, <1>2, <2>1, <2>2 DEF Registry!FindMine
  <2> QED BY <1>1, <2>3 DEF Registry!Next
<1>6. CASE BleList
  <2>1. /\ discoveredDevicesArray' = Append(discoveredDevicesArray, p)
        /\ UNCHANGED knownDevicesArray
        /\ p \notin StoredUUIDs
    BY <1>6 DEF BleList, AddObject, RaceFreeInv, BleInv
  <2> HIDE DEF p
  <2>2. Range(discoveredDevicesArray') = Range(discoveredDevicesArray) \cup {p}
    BY <1>1, <1>3, <2>1, CleanAppend
  <2>3. Registry!FindNew(p)
    BY <1>1, <1>2, <2>1, <2>2 DEF Registry!FindNew
  <2> QED BY <1>1, <2>3 DEF Registry!Next
<1> QED BY <1>4, <1>5, <1>6 DEF BleStep

(* The device tapped is claimed by the commit; before, it is still listed. *)
LEMMA RegistryClaim ==
  ASSUME TypeOK, RaceFreeInv, MainStep, ~raced'
  PROVE  [Registry!Next]_(Registry!vars)
<1> USE DEF registryVars, arrays, realmVars
<1> DEFINE p == peripheral["main"]
<1>1. /\ p \in Peripheral
      /\ discoveredDevicesArray \in Arrays
      /\ knownDevicesArray \in Arrays
  BY DEF MainStep, MainRemove, MainKnow, MainPersist, MainContains, MainConnect, MainCount,
         MainIndexOf, TypeOK, Thread
<1>2. ASSUME UNCHANGED stored PROVE StoredUUIDs' = StoredUUIDs
  BY <1>2 DEF StoredUUIDs
<1>3. CASE MainRemove
  <2>1. /\ discoveredDevicesArray' = RemoveAt(discoveredDevicesArray, index + 1)
        /\ pc["main"] = "remove" /\ pc'["main"] = "know" /\ peripheral'["main"] = p
        /\ UNCHANGED <<knownDevicesArray, stored>>
    BY <1>3 DEF MainRemove, RemoveObjectAtIndex, Goto, TypeOK, Thread
  <2>2. /\ p \in Range(discoveredDevicesArray)
        /\ Range(discoveredDevicesArray') = Range(discoveredDevicesArray) \ {p}
    <3>1. /\ index + 1 \in 1..Len(discoveredDevicesArray)
          /\ discoveredDevicesArray[index + 1] = p
          /\ p \in Range(discoveredDevicesArray)
      BY <1>1, <2>1, LenProperties DEF RaceFreeInv, MainInv, Arrays, Range
    <3>2. IsInjective(discoveredDevicesArray)
      BY DEF RaceFreeInv, ArraysInv, OneRowPerDevice
    <3> QED BY <1>1, <2>1, <3>1, <3>2, RemoveAtArray DEF Arrays
  <2>3. InClaim = {} /\ InClaim' = {p} /\ p \notin Range(knownDevicesArray)
    BY <2>1, <2>2 DEF InClaim, RaceFreeInv, ArraysInv, OneRowPerDevice
  <2> HIDE DEF p
  <2>4. /\ Range(discoveredDevicesArray') \cup InClaim' = Range(discoveredDevicesArray) \cup InClaim
        /\ Range(knownDevicesArray') \ InClaim' = Range(knownDevicesArray) \ InClaim
    BY <2>1, <2>2, <2>3
  <2> QED BY <1>2, <2>1, <2>4 DEF Registry!vars
<1>4. CASE MainKnow
  <2>1. /\ knownDevicesArray' = Append(knownDevicesArray, p)
        /\ pc["main"] = "know" /\ pc'["main"] = "persist" /\ peripheral'["main"] = p
        /\ UNCHANGED <<discoveredDevicesArray, stored>>
    BY <1>4 DEF MainKnow, AddObject, Goto, TypeOK, Thread
  <2>2. /\ p \notin Range(knownDevicesArray)
        /\ Range(knownDevicesArray') = Range(knownDevicesArray) \cup {p}
    BY <1>1, <2>1, CleanAppend DEF RaceFreeInv, MainInv
  <2>3. InClaim = {p} /\ InClaim' = {p}
    BY <2>1 DEF InClaim
  <2> HIDE DEF p
  <2>4. Range(knownDevicesArray') \ InClaim' = Range(knownDevicesArray) \ InClaim
    BY <2>2, <2>3
  <2> QED BY <1>2, <2>1, <2>3, <2>4 DEF Registry!vars
<1>5. CASE MainPersist
  <2>1. /\ WriteTransaction(p)
        /\ pc["main"] = "persist" /\ pc'["main"] = "contains"
        /\ UNCHANGED <<discoveredDevicesArray, knownDevicesArray>>
    BY <1>5 DEF MainPersist, Goto, TypeOK, Thread
  <2>2. InClaim = {p} /\ InClaim' = {}
    BY <2>1 DEF InClaim
  <2>3. /\ p \in Range(knownDevicesArray)
        /\ p \notin Range(discoveredDevicesArray)
    BY <2>1 DEF RaceFreeInv, MainInv, ArraysInv, OneRowPerDevice
  <2>4. StoredUUIDs' = StoredUUIDs \cup {p}
    BY <1>1, <2>1, StoredAfterCommit
  <2> HIDE DEF p
  <2>5. Registry!Claim(p)
    BY <2>1, <2>2, <2>3, <2>4 DEF Registry!Claim
  <2> QED BY <1>1, <2>5 DEF Registry!Next
<1>6. CASE MainContains \/ MainConnect \/ MainCount \/ MainIndexOf
  <2>1. UNCHANGED <<discoveredDevicesArray, knownDevicesArray, stored>>
    BY <1>6 DEF MainContains, MainConnect, MainCount, MainIndexOf, Select
  <2>2. InClaim = {} /\ InClaim' = {}
    BY <1>6 DEF MainContains, MainConnect, MainCount, MainIndexOf, Select, Goto, InClaim,
                TypeOK, Thread
  <2> QED BY <1>2, <2>1, <2>2 DEF Registry!vars
<1> QED BY <1>3, <1>4, <1>5, <1>6 DEF MainStep

LEMMA RegistryStep ==
  TypeOK /\ RaceFreeInv /\ [Next /\ ~raced']_vars => [Registry!Next]_(Registry!vars)
<1> SUFFICES ASSUME TypeOK, RaceFreeInv, [Next /\ ~raced']_vars
             PROVE  [Registry!Next]_(Registry!vars)
  OBVIOUS
<1> USE DEF registryVars, arrays, realmVars, threadVars
<1>1. CASE Relaunch
  <2>1. Range(<<>>) = {} /\ StoredUUIDs' = StoredUUIDs
    BY <1>1 DEF Range, Relaunch, StoredUUIDs
  <2>2. InClaim' = {}
    BY <1>1 DEF Relaunch, InClaim, Thread
  <2> QED BY <1>1, <2>1, <2>2 DEF Relaunch, Registry!Relaunch, Registry!Next
<1>2. ASSUME UNCHANGED <<discoveredDevicesArray, knownDevicesArray, stored>>, InClaim' = InClaim
      PROVE  [Registry!Next]_(Registry!vars)
  BY <1>2 DEF StoredUUIDs, Registry!vars
<1>3. CASE \/ RadioChanges \/ CentralManagerDidUpdateState \/ BeginScanning
           \/ PostNotification \/ UNCHANGED vars
  BY <1>2, <1>3 DEF RadioChanges, CentralManagerDidUpdateState, BeginScanning,
                    PostNotification, vars, InClaim
<1>4. ASSUME NEW p \in Peripheral, DidDiscoverPeripheral(p)
      PROVE  [Registry!Next]_(Registry!vars)
  BY <1>2, <1>4 DEF DidDiscoverPeripheral, Goto, InClaim, TypeOK, Thread
<1>5. CASE \/ \E i \in DOMAIN knownDevicesArray : SelectKnown(i - 1)
           \/ \E i \in DOMAIN discoveredDevicesArray : SelectDiscovered(i - 1)
  BY <1>2, <1>5 DEF SelectKnown, SelectDiscovered, Goto, InClaim, TypeOK, Thread
<1> QED BY <1>1, <1>3, <1>4, <1>5, RegistryFind, RegistryClaim DEF Next

LEMMA RegistryOfSteps == Init /\ [][Next /\ ~raced']_vars => ImplementsRegistry
<1>1. [Next /\ ~raced']_vars => [Next]_vars
  OBVIOUS
<1> QED
  BY <1>1, RegistryInit, RegistryStep, TypeInit, TypeStep, RaceFreeInit, RaceFreeStep, PTL
  DEF ImplementsRegistry, Registry!Spec

(***************************************************************************)
(* Every execution without a race is, seen through the mapping, one of     *)
(* the abstract registry, for every set of peripherals.                    *)
(***************************************************************************)
THEOREM Refinement == RaceFreeSpec => ImplementsRegistry
BY RegistryOfSteps, PTL DEF RaceFreeSpec
-----------------------------------------------------------------------------
(***************************************************************************)
(* LKJBluetoothController implements the devices of the Control tab,       *)
(* absent a race.                                                          *)
(***************************************************************************)
LEMMA ControlTabInit == Init => ControlTab!Init
<1> SUFFICES ASSUME Init PROVE ControlTab!Init
  OBVIOUS
<1>1. Range(<<>>) = {} /\ DOMAIN <<>> = {}
  BY DEF Range
<1>2. SelectedPeripheral = Nil
  BY <1>1 DEF Init, SelectedPeripheral
<1> QED BY <1>1, <1>2 DEF Init, ControlTab!Init

(* The last message of a tap selects one of the connected devices.         *)
LEMMA TapSelects ==
  ASSUME TypeOK, RaceFreeInv, MainCount \/ MainIndexOf
  PROVE  /\ UNCHANGED connectedPeripherals
         /\ SelectedPeripheral' \in Range(connectedPeripherals)
<1> DEFINE p == peripheral["main"]
<1>1. connectedPeripherals \in Seq(Peripheral) /\ p \in Range(connectedPeripherals)
  BY DEF MainCount, MainIndexOf, TypeOK, Arrays, RaceFreeInv, MainInv
<1>2. /\ DOMAIN connectedPeripherals = 1..Len(connectedPeripherals)
      /\ Len(connectedPeripherals) \in Nat \ {0}
      /\ Contains(connectedPeripherals, p)
  <2>1. /\ DOMAIN connectedPeripherals = 1..Len(connectedPeripherals)
        /\ Len(connectedPeripherals) \in Nat
    BY <1>1, LenProperties
  <2>2. PICK i \in 1..Len(connectedPeripherals) : connectedPeripherals[i] = p
    BY <1>1, RangeOfArray
  <2> QED BY <2>1, <2>2 DEF Contains
<1>3. PICK i : Select(i) /\ i + 1 \in DOMAIN connectedPeripherals
  <2>1. CASE MainCount
    BY <1>2, <2>1 DEF MainCount, LastIndex
  <2>2. CASE MainIndexOf
    BY <1>1, <1>2, <2>2, IndexOfObjectFound DEF MainIndexOf
  <2> QED BY <2>1, <2>2
<1>4. UNCHANGED connectedPeripherals /\ selectedBluetoothDeviceIndex' = i
  BY <1>3 DEF Select, arrays
<1>5. SelectedPeripheral' = connectedPeripherals[i + 1]
  BY <1>3, <1>4 DEF SelectedPeripheral
<1> QED BY <1>3, <1>4, <1>5 DEF Range

(* Until then the index stays.                                             *)
LEMMA IndexKept ==
  ASSUME [Next]_vars, ~Relaunch, ~MainCount, ~MainIndexOf
  PROVE  UNCHANGED selectedBluetoothDeviceIndex
<1>1. CASE BleStep \/ MainStep
  BY <1>1 DEF BleStep, BleConnect, BleKnow, BleList, Announce, MainStep, MainRemove, MainKnow,
              MainPersist, MainContains, MainConnect, registryVars
<1>2. CASE RadioChanges \/ CentralManagerDidUpdateState \/ BeginScanning \/ UNCHANGED vars
  BY <1>2 DEF RadioChanges, CentralManagerDidUpdateState, BeginScanning, vars, registryVars
<1>3. CASE \/ PostNotification
           \/ \E p \in Peripheral : DidDiscoverPeripheral(p)
           \/ \E i \in DOMAIN knownDevicesArray : SelectKnown(i - 1)
           \/ \E i \in DOMAIN discoveredDevicesArray : SelectDiscovered(i - 1)
  BY <1>3 DEF PostNotification, DidDiscoverPeripheral, SelectKnown, SelectDiscovered,
              registryVars
<1> QED BY <1>1, <1>2, <1>3 DEF Next

LEMMA ControlTabStep ==
  TypeOK /\ RaceFreeInv /\ [Next /\ ~raced']_vars => [ControlTab!Next]_(ControlTab!vars)
<1> SUFFICES ASSUME TypeOK, RaceFreeInv, [Next /\ ~raced']_vars
             PROVE  [ControlTab!Next]_(ControlTab!vars)
  OBVIOUS
<1>a. connectedPeripherals \in Arrays
  BY DEF TypeOK
<1> USE DEF ControlTab!deviceVars, ControlTab!viewVars, ControlTab!tapVars
<1>1. CASE Relaunch
  <2>1. Range(<<>>) = {} /\ DOMAIN <<>> = {}
    BY DEF Range
  <2>2. connectedPeripherals' = <<>> /\ SelectedPeripheral' = Nil
    BY <1>1, <2>1 DEF Relaunch, SelectedPeripheral
  <2>3. ControlTab!Relaunch
    BY <2>1, <2>2 DEF ControlTab!Relaunch
  <2> QED BY <2>3 DEF ControlTab!Next
<1>2. CASE MainCount \/ MainIndexOf
  <2>1. PICK p \in Range(connectedPeripherals) :
          SelectedPeripheral' = p /\ UNCHANGED connectedPeripherals
    BY <1>2, TapSelects
  <2>2. p \in Peripheral
    BY <1>a, RangeOfArray DEF Arrays
  <2>3. ControlTab!SelectPeripheral(p)
    BY <2>1, <2>2 DEF ControlTab!SelectPeripheral, ControlTab!Locked
  <2>4. ControlTab!Next
    BY <2>2, <2>3 DEF ControlTab!Next, ControlTab!User
  <2> QED BY <2>4
<1>3. CASE ~Relaunch /\ ~MainCount /\ ~MainIndexOf
  <2>1. SelectedPeripheral' = SelectedPeripheral
    <3>1. [Next]_vars
      OBVIOUS
    <3>2. UNCHANGED selectedBluetoothDeviceIndex
      BY <1>3, <3>1, IndexKept
    <3> QED BY <3>2, SelectionUnmoved
  <2>2. CASE UNCHANGED connectedPeripherals
    BY <2>1, <2>2 DEF ControlTab!vars
  <2>3. ASSUME NEW p \in Peripheral, connectedPeripherals' = Append(connectedPeripherals, p)
        PROVE  ControlTab!Next
    <3>1. Range(connectedPeripherals') = Range(connectedPeripherals) \cup {p}
      BY <1>a, <2>3, CleanAppend
    <3>2. ControlTab!KnownPeripheralFound(p)
      BY <2>1, <3>1 DEF ControlTab!KnownPeripheralFound
    <3> QED BY <3>2 DEF ControlTab!Next
  <2> QED BY <1>3, <2>2, <2>3, ConnectedGrows
<1> QED BY <1>1, <1>2, <1>3

LEMMA DevicesOfSteps == Init /\ [][Next /\ ~raced']_vars => ImplementsControlDevices
<1>1. [Next /\ ~raced']_vars => [Next]_vars
  OBVIOUS
<1> QED
  BY <1>1, ControlTabInit, ControlTabStep, TypeInit, TypeStep, RaceFreeInit, RaceFreeStep, PTL
  DEF ImplementsControlDevices, ControlTab!Spec

(***************************************************************************)
(* Every execution without a race is, seen as the set of connected devices *)
(* and the selected one, an execution of LKJLockViewController with its    *)
(* own tab away: what is proved there of selections and devices found      *)
(* rests on this controller.                                               *)
(***************************************************************************)
THEOREM DevicesRefinement == RaceFreeSpec => ImplementsControlDevices
BY DevicesOfSteps, PTL DEF RaceFreeSpec
=============================================================================
