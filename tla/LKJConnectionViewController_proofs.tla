----------------- MODULE LKJConnectionViewController_proofs -----------------
(* Theorems about the Connect tab, for every set of peripherals.           *)
EXTENDS LKJConnectionViewController, LKJBluetoothController_proofs, FiniteSetTheorems

(***************************************************************************)
(* Counting what waits in a queue.                                         *)
(***************************************************************************)
LEMMA CountType ==
  ASSUME NEW S, NEW q \in Seq(S), NEW s
  PROVE  /\ IsFiniteSet({i \in DOMAIN q : q[i] = s})
         /\ Count(q, s) \in Nat
<1>1. DOMAIN q = 1..Len(q) /\ Len(q) \in Nat
  BY LenProperties
<1>2. IsFiniteSet(1..Len(q))
  BY <1>1, FS_Interval
<1>3. IsFiniteSet({i \in DOMAIN q : q[i] = s})
  BY <1>1, <1>2, FS_Subset
<1> QED BY <1>3, FS_CardinalityType DEF Count

LEMMA CountAppend ==
  ASSUME NEW S, NEW q \in Seq(S), NEW t \in S, NEW s
  PROVE  Count(Append(q, t), s) = Count(q, s) + (IF t = s THEN 1 ELSE 0)
<1> DEFINE a == Append(q, t)
           P == {i \in DOMAIN q : q[i] = s}
           A == {i \in DOMAIN a : a[i] = s}
<1>1. /\ DOMAIN q = 1..Len(q) /\ Len(q) \in Nat
      /\ DOMAIN a = 1..(Len(q) + 1)
      /\ \A i \in 1..Len(q) : a[i] = q[i]
      /\ a[Len(q) + 1] = t
  BY LenProperties, AppendProperties
<1>2. IsFiniteSet(P) /\ Count(q, s) \in Nat
  BY CountType
<1>3. Len(q) + 1 \notin P
  BY <1>1
<1>4. t = s => A = P \cup {Len(q) + 1}
  BY <1>1
<1>5. t # s => A = P
  BY <1>1
<1>6. Count(a, s) = Cardinality(A) /\ Count(q, s) = Cardinality(P)
  BY DEF Count
<1> HIDE DEF A, P
<1>7. t = s => Cardinality(A) = Cardinality(P) + 1
  BY <1>2, <1>3, <1>4, FS_AddElement
<1> QED BY <1>2, <1>5, <1>6, <1>7

LEMMA CountTail ==
  ASSUME NEW S, NEW q \in Seq(S), q # <<>>, NEW s
  PROVE  Count(Tail(q), s) = Count(q, s) - (IF Head(q) = s THEN 1 ELSE 0)
<1> DEFINE r == Tail(q)
           P == {i \in DOMAIN q : q[i] = s}
           R == {i \in DOMAIN r : r[i] = s}
<1>1. /\ DOMAIN q = 1..Len(q) /\ Len(q) \in Nat \ {0} /\ Head(q) = q[1]
      /\ DOMAIN r = 1..(Len(q) - 1)
      /\ \A i \in 1..(Len(q) - 1) : r[i] = q[i + 1]
  BY LenProperties, HeadTailProperties, EmptySeq
<1>2. IsFiniteSet(P) /\ Count(q, s) \in Nat
  BY CountType
<1>3. 1 \in P <=> Head(q) = s
  BY <1>1
<1>4. ExistsBijection(P \ {1}, R)
  <2> DEFINE f == [i \in P \ {1} |-> i - 1]
  <2>1. f \in [P \ {1} -> R]
    BY <1>1
  <2>2. \A i, j \in P \ {1} : f[i] = f[j] => i = j
    BY <1>1
  <2>3. \A j \in R : j + 1 \in P \ {1} /\ f[j + 1] = j
    BY <1>1
  <2>4. f \in Bijection(P \ {1}, R)
    BY <2>1, <2>2, <2>3 DEF Bijection, Injection, Surjection, IsInjective
  <2> QED BY <2>4 DEF ExistsBijection
<1>5. Count(r, s) = Cardinality(R) /\ Count(q, s) = Cardinality(P)
  BY DEF Count
<1> HIDE DEF P, R
<1>6. /\ IsFiniteSet(P \ {1})
      /\ Cardinality(P \ {1}) = IF 1 \in P THEN Cardinality(P) - 1 ELSE Cardinality(P)
  BY <1>2, FS_RemoveElement
<1>7. Cardinality(R) = Cardinality(P \ {1})
  BY <1>4, <1>6, FS_Bijection
<1> QED BY <1>2, <1>3, <1>5, <1>6, <1>7
-----------------------------------------------------------------------------
(***************************************************************************)
(* Each step of the tab is a step of the controller or leaves it alone.    *)
(***************************************************************************)
LEMMA ControllerUnderneath == [ConnectNext]_connectVars => [Next]_vars
<1> SUFFICES ASSUME [ConnectNext]_connectVars PROVE [Next]_vars
  OBVIOUS
<1>1. CASE \E s \in Section : \E row \in 1..(numberOfRows[s] - 1) : DidSelectRow(s, row)
  <2>a. PICK s \in Section : \E row \in 1..(numberOfRows[s] - 1) : DidSelectRow(s, row)
    BY <1>1
  <2>1. PICK row \in 1..(numberOfRows[s] - 1) : DidSelectRow(s, row)
    BY <2>a
  <2>2. IndexOfRow(row) + 1 = row /\ IndexOfRow(row) = row - 1
    BY DEF IndexOfRow
  <2>3. CASE s = MyDevices
    BY <2>1, <2>2, <2>3 DEF DidSelectRow, SelectKnown, Next
  <2>4. CASE s # MyDevices
    BY <2>1, <2>2, <2>4 DEF DidSelectRow, SelectDiscovered, Next
  <2> QED BY <2>3, <2>4
<1>2. CASE ConnectRelaunch \/ InsertRowRaises \/ \E s \in Section : DidSelectHeader(s)
  BY <1>2 DEF ConnectRelaunch, InsertRowRaises, DidSelectHeader, Next
<1>3. CASE ControllerStep
  BY <1>3 DEF ControllerStep, Next
<1>4. CASE ViewDidLoad
  BY <1>4 DEF ViewDidLoad, Next
<1>5. CASE ViewWillAppear \/ ViewDidAppear \/ ReloadData \/ ViewWillDisappear \/ InsertRow
  BY <1>5 DEF ViewWillAppear, ViewDidAppear, ReloadData, ViewWillDisappear, InsertRow
<1>6. CASE NewBluetoothDevice
  BY <1>6 DEF NewBluetoothDevice, Next
<1>7. CASE UNCHANGED connectVars
  BY <1>7 DEF connectVars
<1> QED BY <1>1, <1>2, <1>3, <1>4, <1>5, <1>6, <1>7 DEF ConnectNext, Tap

(* The arrays of the two sections. *)
LEMMA DevicesType ==
  ASSUME TypeOK, NEW s \in Section
  PROVE  /\ Devices(s) \in Arrays
         /\ NumberOfDevicesInSection(s) \in Nat
         /\ DOMAIN Devices(s) = 1..NumberOfDevicesInSection(s)
         /\ \A i \in DOMAIN Devices(s) : Devices(s)[i] \in Peripheral
<1>1. Devices(s) \in Arrays
  BY DEF Devices, TypeOK
<1> QED BY <1>1, LenProperties, ElementOfSeq DEF Arrays, NumberOfDevicesInSection

(* What a cell says of a device, whenever the main thread can make one.    *)
LEMMA LabelOfNewCell ==
  ASSUME TypeOK, RaceFreeInv, pc["main"] = "idle",
         NEW s \in Section, NEW i \in DOMAIN Devices(s)
  PROVE  /\ Cell(Devices(s)[i]) \in [peripheral : Peripheral, connected : BOOLEAN]
         /\ Cell(Devices(s)[i]).peripheral = Devices(s)[i]
         /\ Cell(Devices(s)[i]).connected <=> s = MyDevices
<1> DEFINE p == Devices(s)[i]
<1>1. p \in Peripheral
  BY DevicesType
<1>2. IsConnectedToPeripheral(p) <=> p \in Range(connectedPeripherals)
  BY RangeOfArray, LenProperties DEF IsConnectedToPeripheral, Contains, TypeOK, Arrays
<1>3. p \in Range(Devices(s))
  BY DEF Range
<1>4. CASE s = MyDevices
  <2>1. p \in Range(connectedPeripherals)
    BY <1>3, <1>4 DEF Devices, RaceFreeInv, ArraysInv, NotYetConnected
  <2> QED BY <1>1, <1>2, <1>4, <2>1 DEF Cell
<1>5. CASE s # MyDevices
  <2>1. p \in Range(discoveredDevicesArray) /\ p \notin Range(knownDevicesArray)
    BY <1>3, <1>5 DEF Devices, RaceFreeInv, ArraysInv, OneRowPerDevice
  <2>2. p \notin NotYetKnown
    BY <2>1 DEF RaceFreeInv, ArraysInv, BleInv, NotYetKnown, AlreadySeen
  <2>3. p \notin Range(connectedPeripherals)
    BY <2>1, <2>2 DEF RaceFreeInv, ArraysInv
  <2>4. IsConnectedToPeripheral(p) \in BOOLEAN
    BY Zenon DEF IsConnectedToPeripheral, Contains
  <2> QED BY <1>1, <1>2, <1>5, <2>3, <2>4 DEF Cell
<1> QED BY <1>4, <1>5

(* A step of the controller under a table that is counting or on screen.   *)
LEMMA ControllerGrows ==
  ASSUME TypeOK, ControllerStep, ~raced', pc["main"] = "idle", NEW s \in Section
  PROVE  /\ pc'["main"] = "idle"
         /\ NumberOfDevicesInSection(s)' - Count(notificationQueue', s)
              = NumberOfDevicesInSection(s) - Count(notificationQueue, s)
         /\ NumberOfDevicesInSection(s)' >= NumberOfDevicesInSection(s)
         /\ \A i \in DOMAIN Devices(s) : Devices(s)'[i] = Devices(s)[i]
<1> USE DEF Section, MyDevices, ConnectDevice
<1>1. /\ notificationQueue \in Seq(0..1)
      /\ Count(notificationQueue, s) \in Nat
      /\ NumberOfDevicesInSection(s) \in Nat
      /\ peripheral["ble"] \in Peripheral \cup {Nil}
      /\ pc \in [Thread -> Labels]
      /\ pc["ble"] # "idle" => peripheral["ble"] \in Peripheral
  BY CountType, DevicesType DEF TypeOK, Thread
<1> DEFINE Grows(t) == /\ Devices(t)' = Append(Devices(t), peripheral["ble"])
                       /\ notificationQueue' = Append(notificationQueue, t)
                       /\ \A u \in Section \ {t} : Devices(u)' = Devices(u)
<1>2. ASSUME NEW t \in Section, Grows(t), peripheral["ble"] \in Peripheral
      PROVE  /\ NumberOfDevicesInSection(s)' - Count(notificationQueue', s)
                  = NumberOfDevicesInSection(s) - Count(notificationQueue, s)
             /\ NumberOfDevicesInSection(s)' >= NumberOfDevicesInSection(s)
             /\ \A i \in DOMAIN Devices(s) : Devices(s)'[i] = Devices(s)[i]
  <2>1. Count(notificationQueue', s) = Count(notificationQueue, s) + (IF t = s THEN 1 ELSE 0)
    BY <1>1, <1>2, CountAppend
  <2>2. CASE t = s
    <3>1. /\ Len(Append(Devices(s), peripheral["ble"])) = Len(Devices(s)) + 1
          /\ \A i \in DOMAIN Devices(s) : Append(Devices(s), peripheral["ble"])[i] = Devices(s)[i]
      BY <1>2, DevicesType, CleanAppend
    <3>2. Devices(s)' = Append(Devices(s), peripheral["ble"])
      BY <1>2, <2>2 DEF Devices
    <3>3. NumberOfDevicesInSection(s)' = NumberOfDevicesInSection(s) + 1
      BY <3>1, <3>2 DEF NumberOfDevicesInSection
    <3>4. Count(notificationQueue', s) = Count(notificationQueue, s) + 1
      BY <2>1, <2>2
    <3>5. \A i \in DOMAIN Devices(s) : Devices(s)'[i] = Devices(s)[i]
      BY <3>1, <3>2
    <3> QED BY <1>1, <3>3, <3>4, <3>5
  <2>3. CASE t # s
    BY <1>1, <1>2, <2>1, <2>3 DEF NumberOfDevicesInSection
  <2> QED BY <2>2, <2>3
<1>3. CASE BleKnow
  <2>1. Grows(MyDevices)
    BY <1>3 DEF BleKnow, AddObject, Announce, Devices
  <2>2. pc'["main"] = "idle" /\ pc["ble"] # "idle"
    BY <1>1, <1>3 DEF BleKnow, Announce, Goto, Thread
  <2> QED BY <1>1, <1>2, <2>1, <2>2
<1>4. CASE BleList
  <2>1. Grows(ConnectDevice)
    BY <1>4 DEF BleList, AddObject, Announce, Devices
  <2>2. pc'["main"] = "idle" /\ pc["ble"] # "idle"
    BY <1>1, <1>4 DEF BleList, Announce, Goto, Thread
  <2> QED BY <1>1, <1>2, <2>1, <2>2
<1>5. CASE ~BleKnow /\ ~BleList
  <2>1. /\ UNCHANGED <<discoveredDevicesArray, knownDevicesArray, notificationQueue>>
        /\ pc'["main"] = "idle"
    BY <1>1, <1>5 DEF ControllerStep, RadioChanges, CentralManagerDidUpdateState,
       DidDiscoverPeripheral, BleStep, BleConnect, MainStep, MainRemove, MainKnow, MainPersist,
       MainContains, MainConnect, MainCount, MainIndexOf, Goto, Thread, registryVars, arrays,
       threadVars
  <2>2. UNCHANGED Devices(s) /\ UNCHANGED NumberOfDevicesInSection(s)
    BY <2>1 DEF Devices, NumberOfDevicesInSection
  <2> QED BY <1>1, <2>1, <2>2
<1> QED BY <1>3, <1>4, <1>5
-----------------------------------------------------------------------------
(***************************************************************************)
(* Types and the inductive invariant of the table, action by action.       *)
(***************************************************************************)
LEMMA ConnectFlags ==
  ASSUME ConnectTypeOK, [ConnectNext]_connectVars
  PROVE  observing' \in BOOLEAN /\ noDevicesLabelHidden' \in BOOLEAN /\ recounted' \in BOOLEAN
<1>1. observing \in BOOLEAN /\ noDevicesLabelHidden \in BOOLEAN /\ recounted \in BOOLEAN
  BY DEF ConnectTypeOK
<1>2. CASE ConnectRelaunch \/ InsertRowRaises \/ \E s \in Section : DidSelectHeader(s)
  <2>1. ConnectRelaunch
    BY <1>2 DEF InsertRowRaises, DidSelectHeader
  <2> QED BY <2>1, Zenon DEF ConnectRelaunch
<1>3. CASE ControllerStep \/ NewBluetoothDevice \/ UNCHANGED connectVars
           \/ \E s \in Section : \E row \in 1..(numberOfRows[s] - 1) : DidSelectRow(s, row)
  BY <1>1, <1>3 DEF ControllerStep, NewBluetoothDevice, DidSelectRow, connectVars, viewVars
<1>4. CASE ViewDidLoad
  <2>1. noDevicesLabelHidden' \in BOOLEAN
    BY <1>4, Zenon DEF ViewDidLoad
  <2> QED BY <1>1, <1>4, <2>1 DEF ViewDidLoad
<1>5. CASE ViewWillAppear
  <2>1. noDevicesLabelHidden' \in BOOLEAN /\ observing' \in BOOLEAN
    BY <1>5, Zenon DEF ViewWillAppear, RegisterForNotifications, AskNumberOfRows
  <2> QED BY <1>1, <1>5, <2>1 DEF ViewWillAppear
<1>6. CASE ViewDidAppear
  <2>1. recounted' \in BOOLEAN
    BY <1>6, Zenon DEF ViewDidAppear
  <2> QED BY <1>1, <1>6, <2>1 DEF ViewDidAppear
<1>7. CASE ReloadData
  <2>1. recounted' \in BOOLEAN /\ noDevicesLabelHidden' \in BOOLEAN
    BY <1>7, Zenon DEF ReloadData, AskNumberOfRows
  <2> QED BY <1>1, <1>7, <2>1 DEF ReloadData
<1>8. CASE ViewWillDisappear
  <2>1. observing' \in BOOLEAN
    BY <1>8, Zenon DEF ViewWillDisappear
  <2> QED BY <1>1, <1>8, <2>1 DEF ViewWillDisappear
<1>9. CASE InsertRow
  <2>1. noDevicesLabelHidden' \in BOOLEAN
    BY <1>9, Zenon DEF InsertRow, AskNumberOfRows
  <2> QED BY <1>1, <1>9, <2>1 DEF InsertRow
<1> QED BY <1>2, <1>3, <1>4, <1>5, <1>6, <1>7, <1>8, <1>9 DEF ConnectNext, Tap

LEMMA ConnectInitOK == ConnectInit => ConnectTypeOK /\ ConnectInv
<1> SUFFICES ASSUME ConnectInit PROVE ConnectTypeOK /\ ConnectInv
  OBVIOUS
<1>1. observing \in BOOLEAN /\ noDevicesLabelHidden \in BOOLEAN /\ recounted \in BOOLEAN
  BY Zenon DEF ConnectInit, ViewInit
<1>2. <<>> \in Seq(Section) /\ <<>> \in Seq([peripheral : Peripheral, connected : BOOLEAN])
  BY EmptySeq
<1> QED BY <1>1, <1>2 DEF ConnectInit, Init, ViewInit, ConnectTypeOK, ConnectInv,
                          LabelMatchesSection, Thread

(* What each action preserves. *)
ConnectOK == ConnectTypeOK /\ ConnectInv

LEMMA ConnectRelaunchOK ==
  ASSUME ConnectTypeOK, ConnectRelaunch, [ConnectNext]_connectVars
  PROVE  ConnectOK'
<1>1. observing' \in BOOLEAN /\ noDevicesLabelHidden' \in BOOLEAN /\ recounted' \in BOOLEAN
  BY ConnectFlags
<1>2. <<>> \in Seq(Section) /\ <<>> \in Seq([peripheral : Peripheral, connected : BOOLEAN])
  BY EmptySeq
<1> QED BY <1>1, <1>2 DEF ConnectRelaunch, Relaunch, ConnectOK, ConnectTypeOK, ConnectInv,
                          LabelMatchesSection, Thread

LEMMA ControllerStepOK ==
  ASSUME TypeOK, ConnectOK, ControllerStep, ~raced'
  PROVE  ConnectOK'
<1>1. UNCHANGED viewVars /\ ConnectTypeOK'
  BY DEF ControllerStep, ConnectOK, ConnectTypeOK, viewVars
<1>2. CASE pc["main"] # "idle"
  BY <1>1, <1>2 DEF ConnectOK, ConnectInv, LabelMatchesSection, viewVars
<1>3. CASE pc["main"] = "idle"
  <2>1. pc'["main"] = "idle"
    BY <1>3, ControllerGrows DEF Section
  <2>2. ASSUME NEW s \in Section PROVE NothingMissed(s) => NothingMissed(s)'
    <3>1. /\ NumberOfDevicesInSection(s)' - Count(notificationQueue', s)
               = NumberOfDevicesInSection(s) - Count(notificationQueue, s)
          /\ NumberOfDevicesInSection(s)' >= NumberOfDevicesInSection(s)
      BY <1>3, ControllerGrows
    <3>2. /\ Count(notificationQueue, s) \in Nat /\ Count(mainQueue, s) \in Nat
          /\ NumberOfDevicesInSection(s) \in Nat
      BY CountType, DevicesType DEF TypeOK, ConnectOK, ConnectTypeOK
    <3>3. Count(notificationQueue', s) \in Nat /\ NumberOfDevicesInSection(s)' \in Nat
      <4>1. TypeOK'
        BY TypeStep DEF ControllerStep, Next
      <4>2. notificationQueue' \in Seq(0..1)
        BY <4>1 DEF TypeOK
      <4>3. knownDevicesArray' \in Seq(Peripheral) /\ discoveredDevicesArray' \in Seq(Peripheral)
        BY <4>1 DEF TypeOK, Arrays
      <4>4. NumberOfDevicesInSection(s)' \in Nat
        BY <4>3, LenProperties DEF Devices, NumberOfDevicesInSection
      <4> QED BY <4>2, <4>4, CountType
    <3>4. numberOfRows' = numberOfRows /\ DeviceRows(s) \in Nat /\ DeviceRows(s)' = DeviceRows(s)
      BY <1>1 DEF ConnectOK, ConnectTypeOK, ConnectInv, DeviceRows, viewVars
    <3>5. /\ Announced(s) = Count(mainQueue, s) + Count(notificationQueue, s)
          /\ Announced(s)' = Count(mainQueue, s) + Count(notificationQueue', s)
          /\ recounted' = recounted
      BY <1>1 DEF Announced, viewVars
    <3> QED BY <3>1, <3>2, <3>3, <3>4, <3>5 DEF NothingMissed
  <2>3. ASSUME NEW s \in Section, CellsAreRows(s), NothingMissed(s) PROVE CellsAreRows(s)'
    <3>1. shown' = shown /\ DeviceRows(s)' = DeviceRows(s) /\ DeviceRows(s) \in Nat
      BY <1>1 DEF ConnectOK, ConnectTypeOK, ConnectInv, DeviceRows, viewVars
    <3>2. \A row \in DOMAIN shown[s] : row \in DOMAIN Devices(s)
      BY <2>3, <3>1, LenProperties, DevicesType
      DEF ConnectOK, ConnectTypeOK, CellsAreRows, NothingMissed
    <3> QED BY <1>3, <2>3, <3>1, <3>2, ControllerGrows DEF CellsAreRows
  <2>4. MyDevices \in Section
    BY DEF Section
  <2>5. ConnectInv'
    BY <1>1, <2>1, <2>2, <2>3, <2>4 DEF ConnectOK, ConnectInv, LabelMatchesSection, viewVars
  <2> QED BY <1>1, <2>5 DEF ConnectOK
<1> QED BY <1>2, <1>3

(* A count of a section misses nothing. *)
LEMMA CountMissesNothing ==
  ASSUME TypeOK, ConnectTypeOK, NEW s \in Section, CountSection(s), UNCHANGED <<vars, mainQueue>>,
         recounted' \in BOOLEAN, ~recounted' => Announced(s) = 0
  PROVE  /\ NothingMissed(s)'
         /\ DeviceRows(s)' = NumberOfDevicesInSection(s)
         /\ numberOfRows' \in [Section -> Nat]
         /\ numberOfRows'[s] # 1
         /\ \A t \in Section \ {s} : numberOfRows'[t] = numberOfRows[t]
<1>1. NumberOfDevicesInSection(s) \in Nat /\ numberOfRows \in [Section -> Nat]
  BY DevicesType DEF ConnectTypeOK
<1>2. /\ numberOfRows' \in [Section -> Nat]
      /\ numberOfRows'[s] = RowsFor(NumberOfDevicesInSection(s))
      /\ \A t \in Section \ {s} : numberOfRows'[t] = numberOfRows[t]
  BY <1>1 DEF CountSection, RowsFor
<1>3. DeviceRows(s)' = NumberOfDevicesInSection(s) /\ numberOfRows'[s] # 1
  BY <1>1, <1>2 DEF DeviceRows, RowsFor
<1>4. NumberOfDevicesInSection(s)' = NumberOfDevicesInSection(s) /\ Announced(s)' = Announced(s)
  BY DEF NumberOfDevicesInSection, Devices, Announced, vars, registryVars, arrays
<1>5. Announced(s) \in Nat
  <2>1. Count(mainQueue, s) \in Nat /\ Count(notificationQueue, s) \in Nat
    BY CountType DEF TypeOK, ConnectTypeOK
  <2> QED BY <2>1 DEF Announced
<1>6. NothingMissed(s)'
  BY <1>1, <1>3, <1>4, <1>5 DEF NothingMissed
<1> QED BY <1>2, <1>3, <1>6

LEMMA LifeCycleOK ==
  ASSUME TypeOK, ConnectOK, [ConnectNext]_connectVars,
         ViewDidLoad \/ ViewWillAppear \/ ViewDidAppear \/ ViewWillDisappear
  PROVE  ConnectOK'
<1> USE DEF ConnectOK
<1>1. observing' \in BOOLEAN /\ noDevicesLabelHidden' \in BOOLEAN /\ recounted' \in BOOLEAN
  BY ConnectFlags
<1>2. CASE ViewDidLoad
  <2>1. pc'["main"] = "idle"
    BY <1>2 DEF ViewDidLoad, MainThreadFree, BeginScanning, vars, threadVars
  <2>2. /\ view' = "hidden" /\ ~observing'
        /\ numberOfRows' \in [Section -> Nat] /\ \A s \in Section : numberOfRows'[s] # 1
        /\ mainQueue' \in Seq(Section)
        /\ shown' \in [Section -> Seq([peripheral : Peripheral, connected : BOOLEAN])]
    <3>1. /\ view = "unloaded" /\ view' = "hidden"
          /\ numberOfRows' = [s \in Section |-> 0]
          /\ mainQueue' = mainQueue /\ shown' = shown
      BY <1>2 DEF ViewDidLoad
    <3>2. ~observing
      BY <3>1 DEF ConnectInv
    <3>3. ~observing'
      BY <1>2, <3>2, Zenon DEF ViewDidLoad
    <3>4. numberOfRows' \in [Section -> Nat] /\ \A s \in Section : numberOfRows'[s] # 1
      BY <3>1
    <3>5. /\ mainQueue' \in Seq(Section)
          /\ shown' \in [Section -> Seq([peripheral : Peripheral, connected : BOOLEAN])]
      BY <3>1 DEF ConnectTypeOK
    <3> QED BY <3>1, <3>3, <3>4, <3>5
  <2> QED BY <1>1, <2>1, <2>2 DEF ConnectTypeOK, ConnectInv, LabelMatchesSection
<1>3. CASE ViewWillAppear
  <2>1. pc' = pc
    BY <1>3 DEF ViewWillAppear, vars, threadVars
  <2>2. observing' /\ (observing' <=> TRUE)
    BY <1>3, Zenon DEF ViewWillAppear, RegisterForNotifications
  <2> QED BY <1>1, <1>3, <2>1, <2>2
          DEF ViewWillAppear, MainThreadFree, ConnectTypeOK, ConnectInv, LabelMatchesSection
<1>4. CASE ViewDidAppear
  <2>1. MyDevices \in Section
    BY DEF Section
  <2>2. ~recounted' => Announced(MyDevices) = 0
    BY <1>4 DEF ViewDidAppear
  <2>3. /\ NothingMissed(MyDevices)'
        /\ numberOfRows' \in [Section -> Nat]
        /\ numberOfRows'[MyDevices] # 1
        /\ \A t \in Section \ {MyDevices} : numberOfRows'[t] = numberOfRows[t]
    BY <1>1, <1>4, <2>1, <2>2, CountMissesNothing DEF ViewDidAppear
  <2>4. pc' = pc
    BY <1>4 DEF ViewDidAppear, vars, threadVars
  <2> QED BY <1>1, <1>4, <2>3, <2>4
          DEF ViewDidAppear, MainThreadFree, ConnectTypeOK, ConnectInv, LabelMatchesSection
<1>5. CASE ViewWillDisappear
  <2>1. pc' = pc
    BY <1>5 DEF ViewWillDisappear, vars, threadVars
  <2>2. ~observing'
    BY <1>5, Zenon DEF ViewWillDisappear
  <2> QED BY <1>1, <1>5, <2>1, <2>2
          DEF ViewWillDisappear, ConnectTypeOK, ConnectInv, LabelMatchesSection
<1> QED BY <1>2, <1>3, <1>4, <1>5

(* The first n cells of a section. *)
AreCells(cells, s, n) ==
  /\ cells \in Seq([peripheral : Peripheral, connected : BOOLEAN])
  /\ Len(cells) = n
  /\ \A row \in 1..n : /\ cells[row].peripheral = Devices(s)[row]
                       /\ cells[row].connected <=> s = MyDevices

LEMMA CellsFromArray ==
  ASSUME TypeOK, RaceFreeInv, pc["main"] = "idle", NEW s \in Section,
         NEW rows \in Nat, NEW n \in Nat, n = (IF rows = 0 THEN 0 ELSE rows - 1),
         n <= NumberOfDevicesInSection(s)
  PROVE  AreCells(CellsFrom(Devices(s), rows), s, n)
<1> DEFINE C == [peripheral : Peripheral, connected : BOOLEAN]
           cells == CellsFrom(Devices(s), rows)
<1>1. 1..(rows - 1) = 1..n
  OBVIOUS
<1>2. cells = [row \in 1..n |-> Cell(Devices(s)[row])]
  BY <1>1 DEF CellsFrom
<1>3. \A row \in 1..n : row \in DOMAIN Devices(s)
  BY DevicesType
<1>4. \A row \in 1..n : /\ cells[row] \in C
                        /\ cells[row].peripheral = Devices(s)[row]
                        /\ cells[row].connected <=> s = MyDevices
  BY <1>2, <1>3, LabelOfNewCell
<1>5. cells \in [1..n -> C]
  BY <1>2, <1>4
<1> HIDE DEF C, cells
<1>6. cells \in Seq(C) /\ Len(cells) = n
  BY <1>5
<1> QED BY <1>4, <1>6 DEF C, cells, AreCells

LEMMA ReloadDataOK ==
  ASSUME TypeOK, RaceFreeInv, ConnectOK, ReloadData, [ConnectNext]_connectVars
  PROVE  ConnectOK'
<1> USE DEF ConnectOK
<1>1. observing' \in BOOLEAN /\ noDevicesLabelHidden' \in BOOLEAN /\ recounted' \in BOOLEAN
  BY ConnectFlags
<1>2. /\ view = "counting" /\ view' = "visible" /\ UNCHANGED <<vars, mainQueue>>
      /\ MyDevices \in Section /\ ConnectDevice \in Section /\ MyDevices # ConnectDevice
      /\ \A s \in Section \ {ConnectDevice} : s = MyDevices
  BY DEF ReloadData, Section, MyDevices, ConnectDevice
<1>3. /\ pc["main"] = "idle" /\ pc'["main"] = "idle"
      /\ observing' \in BOOLEAN /\ observing'
  <2>1. pc["main"] = "idle" /\ pc' = pc
    BY <1>2 DEF ConnectInv, vars, threadVars
  <2>2. observing
    BY <1>2 DEF ConnectInv
  <2>3. observing'
    BY <2>2, Zenon DEF ReloadData
  <2> QED BY <1>1, <2>1, <2>3
<1>4. /\ ~recounted' => Announced(ConnectDevice) = 0
      /\ ~recounted' => ~recounted
  BY Zenon DEF ReloadData
<1>5. /\ NothingMissed(ConnectDevice)'
      /\ DeviceRows(ConnectDevice)' = NumberOfDevicesInSection(ConnectDevice)
      /\ numberOfRows' \in [Section -> Nat]
      /\ numberOfRows'[ConnectDevice] # 1
      /\ \A t \in Section \ {ConnectDevice} : numberOfRows'[t] = numberOfRows[t]
  BY <1>1, <1>2, <1>4, CountMissesNothing DEF ReloadData
<1>6. NothingMissed(MyDevices)'
  <2>1. NothingMissed(MyDevices)
    BY <1>2 DEF ConnectInv
  <2>2. /\ DeviceRows(MyDevices)' = DeviceRows(MyDevices)
        /\ NumberOfDevicesInSection(MyDevices)' = NumberOfDevicesInSection(MyDevices)
        /\ Announced(MyDevices)' = Announced(MyDevices)
    BY <1>2, <1>5 DEF DeviceRows, NumberOfDevicesInSection, Devices, Announced, vars,
                      registryVars, arrays
  <2> QED BY <1>4, <2>1, <2>2 DEF NothingMissed
<1>7. ASSUME NEW s \in Section
      PROVE  /\ shown'[s] \in Seq([peripheral : Peripheral, connected : BOOLEAN])
             /\ Len(shown'[s]) = DeviceRows(s)'
             /\ \A row \in DOMAIN shown'[s] :
                  /\ shown'[s][row].peripheral = Devices(s)'[row]
                  /\ shown'[s][row].connected <=> s = MyDevices
  <2>1. NothingMissed(s)' /\ Devices(s)' = Devices(s)
    BY <1>2, <1>5, <1>6 DEF Section, Devices, vars, registryVars, arrays
  <2>2. shown'[s] = CellsFrom(Devices(s), numberOfRows'[s])
    BY DEF ReloadData
  <2>3. /\ DeviceRows(s)' = IF numberOfRows'[s] = 0 THEN 0 ELSE numberOfRows'[s] - 1
        /\ numberOfRows'[s] \in Nat /\ DeviceRows(s)' \in Nat
        /\ DeviceRows(s)' <= NumberOfDevicesInSection(s)
    BY <1>5, <2>1 DEF DeviceRows, NothingMissed, NumberOfDevicesInSection
  <2>4. /\ shown'[s] \in Seq([peripheral : Peripheral, connected : BOOLEAN])
        /\ Len(shown'[s]) = DeviceRows(s)'
        /\ \A row \in 1..DeviceRows(s)' :
             /\ shown'[s][row].peripheral = Devices(s)[row]
             /\ shown'[s][row].connected <=> s = MyDevices
    <3> DEFINE n == DeviceRows(s)'
               rows == numberOfRows'[s]
               cells == shown'[s]
    <3>1. /\ cells = CellsFrom(Devices(s), rows)
          /\ rows \in Nat /\ n \in Nat /\ n = (IF rows = 0 THEN 0 ELSE rows - 1)
          /\ n <= NumberOfDevicesInSection(s)
      BY <2>2, <2>3
    <3> HIDE DEF n, rows, cells
    <3>2. AreCells(cells, s, n)
      BY <1>3, <3>1, CellsFromArray
    <3> QED BY <3>2 DEF n, cells, AreCells
  <2>5. DOMAIN shown'[s] = 1..DeviceRows(s)'
    BY <2>4, LenProperties
  <2> QED BY <2>1, <2>4, <2>5
<1>8. shown' \in [Section -> Seq([peripheral : Peripheral, connected : BOOLEAN])]
  BY <1>7 DEF ReloadData
<1>9. noDevicesLabelHidden' <=> \E s \in Section : numberOfRows'[s] > 0
  BY Zenon DEF ReloadData, AskNumberOfRows
<1>10. \A s \in Section : NothingMissed(s)' /\ CellsAreRows(s)' /\ numberOfRows'[s] # 1
  BY <1>2, <1>5, <1>6, <1>7 DEF CellsAreRows, ConnectInv
<1>11. ConnectTypeOK'
  BY <1>1, <1>2, <1>5, <1>8 DEF ConnectTypeOK
<1>12. LabelMatchesSection'
  BY <1>7 DEF LabelMatchesSection
<1> QED BY <1>2, <1>3, <1>9, <1>10, <1>11, <1>12 DEF ConnectInv

LEMMA NewBluetoothDeviceOK ==
  ASSUME TypeOK, ConnectOK, NewBluetoothDevice
  PROVE  ConnectOK'
<1> USE DEF ConnectOK
<1>1. /\ notificationQueue \in Seq(0..1) /\ notificationQueue # <<>>
      /\ notificationQueue' = Tail(notificationQueue)
      /\ UNCHANGED <<view, observing, numberOfRows, shown, noDevicesLabelHidden, recounted>>
      /\ UNCHANGED <<arrays, threadVars>>
  BY DEF NewBluetoothDevice, PostNotification, TypeOK
<1>2. Head(notificationQueue) \in Section /\ 0..1 = Section
  BY <1>1, HeadTailProperties DEF Section, MyDevices, ConnectDevice
<1>3. mainQueue \in Seq(Section) /\ mainQueue' \in Seq(Section)
  BY <1>2, AppendProperties DEF NewBluetoothDevice, ConnectTypeOK
<1>4. ConnectTypeOK'
  BY <1>1, <1>3 DEF ConnectTypeOK
<1>5. ASSUME NEW s \in Section, observing PROVE Announced(s)' = Announced(s)
  <2>1. mainQueue' = Append(mainQueue, Head(notificationQueue))
    BY <1>5 DEF NewBluetoothDevice
  <2>2. /\ Count(mainQueue', s)
             = Count(mainQueue, s) + (IF Head(notificationQueue) = s THEN 1 ELSE 0)
        /\ Count(notificationQueue', s)
             = Count(notificationQueue, s) - (IF Head(notificationQueue) = s THEN 1 ELSE 0)
    BY <1>1, <1>2, <1>3, <2>1, CountAppend, CountTail
  <2>3. Count(mainQueue, s) \in Nat /\ Count(notificationQueue, s) \in Nat
    BY <1>1, <1>3, CountType
  <2> QED BY <2>2, <2>3 DEF Announced
<1>6. ASSUME NEW s \in Section, observing, NothingMissed(s) PROVE NothingMissed(s)'
  <2>1. /\ Announced(s)' = Announced(s) /\ DeviceRows(s)' = DeviceRows(s)
        /\ NumberOfDevicesInSection(s)' = NumberOfDevicesInSection(s)
    BY <1>1, <1>5, <1>6 DEF DeviceRows, NumberOfDevicesInSection, Devices, arrays
  <2> QED BY <1>1, <1>6, <2>1 DEF NothingMissed
<1>7. \A s \in Section : CellsAreRows(s) => CellsAreRows(s)'
  BY <1>1 DEF CellsAreRows, DeviceRows, Devices, arrays
<1>8. pc' = pc /\ MyDevices \in Section
  BY <1>1 DEF threadVars, Section
<1> QED BY <1>1, <1>4, <1>6, <1>7, <1>8 DEF ConnectInv, LabelMatchesSection

LEMMA InsertRowOK ==
  ASSUME TypeOK, RaceFreeInv, ConnectOK, InsertRow, [ConnectNext]_connectVars
  PROVE  ConnectOK'
<1> USE DEF ConnectOK
<1> DEFINE h == Head(mainQueue)
           C == [peripheral : Peripheral, connected : BOOLEAN]
<1>1. observing' \in BOOLEAN /\ noDevicesLabelHidden' \in BOOLEAN /\ recounted' \in BOOLEAN
  BY ConnectFlags
<1>2. /\ pc["main"] = "idle" /\ view \notin {"leaving", "counting"}
      /\ mainQueue \in Seq(Section) /\ mainQueue # <<>> /\ mainQueue' = Tail(mainQueue)
      /\ numberOfRows' = [numberOfRows EXCEPT ![h] = RowsAfterBlock(h)]
      /\ UNCHANGED <<vars, view, observing, recounted>>
  BY DEF InsertRow, MainThreadFree, ConnectTypeOK
<1>3. h \in Section /\ mainQueue' \in Seq(Section)
  BY <1>2, HeadTailProperties
<1>4. /\ numberOfRows' \in [Section -> Nat]
      /\ RowsAfterBlock(h) - 1 = DeviceRows(h) + 1
      /\ numberOfRows'[h] # 1
      /\ \A s \in Section : /\ DeviceRows(s) \in Nat
                            /\ DeviceRows(s)' = DeviceRows(s) + (IF h = s THEN 1 ELSE 0)
                            /\ h # s => numberOfRows'[s] = numberOfRows[s]
  <2>1. numberOfRows \in [Section -> Nat] /\ numberOfRows[h] # 1
    BY <1>3 DEF ConnectTypeOK, ConnectInv
  <2>2. RowsAfterBlock(h) \in Nat \ {0, 1} /\ RowsAfterBlock(h) - 1 = DeviceRows(h) + 1
    BY <1>3, <2>1 DEF RowsAfterBlock, DeviceRows
  <2>3. /\ numberOfRows' \in [Section -> Nat]
        /\ numberOfRows'[h] = RowsAfterBlock(h)
        /\ \A s \in Section : h # s => numberOfRows'[s] = numberOfRows[s]
    BY <1>2, <1>3, <2>1, <2>2
  <2>4. ASSUME NEW s \in Section
        PROVE  /\ DeviceRows(s) \in Nat
               /\ DeviceRows(s)' = DeviceRows(s) + (IF h = s THEN 1 ELSE 0)
    <3>1. DeviceRows(s) \in Nat
      BY <2>1 DEF DeviceRows
    <3>2. CASE h = s
      <4>1. DeviceRows(s)' = RowsAfterBlock(s) - 1 /\ RowsAfterBlock(s) - 1 = DeviceRows(s) + 1
        BY <2>2, <2>3, <3>2 DEF DeviceRows
      <4> QED BY <3>1, <3>2, <4>1
    <3>3. CASE h # s
      BY <2>3, <3>1, <3>3 DEF DeviceRows
    <3> QED BY <3>2, <3>3
  <2> QED BY <2>2, <2>3, <2>4
<1>5. \A s \in Section : /\ Devices(s)' = Devices(s)
                         /\ NumberOfDevicesInSection(s)' = NumberOfDevicesInSection(s)
  BY <1>2 DEF Devices, NumberOfDevicesInSection, vars, registryVars, arrays
<1>6. ASSUME InWindow
      PROVE  /\ RowsAfterBlock(h) - 1 <= NumberOfDevicesInSection(h)
             /\ shown' = [shown EXCEPT ![h] = Append(@, Cell(Devices(h)[DeviceRows(h) + 1]))]
             /\ DeviceRows(h) + 1 \in DOMAIN Devices(h)
             /\ Cell(Devices(h)[DeviceRows(h) + 1]) \in C
             /\ Cell(Devices(h)[DeviceRows(h) + 1]).peripheral = Devices(h)[DeviceRows(h) + 1]
             /\ Cell(Devices(h)[DeviceRows(h) + 1]).connected <=> h = MyDevices
  <2>1. NumberOfDevicesInSection(h) \in Nat /\ DOMAIN Devices(h) = 1..NumberOfDevicesInSection(h)
    BY <1>3, DevicesType
  <2>2. RowsAfterBlock(h) - 1 <= NumberOfDevicesInSection(h)
    BY <1>2, <1>4, <1>6, <2>1 DEF InsertRow, BlockRaises
  <2>3. shown' = [shown EXCEPT ![h] = Append(@, Cell(Devices(h)[DeviceRows(h) + 1]))]
    BY <1>4, <1>6 DEF InsertRow
  <2>4. DeviceRows(h) + 1 \in DOMAIN Devices(h)
    BY <1>3, <1>4, <2>1, <2>2
  <2> QED BY <1>2, <1>3, <2>2, <2>3, <2>4, LabelOfNewCell
<1>7. shown' \in [Section -> Seq(C)]
  <2>1. shown \in [Section -> Seq(C)]
    BY DEF ConnectTypeOK
  <2>2. CASE InWindow
    <3>1. Append(shown[h], Cell(Devices(h)[DeviceRows(h) + 1])) \in Seq(C)
      BY <1>3, <1>6, <2>1, <2>2, AppendProperties
    <3> QED BY <1>6, <2>1, <2>2, <3>1
  <2>3. CASE ~InWindow
    BY <2>1, <2>3 DEF InsertRow
  <2> QED BY <2>2, <2>3
<1>8. ConnectTypeOK'
  BY <1>1, <1>2, <1>3, <1>4, <1>7 DEF ConnectTypeOK
<1>9. ASSUME NEW s \in Section, view = "visible", NothingMissed(s) PROVE NothingMissed(s)'
  <2>1. /\ Count(mainQueue', s) = Count(mainQueue, s) - (IF h = s THEN 1 ELSE 0)
        /\ Count(mainQueue, s) \in Nat
    BY <1>2, CountTail, CountType
  <2>2. Count(notificationQueue, s) \in Nat /\ notificationQueue' = notificationQueue
    BY <1>2, CountType DEF TypeOK, vars, registryVars
  <2>3. Announced(s)' = Announced(s) - (IF h = s THEN 1 ELSE 0) /\ Announced(s) \in Nat
    BY <2>1, <2>2 DEF Announced
  <2>4. DeviceRows(s)' = DeviceRows(s) + (IF h = s THEN 1 ELSE 0) /\ DeviceRows(s) \in Nat
    BY <1>4
  <2>5. DeviceRows(s)' <= NumberOfDevicesInSection(s) /\ NumberOfDevicesInSection(s) \in Nat
    BY <1>4, <1>6, <1>9, <2>4, DevicesType DEF InWindow, NothingMissed
  <2> QED BY <1>2, <1>5, <1>9, <2>3, <2>4, <2>5 DEF NothingMissed
<1>10. ASSUME NEW s \in Section, view = "visible", CellsAreRows(s) PROVE CellsAreRows(s)'
  <2>1. InWindow /\ shown \in [Section -> Seq(C)]
    BY <1>10 DEF InWindow, ConnectTypeOK
  <2>2. CASE s = h
    <3>1. shown'[s] = Append(shown[s], Cell(Devices(s)[DeviceRows(s) + 1]))
      BY <1>6, <2>1, <2>2
    <3>2. /\ Len(shown'[s]) = Len(shown[s]) + 1
          /\ DOMAIN shown'[s] = 1..(Len(shown[s]) + 1)
          /\ DOMAIN shown[s] = 1..Len(shown[s])
          /\ \A row \in 1..Len(shown[s]) : shown'[s][row] = shown[s][row]
          /\ shown'[s][Len(shown[s]) + 1] = Cell(Devices(s)[DeviceRows(s) + 1])
      BY <1>6, <2>1, <2>2, <3>1, AppendProperties, LenProperties
    <3>3. /\ Len(shown[s]) = DeviceRows(s) /\ DeviceRows(s) \in Nat
          /\ \A row \in 1..Len(shown[s]) : shown[s][row].peripheral = Devices(s)[row]
          /\ DeviceRows(s)' = DeviceRows(s) + 1
          /\ Devices(s)' = Devices(s)
      BY <1>4, <1>5, <1>10, <2>2, <3>2 DEF CellsAreRows
    <3>4. shown'[s][Len(shown[s]) + 1].peripheral = Devices(s)[Len(shown[s]) + 1]
      BY <1>6, <2>1, <2>2, <3>2, <3>3
    <3>5. \A row \in DOMAIN shown'[s] : shown'[s][row].peripheral = Devices(s)[row]
      BY <3>2, <3>3, <3>4
    <3> QED BY <3>2, <3>3, <3>5 DEF CellsAreRows
  <2>3. CASE s # h
    <3>1. shown'[s] = shown[s] /\ DeviceRows(s)' = DeviceRows(s)
      BY <1>4, <1>6, <2>1, <2>3
    <3> QED BY <1>5, <1>10, <3>1 DEF CellsAreRows
  <2> QED BY <2>2, <2>3
<1>11. LabelMatchesSection'
  <2>1. SUFFICES ASSUME view' = "visible", NEW s \in Section, NEW row \in DOMAIN shown'[s]
                 PROVE  shown'[s][row].connected <=> s = MyDevices
    BY DEF LabelMatchesSection
  <2>2. InWindow /\ view = "visible" /\ shown \in [Section -> Seq(C)]
    BY <1>2, <2>1 DEF InWindow, ConnectTypeOK
  <2>3. \A r \in DOMAIN shown[s] : shown[s][r].connected <=> s = MyDevices
    BY <2>2 DEF ConnectInv, LabelMatchesSection
  <2>4. CASE s = h
    <3>1. /\ DOMAIN shown'[s] = 1..(Len(shown[s]) + 1)
          /\ DOMAIN shown[s] = 1..Len(shown[s])
          /\ \A r \in 1..Len(shown[s]) : shown'[s][r] = shown[s][r]
          /\ shown'[s][Len(shown[s]) + 1] = Cell(Devices(s)[DeviceRows(s) + 1])
          /\ Len(shown[s]) \in Nat
      BY <1>6, <2>2, <2>4, AppendProperties, LenProperties
    <3> QED BY <1>6, <2>1, <2>2, <2>3, <2>4, <3>1
  <2>5. CASE s # h
    BY <1>6, <2>1, <2>2, <2>3, <2>5
  <2> QED BY <2>4, <2>5
<1>12. noDevicesLabelHidden' <=> \E s \in Section : numberOfRows'[s] > 0
  BY Zenon DEF InsertRow, AskNumberOfRows
<1>13. pc' = pc /\ \A s \in Section : numberOfRows'[s] # 1
  BY <1>2, <1>4 DEF vars, threadVars, ConnectInv
<1>14. observing' <=> view' \in {"appearing", "counting", "visible", "leaving"}
  BY <1>2 DEF ConnectInv
<1> QED BY <1>2, <1>8, <1>9, <1>10, <1>11, <1>12, <1>13, <1>14 DEF ConnectInv

LEMMA DidSelectRowOK ==
  ASSUME ConnectOK, NEW s \in Section, NEW row, DidSelectRow(s, row)
  PROVE  ConnectOK'
<1>1. /\ view = "visible" /\ view' = "leaving"
      /\ UNCHANGED <<observing, mainQueue, numberOfRows, shown, noDevicesLabelHidden, recounted>>
  BY DEF DidSelectRow
<1> QED BY <1>1 DEF ConnectOK, ConnectTypeOK, ConnectInv, LabelMatchesSection

LEMMA ConnectStep ==
  TypeOK /\ RaceFreeInv /\ ConnectOK /\ [ConnectNext /\ ~raced']_connectVars => ConnectOK'
<1> SUFFICES ASSUME TypeOK, RaceFreeInv, ConnectOK, [ConnectNext /\ ~raced']_connectVars
             PROVE  ConnectOK'
  OBVIOUS
<1>1. CASE ConnectRelaunch \/ InsertRowRaises \/ \E s \in Section : DidSelectHeader(s)
  BY <1>1, ConnectRelaunchOK DEF InsertRowRaises, DidSelectHeader, ConnectOK
<1>2. CASE ControllerStep /\ ~raced'
  BY <1>2, ControllerStepOK
<1>3. CASE ViewDidLoad \/ ViewWillAppear \/ ViewDidAppear \/ ViewWillDisappear
  BY <1>3, LifeCycleOK
<1>4. CASE ReloadData
  BY <1>4, ReloadDataOK
<1>5. CASE NewBluetoothDevice
  BY <1>5, NewBluetoothDeviceOK
<1>6. CASE InsertRow
  BY <1>6, InsertRowOK
<1>7. CASE \E s \in Section : \E row \in 1..(numberOfRows[s] - 1) : DidSelectRow(s, row)
  BY <1>7, DidSelectRowOK
<1>8. CASE UNCHANGED connectVars
  <2>1. /\ \A s \in Section : NothingMissed(s)' <=> NothingMissed(s)
        /\ \A s \in Section : CellsAreRows(s)' <=> CellsAreRows(s)
        /\ MyDevices \in Section
    BY <1>8 DEF NothingMissed, CellsAreRows, DeviceRows, NumberOfDevicesInSection, Devices,
                Announced, connectVars, vars, viewVars, registryVars, arrays, Section
  <2> QED BY <1>8, <2>1 DEF ConnectOK, ConnectTypeOK, ConnectInv, LabelMatchesSection,
                            connectVars, vars, viewVars, threadVars
<1> QED BY <1>1, <1>2, <1>3, <1>4, <1>5, <1>6, <1>7, <1>8 DEF ConnectNext, Tap

LEMMA RaceFreeUnderneath == [ConnectNext /\ ~raced']_connectVars => [Next /\ ~raced']_vars
<1>1. [ConnectNext /\ ~raced']_connectVars => [Next]_vars
  BY ControllerUnderneath
<1>2. UNCHANGED connectVars => UNCHANGED vars
  BY DEF connectVars
<1> QED BY <1>1, <1>2

(* The controller underneath keeps its own invariants. *)
LEMMA ControllerInvariants ==
  ASSUME TypeOK, RaceFreeInv, [ConnectNext /\ ~raced']_connectVars
  PROVE  TypeOK' /\ RaceFreeInv'
<1>1. [Next /\ ~raced']_vars
  BY RaceFreeUnderneath
<1> QED BY <1>1, TypeStep, RaceFreeStep

(***************************************************************************)
(* The inductive invariant, with the controller's, in every execution      *)
(* without a race.                                                         *)
(***************************************************************************)
THEOREM ConnectInvariant == ConnectSpec => [](TypeOK /\ RaceFreeInv /\ ConnectTypeOK /\ ConnectInv)
<1>1. ConnectInit => TypeOK /\ RaceFreeInv /\ ConnectOK
  BY TypeInit, RaceFreeInit, ConnectInitOK DEF ConnectInit, ConnectOK
<1>2. TypeOK /\ RaceFreeInv /\ ConnectOK /\ [ConnectNext /\ ~raced']_connectVars
        => TypeOK' /\ RaceFreeInv' /\ ConnectOK'
  BY ConnectStep, ControllerInvariants
<1>3. ConnectOK => ConnectTypeOK /\ ConnectInv
  BY DEF ConnectOK
<1> QED BY <1>1, <1>2, <1>3, PTL DEF ConnectSpec

(* Every variable of the tab keeps its type. *)
THEOREM ConnectTypeCorrect == ConnectSpec => []ConnectTypeOK
BY ConnectInvariant, PTL

(* The books of a visible table balance unless viewDidAppear: counted a    *)
(* device whose announcement was still on its way.                         *)
THEOREM BooksBalance == ConnectSpec => []RowsBalance
<1>1. ConnectInv => RowsBalance
  BY DEF ConnectInv, RowsBalance, NothingMissed
<1> QED BY <1>1, ConnectInvariant, PTL

(* Once nothing is queued a visible table has one row per device: the tab  *)
(* registers before it counts, and counts whatever it was not told of.     *)
THEOREM NoneMissing == ConnectSpec => []NoDeviceMissing
<1>1. ASSUME TypeOK, ConnectTypeOK, ConnectInv PROVE NoDeviceMissing
  <2>1. SUFFICES ASSUME view = "visible", Quiet, NEW s \in Section
                 PROVE  DeviceRows(s) = NumberOfDevicesInSection(s)
    BY DEF NoDeviceMissing
  <2>2. NothingMissed(s)
    BY <1>1, <2>1 DEF ConnectInv
  <2>3. Count(<<>>, s) = 0
    BY FS_EmptySet DEF Count
  <2>4. Announced(s) = 0
    BY <2>1, <2>3 DEF Announced, Quiet
  <2>5. DeviceRows(s) \in Nat /\ NumberOfDevicesInSection(s) \in Nat
    BY <1>1, DevicesType DEF DeviceRows, ConnectTypeOK, ConnectInv
  <2> QED BY <2>2, <2>4, <2>5 DEF NothingMissed
<1> QED BY <1>1, ConnectInvariant, PTL

(* The table says it has found nothing exactly when it has found nothing.  *)
THEOREM NoDevicesLabelTrue == ConnectSpec => []LabelSaysNoDevices
<1>1. ASSUME TypeOK, ConnectTypeOK, ConnectInv, NoDeviceMissing PROVE LabelSaysNoDevices
  <2>1. ASSUME view = "visible", Quiet, NEW s \in Section
        PROVE  numberOfRows[s] > 0 <=> NumberOfDevicesInSection(s) > 0
    <3>1. /\ DeviceRows(s) = NumberOfDevicesInSection(s)
          /\ numberOfRows[s] \in Nat /\ numberOfRows[s] # 1
      BY <1>1, <2>1 DEF NoDeviceMissing, ConnectTypeOK, ConnectInv
    <3> QED BY <3>1 DEF DeviceRows
  <2>2. view = "visible" => (noDevicesLabelHidden <=> \E s \in Section : numberOfRows[s] > 0)
    BY <1>1 DEF ConnectInv
  <2> QED BY <2>1, <2>2 DEF LabelSaysNoDevices
<1> QED BY <1>1, ConnectInvariant, NoneMissing, PTL

(* A cell made between the additions that make a device known and          *)
(* connected would be wrong for ever; none is.                             *)
THEOREM LabelsRight == ConnectSpec => []LabelMatchesSection
<1>1. ConnectInv => LabelMatchesSection
  BY DEF ConnectInv
<1> QED BY <1>1, ConnectInvariant, PTL

(* What a tap hands to the controller. *)
LEMMA RowOfTap ==
  ASSUME TypeOK, ConnectTypeOK, ConnectInv,
         NEW s \in Section, NEW row \in 1..(numberOfRows[s] - 1), DidSelectRow(s, row)
  PROVE  /\ peripheral'["main"] = shown[s][row].peripheral
         /\ index' + 1 = row
         /\ section' = s
         /\ pc'["main"] # "idle"
<1>1. IndexOfRow(row) + 1 = row
  BY DEF IndexOfRow
<1>2. /\ view = "visible"
      /\ peripheral' = [peripheral EXCEPT !["main"] = Devices(s)[row]]
      /\ index' + 1 = row
      /\ section' = s
      /\ pc' \in {[pc EXCEPT !["main"] = "contains"], [pc EXCEPT !["main"] = "remove"]}
  BY <1>1 DEF DidSelectRow, SelectKnown, SelectDiscovered, Goto, Devices, Section
<1>3. peripheral'["main"] = Devices(s)[row] /\ pc'["main"] # "idle"
  BY <1>2 DEF TypeOK, Thread
<1>4. CellsAreRows(s) /\ numberOfRows[s] \in Nat
      /\ shown[s] \in Seq([peripheral : Peripheral, connected : BOOLEAN])
  BY <1>2 DEF ConnectInv, ConnectTypeOK
<1>5. row \in DOMAIN shown[s]
  BY <1>4, LenProperties DEF CellsAreRows, DeviceRows
<1> QED BY <1>2, <1>3, <1>4, <1>5 DEF CellsAreRows
-----------------------------------------------------------------------------
(***************************************************************************)
(* From the tap to the selection.  Under a tab that is leaving, the        *)
(* controller either goes on with the method for the same device, or ends  *)
(* it by selecting that device, or leaves the selection alone.             *)
(***************************************************************************)
LEMMA MethodGoesOn ==
  ASSUME TypeOK, RaceFreeInv, MainStep, ~raced'
  PROVE  /\ UNCHANGED <<section, index>>
         /\ pc["main"] # "idle"
         /\ \/ pc'["main"] # "idle" /\ peripheral' = peripheral
            \/ /\ pc'["main"] = "idle"
               /\ peripheral["main"] \in Range(connectedPeripherals')
               /\ section = MyDevices => SelectedPeripheral' = peripheral["main"]
<1>1. CASE MainRemove \/ MainKnow \/ MainPersist \/ MainContains \/ MainConnect
  BY <1>1 DEF MainRemove, MainKnow, MainPersist, MainContains, MainConnect, Goto, TypeOK, Thread
<1>2. ASSUME pc["main"] \in {"count", "indexOf"}, NEW i, Select(i)
      PROVE  /\ UNCHANGED <<section, index>>
             /\ pc["main"] # "idle" /\ pc'["main"] = "idle"
             /\ peripheral["main"] \in Range(connectedPeripherals')
  <2>1. peripheral["main"] \in Range(connectedPeripherals)
    BY <1>2 DEF RaceFreeInv, MainInv
  <2> QED BY <1>2, <2>1 DEF Select, Goto, arrays, TypeOK, Thread
<1>3. CASE MainCount
  <2>1. section = ConnectDevice
    BY <1>3 DEF MainCount, RaceFreeInv, MainInv
  <2> QED BY <1>2, <1>3, <2>1 DEF MainCount, MyDevices, ConnectDevice
<1>4. CASE MainIndexOf
  <2>1. SelectedPeripheral' = peripheral["main"]
    BY <1>4, IndexOfSelects
  <2> QED BY <1>2, <1>4, <2>1 DEF MainIndexOf
<1> QED BY <1>1, <1>3, <1>4 DEF MainStep

LEMMA OthersLeaveSelection ==
  ASSUME TypeOK, RaceFreeInv, ~raced',
         \/ RadioChanges \/ CentralManagerDidUpdateState \/ BleStep \/ PostNotification
         \/ \E p \in Peripheral : DidDiscoverPeripheral(p)
  PROVE  /\ UNCHANGED <<section, index>>
         /\ pc'["main"] = pc["main"] /\ peripheral'["main"] = peripheral["main"]
         /\ SelectedPeripheral' = SelectedPeripheral
         /\ Range(connectedPeripherals) \subseteq Range(connectedPeripherals')
<1>1. CASE RadioChanges \/ CentralManagerDidUpdateState \/ PostNotification
  BY <1>1 DEF RadioChanges, CentralManagerDidUpdateState, PostNotification, registryVars,
              arrays, threadVars, SelectedPeripheral
<1>2. CASE BleStep
  <2>1. /\ UNCHANGED <<section, index, selectedBluetoothDeviceIndex>>
        /\ pc'["main"] = pc["main"] /\ peripheral'["main"] = peripheral["main"]
    BY <1>2 DEF BleStep, BleConnect, BleKnow, BleList, Announce, Goto, TypeOK, Thread
  <2>2. Next /\ ~raced'
    BY <1>2 DEF Next
  <2>3. \/ UNCHANGED connectedPeripherals
        \/ connectedPeripherals' = Append(connectedPeripherals, peripheral["ble"])
    BY <1>2 DEF BleStep, BleConnect, AddObject, BleKnow, BleList, Announce, registryVars
  <2>4. connectedPeripherals \in Seq(Peripheral) /\ peripheral["ble"] \in Peripheral \cup {Nil}
    BY DEF TypeOK, Arrays, Thread
  <2>5. CASE connectedPeripherals' = Append(connectedPeripherals, peripheral["ble"])
    <3>1. connectedPeripherals \in Seq(Peripheral \cup {Nil})
      BY <2>4, SeqDef
    <3> QED BY <2>1, <2>2, <2>4, <2>5, <3>1, AppendArray, SelectionUnmoved
  <2> QED BY <2>1, <2>2, <2>3, <2>5, SelectionUnmoved
<1>3. CASE \E p \in Peripheral : DidDiscoverPeripheral(p)
  BY <1>3 DEF DidDiscoverPeripheral, Goto, registryVars, arrays, TypeOK, Thread,
              SelectedPeripheral
<1> QED BY <1>1, <1>2, <1>3

LEMMA TappedStep ==
  ASSUME TypeOK, RaceFreeInv, ConnectTypeOK, ConnectInv, TappedIsSelected,
         [ConnectNext /\ ~raced']_connectVars
  PROVE  TappedIsSelected'
<1> USE DEF TappedIsSelected, TappedDevice
<1>1. CASE view' # "leaving"
  BY <1>1
<1>2. CASE \E s \in Section : \E row \in 1..(numberOfRows[s] - 1) : DidSelectRow(s, row)
  <2>1. PICK s \in Section : \E row \in 1..(numberOfRows[s] - 1) : DidSelectRow(s, row)
    BY <1>2
  <2>2. PICK row \in 1..(numberOfRows[s] - 1) : DidSelectRow(s, row)
    BY <2>1
  <2>3. shown' = shown
    BY <2>2 DEF DidSelectRow
  <2> QED BY <2>2, <2>3, RowOfTap
<1>3. ASSUME UNCHANGED viewVars, view = "leaving", ~raced',
             \/ MainStep
             \/ /\ UNCHANGED <<section, index>>
                /\ pc'["main"] = pc["main"] /\ peripheral'["main"] = peripheral["main"]
                /\ SelectedPeripheral' = SelectedPeripheral
                /\ Range(connectedPeripherals) \subseteq Range(connectedPeripherals')
      PROVE  TappedIsSelected'
  <2>1. CASE MainStep
    BY <1>3, <2>1, MethodGoesOn DEF viewVars
  <2> QED BY <1>3, <2>1 DEF viewVars
<1>4. CASE ControllerStep /\ ~raced' /\ view' = "leaving"
  <2>1. UNCHANGED viewVars /\ view = "leaving"
    BY <1>4 DEF ControllerStep, viewVars
  <2> QED BY <1>3, <1>4, <2>1, OthersLeaveSelection DEF ControllerStep
<1>5. CASE NewBluetoothDevice /\ ~raced' /\ view' = "leaving"
  <2>1. PostNotification /\ view' = view /\ shown' = shown
    BY <1>5 DEF NewBluetoothDevice
  <2> QED BY <1>5, <2>1, OthersLeaveSelection
<1>6. CASE UNCHANGED connectVars /\ view' = "leaving"
  <2>1. UNCHANGED <<pc, peripheral, section, index, view, shown>>
    BY <1>6 DEF connectVars, vars, threadVars, viewVars
  <2>2. SelectedPeripheral' = SelectedPeripheral /\ UNCHANGED connectedPeripherals
    BY <1>6 DEF connectVars, vars, registryVars, arrays, SelectedPeripheral
  <2> QED BY <2>1, <2>2
<1>7. CASE \/ ConnectRelaunch \/ ViewDidLoad \/ ViewWillAppear \/ ViewDidAppear \/ ReloadData
           \/ ViewWillDisappear \/ InsertRow \/ InsertRowRaises
           \/ \E s \in Section : DidSelectHeader(s)
  <2>1. view' # "leaving"
    BY <1>7 DEF ConnectRelaunch, ViewDidLoad, ViewWillAppear, ViewDidAppear, ReloadData,
                ViewWillDisappear, InsertRow, InsertRowRaises, DidSelectHeader, MainThreadFree
  <2> QED BY <2>1
<1> QED BY <1>1, <1>2, <1>4, <1>5, <1>6, <1>7 DEF ConnectNext, Tap

(***************************************************************************)
(* A tap works on the device whose cell was tapped, which can be locked    *)
(* when the method ends; under My Devices it is then the one selected.     *)
(***************************************************************************)
THEOREM TappedSelected == ConnectSpec => []TappedIsSelected
<1>1. ConnectInit => TappedIsSelected
  BY DEF ConnectInit, ViewInit, TappedIsSelected
<1>2. TypeOK /\ RaceFreeInv /\ ConnectTypeOK /\ ConnectInv /\ TappedIsSelected
        /\ [ConnectNext /\ ~raced']_connectVars => TappedIsSelected'
  BY TappedStep
<1> QED BY <1>1, <1>2, ConnectInvariant, PTL DEF ConnectSpec
-----------------------------------------------------------------------------
(***************************************************************************)
(* The Connect tab drives the controller as the controller's own           *)
(* specification allows, so under it the devices are still a               *)
(* DeviceRegistry, and still what the Control tab takes them for.          *)
(***************************************************************************)
THEOREM ConnectKeepsRegistry == ConnectSpec => ImplementsRegistry /\ ImplementsControlDevices
<1>1. ConnectInit => Init
  BY DEF ConnectInit
<1>2. ConnectSpec => Init /\ [][Next /\ ~raced']_vars
  BY <1>1, RaceFreeUnderneath, PTL DEF ConnectSpec
<1> QED BY <1>2, RegistryOfSteps, DevicesOfSteps, PTL

(***************************************************************************)
(* The tab keeps to the life cycle of a content.                           *)
(***************************************************************************)
THEOREM ConnectLifeCycle == ConnectSpec => KeepsLifeCycle
<1>1. ConnectInit => Content!Init
  BY DEF ConnectInit, ViewInit, Content!Init
<1>2. ASSUME ConnectTypeOK, ConnectInv, ConnectTypeOK', ConnectInv', [ConnectNext]_connectVars
      PROVE  [Content!Next]_(Content!vars)
  <2>1. /\ observing \in BOOLEAN /\ observing' \in BOOLEAN
        /\ observing <=> view \in {"appearing", "counting", "visible", "leaving"}
        /\ observing' <=> view' \in {"appearing", "counting", "visible", "leaving"}
        /\ view \in {"unloaded", "hidden", "appearing", "counting", "visible", "leaving"}
    BY <1>2 DEF ConnectTypeOK, ConnectInv
  <2>2. ASSUME view' \in {"unloaded", "hidden"} PROVE [Content!Next]_(Content!vars)
    BY <2>1, <2>2 DEF Content!Next, Content!ViewWillDisappear, Content!vars
  <2>3. ASSUME view = "hidden", view' = "appearing" PROVE Content!Next
    BY <2>1, <2>3 DEF Content!Next, Content!ViewWillAppear
  <2>4. ASSUME view = "appearing", view' = "counting" PROVE Content!Next
    BY <2>1, <2>4 DEF Content!Next, Content!ViewDidAppear
  <2>5. ASSUME \/ view' = view
               \/ view = "counting" /\ view' = "visible"
               \/ view = "visible" /\ view' = "leaving"
        PROVE  UNCHANGED Content!vars
    BY <2>1, <2>5 DEF Content!vars
  <2>6. CASE ControllerStep \/ NewBluetoothDevice \/ InsertRow \/ UNCHANGED connectVars
    BY <2>5, <2>6 DEF ControllerStep, NewBluetoothDevice, InsertRow, connectVars, viewVars
  <2>7. CASE \/ ConnectRelaunch \/ InsertRowRaises \/ \E s \in Section : DidSelectHeader(s)
             \/ ViewDidLoad \/ ViewWillDisappear
    BY <2>2, <2>7 DEF ConnectRelaunch, InsertRowRaises, DidSelectHeader, ViewDidLoad,
                      ViewWillDisappear
  <2>8. CASE ViewWillAppear
    BY <2>3, <2>8 DEF ViewWillAppear
  <2>9. CASE ViewDidAppear
    BY <2>4, <2>9 DEF ViewDidAppear
  <2>10. CASE \/ ReloadData
              \/ \E s \in Section : \E row \in 1..(numberOfRows[s] - 1) : DidSelectRow(s, row)
    BY <2>5, <2>10 DEF ReloadData, DidSelectRow
  <2> QED BY <1>2, <2>6, <2>7, <2>8, <2>9, <2>10 DEF ConnectNext, Tap
<1>3. [ConnectNext /\ ~raced']_connectVars => [ConnectNext]_connectVars
  OBVIOUS
<1> QED
  BY <1>1, <1>2, <1>3, ConnectInvariant, PTL DEF ConnectSpec, KeepsLifeCycle, Content!Spec
=============================================================================
