# LockJaw in TLA+

LockJaw is an iOS app that shows the Bluetooth locks around the phone, lets the
user claim them, and opens and closes the selected one by connecting to it and
disconnecting from it (`README.md`). These modules specify its program logic,
`src/LockJaw/LockJaw/`. Realm and pop, under `src/LockJaw/Pods/`, are third-party:
they are most of the repository's lines, and modelled only as the app sees them.

## The system

| Component | State | Operations | Talks to |
|---|---|---|---|
| `LKJBluetoothController` (a singleton) | `isOnline`; three `NSMutableArray`s: `discoveredDevicesArray`, `knownDevicesArray`, `connectedPeripherals`; `discoveredDevicesDictionary`; `selectedBluetoothDeviceIndex` | `beginScanning`, the `CBCentralManager` callbacks, `selectPeripheralAtIndex:inSection:`, `lockDevice`, `unlockDevice`, the queries | CoreBluetooth calls it on the queue `com.lockjaw.ble`; views call it on the main thread; it posts notifications on `com.lockjaw.ble.notification`; it reads and writes Realm from both threads |
| `LKJPeripheral`, `LKJHistory` | objects in Realm, which survive the process | transactions | the controller, the Control tab, the History tab |
| Connect tab, `LKJConnectionViewController` | two row counts, its registration as observer, the cells UIKit keeps | appearing, `newBluetoothDevice:` (a block on the main queue), row taps | the controller; its delegate, the tabs |
| Control tab, `LKJLockViewController`, with `LKJLockView` | `lockView.isLocked`, what is hidden, the alert | appearing, `changeLockStatus:` | the controller, Realm |
| History tab | a live Realm query | reload when it appears | Realm |
| Tabs, `LKJTabViewController`, `LKJTabView`, `LKJCaptionedButton` | the content shown, the button selected | a button tapped, a transition asked for | the three contents |
| `AutolayoutHelper`, `LinearLayout` | constraints by key, views by key | parse, add, replace, append | UIKit |
| Cells, colours, dates, `AppDelegate` | none to speak of | configure | |

The interactions that matter all meet in the controller. A peripheral that
advertises is looked up in Realm on the BLE queue, put into one or two arrays
and announced; the announcement passes through the notification queue and the
main queue before the Connect table grows a row. A tap on a row runs on the main
thread, moves the device between the arrays, stores it and selects it. The
Control tab reads the selected device's `CBPeripheral.state`, which CoreBluetooth
changes at any time.

What is hard about it:

- **Two threads share three unsynchronised arrays.** Every method interleaves
  with the other thread's message by message, and two messages to one array may
  overlap, which `NSMutableArray` does not allow.
- **Queues.** The table's books are kept from announcements that arrive late, or
  not at all while the view is not observing.
- **Stale reads.** A row as an array index, a Realm version, an index that means
  a position in a growing array, a link state read four times in one tap, a lock
  view that remembers taps instead of looking at the link.
- **Death at any point**, with Realm the only memory.

`PROJECT.json` lists each such hazard at its line (`hazards`), and the properties aimed at it.

What makes each component correct: the controller keeps each device in one row,
known and connected devices alike, no device stored twice or lost, the index on
the device selected; the Connect table has one row for each device and acts on
the row shown; the Control tab sends a command only to a link at rest, and shows
and records what the lock does; the tabs highlight the content shown; the parser
builds the constraint that was written.

## Modules

| Module | Models |
|---|---|
| `DeviceRegistry` | Abstract: what the controller promises of the devices it has seen. Found once per launch, claimed in one step, remembered across launches |
| `ContentLifeCycle` | Abstract: the order in which a content of the tabs appears and goes, and when it observes |
| `LKJBluetoothController` | The two threads, the arrays, Realm and the radio, message by message; the refinements of `DeviceRegistry` and of the devices of `LKJLockViewController` |
| `LKJConnectionViewController` | EXTENDS the controller: the Connect tab, the two queues of announcements, UIKit's requests for cells; a content by `ContentLifeCycle` |
| `LKJLockViewController` | The Control tab, the lock view, the lock and unlock methods, the links |
| `LKJTabViewController` | The tabs: launch, buttons, delegate, the content view and its constraints, each content's registrations, which keep to `ContentLifeCycle` |
| `LKJHistoryTableViewController` | EXTENDS the tabs: the objects the Control tab stores, the History table's copy of them |
| `LockJaw` | EXTENDS the History tab and instantiates `LKJLockViewController`: the app, with the tabs doing what the Control tab takes as external; the refinement of the Control tab's specification |
| `AutolayoutHelper` | The helper's methods as operators on a record; used by the next two and by the tabs |
| `LinearLayout` | The chain of views built with a helper |
| `XtConstraint` | The extended constraints: which texts are accepted, what the others raise, what the accepted ones mean |
| `MC...` | The instance TLC runs, with a symmetry set where there is symmetry |
| `ArrayTheorems` | Lemmas on sequences as arrays: append, remove, range |
| `LKJBluetoothController_proofs` | Theorems on the controller, the refinement of `DeviceRegistry` among them |
| `LKJConnectionViewController_proofs` | Theorems on the Connect tab |
| `LKJLockViewController_proofs` | Theorems on the Control tab |
| `LKJHistoryTableViewController_proofs` | Lemmas on the steps of the tabs and on the table's copy |
| `LockJaw_proofs` | Theorems on the app |
| `LinearLayout_proofs`, `XtConstraint_proofs` | Theorems on the layouts and on the extended constraints |

Variables and actions keep the names of the ivars and methods. Operators named
`...Mutant` precede the definition they are a plausible mistake of; no
specification uses them, and `PROJECT.json` (`mutants`) says which property each one breaks.

### LKJBluetoothController

An action is one message to something shared. `pc[t]` says which message thread
`t` sends next, `peripheral`, `index` and `section` are the locals and arguments.

| Action | Code in `LKJBluetoothController.m` |
|---|---|
| `DidDiscoverPeripheral`, then `BleConnect`, `BleKnow` or `BleList` | 160-188: the lookup, the additions, the announcement and the dictionary |
| `SelectKnown` / `SelectDiscovered`, `MainRemove`, `MainKnow`, `MainPersist` | 258-274 |
| `MainContains`, `MainConnect`, `MainCount`, `MainIndexOf` | 279-284 |
| `CentralManagerDidUpdateState`, `BeginScanning` | 207-242, 89-93 |
| `PostNotification` | the block of 173-175 |
| `Relaunch` | the process dies between any two steps and `init` (58-87) runs again |
| `RadioChanges`, `AddObject`, `RemoveObjectAtIndex`, `IndexOfObject` | external |

*Overlapping messages.* While a thread's next message changes an array,
`stale[t]` holds the array as it was when the thread got there. If the other
thread has changed it since, the message may also work from the old contents,
and `raced` becomes true. This is the outcome that goes on; the other one, a
crash, is `Relaunch`. `Spec` includes the races. `RaceFreeSpec` is
`Next /\ ~raced'`: all the interleavings in which messages do not overlap.
What holds of the code only without a race is stated of `RaceFreeSpec`, and says so.

*Realm.* `stored` is what has been committed. The BLE queue has no run loop, so
a Realm cached there is never refreshed: `DidDiscoverPeripheral` reads the
version it is pinned at, or the latest if the cached one was released.

*Left out.* Names are not modelled: a peripheral without one is ignored by the
code. A second discovery of a device only renews its date. `removeExpiredDevices:`
is never called, because its timer is created and not scheduled (67-71).

### LKJConnectionViewController

`ConnectNext` takes the controller's steps with the view unchanged, and replaces
`PostNotification`, `BeginScanning` and the two selections by the handlers that
receive or make them. `mainQueue` holds the blocks `newBluetoothDevice:`
(177-215) has dispatched, `numberOfRows` the two counts, and `shown` the devices
of the cells, as UIKit asked for them. `view` follows UIKit: `appearing` lies
between `viewWillAppear:`, which registers, and `viewDidAppear:`, which counts
one section (`ViewDidAppear`) and then the other (`ReloadData`, from `counting`);
`Cell` asks the controller once whether its device is connected, and `AskNumberOfRows`
sets the label *No devices found* whenever UIKit asks for the counts;
`leaving` is the rest of a row tap, which ends in another tab. A block or a
header tap that indexes past an array raises, and the app is launched again
(`InsertRowRaises`, `DidSelectHeader`). The header is modelled because it is row
0 and the code subtracts one from it; both are found by TLC and neither is said by
the repository not to happen. `lostBluetoothDevice:` and `bluetoothConnected:` are
left out, for nothing posts what they wait for. `observing` says whether the tab is
registered, not how often; the tabs count that in `registrations`, which
`ContentsKeepLifeCycle` requires to be one. This module takes the controller without races.

### LKJLockViewController

`changeLockStatus:` (100-129) is split at each read of `CBPeripheral.state`:
`ChangeLockStatus` and `ReadAgain` are the two reads of `isElgibleForLock`,
`Toggle` is the lock view's turn and the first `isLocked`, `LockDevice` and
`UnlockDevice` ask again and send, `Save` is the transaction. Links connect,
disconnect and break between any two of them. The module keeps a set of
devices and the selected *device* in place of the array and the index.
`ImplementsControlDevices` is what makes this right when there is no race: the
controller, seen through the mapping of index to device, takes only the steps this
module gives its devices while the view is away. `drifted` is a history variable: the link of the
selected lock was lost, or another was selected that the view does not match. The code's
`isLocked` is `IsLocked`, of a link that is not connected; `Locked`, of one that is
not connected nor about to be, is the properties' own notion of what the view should show.

### LKJTabViewController and LKJHistoryTableViewController

`ButtonClicked` is `buttonClicked:` (`LKJTabView.m:81-90`) with the block it calls
(`LKJTabViewController.m:90-104`): both run to the end on the main thread, so a
switch of tabs is one step, in which UIKit calls `viewWillDisappear:` and
`viewWillAppear:`. `viewDidAppear:` comes later (`ContentAppears`), and another
switch may come before it. `contentView` keeps its subviews and constraints
between switches and is filled by a new helper each time, as in the code.
`highlighted` is the set of buttons *drawn* as selected: `setSelected:` stores
nothing. The History module adds `stored`, the Realm's objects with their dates,
and `cells`, the copy the table makes in `Appear` (`viewDidAppear:` and `reloadData`);
`LoadsView` is `viewDidLoad`, which makes the query when the view is first used.
`SortedResults` is the one descending order there is, since no two dates are equal.

### LockJaw

The app's variables are those of the tabs, the History tab and the Control tab.
`LKJLockViewController` leaves to its environment when its view is on screen and which
device is there; here `visible` is the tabs' `appearance[Control]`, and each action is
one of the tabs' together with what it does to the Control tab.

| Action | Code |
|---|---|
| `Launched` | the tabs' `viewDidLoad`, which asks `existsBluetoothDevice` for the first tab |
| `Appeared` | `viewDidAppear:` of the content; the Control tab's asks for a device (57-67) |
| `TabTapped`, `RowTapped` | a button; a row of the Connect tab, which selects and then transitions |
| `LockTapped`, `Saved` | `changeLockStatus:` and the transaction that ends it, which stores an object the History tab will list |
| `Bluetooth` | links that answer and break, devices that are found, at any point between |
| `AppRelaunch` | the process dies, with or without a command under way |

`TouchesReachTabs` says that the main thread finishes `changeLockStatus:` before it
takes another touch, and that its alert is modal. The alert and the transaction run on
the main thread, so no tab is switched between a command and its record, while links
change all along. `AsCommanded` is `isLockAction` as set from the *link*, and not
from the view, which has turned already.

Two variables are history: `sent` is what the tap under way has sent the lock, told
from what becomes of the link, and `commands` what each tap whose record is stored
had sent. `HistoryTellsCommands` compares the table with them and not with the
records. A tap may record a command and then, as the link was lost before
`isLocked` is asked again, send none: its row may have either colour.

### AutolayoutHelper and LinearLayout

A helper is a record, a method an operator from helper to helper. A constraint is
an object with an identity, because `removeConstraints:` goes by identity and
equal texts make different objects; `FreshIds` gives the least ids not referred
to. `RemoveFromSuperview` is UIKit's: constraints go with their views. A text
keeps the keys it names and what tells it from others. `LinearLayout` appends views through the
helper; nothing in the app makes one. Of its margins only `marginEnds` is kept.
It is used at both ends, and a margin set after the first append reaches one of them only.

### XtConstraint

A client of the helper adds and removes views, sets metrics and adds extended
constraints. A text is the record of the nine ranges of the pattern (284-309), each from
a small set that holds a member for every way it can be read: a relation the pattern
rejects, one it matches and `parseRelation:` does not know, a missing view and a misspelt
attribute on either side, a missing metric. The right-hand side may be a key too, as in the
app's own `X:_lockView.width == _lockView.height`. `Faults` lists what may be wrong in the order
`parseXtConstraint:` asks, and `ErrorOf` is the first. The pattern is case-insensitive
and the dictionaries are not, which is why `Width` gets as far as an exception. A
multiplier is a fraction, so that `1/multiplier` is exact.

A parsed constraint has what lines 371-378 pass on: an item and an attribute on each
side (`first`, `second`), the relation, multiplier and constant. As history it also keeps its text and
what the keys and the metrics stood for, from which `ParsedAsWritten` reads the text
by itself. A layout gives a number to each pair of a view and an attribute; the
constraint must hold in just the layouts of which the text is true, and a text with a
relation, a view, an attribute or a metric that does not exist must not have made one.

## Runs

| Run | Checks | Bounds |
|---|---|---|
| `registry` | Without races: one row per device, known = connected at rest, no duplicate record, nothing lost, index in range, selection kept, the inductive invariant, the refinements of `DeviceRegistry` and of the Control tab's devices | 3 peripherals, 1 queued state callback |
| `races` | With races: types; a connected device is stored; a lookup finds what is stored; a scan is under way or on its way while the radio is on, so that scanning resumes; the inductive invariant | 2 peripherals, 2 queued callbacks |
| `connect` | Rows balance, none is missing, the labels are true, a tap works on the device its row shows until the tab has left, and selects it if it is under My Devices; the tab observes as `ContentLifeCycle` has it, a device found is eventually shown, the inductive invariant | 2 peripherals |
| `control` | View, record and lock agree; commands find a link at rest; a selected lock is shown; the inductive invariant | 3 locks, 4 history objects |
| `app` | One content fills the view, has the lit button and is registered once; the History tab on screen is complete, in order and true to the commands the taps sent; the app implements the Control tab's specification; the tabs drive two contents as `ContentLifeCycle` has it; the inductive invariant | the 3 tabs, 2 locks, 3 history objects with dates in any order |
| `layout` | Any appends make one chain | 4 views, 2 margins |
| `extended` | Only a text that names what exists is accepted, and the constraint means what it says | 2 views, 1 key and `superview`, 2 attributes, 1 metric, the numbers -2, 0 and 1 |
| `selected`, `known`, `names`, `interface`, `try_again` | Violated: see below | 2 peripherals |

Why the bounds are enough: a thread handles one device at a time, so two devices
make every pair of overlapping handlers and the third is a bystander whose row,
record or position they might disturb. One queued state callback is enough for
safety because the callbacks touch no array; the liveness run has two, so the
radio can go off and on before the first is handled. `MaxHistory` only ends the
taps: no guard of the code reads the history, and four objects are enough for a
lock to be opened, closed, lost and opened again. In `layout` the
third view is the first whose predecessor does not hold the start, and the fourth
repeats it. In `app` one lock is selected and the other may be selected or lost, and
three objects are enough for a date before, between and after the others. In
`extended` the numbers have both signs and 0, which a metric may have and still be
provided, and a constraint is compared with its text in every layout with those values;
both sides may be any of the key and `superview` with any attribute. Symmetry is used for safety only. TLC's deadlock check is left on, though it says little
where the app may always be relaunched.

**Fairness.** `Fairness` and `ConnectFairness` say that a queue runs the blocks
it holds, and that a method that has started goes on: GCD and the main run loop
give that. `ViewDidAppear` follows `ViewWillAppear` because UIKit finishes its
transitions. The user, the radio and the peripherals are under no obligation.
`CalmSpec` alone also assumes that locks answer: it makes the run `try_again` say
more, since the property fails even so.

### Disagreements

- `selected`: the comment at `LKJBluetoothController.m:81` has the index "in known
  devices"; it is a position in `connectedPeripherals`, filled in another order.
- `known`: the same comment says a connected device is always a known one; a race
  between lines 172 and 265 loses the addition that makes it one.
- `names`: `LKJPeripheral.h` persists a name; line 268 assigns it from itself.
- `interface`: the lock view negates itself on each tap, and nothing tells it of a
  lost link or another selection: it shows an open lock that is closed, and the
  tap meant to close it opens it.
- `try_again`: the alert says to try again in a few seconds; after a launch the
  index is -1 until a row is tapped, and waiting does not help.

Read but not run: the comment at `AutolayoutHelper.m:438` says an invalid relation
never gets there "since the regex only matches if the relation is right"; the
pattern (292) is any run of `=`, `>` and `<`. `XtConstraint` reaches the exception
(`error = "relation"`); no constraint in the app has such a relation. A header of the
Connect tab can be tapped and raises. The record of a command is lost when the
process dies after the command and before the transaction; the lock view has
turned before the link is asked. Every signal image is the strongest, because
`peripheral.RSSI` is nil when nothing calls `readRSSI`. `existsCurrentPeripheral` has no callers.

## Proofs

All are for any set of peripherals. The assumptions are those the modules state of
their constants: `Nil` is not a peripheral, a view or a tab; bounds are positive; there
are finitely many dates, at least as many as history objects; the tabs' helper has the
key `v`, that of a layout one key for each of finitely many views; numbers are integers. TLC checks
them in every run.

*Types.* `TypeCorrect` is proved of `Spec`, races included: a message that works
from a stale array still makes an array.

*What holds with races.* Three more results are of `Spec`, for what survives a lost
addition. `ConnectedPersisted`: a device that can be locked is in Realm, wherever the
app dies. Its invariant `PersistInv` must speak of the stale copies, for a race puts
one back: a copy holds only devices that were in the array. `LookupsRight`:
the discovery's lookup answers what has been committed, though it reads an old
version. What that version lacks was committed by a tap of this launch, on a row, and a
device with a row is in the dictionary and not looked up again; `SeenInv` says so of the
stale copies too. `ScanComes` is the safety half of `ScanningResumes`: while the
radio is on a scan is under way or a callback that asks for it is queued, and the
fairness of the queue does the rest.

*The controller.* `OneRowPerDevice` is not inductive: to know that a discovery
adds no second row one must know that the dictionary has every device in the
arrays, and that fails for the device a tap has removed from one array and not
added to the other. `RaceFreeInv` says where that device is for each value of
`pc`. `ArraysInv` relates the arrays and the dictionary, `RealmInv` bounds how
old the version on the BLE queue may be (what it lacks is in the dictionary, so
it is not looked up again), and `MainInv` and `BleInv` fix each thread's device.
`RaceFreeInvariant` proves it action by action; `OneRow`, `NoDuplicates`,
`IndexInRange` and `QuiescentAgreement` follow. `SelectionStays` and `TapsSelect` use it
too: an append does not move the position the index finds, and `indexOfObject:`
finds the device tapped. `Refinement` maps each step to
a step of `DeviceRegistry` or a stutter; claiming a device takes four messages,
and the mapping moves it when the transaction commits. `DevicesRefinement` is the
other direction in which the controller is used: its connected devices and the device
its index finds are those of `LKJLockViewController`. An append by a discovery is
`KnownPeripheralFound` because it does not move the index, and the message
that sets the index is `SelectPeripheral` whichever array the device comes from.

*The Connect tab.* `ConnectInv` says, of each section, how the rows, the announcements
in the two queues and the array relate: there are never more rows than devices, a
missing row always has its announcement on the way, and rows and announcements add up
exactly unless the last count took in a device still to be announced. Its proof uses `RaceFreeInv`: every
device appended is announced in the same step or holds the queue up. `NoneMissing`,
`BooksBalance`, `NoDevicesLabelTrue` and `LabelsRight` follow.
`TappedSelected` keeps the device of the tapped cell through the whole method,
while the BLE queue goes on adding: in the end it is connected, and selected if it was
under My Devices. `ConnectKeepsRegistry` says that the tab only
calls the controller in ways its own specification has (`RaceFreeUnderneath`), so that
both refinements hold of the composition.

*The Control tab.* `ControlInv` adds what each pending command knows: it was
chosen by a read of a link at rest, and since only `changeLockStatus:` starts a
transition, only a loss can have moved the link. `ControlInvariant`,
`InterfaceStaysTrue`, `CommandsAtRest`, `RecordsAgree` and `SelectedIsShown` follow.

*The app.* `TabInv` says that the content is the only child and only view, and that it
alone appears and is registered; `TabInvariant` is proved for a step of the tabs whatever asks for
it, so that the app cites one lemma (`TabStepOK`). `ControlRefinement` maps every step of the
app to a step of the Control tab or a stutter: what had been assumed of the view's
coming and going is what the tabs do. So every theorem of the Control tab holds in the
app; `ControlAgrees` states the four that matter. It instantiates the module of their
proofs over the app's variables and shows the two readings of the specification to be
one. They are stated with the Control tab's own names, and TLC checks them in `control`.
`ContentsLifeCycle` and `ConnectLifeCycle` are the two sides of one contract: the
tabs call each content in the order of `ContentLifeCycle`, and the Connect tab, in its
own module, expects no other. `AppInv` is `TabInv` with
`StoredInv`, which ties the Realm's objects to the records of the Control tab and, while the History tab
is on screen, the table's copy to the Realm: `changeLockStatus:` ends in a Control tab that is still
on screen, because nothing else runs in between. `CommandsInv` ties the records to what was
sent: the record is made before the command, and `ControlInv`, carried over by the
refinement, says which way it points when the command goes. `HistoryTypeCorrect`
adds the types of what those invariants do not bound (`TabTypes`, `ResultsTyped`). That the
copy is complete and in order needs a descending order of finitely many dates to exist:
`SortedRowsExist` builds it from ranks, the number of later dates, and shows by
cardinality that every place is taken.

*Layouts and constraints.* `OneChain` is for any number of views. `LayoutInv` gives the
two reasons: the end constraints are just those kept under `end align`, so that the next
append takes them all back, and no constraint names a view that has not been appended,
so that those of the next one are new. `Appended` follows the helper through the
three or four calls of an append. `AllParsedAsWritten` goes by what an accepted
text is: each of its eight faults is absent, so all it names exists and the anchors are those
its reader finds; and the relation, once multiplied out by the square of the factor, holds of
two values just when the text says so.

Together the refinements make a chain: the controller, with or without the Connect tab
over it, has the devices that the Control tab is specified with; the app with its tabs
is an execution of that Control tab; and what was proved of the Control tab holds of
the app.

Only model-checked: liveness (`ScanningResumes`, `FoundIsShown`), which needs
ENABLED. Every safety property, action property and refinement that a passing run
checks is also a theorem.

## Left

Done, in the order planned: the controller with its abstract specification, the Connect
tab, the Control tab, the tabs with the History tab, the helper and its layouts, the
extended constraints, and the app that composes the tabs with two of their contents.
What a next step would take:

- the Connect tab in `LockJaw` with all of its life cycle, over the controller itself:
  its state space multiplies the controller's by the app's. `RowTapped` is what the other
  tabs see of it.
- the executions with a data race, beyond types, the scan, what is stored and what is
  looked up: the rows and the index are then wrong, as `known` shows, and the code
  promises nothing of them.

Not modelled, and why: frames, colours, animations, date formats, visual format texts
and the drawing code, which keep no state the logic reads; CoreBluetooth, UIKit and
Realm beyond what the app can see of them, the headers under `Pods/` among them;
`removeExpiredDevices:` and the discovery date it reads, which never run; the handlers of
notifications that are never posted; names, except that one is not persisted; the
signal bars, which never vary.
