-------------------- MODULE LKJHistoryTableViewController --------------------
(***************************************************************************)
(* The History tab of LKJHistoryTableViewController.m and its cells, with  *)
(* the tabs: the Control tab stores the objects the History tab lists.     *)
(* The results of its query follow the Realm; the table is a copy made     *)
(* when the view appears.  A date is the clock's, which the user may have  *)
(* set back, and differs from every other.                                 *)
(***************************************************************************)
EXTENDS LKJTabViewController

CONSTANT Date   \* bound: the dates there are for history objects

ASSUME DateAssumption == Date \subseteq Nat /\ IsFiniteSet(Date)

VARIABLES
  stored,    \* the LKJHistory objects in the Realm, by date
  results,   \* viewDidLoad has made the query
  cells      \* what the table shows

historyVars == <<stored, results, cells>>

LKJHistory == [activatedDate : Date, isLockAction : BOOLEAN]

HistoryInit ==
  /\ TabInit
  /\ stored = {}
  /\ results = FALSE
  /\ cells = <<>>

HistoryRelaunch ==
  /\ TabRelaunch
  /\ results' = FALSE
  /\ cells' = <<>>
  /\ UNCHANGED stored

OldestFirstMutant(objects) ==
  CHOOSE rows \in [1..Cardinality(objects) -> objects] :
    \A i, j \in DOMAIN rows : i < j => rows[i].activatedDate < rows[j].activatedDate

(* The latest first.  No two have one date, so there is one such order.    *)
SortedResults(objects) ==
  CHOOSE rows \in [1..Cardinality(objects) -> objects] :
    \A i, j \in DOMAIN rows : i < j => rows[i].activatedDate > rows[j].activatedDate

NoElseMutant(item) ==
  [colour |-> IF item.isLockAction THEN "locked" ELSE "none", date |-> item.activatedDate]

(* setHistoryItem: of the cell for each row. *)
Cell(item) ==
  [colour |-> IF item.isLockAction THEN "locked" ELSE "unlocked", date |-> item.activatedDate]

CellsFor(objects) ==
  [i \in DOMAIN SortedResults(objects) |-> Cell(SortedResults(objects)[i])]

ReloadData == cells' = CellsFor(stored)

(* With a switch of tabs: the first use of the view loads it. *)
LoadsView ==
  /\ results' = (results \/ currentContent' = History)
  /\ UNCHANGED <<stored, cells>>

(* viewDidAppear: of the content on screen. *)
Appear ==
  /\ ContentAppears
  /\ IF currentContent = History THEN ReloadData ELSE UNCHANGED cells
  /\ UNCHANGED <<stored, results>>

(* The transaction at the end of changeLockStatus:, in the Control tab. *)
StoreHistory(object) ==
  /\ \A o \in stored : o.activatedDate # object.activatedDate
  /\ stored' = stored \cup {object}
  /\ UNCHANGED <<tabVars, results, cells>>
-----------------------------------------------------------------------------
(* The constraints with which configureView: fills the content view. *)
ContentConstraint ==
  [id : Nat, text : [axis : {"H", "V"}, names : {{"v"}}], views : SUBSET Tab]

HistoryTypeOK ==
  /\ currentContent \in Tab \cup {Nil}
  /\ childViewControllers \subseteq Tab
  /\ contentView \in [view : SUBSET Tab, constraints : SUBSET ContentConstraint]
  /\ selectedButton \in Tab \cup {Nil}
  /\ highlighted \subseteq Tab
  /\ inWindow \in BOOLEAN
  /\ appearance \in [Tab -> {"hidden", "appearing", "visible"}]
  /\ registrations \in [Tab -> Nat]
  /\ stored \subseteq LKJHistory
  /\ results \in BOOLEAN
  /\ cells \in Seq([colour : {"locked", "unlocked"}, date : Date])

(***************************************************************************)
(* The History tab on screen lists every object ever stored, by this       *)
(* launch or an earlier one, once, in its own colour and the latest date   *)
(* first, though it copies the results when it appears and never again:    *)
(* no switch of tabs leaves an old copy on screen.                         *)
(***************************************************************************)
HistoryComplete ==
  appearance[History] = "visible" =>
    /\ results
    /\ Len(cells) = Cardinality(stored)
    /\ \A o \in stored :
         \E i \in DOMAIN cells :
           cells[i].date = o.activatedDate /\ (cells[i].colour = "locked" <=> o.isLockAction)
    /\ \A i, j \in DOMAIN cells : i < j => cells[i].date > cells[j].date
=============================================================================
