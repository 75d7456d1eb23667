----------------- MODULE LKJHistoryTableViewController_proofs -----------------
(* Lemmas about the tabs, whatever asks them to switch, and about the       *)
(* History table: what its sorted copy has in it.                           *)
EXTENDS LKJHistoryTableViewController, FiniteSetTheorems, TLAPS

LEMMA NilIsNoTab == Nil \notin Tab
BY TabAssumption, HelperAssumption

(***************************************************************************)
(* configureView:fillWithSubView: of an empty view: the view fills it.     *)
(***************************************************************************)
Fills(on, v) ==
  /\ on.view = {v}
  /\ on.constraints \subseteq ContentConstraint
  /\ \A c \in on.constraints : c.views = {v}
  /\ \A axis \in {"H", "V"} :
       Cardinality({c \in on.constraints : c.text.axis = axis}) = 1

LEMMA FillEmptyView ==
  ASSUME NEW v \in Tab
  PROVE  Fills(FillWithSubView([view |-> {}, constraints |-> {}], v), v)
<1> DEFINE empty == [view |-> {}, constraints |-> {}]
           texts == <<[axis |-> "H", names |-> {"v"}], [axis |-> "V", names |-> {"v"}]>>
           keys == [k \in Key |-> IF k = "v" THEN v ELSE Nil]
           h == [NewHelper({v}, {}) EXCEPT !.subViews = keys]
           ids == FreshIds(h, 2)
           c(i) == [id |-> ids[i], text |-> texts[i], views |-> {v}]
           filled == FillWithSubView(empty, v)
<1>1. Key = {"v"} /\ v # Nil
  BY TabAssumption, NilIsNoTab
<1>2. Range(keys) \ {Nil} = {v}
  BY <1>1 DEF Range
<1>3. filled = AddConstraints(h, texts)
  BY <1>2 DEF FillWithSubView, ConfigureView
<1>4. /\ h.view = {v}
      /\ h.constraints = {}
      /\ h.subViews = keys
  BY DEF NewHelper
<1>5. FindViews(h, texts[1]) = {v} /\ FindViews(h, texts[2]) = {v}
  <2>1. texts[1].names = {"v"} /\ texts[2].names = {"v"}
    OBVIOUS
  <2>2. h.subViews["v"] = v
    BY <1>1, <1>4
  <2> HIDE DEF h, texts
  <2> QED BY <2>1, <2>2 DEF FindViews
<1>6. ParseConstraints(h, texts) = {c(1), c(2)}
  <2>1. Len(texts) = 2 /\ 1..2 = {1, 2}
    OBVIOUS
  <2> QED BY <1>5, <2>1 DEF ParseConstraints
<1>7. filled.view = {v} /\ filled.constraints = {c(1), c(2)}
  <2>1. AddConstraints(h, texts).view = h.view
    BY DEF AddConstraints, NewHelper
  <2>2. AddConstraints(h, texts).constraints = h.constraints \cup ParseConstraints(h, texts)
    BY DEF AddConstraints, NewHelper
  <2> QED BY <1>3, <1>4, <1>6, <2>1, <2>2
<1>8. ids[1] \in Nat /\ ids[2] \in Nat
  <2>1. IdsInUse(h) = {}
    <3>1. \A t \in TemporalKey : h.temporal[t] = {}
      BY DEF NewHelper
    <3> HIDE DEF h
    <3> QED BY <1>4, <3>1 DEF IdsInUse
  <2>2. Cardinality(IdsInUse(h)) = 0
    BY <2>1, FS_EmptySet
  <2>3. FreshIds(h, 2) = CHOOSE f \in [1..2 -> 1..2] : IsInjective(f) /\ Range(f) \cap {} = {}
    <3> HIDE DEF h
    <3> QED BY <2>1, <2>2 DEF FreshIds
  <2>4. \E f \in [1..2 -> 1..2] : IsInjective(f) /\ Range(f) \cap {} = {}
    <3> DEFINE f == [i \in 1..2 |-> i]
    <3>1. f \in [1..2 -> 1..2] /\ IsInjective(f)
      BY DEF IsInjective
    <3> QED BY <3>1
  <2>5. FreshIds(h, 2) \in [1..2 -> 1..2]
    <3> HIDE DEF h
    <3> QED BY <2>3, <2>4
  <2> HIDE DEF h
  <2> QED BY <2>5
<1>9. c(1) \in ContentConstraint /\ c(2) \in ContentConstraint
  <2>1. /\ texts[1] \in [axis : {"H", "V"}, names : {{"v"}}]
        /\ texts[2] \in [axis : {"H", "V"}, names : {{"v"}}]
    OBVIOUS
  <2> HIDE DEF ids, texts
  <2> QED BY <1>8, <2>1 DEF ContentConstraint
<1>10. /\ c(1).text.axis = "H" /\ c(2).text.axis = "V"
      /\ c(1).views = {v} /\ c(2).views = {v}
  OBVIOUS
<1> HIDE DEF c, filled, h, keys, texts
<1>11. /\ {x \in filled.constraints : x.text.axis = "H"} = {c(1)}
      /\ {x \in filled.constraints : x.text.axis = "V"} = {c(2)}
  BY <1>7, <1>10
<1>12. Cardinality({c(1)}) = 1 /\ Cardinality({c(2)}) = 1
  BY FS_Singleton
<1>13. filled.constraints \subseteq ContentConstraint
  BY <1>7, <1>9
<1> QED BY <1>7, <1>10, <1>11, <1>12, <1>13 DEF Fills, filled
-----------------------------------------------------------------------------
LEMMA TabInitOK == TabInit => TabInv
BY NilIsNoTab DEF TabInit, TabInv, ContentIsOnlyChild, OnlyContentAppears,
                  RegistersWhileShown, ContentFillsView, Tab, Control, Connect, History

LEMMA TabRelaunchOK == TabRelaunch => TabInv'
BY NilIsNoTab DEF TabRelaunch, TabInv, ContentIsOnlyChild, OnlyContentAppears,
                  RegistersWhileShown, ContentFillsView, Tab, Control, Connect, History

(* The content that leaves takes its view and its constraints with it.     *)
LEMMA LeavesNothing ==
  ASSUME TabInv
  PROVE  RemoveContent(currentContent).view = {} /\ RemoveContent(currentContent).constraints = {}
<1>1. CASE currentContent = Nil
  BY <1>1 DEF TabInv, ContentIsOnlyChild, RemoveContent
<1>2. CASE currentContent # Nil
  <2>1. /\ contentView.view = {currentContent}
        /\ \A c \in contentView.constraints : c.views = {currentContent}
    BY <1>2 DEF TabInv, ContentFillsView
  <2> QED BY <1>2, <2>1 DEF RemoveContent, RemoveFromSuperview
<1> QED BY <1>1, <1>2

LEMMA ContentComes ==
  ASSUME TabInv, NEW v \in Tab, ActionBlock(v)
  PROVE  /\ childViewControllers' = {v}
         /\ currentContent' = v
         /\ Fills(contentView', v)
<1>1. childViewControllers' = {v}
  BY NilIsNoTab DEF ActionBlock, TabInv, ContentIsOnlyChild
<1> DEFINE left == RemoveContent(currentContent)
           empty == [view |-> {}, constraints |-> {}]
           filled == FillWithSubView(left, v)
<1>2. left.view = {} /\ left.constraints = {}
  BY LeavesNothing
<1>3. filled = FillWithSubView(empty, v)
  <2>1. empty.view = {} /\ empty.constraints = {}
    OBVIOUS
  <2> HIDE DEF left, empty
  <2> QED BY <1>2, <2>1 DEF FillWithSubView, ConfigureView
<1>4. Fills(filled, v)
  BY <1>3, FillEmptyView
<1>5. contentView' = [view |-> filled.view, constraints |-> filled.constraints]
  BY DEF ActionBlock
<1>6. contentView'.view = filled.view /\ contentView'.constraints = filled.constraints
  <2> HIDE DEF filled
  <2> QED BY <1>5
<1>7. Fills(contentView', v)
  <2> HIDE DEF filled
  <2> QED BY <1>4, <1>6 DEF Fills
<1>8. currentContent' = v
  BY DEF ActionBlock
<1> QED BY <1>1, <1>7, <1>8

(* What a content registered when it came it takes back when it leaves.    *)
LEMMA ContentRegisters ==
  ASSUME TabInv, NEW v \in Tab, ActionBlock(v), inWindow' = inWindow
  PROVE  /\ appearance' \in [Tab -> {"hidden", "appearing", "visible"}]
         /\ \A t \in Tab \ {v} : appearance'[t] = "hidden"
         /\ appearance'[v] = IF inWindow THEN "appearing" ELSE "hidden"
         /\ registrations' \in [Tab -> Nat]
         /\ RegistersWhileShown'
<1>1. /\ appearance' \in [Tab -> {"hidden", "appearing", "visible"}]
      /\ \A t \in Tab \ {v} : appearance'[t] = "hidden"
      /\ appearance'[v] = IF inWindow THEN "appearing" ELSE "hidden"
  BY DEF ActionBlock
<1>2. /\ AfterLeaving \in [Tab -> Nat]
      /\ \A t \in Tab : AfterLeaving[t] = 0
  <2>1. CASE currentContent = Nil \/ appearance[currentContent] = "hidden"
    <3>1. AfterLeaving = registrations
      BY <2>1 DEF AfterLeaving
    <3>2. \A t \in Tab : appearance[t] = "hidden"
      BY <2>1, NilIsNoTab DEF TabInv, OnlyContentAppears
    <3> QED BY <3>1, <3>2 DEF TabInv, RegistersWhileShown, Tab, Control, Connect, History
  <2>2. CASE currentContent # Nil /\ appearance[currentContent] # "hidden"
    <3>1. AfterLeaving = [registrations EXCEPT ![currentContent] = 0]
      BY <2>2 DEF AfterLeaving, ViewWillDisappear
    <3>2. \A t \in Tab \ {currentContent} : appearance[t] = "hidden"
      BY DEF TabInv, OnlyContentAppears
    <3>3. /\ registrations \in [Tab -> Nat]
          /\ currentContent \in Tab
      BY <2>2 DEF TabInv
    <3>4. \A t \in Tab \ {currentContent} : registrations[t] = 0
      BY <3>2 DEF TabInv, RegistersWhileShown, Tab, Control, Connect, History
    <3> QED BY <3>1, <3>3, <3>4
  <2> QED BY <2>1, <2>2
<1>3. CASE inWindow
  <2>1. registrations' = ViewWillAppear(v, AfterLeaving)
    BY <1>3 DEF ActionBlock
  <2>2. /\ registrations' \in [Tab -> Nat]
        /\ \A t \in Tab : registrations'[t] = IF t = Connect /\ t = v THEN 1 ELSE 0
    BY <1>2, <2>1 DEF ViewWillAppear
  <2>3. RegistersWhileShown'
    BY <1>1, <1>3, <2>2 DEF RegistersWhileShown, Tab, Control, Connect, History
  <2> QED BY <1>1, <2>2, <2>3
<1>4. CASE ~inWindow
  <2>1. registrations' = AfterLeaving
    BY <1>4 DEF ActionBlock
  <2>2. \A t \in Tab : appearance'[t] = "hidden"
    BY <1>1, <1>4
  <2>3. RegistersWhileShown'
    BY <1>2, <2>1, <2>2 DEF RegistersWhileShown, Tab, Control, Connect, History
  <2> QED BY <1>1, <1>2, <2>1, <2>3
<1> QED BY <1>3, <1>4

LEMMA SwitchOK ==
  ASSUME TabInv, NEW v \in Tab, ButtonClicked(v), inWindow' = inWindow
  PROVE  TabInv'
<1>1. ActionBlock(v)
  BY DEF ButtonClicked
<1>2. /\ childViewControllers' = {v}
      /\ currentContent' = v
      /\ Fills(contentView', v)
  BY <1>1, ContentComes
<1>3. /\ appearance' \in [Tab -> {"hidden", "appearing", "visible"}]
      /\ \A t \in Tab \ {v} : appearance'[t] = "hidden"
      /\ appearance'[v] = IF inWindow THEN "appearing" ELSE "hidden"
      /\ registrations' \in [Tab -> Nat]
      /\ RegistersWhileShown'
  BY <1>1, ContentRegisters
<1>4. selectedButton' = v /\ highlighted' = {v}
  BY NilIsNoTab DEF ButtonClicked, Deselect, TabInv, ContentIsOnlyChild
<1>5. ContentIsOnlyChild' /\ ContentFillsView'
  BY <1>2, <1>4, NilIsNoTab DEF Fills, ContentIsOnlyChild, ContentFillsView
<1>6. appearance'[v] # "hidden" <=> inWindow
  BY <1>3
<1>7. inWindow' <=> appearance'[v] # "hidden"
  BY <1>6, Zenon
<1>8. OnlyContentAppears'
  BY <1>2, <1>3, <1>7, Zenon DEF OnlyContentAppears
<1> QED BY <1>2, <1>3, <1>5, <1>8 DEF TabInv

LEMMA EntersWindowOK ==
  ASSUME TabInv, EntersWindow
  PROVE  TabInv'
<1>1. /\ currentContent \in Tab /\ currentContent # Nil
      /\ \A t \in Tab : appearance[t] = "hidden"
  <2>1. currentContent \in Tab /\ currentContent # Nil
    BY DEF EntersWindow, TabInv
  <2>2. appearance[currentContent] = "hidden"
    BY <2>1 DEF EntersWindow, TabInv, OnlyContentAppears
  <2> QED BY <2>1, <2>2 DEF TabInv, OnlyContentAppears
<1>2. /\ appearance' \in [Tab -> {"hidden", "appearing", "visible"}]
      /\ \A t \in Tab : appearance'[t] = IF t = currentContent THEN "appearing" ELSE "hidden"
  BY <1>1 DEF EntersWindow, TabInv
<1>3. \A t \in Tab : registrations[t] = 0
  BY <1>1 DEF TabInv, RegistersWhileShown, Tab, Control, Connect, History
<1>4. /\ registrations' \in [Tab -> Nat]
      /\ \A t \in Tab :
           registrations'[t] = IF t = Connect /\ t = currentContent THEN 1 ELSE 0
  BY <1>1, <1>3 DEF EntersWindow, ViewWillAppear, TabInv
<1>5. RegistersWhileShown'
  BY <1>2, <1>4 DEF RegistersWhileShown, Tab, Control, Connect, History
<1>6. currentContent' = currentContent /\ inWindow'
  BY Zenon DEF EntersWindow
<1>7. appearance'[currentContent] # "hidden"
  BY <1>1, <1>2
<1>8. OnlyContentAppears'
  BY <1>1, <1>2, <1>6, <1>7, Zenon DEF OnlyContentAppears
<1>9. ContentIsOnlyChild' /\ ContentFillsView'
  BY <1>1 DEF EntersWindow, TabInv, ContentIsOnlyChild, ContentFillsView
<1> QED BY <1>1, <1>2, <1>4, <1>5, <1>6, <1>8, <1>9 DEF TabInv

LEMMA ContentAppearsOK ==
  ASSUME TabInv, ContentAppears
  PROVE  TabInv'
<1>1. /\ currentContent \in Tab /\ currentContent # Nil
      /\ \A t \in Tab \ {currentContent} : appearance[t] = "hidden"
      /\ appearance[currentContent] = "appearing"
  <2>1. currentContent # Nil
    BY DEF ContentAppears, TabInv, ContentIsOnlyChild
  <2> QED BY <2>1 DEF ContentAppears, TabInv, OnlyContentAppears
<1>2. /\ appearance' \in [Tab -> {"hidden", "appearing", "visible"}]
      /\ \A t \in Tab : appearance'[t] = IF t = currentContent THEN "visible" ELSE "hidden"
  BY <1>1 DEF ContentAppears, TabInv
<1>3. \A t \in Tab :
        registrations[t] = IF t = Connect /\ t = currentContent THEN 1 ELSE 0
  BY <1>1 DEF TabInv, RegistersWhileShown, Tab, Control, Connect, History
<1>4. /\ registrations' \in [Tab -> Nat]
      /\ \A t \in Tab :
           registrations'[t] = IF t # History /\ t = currentContent THEN 1 ELSE 0
  BY <1>1, <1>3 DEF ContentAppears, ViewDidAppear, TabInv, Tab, Control, Connect, History
<1>5. RegistersWhileShown'
  BY <1>2, <1>4 DEF RegistersWhileShown, Tab, Control, Connect, History
<1>6. currentContent' = currentContent /\ inWindow'
  BY Zenon DEF ContentAppears
<1>7. appearance'[currentContent] # "hidden"
  BY <1>1, <1>2
<1>8. OnlyContentAppears'
  BY <1>1, <1>2, <1>6, <1>7, Zenon DEF OnlyContentAppears
<1>9. ContentIsOnlyChild' /\ ContentFillsView'
  BY <1>1 DEF ContentAppears, TabInv, ContentIsOnlyChild, ContentFillsView
<1> QED BY <1>1, <1>2, <1>4, <1>5, <1>6, <1>8, <1>9 DEF TabInv

LEMMA TabStepOK ==
  ASSUME TabInv, [TabNext]_tabVars
  PROVE  TabInv'
<1>1. CASE TabRelaunch
  BY <1>1, TabRelaunchOK
<1>2. CASE TabSwitches
  <2>1. PICK v \in Tab : ButtonClicked(v) /\ inWindow' = inWindow
    BY <1>2 DEF TabSwitches, ViewDidLoad, TapButton, RowSelected, Tab
  <2> QED BY <2>1, SwitchOK
<1>3. CASE EntersWindow
  BY <1>3, EntersWindowOK
<1>4. CASE ContentAppears
  BY <1>4, ContentAppearsOK
<1>5. CASE UNCHANGED tabVars
  BY <1>5 DEF tabVars, TabInv, ContentIsOnlyChild, OnlyContentAppears,
              RegistersWhileShown, ContentFillsView
<1> QED BY <1>1, <1>2, <1>3, <1>4, <1>5 DEF TabNext

(* The types TabInv says nothing of. *)
ContentViewOK == contentView \in [view : SUBSET Tab, constraints : SUBSET ContentConstraint]

TabTypes == ContentViewOK /\ inWindow \in BOOLEAN

LEMMA TabTypesInit == TabInit => TabTypes
<1>1. TabInit => ContentViewOK
  BY DEF TabInit, ContentViewOK
<1>2. TabInit => inWindow \in BOOLEAN
  BY DEF TabInit
<1> QED BY <1>1, <1>2, Zenon DEF TabTypes

LEMMA TabTypesStep ==
  ASSUME TabInv, TabTypes, [TabNext]_tabVars
  PROVE  TabTypes'
<1>1. CASE TabRelaunch
  BY <1>1 DEF TabRelaunch, TabTypes, ContentViewOK
<1>2. CASE TabSwitches
  <2>1. PICK v \in Tab : ButtonClicked(v)
    BY <1>2 DEF TabSwitches, ViewDidLoad, TapButton, RowSelected, Tab
  <2>2. inWindow' = inWindow
    BY <1>2, Zenon DEF TabSwitches, ViewDidLoad, TapButton, RowSelected
  <2>3. ActionBlock(v)
    BY <2>1 DEF ButtonClicked
  <2>4. Fills(contentView', v)
    BY <2>3, ContentComes
  <2>5. contentView' = [view |-> contentView'.view, constraints |-> contentView'.constraints]
    <3> DEFINE filled == FillWithSubView(RemoveContent(currentContent), v)
    <3>1. contentView' = [view |-> filled.view, constraints |-> filled.constraints]
      BY <2>3 DEF ActionBlock
    <3> HIDE DEF filled
    <3> QED BY <3>1
  <2>6. ContentViewOK'
    BY <2>4, <2>5 DEF Fills, ContentViewOK
  <2>7. inWindow' \in BOOLEAN
    BY <2>2, Zenon DEF TabTypes
  <2> QED BY <2>6, <2>7, Zenon DEF TabTypes
<1>3. CASE EntersWindow
  <2>1. contentView' = contentView /\ inWindow' = TRUE
    BY <1>3, Zenon DEF EntersWindow
  <2> QED BY <2>1 DEF TabTypes, ContentViewOK
<1>4. CASE ContentAppears \/ UNCHANGED tabVars
  <2>1. contentView' = contentView /\ inWindow' = inWindow
    BY <1>4, Zenon DEF ContentAppears, tabVars
  <2> QED BY <2>1, Zenon DEF TabTypes, ContentViewOK
<1> QED BY <1>1, <1>2, <1>3, <1>4 DEF TabNext

LEMMA TabInvImplies ==
  ASSUME TabInv
  PROVE  ContentFillsView /\ HighlightShowsContent
BY DEF TabInv, ContentIsOnlyChild, HighlightShowsContent
-------------------------------------------------------------------------------
DatesDiffer(objects) ==
  \A o, p \in objects : o.activatedDate = p.activatedDate => o = p

Sorted(rows) ==
  \A i, j \in DOMAIN rows : i < j => rows[i].activatedDate > rows[j].activatedDate

Later(objects, o) == {p \in objects : p.activatedDate > o.activatedDate}

LEMMA DatesAreNumbers ==
  ASSUME NEW objects \in SUBSET LKJHistory, NEW o \in objects
  PROVE  o.activatedDate \in Nat
BY DateAssumption DEF LKJHistory

(* An object has more objects after it the earlier it is.                  *)
LEMMA RanksFollowDates ==
  ASSUME NEW objects \in SUBSET LKJHistory, IsFiniteSet(objects),
         NEW o \in objects, NEW p \in objects, o.activatedDate > p.activatedDate
  PROVE  Cardinality(Later(objects, o)) < Cardinality(Later(objects, p))
<1>1. /\ o.activatedDate \in Nat /\ p.activatedDate \in Nat
      /\ \A q \in objects : q.activatedDate \in Nat
  BY DatesAreNumbers
<1>2. Later(objects, o) \subseteq Later(objects, p)
  BY <1>1 DEF Later
<1>3. o \in Later(objects, p) /\ o \notin Later(objects, o)
  BY <1>1 DEF Later
<1>4. Later(objects, p) \subseteq objects
  BY DEF Later
<1> HIDE DEF Later
<1>5. IsFiniteSet(Later(objects, p))
  BY <1>4, FS_Subset
<1>6. /\ IsFiniteSet(Later(objects, o))
      /\ Cardinality(Later(objects, o)) <= Cardinality(Later(objects, p))
      /\ Cardinality(Later(objects, o)) # Cardinality(Later(objects, p))
  BY <1>2, <1>3, <1>5, FS_Subset
<1>7. Cardinality(Later(objects, o)) \in Nat /\ Cardinality(Later(objects, p)) \in Nat
  BY <1>5, <1>6, FS_CardinalityType
<1> QED BY <1>6, <1>7

(* There is an order by date: each object at the place its rank gives it.  *)
LEMMA SortedRowsExist ==
  ASSUME NEW objects \in SUBSET LKJHistory, IsFiniteSet(objects), DatesDiffer(objects)
  PROVE  \E rows \in [1..Cardinality(objects) -> objects] : Sorted(rows)
<1> DEFINE n == Cardinality(objects)
           rank == [o \in objects |-> Cardinality(Later(objects, o)) + 1]
<1>1. n \in Nat /\ IsFiniteSet(1..n) /\ Cardinality(1..n) = n
  BY FS_CardinalityType, FS_Interval
<1>2. ASSUME NEW o \in objects PROVE rank[o] \in 1..n
  <2>1. o \notin Later(objects, o)
    <3>1. o.activatedDate \in Nat
      BY DatesAreNumbers
    <3> QED BY <3>1 DEF Later
  <2>2. Later(objects, o) \subseteq objects
    BY DEF Later
  <2>3. /\ IsFiniteSet(Later(objects, o))
        /\ Cardinality(Later(objects, o)) <= n
        /\ Cardinality(Later(objects, o)) # n
    BY <2>1, <2>2, FS_Subset
  <2>4. Cardinality(Later(objects, o)) \in Nat
    BY <2>3, FS_CardinalityType
  <2> HIDE DEF n
  <2> QED BY <1>1, <2>3, <2>4
<1>3. ASSUME NEW o \in objects, NEW p \in objects, o.activatedDate > p.activatedDate
      PROVE  rank[o] < rank[p]
  <2>1. Cardinality(Later(objects, o)) < Cardinality(Later(objects, p))
    BY <1>3, RanksFollowDates
  <2>2. rank[o] \in Int /\ rank[p] \in Int
    BY <1>2
  <2>3. /\ rank[o] = Cardinality(Later(objects, o)) + 1
        /\ rank[p] = Cardinality(Later(objects, p)) + 1
    OBVIOUS
  <2>4. Cardinality(Later(objects, o)) \in Nat /\ Cardinality(Later(objects, p)) \in Nat
    <3>1. Later(objects, o) \subseteq objects /\ Later(objects, p) \subseteq objects
      BY DEF Later
    <3> QED BY <3>1, FS_Subset, FS_CardinalityType
  <2> QED BY <2>1, <2>3, <2>4
<1>4. ASSUME NEW o \in objects, NEW p \in objects, o # p PROVE rank[o] # rank[p]
  <2>1. o.activatedDate # p.activatedDate
    BY <1>4 DEF DatesDiffer
  <2>2. o.activatedDate > p.activatedDate \/ p.activatedDate > o.activatedDate
    BY <2>1, DatesAreNumbers
  <2>3. rank[o] < rank[p] \/ rank[p] < rank[o]
    BY <1>3, <2>2
  <2>4. rank[o] \in Int /\ rank[p] \in Int
    BY <1>2
  <2> QED BY <2>3, <2>4
<1>5. rank \in Injection(objects, 1..n)
  BY <1>2, <1>4 DEF Injection, IsInjective
<1>6. rank \in Surjection(objects, 1..n)
  BY <1>1, <1>5, FS_Injection
<1>7. \A i \in 1..n : \E o \in objects : rank[o] = i
  BY <1>6 DEF Surjection
<1> DEFINE rows == [i \in 1..n |-> CHOOSE o \in objects : rank[o] = i]
<1> HIDE DEF rank
<1>8. ASSUME NEW i \in 1..n PROVE rows[i] \in objects /\ rank[rows[i]] = i
  BY <1>7
<1>9. ASSUME NEW i \in 1..n, NEW j \in 1..n, i < j
      PROVE  rows[i].activatedDate > rows[j].activatedDate
  <2> DEFINE o == rows[i]
             p == rows[j]
  <2>1. o \in objects /\ p \in objects /\ rank[o] = i /\ rank[p] = j
    BY <1>8
  <2> HIDE DEF o, p
  <2>2. o # p
    BY <1>9, <2>1
  <2>3. o.activatedDate # p.activatedDate
    BY <2>1, <2>2 DEF DatesDiffer
  <2>4. ~(p.activatedDate > o.activatedDate)
    <3>1. SUFFICES ASSUME p.activatedDate > o.activatedDate PROVE FALSE
      OBVIOUS
    <3>2. rank[p] < rank[o]
      BY <1>3, <2>1, <3>1
    <3>3. i \in Int /\ j \in Int
      BY <1>1
    <3> QED BY <1>9, <2>1, <3>2, <3>3
  <2>5. o.activatedDate \in Nat /\ p.activatedDate \in Nat
    BY <2>1, DatesAreNumbers
  <2>6. o.activatedDate > p.activatedDate
    BY <2>3, <2>4, <2>5
  <2> QED BY <2>6 DEF o, p
<1>10. rows \in [1..n -> objects] /\ DOMAIN rows = 1..n
  BY <1>8
<1> HIDE DEF rows
<1>11. Sorted(rows)
  BY <1>9, <1>10 DEF Sorted
<1> QED BY <1>10, <1>11

(***************************************************************************)
(* SortedResults has each object once, the latest first.                   *)
(***************************************************************************)
LEMMA SortedResultsIs ==
  ASSUME NEW objects \in SUBSET LKJHistory, IsFiniteSet(objects), DatesDiffer(objects)
  PROVE  /\ SortedResults(objects) \in Bijection(1..Cardinality(objects), objects)
         /\ DOMAIN SortedResults(objects) = 1..Cardinality(objects)
         /\ Sorted(SortedResults(objects))
<1> DEFINE n == Cardinality(objects)
           rows == SortedResults(objects)
<1>1. rows \in [1..n -> objects] /\ Sorted(rows)
  BY SortedRowsExist DEF SortedResults, Sorted
<1>2. n \in Nat /\ IsFiniteSet(1..n) /\ Cardinality(1..n) = n
  BY FS_CardinalityType, FS_Interval
<1> HIDE DEF rows, n
<1>3. ASSUME NEW i \in 1..n, NEW j \in 1..n, i # j PROVE rows[i] # rows[j]
  <2>1. i < j \/ j < i
    BY <1>2, <1>3
  <2>2. \/ rows[i].activatedDate > rows[j].activatedDate
        \/ rows[j].activatedDate > rows[i].activatedDate
    BY <1>1, <2>1 DEF Sorted
  <2>3. rows[i] \in objects /\ rows[j] \in objects
    BY <1>1
  <2>4. rows[i].activatedDate \in Nat /\ rows[j].activatedDate \in Nat
    BY <2>3, DatesAreNumbers
  <2> QED BY <2>2, <2>4
<1>4. rows \in Injection(1..n, objects)
  BY <1>1, <1>3 DEF Injection, IsInjective
<1>5. rows \in Surjection(1..n, objects)
  BY <1>2, <1>4, FS_Injection DEF n
<1> QED BY <1>1, <1>4, <1>5 DEF Bijection, rows, n

(* What the copy says of the objects it was made of.                       *)
LEMMA CellsForIs ==
  ASSUME NEW objects \in SUBSET LKJHistory, IsFiniteSet(objects), DatesDiffer(objects)
  PROVE  /\ CellsFor(objects)
              \in [1..Cardinality(objects) -> [colour : {"locked", "unlocked"}, date : Date]]
         /\ CellsFor(objects) \in Seq([colour : {"locked", "unlocked"}, date : Date])
         /\ Len(CellsFor(objects)) = Cardinality(objects)
<1> DEFINE n == Cardinality(objects)
           rows == SortedResults(objects)
           cell == [colour : {"locked", "unlocked"}, date : Date]
<1>1. rows \in [1..n -> objects] /\ DOMAIN rows = 1..n
  BY SortedResultsIs DEF Bijection, Injection
<1>2. n \in Nat
  BY FS_CardinalityType
<1>3. ASSUME NEW o \in objects PROVE Cell(o) \in cell
  BY DEF Cell, LKJHistory
<1>4. CellsFor(objects) = [i \in 1..n |-> Cell(rows[i])]
  BY <1>1 DEF CellsFor
<1> HIDE DEF n, rows
<1>5. CellsFor(objects) \in [1..n -> cell]
  <2>1. \A i \in 1..n : Cell(rows[i]) \in cell
    BY <1>1, <1>3
  <2> HIDE DEF cell
  <2> QED BY <1>4, <2>1
<1> HIDE DEF cell
<1>6. CellsFor(objects) \in Seq(cell) /\ Len(CellsFor(objects)) = n
  BY <1>2, <1>5
<1> QED BY <1>5, <1>6 DEF n, cell

LEMMA CopyIsComplete ==
  ASSUME stored \subseteq LKJHistory, IsFiniteSet(stored), DatesDiffer(stored),
         cells = CellsFor(stored), results
  PROVE  HistoryComplete
<1> DEFINE n == Cardinality(stored)
           rows == SortedResults(stored)
<1>1. /\ rows \in [1..n -> stored] /\ DOMAIN rows = 1..n
      /\ \A o \in stored : \E i \in 1..n : rows[i] = o
      /\ Sorted(rows)
  BY SortedResultsIs DEF Bijection, Injection, Surjection
<1>2. Len(cells) = n /\ DOMAIN cells = 1..n
  BY CellsForIs
<1>3. ASSUME NEW i \in 1..n PROVE cells[i] = Cell(rows[i])
  BY <1>1 DEF CellsFor
<1> HIDE DEF n, rows
<1>4. ASSUME NEW o \in stored
      PROVE  \E i \in DOMAIN cells :
               cells[i].date = o.activatedDate /\ (cells[i].colour = "locked" <=> o.isLockAction)
  <2>1. PICK i \in 1..n : rows[i] = o
    BY <1>1
  <2>2. cells[i] = Cell(o)
    BY <1>3, <2>1
  <2>3. Cell(o).date = o.activatedDate /\ (Cell(o).colour = "locked" <=> o.isLockAction)
    BY DEF Cell
  <2> QED BY <1>2, <2>2, <2>3
<1>5. ASSUME NEW i \in DOMAIN cells, NEW j \in DOMAIN cells, i < j
      PROVE  cells[i].date > cells[j].date
  <2>1. rows[i].activatedDate > rows[j].activatedDate
    BY <1>1, <1>2, <1>5 DEF Sorted
  <2>2. cells[i].date = rows[i].activatedDate /\ cells[j].date = rows[j].activatedDate
    BY <1>2, <1>3 DEF Cell
  <2> QED BY <2>1, <2>2
<1> QED BY <1>2, <1>4, <1>5 DEF HistoryComplete, n

(* It has a cell of each colour for each object of that kind.              *)
LEMMA CopyCounts ==
  ASSUME NEW objects \in SUBSET LKJHistory, IsFiniteSet(objects), DatesDiffer(objects)
  PROVE  /\ Cardinality({i \in DOMAIN CellsFor(objects) : CellsFor(objects)[i].colour = "locked"})
              = Cardinality({o \in objects : o.isLockAction})
         /\ Cardinality({i \in DOMAIN CellsFor(objects) : CellsFor(objects)[i].colour = "unlocked"})
              = Cardinality({o \in objects : ~o.isLockAction})
<1> DEFINE n == Cardinality(objects)
           rows == SortedResults(objects)
           copy == CellsFor(objects)
<1>1. /\ rows \in [1..n -> objects] /\ IsInjective(rows)
      /\ \A o \in objects : \E i \in 1..n : rows[i] = o
  BY SortedResultsIs DEF Bijection, Injection, Surjection
<1>2. IsFiniteSet(1..n)
  BY FS_CardinalityType, FS_Interval
<1>3. DOMAIN copy = 1..n
  BY CellsForIs
<1>4. ASSUME NEW i \in 1..n
      PROVE  /\ copy[i].colour = "locked" <=> rows[i].isLockAction
             /\ copy[i].colour = "unlocked" <=> ~rows[i].isLockAction
  <2>1. copy[i] = Cell(rows[i])
    BY <1>1 DEF CellsFor
  <2> HIDE DEF copy, rows
  <2> QED BY <2>1 DEF Cell
<1> HIDE DEF n, rows, copy
<1>5. ASSUME NEW kind \in SUBSET objects
      PROVE  Cardinality({i \in 1..n : rows[i] \in kind}) = Cardinality(kind)
  <2> DEFINE P == {i \in 1..n : rows[i] \in kind}
             f == [i \in P |-> rows[i]]
  <2>1. IsFiniteSet(P)
    BY <1>2, FS_Subset
  <2>2. f \in [P -> kind]
    OBVIOUS
  <2>3. IsInjective(f)
    BY <1>1 DEF IsInjective
  <2>4. \A o \in kind : \E i \in P : f[i] = o
    <3>1. SUFFICES ASSUME NEW o \in kind PROVE \E i \in P : f[i] = o
      OBVIOUS
    <3>2. PICK i \in 1..n : rows[i] = o
      BY <1>1
    <3> QED BY <3>2
  <2>5. f \in Bijection(P, kind)
    <3> HIDE DEF f, P
    <3> QED BY <2>2, <2>3, <2>4 DEF Bijection, Injection, Surjection
  <2> HIDE DEF f
  <2>6. ExistsBijection(P, kind)
    BY <2>5 DEF ExistsBijection
  <2> HIDE DEF P
  <2>7. Cardinality(kind) = Cardinality(P)
    BY <2>1, <2>6, FS_Bijection
  <2> QED BY <2>7 DEF P
<1> DEFINE locks == {o \in objects : o.isLockAction}
           unlocks == {o \in objects : ~o.isLockAction}
<1>6. /\ {i \in DOMAIN copy : copy[i].colour = "locked"} = {i \in 1..n : rows[i] \in locks}
      /\ {i \in DOMAIN copy : copy[i].colour = "unlocked"} = {i \in 1..n : rows[i] \in unlocks}
  BY <1>1, <1>3, <1>4
<1>7. locks \subseteq objects /\ unlocks \subseteq objects
  OBVIOUS
<1> HIDE DEF locks, unlocks
<1>8. /\ Cardinality({i \in DOMAIN copy : copy[i].colour = "locked"}) = Cardinality(locks)
      /\ Cardinality({i \in DOMAIN copy : copy[i].colour = "unlocked"}) = Cardinality(unlocks)
  BY <1>5, <1>6, <1>7
<1> QED BY <1>8 DEF copy, locks, unlocks
=============================================================================
