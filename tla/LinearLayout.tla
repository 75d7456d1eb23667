---------------------------- MODULE LinearLayout ----------------------------
(***************************************************************************)
(* LinearLayout.m: views put one after the other, each append taking the   *)
(* end of the chain over from the view before.  The helper's keys are the  *)
(* numbers of viewKeyForIndex:.  Of the three margins, which differ in     *)
(* nothing but where they go, the one at the ends is kept: it is used for  *)
(* the first view and again for each last one, and may change in between.  *)
(***************************************************************************)
EXTENDS AutolayoutHelper

CONSTANT Margin   \* the values of marginEnds

ASSUME LayoutAssumption ==
  /\ IsFiniteSet(View)
  /\ 1..Cardinality(View) \subseteq Key
  /\ TemporalKey = {"end align"}
  /\ Margin # {}

VARIABLES
  layout,         \* the helper
  numberOfViews,
  marginEnds,
  metrics         \* what "e" stands for in the constraints being parsed

vars == <<layout, numberOfViews, marginEnds, metrics>>

Init ==
  /\ layout = EmptyHelper
  /\ numberOfViews = 0
  /\ marginEnds = CHOOSE m \in Margin : TRUE
  /\ metrics = marginEnds

SetMarginEnds(m) ==
  /\ marginEnds' = m
  /\ UNCHANGED <<layout, numberOfViews, metrics>>

Size(key) == [kind |-> "size", names |-> {key}]
Start(key) == [kind |-> "start", names |-> {key}, e |-> marginEnds]
Link(previousViewKey, key) == [kind |-> "link", names |-> {previousViewKey, key}]
End(key) == [kind |-> "end", names |-> {key}, e |-> marginEnds]
Sides(key) == [kind |-> "sides", names |-> {key}]

AlignToPrevious(h, i) ==
  AddConstraints(h, <<IF i = 1 THEN Start(i) ELSE Link(i - 1, i)>>)

AddEndMutant(h, i) == AddConstraints(h, <<End(i)>>)

AlignToEnd(h, i) == SetConstraints(h, <<End(i)>>, "end align")

(* A view is appended once; it is the caller's to keep to that. *)
AppendSubview(v, sized) ==
  /\ v \notin layout.view
  /\ metrics' = marginEnds
  /\ numberOfViews' = numberOfViews + 1
  /\ LET i == numberOfViews + 1
         added == AddView(layout, v, i)
         withSize == IF sized THEN AddConstraints(added, <<Size(i)>>) ELSE added
     IN layout' = AddConstraints(AlignToEnd(AlignToPrevious(withSize, i), i), <<Sides(i)>>)
  /\ UNCHANGED marginEnds

Next ==
  \/ \E m \in Margin : SetMarginEnds(m)
  \/ \E v \in View, sized \in BOOLEAN : AppendSubview(v, sized)

Spec == Init /\ [][Next]_vars
-----------------------------------------------------------------------------
OfKind(kind) == {c \in layout.constraints : c.text.kind = kind}

ViewAt(i) == layout.subViews[i]

(***************************************************************************)
(* LinearLayout.h:22, "Appends a view following the orientation": however  *)
(* many have been appended, they make one chain.  One constraint starts it *)
(* at the first view, one joins each view to the next, and of the end      *)
(* constraints each append made only the last view's is left, at the       *)
(* margin of that append.                                                  *)
(***************************************************************************)
Chain ==
  /\ Cardinality(OfKind("start")) = (IF numberOfViews = 0 THEN 0 ELSE 1)
  /\ \A c \in OfKind("start") : c.views = {ViewAt(1)}
  /\ Cardinality(OfKind("end")) = (IF numberOfViews = 0 THEN 0 ELSE 1)
  /\ \A c \in OfKind("end") : c.views = {ViewAt(numberOfViews)} /\ c.text.e = metrics
  /\ Cardinality(OfKind("link")) = (IF numberOfViews = 0 THEN 0 ELSE numberOfViews - 1)
  /\ \A i \in 1..(numberOfViews - 1) :
       \E c \in OfKind("link") : c.views = {ViewAt(i), ViewAt(i + 1)}
  /\ \A i \in 1..numberOfViews :
       Cardinality({c \in OfKind("sides") : c.views = {ViewAt(i)}}) = 1
=============================================================================
