-------------------------- MODULE AutolayoutHelper --------------------------
(***************************************************************************)
(* The methods of AutolayoutHelper.m as operators on a helper: a record of *)
(* the helper's dictionaries and of the view it was given.                 *)
(*                                                                         *)
(*   view         the subviews of the view                                 *)
(*   constraints  the constraints on the view                              *)
(*   subViews     the subview each key stands for, or Nil                  *)
(*   temporal     the constraints last set for each key of setConstraints: *)
(*                                                                         *)
(* A constraint is an object, with an identity of its own: a text added    *)
(* twice makes two.  The several NSLayoutConstraints one text stands for   *)
(* are added and removed together and count as one.                        *)
(***************************************************************************)
EXTENDS Naturals, FiniteSets, Sequences, Functions

CONSTANTS
  View,         \* the views that may be subviews
  Key,          \* the keys constraints name them by
  TemporalKey,  \* the keys of setConstraints:forKey:
  Nil           \* nothing

ASSUME HelperAssumption == Nil \notin View

NewHelper(subviews, constraints) ==
  [view |-> subviews,
   constraints |-> constraints,
   subViews |-> [k \in Key |-> Nil],
   temporal |-> [t \in TemporalKey |-> {}]]

EmptyHelper == NewHelper({}, {})

(* Objects still referred to keep their identity; that of others is free.  *)
IdsInUse(h) ==
  {c.id : c \in h.constraints \cup UNION {h.temporal[t] : t \in TemporalKey}}

FreshIds(h, n) ==
  CHOOSE f \in [1..n -> 1..(Cardinality(IdsInUse(h)) + n)] :
    IsInjective(f) /\ Range(f) \cap IdsInUse(h) = {}

(* findViewFromKey: for each key a text names. *)
FindViews(h, text) == {h.subViews[k] : k \in text.names}

(* parseConstraint: of an array of texts. *)
ParseConstraints(h, texts) ==
  {[id |-> FreshIds(h, Len(texts))[i],
    text |-> texts[i],
    views |-> FindViews(h, texts[i])] : i \in 1..Len(texts)}

AddConstraints(h, texts) ==
  [h EXCEPT !.constraints = @ \cup ParseConstraints(h, texts)]

(* configureView: makes a helper of its own for a view, which may have     *)
(* subviews and constraints already.                                       *)
ConfigureView(on, subViews, texts) ==
  LET new == NewHelper(on.view \cup (Range(subViews) \ {Nil}), on.constraints)
  IN AddConstraints([new EXCEPT !.subViews = subViews], texts)

FillWithSubView(on, v) ==
  ConfigureView(on, [k \in Key |-> IF k = "v" THEN v ELSE Nil],
                <<[axis |-> "H", names |-> {"v"}], [axis |-> "V", names |-> {"v"}]>>)

(* Those set before for the key go, then the new ones are added and kept.  *)
SetConstraints(h, texts, key) ==
  LET removed == [h EXCEPT !.constraints = @ \ h.temporal[key], !.temporal[key] = {}]
      new == ParseConstraints(removed, texts)
  IN [removed EXCEPT !.constraints = @ \cup new, !.temporal[key] = new]

AddView(h, v, key) == [h EXCEPT !.subViews[key] = v, !.view = @ \cup {v}]

(* UIKit: a view that leaves its superview takes its constraints with it.  *)
RemoveFromSuperview(h, views) ==
  [h EXCEPT !.view = @ \ views,
            !.constraints = {c \in @ : c.views \cap views = {}}]
=============================================================================
