---------------------------- MODULE XtConstraint ----------------------------
(***************************************************************************)
(* The extended constraints of AutolayoutHelper.m, such as                 *)
(* "X:v.width <= superview.width / 2 - m": a helper whose client adds and  *)
(* removes views, sets metrics and adds such constraints.                  *)
(*                                                                         *)
(* A text is the record of the nine ranges its pattern captures; spaces    *)
(* and the shape of identifiers and numbers are left out.  A factor or a   *)
(* constant is a sign with a value, a number or the name of a metric, or   *)
(* Nil.  A multiplier is a fraction, <<numerator, denominator>>.           *)
(***************************************************************************)
EXTENDS AutolayoutHelper, Integers, FiniteSetsExt

CONSTANTS
  Number,          \* bound: the numbers and the values of metrics
  Metric,          \* the names of metrics
  MaxConstraints   \* bound: constraints on the view

ASSUME XtAssumption ==
  /\ Number \subseteq Int
  /\ "superview" \notin Key
  /\ Nil \notin Number \cup Metric
  /\ MaxConstraints \in Nat

VARIABLES
  helper,
  metrics,   \* of each name, its value or Nil
  error      \* the reason of the exception a text raised, or "none"

xtVars == <<helper, metrics, error>>

(* Two attributes are kept, of the words that are none one, and one of the *)
(* runs of = > and < that are no relation.                                 *)
Attribute == {"width", "height"}
AttributeWord == Attribute \cup {"Width"}
Relation == {"==", ">=", "<="}
MatchedRelation == Relation \cup {"=>"}

Value == {n \in Number : n >= 0} \cup Metric
Signed(signs) == {Nil} \cup signs \X Value

Item == Key \cup {"superview"}

Text ==
  [item1 : Item, attr1 : AttributeWord,
   relation : MatchedRelation \cup {"!="},
   item2 : Item, attr2 : AttributeWord,
   multiplier : Signed({"*", "/"}), constant : Signed({"+", "-"})]

XtInit ==
  /\ helper = EmptyHelper
  /\ metrics = [m \in Metric |-> Nil]
  /\ error = "none"
-----------------------------------------------------------------------------
(* findViewFromKey:. *)
FindView(h, key) == IF key = "superview" THEN "superview" ELSE h.subViews[key]

(* getFloatFromValue:, Nil for a metric that was not provided. *)
GetFloatFromValue(value) == IF value \in Metric THEN metrics[value] ELSE value

MissingMetric(signed) == signed # Nil /\ GetFloatFromValue(signed[2]) = Nil

(* What may be wrong with a text, in the order parseXtConstraint: asks.    *)
Faults(h, text) ==
  <<text.relation \notin MatchedRelation,
    FindView(h, text.item1) = Nil,
    FindView(h, text.item2) = Nil,
    text.attr1 \notin Attribute,
    text.attr2 \notin Attribute,
    text.relation \notin Relation,
    MissingMetric(text.multiplier),
    MissingMetric(text.constant)>>

Reason == <<"pattern", "view", "view", "attribute", "attribute", "relation", "metric", "metric">>

ErrorOf(h, text) ==
  LET found == {i \in DOMAIN Reason : Faults(h, text)[i]}
  IN IF found = {} THEN "none" ELSE Reason[Min(found)]

NotInvertedMutant(signed) ==
  IF signed = Nil THEN <<1, 1>> ELSE <<GetFloatFromValue(signed[2]), 1>>

Multiplier(signed) ==
  IF signed = Nil THEN <<1, 1>>
  ELSE LET value == GetFloatFromValue(signed[2])
       IN IF signed[1] = "/" THEN <<1, value>> ELSE <<value, 1>>

ConstantOf(signed) ==
  IF signed = Nil THEN 0
  ELSE LET value == GetFloatFromValue(signed[2])
       IN IF signed[1] = "-" THEN -value ELSE value

SameAttributeMutant(h, text) == <<FindView(h, text.item2), text.attr1>>

(* The item and the attribute on each side. *)
FirstAnchor(h, text) == <<FindView(h, text.item1), text.attr1>>
SecondAnchor(h, text) == <<FindView(h, text.item2), text.attr2>>

(* constraintWithItem:attribute:relatedBy:toItem:attribute:... of a text   *)
(* without fault; and, as history, the text with what its names stood for. *)
ParseXtConstraint(h, text) ==
  [views |-> {FindView(h, text.item1), FindView(h, text.item2)},
   first |-> FirstAnchor(h, text),
   relation |-> text.relation,
   second |-> SecondAnchor(h, text),
   multiplier |-> Multiplier(text.multiplier),
   constant |-> ConstantOf(text.constant),
   written |-> text, subViews |-> h.subViews, metrics |-> metrics]
-----------------------------------------------------------------------------
AddViewWithKey(v, key) ==
  /\ helper' = AddView(helper, v, key)
  /\ UNCHANGED <<metrics, error>>

(* removeViewsWithKeys: of one key. *)
RemoveViewWithKey(key) ==
  /\ helper.subViews[key] # Nil
  /\ helper' = [RemoveFromSuperview(helper, {helper.subViews[key]}) EXCEPT !.subViews[key] = Nil]
  /\ UNCHANGED <<metrics, error>>

SetMetric(m, value) ==
  /\ metrics' = [metrics EXCEPT ![m] = value]
  /\ UNCHANGED <<helper, error>>

(* addConstraint: of an extended constraint.  Nothing in the app catches   *)
(* an exception: the app dies, and what it does next it does afresh.       *)
AddXtConstraint(text) ==
  /\ Cardinality(helper.constraints) < MaxConstraints
  /\ error' = ErrorOf(helper, text)
  /\ IF error' = "none"
     THEN /\ helper' = [helper EXCEPT !.constraints = @ \cup {ParseXtConstraint(helper, text)}]
          /\ UNCHANGED metrics
     ELSE /\ helper' = EmptyHelper
          /\ metrics' = [m \in Metric |-> Nil]

XtNext ==
  \/ \E v \in View, key \in Key : AddViewWithKey(v, key)
  \/ \E key \in Key : RemoveViewWithKey(key)
  \/ \E m \in Metric, value \in Number : SetMetric(m, value)
  \/ \E text \in Text : AddXtConstraint(text)

XtSpec == XtInit /\ [][XtNext]_xtVars
-----------------------------------------------------------------------------
Compares(relation, a, b) ==
  CASE relation = "==" -> a = b
    [] relation = ">=" -> a >= b
    [] relation = "<=" -> a <= b

(* UIKit: the first anchor at x and the second at y satisfy it. *)
SatisfiedAt(c, x, y) ==
  LET num == c.multiplier[1]
      den == c.multiplier[2]
  IN Compares(c.relation, x * den * den, num * den * y + c.constant * den * den)

Satisfied(c, layout) == SatisfiedAt(c, layout[c.first], layout[c.second])

(* What the text of c names: the view of a key, or the view of the helper, *)
(* and the value of a number or of a metric; Nil if there is none.         *)
ViewMeantBy(c, item) == IF item \in Key THEN c.subViews[item] ELSE "superview"

MeantBy(c, signed) == IF signed[2] \in Metric THEN c.metrics[signed[2]] ELSE signed[2]

FirstWritten(c) == <<ViewMeantBy(c, c.written.item1), c.written.attr1>>
SecondWritten(c) == <<ViewMeantBy(c, c.written.item2), c.written.attr2>>

(* The text says something: all it names is there.                         *)
MeansSomething(c) ==
  /\ c.written.relation \in Relation
  /\ \A anchor \in {FirstWritten(c), SecondWritten(c)} : anchor[1] # Nil /\ anchor[2] \in Attribute
  /\ \A signed \in {c.written.multiplier, c.written.constant} : signed # Nil => MeantBy(c, signed) # Nil

(* What the text of c says of x and y, with its factor left out: a         *)
(* constant that is subtracted is added on the other side.                 *)
Added(c, sign) ==
  LET constant == c.written.constant
  IN IF constant # Nil /\ constant[1] = sign THEN MeantBy(c, constant) ELSE 0

Says(c, x, y) == Compares(c.written.relation, x + Added(c, "-"), y + Added(c, "+"))

(* A layout gives each anchor a value.  "a / f" is taken where a is a      *)
(* multiple of f; by 0 it says nothing.                                    *)
Layouts(c) == [{c.first, c.second, FirstWritten(c), SecondWritten(c)} -> Number]

MeansAsWritten(c) ==
  LET factor == c.written.multiplier
      f == MeantBy(c, factor)
  IN \A layout \in Layouts(c) :
       LET x == layout[FirstWritten(c)]
           y == layout[SecondWritten(c)]
       IN /\ factor = Nil => (Satisfied(c, layout) <=> Says(c, x, y))
          /\ factor # Nil /\ factor[1] = "*" => (Satisfied(c, layout) <=> Says(c, x, y * f))
          /\ factor # Nil /\ factor[1] = "/" /\ f # 0 =>
               \A z \in Number : y = f * z => (Satisfied(c, layout) <=> Says(c, x, z))

(***************************************************************************)
(* Every constraint on the view comes from a text whose relation,          *)
(* attributes, views and metrics all existed, any other having raised, and *)
(* holds in just the layouts of which the text is true: for every metric   *)
(* it may have been parsed with, one that is negative included, whatever   *)
(* has been added, removed, set or refused before and since.               *)
(***************************************************************************)
ParsedAsWritten == \A c \in helper.constraints : MeansSomething(c) /\ MeansAsWritten(c)
=============================================================================
