------------------------- MODULE XtConstraint_proofs -------------------------
(* What an extended constraint means, for any views, keys and numbers.     *)
EXTENDS XtConstraint, TLAPS

XtTypeOK ==
  /\ metrics \in [Metric -> Number \cup {Nil}]
  /\ "constraints" \in DOMAIN helper

(* Multiplying both sides by a square other than 0 changes nothing.        *)
LEMMA SquaresKeepOrder ==
  ASSUME NEW a \in Int, NEW b \in Int, NEW k \in Int, k # 0
  PROVE  /\ (a * k * k >= b * k * k) <=> a >= b
         /\ (a * k * k <= b * k * k) <=> a <= b
         /\ (a * k * k = b * k * k) <=> a = b
<1> DEFINE q == k * k
<1>1. q \in Int /\ q > 0
  <2>1. CASE k > 0
    BY <2>1
  <2>2. CASE k < 0
    BY <2>2
  <2> QED BY <2>1, <2>2
<1>2. a * k * k = a * q /\ b * k * k = b * q
  OBVIOUS
<1> HIDE DEF q
<1>3. ASSUME NEW m \in Int, NEW n \in Int, m > n PROVE m * q > n * q
  <2>1. (m - n) * q > 0
    BY <1>1, <1>3
  <2>2. (m - n) * q = m * q - n * q
    BY <1>1
  <2> QED BY <1>1, <2>1, <2>2
<1>4. a * q \in Int /\ b * q \in Int
  BY <1>1
<1>5. CASE a > b
  <2>1. a * q > b * q
    BY <1>3, <1>5
  <2> QED BY <1>2, <1>4, <1>5, <2>1
<1>6. CASE b > a
  <2>1. b * q > a * q
    BY <1>3, <1>6
  <2> QED BY <1>2, <1>4, <1>6, <2>1
<1>7. CASE a = b
  BY <1>2, <1>4, <1>7
<1> QED BY <1>5, <1>6, <1>7

LEMMA ScaledCompare ==
  ASSUME NEW a \in Int, NEW b \in Int, NEW k \in Int, k # 0,
         NEW relation \in Relation
  PROVE  Compares(relation, a * k * k, b * k * k) <=> Compares(relation, a, b)
<1>1. /\ (a * k * k >= b * k * k) <=> a >= b
      /\ (a * k * k <= b * k * k) <=> a <= b
      /\ (a * k * k = b * k * k) <=> a = b
  BY SquaresKeepOrder
<1> QED BY <1>1 DEF Compares, Relation

(* A constant added on one side is one taken from the other.               *)
LEMMA MovedCompare ==
  ASSUME NEW a \in Int, NEW b \in Int, NEW c \in Int, NEW relation \in Relation
  PROVE  Compares(relation, a, b + (-c)) <=> Compares(relation, a + c, b)
BY DEF Compares, Relation

(* A text that raises nothing has no fault.                                *)
LEMMA AcceptedIsFaultless ==
  ASSUME NEW h, NEW text, ErrorOf(h, text) = "none", NEW i \in DOMAIN Reason
  PROVE  ~Faults(h, text)[i]
<1> DEFINE found == {j \in DOMAIN Reason : Faults(h, text)[j]}
<1>1. SUFFICES ASSUME found # {} PROVE FALSE
  BY DEF ErrorOf
<1>2. DOMAIN Reason = 1..8
  BY DEF Reason
<1>3. \E j \in found : \A k \in found : j <= k
  <2>1. found \subseteq 1..8 /\ found # {}
    BY <1>1, <1>2
  <2>2. 1..8 = {1, 2, 3, 4, 5, 6, 7, 8}
    OBVIOUS
  <2> HIDE DEF found
  <2>3. ASSUME NEW j \in 1..8, j \in found, \A k \in found : k >= j
        PROVE  \E l \in found : \A k \in found : l <= k
    BY <2>1, <2>3
  <2>4. \E j \in {1, 2, 3, 4, 5, 6, 7, 8} : j \in found /\ \A k \in found : k >= j
    <3>1. \A k \in found : k \in {1, 2, 3, 4, 5, 6, 7, 8}
      BY <2>1, <2>2
    <3>2. CASE 1 \in found
      BY <3>1, <3>2
    <3>3. CASE 1 \notin found /\ 2 \in found
      BY <3>1, <3>3
    <3>4. CASE 1 \notin found /\ 2 \notin found /\ 3 \in found
      BY <3>1, <3>4
    <3>5. CASE {1, 2, 3} \cap found = {} /\ 4 \in found
      BY <3>1, <3>5
    <3>6. CASE {1, 2, 3, 4} \cap found = {} /\ 5 \in found
      BY <3>1, <3>6
    <3>7. CASE {1, 2, 3, 4, 5} \cap found = {} /\ 6 \in found
      BY <3>1, <3>7
    <3>8. CASE {1, 2, 3, 4, 5, 6} \cap found = {} /\ 7 \in found
      BY <3>1, <3>8
    <3>9. CASE {1, 2, 3, 4, 5, 6, 7} \cap found = {}
      <4>1. PICK n \in found : TRUE
        BY <2>1
      <4>2. \A k \in found : k = 8
        BY <3>1, <3>9
      <4> QED BY <4>1, <4>2
    <3> QED BY <3>2, <3>3, <3>4, <3>5, <3>6, <3>7, <3>8, <3>9
  <2> QED BY <2>2, <2>3, <2>4
<1>4. Min(found) \in found
  <2> HIDE DEF found
  <2> QED BY <1>3 DEF Min
<1>5. Reason[Min(found)] # "none"
  BY <1>2, <1>4 DEF Reason
<1> QED BY <1>1, <1>5 DEF ErrorOf

(* So all it names is there. *)
LEMMA AcceptedTexts ==
  ASSUME NEW h, NEW text \in Text, ErrorOf(h, text) = "none"
  PROVE  /\ text.relation \in Relation
         /\ FindView(h, text.item1) # Nil /\ text.attr1 \in Attribute
         /\ FindView(h, text.item2) # Nil /\ text.attr2 \in Attribute
         /\ ~MissingMetric(text.multiplier)
         /\ ~MissingMetric(text.constant)
<1>1. \A i \in 1..8 : ~Faults(h, text)[i]
  BY AcceptedIsFaultless DEF Reason
<1>2. /\ ~Faults(h, text)[2] /\ ~Faults(h, text)[3] /\ ~Faults(h, text)[4]
      /\ ~Faults(h, text)[5] /\ ~Faults(h, text)[6]
  BY <1>1
<1>3. ~Faults(h, text)[7] /\ ~Faults(h, text)[8]
  BY <1>1
<1> QED BY <1>2, <1>3 DEF Faults

LEMMA ValuesAreNumbers ==
  ASSUME XtTypeOK, NEW signs, NEW signed \in Signed(signs),
         signed # Nil, ~MissingMetric(signed)
  PROVE  GetFloatFromValue(signed[2]) \in Int /\ signed[1] \in signs
<1>1. signed \in signs \X Value
  BY DEF Signed
<1>2. signed[1] \in signs /\ signed[2] \in Value
  BY <1>1
<1>3. GetFloatFromValue(signed[2]) # Nil
  BY DEF MissingMetric
<1> QED BY <1>2, <1>3, XtAssumption DEF GetFloatFromValue, Value, XtTypeOK

(* What the reader of a constraint takes its text to name is what          *)
(* parseXtConstraint: found.                                               *)
LEMMA ReadAsParsed ==
  ASSUME NEW h, NEW text \in Text
  PROVE  LET c == ParseXtConstraint(h, text)
         IN /\ c.relation = text.relation
            /\ c.multiplier = Multiplier(text.multiplier)
            /\ c.constant = ConstantOf(text.constant)
            /\ c.written.relation = text.relation
            /\ c.written.multiplier = text.multiplier
            /\ c.written.constant = text.constant
            /\ \A signed : MeantBy(c, signed) = GetFloatFromValue(signed[2])
            /\ c.first = <<FindView(h, text.item1), text.attr1>>
            /\ c.second = <<FindView(h, text.item2), text.attr2>>
            /\ FirstWritten(c) = c.first
            /\ SecondWritten(c) = c.second
<1> DEFINE c == ParseXtConstraint(h, text)
<1>1. /\ c.relation = text.relation
      /\ c.multiplier = Multiplier(text.multiplier)
      /\ c.constant = ConstantOf(text.constant)
  BY DEF ParseXtConstraint
<1>2. c.first = FirstAnchor(h, text) /\ c.second = SecondAnchor(h, text)
  BY DEF ParseXtConstraint
<1>3. c.written = text /\ c.subViews = h.subViews /\ c.metrics = metrics
  BY DEF ParseXtConstraint
<1> HIDE DEF c
<1>4. \A signed : MeantBy(c, signed) = GetFloatFromValue(signed[2])
  BY <1>3 DEF MeantBy, GetFloatFromValue
<1>5. \A item \in Item : ViewMeantBy(c, item) = FindView(h, item)
  BY <1>3, XtAssumption DEF ViewMeantBy, FindView, Item
<1>6. text.item1 \in Item /\ text.item2 \in Item
  BY DEF Text
<1>7. FirstWritten(c) = FirstAnchor(h, text) /\ SecondWritten(c) = SecondAnchor(h, text)
  BY <1>3, <1>5, <1>6 DEF FirstWritten, SecondWritten, FirstAnchor, SecondAnchor
<1> QED BY <1>1, <1>2, <1>3, <1>4, <1>7 DEF FirstAnchor, SecondAnchor, c

(* An accepted text says something.                                        *)
LEMMA ParsedSaysSomething ==
  ASSUME NEW h, NEW text \in Text, ErrorOf(h, text) = "none"
  PROVE  MeansSomething(ParseXtConstraint(h, text))
<1> DEFINE c == ParseXtConstraint(h, text)
<1>1. /\ c.written.relation = text.relation
      /\ c.written.multiplier = text.multiplier
      /\ c.written.constant = text.constant
      /\ \A signed : MeantBy(c, signed) = GetFloatFromValue(signed[2])
      /\ FirstWritten(c) = <<FindView(h, text.item1), text.attr1>>
      /\ SecondWritten(c) = <<FindView(h, text.item2), text.attr2>>
  BY ReadAsParsed
<1> HIDE DEF c
<1>2. /\ text.relation \in Relation
      /\ FindView(h, text.item1) # Nil /\ text.attr1 \in Attribute
      /\ FindView(h, text.item2) # Nil /\ text.attr2 \in Attribute
  BY AcceptedTexts
<1>3. ~MissingMetric(text.multiplier) /\ ~MissingMetric(text.constant)
  BY AcceptedTexts
<1>4. \A anchor \in {FirstWritten(c), SecondWritten(c)} : anchor[1] # Nil /\ anchor[2] \in Attribute
  BY <1>1, <1>2
<1>5. \A signed \in {text.multiplier, text.constant} : signed # Nil => MeantBy(c, signed) # Nil
  BY <1>1, <1>3 DEF MissingMetric
<1>6. MeansSomething(c)
  BY <1>1, <1>2, <1>4, <1>5 DEF MeansSomething
<1> QED BY <1>6 DEF c

(* parseXtConstraint: of an accepted text means what the text says.        *)
LEMMA ParsedMeans ==
  ASSUME XtTypeOK, NEW h, NEW text \in Text, ErrorOf(h, text) = "none"
  PROVE  MeansAsWritten(ParseXtConstraint(h, text))
<1> DEFINE c == ParseXtConstraint(h, text)
           factor == text.multiplier
           f == GetFloatFromValue(factor[2])
           k == ConstantOf(text.constant)
<1>1. text.relation \in Relation /\ ~MissingMetric(factor) /\ ~MissingMetric(text.constant)
  BY AcceptedTexts
<1>2. factor \in Signed({"*", "/"}) /\ text.constant \in Signed({"+", "-"})
  BY DEF Text
<1>3. /\ c.relation = text.relation
      /\ c.multiplier = Multiplier(factor)
      /\ c.constant = k
      /\ c.written.relation = text.relation
      /\ c.written.multiplier = factor
      /\ c.written.constant = text.constant
      /\ FirstWritten(c) = c.first
      /\ SecondWritten(c) = c.second
  BY ReadAsParsed
<1>4. \A signed : MeantBy(c, signed) = GetFloatFromValue(signed[2])
  BY ReadAsParsed
<1>5. /\ k \in Int
      /\ \A a, b \in Int : Compares(text.relation, a, b + k)
                             <=> Compares(text.relation, a + Added(c, "-"), b + Added(c, "+"))
  <2> DEFINE v == GetFloatFromValue(text.constant[2])
  <2>1. CASE text.constant = Nil
    <3>1. k = 0 /\ Added(c, "-") = 0 /\ Added(c, "+") = 0
      BY <1>3, <2>1 DEF ConstantOf, Added
    <3>2. \A a, b \in Int : b + 0 = b /\ a + 0 = a
      OBVIOUS
    <3> HIDE DEF k, c
    <3> QED BY <3>1, <3>2
  <2>2. CASE text.constant # Nil /\ text.constant[1] = "-"
    <3>1. v \in Int
      BY <1>1, <1>2, <2>2, ValuesAreNumbers
    <3>2. k = -v /\ Added(c, "-") = v /\ Added(c, "+") = 0
      BY <1>3, <1>4, <2>2 DEF ConstantOf, Added
    <3> HIDE DEF k, c, v
    <3>3. \A a, b \in Int : b + 0 = b /\ (Compares(text.relation, a, b + (-v))
                                            <=> Compares(text.relation, a + v, b))
      BY <1>1, <3>1, MovedCompare
    <3> QED BY <3>1, <3>2, <3>3
  <2>3. CASE text.constant # Nil /\ text.constant[1] = "+"
    <3>1. v \in Int
      BY <1>1, <1>2, <2>3, ValuesAreNumbers
    <3>2. k = v /\ Added(c, "-") = 0 /\ Added(c, "+") = v
      BY <1>3, <1>4, <2>3 DEF ConstantOf, Added
    <3> HIDE DEF k, c, v
    <3>3. \A a \in Int : a + 0 = a
      OBVIOUS
    <3> QED BY <3>1, <3>2, <3>3
  <2>4. text.constant # Nil => text.constant[1] \in {"+", "-"}
    BY <1>1, <1>2, ValuesAreNumbers
  <2> QED BY <2>1, <2>2, <2>3, <2>4
<1> HIDE DEF k
<1>6. SUFFICES ASSUME NEW layout \in Layouts(c)
               PROVE
         LET x == layout[c.first]
             y == layout[c.second]
         IN /\ factor = Nil => (SatisfiedAt(c, x, y) <=> Says(c, x, y))
            /\ factor # Nil /\ factor[1] = "*" => (SatisfiedAt(c, x, y) <=> Says(c, x, y * f))
            /\ factor # Nil /\ factor[1] = "/" /\ f # 0 =>
                 \A z \in Number : y = f * z => (SatisfiedAt(c, x, y) <=> Says(c, x, z))
  <2>1. c.written.multiplier = factor /\ MeantBy(c, factor) = f
    BY <1>3, <1>4
  <2>2. FirstWritten(c) = c.first /\ SecondWritten(c) = c.second
    BY <1>3
  <2> HIDE DEF f, factor
  <2> QED BY <2>1, <2>2 DEF MeansAsWritten, Satisfied
<1> DEFINE x == layout[c.first]
           y == layout[c.second]
<1>7. x \in Number /\ y \in Number /\ Number \subseteq Int
  BY <1>3, <1>6, XtAssumption DEF Layouts
<1> HIDE DEF x, y
<1>8. \A a, b : Says(c, a, b) <=> Compares(text.relation, a + Added(c, "-"), b + Added(c, "+"))
  BY <1>3 DEF Says
<1>9. \A a, b, num, den :
        Multiplier(factor) = <<num, den>> =>
          (SatisfiedAt(c, a, b) <=> Compares(text.relation, a * den * den, num * den * b + k * den * den))
  BY <1>3 DEF SatisfiedAt
<1> HIDE DEF c
<1>10. ASSUME factor = Nil PROVE SatisfiedAt(c, x, y) <=> Says(c, x, y)
  <2>1. Multiplier(factor) = <<1, 1>>
    BY <1>10 DEF Multiplier
  <2>2. x * 1 * 1 = x /\ 1 * 1 * y + k * 1 * 1 = y + k
    BY <1>5, <1>7
  <2> QED BY <1>5, <1>7, <1>8, <1>9, <2>1, <2>2
<1>11. ASSUME factor # Nil, factor[1] = "*" PROVE SatisfiedAt(c, x, y) <=> Says(c, x, y * f)
  <2>1. f \in Int
    BY <1>1, <1>2, <1>11, ValuesAreNumbers
  <2>2. Multiplier(factor) = <<f, 1>>
    BY <1>11 DEF Multiplier
  <2> HIDE DEF f
  <2>3. y * f \in Int /\ x * 1 * 1 = x /\ f * 1 * y + k * 1 * 1 = y * f + k
    BY <1>5, <1>7, <2>1
  <2> QED BY <1>5, <1>7, <1>8, <1>9, <2>2, <2>3
<1>12. ASSUME factor # Nil, factor[1] = "/", f # 0, NEW z \in Number, y = f * z
       PROVE  SatisfiedAt(c, x, y) <=> Says(c, x, z)
  <2>1. f \in Int
    BY <1>1, <1>2, <1>12, ValuesAreNumbers
  <2>2. Multiplier(factor) = <<1, f>>
    BY <1>12 DEF Multiplier
  <2>3. f # 0
    BY <1>12
  <2> HIDE DEF f
  <2>4. z \in Int
    BY <1>7, <1>12
  <2>5. 1 * f * (f * z) + k * f * f = (z + k) * f * f
    BY <1>5, <2>1, <2>4
  <2>6. z + k \in Int /\ x \in Int
    BY <1>5, <1>7, <2>4
  <2>7. Compares(text.relation, x * f * f, (z + k) * f * f) <=> Compares(text.relation, x, z + k)
    BY <1>1, <2>1, <2>3, <2>6, ScaledCompare
  <2>8. y = f * z
    BY <1>12 DEF f
  <2>9. SatisfiedAt(c, x, y) <=> Compares(text.relation, x * f * f, 1 * f * y + k * f * f)
    BY <1>9, <2>2
  <2>10. Says(c, x, z) <=> Compares(text.relation, x, z + k)
    BY <1>5, <1>8, <2>4, <2>6
  <2> QED BY <2>5, <2>7, <2>8, <2>9, <2>10
<1> QED BY <1>10, <1>11, <1>12 DEF x, y

LEMMA XtTypes == XtSpec => []XtTypeOK
<1>1. XtInit => XtTypeOK
  BY DEF XtInit, XtTypeOK, EmptyHelper, NewHelper
<1>2. XtTypeOK /\ [XtNext]_xtVars => XtTypeOK'
  <2>1. SUFFICES ASSUME XtTypeOK, [XtNext]_xtVars PROVE XtTypeOK'
    OBVIOUS
  <2>2. ASSUME NEW v \in View, NEW key \in Key, AddViewWithKey(v, key) PROVE XtTypeOK'
    <3>1. DOMAIN helper' = DOMAIN helper
      BY <2>2 DEF AddViewWithKey, AddView
    <3> QED BY <2>1, <2>2, <3>1 DEF XtTypeOK, AddViewWithKey
  <2>3. ASSUME NEW key \in Key, RemoveViewWithKey(key) PROVE XtTypeOK'
    <3>1. DOMAIN helper' = DOMAIN helper
      BY <2>3 DEF RemoveViewWithKey, RemoveFromSuperview
    <3> QED BY <2>1, <2>3, <3>1 DEF XtTypeOK, RemoveViewWithKey
  <2>4. ASSUME NEW m \in Metric, NEW value \in Number, SetMetric(m, value) PROVE XtTypeOK'
    BY <2>1, <2>4 DEF XtTypeOK, SetMetric
  <2>5. ASSUME NEW text \in Text, AddXtConstraint(text) PROVE XtTypeOK'
    <3>1. CASE error' = "none"
      <4>1. DOMAIN helper' = DOMAIN helper /\ metrics' = metrics
        BY <2>5, <3>1 DEF AddXtConstraint
      <4> QED BY <2>1, <4>1 DEF XtTypeOK
    <3>2. CASE error' # "none"
      <4>1. helper' = EmptyHelper /\ metrics' = [m \in Metric |-> Nil]
        BY <2>5, <3>2 DEF AddXtConstraint
      <4> QED BY <4>1 DEF XtTypeOK, EmptyHelper, NewHelper
    <3> QED BY <3>1, <3>2
  <2>6. CASE UNCHANGED xtVars
    BY <2>1, <2>6 DEF XtTypeOK, xtVars
  <2> QED BY <2>1, <2>2, <2>3, <2>4, <2>5, <2>6 DEF XtNext
<1> QED BY <1>1, <1>2, PTL DEF XtSpec

(***************************************************************************)
(* Every constraint addConstraint: has put on the view comes from a text   *)
(* that names what is there, and means what that text says: for all the    *)
(* views, keys, numbers and metrics there may be.                          *)
(***************************************************************************)
THEOREM AllParsedAsWritten == XtSpec => []ParsedAsWritten
<1>1. XtInit => ParsedAsWritten
  BY DEF XtInit, EmptyHelper, NewHelper, ParsedAsWritten
<1>2. XtTypeOK /\ ParsedAsWritten /\ [XtNext]_xtVars => ParsedAsWritten'
  <2>1. SUFFICES ASSUME XtTypeOK, ParsedAsWritten, [XtNext]_xtVars
                 PROVE  \A c \in helper'.constraints : MeansSomething(c) /\ MeansAsWritten(c)
    BY DEF ParsedAsWritten, MeansSomething, MeansAsWritten, Layouts, Satisfied, SatisfiedAt, Says,
           Compares, Added, MeantBy, ViewMeantBy, FirstWritten, SecondWritten
  <2>2. ASSUME NEW v \in View, NEW key \in Key, AddViewWithKey(v, key)
        PROVE  helper'.constraints \subseteq helper.constraints
    BY <2>2 DEF AddViewWithKey, AddView
  <2>3. ASSUME NEW key \in Key, RemoveViewWithKey(key)
        PROVE  helper'.constraints \subseteq helper.constraints
    BY <2>3 DEF RemoveViewWithKey, RemoveFromSuperview
  <2>4. ASSUME NEW text \in Text, AddXtConstraint(text), error' = "none"
        PROVE  \A c \in helper'.constraints : MeansSomething(c) /\ MeansAsWritten(c)
    <3>1. /\ MeansSomething(ParseXtConstraint(helper, text))
          /\ MeansAsWritten(ParseXtConstraint(helper, text))
      BY <2>1, <2>4, ParsedMeans, ParsedSaysSomething DEF AddXtConstraint
    <3>2. \A c \in helper'.constraints : c \in helper.constraints \/ c = ParseXtConstraint(helper, text)
      BY <2>1, <2>4 DEF AddXtConstraint, XtTypeOK
    <3> QED BY <2>1, <3>1, <3>2 DEF ParsedAsWritten
  <2>5. ASSUME NEW text \in Text, AddXtConstraint(text), error' # "none"
        PROVE  helper'.constraints \subseteq helper.constraints
    BY <2>5 DEF AddXtConstraint, EmptyHelper, NewHelper
  <2>6. ASSUME NEW m \in Metric, NEW value \in Number, SetMetric(m, value) \/ UNCHANGED xtVars
        PROVE  helper'.constraints \subseteq helper.constraints
    BY <2>6 DEF SetMetric, xtVars
  <2>7. UNCHANGED xtVars => helper'.constraints \subseteq helper.constraints
    BY DEF xtVars
  <2> QED BY <2>1, <2>2, <2>3, <2>4, <2>5, <2>6, <2>7 DEF XtNext, ParsedAsWritten
<1> QED BY <1>1, <1>2, XtTypes, PTL DEF XtSpec
=============================================================================
