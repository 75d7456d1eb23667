------------------------- MODULE LinearLayout_proofs -------------------------
(* The chain of a LinearLayout, for any number of views.                   *)
EXTENDS LinearLayout, FiniteSetTheorems, TLAPS

IsHelper(h) == DOMAIN h = {"view", "constraints", "subViews", "temporal"}

(***************************************************************************)
(* Why Chain holds: the end constraints are those kept by key, which the   *)
(* next append takes back, and no constraint names a view not appended,    *)
(* so that those of the next one are new.                                  *)
(***************************************************************************)
LayoutInv ==
  /\ numberOfViews \in Nat
  /\ IsHelper(layout)
  /\ layout.view \subseteq View /\ Cardinality(layout.view) = numberOfViews
  /\ DOMAIN layout.subViews = Key
  /\ \A i \in 1..numberOfViews : ViewAt(i) \in layout.view
  /\ IsFiniteSet(layout.constraints)
  /\ \A c \in layout.constraints : c.views \subseteq layout.view
  /\ DOMAIN layout.temporal = TemporalKey
  /\ layout.temporal["end align"] = OfKind("end")

(* Adding and setting constraints leaves the views alone.                  *)
SameViews(h, g) == h.view = g.view /\ h.subViews = g.subViews /\ IsHelper(h)

(* One text makes one constraint, whatever its identity.                   *)
LEMMA ParseOne ==
  ASSUME NEW h, NEW text
  PROVE  \E c : /\ ParseConstraints(h, <<text>>) = {c}
                /\ c.text = text
                /\ c.views = FindViews(h, text)
<1> DEFINE c == [id |-> FreshIds(h, 1)[1], text |-> text, views |-> FindViews(h, text)]
<1>1. Len(<<text>>) = 1 /\ <<text>>[1] = text /\ 1..1 = {1}
  OBVIOUS
<1>2. ParseConstraints(h, <<text>>) = {c}
  BY <1>1 DEF ParseConstraints
<1>3. c.text = text /\ c.views = FindViews(h, text)
  OBVIOUS
<1> QED BY <1>2, <1>3

LEMMA TextsSay ==
  ASSUME NEW i, NEW j
  PROVE  /\ Size(i).kind = "size" /\ Size(i).names = {i}
         /\ Start(i).kind = "start" /\ Start(i).names = {i}
         /\ Link(j, i).kind = "link" /\ Link(j, i).names = {j, i}
         /\ End(i).kind = "end" /\ End(i).names = {i} /\ End(i).e = marginEnds
         /\ Sides(i).kind = "sides" /\ Sides(i).names = {i}
BY DEF Size, Start, Link, End, Sides

LEMMA FindOne ==
  ASSUME NEW h, NEW key, NEW text, text.names = {key}
  PROVE  FindViews(h, text) = {h.subViews[key]}
BY DEF FindViews

LEMMA AddOne ==
  ASSUME NEW h, IsHelper(h), NEW text, NEW new, new = AddConstraints(h, <<text>>)
  PROVE  \E c : /\ IsHelper(new)
                /\ new.constraints = h.constraints \cup {c}
                /\ new.view = h.view
                /\ new.subViews = h.subViews
                /\ new.temporal = h.temporal
                /\ c.text = text
                /\ c.views = FindViews(h, text)
<1>1. PICK c : /\ ParseConstraints(h, <<text>>) = {c}
               /\ c.text = text
               /\ c.views = FindViews(h, text)
  BY ParseOne
<1>2. new = [h EXCEPT !.constraints = h.constraints \cup {c}]
  BY <1>1 DEF AddConstraints
<1> QED BY <1>1, <1>2 DEF IsHelper

Sets(new, h, text, c) ==
  /\ IsHelper(new)
  /\ new.constraints = (h.constraints \ h.temporal["end align"]) \cup {c}
  /\ new.view = h.view
  /\ new.subViews = h.subViews
  /\ DOMAIN new.temporal = TemporalKey
  /\ new.temporal["end align"] = {c}
  /\ c.text = text
  /\ c.views = FindViews(h, text)

LEMMA SetOne ==
  ASSUME NEW h, IsHelper(h), NEW text, "end align" \in TemporalKey,
         DOMAIN h.temporal = TemporalKey,
         NEW new, new = SetConstraints(h, <<text>>, "end align")
  PROVE  \E c : Sets(new, h, text, c)
<1> DEFINE removed == [h EXCEPT !.constraints = h.constraints \ h.temporal["end align"], !.temporal["end align"] = {}]
<1>1. /\ IsHelper(removed)
      /\ removed.view = h.view
      /\ removed.subViews = h.subViews
      /\ removed.constraints = h.constraints \ h.temporal["end align"]
      /\ DOMAIN removed.temporal = TemporalKey
  BY DEF IsHelper
<1>2. PICK c : /\ ParseConstraints(removed, <<text>>) = {c}
               /\ c.text = text
               /\ c.views = FindViews(removed, text)
  BY ParseOne
<1>3. FindViews(removed, text) = FindViews(h, text)
  BY <1>1 DEF FindViews
<1>4. new = [removed EXCEPT !.constraints = removed.constraints \cup {c}, !.temporal["end align"] = {c}]
  BY <1>2 DEF SetConstraints
<1> HIDE DEF removed
<1>5. /\ IsHelper(new)
      /\ new.view = removed.view
      /\ new.subViews = removed.subViews
      /\ new.constraints = removed.constraints \cup {c}
      /\ DOMAIN new.temporal = TemporalKey
      /\ new.temporal["end align"] = {c}
  BY <1>1, <1>4 DEF IsHelper
<1> QED BY <1>1, <1>2, <1>3, <1>5 DEF Sets

(***************************************************************************)
(* appendSubview:size: of v as the i-th view adds its size if it has one   *)
(* (in S), its start or link a, its end e and its sides s, and takes the   *)
(* end before away.                                                        *)
(***************************************************************************)
Appends(S, a, e, s, i, v) ==
  /\ layout'.constraints =
       (((layout.constraints \cup S) \cup {a}) \ OfKind("end")) \cup {e} \cup {s}
  /\ DOMAIN layout'.temporal = TemporalKey /\ layout'.temporal["end align"] = {e}
  /\ IsFiniteSet(S)
  /\ \A c \in S : c.text.kind = "size" /\ c.views = {v}
  /\ i = 1 => a.text.kind = "start" /\ a.views = {v}
  /\ i # 1 => a.text.kind = "link" /\ a.views = {ViewAt(i - 1), v}
  /\ e.text.kind = "end" /\ e.views = {v} /\ e.text.e = marginEnds
  /\ s.text.kind = "sides" /\ s.views = {v}

LEMMA Appended ==
  ASSUME LayoutInv, NEW v \in View, NEW sized \in BOOLEAN, AppendSubview(v, sized)
  PROVE  LET i == numberOfViews + 1 IN
         /\ v \notin layout.view
         /\ i \in Key /\ i \in Nat
         /\ numberOfViews' = i /\ metrics' = marginEnds
         /\ IsHelper(layout')
         /\ layout'.view = layout.view \cup {v}
         /\ layout'.subViews = [layout.subViews EXCEPT ![i] = v]
         /\ \E S, a, e, s : Appends(S, a, e, s, i, v)
<1> DEFINE i == numberOfViews + 1
           end == OfKind("end")
<1>1. /\ v \notin layout.view /\ numberOfViews' = i /\ metrics' = marginEnds
      /\ \E added, withSize, aligned, ended, size, first, last, sides :
           /\ size = Size(i) /\ last = End(i) /\ sides = Sides(i)
           /\ added = AddView(layout, v, i)
           /\ sized => withSize = AddConstraints(added, <<size>>)
           /\ ~sized => withSize = added
           /\ i = 1 => first = Start(i)
           /\ i # 1 => first = Link(i - 1, i)
           /\ aligned = AddConstraints(withSize, <<first>>)
           /\ ended = SetConstraints(aligned, <<last>>, "end align")
           /\ layout' = AddConstraints(ended, <<sides>>)
  BY DEF AppendSubview, AlignToPrevious, AlignToEnd
<1>2. i \in Nat /\ i \in Key /\ (i # 1 => i - 1 \in Key)
  <2>1. Cardinality(layout.view) < Cardinality(View)
    <3>1. layout.view \subseteq View /\ layout.view # View /\ IsFiniteSet(View)
      BY <1>1, LayoutAssumption DEF LayoutInv
    <3>2. /\ IsFiniteSet(layout.view)
          /\ Cardinality(layout.view) <= Cardinality(View)
          /\ Cardinality(layout.view) # Cardinality(View)
      BY <3>1, FS_Subset
    <3>3. Cardinality(layout.view) \in Nat /\ Cardinality(View) \in Nat
      BY <3>1, <3>2, FS_CardinalityType
    <3> QED BY <3>2, <3>3
  <2>2. Cardinality(View) \in Nat
    BY LayoutAssumption, FS_CardinalityType
  <2>3. /\ i \in Nat
        /\ i \in 1..Cardinality(View)
        /\ i # 1 => i - 1 \in 1..Cardinality(View)
    <3>1. numberOfViews \in Nat /\ numberOfViews < Cardinality(View)
      BY <2>1 DEF LayoutInv
    <3> QED BY <2>2, <3>1
  <2>4. 1..Cardinality(View) \subseteq Key
    BY LayoutAssumption
  <2> HIDE DEF i
  <2> QED BY <2>3, <2>4
<1>3. PICK added, withSize, aligned, ended, size, first, last, sides :
           /\ size = Size(i) /\ last = End(i) /\ sides = Sides(i)
           /\ added = AddView(layout, v, i)
           /\ sized => withSize = AddConstraints(added, <<size>>)
           /\ ~sized => withSize = added
           /\ i = 1 => first = Start(i)
           /\ i # 1 => first = Link(i - 1, i)
           /\ aligned = AddConstraints(withSize, <<first>>)
           /\ ended = SetConstraints(aligned, <<last>>, "end align")
           /\ layout' = AddConstraints(ended, <<sides>>)
  BY <1>1
<1>4. /\ IsHelper(layout)
      /\ DOMAIN layout.subViews = Key
      /\ DOMAIN layout.temporal = TemporalKey /\ layout.temporal["end align"] = end
      /\ i # 1 => i - 1 \in Key /\ i - 1 # i
  <2>1. numberOfViews \in Nat
    BY DEF LayoutInv
  <2>2. i # 1 => i - 1 \in Key /\ i - 1 # i
    BY <1>2, <2>1
  <2>3. /\ IsHelper(layout)
        /\ DOMAIN layout.subViews = Key
        /\ DOMAIN layout.temporal = TemporalKey /\ layout.temporal["end align"] = end
    BY DEF LayoutInv
  <2> QED BY <2>2, <2>3
<1>5. "end align" \in TemporalKey
  BY LayoutAssumption
<1> HIDE DEF i, end
<1>t. /\ size.kind = "size" /\ size.names = {i}
      /\ i = 1 => first.kind = "start" /\ first.names = {i}
      /\ i # 1 => first.kind = "link" /\ first.names = {i - 1, i}
      /\ last.kind = "end" /\ last.names = {i} /\ last.e = marginEnds
      /\ sides.kind = "sides" /\ sides.names = {i}
  <2>1. CASE i = 1
    <3>1. size = Size(i) /\ last = End(i) /\ sides = Sides(i) /\ first = Start(i)
      BY <1>3, <2>1
    <3> QED BY <2>1, <3>1, TextsSay
  <2>2. CASE i # 1
    <3>1. size = Size(i) /\ last = End(i) /\ sides = Sides(i) /\ first = Link(i - 1, i)
      BY <1>3, <2>2
    <3> QED BY <2>2, <3>1, TextsSay
  <2> QED BY <2>1, <2>2
<1>6. /\ IsHelper(added)
      /\ added.view = layout.view \cup {v}
      /\ added.constraints = layout.constraints
      /\ added.subViews = [layout.subViews EXCEPT ![i] = v]
      /\ added.temporal = layout.temporal
  BY <1>3, <1>4 DEF AddView, IsHelper
<1>v. \A h : SameViews(h, added) => h.subViews[i] = v
  BY <1>2, <1>4, <1>6 DEF SameViews
<1>7. \E S : /\ SameViews(withSize, added)
             /\ withSize.constraints = layout.constraints \cup S
             /\ withSize.temporal = layout.temporal
             /\ IsFiniteSet(S)
             /\ \A c \in S : c.text.kind = "size" /\ c.views = {v}
  <2>1. CASE sized
    <3>1. withSize = AddConstraints(added, <<size>>)
      BY <1>3, <2>1
    <3>2. PICK c : /\ IsHelper(withSize)
                   /\ withSize.constraints = added.constraints \cup {c}
                   /\ withSize.view = added.view
                   /\ withSize.subViews = added.subViews
                   /\ withSize.temporal = added.temporal
                   /\ c.text = size
                   /\ c.views = FindViews(added, size)
      <4>1. IsHelper(added)
        BY <1>6
      <4> QED BY <3>1, <4>1, AddOne
    <3>3. c.text.kind = "size" /\ c.views = {v}
      <4>1. SameViews(added, added)
        BY <1>6 DEF SameViews
      <4>2. added.subViews[i] = v
        BY <1>v, <4>1
      <4>3. FindViews(added, size) = {added.subViews[i]}
        BY <1>t, FindOne, Zenon
      <4> QED BY <1>t, <3>2, <4>2, <4>3, Zenon
    <3>4. IsFiniteSet({c})
      BY FS_Singleton
    <3> WITNESS {c}
    <3> QED BY <1>6, <3>2, <3>3, <3>4 DEF SameViews
  <2>2. CASE ~sized
    <3>1. IsFiniteSet({})
      BY FS_EmptySet
    <3> WITNESS {}
    <3> QED BY <1>3, <1>6, <2>2, <3>1 DEF SameViews
  <2> QED BY <2>1, <2>2
<1>8. PICK S : /\ SameViews(withSize, added)
               /\ withSize.constraints = layout.constraints \cup S
               /\ withSize.temporal = layout.temporal
               /\ IsFiniteSet(S)
               /\ \A c \in S : c.text.kind = "size" /\ c.views = {v}
  BY <1>7
<1>9. PICK a : /\ SameViews(aligned, added)
               /\ aligned.constraints = withSize.constraints \cup {a}
               /\ aligned.temporal = withSize.temporal
               /\ a.text = first
               /\ a.views = FindViews(withSize, first)
  <2>1. IsHelper(withSize) /\ aligned = AddConstraints(withSize, <<first>>)
    BY <1>3, <1>8 DEF SameViews
  <2>2. \E c : /\ IsHelper(aligned)
               /\ aligned.constraints = withSize.constraints \cup {c}
               /\ aligned.view = withSize.view
               /\ aligned.subViews = withSize.subViews
               /\ aligned.temporal = withSize.temporal
               /\ c.text = first
               /\ c.views = FindViews(withSize, first)
    BY <2>1, AddOne
  <2> QED BY <1>8, <2>2 DEF SameViews
<1>10. i = 1 => a.text.kind = "start" /\ a.views = {v}
  <2>1. withSize.subViews[i] = v
    BY <1>v, <1>8, Zenon
  <2>2. first.names = {i} => FindViews(withSize, first) = {withSize.subViews[i]}
    BY FindOne, Zenon
  <2> QED BY <1>t, <1>9, <2>1, <2>2, Zenon
<1>11. i # 1 => a.text.kind = "link" /\ a.views = {ViewAt(i - 1), v}
  <2>1. SUFFICES ASSUME i # 1 PROVE a.text.kind = "link" /\ a.views = {ViewAt(i - 1), v}
    OBVIOUS
  <2>3. first.kind = "link" /\ first.names = {i - 1, i}
    BY <1>t, <2>1
  <2>4. withSize.subViews[i - 1] = ViewAt(i - 1) /\ withSize.subViews[i] = v
    BY <1>2, <1>4, <1>6, <1>8, <2>1 DEF ViewAt, SameViews
  <2> QED BY <1>9, <2>3, <2>4 DEF FindViews
<1>12. /\ DOMAIN aligned.temporal = TemporalKey
       /\ aligned.temporal["end align"] = end
  <2>1. aligned.temporal = layout.temporal
    BY <1>8, <1>9
  <2> QED BY <1>4, <1>5, <2>1
<1>13. PICK e : /\ SameViews(ended, added)
                /\ ended.constraints = (aligned.constraints \ end) \cup {e}
                /\ DOMAIN ended.temporal = TemporalKey /\ ended.temporal["end align"] = {e}
                /\ e.text = last
                /\ e.views = FindViews(aligned, last)
  <2>1. IsHelper(aligned) /\ ended = SetConstraints(aligned, <<last>>, "end align")
    BY <1>3, <1>9 DEF SameViews
  <2>2. PICK c : Sets(ended, aligned, last, c)
    <3>1. DOMAIN aligned.temporal = TemporalKey
      BY <1>12
    <3> QED BY <1>5, <2>1, <3>1, SetOne, Zenon
  <2> QED BY <1>9, <1>12, <2>2 DEF SameViews, Sets
<1>14. e.text.kind = "end" /\ e.views = {v} /\ e.text.e = marginEnds
  <2>1. aligned.subViews[i] = v
    BY <1>v, <1>9, Zenon
  <2>2. last.names = {i} => FindViews(aligned, last) = {aligned.subViews[i]}
    BY FindOne, Zenon
  <2> QED BY <1>t, <1>13, <2>1, <2>2, Zenon
<1>15. PICK s : /\ SameViews(layout', added)
                /\ layout'.constraints = ended.constraints \cup {s}
                /\ layout'.temporal = ended.temporal
                /\ s.text = sides
                /\ s.views = FindViews(ended, sides)
  <2>1. IsHelper(ended) /\ layout' = AddConstraints(ended, <<sides>>)
    BY <1>3, <1>13 DEF SameViews
  <2>2. \E c : /\ IsHelper(layout')
               /\ layout'.constraints = ended.constraints \cup {c}
               /\ layout'.view = ended.view
               /\ layout'.subViews = ended.subViews
               /\ layout'.temporal = ended.temporal
               /\ c.text = sides
               /\ c.views = FindViews(ended, sides)
    BY <2>1, AddOne
  <2> QED BY <1>13, <2>2 DEF SameViews
<1>16. s.text.kind = "sides" /\ s.views = {v}
  <2>1. ended.subViews[i] = v
    BY <1>v, <1>13, Zenon
  <2>2. sides.names = {i} => FindViews(ended, sides) = {ended.subViews[i]}
    BY FindOne, Zenon
  <2> QED BY <1>t, <1>15, <2>1, <2>2, Zenon
<1>17. layout'.constraints =
         (((layout.constraints \cup S) \cup {a}) \ end) \cup {e} \cup {s}
  BY <1>8, <1>9, <1>13, <1>15
<1>18. DOMAIN layout'.temporal = TemporalKey /\ layout'.temporal["end align"] = {e}
  BY <1>13, <1>15
<1>19. /\ IsHelper(layout')
       /\ layout'.view = layout.view \cup {v}
       /\ layout'.subViews = [layout.subViews EXCEPT ![i] = v]
  BY <1>6, <1>15 DEF SameViews
<1>20. Appends(S, a, e, s, i, v)
  BY <1>8, <1>10, <1>11, <1>14, <1>16, <1>17, <1>18 DEF Appends, end
<1> QED BY <1>1, <1>2, <1>19, <1>20 DEF i

-----------------------------------------------------------------------------
LEMMA LayoutInitOK == Init => LayoutInv /\ Chain
<1> SUFFICES ASSUME Init PROVE LayoutInv /\ Chain
  OBVIOUS
<1>1. numberOfViews = 0 /\ layout = EmptyHelper
  BY DEF Init
<1>2. /\ DOMAIN layout = {"view", "constraints", "subViews", "temporal"}
      /\ layout.view = {} /\ layout.constraints = {}
      /\ DOMAIN layout.subViews = Key
      /\ layout.temporal = [t \in TemporalKey |-> {}]
  BY <1>1 DEF EmptyHelper, NewHelper
<1>3. \A kind : OfKind(kind) = {}
  BY <1>2 DEF OfKind
<1>4. Cardinality({}) = 0 /\ IsFiniteSet({})
  BY FS_EmptySet
<1>5. layout.temporal["end align"] = {} /\ DOMAIN layout.temporal = TemporalKey
  BY <1>2, LayoutAssumption
<1>6. 1..numberOfViews = {} /\ 1..(numberOfViews - 1) = {}
  BY <1>1
<1>7. LayoutInv
  BY <1>1, <1>2, <1>3, <1>4, <1>5, <1>6 DEF LayoutInv, IsHelper
<1>8. Chain
  BY <1>1, <1>3, <1>4, <1>6 DEF Chain
<1> QED BY <1>7, <1>8

(***************************************************************************)
(* The constraints of each kind after an append: a kind grows by the new   *)
(* constraint that has it, and of the ends only the new one is left.       *)
(***************************************************************************)
LEMMA KindsAfter ==
  ASSUME NEW S, NEW a, NEW e, NEW s, NEW i, NEW v, Appends(S, a, e, s, i, v)
  PROVE  /\ OfKind("end")' = {e}
         /\ OfKind("sides")' = OfKind("sides") \cup {s}
         /\ OfKind("start")' = IF i = 1 THEN OfKind("start") \cup {a} ELSE OfKind("start")
         /\ OfKind("link")' = IF i = 1 THEN OfKind("link") ELSE OfKind("link") \cup {a}
<1>1. /\ layout'.constraints =
           (((layout.constraints \cup S) \cup {a}) \ OfKind("end")) \cup {e} \cup {s}
      /\ \A c \in S : c.text.kind = "size"
      /\ a.text.kind = (IF i = 1 THEN "start" ELSE "link")
      /\ e.text.kind = "end"
      /\ s.text.kind = "sides"
  BY DEF Appends
<1>2. \A kind : OfKind(kind)' = {c \in layout'.constraints : c.text.kind = kind}
  BY DEF OfKind
<1>3. \A kind : OfKind(kind) = {c \in layout.constraints : c.text.kind = kind}
  BY DEF OfKind
<1>4. OfKind("end")' = {e}
  BY <1>1, <1>2, <1>3
<1>5. OfKind("sides")' = OfKind("sides") \cup {s}
  BY <1>1, <1>2, <1>3
<1>6. OfKind("start")' = IF i = 1 THEN OfKind("start") \cup {a} ELSE OfKind("start")
  BY <1>1, <1>2, <1>3
<1>7. OfKind("link")' = IF i = 1 THEN OfKind("link") ELSE OfKind("link") \cup {a}
  BY <1>1, <1>2, <1>3
<1> QED BY <1>4, <1>5, <1>6, <1>7

LEMMA AppendOK ==
  ASSUME LayoutInv, Chain, NEW v \in View, NEW sized \in BOOLEAN, AppendSubview(v, sized)
  PROVE  LayoutInv' /\ Chain'
<1>n. PICK n, i : n = numberOfViews /\ i = numberOfViews + 1
  OBVIOUS
<1>1. /\ v \notin layout.view
      /\ i \in Key
      /\ numberOfViews' = i /\ metrics' = marginEnds
      /\ IsHelper(layout')
      /\ layout'.view = layout.view \cup {v}
      /\ layout'.subViews = [layout.subViews EXCEPT ![i] = v]
  BY <1>n, Appended
<1>2. PICK S, a, e, s : Appends(S, a, e, s, i, v)
  BY <1>n, Appended
<1>3. /\ n \in Nat /\ i \in Nat /\ i # 0 /\ (i = 1 <=> n = 0) /\ i - 1 = n /\ i = n + 1
      /\ n # 0 => n \in 1..n /\ 1 \in 1..n
      /\ 1..(i - 1) = 1..n
      /\ \A j \in 1..i : j \in 1..n \/ j = i
      /\ \A j \in 1..n : j # i /\ (j + 1 # i => j \in 1..(n - 1) /\ j + 1 \in 1..n)
      /\ \A j \in 1..n : j + 1 = i => j = n
  <2>1. numberOfViews \in Nat
    BY DEF LayoutInv
  <2> QED BY <2>1, <1>n
<1>4. /\ OfKind("end")' = {e}
      /\ OfKind("sides")' = OfKind("sides") \cup {s}
      /\ OfKind("start")' = IF i = 1 THEN OfKind("start") \cup {a} ELSE OfKind("start")
      /\ OfKind("link")' = IF i = 1 THEN OfKind("link") ELSE OfKind("link") \cup {a}
  BY <1>2, KindsAfter
<1>d. DOMAIN layout.subViews = Key
  BY DEF LayoutInv
<1>5. ASSUME NEW j, j # i
      PROVE  ViewAt(j)' = ViewAt(j)
  <2>1. (layout'.subViews)[j] = (layout.subViews)[j]
    BY <1>1, <1>5, <1>d
  <2> QED BY <2>1 DEF ViewAt
<1>6. ViewAt(i)' = v
  <2>1. (layout'.subViews)[i] = v
    BY <1>1, <1>d
  <2> QED BY <2>1 DEF ViewAt
<1>7. \A j \in 1..n : ViewAt(j) \in layout.view
  BY <1>n DEF LayoutInv
<1>8. /\ \A kind : IsFiniteSet(OfKind(kind))
      /\ \A kind : \A c \in OfKind(kind) : c.views \subseteq layout.view
  <2>1. \A kind : OfKind(kind) \subseteq layout.constraints
    BY DEF OfKind
  <2>2. IsFiniteSet(layout.constraints)
    BY DEF LayoutInv
  <2>3. \A kind : IsFiniteSet(OfKind(kind))
    BY <2>1, <2>2, FS_Subset
  <2> QED BY <2>1, <2>3 DEF LayoutInv
<1>9. /\ e.views = {v} /\ e.text.e = marginEnds
      /\ s.views = {v}
      /\ i = 1 => a.views = {v}
      /\ i # 1 => a.views = {ViewAt(n), v}
      /\ DOMAIN layout'.temporal = TemporalKey
      /\ layout'.temporal["end align"] = {e}
      /\ IsFiniteSet(S)
      /\ \A c \in S : c.views = {v}
      /\ layout'.constraints =
           (((layout.constraints \cup S) \cup {a}) \ OfKind("end")) \cup {e} \cup {s}
  BY <1>2, <1>3 DEF Appends
<1>10. \A T, x : IsFiniteSet(T) =>
         /\ IsFiniteSet(T \cup {x})
         /\ Cardinality(T) \in Nat
         /\ Cardinality(T \cup {x}) = IF x \in T THEN Cardinality(T) ELSE Cardinality(T) + 1
  BY FS_AddElement, FS_CardinalityType
<1>11. \A x : Cardinality({x}) = 1
  BY FS_Singleton
<1>12. LayoutInv'
  <2>1. numberOfViews' \in Nat
    BY <1>1, <1>3
  <2>2. layout'.view \subseteq View /\ Cardinality(layout'.view) = numberOfViews'
    <3>1. layout.view \subseteq View /\ IsFiniteSet(layout.view)
      BY LayoutAssumption, FS_Subset DEF LayoutInv
    <3>2. Cardinality(layout.view) = n
      BY <1>n DEF LayoutInv
    <3>3. Cardinality(layout'.view) = n + 1
      BY <1>1, <1>10, <3>1, <3>2
    <3> QED BY <1>1, <1>n, <3>1, <3>3
  <2>3. DOMAIN layout'.subViews = Key
    BY <1>1 DEF LayoutInv
  <2>4. \A j \in 1..numberOfViews' : ViewAt(j)' \in layout'.view
    BY <1>1, <1>3, <1>5, <1>6, <1>7
  <2>5. IsFiniteSet(layout'.constraints)
    <3>1. IsFiniteSet(layout.constraints)
      BY DEF LayoutInv
    <3>2. IsFiniteSet((layout.constraints \cup S) \cup {a})
      BY <1>9, <1>10, <3>1, FS_Union
    <3>3. IsFiniteSet(((layout.constraints \cup S) \cup {a}) \ OfKind("end"))
      BY <3>2, FS_Subset
    <3>4. IsFiniteSet((((layout.constraints \cup S) \cup {a}) \ OfKind("end")) \cup {e})
      BY <1>10, <3>3
    <3>5. IsFiniteSet((((layout.constraints \cup S) \cup {a}) \ OfKind("end")) \cup {e} \cup {s})
      BY <1>10, <3>4
    <3> QED BY <1>9, <3>5
  <2>6. ASSUME NEW c \in layout'.constraints PROVE c.views \subseteq layout'.view
    <3>1. c \in layout.constraints \/ c \in S \/ c = a \/ c = e \/ c = s
      BY <1>9
    <3>2. c \in layout.constraints => c.views \subseteq layout.view
      BY DEF LayoutInv
    <3>3. i # 1 => ViewAt(n) \in layout.view
      BY <1>3, <1>7
    <3> QED BY <1>1, <1>9, <3>1, <3>2, <3>3
  <2>7. layout'.temporal["end align"] = OfKind("end")'
    BY <1>4, <1>9
  <2> QED BY <1>1, <1>9, <2>1, <2>2, <2>3, <2>4, <2>5, <2>6, <2>7 DEF LayoutInv
<1>13. Cardinality(OfKind("start")') = 1 /\ \A c \in OfKind("start")' : c.views = {ViewAt(1)'}
  <2>1. CASE i = 1
    <3>1. Cardinality(OfKind("start")) = 0
      BY <1>n, <1>3, <2>1 DEF Chain
    <3>2. OfKind("start") = {}
      BY <1>8, <3>1, FS_EmptySet
    <3>3. OfKind("start")' = {a}
      BY <1>4, <2>1, <3>2
    <3> QED BY <1>6, <1>9, <1>11, <2>1, <3>3
  <2>2. CASE i # 1
    <3>1. Cardinality(OfKind("start")) = 1 /\ \A c \in OfKind("start") : c.views = {ViewAt(1)}
      BY <1>n, <1>3, <2>2 DEF Chain
    <3> QED BY <1>4, <1>5, <2>2, <3>1
  <2> QED BY <2>1, <2>2
<1>14. /\ Cardinality(OfKind("end")') = 1
       /\ \A c \in OfKind("end")' : c.views = {ViewAt(i)'} /\ c.text.e = metrics'
  BY <1>1, <1>4, <1>6, <1>9, <1>11
<1>15. Cardinality(OfKind("link")') = i - 1
  <2>1. CASE i = 1
    <3>1. Cardinality(OfKind("link")) = 0
      BY <1>n, <1>3, <2>1 DEF Chain
    <3> QED BY <1>4, <2>1, <3>1
  <2>2. CASE i # 1
    <3>1. Cardinality(OfKind("link")) = n - 1
      BY <1>n, <1>3, <2>2 DEF Chain
    <3>2. a \notin OfKind("link")
      BY <1>1, <1>8, <1>9, <2>2
    <3>3. Cardinality(OfKind("link")') = Cardinality(OfKind("link")) + 1
      BY <1>4, <1>8, <1>10, <2>2, <3>2
    <3> QED BY <1>3, <3>1, <3>3
  <2> QED BY <2>1, <2>2
<1>16. ASSUME NEW j \in 1..(i - 1)
       PROVE  \E c \in OfKind("link")' : c.views = {ViewAt(j)', ViewAt(j + 1)'}
  <2>1. j \in 1..n /\ i # 1
    BY <1>3
  <2>2. CASE j + 1 = i
    <3>1. j = n /\ j # i
      BY <1>3, <1>7, <2>1, <2>2
    <3> QED BY <1>4, <1>5, <1>6, <1>9, <2>1, <2>2, <3>1
  <2>3. CASE j + 1 # i
    <3>1. j \in 1..(n - 1) /\ j # i
      BY <1>3, <1>7, <2>1, <2>3
    <3>2. PICK c \in OfKind("link") : c.views = {ViewAt(j), ViewAt(j + 1)}
      BY <1>n, <3>1 DEF Chain
    <3>3. ViewAt(j)' = ViewAt(j) /\ ViewAt(j + 1)' = ViewAt(j + 1)
      BY <1>5, <2>3, <3>1
    <3> QED BY <1>4, <2>1, <3>2, <3>3
  <2> QED BY <2>2, <2>3
<1>17. ASSUME NEW j \in 1..i
       PROVE  Cardinality({c \in OfKind("sides")' : c.views = {ViewAt(j)'}}) = 1
  <2>1. CASE j = i
    <3>1. {c \in OfKind("sides")' : c.views = {ViewAt(j)'}} = {s}
      BY <1>1, <1>4, <1>6, <1>8, <1>9, <2>1
    <3> QED BY <1>11, <3>1
  <2>2. CASE j # i
    <3>1. j \in 1..n /\ ViewAt(j) \in layout.view /\ ViewAt(j)' = ViewAt(j)
      BY <1>3, <1>5, <1>7, <2>2
    <3>2. {c \in OfKind("sides")' : c.views = {ViewAt(j)'}}
            = {c \in OfKind("sides") : c.views = {ViewAt(j)}}
      BY <1>1, <1>4, <1>9, <3>1
    <3>3. Cardinality({c \in OfKind("sides") : c.views = {ViewAt(j)}}) = 1
      BY <1>n, <3>1 DEF Chain
    <3> QED BY <3>2, <3>3
  <2> QED BY <2>1, <2>2
<1>18. Chain'
  BY <1>1, <1>3, <1>13, <1>14, <1>15, <1>16, <1>17 DEF Chain
<1> QED BY <1>12, <1>18

(***************************************************************************)
(* However many views are appended, with or without a size and whatever    *)
(* becomes of the margin, they make one chain.                             *)
(***************************************************************************)
THEOREM OneChain == Spec => []Chain
<1>1. Init => LayoutInv /\ Chain
  BY LayoutInitOK
<1>2. LayoutInv /\ Chain /\ [Next]_vars => (LayoutInv /\ Chain)'
  <2>1. SUFFICES ASSUME LayoutInv, Chain, [Next]_vars PROVE LayoutInv' /\ Chain'
    OBVIOUS
  <2>2. CASE UNCHANGED vars \/ \E m \in Margin : SetMarginEnds(m)
    <3>1. layout' = layout /\ numberOfViews' = numberOfViews /\ metrics' = metrics
      BY <2>2 DEF vars, SetMarginEnds
    <3>2. \A kind : OfKind(kind)' = OfKind(kind)
      BY <3>1 DEF OfKind
    <3>3. \A i : ViewAt(i)' = ViewAt(i)
      BY <3>1 DEF ViewAt
    <3>4. \A i : ViewAt(i + 1)' = ViewAt(i + 1)
      BY <3>1 DEF ViewAt
    <3>5. LayoutInv'
      BY <2>1, <3>1, <3>2, <3>3 DEF LayoutInv
    <3>6. Chain'
      <4>1. /\ OfKind("start")' = OfKind("start") /\ OfKind("end")' = OfKind("end")
            /\ OfKind("link")' = OfKind("link") /\ OfKind("sides")' = OfKind("sides")
        BY <3>2
      <4>2. ViewAt(1)' = ViewAt(1) /\ ViewAt(numberOfViews)' = ViewAt(numberOfViews)
        BY <3>1 DEF ViewAt
      <4> QED BY <2>1, <3>1, <3>3, <3>4, <4>1, <4>2 DEF Chain
    <3> QED BY <3>5, <3>6
  <2>3. CASE \E v \in View, sized \in BOOLEAN : AppendSubview(v, sized)
    BY <2>1, <2>3, AppendOK
  <2> QED BY <2>1, <2>2, <2>3 DEF Next
<1> QED BY <1>1, <1>2, PTL DEF Spec
=============================================================================
