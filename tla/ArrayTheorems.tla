--------------------------- MODULE ArrayTheorems ---------------------------
(***************************************************************************)
(* What adding an object to an array, removing one and looking one up do   *)
(* to the objects the array holds and to their positions, for the proofs   *)
(* about the mutable arrays of the app.                                    *)
(***************************************************************************)
EXTENDS Integers, Sequences, SequencesExt, SequenceTheorems,
        WellFoundedInduction, NaturalsInduction, TLAPS

(* The objects an array holds. *)
LEMMA RangeOfArray ==
  ASSUME NEW S, NEW s \in Seq(S)
  PROVE  /\ \A x : x \in Range(s) <=> \E j \in 1..Len(s) : s[j] = x
         /\ Range(s) \subseteq S
         /\ IsInjective(s) <=> \A j, k \in 1..Len(s) : s[j] = s[k] => j = k
<1>1. DOMAIN s = 1..Len(s) /\ \A j \in 1..Len(s) : s[j] \in S
  BY LenProperties, ElementOfSeq
<1> QED BY <1>1 DEF Range, IsInjective

(* Adding an object keeps the others, and their order. *)
LEMMA AppendArray ==
  ASSUME NEW S, NEW s \in Seq(S), NEW x \in S
  PROVE  /\ Append(s, x) \in Seq(S)
         /\ Range(Append(s, x)) = Range(s) \cup {x}
         /\ IsInjective(s) /\ x \notin Range(s) => IsInjective(Append(s, x))
<1>1. /\ Append(s, x) \in Seq(S)
      /\ Len(Append(s, x)) = Len(s) + 1
      /\ \A j \in 1..Len(s) : Append(s, x)[j] = s[j]
      /\ Append(s, x)[Len(s) + 1] = x
  BY AppendProperties
<1>2. Len(s) \in Nat
  BY LenProperties
<1>3. \A y : y \in Range(Append(s, x)) <=> \E j \in 1..(Len(s) + 1) : Append(s, x)[j] = y
  <2> DEFINE t == Append(s, x)
  <2>1. t \in Seq(S) /\ Len(t) = Len(s) + 1
    BY <1>1
  <2> HIDE DEF t
  <2>2. \A y : y \in Range(t) <=> \E j \in 1..(Len(s) + 1) : t[j] = y
    BY <2>1, RangeOfArray
  <2> QED BY <2>2 DEF t
<1>4. \A y : y \in Range(s) <=> \E j \in 1..Len(s) : s[j] = y
  BY RangeOfArray
<1>5. Range(Append(s, x)) = Range(s) \cup {x}
  <2>1. ASSUME NEW y PROVE y \in Range(Append(s, x)) <=> y \in Range(s) \/ y = x
    BY <1>1, <1>2, <1>3, <1>4
  <2> QED BY <2>1
<1>6. ASSUME IsInjective(s), x \notin Range(s) PROVE IsInjective(Append(s, x))
  <2>1. SUFFICES ASSUME NEW j \in 1..(Len(s) + 1), NEW k \in 1..(Len(s) + 1),
                        Append(s, x)[j] = Append(s, x)[k]
                 PROVE  j = k
    BY <1>1, RangeOfArray
  <2>2. \A a, b \in 1..Len(s) : s[a] = s[b] => a = b
    BY <1>6, RangeOfArray
  <2> QED BY <1>1, <1>2, <1>4, <1>6, <2>1, <2>2
<1> QED BY <1>1, <1>5, <1>6

(* Removing the i-th element of a sequence leaves a sequence without it. *)
LEMMA RemoveAtProperties ==
  ASSUME NEW S, NEW s \in Seq(S), NEW i \in 1..Len(s)
  PROVE  /\ RemoveAt(s, i) \in Seq(S)
         /\ Len(RemoveAt(s, i)) = Len(s) - 1
         /\ \A j \in 1..(i - 1) : RemoveAt(s, i)[j] = s[j]
         /\ \A j \in i..(Len(s) - 1) : RemoveAt(s, i)[j] = s[j + 1]
<1> DEFINE before == SubSeq(s, 1, i - 1)
           after == SubSeq(s, i + 1, Len(s))
<1>1. /\ before \in Seq(S)
      /\ Len(before) = i - 1
      /\ \A j \in 1..(i - 1) : before[j] = s[j]
  <2>1. /\ before \in Seq(S)
        /\ Len(before) = IF 1 <= i - 1 THEN i - 1 - 1 + 1 ELSE 0
        /\ \A j \in 1..(i - 1 - 1 + 1) : before[j] = s[1 + j - 1]
    <3>1. 1 \in Int /\ i - 1 \in Int /\ \A j \in 1..(i - 1) : s[j] \in S
      BY ElementOfSeq
    <3> QED BY <3>1, SubSeqProperties
  <2> QED BY <2>1
<1>2. /\ after \in Seq(S)
      /\ Len(after) = Len(s) - i
      /\ \A j \in 1..(Len(s) - i) : after[j] = s[j + i]
  <2>1. /\ after \in Seq(S)
        /\ Len(after) = IF i + 1 <= Len(s) THEN Len(s) - (i + 1) + 1 ELSE 0
        /\ \A j \in 1..(Len(s) - (i + 1) + 1) : after[j] = s[(i + 1) + j - 1]
    <3>1. i + 1 \in Int /\ Len(s) \in Int /\ \A j \in (i + 1)..Len(s) : s[j] \in S
      BY ElementOfSeq, LenProperties
    <3> QED BY <3>1, SubSeqProperties
  <2> QED BY <2>1, LenProperties
<1>3. RemoveAt(s, i) = before \o after
  BY DEF RemoveAt
<1> HIDE DEF before, after
<1>4. /\ before \o after \in Seq(S)
      /\ Len(before \o after) = Len(s) - 1
      /\ \A j \in 1..(Len(s) - 1) :
           (before \o after)[j] = IF j <= i - 1 THEN before[j] ELSE after[j - (i - 1)]
  <2>1. /\ before \o after \in Seq(S)
        /\ Len(before \o after) = Len(before) + Len(after)
        /\ \A j \in 1..(Len(before) + Len(after)) :
             (before \o after)[j]
               = IF j <= Len(before) THEN before[j] ELSE after[j - Len(before)]
    BY <1>1, <1>2, ConcatProperties
  <2>2. Len(s) \in Nat /\ i \in Nat
    BY LenProperties
  <2>3. Len(before) + Len(after) = Len(s) - 1
    BY <1>1, <1>2, <2>2
  <2> QED BY <1>1, <2>1, <2>3
<1>5. Len(s) \in Nat /\ i \in Nat
  BY LenProperties
<1>6. \A j \in 1..(i - 1) : (before \o after)[j] = s[j]
  BY <1>1, <1>4, <1>5
<1>7. \A j \in i..(Len(s) - 1) : (before \o after)[j] = s[j + 1]
  <2> TAKE j \in i..(Len(s) - 1)
  <2>1. (before \o after)[j] = after[j - (i - 1)]
    BY <1>4, <1>5
  <2>2. j - (i - 1) \in 1..(Len(s) - i)
    BY <1>5
  <2>3. after[j - (i - 1)] = s[(j - (i - 1)) + i]
    BY <1>2, <2>2
  <2>4. (j - (i - 1)) + i = j + 1
    BY <1>5
  <2> QED BY <2>1, <2>3, <2>4
<1> QED BY <1>3, <1>4, <1>6, <1>7

(* Removing one of distinct objects keeps the others. *)
LEMMA RemoveAtArray ==
  ASSUME NEW S, NEW s \in Seq(S), NEW i \in 1..Len(s), IsInjective(s)
  PROVE  /\ Range(RemoveAt(s, i)) = Range(s) \ {s[i]}
         /\ IsInjective(RemoveAt(s, i))
<1> DEFINE r == RemoveAt(s, i)
<1>1. /\ r \in Seq(S)
      /\ Len(r) = Len(s) - 1
      /\ \A j \in 1..(i - 1) : r[j] = s[j]
      /\ \A j \in i..(Len(s) - 1) : r[j] = s[j + 1]
  BY RemoveAtProperties
<1> HIDE DEF r
<1>2. Len(s) \in Nat /\ i \in Nat
  BY LenProperties
<1>3. \A j, k \in 1..Len(s) : s[j] = s[k] => j = k
  BY RangeOfArray
<1>4. \A y : y \in Range(s) <=> \E j \in 1..Len(s) : s[j] = y
  BY RangeOfArray
<1>5. \A y : y \in Range(r) <=> \E j \in 1..(Len(s) - 1) : r[j] = y
  BY <1>1, RangeOfArray
<1>6. ASSUME NEW y \in Range(r) PROVE y \in Range(s) \ {s[i]}
  <2>1. PICK j \in 1..(Len(s) - 1) : r[j] = y
    BY <1>5
  <2>2. CASE j <= i - 1
    BY <1>1, <1>2, <1>3, <1>4, <2>1, <2>2
  <2>3. CASE j >= i
    BY <1>1, <1>2, <1>3, <1>4, <2>1, <2>3
  <2> QED BY <1>2, <2>2, <2>3
<1>7. ASSUME NEW y \in Range(s) \ {s[i]} PROVE y \in Range(r)
  <2>1. PICK j \in 1..Len(s) : s[j] = y
    BY <1>4
  <2>2. CASE j < i
    BY <1>1, <1>2, <1>5, <2>1, <2>2
  <2>3. CASE j > i
    <3>1. r[j - 1] = s[j] /\ j - 1 \in 1..(Len(s) - 1)
      BY <1>1, <1>2, <2>3
    <3> QED BY <1>5, <2>1, <3>1
  <2> QED BY <1>2, <2>1, <2>2, <2>3
<1>8. ASSUME NEW j \in 1..(Len(s) - 1), NEW k \in 1..(Len(s) - 1), r[j] = r[k]
      PROVE  j = k
  <2>1. r[j] = s[IF j <= i - 1 THEN j ELSE j + 1]
    BY <1>1, <1>2
  <2>2. r[k] = s[IF k <= i - 1 THEN k ELSE k + 1]
    BY <1>1, <1>2
  <2>3. /\ (IF j <= i - 1 THEN j ELSE j + 1) \in 1..Len(s)
        /\ (IF k <= i - 1 THEN k ELSE k + 1) \in 1..Len(s)
    BY <1>2
  <2>4. (IF j <= i - 1 THEN j ELSE j + 1) = (IF k <= i - 1 THEN k ELSE k + 1)
    BY <1>3, <1>8, <2>1, <2>2, <2>3
  <2> QED BY <1>2, <2>4
<1>9. IsInjective(r)
  BY <1>1, <1>8, RangeOfArray
<1> QED BY <1>6, <1>7, <1>9 DEF r

(* The first of the positions where an object is. *)
LEMMA LeastPosition ==
  ASSUME NEW n \in Nat, NEW I \in SUBSET (1..n), I # {}
  PROVE  \E i \in I : \A j \in I : i <= j
<1> DEFINE R == OpToRel(<, Nat)
<1>1. IsWellFoundedOn(R, Nat)
  BY NatLessThanWellFounded
<1>2. R = {ss \in Nat \X Nat : ss[1] < ss[2]}
  BY DEF OpToRel
<1> HIDE DEF R
<1>3. I \subseteq Nat
  OBVIOUS
<1>4. PICK x \in I : \A y \in I : ~(<<y, x>> \in R)
  BY <1>1, <1>3, WFMin
<1>5. \A y \in I : y < x => <<y, x>> \in R
  BY <1>2, <1>3
<1>6. \A y \in I : x <= y
  <2>1. \A y \in I : ~(y < x)
    BY <1>4, <1>5, Zenon
  <2> QED BY <1>3, <2>1
<1> QED BY <1>6
=============================================================================
