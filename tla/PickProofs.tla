----------------------------- MODULE PickProofs -----------------------------
(* Proofs about Pick, for rows of any number in any order.                   *)
EXTENDS Pick, TLAPS

\* The rows the loop has left behind.
Seen == 1..i - 1

\* What the loop knows of the rows behind it: found is the first of the most
\* specific ones, and no other is as specific.
Best ==
  /\ found = 0 <=> rank = -1
  /\ found # 0 => /\ found \in Seen /\ Applies(rows[found])
                  /\ rank = Specificity(rows[found])
  /\ \A j \in Seen : Applies(rows[j]) /\ j # found => Specificity(rows[j]) < rank

PickInv ==
  /\ TypeOK
  /\ answer # "conflict" => Best
  /\ answer = "picked" => i = Len(rows) + 1
  /\ RefusedOnlyForOneKeyTwice

\* The four grades of a row are numbers, and tell apart how it is specific.
LEMMA SpecificityRange ==
  \A s \in Row : Specificity(s) \in 0..3
BY DEF Specificity

\* Two rows that apply and are equally specific have one policy key: this is
\* where the weights 2 and 1 of the code matter.
LEMMA EqualSpecificityIsOneKey ==
  ASSUME TypeOK, NEW r \in Row, NEW s \in Row,
         Applies(r), Applies(s), Specificity(r) = Specificity(s)
  PROVE  SameKey(r, s)
<1>1. want.zip # "*"
  BY PickAssumption DEF TypeOK, Want
<1>2. r.geo = want.zip <=> s.geo = want.zip
  BY DEF Specificity
<1>3. r.structure = want.structure <=> s.structure = want.structure
  BY DEF Specificity
<1> QED
  BY <1>1, <1>2, <1>3 DEF Applies, SameKey

LEMMA InitPickInv == Init => PickInv
<1> SUFFICES ASSUME Init PROVE PickInv
  OBVIOUS
<1>1. rows \in Seq(Row)
  BY DEF Init
<1>2. Len(rows) \in Nat
  BY <1>1
<1> QED
  BY <1>1, <1>2 DEF Init, PickInv, TypeOK, Best, Seen, RefusedOnlyForOneKeyTwice

LEMMA NextPickInv == PickInv /\ [Next]_vars => PickInv'
<1> SUFFICES ASSUME PickInv, [Next]_vars PROVE PickInv'
  OBVIOUS
<1>1. /\ rows \in Seq(Row) /\ Len(rows) \in Nat /\ i \in Nat /\ rank \in Int
      /\ found \in Nat
  BY DEF PickInv, TypeOK
<1>2. ASSUME Examine PROVE PickInv'
  <2>1. /\ i \in 1..Len(rows) /\ answer = "open" /\ i' = i + 1
        /\ rows' = rows /\ want' = want /\ Best /\ rows[i] \in Row
    BY <1>1, <1>2 DEF Examine, PickInv, TypeOK
  <2>2. Specificity(rows[i]) \in 0..3
    BY <2>1, SpecificityRange
  <2>3. \A s : Applies(s)' = Applies(s) /\ Specificity(s)' = Specificity(s)
    BY <2>1 DEF Applies, Specificity
  <2>4. Seen' = Seen \cup {i} /\ i \notin Seen
    BY <1>1, <2>1 DEF Seen
  <2>5. ASSUME Skip \/ Pass PROVE PickInv'
    BY <1>1, <2>1, <2>2, <2>3, <2>4, <2>5
    DEF Skip, Pass, PickInv, TypeOK, Best, RefusedOnlyForOneKeyTwice
  <2>6. ASSUME Improve PROVE PickInv'
    <3>1. TypeOK'
      BY <1>1, <2>1, <2>2, <2>6 DEF Improve, PickInv, TypeOK
    <3>2. \A j \in Seen : Applies(rows[j]) => Specificity(rows[j]) <= rank
      <4> SUFFICES ASSUME NEW j \in Seen, Applies(rows[j])
                   PROVE  Specificity(rows[j]) <= rank
        OBVIOUS
      <4>1. j \in Nat \ {0} /\ rows[j] \in Row
        BY <1>1, <2>1 DEF Seen
      <4>2. Specificity(rows[j]) \in 0..3
        BY <4>1, SpecificityRange
      <4>3. CASE j = found
        BY <1>1, <2>1, <4>1, <4>2, <4>3 DEF Best
      <4>4. CASE j # found
        BY <1>1, <2>1, <4>2, <4>4 DEF Best
      <4> QED
        BY <4>3, <4>4
    <3>3. Best'
      <4>1. \A j \in Seen : rows[j] \in Row
        BY <1>1, <2>1 DEF Seen
      <4> QED
        BY <1>1, <2>1, <2>2, <2>3, <2>4, <2>6, <3>2, <4>1, SpecificityRange DEF Improve, Best
    <3> QED
      BY <2>1, <2>6, <3>1, <3>3 DEF Improve, PickInv, RefusedOnlyForOneKeyTwice
  <2>7. ASSUME Conflict PROVE PickInv'
    <3>1. found # 0 /\ found \in Seen /\ found < i
      BY <1>1, <2>1, <2>2, <2>7 DEF Conflict, Best, Seen
    <3>2. rows[found] \in Row /\ found \in 1..Len(rows)
      BY <1>1, <2>1, <3>1 DEF Seen
    <3>3. SameKey(rows[found], rows[i])
      BY <2>1, <2>7, <3>1, <3>2, EqualSpecificityIsOneKey DEF Conflict, Best, PickInv
    <3>4. RefusedOnlyForOneKeyTwice'
      BY <2>1, <3>1, <3>2, <3>3 DEF RefusedOnlyForOneKeyTwice, SameKey
    <3> QED
      BY <1>1, <2>1, <2>7, <3>4 DEF Conflict, PickInv, TypeOK
  <2> QED
    BY <1>2, <2>5, <2>6, <2>7 DEF Examine
<1>3. ASSUME Return PROVE PickInv'
  BY <1>1, <1>3 DEF Return, PickInv, TypeOK, Best, Seen, Applies, Specificity,
                    RefusedOnlyForOneKeyTwice
<1>4. ASSUME UNCHANGED vars PROVE PickInv'
  BY <1>4 DEF vars, PickInv, TypeOK, Best, Seen, Applies, Specificity,
              RefusedOnlyForOneKeyTwice, SameKey
<1> QED
  BY <1>2, <1>3, <1>4 DEF Next

LEMMA PickInvHolds == Spec => []PickInv
BY InitPickInv, NextPickInv, PTL DEF Spec

\* For rows of any number and any order: what pick returns is strictly more
\* specific than every other row that applies, and it returns nothing only if
\* nothing applies (types.go:188-212).
THEOREM ChoiceIsStrictlyBestHolds == Spec => []ChoiceIsStrictlyBest
<1>1. PickInv => ChoiceIsStrictlyBest
  <2> SUFFICES ASSUME PickInv, answer = "picked",
                      NEW j \in 1..Len(rows), Applies(rows[j])
               PROVE  /\ found # 0 /\ Applies(rows[found])
                      /\ j # found => Specificity(rows[j]) < Specificity(rows[found])
    BY DEF ChoiceIsStrictlyBest
  <2>1. Best /\ j \in Seen /\ rows[j] \in Row
    BY DEF PickInv, TypeOK, Seen
  <2>2. Specificity(rows[j]) \in 0..3
    BY <2>1, SpecificityRange
  <2> QED
    BY <2>1, <2>2 DEF Best
<1> QED
  BY <1>1, PickInvHolds, PTL

\* A lookup whose rows have different policy keys is never refused for a
\* conflict (types.go:207-209).
THEOREM RefusedOnlyForOneKeyTwiceHolds == Spec => []RefusedOnlyForOneKeyTwice
<1>1. PickInv => RefusedOnlyForOneKeyTwice
  BY DEF PickInv
<1> QED
  BY <1>1, PickInvHolds, PTL
=============================================================================
