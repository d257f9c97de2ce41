-------------------------------- MODULE Pick --------------------------------
(* pick of types.go: the one pass over the schedule rows of a lookup that    *)
(* chooses the payment standard or the utility allowance of an analysis.     *)
(* The rows come in the order of their random ids.                           *)
EXTENDS Naturals, Integers, Sequences

CONSTANTS
  Subjects,    \* what a row is about: kind, bedrooms and utility code
  Zips,
  Structures,  \* detached, attached, high_rise
  Cents,
  MaxRows      \* bound: rows in one lookup

ASSUME PickAssumption ==
  /\ MaxRows \in Nat
  /\ "*" \notin Zips /\ "any" \notin Structures

Row == [subject : Subjects, geo : Zips \cup {"*"}, structure : Structures \cup {"any"},
        cents : Cents]

\* The arguments of the call; payment standards are looked up with "any".
Want == [subject : Subjects, zip : Zips, structure : Structures \cup {"any"}]

VARIABLES
  rows,    \* the rows of the lookup
  want,
  i,       \* the row the loop is at
  found,   \* the index of the best row so far, 0 for nil
  rank,
  answer   \* "open" in the loop, then "picked" or "conflict"

vars == <<rows, want, i, found, rank, answer>>

Init ==
  /\ rows \in UNION {[1..n -> Row] : n \in 0..MaxRows}
  /\ want \in Want
  /\ i = 1 /\ found = 0 /\ rank = -1 /\ answer = "open"

Applies(s) ==
  /\ s.subject = want.subject
  /\ s.structure \in {want.structure, "any"}
  /\ s.geo \in {want.zip, "*"}

\* BUG: the two ways of being specific weigh the same.
SpecificityFlat(s) ==
  (IF s.geo = want.zip THEN 2 ELSE 0) + (IF s.structure = want.structure THEN 2 ELSE 0)

\* n of the code: an exact ZIP outweighs an exact structure.
Specificity(s) ==
  (IF s.geo = want.zip THEN 2 ELSE 0) + (IF s.structure = want.structure THEN 1 ELSE 0)

Skip ==
  /\ ~Applies(rows[i])
  /\ UNCHANGED <<found, rank, answer>>

Improve ==
  /\ Applies(rows[i]) /\ Specificity(rows[i]) > rank
  /\ found' = i /\ rank' = Specificity(rows[i])
  /\ UNCHANGED answer

\* BUG: of two rows that are equally specific the first one is taken.
ConflictIgnored ==
  /\ Applies(rows[i]) /\ Specificity(rows[i]) = rank
  /\ UNCHANGED <<found, rank, answer>>

Conflict ==
  /\ Applies(rows[i]) /\ Specificity(rows[i]) = rank
  /\ answer' = "conflict"
  /\ UNCHANGED <<found, rank>>

Pass ==
  /\ Applies(rows[i]) /\ Specificity(rows[i]) < rank
  /\ UNCHANGED <<found, rank, answer>>

Examine ==
  /\ answer = "open" /\ i <= Len(rows)
  /\ Skip \/ Improve \/ Conflict \/ Pass
  /\ i' = i + 1
  /\ UNCHANGED <<rows, want>>

Return ==
  /\ answer = "open" /\ i > Len(rows)
  /\ answer' = "picked"
  /\ UNCHANGED <<rows, want, i, found, rank>>

Next == Examine \/ Return

Spec == Init /\ [][Next]_vars

-----------------------------------------------------------------------------
(* Properties.                                                               *)

TypeOK ==
  /\ rows \in Seq(Row) /\ want \in Want
  /\ i \in 1..Len(rows) + 1 /\ found \in 0..Len(rows)
  /\ rank \in -1..3
  /\ answer \in {"open", "picked", "conflict"}

\* The comment at types.go:188: the row picked is strictly more specific than
\* every other row that applies, whatever the order of the rows, and nothing
\* is picked only if nothing applies.
ChoiceIsStrictlyBest ==
  answer = "picked" =>
    \A j \in 1..Len(rows) :
      Applies(rows[j]) =>
        /\ found # 0 /\ Applies(rows[found])
        /\ j # found => Specificity(rows[j]) < Specificity(rows[found])

\* Two rows of the same policy key.
SameKey(r, s) == r.subject = s.subject /\ r.geo = s.geo /\ r.structure = s.structure

\* An analysis is refused for conflicting rows (types.go:207-209) only if the
\* lookup returned two rows of one policy key, which the exclusion constraint
\* of schedule_rows does not let happen (Catalog!AtMostOneVersion).
RefusedOnlyForOneKeyTwice ==
  answer = "conflict" =>
    \E j, k \in 1..Len(rows) : j < k /\ SameKey(rows[j], rows[k])
=============================================================================
