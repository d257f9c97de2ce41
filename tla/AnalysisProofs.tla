--------------------------- MODULE AnalysisProofs ---------------------------
(* Proofs about an analysis, for every catalog, request and market: what the *)
(* planning figures of the answer cite and say (Planning), and which market  *)
(* observations its sample shows (Comparables).  Both need induction over    *)
(* finite sets, the allowances that are added up and the candidates of the   *)
(* loop; the first section has it, for sets where the library has operators. *)
EXTENDS Planning, Comparables, FiniteSetTheorems, TLAPS

-----------------------------------------------------------------------------
(* Induction and folds over finite sets.                                     *)

\* A set of finite sets has one that loses its membership with any element.
LEMMA MinimalSet ==
  ASSUME NEW S, IsFiniteSet(S), NEW T \in SUBSET SUBSET S, T # {}
  PROVE  \E u \in T : \A x \in u : u \ {x} \notin T
<1>1. T \subseteq FiniteSubsetsOf(S)
  BY FS_FiniteSubsetsOfFinite
<1>2. PICK u \in T : \A v \in T : ~(<<v, u>> \in StrictSubsetOrdering(S))
  BY <1>1, FS_StrictSubsetOrderingWellFounded, WFMin
<1>3. \A x \in u : u \ {x} \in SUBSET S /\ u \ {x} \subseteq u /\ u \ {x} # u
  OBVIOUS
<1> QED
  BY <1>2, <1>3 DEF StrictSubsetOrdering

\* Induction over the subsets of a finite set, for a set of subsets.
LEMMA SubsetInduction ==
  ASSUME NEW S, IsFiniteSet(S), NEW Good, {} \in Good,
         \A u \in SUBSET S : u # {} /\ (\A x \in u : u \ {x} \in Good) => u \in Good
  PROVE  \A u \in SUBSET S : u \in Good
<1> DEFINE T == (SUBSET S) \ Good
<1> SUFFICES ASSUME T # {} PROVE FALSE
  OBVIOUS
<1>1. PICK u \in T : \A x \in u : u \ {x} \notin T
  BY MinimalSet
<1>2. \A x \in u : u \ {x} \in SUBSET S
  OBVIOUS
<1>3. \A x \in u : u \ {x} \in Good
  BY <1>1, <1>2
<1> QED
  BY <1>3

\* g folds the subsets of S: the element that pick takes comes last.
Folds(g, S, base, pick, step) ==
  g = [u \in SUBSET S |->
         IF u = {} THEN base ELSE step[pick[u]][g[u \ {pick[u]}]]]

\* Two folds agree where both are defined.
LEMMA FoldIsUnique ==
  ASSUME NEW A, NEW B, NEW base, NEW pick, NEW step, IsFiniteSet(A),
         \A u \in SUBSET A : u # {} => pick[u] \in u,
         NEW g, Folds(g, A, base, pick, step), NEW h, Folds(h, B, base, pick, step),
         NEW w \in SUBSET A, w \in SUBSET B
  PROVE  g[w] = h[w]
<1> DEFINE T == {u \in SUBSET w : g[u] # h[u]}
<1> SUFFICES ASSUME T # {} PROVE FALSE
  OBVIOUS
<1>1. IsFiniteSet(w)
  BY FS_Subset
<1>2. PICK u \in T : \A x \in u : u \ {x} \notin T
  BY <1>1, MinimalSet
<1>3. /\ g[u] = IF u = {} THEN base ELSE step[pick[u]][g[u \ {pick[u]}]]
      /\ h[u] = IF u = {} THEN base ELSE step[pick[u]][h[u \ {pick[u]}]]
  BY DEF Folds
<1>4. u # {}
  BY <1>3
<1>5. pick[u] \in u /\ u \ {pick[u]} \in SUBSET w
  BY <1>4
<1>6. g[u \ {pick[u]}] = h[u \ {pick[u]}]
  BY <1>2, <1>5
<1> QED
  BY <1>3, <1>6

\* There is a fold of every finite set.
LEMMA FoldExists ==
  ASSUME NEW S, IsFiniteSet(S), NEW base, NEW pick, NEW step,
         \A u \in SUBSET S : u # {} => pick[u] \in u
  PROVE  \E g : Folds(g, S, base, pick, step)
<1> DEFINE T == {u \in SUBSET S : ~\E g : Folds(g, u, base, pick, step)}
<1> SUFFICES ASSUME T # {} PROVE FALSE
  OBVIOUS
<1>1. PICK u \in T : \A x \in u : u \ {x} \notin T
  BY MinimalSet
<1> DEFINE G(x) == CHOOSE g : Folds(g, u \ {x}, base, pick, step)
           h == [v \in SUBSET u |->
                   IF v = {} THEN base ELSE step[pick[v]][G(pick[v])[v \ {pick[v]}]]]
<1>2. \A x \in u : Folds(G(x), u \ {x}, base, pick, step)
  <2> TAKE x \in u
  <2>1. \E g : Folds(g, u \ {x}, base, pick, step)
    BY <1>1
  <2> QED
    BY <2>1
<1> HIDE DEF G
<1>3. ASSUME NEW v \in SUBSET u, v # {}
      PROVE  h[v \ {pick[v]}] = G(pick[v])[v \ {pick[v]}]
  <2> DEFINE x == pick[v]
             w == v \ {x}
             y == pick[w]
  <2>1. x \in u /\ w \in SUBSET (u \ {x})
    BY <1>3
  <2>2. G(x)[w] = IF w = {} THEN base ELSE step[y][G(x)[w \ {y}]]
    <3>1. Folds(G(x), u \ {x}, base, pick, step)
      BY <1>2, <2>1
    <3> DEFINE g == G(x)
    <3>2. Folds(g, u \ {x}, base, pick, step)
      BY <3>1
    <3> HIDE DEF x, w, y, g, h, T
    <3>3. g[w] = IF w = {} THEN base ELSE step[pick[w]][g[w \ {pick[w]}]]
      BY <2>1, <3>2 DEF Folds
    <3> QED
      BY <3>3 DEF g, y
  <2>3. h[w] = IF w = {} THEN base ELSE step[y][G(y)[w \ {y}]]
    OBVIOUS
  <2>4. ASSUME w # {} PROVE G(x)[w \ {y}] = G(y)[w \ {y}]
    <3>1. y \in w
      BY <2>4
    <3>2. w \ {y} \in SUBSET (u \ {x}) /\ w \ {y} \in SUBSET (u \ {y}) /\ y \in u
      BY <3>1
    <3>3. IsFiniteSet(u \ {x}) /\ \A r \in SUBSET (u \ {x}) : r # {} => pick[r] \in r
      BY FS_Subset
    <3>4. /\ Folds(G(x), u \ {x}, base, pick, step)
          /\ Folds(G(y), u \ {y}, base, pick, step)
      BY <1>2, <2>1, <3>2
    <3> HIDE DEF x, y, w
    <3> QED
      BY <3>2, <3>3, <3>4, FoldIsUnique
  <2> QED
    BY <2>2, <2>3, <2>4
<1>4. Folds(h, u, base, pick, step)
  <2> SUFFICES \A v \in SUBSET u :
                 h[v] = IF v = {} THEN base ELSE step[pick[v]][h[v \ {pick[v]}]]
    BY DEF Folds
  <2> TAKE v \in SUBSET u
  <2>1. CASE v = {}
    BY <2>1
  <2>2. CASE v # {}
    BY <1>3, <2>2
  <2> QED
    BY <2>1, <2>2
<1> QED
  BY <1>4

\* The total of rows is a natural number.
LEMMA TotalIsNat ==
  ASSUME NEW S, IsFiniteSet(S), \A s \in S : s.cents \in Nat
  PROVE  Total(S) \in Nat
<1> DEFINE Any(u) == CHOOSE x \in u : TRUE
           Sum(f) == f = [u \in SUBSET S |->
                            IF u = {} THEN 0 ELSE Any(u).cents + f[u \ {Any(u)}]]
           pick == [u \in SUBSET S |-> Any(u)]
           step == [x \in S |-> [v \in Nat |-> x.cents + v]]
<1>1. \A u \in SUBSET S : u # {} => Any(u) \in u /\ u \ {Any(u)} \in SUBSET S
  OBVIOUS
<1> HIDE DEF Any
<1>2. \A u \in SUBSET S : u # {} => pick[u] \in u
  BY <1>1
<1>3. PICK g : Folds(g, S, 0, pick, step)
  BY <1>2, FoldExists
<1>4. \A u \in SUBSET S :
        g[u] = IF u = {} THEN 0 ELSE step[Any(u)][g[u \ {Any(u)}]]
  BY <1>3 DEF Folds
<1>5. \A u \in SUBSET S : g[u] \in Nat
  <2> DEFINE Good == {u \in SUBSET S : g[u] \in Nat}
  <2>1. ASSUME NEW u \in SUBSET S, u # {}, \A x \in u : u \ {x} \in Good
        PROVE  g[u] \in Nat
    <3>1. Any(u) \in S /\ g[u \ {Any(u)}] \in Nat
      BY <1>1, <2>1
    <3>2. g[u] = step[Any(u)][g[u \ {Any(u)}]]
      BY <1>4, <2>1
    <3> QED
      BY <3>1, <3>2
  <2>2. g[{}] = 0
    BY <1>4
  <2>3. \A u \in SUBSET S : u # {} /\ (\A x \in u : u \ {x} \in Good) => u \in Good
    BY <2>1
  <2>4. {} \in Good
    BY <2>2
  <2> HIDE DEF Good
  <2>5. \A u \in SUBSET S : u \in Good
    BY <2>3, <2>4, SubsetInduction
  <2> QED
    BY <2>5 DEF Good
<1>6. Sum(g)
  <2>1. \A u \in SUBSET S :
          g[u] = IF u = {} THEN 0 ELSE Any(u).cents + g[u \ {Any(u)}]
    <3> TAKE u \in SUBSET S
    <3>1. CASE u = {}
      BY <1>4, <3>1
    <3>2. CASE u # {}
      <4>1. Any(u) \in S /\ g[u \ {Any(u)}] \in Nat
        BY <1>1, <1>5, <3>2
      <4> QED
        BY <1>4, <3>2, <4>1
    <3> QED
      BY <3>1, <3>2
  <2>2. g = [u \in SUBSET S |-> g[u]]
    BY <1>3 DEF Folds
  <2> QED
    BY <2>1, <2>2
<1> DEFINE it == CHOOSE f : Sum(f)
<1>7. Sum(it)
  BY <1>6
<1>8. it[S] = Total(S)
  BY DEF Total, MapThenSumSet, MapThenFoldSet, Any
<1> HIDE DEF it
<1>9. \A u \in SUBSET S : it[u] = IF u = {} THEN 0 ELSE Any(u).cents + it[u \ {Any(u)}]
  BY <1>7
<1>10. \A u \in SUBSET S : it[u] \in Nat
  <2> DEFINE Good == {u \in SUBSET S : it[u] \in Nat}
  <2>1. ASSUME NEW u \in SUBSET S, u # {}, \A x \in u : u \ {x} \in Good
        PROVE  it[u] \in Nat
    <3>1. Any(u) \in S /\ it[u \ {Any(u)}] \in Nat
      BY <1>1, <2>1
    <3>2. it[u] = Any(u).cents + it[u \ {Any(u)}]
      BY <1>9, <2>1
    <3> QED
      BY <3>1, <3>2
  <2>2. it[{}] = 0
    BY <1>9
  <2>3. \A u \in SUBSET S : u # {} /\ (\A x \in u : u \ {x} \in Good) => u \in Good
    BY <2>1
  <2>4. {} \in Good
    BY <2>2
  <2> HIDE DEF Good
  <2>5. \A u \in SUBSET S : u \in Good
    BY <2>3, <2>4, SubsetInduction
  <2> QED
    BY <2>5 DEF Good
<1> QED
  BY <1>8, <1>10

-----------------------------------------------------------------------------
(* Planning: what Choose and Calculate wrote.                                *)

\* The rows of a request are one of the lookups it was there for, and those of
\* an authority that fits.
RowsAreALookup ==
  /\ history \subseteq Lookups /\ catalog \in history
  /\ rows = {} \/ (rows \in history /\ request.authority = "fits")

\* What Choose wrote still follows from the rows it read.
Choice ==
  /\ sources = UnitRow \cup VoucherRow \cup UtilityRows
  /\ figures = [unit |-> CentsOf(UnitRow), voucher |-> CentsOf(VoucherRow),
                allowance |-> Allowance]

\* What Calculate wrote still follows from the figures.
Computed ==
  [standard |-> Standard, reference |-> Reference, gross |-> Gross,
   above |-> Above, exceeds |-> AllowanceExceeds]

PlanningInv ==
  /\ request \in Request
  /\ RowsAreALookup
  /\ phase \in {"received", "valid"} => rows = {}
  /\ phase \in {"received", "valid", "read"} => sources = {} /\ figures = NoFigures
  /\ (sources = {} /\ figures = NoFigures) \/ (Choice /\ Compatible)
  /\ phase \in {"valid", "read", "chosen", "calculated", "answered"} => Compatible
  /\ phase \in {"chosen", "calculated", "answered"} => Choice
  /\ plan = IF phase \in {"calculated", "answered"} THEN <<Computed>> ELSE <<>>
  /\ phase \in {"received", "valid", "read", "chosen", "calculated", "answered", "failed"}
  /\ market \in IF phase = "answered" THEN {"ok", "unavailable"} ELSE {"none"}

-----------------------------------------------------------------------------
(* Planning: the invariant.                                                  *)

\* What Choose computes depends only on the request and its lookup.
LEMMA ChoiceIsStable ==
  ASSUME UNCHANGED <<request, rows>>
  PROVE  /\ UnitRow' = UnitRow /\ VoucherRow' = VoucherRow /\ UtilityRows' = UtilityRows
         /\ Allowance' = Allowance /\ (Compatible <=> Compatible')
<1>1. \A k, b, c : Picked(k, b, c)' = Picked(k, b, c)
  BY DEF Picked
<1>2. UtilityBedrooms' = UtilityBedrooms
  BY DEF UtilityBedrooms
<1>3. UnitRow' = UnitRow /\ VoucherRow' = VoucherRow
  BY <1>1 DEF UnitRow, VoucherRow
<1>4. \A c : UtilityRow(c)' = UtilityRow(c)
  BY <1>1, <1>2 DEF UtilityRow
<1>5. UtilityRows' = UtilityRows
  BY <1>4 DEF UtilityRows
<1>6. AuthorityOK' = AuthorityOK
  BY DEF AuthorityOK
<1>7. Allowance' = Allowance
  BY <1>4, <1>5, <1>6 DEF Allowance
<1> QED
  BY <1>3, <1>5, <1>7 DEF Compatible

LEMMA InitPlanningInv == Init => PlanningInv
BY PlanningAssumption DEF Init, PlanningInv, RowsAreALookup

LEMMA ComputedIsStable ==
  ASSUME UNCHANGED <<request, figures>>
  PROVE  Computed' = Computed
<1>1. Standard' = Standard
  BY DEF Standard, AuthorityOK
<1>2. Reference' = Reference /\ Gross' = Gross /\ AllowanceExceeds' = AllowanceExceeds
  BY <1>1 DEF Reference, Gross, AllowanceExceeds
<1>3. Above' = Above
  BY <1>1, <1>2 DEF Above
<1> QED
  BY <1>1, <1>2, <1>3 DEF Computed

LEMMA NextPlanningInv == PlanningInv /\ [Next]_vars => PlanningInv'
<1> SUFFICES ASSUME PlanningInv, [Next]_vars PROVE PlanningInv'
  OBVIOUS
<1> USE DEF PlanningInv
<1>1. CASE Validate
  <2>1. /\ phase = "received" /\ phase' \in {"valid", "failed"}
        /\ phase' = "valid" => Compatible
        /\ UNCHANGED <<request, catalog, history, rows, sources, figures, plan, market>>
    BY <1>1 DEF Validate
  <2>2. RowsAreALookup' /\ (Compatible' <=> Compatible)
    BY <2>1 DEF RowsAreALookup, Compatible
  <2> QED
    BY <2>1, <2>2
<1>2. CASE Read
  <2>1. /\ phase = "valid" /\ rows = {} /\ Compatible
        /\ UNCHANGED <<request, catalog, history, sources, figures, plan, market>>
        /\ phase' \in {"read", "failed"}
    BY <1>2 DEF Read
  <2>2. request.authority \in {"none", "unfit", "fits"}
    BY DEF Request
  <2>3. RowsAreALookup'
    BY <1>2, <2>1, <2>2 DEF Read, RowsAreALookup
  <2>4. Compatible'
    BY <2>1 DEF Compatible
  <2> QED
    BY <2>1, <2>3, <2>4
<1>3. CASE Choose
  <2>1. /\ phase = "read" /\ phase' = "chosen" /\ Compatible
        /\ UNCHANGED <<request, catalog, history, rows, plan, market>>
    BY <1>3 DEF Choose
  <2>2. RowsAreALookup' /\ Compatible'
    BY <2>1 DEF RowsAreALookup, Compatible
  <2>3. Choice'
    BY <1>3, <2>1, ChoiceIsStable DEF Choose, Choice
  <2> QED
    BY <2>1, <2>2, <2>3
<1>4. ASSUME UNCHANGED <<request, rows, catalog, history, sources, figures>>
      PROVE  /\ RowsAreALookup' /\ (Compatible' <=> Compatible) /\ (Choice' <=> Choice)
             /\ Computed' = Computed
  BY <1>4, ChoiceIsStable, ComputedIsStable DEF RowsAreALookup, Choice
<1>5. CASE Calculate
  <2>1. /\ phase = "chosen" /\ phase' \in {"calculated", "failed"}
        /\ UNCHANGED <<request, rows, catalog, history, sources, figures, market>>
    BY <1>5 DEF Calculate, Refused
  <2>2. plan' = IF phase' = "calculated" THEN <<Computed>> ELSE <<>>
    <3>1. CASE MoneyIsInRange
      BY <1>5, <3>1 DEF Calculate, Computed
    <3>2. CASE ~MoneyIsInRange
      BY <1>5, <2>1, <3>2 DEF Calculate, Refused
    <3> QED
      BY <3>1, <3>2
  <2> QED
    BY <1>4, <2>1, <2>2
<1>6. CASE Compare
  BY <1>4, <1>6 DEF Compare
<1>7. CASE Fail
  BY <1>4, <1>7 DEF Fail
<1>8. CASE Change
  <2>1. UNCHANGED <<request, phase, rows, sources, figures, plan, market>>
    BY <1>8 DEF Change
  <2>2. RowsAreALookup'
    BY <1>8, <2>1 DEF Change, RowsAreALookup
  <2>3. (Compatible' <=> Compatible) /\ (Choice' <=> Choice)
    BY <2>1, ChoiceIsStable DEF Choice
  <2>4. Computed' = Computed
    BY <2>1, ComputedIsStable
  <2> QED
    BY <2>1, <2>2, <2>3, <2>4
<1>9. CASE UNCHANGED vars
  BY <1>4, <1>9 DEF vars
<1> QED
  BY <1>1, <1>2, <1>3, <1>5, <1>6, <1>7, <1>8, <1>9 DEF Next

\* The invariant holds in every reachable state.
THEOREM PlanningInvariance == Spec => []PlanningInv
BY InitPlanningInv, NextPlanningInv, PTL DEF Spec

-----------------------------------------------------------------------------
(* Planning: what is cited.                                                  *)

\* pick returns at most one row.
LEMMA PickedIsUnique ==
  ASSUME PlanningInv, NEW k, NEW b, NEW c,
         NEW s \in Picked(k, b, c), NEW t \in Picked(k, b, c)
  PROVE  s = t
<1>1. rows \in Lookups
  BY DEF PlanningInv, RowsAreALookup, Picked
<1> QED
  BY <1>1, PlanningAssumption DEF Picked

LEMMA WhatIsCited ==
  ASSUME Choice, request \in Request, "none" \notin Codes
  PROVE  /\ \A s \in UnitRow \cup VoucherRow : s.kind = "payment_standard"
         /\ \A s \in UtilityRows : /\ s.kind = "utility" /\ s.bedrooms = UtilityBedrooms
                                   /\ s.code \in request.items /\ s \in UtilityRow(s.code)
         /\ Cited("payment_standard") = UnitRow \cup VoucherRow
         /\ Cited("utility") = UtilityRows
         /\ sources \subseteq rows
<1>1. \A s \in UnitRow \cup VoucherRow : s.kind = "payment_standard" /\ s \in rows
  BY DEF UnitRow, VoucherRow, Picked
<1>2. \A s \in UtilityRows : /\ s.kind = "utility" /\ s.bedrooms = UtilityBedrooms
                             /\ s.code \in request.items /\ s \in UtilityRow(s.code)
                             /\ s \in rows
  BY DEF UtilityRows, UtilityRow, Picked
<1> QED
  BY <1>1, <1>2 DEF Choice, Cited

LEMMA OneVintageStep == PlanningInv => OneVintage
<1> SUFFICES ASSUME PlanningInv PROVE OneVintage
  OBVIOUS
<1>1. CASE sources = {}
  BY <1>1 DEF PlanningInv, RowsAreALookup, OneVintage
<1>2. CASE Choice
  <2>1. sources \subseteq rows
    BY <1>2, WhatIsCited, PlanningAssumption DEF PlanningInv
  <2> QED
    BY <2>1 DEF PlanningInv, RowsAreALookup, OneVintage
<1> QED
  BY <1>1, <1>2 DEF PlanningInv

LEMMA OneAllowanceStep == PlanningInv => OneAllowancePerService
<1> SUFFICES ASSUME PlanningInv, NEW s \in Cited("utility"), NEW t \in Cited("utility"),
                    Group[s.code] = Group[t.code]
             PROVE  s = t
  BY DEF OneAllowancePerService
<1>1. Choice /\ Compatible
  BY DEF PlanningInv, Cited
<1>2. s \in UtilityRow(s.code) /\ t \in UtilityRow(t.code)
      /\ s.code \in request.items /\ t.code \in request.items
  BY <1>1, WhatIsCited, PlanningAssumption DEF PlanningInv
<1>3. s.code = t.code
  BY <1>1, <1>2 DEF Compatible
<1> QED
  BY <1>2, <1>3, PickedIsUnique DEF UtilityRow

\* A figure that is there is the amount of every row picked for it.
LEMMA CentsOfPicked ==
  ASSUME PlanningInv, NEW k, NEW b, NEW c, CentsOf(Picked(k, b, c)) # None
  PROVE  /\ Picked(k, b, c) # {}
         /\ \A s \in Picked(k, b, c) : s.cents = CentsOf(Picked(k, b, c)) /\ s.bedrooms = b
<1>1. Picked(k, b, c) # {}
  BY DEF CentsOf
<1>2. PICK s \in Picked(k, b, c) : s = CHOOSE r \in Picked(k, b, c) : TRUE
  BY <1>1
<1>3. \A t \in Picked(k, b, c) : t = s
  BY PickedIsUnique
<1>4. CentsOf(Picked(k, b, c)) = s.cents
  BY <1>1, <1>2 DEF CentsOf
<1> QED
  BY <1>1, <1>3, <1>4 DEF Picked

\* An answer has the figures that follow from what it read.
LEMMA ComputedPlan ==
  ASSUME PlanningInv, NEW n \in DOMAIN plan
  PROVE  phase \in {"calculated", "answered"} /\ plan[n] = Computed
BY DEF PlanningInv

LEMMA GroundedStep == PlanningInv => ReferenceIsGrounded
<1> SUFFICES ASSUME PlanningInv, NEW n \in DOMAIN plan, plan[n].reference # None
             PROVE  LET sizes == {request.unit, request.voucher} \ {None}
                        standards == Cited("payment_standard")
                        allowances == Cited("utility")
                    IN  /\ request.authority = "fits" /\ request.confirmed /\ request.complete
                        /\ sources = standards \cup allowances
                        /\ {s.bedrooms : s \in standards} = sizes
                        /\ {s.code : s \in allowances} = request.items
                        /\ \A s \in allowances : /\ s.bedrooms \in sizes
                                                 /\ \A b \in sizes : s.bedrooms <= b
                        /\ \E s \in standards :
                             /\ \A t \in standards : s.cents <= t.cents
                             /\ plan[n].reference = FloorZero(s.cents - Total(allowances))
  BY DEF ReferenceIsGrounded
<1> DEFINE sizes == {request.unit, request.voucher} \ {None}
<1>1. Choice /\ request \in Request /\ plan[n] = Computed
  BY ComputedPlan DEF PlanningInv
<1>2. /\ plan[n].reference = FloorZero(Standard - figures.allowance)
      /\ Standard # None /\ figures.allowance # None
  BY <1>1 DEF Computed, Reference, Known
<1>3. /\ figures.unit = CentsOf(UnitRow) /\ figures.voucher = CentsOf(VoucherRow)
      /\ figures.allowance = Allowance
  BY <1>1 DEF Choice
<1>4. AuthorityOK
  BY <1>2 DEF Standard
<1>5. /\ request.complete /\ figures.allowance = Total(UtilityRows)
      /\ \A c \in request.items : UtilityRow(c) # {}
  BY <1>2, <1>3 DEF Allowance
<1>6. /\ Cited("payment_standard") = UnitRow \cup VoucherRow
      /\ Cited("utility") = UtilityRows
      /\ \A s \in UtilityRows : /\ s.kind = "utility" /\ s.bedrooms = UtilityBedrooms
                                /\ s.code \in request.items
  BY <1>1, WhatIsCited, PlanningAssumption
<1>7. /\ request.unit \in Nat /\ request.voucher \in Nat \cup {None}
  BY <1>1, PlanningAssumption DEF Request
<1>8. \A s \in rows : s.cents \in Int
  BY PlanningAssumption DEF PlanningInv, RowsAreALookup, Row
<1>9. {s.code : s \in UtilityRows} = request.items
  <2>1. ASSUME NEW c \in request.items PROVE \E s \in UtilityRows : s.code = c
    BY <1>5 DEF UtilityRows, UtilityRow, Picked
  <2> QED
    BY <1>6, <2>1
<1>10. UtilityBedrooms \in sizes /\ \A b \in sizes : UtilityBedrooms <= b
  BY <1>7 DEF UtilityBedrooms, Least, None
<1>11. /\ {s.bedrooms : s \in UnitRow \cup VoucherRow} = sizes
       /\ \E s \in UnitRow \cup VoucherRow :
            /\ \A t \in UnitRow \cup VoucherRow : s.cents <= t.cents
            /\ s.cents = Standard
  <2> DEFINE Unit == Picked("payment_standard", request.unit, "none")
  <2> DEFINE Voucher == Picked("payment_standard", request.voucher, "none")
  <2>1. UnitRow = Unit /\ Unit \subseteq rows /\ Voucher \subseteq rows
    BY DEF UnitRow, Picked
  <2>2. CASE request.voucher = None
    <3>1. VoucherRow = {} /\ Standard = CentsOf(Unit)
      BY <1>3, <1>4, <2>1, <2>2 DEF VoucherRow, Standard
    <3>2. Unit # {} /\ \A s \in Unit : s.cents = Standard /\ s.bedrooms = request.unit
      BY <1>2, <3>1, CentsOfPicked
    <3>3. sizes = {request.unit}
      BY <1>7, <2>2 DEF None
    <3>4. \A s \in Unit : s.cents \in Int
      BY <1>8, <2>1
    <3> QED
      BY <2>1, <3>1, <3>2, <3>3, <3>4
  <2>3. CASE request.voucher # None
    <3>1. /\ VoucherRow = Voucher
          /\ CentsOf(Unit) # None /\ CentsOf(Voucher) # None
          /\ Standard = Least(CentsOf(Unit), CentsOf(Voucher))
      BY <1>2, <1>3, <1>4, <2>1, <2>3 DEF VoucherRow, Standard, Known
    <3>2. Unit # {} /\ \A s \in Unit : s.cents = CentsOf(Unit) /\ s.bedrooms = request.unit
      BY <3>1, CentsOfPicked
    <3>3. /\ Voucher # {}
          /\ \A s \in Voucher : s.cents = CentsOf(Voucher) /\ s.bedrooms = request.voucher
      BY <3>1, CentsOfPicked
    <3>4. sizes = {request.unit, request.voucher}
      BY <1>7, <2>3 DEF None
    <3>5. CentsOf(Unit) \in Int /\ CentsOf(Voucher) \in Int
      BY <1>8, <2>1, <3>2, <3>3
    <3>6. PICK u \in Unit : u.cents = CentsOf(Unit)
      BY <3>2
    <3>7. PICK v \in Voucher : v.cents = CentsOf(Voucher)
      BY <3>3
    <3>8. {s.bedrooms : s \in Unit \cup Voucher} = sizes
      BY <3>2, <3>3, <3>4
    <3>9. \E s \in {u, v} : s.cents = Standard /\ s.cents <= u.cents /\ s.cents <= v.cents
      BY <3>1, <3>5, <3>6, <3>7 DEF Least
    <3> QED
      BY <2>1, <3>1, <3>2, <3>3, <3>6, <3>7, <3>8, <3>9
  <2> QED
    BY <2>2, <2>3
<1>12. sources = Cited("payment_standard") \cup Cited("utility")
  BY <1>1, <1>6 DEF Choice
<1> QED
  BY <1>2, <1>4, <1>5, <1>6, <1>9, <1>10, <1>11, <1>12 DEF AuthorityOK

-----------------------------------------------------------------------------
(* Planning: the figures are amounts.                                        *)

LEMMA RowsOfTheRequest == PlanningInv => rows \subseteq Row
BY PlanningAssumption DEF PlanningInv, RowsAreALookup

LEMMA RowIsNatural == \A s \in Row : s.cents \in Nat /\ s.code \in Codes \cup {"none"}
<1>1. MaxCents \in Nat
  BY PlanningAssumption
<1>2. \A s \in Row : s.cents \in 0..MaxCents /\ s.code \in Codes \cup {"none"}
  BY DEF Row
<1> QED
  BY <1>1, <1>2

LEMMA CentsIsAmount ==
  ASSUME NEW S, S \subseteq Row
  PROVE  CentsOf(S) \in Nat \cup {None}
BY RowIsNatural DEF CentsOf

\* There is one allowance row for each code, and there are finitely many codes.
LEMMA UtilityRowsAreFinite == PlanningInv => IsFiniteSet(UtilityRows)
<1> SUFFICES ASSUME PlanningInv PROVE IsFiniteSet(UtilityRows)
  OBVIOUS
<1>1. UtilityRows \subseteq rows
  BY DEF UtilityRows, UtilityRow, Picked
<1>2. \A s \in UtilityRows : s.code \in Codes
  <2>1. request.items \subseteq Codes
    BY DEF PlanningInv, Request
  <2> QED
    BY <2>1 DEF UtilityRows, UtilityRow, Picked
<1>3. ASSUME NEW s \in UtilityRows, NEW t \in UtilityRows, s.code = t.code
      PROVE  s = t
  <2>1. s \in UtilityRow(s.code) /\ t \in UtilityRow(s.code)
    BY <1>3 DEF UtilityRows, UtilityRow, Picked
  <2> QED
    BY <2>1, PickedIsUnique DEF UtilityRow
<1> DEFINE code == [s \in UtilityRows |-> s.code]
<1>4. code \in [UtilityRows -> Codes]
  BY <1>2
<1>5. \A s, t \in UtilityRows : code[s] = code[t] => s = t
  BY <1>3
<1> HIDE DEF code
<1>6. code \in Injection(UtilityRows, Codes)
  BY <1>4, <1>5 DEF Injection, IsInjective
<1> QED
  BY <1>6, PlanningAssumption, FS_Injection

LEMMA FiguresAreAmounts ==
  PlanningInv => figures \in [unit : Nat \cup {None}, voucher : Nat \cup {None},
                              allowance : Nat \cup {None}]
<1> SUFFICES ASSUME PlanningInv
             PROVE  figures \in [unit : Nat \cup {None}, voucher : Nat \cup {None},
                                 allowance : Nat \cup {None}]
  OBVIOUS
<1>1. CASE figures = NoFigures
  BY <1>1 DEF NoFigures
<1>2. CASE Choice
  <2>1. rows \subseteq Row
    BY RowsOfTheRequest
  <2>2. UnitRow \subseteq Row /\ VoucherRow \subseteq Row /\ UtilityRows \subseteq Row
    BY <2>1 DEF UnitRow, VoucherRow, UtilityRows, UtilityRow, Picked
  <2>3. Total(UtilityRows) \in Nat
    BY <2>2, UtilityRowsAreFinite, RowIsNatural, TotalIsNat
  <2>4. Allowance \in Nat \cup {None}
    BY <2>3 DEF Allowance
  <2>5. CentsOf(UnitRow) \in Nat \cup {None} /\ CentsOf(VoucherRow) \in Nat \cup {None}
    BY <2>2, CentsIsAmount
  <2> QED
    BY <1>2, <2>4, <2>5 DEF Choice
<1> QED
  BY <1>1, <1>2 DEF PlanningInv

\* None stands below every amount: what is known is a natural number.
LEMMA ComputedAmounts ==
  ASSUME PlanningInv
  PROVE  /\ Standard \in Nat \cup {None} /\ Reference \in Nat \cup {None}
         /\ Gross \in Nat \cup {None} /\ Above \in Nat \cup {None}
         /\ AllowanceExceeds \in BOOLEAN
<1>1. /\ figures.unit \in Nat \cup {None} /\ figures.voucher \in Nat \cup {None}
      /\ figures.allowance \in Nat \cup {None}
  BY FiguresAreAmounts
<1>2. request.rent \in Nat \cup {None}
  BY DEF PlanningInv, Request
<1> USE DEF None, Known, FloorZero, Least
<1>3. Standard \in Nat \cup {None}
  BY <1>1 DEF Standard
<1>4. Gross \in Nat \cup {None}
  BY <1>1, <1>2 DEF Gross
<1>5. Reference \in Nat \cup {None}
  BY <1>1, <1>3 DEF Reference
<1>6. Above \in Nat \cup {None}
  BY <1>3, <1>4 DEF Above
<1> QED
  BY <1>3, <1>4, <1>5, <1>6 DEF AllowanceExceeds

LEMMA TypeStep == PlanningInv => TypeOK
<1> SUFFICES ASSUME PlanningInv PROVE TypeOK
  OBVIOUS
<1>1. rows \subseteq Row
  BY RowsOfTheRequest
<1>2. sources \subseteq Row
  <2>1. CASE Choice
    BY <1>1, <2>1 DEF Choice, UnitRow, VoucherRow, UtilityRows, UtilityRow, Picked
  <2> QED
    BY <2>1 DEF PlanningInv
<1>3. figures \in [unit : Amount, voucher : Amount, allowance : Amount]
  BY FiguresAreAmounts DEF Amount, None
<1>4. Computed \in Plan
  BY ComputedAmounts DEF Computed, Plan, Amount, None
<1>5. plan \in Seq(Plan) /\ Len(plan) <= 1
  <2>1. CASE plan = <<>>
    BY <2>1
  <2>2. CASE plan = <<Computed>>
    BY <1>4, <2>2
  <2> QED
    BY <2>1, <2>2 DEF PlanningInv
<1>6. plan # <<>> <=> phase \in {"calculated", "answered"}
  BY DEF PlanningInv
<1>7. /\ market \in {"none", "ok", "unavailable"}
      /\ market # "none" <=> phase = "answered"
  BY DEF PlanningInv
<1> QED
  BY <1>1, <1>2, <1>3, <1>5, <1>6, <1>7 DEF TypeOK, PlanningInv, RowsAreALookup

LEMMA VerdictsStep == PlanningInv => VerdictsAgree
<1> SUFFICES ASSUME PlanningInv, NEW n \in DOMAIN plan,
                    Known(request.rent, plan[n].reference)
             PROVE  /\ plan[n].above = 0 => request.rent <= plan[n].reference
                    /\ plan[n].above > 0 /\ ~plan[n].exceeds =>
                         plan[n].above = request.rent - plan[n].reference
                    /\ plan[n].exceeds =>
                         plan[n].reference = 0 /\ plan[n].above > request.rent
  BY DEF VerdictsAgree
<1>1. /\ plan[n].reference = Reference /\ plan[n].above = Above
      /\ plan[n].exceeds = AllowanceExceeds
  BY ComputedPlan DEF Computed
<1>2. Known(request.rent, Reference) /\ Known(Standard, figures.allowance)
  BY <1>1 DEF Reference, Known
<1>3. /\ request.rent \in Nat /\ Standard \in Nat /\ figures.allowance \in Nat
  BY <1>2, FiguresAreAmounts, ComputedAmounts DEF Known, PlanningInv, Request
<1>4. /\ Reference = FloorZero(Standard - figures.allowance)
      /\ Gross = request.rent + figures.allowance
      /\ AllowanceExceeds <=> figures.allowance > Standard
  BY <1>2 DEF Reference, Gross, AllowanceExceeds, Known
<1>5. Above = FloorZero(request.rent + figures.allowance - Standard)
  BY <1>2, <1>3, <1>4 DEF Above, Known, None
<1> QED
  BY <1>1, <1>3, <1>4, <1>5 DEF FloorZero

-----------------------------------------------------------------------------
(* Planning: the theorems.                                                   *)

\* In every reachable state the figures of an analysis are whole amounts or
\* absent, the sum of the allowances included, and an answer has its plan.
THEOREM PlanningTypeCorrect == Spec => []TypeOK
BY PlanningInvariance, TypeStep, PTL

\* The two verdicts on a proposed rent, against the standard and against the
\* reference, agree for every catalog and every request.
THEOREM VerdictsAgreeHolds == Spec => []VerdictsAgree
BY PlanningInvariance, VerdictsStep, PTL

\* All rows an answer cites come from one lookup, whatever is imported while
\* the analysis runs.
THEOREM OneVintageHolds == Spec => []OneVintage
BY PlanningInvariance, OneVintageStep, PTL

\* No answer cites two allowances for one service.
THEOREM OneAllowancePerServiceHolds == Spec => []OneAllowancePerService
BY PlanningInvariance, OneAllowanceStep, PTL

\* Every planning reference follows from the rows the answer cites.
THEOREM ReferenceIsGroundedHolds == Spec => []ReferenceIsGrounded
BY PlanningInvariance, GroundedStep, PTL

-----------------------------------------------------------------------------
(* Comparables: the invariant.                                               *)

DistinctIds(S) == \A c, d \in S : c.id = d.id => c = d

\* The observations have ids of their own and those of one import one
\* recorded_at.
MarketInv ==
  /\ stored \subseteq Observation /\ IsFiniteSet(stored)
  /\ open \subseteq Observation /\ IsFiniteSet(open)
  /\ DistinctIds(stored \cup open)
  /\ \A c, d \in open : c.recorded = d.recorded

LEMMA ObservationFields ==
  \A c \in Observation : c.id \in Nat /\ c.day \in Nat /\ c.recorded \in Nat
<1>1. Ids \subseteq Nat /\ Days \subseteq Nat
  BY ComparablesAssumption DEF Days
<1>2. \A c \in Observation : c.id \in Ids /\ c.day \in Days /\ c.recorded \in Days
  BY DEF Observation
<1> QED
  BY <1>1, <1>2

LEMMA InitMarketInv == MarketInit => MarketInv
BY FS_EmptySet DEF MarketInit, MarketInv, DistinctIds

LEMMA NextMarketInv == MarketInv /\ [MarketNext]_marketVars => MarketInv'
<1> SUFFICES ASSUME MarketInv, [MarketNext]_marketVars PROVE MarketInv'
  OBVIOUS
<1> USE DEF MarketInv, DistinctIds
<1>1. CASE Begin
  <2>1. PICK c \in Observation : c.id \notin IdsOf(stored) /\ open' = {c}
    BY <1>1 DEF Begin
  <2>2. open = {} /\ stored' = stored
    BY <1>1 DEF Begin
  <2>3. \A d \in stored : d.id # c.id
    BY <2>1 DEF IdsOf
  <2> QED
    BY <2>1, <2>2, <2>3, FS_Singleton
<1>2. CASE More
  <2>1. PICK c \in Observation :
          /\ \A d \in open : c.recorded = d.recorded
          /\ c.id \notin IdsOf(stored \cup open) /\ open' = open \cup {c}
    BY <1>2 DEF More
  <2>2. open # {} /\ stored' = stored
    BY <1>2 DEF More
  <2>3. \A d \in stored \cup open : d.id # c.id
    BY <2>1 DEF IdsOf
  <2>4. IsFiniteSet(open')
    BY <2>1, FS_AddElement
  <2> QED
    BY <2>1, <2>2, <2>3, <2>4
<1>3. CASE Commit
  <2>1. stored' = stored \cup open /\ open' = {}
    BY <1>3 DEF Commit
  <2>2. IsFiniteSet(stored') /\ IsFiniteSet(open')
    BY <2>1, FS_Union, FS_EmptySet
  <2> QED
    BY <2>1, <2>2
<1>4. CASE Abort
  BY <1>4, FS_EmptySet DEF Abort
<1>5. CASE Tick
  BY <1>5 DEF Tick
<1>6. CASE UNCHANGED marketVars
  BY <1>6 DEF marketVars
<1> QED
  BY <1>1, <1>2, <1>3, <1>4, <1>5, <1>6 DEF MarketNext

\* The invariant holds in every reachable state.
THEOREM MarketInvariance == MarketSpec => []MarketInv
BY InitMarketInv, NextMarketInv, PTL DEF MarketSpec

-----------------------------------------------------------------------------
(* Comparables: the loop of compare.                                         *)

\* The order of the loop is total, so every set has a last observation.
LEMMA LastOfASet ==
  ASSUME NEW S, IsFiniteSet(S), S \subseteq Observation, DistinctIds(S), S # {}
  PROVE  LastOf(S) \in S /\ \A d \in S \ {LastOf(S)} : Before(d, LastOf(S))
<1> DEFINE Last(u, c) == c \in u /\ \A d \in u \ {c} : Before(d, c)
           Good == {u \in SUBSET S : u = {} \/ \E c \in u : Last(u, c)}
<1>1. ASSUME NEW u \in SUBSET S, u # {}, \A x \in u : u \ {x} \in Good
      PROVE  u \in Good
  <2>1. PICK x : x \in u
    BY <1>1
  <2>2. CASE u \ {x} = {}
    BY <2>1, <2>2
  <2>3. CASE u \ {x} # {}
    <3>1. PICK c \in u \ {x} : Last(u \ {x}, c)
      BY <1>1, <2>1, <2>3
    <3>2. x \in S /\ c \in S /\ x.id # c.id
      BY <2>1, <3>1 DEF DistinctIds
    <3>3. /\ x.id \in Nat /\ x.day \in Nat /\ c.id \in Nat /\ c.day \in Nat
          /\ \A d \in u : d.id \in Nat /\ d.day \in Nat
      BY <3>2, ObservationFields
    <3>4. CASE Before(x, c)
      <4>1. Last(u, c)
        BY <3>1, <3>4
      <4> QED
        BY <3>1, <4>1
    <3>5. CASE ~Before(x, c)
      <4>1. Before(c, x)
        BY <3>2, <3>3, <3>5 DEF Before
      <4>2. \A d \in u \ {x, c} : Before(d, c)
        BY <3>1
      <4>3. \A d \in u \ {x, c} : Before(d, x)
        BY <3>3, <4>1, <4>2 DEF Before
      <4>4. Last(u, x)
        BY <2>1, <4>1, <4>3
      <4> QED
        BY <2>1, <4>4
    <3> QED
      BY <3>4, <3>5
  <2> QED
    BY <2>2, <2>3
<1>2. \A u \in SUBSET S : u # {} /\ (\A x \in u : u \ {x} \in Good) => u \in Good
  BY <1>1
<1>3. {} \in Good
  OBVIOUS
<1> HIDE DEF Good
<1>4. S \in Good
  <2>1. \A u \in SUBSET S : u \in Good
    BY <1>2, <1>3, SubsetInduction
  <2> QED
    BY <2>1
<1>5. \E c \in S : \A d \in S \ {c} : Before(d, c)
  BY <1>4 DEF Good
<1> QED
  BY <1>5 DEF LastOf

\* What the loop knows after the observations u.
AcceptableOf(u, effective, known) == {c \in u : Acceptable(c, effective, known)}

NewestOf(ok) ==
  {c \in ok : \A d \in ok : d.ref = c.ref =>
     d.day < c.day \/ (d.day = c.day /\ d.id <= c.id)}

Considered(u, effective, known) ==
  LET ok == AcceptableOf(u, effective, known)
  IN  [chosen |-> NewestOf(ok), seen |-> {c.ref : c \in ok}]

\* One turn of the loop: x is older than all that was considered before.
LEMMA ConsiderTheLast ==
  ASSUME NEW u, NEW x \in u, NEW effective, NEW known, u \subseteq Observation,
         \A d \in u \ {x} : Before(d, x)
  PROVE  Considered(u, effective, known) =
           Consider(Considered(u \ {x}, effective, known), x, effective, known)
<1> DEFINE ok == AcceptableOf(u, effective, known)
           before == AcceptableOf(u \ {x}, effective, known)
<1>1. \A c \in u : c.id \in Nat /\ c.day \in Nat
  BY ObservationFields
<1>2. before = ok \ {x} /\ ok \subseteq u
  BY DEF AcceptableOf
<1>3. x \in ok <=> Acceptable(x, effective, known)
  BY DEF AcceptableOf
<1>4. \A d \in before : d.day > x.day \/ (d.day = x.day /\ d.id > x.id)
  BY <1>2 DEF Before
<1> HIDE DEF ok, before
<1>5. CASE x \notin ok
  <2>1. ok = before
    BY <1>2, <1>5
  <2> QED
    BY <1>3, <1>5, <2>1 DEF Considered, Consider, ok, before
<1>6. CASE x \in ok
  <2>1. ok = before \cup {x} /\ x \notin before
    BY <1>2, <1>6
  <2>2. CASE \E d \in before : d.ref = x.ref
    <3>1. x \notin NewestOf(ok)
      BY <1>1, <1>2, <1>4, <2>1, <2>2 DEF NewestOf
    <3>2. NewestOf(ok) = NewestOf(before)
      BY <1>1, <1>2, <1>4, <2>1, <3>1 DEF NewestOf
    <3>3. {c.ref : c \in ok} = {c.ref : c \in before}
      BY <2>1, <2>2
    <3>4. x.ref \in {c.ref : c \in before}
      BY <2>2
    <3> QED
      BY <3>2, <3>3, <3>4 DEF Considered, Consider, ok, before
  <2>3. CASE ~\E d \in before : d.ref = x.ref
    <3>1. NewestOf(ok) = NewestOf(before) \cup {x}
      BY <1>1, <1>2, <1>4, <1>6, <2>1, <2>3 DEF NewestOf
    <3>2. {c.ref : c \in ok} = {c.ref : c \in before} \cup {x.ref}
      BY <2>1
    <3>3. x.ref \notin {c.ref : c \in before}
      BY <2>3
    <3> QED
      BY <1>3, <1>6, <3>1, <3>2, <3>3 DEF Considered, Consider, ok, before
  <2> QED
    BY <2>2, <2>3
<1> QED
  BY <1>5, <1>6

\* The fold of Chosen is the loop: Considered satisfies its recursion, and by
\* induction over the candidates nothing else does.
LEMMA NewestStep == MarketInv => NewestOfEachProperty
<1> SUFFICES ASSUME MarketInv, NEW effective \in Days, NEW known \in Days
             PROVE  Chosen(effective, known)
                      = NewestOf(AcceptableOf(Candidates, effective, known))
  BY DEF NewestOfEachProperty, NewestOf, AcceptableOf
<1> DEFINE S == Candidates
           base == [chosen |-> {}, seen |-> {}]
           Loop(f) == f = [u \in SUBSET S |->
                             IF u = {} THEN base
                             ELSE Consider(f[u \ {LastOf(u)}], LastOf(u), effective, known)]
           h == [u \in SUBSET S |-> Considered(u, effective, known)]
<1>1. S \subseteq Observation /\ IsFiniteSet(S) /\ DistinctIds(S)
  <2>1. S \subseteq stored
    BY DEF Candidates
  <2> QED
    BY <2>1, FS_Subset DEF MarketInv, DistinctIds
<1> HIDE DEF S
<1>2. \A u \in SUBSET S : u # {} =>
        LastOf(u) \in u /\ \A d \in u \ {LastOf(u)} : Before(d, LastOf(u))
  BY <1>1, LastOfASet, FS_Subset DEF DistinctIds
<1>3. Considered({}, effective, known) = base
  BY DEF Considered, AcceptableOf, NewestOf
<1>4. \A u \in SUBSET S : u # {} =>
        Considered(u, effective, known) =
          Consider(Considered(u \ {LastOf(u)}, effective, known), LastOf(u), effective, known)
  BY <1>1, <1>2, ConsiderTheLast
<1>5. Loop(h)
  BY <1>2, <1>3, <1>4
<1> DEFINE it == CHOOSE f : Loop(f)
<1>6. Loop(it)
  BY <1>5
<1>7. it[S].chosen = Chosen(effective, known)
  BY DEF Chosen, MapThenFoldSet, S
<1> HIDE DEF it
<1>8. \A u \in SUBSET S : it[u] = IF u = {} THEN base ELSE
        Consider(it[u \ {LastOf(u)}], LastOf(u), effective, known)
  BY <1>6
<1>9. \A u \in SUBSET S : it[u] = Considered(u, effective, known)
  <2> DEFINE Good == {u \in SUBSET S : it[u] = Considered(u, effective, known)}
  <2>1. ASSUME NEW u \in SUBSET S, u # {}, \A x \in u : u \ {x} \in Good
        PROVE  u \in Good
    <3>1. it[u \ {LastOf(u)}] = Considered(u \ {LastOf(u)}, effective, known)
      BY <1>2, <2>1
    <3> QED
      BY <1>4, <1>8, <2>1, <3>1
  <2>2. {} \in Good
    BY <1>3, <1>8
  <2>3. \A u \in SUBSET S : u # {} /\ (\A x \in u : u \ {x} \in Good) => u \in Good
    BY <2>1
  <2> HIDE DEF Good
  <2>4. \A u \in SUBSET S : u \in Good
    BY <1>1, <2>2, <2>3, SubsetInduction
  <2> QED
    BY <2>4 DEF Good
<1>10. it[S].chosen = NewestOf(AcceptableOf(S, effective, known))
  <2>1. S \in SUBSET S
    OBVIOUS
  <2>2. it[S] = Considered(S, effective, known)
    BY <1>9, <2>1, Zenon
  <2> QED
    BY <2>2 DEF Considered
<1> QED
  BY <1>7, <1>10 DEF S

\* The loop selects the newest acceptable observation of each property, for any
\* number of candidates.
THEOREM NewestOfEachPropertyHolds == MarketSpec => []NewestOfEachProperty
BY MarketInvariance, NewestStep, PTL
-----------------------------------------------------------------------------
(* Comparables: there is no look-ahead.                                      *)

AllAreCandidates == Cardinality(stored) <= CandidateLimit => Candidates = stored

LEMMA AllAreCandidatesStep == MarketInv => AllAreCandidates
<1> SUFFICES ASSUME MarketInv, Cardinality(stored) <= CandidateLimit, NEW c \in stored
             PROVE  Cardinality({d \in stored : NewerRow(d, c)}) < CandidateLimit
  BY DEF AllAreCandidates, Candidates
<1> DEFINE newer == {d \in stored : NewerRow(d, c)}
<1>1. ~NewerRow(c, c)
  BY ObservationFields DEF MarketInv, NewerRow
<1>2. newer \in SUBSET (stored \ {c})
  BY <1>1
<1>3. /\ IsFiniteSet(stored \ {c})
      /\ Cardinality(stored \ {c}) = Cardinality(stored) - 1
      /\ Cardinality(stored) \in Nat
  BY FS_RemoveElement, FS_CardinalityType DEF MarketInv
<1>4. Cardinality(newer) \in Nat /\ Cardinality(newer) <= Cardinality(stored \ {c})
  BY <1>2, <1>3, FS_Subset, FS_CardinalityType
<1> HIDE DEF newer
<1>5. Cardinality(newer) < CandidateLimit
  BY <1>3, <1>4, ComparablesAssumption
<1> QED
  BY <1>5 DEF newer

MarketFacts == MarketInv /\ NewestOfEachProperty /\ AllAreCandidates

\* A commit adds only observations that are not known yet; so both samples are
\* the newest of the same acceptable observations.
LEMMA PastStep ==
  MarketFacts /\ MarketFacts' /\ [MarketNext]_marketVars =>
    \A effective, known \in Days :
      known < Horizon /\ Cardinality(stored') <= CandidateLimit =>
        Selected(effective, known)' = Selected(effective, known)
<1> SUFFICES ASSUME MarketFacts, MarketFacts', [MarketNext]_marketVars,
                    NEW effective \in Days, NEW known \in Days,
                    known < Horizon, Cardinality(stored') <= CandidateLimit
             PROVE  Selected(effective, known)' = Selected(effective, known)
  OBVIOUS
<1> USE DEF MarketFacts
<1>1. Chosen(effective, known) = NewestOf(AcceptableOf(Candidates, effective, known))
  BY DEF NewestOfEachProperty, NewestOf, AcceptableOf
<1>2. Chosen(effective, known)' = NewestOf(AcceptableOf(Candidates', effective, known))
  BY DEF NewestOfEachProperty, NewestOf, AcceptableOf
<1>3. CASE stored' = stored
  <2>1. Candidates' = Candidates
    BY <1>3 DEF Candidates
  <2> QED
    BY <1>1, <1>2, <2>1 DEF Selected
<1>4. CASE Commit
  <2>1. stored' = stored \cup open /\ open # {}
    BY <1>4 DEF Commit
  <2>2. \A c \in open : ~(c.recorded <= known)
    <3>1. PICK d \in open : Horizon = d.recorded
      BY <2>1 DEF Horizon
    <3>2. \A c \in open : c.recorded = Horizon /\ c.recorded \in Nat
      BY <3>1, ObservationFields DEF MarketInv
    <3>3. known \in Nat
      BY ComparablesAssumption DEF Days
    <3> QED
      BY <3>2, <3>3
  <2>3. \A c \in open : ~Acceptable(c, effective, known)
    BY <2>2 DEF Acceptable
  <2>4. CandidateLimit \in Nat
    BY ComparablesAssumption
  <2>5. Cardinality(stored) <= CandidateLimit
    <3>1. IsFiniteSet(stored') /\ stored \in SUBSET stored' /\ IsFiniteSet(stored)
      BY <2>1 DEF MarketInv
    <3>2. /\ Cardinality(stored) <= Cardinality(stored')
          /\ Cardinality(stored) \in Nat /\ Cardinality(stored') \in Nat
      BY <3>1, FS_Subset, FS_CardinalityType
    <3> QED
      BY <2>4, <3>2
  <2>6. Candidates = stored
    BY <2>5 DEF AllAreCandidates
  <2>7. Candidates' = stored'
    BY DEF AllAreCandidates
  <2>8. AcceptableOf(stored, effective, known) = AcceptableOf(stored', effective, known)
    BY <2>1, <2>3 DEF AcceptableOf
  <2>9. Chosen(effective, known)' = Chosen(effective, known)
    BY <1>1, <1>2, <2>6, <2>7, <2>8
  <2> QED
    BY <2>9 DEF Selected
<1> QED
  BY <1>3, <1>4 DEF MarketNext, Begin, More, Abort, Tick, marketVars

\* No step changes the sample of a past moment of knowledge, whatever is
\* imported, while the observations fit into the limit.
THEOREM PastSamplesStandHolds == MarketSpec => PastSamplesStand
<1>1. MarketFacts /\ MarketFacts' /\ [MarketNext]_marketVars =>
        [\A effective, known \in Days :
           known < Horizon /\ Cardinality(stored') <= CandidateLimit =>
             Selected(effective, known)' = Selected(effective, known)]_marketVars
  BY PastStep
<1>2. MarketInv => MarketFacts
  BY NewestStep, AllAreCandidatesStep DEF MarketFacts
<1> QED
  BY <1>1, <1>2, MarketInvariance, PTL DEF MarketSpec, PastSamplesStand
=============================================================================
