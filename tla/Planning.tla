------------------------------ MODULE Planning ------------------------------
(* The planning figures of one analysis, from request to answer: Evaluate of *)
(* engine.go reads the schedule rows and chooses among them, calculate of    *)
(* rent-core's lib.rs derives the reference, and the comparables service adds *)
(* the market, if it answers.  Meanwhile the catalog may change.             *)
(*                                                                           *)
(* A lookup is a set of rows, one for each kind, size and utility code: what *)
(* pick returns (module Pick) for the property's ZIP and structure.  The cash *)
(* flows of calculate are in module RentCore, the selection of comparables   *)
(* in module Comparables; HUD benchmarks and most warnings are left out.     *)
EXTENDS Integers, Sequences, FiniteSets, FiniteSetsExt

CONSTANTS
  Sizes,       \* bedrooms
  Codes,       \* utility codes
  Group,       \* utilityGroup: the service a code is for
  MaxCents,    \* 1_000_000_000_000
  Lookups,     \* what schedules may return for the authority of the request
  Requests,
  MaxLookups   \* bound: different lookups while the request runs

None == -1

Kinds == {"payment_standard", "utility", "fmr", "safmr"}

Row == [kind : Kinds, bedrooms : Sizes, code : Codes \cup {"none"}, cents : 0..MaxCents]

\* authority: the authority does not exist or does not fit the property
\* ("unfit"), fits, or is not given.
Request ==
  [unit : Sizes, voucher : Sizes \cup {None}, complete : BOOLEAN, items : SUBSET Codes,
   rent : Nat \cup {None}, authority : {"none", "unfit", "fits"}, confirmed : BOOLEAN]

ASSUME PlanningAssumption ==
  /\ Sizes \subseteq Nat /\ MaxCents \in Nat /\ "none" \notin Codes
  /\ IsFiniteSet(Codes)
  /\ DOMAIN Group = Codes
  /\ Lookups \subseteq SUBSET Row /\ Requests \subseteq Request
  /\ \A rows \in Lookups : \A s, t \in rows :
       s.kind = t.kind /\ s.bedrooms = t.bedrooms /\ s.code = t.code => s = t
  /\ MaxLookups \in Nat

VARIABLES
  request,
  phase,    \* "received", "valid", "read", "chosen", "calculated", "answered" or "failed"
  catalog,  \* what schedules returns now
  history,  \* history variable: what it has returned since the request came
  rows,     \* rows: the lookup of this request
  sources,  \* refs: the rows the answer cites
  figures,  \* unitValue, voucherValue and ua
  plan,     \* the result of calculate: no plan or one
  market    \* "none", "ok" or "unavailable"

vars == <<request, phase, catalog, history, rows, sources, figures, plan, market>>

NoFigures == [unit |-> None, voucher |-> None, allowance |-> None]

Init ==
  /\ request \in Requests /\ phase = "received"
  /\ catalog \in Lookups /\ history = {catalog}
  /\ rows = {} /\ sources = {} /\ figures = NoFigures /\ plan = <<>> /\ market = "none"

-----------------------------------------------------------------------------
(* Validation.                                                               *)

\* BUG: only a code that is given twice is refused.
CompatibleByCode == TRUE

\* Of each service at most one code.
Compatible == \A c, d \in request.items : Group[c] = Group[d] => c = d

Validate ==
  /\ phase = "received"
  /\ phase' = IF Compatible THEN "valid" ELSE "failed"
  /\ UNCHANGED <<request, catalog, history, rows, sources, figures, plan, market>>

-----------------------------------------------------------------------------
(* The transaction of Evaluate.                                              *)

AuthorityOK == request.authority = "fits" /\ request.confirmed

Read ==
  /\ phase = "valid"
  /\ IF request.authority = "unfit"
     THEN phase' = "failed" /\ UNCHANGED rows
     ELSE /\ phase' = "read"
          /\ rows' = IF request.authority = "none" THEN {} ELSE catalog
  /\ UNCHANGED <<request, catalog, history, sources, figures, plan, market>>

\* BUG: each figure is looked up on its own.
PickedNow(kind, bedrooms, code) ==
  {s \in IF kind = "utility" /\ request.authority = "fits" THEN catalog ELSE rows :
     s.kind = kind /\ s.bedrooms = bedrooms /\ s.code = code}

\* At most one row.
Picked(kind, bedrooms, code) ==
  {s \in rows : s.kind = kind /\ s.bedrooms = bedrooms /\ s.code = code}

CentsOf(S) == IF S = {} THEN None ELSE (CHOOSE s \in S : TRUE).cents

Least(m, n) == IF m < n THEN m ELSE n

\* BUG: utilities go by the unit alone.
UtilityBedroomsOfUnit == request.unit

\* ub
UtilityBedrooms ==
  IF request.voucher = None THEN request.unit ELSE Least(request.unit, request.voucher)

UnitRow == Picked("payment_standard", request.unit, "none")

VoucherRow ==
  IF request.voucher = None THEN {} ELSE Picked("payment_standard", request.voucher, "none")

UtilityRow(code) == Picked("utility", UtilityBedrooms, code)

UtilityRows == IF request.complete THEN UNION {UtilityRow(c) : c \in request.items} ELSE {}

Total(S) == MapThenSumSet(LAMBDA s : s.cents, S)

\* ua: every item has its row, and an authority is confirmed unless there is
\* nothing to pay for.
Allowance ==
  IF /\ request.complete
     /\ \A c \in request.items : UtilityRow(c) # {}
     /\ AuthorityOK \/ request.items = {}
  THEN Total(UtilityRows) ELSE None

Choose ==
  /\ phase = "read"
  /\ sources' = UnitRow \cup VoucherRow \cup UtilityRows
  /\ figures' = [unit |-> CentsOf(UnitRow), voucher |-> CentsOf(VoucherRow),
                 allowance |-> Allowance]
  /\ phase' = "chosen"
  /\ UNCHANGED <<request, catalog, history, rows, plan, market>>

-----------------------------------------------------------------------------
(* calculate of rent-core, on the engine request.                            *)

\* zip
Known(v, w) == v # None /\ w # None

Standard ==
  IF ~AuthorityOK THEN None
  ELSE IF request.voucher = None THEN figures.unit
  ELSE IF Known(figures.unit, figures.voucher) THEN Least(figures.unit, figures.voucher)
  ELSE None

FloorZero(v) == IF v > 0 THEN v ELSE 0

Reference ==
  IF Known(Standard, figures.allowance) THEN FloorZero(Standard - figures.allowance) ELSE None

\* BUG: the allowance is not part of the gross rent.
GrossWithoutAllowance == IF Known(request.rent, figures.allowance) THEN request.rent ELSE None

Gross ==
  IF Known(request.rent, figures.allowance) THEN request.rent + figures.allowance ELSE None

Above == IF Known(Gross, Standard) THEN FloorZero(Gross - Standard) ELSE None

\* UTILITY_ALLOWANCE_EXCEEDS_STANDARD
AllowanceExceeds == Known(Standard, figures.allowance) /\ figures.allowance > Standard

\* An absent figure is None, below every limit.
Money(v) == v <= MaxCents

MoneyIsInRange ==
  Money(figures.unit) /\ Money(figures.voucher) /\ Money(figures.allowance) /\ Money(request.rent)

\* BUG: a refusal of the engine is an answer without figures.
RefusedDegrades == phase' = "calculated" /\ plan' = <<>>

\* The refusal of the engine fails the analysis.
Refused == phase' = "failed" /\ UNCHANGED plan

Calculate ==
  /\ phase = "chosen"
  /\ IF MoneyIsInRange
     THEN /\ plan' = <<[standard |-> Standard, reference |-> Reference, gross |-> Gross,
                        above |-> Above, exceeds |-> AllowanceExceeds]>>
          /\ phase' = "calculated"
     ELSE Refused
  /\ UNCHANGED <<request, catalog, history, rows, sources, figures, market>>

\* Whatever happens to the comparables service, the analysis is answered.
Compare ==
  /\ phase = "calculated"
  /\ market' \in {"ok", "unavailable"}
  /\ phase' = "answered"
  /\ UNCHANGED <<request, catalog, history, rows, sources, figures, plan>>

\* A database error, or an engine that is down or refuses the cash-flow
\* assumptions.
Fail ==
  /\ phase \in {"valid", "read", "chosen"}
  /\ phase' = "failed"
  /\ UNCHANGED <<request, catalog, history, rows, sources, figures, plan, market>>

\* An import or an approval commits.
Change ==
  /\ phase \notin {"answered", "failed"}
  /\ Cardinality(history) < MaxLookups
  /\ catalog' \in Lookups \ history
  /\ history' = history \cup {catalog'}
  /\ UNCHANGED <<request, phase, rows, sources, figures, plan, market>>

Next == Validate \/ Read \/ Choose \/ Calculate \/ Compare \/ Fail \/ Change

Spec == Init /\ [][Next]_vars

-----------------------------------------------------------------------------
(* Properties.                                                               *)

Amount == Int

Plan ==
  [standard : Amount, reference : Amount, gross : Amount, above : Amount, exceeds : BOOLEAN]

\* An answer has its figures; a request that failed has none.
TypeOK ==
  /\ request \in Request /\ catalog \in Lookups /\ history \subseteq Lookups
  /\ phase \in {"received", "valid", "read", "chosen", "calculated", "answered", "failed"}
  /\ rows \subseteq Row /\ sources \subseteq Row
  /\ figures \in [unit : Amount, voucher : Amount, allowance : Amount]
  /\ plan \in Seq(Plan) /\ Len(plan) <= 1
  /\ market \in {"none", "ok", "unavailable"}
  /\ plan # <<>> <=> phase \in {"calculated", "answered"}
  /\ market # "none" <=> phase = "answered"

Cited(kind) == {s \in sources : s.kind = kind}

\* A planning reference can be worked out again from what the answer cites: a
\* confirmed authority's standard of every size that counts and one allowance
\* for every item, for the smaller size, and nothing that is not official for
\* it, such as a HUD benchmark (engine.go:86-135, lib.rs:225-245).
ReferenceIsGrounded ==
  \A n \in DOMAIN plan :
    plan[n].reference # None =>
      LET sizes == {request.unit, request.voucher} \ {None}
          standards == Cited("payment_standard")
          allowances == Cited("utility")
      IN  /\ request.authority = "fits" /\ request.confirmed /\ request.complete
          /\ sources = standards \cup allowances
          /\ {s.bedrooms : s \in standards} = sizes
          /\ {s.code : s \in allowances} = request.items
          /\ \A s \in allowances : s.bedrooms \in sizes /\ \A b \in sizes : s.bedrooms <= b
          /\ \E s \in standards :
               /\ \A t \in standards : s.cents <= t.cents
               /\ plan[n].reference = FloorZero(s.cents - Total(allowances))

\* All rows an answer cites were in force together: no commit of an import can
\* come between two figures of one analysis (engine.go:81, store.go:79-93).
OneVintage == \E lookup \in history : sources \subseteq lookup

\* No service is allowed for twice, say heat by gas and heat by electricity
\* (types.go:110-120, engine.go:116-127).
OneAllowancePerService ==
  \A s, t \in Cited("utility") : Group[s.code] = Group[t.code] => s = t

\* The two verdicts on a proposed rent agree: it is above the standard by what
\* it is above the reference; only an allowance over the standard, which the
\* answer warns of, puts a rent within the reference above the standard
\* (lib.rs:243-259).
VerdictsAgree ==
  \A n \in DOMAIN plan :
    LET p == plan[n]
    IN  Known(request.rent, p.reference) =>
          /\ p.above = 0 => request.rent <= p.reference
          /\ p.above > 0 /\ ~p.exceeds => p.above = request.rent - p.reference
          /\ p.exceeds => p.reference = 0 /\ p.above > request.rent
=============================================================================
