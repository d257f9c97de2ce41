------------------------------ MODULE RentCore ------------------------------
(* The cash-flow part of rent-core: validate, cashflow and the scenario loop *)
(* of calculate in lib.rs, in integer cents and basis points.                *)
(*                                                                           *)
(* The mortgage formula is in floating point: the model lets it be any       *)
(* number of cents between the bounds of an annuity.  Scenarios change       *)
(* neither loan, rate nor term, so a request has one monthly payment.        *)
EXTENDS Integers, Sequences

CONSTANTS
  MaxCents,      \* 1_000_000_000_000
  Bps,           \* 10000 basis points are the whole
  MaxInt,        \* the largest i64
  MaxTerm,       \* 600 months
  Underwritings, \* requests: the base assumptions
  Rents,         \* requests: proposed rents
  Scenarios,     \* requests: what a scenario overrides
  MaxScenarios   \* bound: scenarios in a request (32)

\* An override that is absent (Option::None).
None == -1

Underwriting ==
  [purchase : Int, renovation : Int, closing : Int, loan : Int,
   interest : Nat, term : Nat, vacancy : Nat, management : Nat, maintenance : Nat,
   tax : Int, insurance : Int, hoa : Int, utilities : Int, reserve : Int]

Scenario == [rent : Int, vacancy : Nat \cup {None}, renovation : Int]

ASSUME RentAssumption ==
  /\ MaxCents \in Nat /\ Bps \in Nat \ {0} /\ Bps % 2 = 0 /\ Bps >= 1000
  /\ MaxTerm \in Nat /\ MaxScenarios \in Nat
  /\ MaxInt \in Nat /\ MaxInt >= (50 * MaxCents + 2) * Bps
  /\ Underwritings \subseteq Underwriting /\ Rents \subseteq Int
  /\ Scenarios \subseteq Scenario

VARIABLES
  base, rent, scenarios,  \* the request
  payment,                \* monthly debt service
  flows,                  \* the cash flows calculated so far: base, then scenarios
  outcome                 \* "received", "running", "done" or "error"

vars == <<base, rent, scenarios, payment, flows, outcome>>

-----------------------------------------------------------------------------
(* Arithmetic.                                                               *)

Money(v) == v \in 0..MaxCents

\* The share of v, rounded to the nearest cent.
Fraction(v, bps) == (v * bps + Bps \div 2) \div Bps

\* i128 division rounds towards zero.
Quotient(a, d) == IF a >= 0 THEN a \div d ELSE -((-a) \div d)

\* v as i64
Wrap(v) == ((v + MaxInt + 1) % (2 * (MaxInt + 1))) - (MaxInt + 1)

\* A ratio with a zero denominator is null, here the sequence <<>>.
Ratio(v, d, scale) == IF d = 0 THEN <<>> ELSE <<Wrap(Quotient(v * scale, d))>>

Cost(u) == u.purchase + u.renovation + u.closing

\* BUG: money has no upper limit.
InRangeUnbounded(u) ==
  \A v \in {u.purchase, u.renovation, u.closing, u.loan, u.tax, u.insurance, u.hoa,
            u.utilities, u.reserve} : v >= 0

InRange(u) ==
  \A v \in {u.purchase, u.renovation, u.closing, u.loan, u.tax, u.insurance, u.hoa,
            u.utilities, u.reserve} : Money(v)

Valid(u) ==
  /\ InRange(u)
  /\ u.purchase # 0
  /\ u.loan <= Cost(u)
  /\ u.vacancy <= Bps /\ u.management + u.maintenance <= Bps /\ u.interest <= Bps
  /\ u.loan > 0 => u.term \in 1..MaxTerm

\* BUG: the payment is rounded down.
EvenPaymentDown(u) == u.loan \div u.term

\* Without interest the loan is spread evenly, to the nearest cent.
EvenPayment(u) == (u.loan + u.term \div 2) \div u.term

\* What the f64 annuity formula may round to.
Annuity(u) ==
  LET even == u.loan \div u.term
  IN  even..even + (u.loan * u.interest) \div (12 * Bps) + 2

Payments(u) ==
  IF u.loan = 0 THEN {0} ELSE IF u.interest = 0 THEN {EvenPayment(u)} ELSE Annuity(u)

Effective(r, u) == 12 * r - Fraction(12 * r, u.vacancy)

\* BUG: management is paid on potential rent.
OperatingOnPotential(r, u) ==
  u.tax + u.insurance + 12 * (u.hoa + u.utilities)
    + Fraction(12 * r, u.management) + Fraction(Effective(r, u), u.maintenance)

Operating(r, u) ==
  u.tax + u.insurance + 12 * (u.hoa + u.utilities)
    + Fraction(Effective(r, u), u.management) + Fraction(Effective(r, u), u.maintenance)

Noi(r, u) == Effective(r, u) - Operating(r, u)

CashflowOf(r, u) == Noi(r, u) - 12 * payment - 12 * u.reserve

\* A ratio is a sequence of no or one number.
Flow ==
  [rent : Int, noi : Int, cashflow : Int, equity : Int,
   cap_rate : Seq(Int), yield : Seq(Int), cash_on_cash : Seq(Int), dscr : Seq(Int)]

Cashflow(r, u) ==
  [rent |-> r, noi |-> Noi(r, u), cashflow |-> CashflowOf(r, u),
   equity |-> Cost(u) - u.loan,
   cap_rate |-> Ratio(Noi(r, u), u.purchase, Bps),
   yield |-> Ratio(Noi(r, u), Cost(u), Bps),
   cash_on_cash |-> Ratio(CashflowOf(r, u), Cost(u) - u.loan, Bps),
   dscr |-> Ratio(Noi(r, u), 12 * payment, 1000)]

-----------------------------------------------------------------------------
(* A request.                                                                *)

Init ==
  /\ base \in Underwritings /\ rent \in Rents
  /\ scenarios \in UNION {[1..n -> Scenarios] : n \in 0..MaxScenarios}
  /\ payment = 0 /\ flows = <<>> /\ outcome = "received"

ValidScenario(s) ==
  /\ s.rent = None \/ Money(s.rent)
  /\ s.renovation = None \/ Money(s.renovation)
  /\ s.vacancy <= Bps

ValidRequest ==
  /\ Money(rent) /\ Valid(base)
  /\ \A n \in DOMAIN scenarios : ValidScenario(scenarios[n])

Reject ==
  /\ outcome = "received" /\ ~ValidRequest
  /\ outcome' = "error"
  /\ UNCHANGED <<base, rent, scenarios, payment, flows>>

Accept ==
  /\ outcome = "received" /\ ValidRequest
  /\ payment' \in Payments(base)
  /\ outcome' = "running"
  /\ UNCHANGED <<base, rent, scenarios, flows>>

\* The assumptions and the rent of the n-th cash flow; the first is the base.
Assumptions(n) ==
  IF n = 1 THEN base
  ELSE LET s == scenarios[n - 1]
       IN  [base EXCEPT !.vacancy = IF s.vacancy = None THEN @ ELSE s.vacancy,
                        !.renovation = IF s.renovation = None THEN @ ELSE s.renovation]

RentOf(n) ==
  IF n = 1 \/ scenarios[n - 1].rent = None THEN rent ELSE scenarios[n - 1].rent

\* BUG: only the base assumptions are validated.
SoundAsBase(n) == payment <= MaxCents

\* cashflow validates what it is given again, and refuses a payment over the
\* limit.
Sound(n) == Valid(Assumptions(n)) /\ payment <= MaxCents

\* BUG: the flows calculated before the refusal are returned.
RefusePartly == outcome' = "error" /\ UNCHANGED flows

\* One scenario that is refused fails the whole request.
Refuse == flows' = <<>> /\ outcome' = "error"

Calculate ==
  LET n == Len(flows) + 1
  IN  /\ outcome = "running" /\ n <= Len(scenarios) + 1
      /\ IF Sound(n)
         THEN /\ flows' = Append(flows, Cashflow(RentOf(n), Assumptions(n)))
              /\ UNCHANGED outcome
         ELSE Refuse
      /\ UNCHANGED <<base, rent, scenarios, payment>>

Finish ==
  /\ outcome = "running" /\ Len(flows) = Len(scenarios) + 1
  /\ outcome' = "done"
  /\ UNCHANGED <<base, rent, scenarios, payment, flows>>

Next == Reject \/ Accept \/ Calculate \/ Finish

Spec == Init /\ [][Next]_vars

-----------------------------------------------------------------------------
(* Properties.                                                               *)

TypeOK ==
  /\ base \in Underwriting /\ rent \in Int /\ scenarios \in Seq(Scenario)
  /\ payment \in Nat /\ flows \in Seq(Flow)
  /\ Len(flows) <= Len(scenarios) + 1
  /\ outcome \in {"received", "running", "done", "error"}
  /\ outcome \in {"received", "error"} => flows = <<>>
  /\ outcome = "done" => Len(flows) = Len(scenarios) + 1

\* Bps * Bps times the operating income of the n-th flow without any rounding.
ExactNoi(n) ==
  LET u == Assumptions(n)
  IN  12 * RentOf(n) * (Bps - u.vacancy) * (Bps - u.management - u.maintenance)
        - (u.tax + u.insurance + 12 * (u.hoa + u.utilities)) * Bps * Bps

\* The three roundings of cashflow (lib.rs:142-148) together move the
\* operating income by at most one and a half cents.
NoiIsWithinCents ==
  \A n \in DOMAIN flows :
    LET error == flows[n].noi * Bps * Bps - ExactNoi(n)
    IN  2 * error <= 3 * Bps * Bps /\ -2 * error <= 3 * Bps * Bps

\* Between two scenarios with the same costs, the one with more rent never
\* shows less cash by more than the one cent that two fees may round up
\* (lib.rs:142-148).
MoreRentNeverCosts ==
  \A m, n \in DOMAIN flows :
    Assumptions(m) = Assumptions(n) /\ RentOf(m) <= RentOf(n) =>
      flows[m].cashflow <= flows[n].cashflow + 1

\* A loan without interest is paid off by its term to within half a cent a
\* month (lib.rs:152-153).
LoanIsRepaid ==
  outcome = "done" /\ base.loan > 0 /\ base.interest = 0 =>
    LET error == base.term * payment - base.loan
    IN  2 * error <= base.term /\ -2 * error <= base.term

\* A scenario that cuts the renovation budget below what the loan needs fails
\* the request: no cash flow is shown for negative equity (lib.rs:122,140,264-271).
EquityIsNeverNegative == \A n \in DOMAIN flows : flows[n].equity >= 0

\* A ratio is the quotient it names, not what `as i64` leaves of it (lib.rs:102).
IsQuotient(r, v, d, scale) == d # 0 => r = <<Quotient(v * scale, d)>>

\* Sums that lib.rs does in plain i64 (lines 142-148 and 164-166) stay within
\* it, and no ratio is cut off.
NothingOverflows ==
  \A n \in DOMAIN flows :
    LET u == Assumptions(n)
        f == flows[n]
    IN  /\ \A v \in {Effective(f.rent, u), Operating(f.rent, u), f.noi, f.cashflow, f.equity} :
             v \in -MaxInt..MaxInt
        /\ IsQuotient(f.cap_rate, f.noi, u.purchase, Bps)
        /\ IsQuotient(f.yield, f.noi, Cost(u), Bps)
        /\ IsQuotient(f.cash_on_cash, f.cashflow, f.equity, Bps)
        /\ IsQuotient(f.dscr, f.noi, 12 * payment, 1000)
=============================================================================
