----------------------------- MODULE MCRentCore -----------------------------
(* A small instance of RentCore for TLC: amounts at and over their limits,   *)
(* shares that round up and down, a thousand basis points to the whole, and  *)
(* the smallest integer range that RentAssumption allows.                    *)
EXTENDS RentCore

MCBps == 1000

MCUnderwritings ==
  {[purchase |-> p, renovation |-> r, closing |-> 0, loan |-> l, interest |-> i, term |-> t,
    vacancy |-> v, management |-> m, maintenance |-> k, tax |-> c, insurance |-> c,
    hoa |-> c, utilities |-> c, reserve |-> c] :
     p \in {1, MaxCents}, r \in {0, 3}, l \in {0, 4, MaxCents}, i \in {0, MCBps}, t \in {1, 3},
     v \in {125, 917}, m \in {0, 125, 500, MCBps}, k \in {0, 125, 500}, c \in {0, MaxCents, MaxCents + 1}}

MCScenarios ==
  {[rent |-> r, vacancy |-> v, renovation |-> n] :
     r \in {None, 3, MaxCents}, v \in {None, MCBps}, n \in {None, 0}}
=============================================================================
