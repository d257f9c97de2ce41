----------------------------- MODULE MCPlanning -----------------------------
(* A small instance of Planning for TLC: two sizes, two ways to heat and one *)
(* other service, and lookups with every kind of gap.                        *)
EXTENDS Planning, TLC

HeatAndTrash == "gas" :> "heat" @@ "electric" :> "heat" @@ "trash" :> "trash"

Std(bedrooms, cents) ==
  [kind |-> "payment_standard", bedrooms |-> bedrooms, code |-> "none", cents |-> cents]
Util(bedrooms, code, cents) ==
  [kind |-> "utility", bedrooms |-> bedrooms, code |-> code, cents |-> cents]

\* Complete, one with other amounts (the standard of the larger unit is the
\* lower one, allowances exceed the standard and together the limit), one with
\* a standard and an allowance missing, one of the benchmarks only.
SomeLookups ==
  { {Std(1, 3), Std(2, 4), Util(1, "gas", 1), Util(2, "gas", 2), Util(1, "electric", 2),
     Util(2, "electric", 2), Util(1, "trash", 1), Util(2, "trash", 0)},
    {Std(1, 4), Std(2, 2), Util(1, "gas", 3), Util(2, "gas", 4), Util(1, "electric", 1),
     Util(2, "electric", 0), Util(1, "trash", 2), Util(2, "trash", 1)},
    {Std(2, 4), Util(1, "gas", 1), Util(2, "electric", 2), Util(2, "trash", 1)},
    {[kind |-> "fmr", bedrooms |-> 1, code |-> "none", cents |-> 4],
     [kind |-> "safmr", bedrooms |-> 2, code |-> "none", cents |-> 4]} }

AllRequests ==
  [unit : Sizes, voucher : Sizes \cup {None}, complete : BOOLEAN, items : SUBSET Codes,
   rent : {None, 0, 2, 4}, authority : {"none", "unfit", "fits"}, confirmed : BOOLEAN]
=============================================================================
