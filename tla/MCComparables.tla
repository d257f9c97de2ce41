--------------------------- MODULE MCComparables ----------------------------
(* A small instance of Comparables for TLC: up to three observations of two  *)
(* properties, a limit that three of them exceed.                            *)
EXTENDS Comparables, TLC

CONSTANTS p, q

RefSymmetry == Permutations(Refs)
=============================================================================
