--------------------------- MODULE MCRateLimiter ----------------------------
(* A small instance of RateLimiter for TLC: three clients, a map that is     *)
(* full with two of them.                                                    *)
EXTENDS RateLimiter

CONSTANTS c1, c2, c3
=============================================================================
