------------------------------ MODULE Timeline ------------------------------
(* What the temporal catalog promises (ARCHITECTURE.md:43-52), without rows, *)
(* slices or transactions: one value for every policy key, day and moment of *)
(* knowledge.  A publication sets the value of its own days, for knowledge   *)
(* from its own moment on, and nothing else.                                 *)
EXTENDS Naturals

CONSTANTS Keys, Values, Days, Moments

VARIABLE value

\* The sentinel 0 says that no accepted fact applies.
Init == value = [k \in Keys |-> [d \in Days |-> [m \in Moments |-> 0]]]

\* A bundle is published at moment now: bundle.value[k] is 0 for a key it
\* does not mention.
Publish(bundle, now) ==
  value' = [k \in Keys |-> [d \in Days |-> [m \in Moments |->
              IF bundle.value[k] # 0 /\ d \in bundle.lo..(bundle.hi - 1) /\ m >= now
              THEN bundle.value[k]
              ELSE value[k][d][m]]]]

\* Without --supersede a publication only fills days that have no value yet.
Fills(bundle, now) ==
  \A k \in Keys, d \in Days, m \in Moments :
    bundle.value[k] # 0 /\ d \in bundle.lo..(bundle.hi - 1) /\ m >= now => value[k][d][m] = 0
=============================================================================
