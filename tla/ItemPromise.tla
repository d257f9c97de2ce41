---------------------------- MODULE ItemPromise ----------------------------
(* What the batch endpoints promise a landlord about each item of a job,    *)
(* without workers, leases or retries: an accepted item is pending until it *)
(* is reported complete or failed, at most one analysis is ever stored for  *)
(* it, and a complete item points at that analysis.                         *)
(*                                                                          *)
(* A failed item may still become complete: the sweep of expired leases     *)
(* (jobs.go:141) keeps the lease token, so the worker that held the third   *)
(* lease can report its result late.  Nothing else leaves a settled state.  *)
EXTENDS Naturals

CONSTANT Items

VARIABLES state,     \* what GET /jobs/{id} shows, queued and running merged
          stored,    \* the analysis stored under the item's key; 0 is none
          reported   \* job_items.analysis_id; 0 is NULL

vars == <<state, stored, reported>>

States == {"absent", "pending", "failed", "complete"}

TypeOK ==
  /\ state \in [Items -> States]
  /\ stored \in [Items -> Nat]
  /\ reported \in [Items -> Nat]

Init ==
  /\ state = [i \in Items |-> "absent"]
  /\ stored = [i \in Items |-> 0]
  /\ reported = [i \in Items |-> 0]

\* A job is accepted whole: all of its items appear in one step.
Submit ==
  \E S \in SUBSET Items :
    /\ \A i \in S : state[i] = "absent"
    /\ state' = [i \in Items |-> IF i \in S THEN "pending" ELSE state[i]]
    /\ UNCHANGED <<stored, reported>>

\* The first analysis computed for an item is kept, and no other.
Store ==
  \E i \in Items :
    /\ state[i] # "absent"
    /\ stored[i] = 0 /\ stored'[i] # 0
    /\ stored' \in [Items -> Nat]
    /\ \A j \in Items \ {i} : stored'[j] = stored[j]
    /\ UNCHANGED <<state, reported>>

Fail ==
  \E S \in SUBSET Items :
    /\ \A i \in S : state[i] = "pending"
    /\ state' = [i \in Items |-> IF i \in S THEN "failed" ELSE state[i]]
    /\ UNCHANGED <<stored, reported>>

Complete ==
  \E i \in Items :
    /\ state[i] \in {"pending", "failed"}
    /\ stored[i] # 0
    /\ state' = [state EXCEPT ![i] = "complete"]
    /\ reported' = [reported EXCEPT ![i] = stored[i]]
    /\ UNCHANGED stored

Next == Submit \/ Store \/ Fail \/ Complete

Spec == Init /\ [][Next]_vars
=============================================================================
