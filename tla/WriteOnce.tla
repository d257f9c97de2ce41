----------------------------- MODULE WriteOnce ------------------------------
(* What an idempotency key promises (ARCHITECTURE.md:31-33): the first      *)
(* request that is recorded under a key wins; every identical request is    *)
(* answered with that record or with an error, every other one with a       *)
(* conflict or an error.                                                    *)
EXTENDS Naturals

CONSTANTS Requests, Keys, Bodies

VARIABLES ask,     \* the key and body of each request, None before it arrives
          winner,  \* the request recorded under each key, 0 for none
          answer   \* what each request was told: a record, "none", "conflict" or "error"

vars == <<ask, winner, answer>>

None == [key |-> "none", body |-> "none"]

Told(code, id) == [code |-> code, id |-> id]

Init ==
  /\ ask = [r \in Requests |-> None]
  /\ winner = [k \in Keys |-> 0]
  /\ answer = [r \in Requests |-> Told("none", 0)]

Ask(r) ==
  /\ ask[r] = None
  /\ \E k \in Keys, b \in Bodies : ask' = [ask EXCEPT ![r] = [key |-> k, body |-> b]]
  /\ UNCHANGED <<winner, answer>>

\* Request r is recorded; it is told so at once, or not at all, or it has
\* already been told of an error.
Win(r) ==
  /\ ask[r] # None /\ winner[ask[r].key] = 0
  /\ winner' = [winner EXCEPT ![ask[r].key] = r]
  /\ \/ UNCHANGED answer
     \/ answer[r].code = "none" /\ answer' = [answer EXCEPT ![r] = Told("created", r)]
  /\ UNCHANGED ask

Repeat(r) ==
  /\ ask[r] # None /\ answer[r].code = "none"
  /\ LET w == winner[ask[r].key]
     IN  /\ w # 0 /\ ask[w].body = ask[r].body
         /\ \E code \in {"created", "existing"} :
              answer' = [answer EXCEPT ![r] = Told(code, w)]
  /\ UNCHANGED <<ask, winner>>

Conflict(r) ==
  /\ ask[r] # None /\ answer[r].code = "none"
  /\ LET w == winner[ask[r].key]
     IN  w # 0 /\ ask[w].body # ask[r].body
  /\ answer' = [answer EXCEPT ![r] = Told("conflict", 0)]
  /\ UNCHANGED <<ask, winner>>

Error(r) ==
  /\ ask[r] # None /\ answer[r].code = "none"
  /\ answer' = [answer EXCEPT ![r] = Told("error", 0)]
  /\ UNCHANGED <<ask, winner>>

Next ==
  \E r \in Requests :
    Ask(r) \/ Win(r) \/ Repeat(r) \/ Conflict(r) \/ Error(r)

Spec == Init /\ [][Next]_vars
=============================================================================
