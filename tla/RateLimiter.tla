---------------------------- MODULE RateLimiter -----------------------------
(* The request limit of the API, limited in server.go: one bucket per client *)
(* address, a minute long, in a map of bounded size.  The mutex makes each   *)
(* call one step.                                                            *)
EXTENDS Naturals, Sequences, FiniteSets, Functions

CONSTANTS
  Clients,      \* client addresses
  Limit,        \* 120 requests
  Window,       \* the minute
  Capacity,     \* 10000 buckets
  MaxTime,      \* bound: the clock
  MaxRequests   \* bound: requests that arrive

ASSUME LimiterAssumption ==
  /\ Limit \in Nat \ {0} /\ Window \in Nat /\ Capacity \in Nat
  /\ MaxTime \in Nat /\ MaxRequests \in Nat

VARIABLES
  limits,  \* the buckets, by client
  clock,
  log      \* history: every request, with its time and whether it was let through

vars == <<limits, clock, log>>

\* A count past Limit + 1 is kept at Limit + 1: it refuses the same requests.
Bucket == [start : 0..MaxTime, count : 1..Limit + 1]

Init == limits = <<>> /\ clock = 0 /\ log = <<>>

\* now.Sub(b.Start) > time.Minute
Over(start) == clock - start > Window

\* The bucket the request is counted in.
Counted(c) ==
  IF c \in DOMAIN limits /\ ~Over(limits[c].start)
  THEN [limits[c] EXCEPT !.count = IF @ > Limit THEN @ ELSE @ + 1]
  ELSE [start |-> clock, count |-> 1]

\* BUG: a full map is never swept.
NeverSwept == limits

\* BUG: a full map is emptied.
SweptOfAll == IF Cardinality(DOMAIN limits) > Capacity THEN <<>> ELSE limits

\* The buckets that are over go once the map holds more than its capacity.
Swept ==
  IF Cardinality(DOMAIN limits) > Capacity
  THEN Restrict(limits, {c \in DOMAIN limits : ~Over(limits[c].start)})
  ELSE limits

\* BUG: the size of the map is not checked after the sweep.
NotFull == FALSE

\* With the map full of running buckets every client is refused, and the
\* request is not counted.
Full == Cardinality(DOMAIN Swept) > Capacity

Request(c) ==
  /\ Len(log) < MaxRequests
  /\ IF Full
     THEN /\ limits' = Swept
          /\ log' = Append(log, [client |-> c, at |-> clock, passed |-> FALSE])
     ELSE /\ limits' = [d \in DOMAIN Swept \cup {c} |->
                          IF d = c THEN Counted(c) ELSE Swept[d]]
          /\ log' = Append(log, [client |-> c, at |-> clock,
                                 passed |-> Counted(c).count <= Limit])
  /\ UNCHANGED clock

Tick ==
  /\ clock < MaxTime
  /\ clock' = clock + 1
  /\ UNCHANGED <<limits, log>>

Next == Tick \/ \E c \in Clients : Request(c)

Spec == Init /\ [][Next]_vars

-----------------------------------------------------------------------------
(* Properties.                                                               *)

\* Buckets are well formed, and the map never holds more than one client over
\* its capacity.
TypeOK ==
  /\ DOMAIN limits \subseteq Clients
  /\ \A c \in DOMAIN limits : limits[c] \in Bucket
  /\ Cardinality(DOMAIN limits) <= Capacity + 1
  /\ clock \in 0..MaxTime
  /\ \A n \in DOMAIN log : log[n] \in [client : Clients, at : 0..clock, passed : BOOLEAN]

\* The requests of client c that were let through from time t to time u.
Passed(c, t, u) ==
  {n \in DOMAIN log : log[n].client = c /\ log[n].at \in t..u /\ log[n].passed}

\* A client gets no more than two buckets' worth of requests through in any
\* span of one window, at whatever moments its buckets start, are swept and
\* start again (server.go:63-65,67-73).
BurstIsBounded ==
  \A c \in Clients, t \in 0..MaxTime : Cardinality(Passed(c, t, t + Window)) <= 2 * Limit

\* Nobody is refused without a cause from the last window: the client had a
\* full bucket through in it, or more clients than the map may hold got
\* something through.  Requests that were refused are no cause, so a lock-out
\* of everybody is over within a window, however the crowd retries
\* (server.go:67-78).
RefusalHasCause ==
  \A n \in DOMAIN log :
    ~log[n].passed =>
      LET u == log[n].at
          t == IF u > Window THEN u - Window ELSE 0
      IN  \/ Cardinality(Passed(log[n].client, t, u)) >= Limit
          \/ Cardinality({c \in Clients : Passed(c, t, u) # {}}) > Capacity
=============================================================================
