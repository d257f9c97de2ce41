--------------------------- MODULE GatewayProofs ----------------------------
(* Proofs about Gateway for every number of requests, connections, keys and  *)
(* tenants and every deadline.                                               *)
EXTENDS Gateway, TLAPS

(* The programs: what the order of their statements is like.                 *)

\* Where program p of len statements begins, commits and ends transactions,
\* where it writes and where it answers.
Shape(p, len, begins, commits, ends, inserts, answers) ==
  /\ Len(p) = len /\ DOMAIN p = 1..len
  /\ \A n \in 1..len : /\ p[n] = "begin" <=> n \in begins
                       /\ p[n] = "commit" <=> n \in commits
                       /\ p[n] = "end" <=> n \in ends
                       /\ p[n] \in {"row", "audit"} <=> n \in inserts
                       /\ p[n] = "answer" <=> n \in answers

\* A transaction of p is open before statement n.
Open(p, n) ==
  \E b \in DOMAIN p :
    /\ b < n /\ p[b] = "begin"
    /\ \A m \in DOMAIN p : b < m /\ m < n => p[m] \notin {"commit", "end"}

IsWrite(p, n) == p[n] \in {"row", "audit"}

\* No transaction begins in another one; a COMMIT has all the writes before it
\* or none, and every write has a COMMIT after it; an answer comes after all
\* statements but the deferred Rollback.
Sound(p) ==
  /\ Len(p) \in Nat /\ DOMAIN p = 1..Len(p)
  /\ \A n \in DOMAIN p :
       /\ p[n] = "begin" => ~Open(p, n)
       /\ p[n] = "commit" => \/ \A m \in DOMAIN p : IsWrite(p, m) => m < n
                             \/ \A m \in DOMAIN p : IsWrite(p, m) => n < m
       /\ IsWrite(p, n) => \E m \in DOMAIN p : n < m /\ p[m] = "commit"
       /\ p[n] = "answer" =>
            \A m \in DOMAIN p : p[m] \notin {"answer", "end"} => m < n

OnlyReads(p) == \A n \in DOMAIN p : p[n] # "commit"

LEMMA MeSound == Sound(Me) /\ OnlyReads(Me)
<1>1. Shape(Me, 1, {}, {}, {}, {}, {1})
  BY DEF Me, Shape
<1> QED BY <1>1 DEF Shape, Sound, OnlyReads, Open, IsWrite

LEMMA ListSound == Sound(List) /\ OnlyReads(List)
<1>1. Shape(List, 4, {1}, {}, {4}, {}, {3})
  BY DEF List, Shape
<1> QED BY <1>1 DEF Shape, Sound, OnlyReads, Open, IsWrite

LEMMA ReportSound == Sound(Report) /\ OnlyReads(Report)
<1>1. Shape(Report, 5, {1}, {}, {5}, {}, {4})
  BY DEF Report, Shape
<1> QED BY <1>1 DEF Shape, Sound, OnlyReads, Open, IsWrite

LEMMA GeocodeSound == Sound(Geocode)
<1>1. Shape(Geocode, 3, {}, {}, {}, {}, {3})
  BY DEF Geocode, Shape
<1> QED BY <1>1 DEF Shape, Sound, Open, IsWrite

LEMMA CreateSound == Sound(CreateProperty)
<1>1. Shape(CreateProperty, 6, {1}, {5}, {}, {3, 4}, {6})
  BY DEF CreateProperty, Shape
<1> QED BY <1>1 DEF Shape, Sound, Open, IsWrite

LEMMA ImportSound == Sound(ImportProperties)
<1>1. Shape(ImportProperties, 7, {2}, {6}, {}, {3, 4, 5}, {7})
  BY DEF ImportProperties, Shape
<1> QED BY <1>1 DEF Shape, Sound, Open, IsWrite

LEMMA ReplaySound == Sound(Replay)
<1>1. Shape(Replay, 5, {1}, {3}, {}, {}, {5})
  BY DEF Replay, Shape
<1> QED BY <1>1 DEF Shape, Sound, Open, IsWrite

LEMMA AnalysisSound == Sound(Analysis)
<1>1. Shape(Analysis, 17, {2, 5, 10}, {7, 16}, {4}, {13, 14}, {17})
  BY DEF Analysis, Existing, Evaluate, Save, Shape
<1> QED BY <1>1 DEF Shape, Sound, Open, IsWrite

LEMMA EnqueueSound == Sound(Enqueue)
<1>1. Shape(Enqueue, 10, {2}, {9}, {}, {6, 7, 8}, {10})
  BY DEF Enqueue, Shape
<1> QED BY <1>1 DEF Shape, Sound, Open, IsWrite

LEMMA ProgramsSound ==
  ASSUME NEW o \in Operations
  PROVE  Sound(Program(o)) /\ (o \in DOMAIN Reads => OnlyReads(Program(o)))
<1>1. \/ o = "me" /\ Program(o) = Me
      \/ o = "list" /\ Program(o) = List
      \/ o = "report" /\ Program(o) = Report
      \/ o \notin DOMAIN Reads /\ Program(o) \in {Geocode, CreateProperty, ImportProperties,
                                                 Replay, Analysis, Enqueue}
  BY DEF Operations, Program, Reads, Posts
<1> QED BY <1>1, MeSound, ListSound, ReportSound, GeocodeSound, CreateSound, ImportSound,
           ReplaySound, AnalysisSound, EnqueueSound

-----------------------------------------------------------------------------
(* The inductive invariant.                                                  *)

\* A connection in use carries the setting of its request, for the open
\* transaction only; in the pool it carries none.
ConnectionsAreClean ==
  \A c \in Connections :
    IF conn[c].user = Nobody THEN conn[c] = Idle
    ELSE /\ conn[c].local
         /\ conn[c].tenant = Tenant(conn[c].user)
         /\ Open(Steps(conn[c].user), at[conn[c].user])

\* Request r still has a COMMIT before it.
CommitAhead(r) == \E n \in DOMAIN Steps(r) : at[r] <= n /\ Steps(r)[n] = "commit"

\* Request r still has work before it, not only the answer and the Rollback.
WorkAhead(r) == \E n \in DOMAIN Steps(r) : at[r] <= n /\ Steps(r)[n] \notin {"answer", "end"}

\* What a request has inserted is what its program inserts up to where it is.
WritesAreWhole ==
  \A r \in Requests :
    /\ at[r] = 0 => pending[r] = {} /\ stored[r] = {}
    /\ Running(r) => /\ pending[r] \cup stored[r] = {n \in Inserts(r) : n < at[r]}
                     /\ pending[r] # {} => CommitAhead(r)
    /\ r \in orphans => Over(r) /\ pending[r] \cup stored[r] \in {{}, Inserts(r)}

\* A key that is revoked was valid when the request began, so it is revoked for
\* no longer than the request is under way, and until its answer the request is
\* in time.  Of a COMMIT whose request is over nothing is said but whose it is.
KeysAreRecent ==
  \A r \in Requests :
    /\ at[r] = 0 => age[r] = 0
    /\ Running(r) => MayCall(r) /\ revoked[ask[r].key] <= age[r]
    /\ Running(r) /\ WorkAhead(r) => age[r] <= Deadline
    /\ r \in orphans => Over(r) /\ MayCall(r) /\ ask[r].op \notin DOMAIN Reads

GatewayInv ==
  /\ TypeOK
  /\ ConnectionsAreClean
  /\ TenantsAreIsolated
  /\ WritesAreWhole
  /\ EveryWriteIsAudited
  /\ KeysAreRecent

-----------------------------------------------------------------------------
(* What every step has in common.                                            *)

\* The disjuncts of Next, for the proofs that go through them one by one.
LEMMA NextCases ==
  ASSUME Next
  PROVE  \/ \E r \in Requests :
              \/ Screen(r) \/ Authenticate(r)
              \/ Begin(r) \/ Select(r) \/ Insert(r) \/ Lock(r) \/ Find(r)
              \/ Commit(r) \/ End(r) \/ Proceed(r) \/ Answer(r)
              \/ CommitUnanswered(r) \/ OrphanEnds(r) \/ Fail(r)
         \/ \E k \in Keys : Revoke(k)
         \/ Tick
BY DEF Next, Step

\* The program of a request is sound, and a request under way is inside it.
LEMMA Programs ==
  ASSUME TypeOK, NEW r \in Requests
  PROVE  /\ Sound(Steps(r)) /\ (ask[r].op \in DOMAIN Reads => OnlyReads(Steps(r)))
         /\ Len(Steps(r)) \in Nat /\ DOMAIN Steps(r) = 1..Len(Steps(r))
         /\ at[r] \in 0..Len(Steps(r)) + 1
         /\ at[r] \in Int
         /\ Running(r) => at[r] \in 1..Len(Steps(r)) /\ at[r] # 0 /\ ~Over(r)
         /\ Over(r) => at[r] # 0
<1>1. ask[r].op \in Operations BY DEF TypeOK
<1>2. Sound(Steps(r)) /\ (ask[r].op \in DOMAIN Reads => OnlyReads(Steps(r)))
  BY <1>1, ProgramsSound DEF Steps
<1>3. Len(Steps(r)) \in Nat /\ DOMAIN Steps(r) = 1..Len(Steps(r))
  BY <1>2 DEF Sound
<1>4. at[r] \in 0..Len(Steps(r)) + 1
  BY DEF TypeOK
<1> QED BY <1>2, <1>3, <1>4 DEF Running, Over

\* What is asked stays as it is.
LEMMA Asking ==
  ASSUME Next
  PROVE  /\ ask' = ask
         /\ \A r \in Requests : /\ Steps(r)' = Steps(r) /\ Tenant(r)' = Tenant(r)
                                /\ Inserts(r)' = Inserts(r) /\ MayCall(r)' = MayCall(r)
<1>1. ask' = ask
  BY NextCases DEF Screen, Authenticate, Begin, Select, Insert, Lock, Find, Commit, End, Proceed,
     Answer, CommitUnanswered, OrphanEnds, Fail, Revoke, Tick, client
<1> QED BY <1>1 DEF Steps, Tenant, Inserts, MayCall

\* Where the requests are after a step.
LEMMA Places ==
  ASSUME TypeOK, NEW r \in Requests
  PROVE  /\ Advance(r) /\ (at[r] = 0 \/ Running(r)) =>
              /\ at' = [at EXCEPT ![r] = at[r] + 1]
              /\ at'[r] = at[r] + 1 /\ at'[r] \in 1..Len(Steps(r)) + 1
              /\ \A q \in Requests \ {r} : at'[q] = at[q]
         /\ Finish(r) =>
              /\ at'[r] = Len(Steps(r)) + 1
              /\ \A q \in Requests \ {r} : at'[q] = at[q]
<1>1. at \in [Requests -> Nat] BY DEF TypeOK
<1> QED BY <1>1, Programs DEF Advance, Finish

\* What a connection is after its request's transaction ended.
LEMMA Releases ==
  ASSUME TypeOK, ConnectionsAreClean, NEW r \in Requests, NEW c \in Connections
  PROVE  /\ Released(r) \in [Connections -> {Idle} \cup {conn[d] : d \in Connections}]
         /\ conn[c].user = r => Released(r)[c] = Idle
         /\ conn[c].user # r => Released(r)[c] = conn[c]
         /\ Idle.user = Nobody /\ r # Nobody
<1>1. \A d \in Connections : conn[d].user = r => conn[d].local
  BY GatewayAssumption DEF ConnectionsAreClean
<1>2. Idle.user = Nobody /\ r # Nobody
  BY GatewayAssumption DEF Idle
<1> QED BY <1>1, <1>2 DEF Released

-----------------------------------------------------------------------------
(* Types.                                                                    *)

\* A step moves one request on by a statement, or to its end, or none.
LEMMA Moves ==
  ASSUME TypeOK, Next
  PROVE  \/ at' = at
         \/ \E r \in Requests : Advance(r) /\ (at[r] = 0 \/ Running(r))
         \/ \E r \in Requests : Finish(r)
BY NextCases DEF Screen, Authenticate, Begin, Select, Insert, Lock, Find, Commit, End, Proceed,
   Answer, CommitUnanswered, OrphanEnds, Fail, Revoke, Tick, Makes

LEMMA PlacesStep ==
  ASSUME TypeOK, Next
  PROVE  at' \in [Requests -> Nat] /\ \A r \in Requests : at'[r] <= Len(Steps(r)) + 1
<1>1. CASE at' = at
  BY <1>1 DEF TypeOK
<1>2. ASSUME NEW r \in Requests, Advance(r) /\ (at[r] = 0 \/ Running(r))
      PROVE  at' \in [Requests -> Nat] /\ \A q \in Requests : at'[q] <= Len(Steps(q)) + 1
  <2>1. at'[r] <= Len(Steps(r)) + 1 /\ at[r] + 1 \in Nat
    BY <1>2, Places, Programs
  <2> QED BY <1>2, <2>1, Places DEF TypeOK
<1>3. ASSUME NEW r \in Requests, Finish(r)
      PROVE  at' \in [Requests -> Nat] /\ \A q \in Requests : at'[q] <= Len(Steps(q)) + 1
  <2>1. Len(Steps(r)) + 1 \in Nat
    BY Programs
  <2> QED BY <1>3, <2>1, Places DEF TypeOK, Finish
<1> QED BY <1>1, <1>2, <1>3, Moves

\* Inserts are made where the program has them, and committed or dropped.
LEMMA WritesStep ==
  ASSUME TypeOK, Next
  PROVE  /\ pending' \in [Requests -> SUBSET Nat] /\ stored' \in [Requests -> SUBSET Nat]
         /\ \A r \in Requests : pending'[r] \subseteq Inserts(r) /\ stored'[r] \subseteq Inserts(r)
<1>1. ASSUME NEW r \in Requests, Insert(r)
      PROVE  /\ pending' \in [Requests -> SUBSET Nat] /\ stored' = stored
             /\ \A q \in Requests : pending'[q] \subseteq Inserts(q)
  <2>1. at[r] \in Inserts(r) /\ at[r] \in Nat
    BY <1>1, Programs DEF Insert, Makes, Running, Inserts, TypeOK
  <2> QED BY <1>1, <2>1 DEF Insert, TypeOK
<1>2. ASSUME NEW r \in Requests, Commit(r) \/ OrphanEnds(r) \/ Fail(r)
      PROVE  /\ pending' \in [Requests -> SUBSET Nat] /\ stored' \in [Requests -> SUBSET Nat]
             /\ \A q \in Requests : pending'[q] \subseteq Inserts(q) /\ stored'[q] \subseteq Inserts(q)
  <2>1. /\ pending' = [pending EXCEPT ![r] = {}]
        /\ stored' = stored \/ stored' = [stored EXCEPT ![r] = @ \cup pending[r]]
    BY <1>2 DEF Commit, OrphanEnds, Fail
  <2>2. /\ pending' \in [Requests -> SUBSET Nat]
        /\ \A q \in Requests : pending'[q] \subseteq Inserts(q)
    BY <2>1 DEF TypeOK
  <2>3. /\ stored' \in [Requests -> SUBSET Nat]
        /\ \A q \in Requests : stored'[q] \subseteq Inserts(q)
    BY <2>1 DEF TypeOK
  <2> QED BY <2>2, <2>3
<1>3. \/ pending' = pending /\ stored' = stored
      \/ \E r \in Requests : Insert(r)
      \/ \E r \in Requests : Commit(r) \/ OrphanEnds(r) \/ Fail(r)
  BY NextCases DEF Screen, Authenticate, Begin, Select, Lock, Find, End, Proceed, Answer,
     CommitUnanswered, Revoke, Tick, writes
<1> QED BY <1>1, <1>2, <1>3 DEF TypeOK

\* Connections are handed out and come back.
LEMMA Connecting ==
  ASSUME Next
  PROVE  \/ conn' = conn
         \/ \E r \in Requests : Begin(r)
         \/ \E r \in Requests : conn' = Released(r)
BY NextCases DEF Screen, Authenticate, Select, Insert, Lock, Find, Commit, End, Proceed,
   Answer, CommitUnanswered, OrphanEnds, Fail, Revoke, Tick

\* A request that begins a transaction has none open, so it has no connection.
LEMMA BeginsWithNone ==
  ASSUME TypeOK, ConnectionsAreClean, NEW r \in Requests, Makes(r, {"begin"}),
         NEW c \in Connections
  PROVE  conn[c].user # r
<1>1. ~Open(Steps(r), at[r])
  BY Programs DEF Sound, Makes, Running
<1> QED BY <1>1, GatewayAssumption DEF ConnectionsAreClean

LEMMA ConnStep ==
  ASSUME TypeOK, ConnectionsAreClean, Next
  PROVE  /\ conn' \in [Connections -> [user : Requests \cup {Nobody},
                                       tenant : Tenants \cup {NoTenant}, local : BOOLEAN]]
         /\ \A c, d \in Connections :
              conn'[c].user = conn'[d].user /\ conn'[c].user # Nobody => c = d
<1> DEFINE Use == [user : Requests \cup {Nobody}, tenant : Tenants \cup {NoTenant}, local : BOOLEAN]
<1>1. CASE conn' = conn
  BY <1>1 DEF TypeOK
<1>2. ASSUME NEW r \in Requests, Begin(r)
      PROVE  /\ conn' \in [Connections -> Use]
             /\ \A c, d \in Connections :
                  conn'[c].user = conn'[d].user /\ conn'[c].user # Nobody => c = d
  <2> PICK c \in Connections : conn[c].user = Nobody /\ conn' = [conn EXCEPT ![c] = Context(c, r)]
    BY <1>2 DEF Begin
  <2>1. Context(c, r) \in Use /\ Context(c, r).user = r
    BY GatewayAssumption DEF Context, Tenant, TypeOK
  <2>2. \A d \in Connections : conn[d].user # r
    BY <1>2, BeginsWithNone DEF Begin
  <2> QED BY <2>1, <2>2 DEF TypeOK
<1>3. ASSUME NEW r \in Requests, conn' = Released(r)
      PROVE  /\ conn' \in [Connections -> Use]
             /\ \A c, d \in Connections :
                  conn'[c].user = conn'[d].user /\ conn'[c].user # Nobody => c = d
  <2>1. Idle \in Use /\ \A d \in Connections : conn[d] \in Use
    BY DEF Idle, TypeOK
  <2>2. conn' \in [Connections -> Use]
    <3>1. \A c \in Connections : conn'[c] \in Use
      BY <1>3, <2>1, Releases
    <3>2. conn' = [c \in Connections |-> conn'[c]]
      BY <1>3 DEF Released
    <3> HIDE DEF Use
    <3> QED BY <3>1, <3>2
  <2>3. \A c \in Connections : conn'[c] = conn[c] \/ conn'[c].user = Nobody
    BY <1>3, Releases
  <2> QED BY <2>2, <2>3 DEF TypeOK
<1> QED BY <1>1, <1>2, <1>3, Connecting

LEMMA TypeStep ==
  ASSUME TypeOK, ConnectionsAreClean, Next
  PROVE  TypeOK'
<1>1. answer' \in [Requests -> {"none", "ok", "found", "error"}]
  <2>1. \/ answer' = answer
        \/ \E r \in Requests : \E code \in {"ok", "found", "error"} : Tell(r, code)
    BY NextCases DEF Screen, Authenticate, Begin, Select, Insert, Lock, Find, Commit, End, Proceed,
       Answer, CommitUnanswered, OrphanEnds, Fail, Revoke, Tick, client
  <2> QED BY <2>1 DEF Tell, TypeOK
<1>2. saw' \in [Requests -> SUBSET Tenants]
  <2>1. saw' = saw \/ \E r \in Requests : Look(r)
    BY NextCases DEF Screen, Authenticate, Begin, Select, Insert, Lock, Find, Commit, End, Proceed,
       Answer, CommitUnanswered, OrphanEnds, Fail, Revoke, Tick
  <2> QED BY <2>1 DEF Look, Visible, TypeOK
<1>3. locked' \subseteq Requests /\ orphans' \subseteq Requests
  BY NextCases DEF TypeOK, Screen, Authenticate, Begin, Select, Insert, Lock, Find, Commit, End,
     Proceed, Answer, CommitUnanswered, OrphanEnds, Fail, Revoke, Tick
<1>4. age' \in [Requests -> 0..Deadline + 1] /\ revoked' \in [Keys -> NotYet..Deadline + 1]
  <2>1. \A n \in NotYet..Deadline + 1 : n # NotYet => Later(n) \in 0..Deadline + 1
    BY GatewayAssumption DEF Later, NotYet
  <2>2. CASE Tick
    <3>1. \A n \in 0..Deadline + 1 : n \in NotYet..Deadline + 1 /\ n # NotYet
      BY GatewayAssumption DEF NotYet
    <3>2. age' \in [Requests -> 0..Deadline + 1]
      BY <2>1, <2>2, <3>1 DEF Tick, TypeOK
    <3>3. revoked' \in [Keys -> NotYet..Deadline + 1]
      BY <2>1, <2>2, <3>1, GatewayAssumption DEF Tick, TypeOK
    <3> QED BY <3>2, <3>3
  <2>3. ASSUME NEW k \in Keys, Revoke(k)
        PROVE  age' = age /\ revoked' \in [Keys -> NotYet..Deadline + 1]
    BY <2>3, GatewayAssumption DEF Revoke, TypeOK, NotYet, client
  <2>4. \/ age' = age /\ revoked' = revoked
        \/ Tick \/ \E k \in Keys : Revoke(k)
    BY NextCases DEF Screen, Authenticate, Begin, Select, Insert, Lock, Find, Commit, End, Proceed,
       Answer, CommitUnanswered, OrphanEnds, Fail, client
  <2> QED BY <2>2, <2>3, <2>4 DEF TypeOK
<1>5. ask' \in [Requests -> [op : Operations, key : Keys]]
  BY Asking DEF TypeOK
<1>6. at' \in [Requests -> Nat] /\ \A r \in Requests : at'[r] <= Len(Steps(r)') + 1
  BY PlacesStep, Asking
<1>7. \A r \in Requests : pending'[r] \subseteq Inserts(r)' /\ stored'[r] \subseteq Inserts(r)'
  BY WritesStep, Asking
<1> QED BY <1>1, <1>2, <1>3, <1>4, <1>5, <1>6, <1>7, WritesStep, ConnStep DEF TypeOK

-----------------------------------------------------------------------------
(* Connections and tenants.                                                  *)

\* A request that makes any statement but these keeps its transaction open.
LEMMA StaysOpen ==
  ASSUME TypeOK, NEW r \in Requests, Running(r), Open(Steps(r), at[r]),
         Steps(r)[at[r]] \notin {"commit", "end"}
  PROVE  Open(Steps(r), at[r] + 1)
BY Programs DEF Open, Running

LEMMA CleanStep ==
  ASSUME TypeOK, ConnectionsAreClean, Next
  PROVE  ConnectionsAreClean'
<1> DEFINE Clean(c) ==
      IF conn'[c].user = Nobody THEN conn'[c] = Idle
      ELSE /\ conn'[c].local /\ conn'[c].tenant = Tenant(conn'[c].user)
           /\ Open(Steps(conn'[c].user), at'[conn'[c].user])
<1>1. SUFFICES ASSUME NEW c \in Connections PROVE Clean(c)
  <2>1. \A c \in Connections : conn'[c].user # Nobody => conn'[c].user \in Requests
    BY ConnStep
  <2> QED BY <2>1, Asking DEF ConnectionsAreClean
<1> DEFINE q == conn[c].user
<1>2. q = Nobody \/ q \in Requests
  BY DEF TypeOK
<1>3. ASSUME NEW r \in Requests, Begin(r) PROVE Clean(c)
  <2> PICK d \in Connections : conn[d].user = Nobody /\ conn' = [conn EXCEPT ![d] = Context(d, r)]
    BY <1>3 DEF Begin
  <2>1. at'[r] = at[r] + 1 /\ \A p \in Requests \ {r} : at'[p] = at[p]
    BY <1>3, Places DEF Begin, Makes
  <2>2. CASE c = d
    <3>1. conn'[c] = [user |-> r, tenant |-> Tenant(r), local |-> TRUE]
      BY <2>2 DEF Context, TypeOK
    <3>2. Open(Steps(r), at[r] + 1)
      BY <1>3, Programs DEF Begin, Makes, Running, Open
    <3> QED BY <2>1, <3>1, <3>2, GatewayAssumption
  <2>3. CASE c # d
    <3>1. conn'[c] = conn[c] BY <2>3 DEF TypeOK
    <3>2. q # r BY <1>3, BeginsWithNone DEF Begin
    <3> QED BY <1>2, <2>1, <3>1, <3>2 DEF ConnectionsAreClean
  <2> QED BY <2>2, <2>3
<1>4. ASSUME NEW r \in Requests, conn' = Released(r),
             (Advance(r) /\ Running(r)) \/ Finish(r)
      PROVE  Clean(c)
  <2>1. \A p \in Requests \ {r} : at'[p] = at[p]
    BY <1>4, Places
  <2>2. CASE q = r
    BY <1>4, <2>2, Releases
  <2>3. CASE q # r
    BY <1>2, <1>4, <2>1, <2>3, Releases DEF ConnectionsAreClean
  <2> QED BY <2>2, <2>3
<1>5. ASSUME conn' = conn, at' = at PROVE Clean(c)
  BY <1>5 DEF ConnectionsAreClean
<1>6. ASSUME NEW r \in Requests, conn' = conn, Advance(r), Running(r),
             Steps(r)[at[r]] \notin {"commit", "end"}
      PROVE  Clean(c)
  <2>1. at'[r] = at[r] + 1 /\ \A p \in Requests \ {r} : at'[p] = at[p]
    BY <1>6, Places
  <2>2. CASE q = r
    BY <1>6, <2>1, <2>2, StaysOpen, GatewayAssumption DEF ConnectionsAreClean
  <2>3. CASE q # r
    BY <1>2, <1>6, <2>1, <2>3 DEF ConnectionsAreClean
  <2> QED BY <2>2, <2>3
<1>7. ASSUME NEW r \in Requests, conn' = conn, at[r] = 0, Advance(r) \/ Finish(r) PROVE Clean(c)
  <2>1. q # r
    BY <1>7, Programs, GatewayAssumption DEF ConnectionsAreClean, Open
  <2>2. \A p \in Requests \ {r} : at'[p] = at[p]
    BY <1>7, Places
  <2> QED BY <1>2, <1>7, <2>1, <2>2 DEF ConnectionsAreClean
<1>8. \/ conn' = conn /\ at' = at
      \/ \E r \in Requests :
           \/ Begin(r)
           \/ conn' = Released(r) /\ ((Advance(r) /\ Running(r)) \/ Finish(r))
           \/ conn' = conn /\ Advance(r) /\ Running(r) /\ Steps(r)[at[r]] \notin {"commit", "end"}
           \/ conn' = conn /\ at[r] = 0 /\ (Advance(r) \/ Finish(r))
  BY NextCases DEF Screen, Authenticate, Select, Insert, Lock, Find, Commit, End, Proceed,
     Answer, CommitUnanswered, OrphanEnds, Fail, Revoke, Tick, Makes
<1> HIDE DEF Clean
<1> QED BY <1>3, <1>4, <1>5, <1>6, <1>7, <1>8

\* A statement sees the rows of its request's tenant.
LEMMA IsolationStep ==
  ASSUME TypeOK, ConnectionsAreClean, TenantsAreIsolated, Next
  PROVE  TenantsAreIsolated'
<1>1. \A r \in Requests : Visible(r) \subseteq {Tenant(r)}
  BY GatewayAssumption DEF Visible, ConnectionsAreClean
<1>2. saw' = saw \/ \E r \in Requests : Look(r)
  BY NextCases DEF Screen, Authenticate, Begin, Select, Insert, Lock, Find, Commit, End, Proceed,
     Answer, CommitUnanswered, OrphanEnds, Fail, Revoke, Tick
<1>3. \A r \in Requests : saw'[r] \subseteq {Tenant(r)}
  <2>1. \A r, q \in Requests : Look(q) => saw'[r] = saw[r] \/ saw'[r] = saw[r] \cup Visible(r)
    BY DEF Look, TypeOK
  <2> QED BY <1>1, <1>2, <2>1 DEF TenantsAreIsolated
<1> QED BY <1>3, Asking DEF TenantsAreIsolated

-----------------------------------------------------------------------------
(* Writes and their audit events.                                            *)

\* The writes of request r before place n.
Before(r, n) == {m \in Inserts(r) : m < n}

LEMMA AuditInsert ==
  ASSUME TypeOK, WritesAreWhole, NEW r \in Requests, Insert(r)
  PROVE  /\ pending'[r] \cup stored'[r] = Before(r, at[r] + 1)
         /\ \E n \in DOMAIN Steps(r) : at[r] + 1 <= n /\ Steps(r)[n] = "commit"
<1>1. at[r] \in Inserts(r) /\ Running(r) /\ IsWrite(Steps(r), at[r])
  BY DEF Insert, Makes, Inserts, Running, IsWrite
<1>2. \E n \in DOMAIN Steps(r) : at[r] < n /\ Steps(r)[n] = "commit"
  BY <1>1, Programs DEF Sound, Running
<1>3. Inserts(r) \subseteq Int /\ at[r] \in Int
  BY Programs DEF Inserts
<1>4. pending'[r] \cup stored'[r] = (pending[r] \cup stored[r]) \cup {at[r]}
  BY DEF Insert, TypeOK
<1>5. Before(r, at[r] + 1) = Before(r, at[r]) \cup {at[r]}
  BY <1>1, <1>3 DEF Before
<1>6. pending[r] \cup stored[r] = Before(r, at[r])
  BY <1>1 DEF WritesAreWhole, Before
<1>7. \A n \in DOMAIN Steps(r) : at[r] < n => at[r] + 1 <= n
  BY <1>3, Programs
<1> QED BY <1>2, <1>4, <1>5, <1>6, <1>7

\* At a COMMIT the writes are complete, or there are none yet.
LEMMA AuditCommit ==
  ASSUME TypeOK, WritesAreWhole, NEW r \in Requests, Makes(r, {"commit"})
  PROVE  pending[r] \cup stored[r] \in {{}, Inserts(r)}
<1>1. /\ at[r] \in DOMAIN Steps(r) /\ Steps(r)[at[r]] = "commit"
      /\ pending[r] \cup stored[r] = Before(r, at[r])
  BY DEF Makes, Running, WritesAreWhole, Before
<1>2. \/ \A m \in Inserts(r) : m < at[r]
      \/ \A m \in Inserts(r) : at[r] < m
  BY <1>1, Programs DEF Sound, IsWrite, Inserts
<1>3. Inserts(r) \subseteq Int /\ at[r] \in Int
  BY Programs DEF Inserts
<1> QED BY <1>1, <1>2, <1>3 DEF Before

\* At an answer everything is stored.
LEMMA AuditAnswer ==
  ASSUME TypeOK, WritesAreWhole, NEW r \in Requests, Makes(r, {"answer"})
  PROVE  stored[r] = Inserts(r)
<1>1. /\ at[r] \in DOMAIN Steps(r) /\ Steps(r)[at[r]] = "answer" /\ Running(r)
      /\ pending[r] \cup stored[r] = Before(r, at[r])
      /\ pending[r] # {} => CommitAhead(r)
  BY DEF Makes, Running, WritesAreWhole, Before
<1>2. \A m \in Inserts(r) : m < at[r]
  BY <1>1, Programs DEF Sound, IsWrite, Inserts
<1>3. ~CommitAhead(r)
  BY <1>1, Programs DEF Sound, CommitAhead
<1> QED BY <1>1, <1>2, <1>3 DEF Before

\* What holds of one request in WritesAreWhole and EveryWriteIsAudited, after
\* a step.
WholeNext(r) ==
  /\ at'[r] = 0 => pending'[r] = {} /\ stored'[r] = {}
  /\ at'[r] \in DOMAIN Steps(r) =>
       /\ pending'[r] \cup stored'[r] = Before(r, at'[r])
       /\ pending'[r] # {} => \E n \in DOMAIN Steps(r) : at'[r] <= n /\ Steps(r)[n] = "commit"
  /\ r \in orphans' => /\ at'[r] > Len(Steps(r))
                       /\ pending'[r] \cup stored'[r] \in {{}, Inserts(r)}
  /\ stored'[r] \in {{}, Inserts(r)}
  /\ answer'[r] = "ok" => stored'[r] = Inserts(r)

\* Nothing of request q changes.
Untouched(q) ==
  /\ at'[q] = at[q] /\ pending'[q] = pending[q] /\ stored'[q] = stored[q]
  /\ answer'[q] = answer[q] /\ (q \in orphans' <=> q \in orphans)

LEMMA OthersUntouched ==
  ASSUME TypeOK, NEW r \in Requests, NEW q \in Requests, q # r,
         \/ Screen(r) \/ Authenticate(r)
         \/ Begin(r) \/ Select(r) \/ Insert(r) \/ Lock(r) \/ Find(r)
         \/ Commit(r) \/ End(r) \/ Proceed(r) \/ Answer(r)
         \/ CommitUnanswered(r) \/ OrphanEnds(r) \/ Fail(r)
  PROVE  Untouched(q)
<1>1. at'[q] = at[q]
  BY Places DEF Screen, Authenticate, Begin, Select, Insert, Lock, Find, Commit, End, Proceed,
     Answer, CommitUnanswered, OrphanEnds, Fail, Makes
<1>2. pending'[q] = pending[q] /\ stored'[q] = stored[q]
  BY DEF TypeOK, Screen, Authenticate, Begin, Select, Insert, Lock, Find, Commit, End, Proceed,
     Answer, CommitUnanswered, OrphanEnds, Fail, writes
<1>3. answer'[q] = answer[q]
  BY DEF TypeOK, Screen, Authenticate, Begin, Select, Insert, Lock, Find, Commit, End, Proceed,
     Answer, CommitUnanswered, OrphanEnds, Fail, Tell, client
<1>4. q \in orphans' <=> q \in orphans
  BY DEF Screen, Authenticate, Begin, Select, Insert, Lock, Find, Commit, End, Proceed,
     Answer, CommitUnanswered, OrphanEnds, Fail
<1> QED BY <1>1, <1>2, <1>3, <1>4 DEF Untouched

LEMMA UntouchedWhole ==
  ASSUME WritesAreWhole, EveryWriteIsAudited, NEW q \in Requests, Untouched(q)
  PROVE  WholeNext(q)
BY DEF Untouched, WholeNext, WritesAreWhole, EveryWriteIsAudited, Running, Over, CommitAhead, Before

\* A statement that neither writes, commits nor answers.
LEMMA PassingWhole ==
  ASSUME TypeOK, WritesAreWhole, EveryWriteIsAudited, NEW q \in Requests, Advance(q),
         at[q] = 0 \/ (Running(q) /\ Steps(q)[at[q]] \notin {"row", "audit", "commit"}),
         pending' = pending, stored' = stored, orphans' = orphans,
         answer'[q] = answer[q] \/ stored[q] = Inserts(q)
  PROVE  WholeNext(q)
<1>1. at'[q] = at[q] + 1 /\ at[q] \in Nat
  BY Places DEF TypeOK
<1>2. q \notin orphans
  BY Programs DEF WritesAreWhole
<1>3. pending[q] \cup stored[q] = Before(q, at[q] + 1)
  <2>1. Inserts(q) \subseteq Nat \ {0}
    BY Programs DEF Inserts
  <2>2. CASE at[q] = 0
    BY <2>1, <2>2 DEF Before, WritesAreWhole
  <2>3. CASE Running(q) /\ Steps(q)[at[q]] \notin {"row", "audit", "commit"}
    <3>1. at[q] \notin Inserts(q)
      BY <2>3 DEF Inserts
    <3>2. pending[q] \cup stored[q] = Before(q, at[q])
      BY <2>3 DEF WritesAreWhole, Before
    <3> QED BY <1>1, <2>1, <3>1, <3>2 DEF Before
  <2> QED BY <2>2, <2>3
<1>4. pending[q] # {} => \E n \in DOMAIN Steps(q) : at[q] + 1 <= n /\ Steps(q)[n] = "commit"
  <2>1. pending[q] # {} => Running(q) /\ CommitAhead(q) /\ Steps(q)[at[q]] # "commit"
    BY DEF WritesAreWhole
  <2>2. \A n \in DOMAIN Steps(q) : at[q] <= n /\ n # at[q] => at[q] + 1 <= n
    BY <1>1, Programs
  <2> QED BY <2>1, <2>2 DEF CommitAhead
<1>5. stored[q] \in {{}, Inserts(q)} /\ (answer'[q] = "ok" => stored[q] = Inserts(q))
  BY DEF EveryWriteIsAudited
<1> QED BY <1>1, <1>2, <1>3, <1>4, <1>5 DEF WholeNext

\* A request that ends keeps what it stored.
LEMMA EndingWhole ==
  ASSUME TypeOK, WritesAreWhole, EveryWriteIsAudited, NEW q \in Requests, Finish(q),
         stored' = stored, answer'[q] = "ok" => answer[q] = "ok",
         q \in orphans' => q \in orphans \/ (Makes(q, {"commit"}) /\ pending' = pending),
         at[q] = 0 \/ Running(q)
  PROVE  WholeNext(q)
<1>1. at'[q] = Len(Steps(q)) + 1 /\ Len(Steps(q)) \in Nat /\ DOMAIN Steps(q) = 1..Len(Steps(q))
  BY Places, Programs
<1>2. q \notin orphans
  BY Programs DEF WritesAreWhole
<1>3. q \in orphans' => pending'[q] \cup stored'[q] \in {{}, Inserts(q)}
  BY <1>2, AuditCommit
<1> QED BY <1>1, <1>3 DEF WholeNext, EveryWriteIsAudited

LEMMA WholeStep ==
  ASSUME TypeOK, WritesAreWhole, EveryWriteIsAudited, Next
  PROVE  WritesAreWhole' /\ EveryWriteIsAudited'
<1>1. SUFFICES ASSUME NEW q \in Requests PROVE WholeNext(q)
  BY Asking DEF WholeNext, WritesAreWhole, EveryWriteIsAudited, Running, Over, CommitAhead, Before
<1>2. CASE Untouched(q)
  BY <1>2, UntouchedWhole
<1>3. CASE Screen(q)
  BY <1>3, EndingWhole DEF Screen, Tell, TypeOK, writes
<1>4. CASE Authenticate(q)
  <2>1. CASE Advance(q) /\ UNCHANGED answer
    BY <1>4, <2>1, PassingWhole DEF Authenticate, writes
  <2>2. CASE Finish(q) /\ Tell(q, "error")
    BY <1>4, <2>2, EndingWhole DEF Authenticate, Tell, TypeOK, writes
  <2> QED BY <1>4, <2>1, <2>2 DEF Authenticate
<1>5. CASE Begin(q) \/ Select(q) \/ Lock(q) \/ End(q) \/ Proceed(q)
  BY <1>5, PassingWhole DEF Begin, Select, Lock, End, Proceed, Makes, writes, client
<1>6. CASE Find(q)
  <2>1. CASE Advance(q) /\ UNCHANGED answer
    BY <1>6, <2>1, PassingWhole DEF Find, Makes, writes
  <2>2. CASE Finish(q) /\ Tell(q, "found")
    BY <1>6, <2>2, EndingWhole DEF Find, Makes, Tell, TypeOK, writes
  <2> QED BY <1>6, <2>1, <2>2 DEF Find
<1>7. CASE Answer(q)
  BY <1>7, PassingWhole, AuditAnswer DEF Answer, Makes, writes
<1>8. CASE Insert(q)
  <2>1. /\ at'[q] = at[q] + 1 /\ at[q] \in Nat /\ q \notin orphans'
        /\ stored' = stored /\ answer' = answer
    BY <1>8, Places, Programs DEF Insert, Makes, WritesAreWhole, TypeOK, client
  <2> QED BY <1>8, <2>1, AuditInsert DEF WholeNext, EveryWriteIsAudited
<1>9. CASE Commit(q)
  <2>1. /\ at'[q] = at[q] + 1 /\ at[q] \in Nat /\ q \notin orphans' /\ answer' = answer
        /\ pending'[q] = {} /\ stored'[q] = pending[q] \cup stored[q]
    BY <1>9, Places, Programs DEF Commit, Makes, WritesAreWhole, TypeOK, client
  <2>2. stored'[q] \in {{}, Inserts(q)}
    BY <1>9, <2>1, AuditCommit DEF Commit
  <2>3. stored'[q] = Before(q, at[q] + 1)
    <3>1. at[q] \notin Inserts(q) /\ stored'[q] = Before(q, at[q]) /\ Inserts(q) \subseteq Int
      BY <1>9, <2>1, Programs DEF Commit, Makes, Running, Inserts, WritesAreWhole, Before
    <3> QED BY <2>1, <3>1 DEF Before
  <2>4. stored[q] \subseteq Inserts(q) /\ pending[q] \subseteq Inserts(q)
    BY DEF TypeOK
  <2> QED BY <2>1, <2>2, <2>3, <2>4 DEF WholeNext, EveryWriteIsAudited
<1>10. CASE CommitUnanswered(q)
  BY <1>10, EndingWhole DEF CommitUnanswered, Makes, Tell, TypeOK, writes
<1>11. CASE OrphanEnds(q)
  <2>1. /\ at'[q] = at[q] /\ Over(q) /\ q \notin orphans' /\ answer' = answer /\ pending'[q] = {}
        /\ pending[q] \cup stored[q] \in {{}, Inserts(q)}
        /\ stored'[q] = stored[q] \/ stored'[q] = stored[q] \cup pending[q]
    BY <1>11 DEF OrphanEnds, WritesAreWhole, TypeOK, client
  <2>2. at[q] \notin DOMAIN Steps(q) /\ at[q] # 0
    BY <2>1, Programs DEF Over
  <2>3. stored[q] \subseteq Inserts(q) /\ pending[q] \subseteq Inserts(q)
    BY DEF TypeOK
  <2> QED BY <2>1, <2>2, <2>3 DEF WholeNext, EveryWriteIsAudited
<1>12. CASE Fail(q)
  BY <1>12, EndingWhole DEF Fail, Tell, TypeOK
<1>13. CASE (\E k \in Keys : Revoke(k)) \/ Tick
  BY <1>2, <1>13 DEF Revoke, Tick, Untouched, client, writes
<1> QED BY <1>2, <1>3, <1>4, <1>5, <1>6, <1>7, <1>8, <1>9, <1>10, <1>11, <1>12, <1>13,
           NextCases, OthersUntouched

-----------------------------------------------------------------------------
(* Keys and time.                                                            *)

\* What holds of one request in KeysAreRecent, after a step.
RecentNext(q) ==
  /\ at'[q] = 0 => age'[q] = 0
  /\ at'[q] \in DOMAIN Steps(q) => MayCall(q) /\ revoked'[ask[q].key] <= age'[q]
  /\ at'[q] \in DOMAIN Steps(q)
       /\ (\E n \in DOMAIN Steps(q) : at'[q] <= n /\ Steps(q)[n] \notin {"answer", "end"})
       => age'[q] <= Deadline
  /\ q \in orphans' => /\ at'[q] > Len(Steps(q)) /\ MayCall(q)
                       /\ ask[q].op \notin DOMAIN Reads

\* A statement about to be made is in time, with a recent key; a COMMIT is an
\* owner's.
LEMMA StatementsInTime ==
  ASSUME TypeOK, KeysAreRecent, NEW r \in Requests, Running(r),
         Steps(r)[at[r]] \notin {"answer", "end"}
  PROVE  /\ MayCall(r) /\ age[r] <= Deadline /\ revoked[ask[r].key] <= age[r]
         /\ Steps(r)[at[r]] = "commit" => ask[r].op \notin DOMAIN Reads
<1>1. at[r] \in DOMAIN Steps(r)
  BY DEF Running
<1>2. WorkAhead(r)
  BY <1>1, Programs DEF WorkAhead
<1>3. Steps(r)[at[r]] = "commit" => ask[r].op \notin DOMAIN Reads
  BY <1>1, Programs DEF OnlyReads
<1> QED BY <1>2, <1>3 DEF KeysAreRecent

LEMMA RecentTick ==
  ASSUME TypeOK, KeysAreRecent, Tick, NEW q \in Requests
  PROVE  RecentNext(q)
<1> DEFINE k == ask[q].key
<1>1. /\ age[q] \in Nat /\ age[q] <= Deadline + 1 /\ k \in Keys
      /\ revoked[k] \in Int /\ revoked[k] >= NotYet
  BY GatewayAssumption DEF TypeOK, NotYet
<1>2. /\ at' = at /\ orphans' = orphans
      /\ age'[q] = IF Running(q) THEN Later(age[q]) ELSE age[q]
      /\ revoked'[k] = IF revoked[k] = NotYet THEN NotYet ELSE Later(revoked[k])
  BY <1>1 DEF Tick
<1>3. CASE ~Running(q)
  BY <1>2, <1>3 DEF RecentNext, KeysAreRecent, Running, Over
<1>4. CASE Running(q)
  <2>1. revoked[k] <= age[q] /\ MayCall(q) /\ at[q] # 0
    BY <1>4, Programs DEF KeysAreRecent
  <2>2. revoked'[k] <= age'[q]
    BY <1>1, <1>2, <1>4, <2>1, GatewayAssumption DEF Later, NotYet
  <2>3. ASSUME WorkAhead(q) PROVE age'[q] <= Deadline
    <3>1. Steps(q)[at[q]] # "answer"
      BY <1>4, <2>3, Programs DEF WorkAhead, Sound, Running
    <3>2. age[q] < Deadline
      BY <1>4, <3>1 DEF Tick, InTime
    <3> QED BY <1>1, <1>2, <1>4, <3>2, GatewayAssumption DEF Later
  <2>4. q \notin orphans
    BY <1>4, Programs DEF KeysAreRecent
  <2> QED BY <1>2, <2>1, <2>2, <2>3, <2>4 DEF RecentNext, WorkAhead
<1> QED BY <1>3, <1>4

LEMMA RecentStep ==
  ASSUME TypeOK, KeysAreRecent, Next
  PROVE  KeysAreRecent'
<1>1. SUFFICES ASSUME NEW q \in Requests PROVE RecentNext(q)
  BY Asking DEF RecentNext, KeysAreRecent, Running, Over, WorkAhead
<1>2. ask[q].key \in Keys /\ age[q] \in Nat /\ revoked[ask[q].key] \in Int
  BY GatewayAssumption DEF TypeOK, NotYet
<1>3. CASE Tick
  BY <1>3, RecentTick
<1>4. ASSUME NEW k \in Keys, Revoke(k) PROVE RecentNext(q)
  <2>1. revoked'[ask[q].key] = revoked[ask[q].key] \/ revoked'[ask[q].key] = 0
    BY <1>2, <1>4 DEF Revoke, TypeOK
  <2> QED BY <1>2, <1>4, <2>1 DEF RecentNext, KeysAreRecent, Revoke, Running, Over, WorkAhead, client
<1>5. ASSUME age' = age, revoked' = revoked, at'[q] = at[q], q \in orphans' => q \in orphans
      PROVE  RecentNext(q)
  BY <1>5 DEF RecentNext, KeysAreRecent, Running, Over, WorkAhead
<1>6. ASSUME age' = age, revoked' = revoked, orphans' = orphans, Advance(q), Running(q)
      PROVE  RecentNext(q)
  <2>1. /\ at'[q] = at[q] + 1 /\ at[q] \in Nat /\ q \notin orphans
        /\ revoked[ask[q].key] <= age[q] /\ MayCall(q)
    BY <1>6, Places, Programs DEF KeysAreRecent, TypeOK
  <2>2. \A n \in DOMAIN Steps(q) : at[q] + 1 <= n => at[q] <= n
    BY <2>1, Programs
  <2> QED BY <1>6, <2>1, <2>2 DEF RecentNext, KeysAreRecent, WorkAhead
<1>7. ASSUME age' = age, revoked' = revoked, orphans' = orphans, Finish(q), at[q] = 0 \/ Running(q)
      PROVE  RecentNext(q)
  <2>1. at'[q] = Len(Steps(q)) + 1 /\ at'[q] \notin DOMAIN Steps(q) /\ at'[q] # 0 /\ q \notin orphans
    BY <1>7, Places, Programs DEF KeysAreRecent
  <2> QED BY <1>7, <2>1 DEF RecentNext
<1>8. CASE CommitUnanswered(q)
  <2>1. /\ at'[q] = Len(Steps(q)) + 1 /\ at'[q] \notin DOMAIN Steps(q) /\ at'[q] # 0
        /\ age' = age /\ revoked' = revoked /\ at'[q] > Len(Steps(q))
    BY <1>8, Places, Programs DEF CommitUnanswered
  <2>2. MayCall(q) /\ ask[q].op \notin DOMAIN Reads
    BY <1>8, StatementsInTime DEF CommitUnanswered, Makes
  <2> QED BY <2>1, <2>2 DEF RecentNext
<1>9. CASE Authenticate(q)
  <2>1. CASE Valid(ask[q].key) /\ MayCall(q) /\ Advance(q)
    <3>1. at'[q] = 1 /\ q \notin orphans /\ age' = age /\ revoked' = revoked /\ orphans' = orphans
      BY <1>9, <2>1, Places, Programs DEF Authenticate, KeysAreRecent
    <3>2. age[q] = 0 /\ revoked[ask[q].key] = -1 /\ 0 <= Deadline
      BY <1>9, <2>1, GatewayAssumption DEF Authenticate, KeysAreRecent, Valid, NotYet
    <3> QED BY <2>1, <3>1, <3>2 DEF RecentNext
  <2>2. CASE Finish(q)
    BY <1>7, <1>9, <2>2 DEF Authenticate
  <2> QED BY <1>9, <2>1, <2>2 DEF Authenticate
<1>10. CASE Screen(q) \/ Fail(q)
  BY <1>7, <1>10 DEF Screen, Fail
<1>11. CASE \/ Begin(q) \/ Select(q) \/ Insert(q) \/ Lock(q) \/ Find(q)
            \/ Commit(q) \/ End(q) \/ Proceed(q) \/ Answer(q)
  BY <1>6, <1>7, <1>11 DEF Begin, Select, Insert, Lock, Find, Commit, End, Proceed, Answer, Makes, client
<1>12. CASE OrphanEnds(q)
  BY <1>5, <1>12 DEF OrphanEnds, client
<1>13. ASSUME NEW r \in Requests, q # r,
             \/ Screen(r) \/ Authenticate(r)
             \/ Begin(r) \/ Select(r) \/ Insert(r) \/ Lock(r) \/ Find(r)
             \/ Commit(r) \/ End(r) \/ Proceed(r) \/ Answer(r)
             \/ CommitUnanswered(r) \/ OrphanEnds(r) \/ Fail(r)
       PROVE RecentNext(q)
  <2>1. age' = age /\ revoked' = revoked
    BY <1>13 DEF Screen, Authenticate, Begin, Select, Insert, Lock, Find, Commit, End, Proceed,
       Answer, CommitUnanswered, OrphanEnds, Fail, client
  <2> QED BY <1>5, <1>13, <2>1, OthersUntouched DEF Untouched
<1> QED BY <1>3, <1>4, <1>8, <1>9, <1>10, <1>11, <1>12, <1>13, NextCases

\* Only COMMITs store.
LEMMA OnlyCommitsStore ==
  ASSUME TypeOK, Next, NEW r \in Requests, stored'[r] # stored[r]
  PROVE  Commit(r) \/ OrphanEnds(r)
<1>1. (\E k \in Keys : Revoke(k)) \/ Tick => stored' = stored
  BY DEF Revoke, Tick, writes
<1>2. ASSUME \/ Screen(r) \/ Authenticate(r)
             \/ Begin(r) \/ Select(r) \/ Insert(r) \/ Lock(r) \/ Find(r)
             \/ End(r) \/ Proceed(r) \/ Answer(r) \/ CommitUnanswered(r) \/ Fail(r)
      PROVE  stored' = stored
  BY <1>2 DEF Screen, Authenticate, Begin, Select, Insert, Lock, Find, End, Proceed,
     Answer, CommitUnanswered, Fail, writes
<1> QED BY <1>1, <1>2, NextCases, OthersUntouched DEF Untouched

\* Statements are made in time, and what is stored late is an orphaned COMMIT.
LEMMA PromptStep ==
  ASSUME TypeOK, KeysAreRecent, Next, NEW r \in Requests
  PROVE  LET late == revoked[ask[r].key] > Deadline IN
           /\ late => ~Makes(r, {"begin", "lock", "find", "select", "row", "audit", "commit"})
           /\ stored'[r] # stored[r] =>
                ask[r].key \in Owners /\ (late => r \in orphans)
<1> DEFINE late == revoked[ask[r].key] > Deadline
<1>1. age[r] \in Int /\ revoked[ask[r].key] \in Int /\ Deadline \in Int
  BY GatewayAssumption DEF TypeOK, NotYet
<1>2. late => ~Makes(r, {"begin", "lock", "find", "select", "row", "audit", "commit"})
  <2>1. ASSUME Makes(r, {"begin", "lock", "find", "select", "row", "audit", "commit"})
        PROVE  age[r] <= Deadline /\ revoked[ask[r].key] <= age[r]
    BY <2>1, StatementsInTime DEF Makes
  <2> QED BY <1>1, <2>1
<1>3. ASSUME stored'[r] # stored[r] PROVE ask[r].key \in Owners /\ (late => r \in orphans)
  <2>1. CASE Commit(r)
    <3>1. MayCall(r) /\ ask[r].op \notin DOMAIN Reads
      BY <2>1, StatementsInTime DEF Commit, Makes
    <3>2. ~late
      BY <1>2, <2>1 DEF Commit, Makes
    <3> QED BY <3>1, <3>2 DEF MayCall
  <2>2. CASE OrphanEnds(r)
    BY <2>2 DEF OrphanEnds, KeysAreRecent, MayCall
  <2> QED BY <1>3, <2>1, <2>2, OnlyCommitsStore
<1> QED BY <1>2, <1>3

-----------------------------------------------------------------------------
(* The theorems.                                                             *)

LEMMA InitInv == Init => GatewayInv
<1> SUFFICES ASSUME Init PROVE GatewayInv
  OBVIOUS
<1>1. TypeOK
  <2>1. \A r \in Requests : Len(Steps(r)) \in Nat
    BY ProgramsSound DEF Init, Steps, Sound
  <2>2. Idle \in [user : Requests \cup {Nobody}, tenant : Tenants \cup {NoTenant}, local : BOOLEAN]
    BY DEF Idle
  <2>3. \A c \in Connections : conn[c].user = Nobody
    BY DEF Init, Idle
  <2>4. NotYet \in NotYet..Deadline + 1 /\ 0 \in 0..Deadline + 1
    BY GatewayAssumption DEF NotYet
  <2> QED BY <2>1, <2>2, <2>3, <2>4 DEF Init, TypeOK
<1>2. \A r \in Requests : ~Running(r) /\ at[r] = 0 /\ age[r] = 0
  BY <1>1, Programs DEF Init
<1> QED BY <1>1, <1>2, GatewayAssumption
  DEF Init, GatewayInv, ConnectionsAreClean, TenantsAreIsolated, WritesAreWhole,
      EveryWriteIsAudited, KeysAreRecent, Idle

LEMMA StutterInv ==
  ASSUME GatewayInv, UNCHANGED vars
  PROVE  GatewayInv'
<1> USE DEF vars, client, writes, GatewayInv, Steps, Tenant, Inserts, MayCall, Running, Over, CommitAhead, WorkAhead
<1>1. TypeOK'
  BY DEF TypeOK
<1>2. ConnectionsAreClean'
  BY DEF ConnectionsAreClean
<1>3. TenantsAreIsolated'
  BY DEF TenantsAreIsolated
<1>4. WritesAreWhole'
  BY DEF WritesAreWhole
<1>5. EveryWriteIsAudited'
  BY DEF EveryWriteIsAudited
<1>6. KeysAreRecent'
  BY DEF KeysAreRecent
<1> QED BY <1>1, <1>2, <1>3, <1>4, <1>5, <1>6

LEMMA InvStep ==
  ASSUME GatewayInv, [Next]_vars
  PROVE  GatewayInv'
<1>1. CASE UNCHANGED vars
  BY <1>1, StutterInv
<1>2. CASE Next
  BY <1>2, TypeStep, CleanStep, IsolationStep, WholeStep, RecentStep DEF GatewayInv
<1> QED BY <1>1, <1>2

\* The invariant behind the properties of the gateway.
THEOREM GatewayInvariant == Spec => []GatewayInv
<1>1. GatewayInv /\ [Next]_vars => GatewayInv'
  BY InvStep
<1> QED BY <1>1, InitInv, PTL DEF Spec

\* Types are kept, and no request ever uses two connections of the pool.
THEOREM GatewayTypeCorrect == Spec => []TypeOK
<1>1. GatewayInv => TypeOK
  BY DEF GatewayInv
<1> QED BY <1>1, GatewayInvariant, PTL

\* With row-level security and a setting local to the transaction, no request
\* sees another tenant's rows, however connections go around.
THEOREM TenantsAreIsolatedHolds == Spec => []TenantsAreIsolated
<1>1. GatewayInv => TenantsAreIsolated
  BY DEF GatewayInv
<1> QED BY <1>1, GatewayInvariant, PTL

\* Writes are stored with their audit event or not at all, and a request that
\* was told of success is stored.
THEOREM EveryWriteIsAuditedHolds == Spec => []EveryWriteIsAudited
<1>1. GatewayInv => EveryWriteIsAudited
  BY DEF GatewayInv
<1> QED BY <1>1, GatewayInvariant, PTL

\* Once the deadline is past since its key was revoked, a request makes no
\* statement; only the database may still end a COMMIT it already had.
THEOREM RevocationIsPromptHolds == Spec => RevocationIsPrompt
<1>1. GatewayInv /\ [Next]_vars =>
        [\A r \in Requests :
           LET late == revoked[ask[r].key] > Deadline IN
             /\ late => ~Makes(r, {"begin", "lock", "find", "select", "row", "audit", "commit"})
             /\ stored'[r] # stored[r] =>
                  ask[r].key \in Owners /\ (late => r \in orphans)]_vars
  BY PromptStep DEF GatewayInv
<1> QED BY <1>1, GatewayInvariant, PTL DEF Spec, RevocationIsPrompt
=============================================================================
