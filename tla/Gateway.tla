------------------------------ MODULE Gateway -------------------------------
(* The API from the arrival of a request to the end of its handler           *)
(* (server.go, jobs.go, store.go): the screens before the route, the key and *)
(* its role, and the handlers, which share a pool of database connections.   *)
(* Requests are screened, wait, run and fail in any interleaving, and keys   *)
(* are revoked meanwhile.                                                    *)
(*                                                                           *)
(* A handler is a program: the statements it makes in their order.  Which    *)
(* rows a statement is about is left out.  What is kept is who may read and  *)
(* write them: no query names a tenant in its WHERE, the row-level security  *)
(* of 001_init.sql compares each row with a setting of the connection that   *)
(* Store.Tx makes at the start of each transaction, and connections go from  *)
(* one tenant's request to the next one's.                                   *)
EXTENDS Integers, Sequences

CONSTANTS
  Requests,     \* bound: requests that ever arrive
  Connections,  \* the pool of pgx
  Keys,         \* API keys
  Tenants,
  Nobody,       \* the user of a connection in the pool
  NoTenant,     \* the setting app.tenant_id when it is empty
  TenantOf,     \* the tenant of a key
  Owners,       \* the keys with the role owner; the others are viewers
  Deadline,     \* the 40 seconds of a request, in ticks
  Revocable,    \* bound: the keys that may be revoked
  Asked         \* bound: the operations and keys each request may come with

ASSUME GatewayAssumption ==
  /\ TenantOf \in [Keys -> Tenants]
  /\ Owners \subseteq Keys
  /\ Nobody \notin Requests /\ NoTenant \notin Tenants
  /\ Deadline \in Nat
  /\ Revocable \subseteq Keys

-----------------------------------------------------------------------------
(* The handlers.  "body" reads and validates the request's body, "begin" is  *)
(* Store.Tx, "find" looks an idempotency key up, "row" and "audit" insert,   *)
(* "end" is the deferred Rollback, "call" asks the Rust or Python service.   *)

Me == <<"answer">>

Geocode == <<"body", "call", "answer">>

\* BUG: the audit event has a transaction of its own.
AuditApart == <<"begin", "body", "row", "commit", "begin", "audit", "commit", "answer">>

\* POST /properties begins its transaction before it reads the body.
CreateProperty == <<"begin", "body", "row", "audit", "commit", "answer">>

\* A CSV file of two rows; POST /comparables makes the same statements.
ImportProperties == <<"body", "begin", "row", "row", "audit", "commit", "answer">>

\* GET of properties, catalog, authorities, a source, the analyses, the events.
List == <<"begin", "select", "answer", "end">>

\* GET /jobs/{id}: the job's counts, then its items.
Report == <<"begin", "select", "select", "answer", "end">>

Replay == <<"begin", "select", "commit", "call", "answer">>

Existing == <<"begin", "find", "end">>

\* BUG: the read transaction is still open during the calls and in Save.
EvaluateInTransaction == <<"begin", "select", "call", "call">>

Evaluate == <<"begin", "select", "commit", "call", "call">>

Save == <<"begin", "lock", "find", "row", "audit", "select", "commit">>

Analysis == <<"body">> \o Existing \o Evaluate \o Save \o <<"answer">>

\* A batch of one item.
Enqueue ==
  <<"body", "begin", "lock", "find", "select", "row", "row", "audit", "commit", "answer">>

Reads == [me |-> Me, list |-> List, report |-> Report]

Posts == [geocode |-> Geocode, create |-> CreateProperty, import |-> ImportProperties,
          replay |-> Replay, analysis |-> Analysis, enqueue |-> Enqueue]

Operations == DOMAIN Reads \cup DOMAIN Posts

Program(o) == IF o \in DOMAIN Reads THEN Reads[o] ELSE Posts[o]

-----------------------------------------------------------------------------
VARIABLES
  ask,      \* the operation and the key of each request
  at,       \* its place in its program, 0 before it is authenticated
  age,      \* ticks since its 40 seconds began
  answer,   \* what its client is told
  saw,      \* tenants whose rows its statements could see
  pending,  \* places of the inserts of its open transaction
  stored,   \* places of its inserts that are committed
  locked,   \* requests whose transactions hold the advisory lock on their key
  orphans,  \* requests that are over while the database still has their COMMIT
  conn,     \* who uses a connection, and its setting app.tenant_id
  revoked   \* ticks since a key was revoked

client == <<ask, age, answer>>
writes == <<pending, stored>>
vars == <<client, at, saw, writes, locked, orphans, conn, revoked>>

NotYet == -1  \* in revoked: the key is valid

Idle == [user |-> Nobody, tenant |-> NoTenant, local |-> FALSE]

Init ==
  /\ ask \in [Requests -> [op : Operations, key : Keys]]
  /\ \A r \in Requests : ask[r] \in Asked[r]
  /\ at = [r \in Requests |-> 0]
  /\ age = [r \in Requests |-> 0]
  /\ answer = [r \in Requests |-> "none"]
  /\ saw = [r \in Requests |-> {}]
  /\ pending = [r \in Requests |-> {}]
  /\ stored = [r \in Requests |-> {}]
  /\ locked = {}
  /\ orphans = {}
  /\ conn = [c \in Connections |-> Idle]
  /\ revoked = [k \in Keys |-> NotYet]

Steps(r) == Program(ask[r].op)

Tenant(r) == TenantOf[ask[r].key]

Over(r) == at[r] > Len(Steps(r))

Running(r) == at[r] \in DOMAIN Steps(r)

\* Request r is about to make a statement of one of these kinds.
Makes(r, kinds) == Running(r) /\ Steps(r)[at[r]] \in kinds

Advance(r) == at' = [at EXCEPT ![r] = @ + 1]

Finish(r) == at' = [at EXCEPT ![r] = Len(Steps(r)) + 1]

Tell(r, code) == answer' = [answer EXCEPT ![r] = IF @ = "none" THEN code ELSE @]

-----------------------------------------------------------------------------
(* Before the route.                                                         *)

\* The limiter, the origin, the bearer token.
Screen(r) ==
  /\ at[r] = 0
  /\ Tell(r, "error")
  /\ Finish(r)
  /\ UNCHANGED <<ask, age, saw, writes, locked, orphans, conn, revoked>>

\* authenticate_key
Valid(k) == revoked[k] = NotYet

MayCall(r) == ask[r].op \in DOMAIN Reads \/ ask[r].key \in Owners

\* The query waits for a connection of the pool, without a timeout.
Authenticate(r) ==
  /\ at[r] = 0
  /\ \E c \in Connections : conn[c].user = Nobody
  /\ IF Valid(ask[r].key) /\ MayCall(r)
     THEN Advance(r) /\ UNCHANGED answer
     ELSE Finish(r) /\ Tell(r, "error")
  /\ UNCHANGED <<ask, age, saw, writes, locked, orphans, conn, revoked>>

-----------------------------------------------------------------------------
(* The statements of a handler.                                              *)

\* BUG: the setting outlives the transaction and is made once per connection.
ContextOnce(c, r) ==
  [user |-> r, local |-> FALSE,
   tenant |-> IF conn[c].tenant = NoTenant THEN Tenant(r) ELSE conn[c].tenant]

\* set_config('app.tenant_id', tenant, true): for this transaction only.
Context(c, r) == [user |-> r, tenant |-> Tenant(r), local |-> TRUE]

Begin(r) ==
  /\ Makes(r, {"begin"})
  /\ \E c \in Connections :
       /\ conn[c].user = Nobody
       /\ conn' = [conn EXCEPT ![c] = Context(c, r)]
  /\ Advance(r)
  /\ UNCHANGED <<client, saw, writes, locked, orphans, revoked>>

\* The policy tenant_isolation: tenant_id = tenant_context().
Visible(r) == {t \in Tenants : \E c \in Connections : conn[c].user = r /\ conn[c].tenant = t}

Look(r) == saw' = [saw EXCEPT ![r] = @ \cup Visible(r)]

\* BUG: the deferred Rollback is missing.
Kept(r) == conn

\* The transaction of r is over: its connection goes back to the pool, a local
\* setting is undone.
Released(r) ==
  [c \in Connections |->
     IF conn[c].user # r THEN conn[c]
     ELSE IF conn[c].local THEN Idle ELSE [conn[c] EXCEPT !.user = Nobody]]

Select(r) ==
  /\ Makes(r, {"select"})
  /\ Look(r)
  /\ Advance(r)
  /\ UNCHANGED <<client, writes, locked, orphans, conn, revoked>>

\* WITH CHECK of the policy.
Insert(r) ==
  /\ Makes(r, {"row", "audit"})
  /\ Tenant(r) \in Visible(r)
  /\ pending' = [pending EXCEPT ![r] = @ \cup {at[r]}]
  /\ Advance(r)
  /\ UNCHANGED <<client, saw, stored, locked, orphans, conn, revoked>>

\* pg_advisory_xact_lock.  The requests of a tenant for one operation carry
\* the same idempotency key here.
Lock(r) ==
  /\ Makes(r, {"lock"})
  /\ \A q \in locked : ask[q].op # ask[r].op \/ Tenant(q) # Tenant(r)
  /\ locked' = locked \cup {r}
  /\ Advance(r)
  /\ UNCHANGED <<client, saw, writes, orphans, conn, revoked>>

\* The key is new, or the record it names is the answer.
Find(r) ==
  /\ Makes(r, {"find"})
  /\ Look(r)
  /\ \/ Advance(r) /\ UNCHANGED <<answer, locked, conn>>
     \/ /\ Tell(r, "found")
        /\ Finish(r)
        /\ locked' = locked \ {r}
        /\ conn' = Released(r)
  /\ UNCHANGED <<ask, age, writes, orphans, revoked>>

Commit(r) ==
  /\ Makes(r, {"commit"})
  /\ stored' = [stored EXCEPT ![r] = @ \cup pending[r]]
  /\ pending' = [pending EXCEPT ![r] = {}]
  /\ locked' = locked \ {r}
  /\ conn' = Released(r)
  /\ Advance(r)
  /\ UNCHANGED <<client, saw, orphans, revoked>>

\* The 40 seconds end, or the connection breaks, while the database works on
\* the COMMIT: the handler is over, the connection is replaced.
CommitUnanswered(r) ==
  /\ Makes(r, {"commit"})
  /\ Tell(r, "error")
  /\ Finish(r)
  /\ orphans' = orphans \cup {r}
  /\ conn' = Released(r)
  /\ UNCHANGED <<ask, age, saw, writes, locked, revoked>>

\* The database commits, or it never got the COMMIT and rolls back.
OrphanEnds(r) ==
  /\ r \in orphans
  /\ orphans' = orphans \ {r}
  /\ locked' = locked \ {r}
  /\ stored' \in {stored, [stored EXCEPT ![r] = @ \cup pending[r]]}
  /\ pending' = [pending EXCEPT ![r] = {}]
  /\ UNCHANGED <<client, at, saw, conn, revoked>>

\* The deferred Rollback of a transaction that only read.
End(r) ==
  /\ Makes(r, {"end"})
  /\ conn' = Released(r)
  /\ Advance(r)
  /\ UNCHANGED <<client, saw, writes, locked, orphans, revoked>>

\* The body is read and valid; the service answers.
Proceed(r) ==
  /\ Makes(r, {"body", "call"})
  /\ Advance(r)
  /\ UNCHANGED <<client, saw, writes, locked, orphans, conn, revoked>>

Answer(r) ==
  /\ Makes(r, {"answer"})
  /\ Tell(r, "ok")
  /\ Advance(r)
  /\ UNCHANGED <<ask, age, saw, writes, locked, orphans, conn, revoked>>

\* Any statement may fail, for the body's sake, a service's, the database's or
\* the 40 seconds': the handler returns, its transaction is rolled back.
Fail(r) ==
  /\ Running(r)
  /\ Tell(r, "error")
  /\ Finish(r)
  /\ pending' = [pending EXCEPT ![r] = {}]
  /\ locked' = locked \ {r}
  /\ conn' = Released(r)
  /\ UNCHANGED <<ask, age, saw, stored, orphans, revoked>>

-----------------------------------------------------------------------------
(* The keys and the time.                                                    *)

\* pipeline.py: revoke
Revoke(k) ==
  /\ k \in Revocable /\ revoked[k] = NotYet
  /\ revoked' = [revoked EXCEPT ![k] = 0]
  /\ UNCHANGED <<client, at, saw, writes, locked, orphans, conn>>

\* BUG: the context of a request has no timeout.
AlwaysInTime(r) == TRUE

\* context.WithTimeout(r.Context(), 40*time.Second); writing an answer is not
\* under the context.
InTime(r) == Running(r) /\ Steps(r)[at[r]] # "answer" => age[r] < Deadline

\* Ticks are counted until the deadline is past.
Later(n) == IF n > Deadline THEN n ELSE n + 1

\* Nothing bounds the time the database takes for a COMMIT it has.
Tick ==
  /\ \A r \in Requests : InTime(r)
  /\ age' = [r \in Requests |-> IF Running(r) THEN Later(age[r]) ELSE age[r]]
  /\ revoked' = [k \in Keys |-> IF revoked[k] = NotYet THEN NotYet ELSE Later(revoked[k])]
  /\ UNCHANGED <<ask, at, answer, saw, writes, locked, orphans, conn>>

\* What the handler of r and the database do of their own accord.
Step(r) ==
  \/ Authenticate(r)
  \/ Begin(r) \/ Select(r) \/ Insert(r) \/ Lock(r) \/ Find(r)
  \/ Commit(r) \/ End(r) \/ Proceed(r) \/ Answer(r)

Next ==
  \/ \E r \in Requests :
       Screen(r) \/ Step(r) \/ CommitUnanswered(r) \/ OrphanEnds(r) \/ Fail(r)
  \/ \E k \in Keys : Revoke(k)
  \/ Tick

Spec == Init /\ [][Next]_vars

\* Connections and locks are handed out in the order they were asked for, so
\* strong fairness of the statements that wait for one.  Nothing is assumed
\* of the time: no timeout comes to the rescue.
Fairness == \A r \in Requests : SF_vars(Step(r)) /\ WF_vars(OrphanEnds(r))

FairSpec == Spec /\ Fairness
-----------------------------------------------------------------------------
(* Properties.                                                               *)

Inserts(r) == {n \in DOMAIN Steps(r) : Steps(r)[n] \in {"row", "audit"}}

\* Well formed, and a request uses no more than one connection.
TypeOK ==
  /\ ask \in [Requests -> [op : Operations, key : Keys]]
  /\ at \in [Requests -> Nat] /\ \A r \in Requests : at[r] <= Len(Steps(r)) + 1
  /\ age \in [Requests -> 0..Deadline + 1]
  /\ answer \in [Requests -> {"none", "ok", "found", "error"}]
  /\ saw \in [Requests -> SUBSET Tenants]
  /\ pending \in [Requests -> SUBSET Nat] /\ stored \in [Requests -> SUBSET Nat]
  /\ \A r \in Requests : pending[r] \subseteq Inserts(r) /\ stored[r] \subseteq Inserts(r)
  /\ locked \subseteq Requests /\ orphans \subseteq Requests
  /\ conn \in [Connections -> [user : Requests \cup {Nobody},
                               tenant : Tenants \cup {NoTenant}, local : BOOLEAN]]
  /\ \A c, d \in Connections : conn[c].user = conn[d].user /\ conn[c].user # Nobody => c = d
  /\ revoked \in [Keys -> NotYet..Deadline + 1]

\* A request sees the rows of the tenant of its key and of no other, whoever
\* used its connections before and however those requests ended
\* (store.go:26-37, 001_init.sql:93-97).
TenantsAreIsolated == \A r \in Requests : saw[r] \subseteq {Tenant(r)}

\* What a request writes is stored with its audit event or not at all,
\* whichever statement fails and wherever the answer to a COMMIT is lost; and a
\* request that is told of success has it stored (server.go:246-256,468-487,
\* store.go:109-147, jobs.go:44-82).
EveryWriteIsAudited ==
  \A r \in Requests :
    /\ stored[r] \in {{}, Inserts(r)}
    /\ answer[r] = "ok" => stored[r] = Inserts(r)

\* Only owners write, and 40 seconds after a key was revoked no request with
\* that key makes a statement any more, those that were under way, or that
\* waited for a lock or a connection, included (server.go:121-137).  All that
\* may still be stored for the key is a COMMIT the database had got by then,
\* which the code neither waits for nor bounds (store.go:146).
RevocationIsPrompt ==
  [][\A r \in Requests :
       LET late == revoked[ask[r].key] > Deadline IN
         /\ late => ~Makes(r, {"begin", "lock", "find", "select", "row", "audit", "commit"})
         /\ stored'[r] # stored[r] =>
              ask[r].key \in Owners /\ (late => r \in orphans)]_vars

\* Every request comes to its end and gives its connection back, even if no
\* statement fails and no timeout is reached: no request waits for a
\* connection or a lock while it holds what another one waits for
\* (server.go:125,228-232, engine.go:146, store.go:109-116, jobs.go:38-46).
EveryRequestIsAnswered ==
  \A r \in Requests :
    <>(Over(r) /\ answer[r] # "none" /\ \A c \in Connections : conn[c].user # r)
=============================================================================
