-------------------------- MODULE IdempotentWrites --------------------------
(* The writes that carry an idempotency key, from the arrival of a request  *)
(* to its answer, statement by statement:                                   *)
(*   "analysis"  POST /analyses: Existing, Evaluate, Save (server.go, store.go) *)
(*   "batch"     a batch worker: Evaluate, Save (jobs.go:157-166)            *)
(*   "job"       POST /jobs: enqueue (jobs.go:14-84)                         *)
(* Each of them ends in one READ COMMITTED transaction that takes an         *)
(* advisory lock on the key, looks the key up, and inserts.  Any statement   *)
(* may fail, and the answer to a COMMIT may be lost while the server is      *)
(* still working on it.                                                      *)
EXTENDS Naturals, FiniteSets

CONSTANTS
  MaxRequests,  \* bound: requests that ever arrive
  Keys,         \* idempotency keys, each in the table and lock space of its kind
  KindOf,       \* the kind of the requests that use a key
  Bodies        \* request bodies that differ

Kinds == {"analysis", "batch", "job"}

ASSUME WritesAssumption ==
  /\ MaxRequests \in Nat
  /\ KindOf \in [Keys -> Kinds]
  /\ "none" \notin Keys    \* it stands for "no key yet" (WriteOnce!None)

Requests == 1..MaxRequests

VARIABLES
  pc,    \* where each request is
  ask,   \* its key and body
  lock,  \* pg_advisory_xact_lock: the request whose transaction holds it, 0 if free
  rows,  \* committed rows by key: the request that inserted it, 0 if none
  told   \* the answer given, [code, id]; the id is the request that made the record

vars == <<pc, ask, lock, rows, told>>

\* "orphan": the handler is gone, its COMMIT is still with the server.
Steps == {"new", "existing", "evaluating", "locking", "reading", "inserting",
          "committing", "orphan", "done"}

Codes == {"none", "created", "existing", "conflict", "error"}

Promise == INSTANCE WriteOnce WITH winner <- rows, answer <- told

Told(code, id) == [code |-> code, id |-> id]

Key(r) == ask[r].key

Init ==
  /\ pc = [r \in Requests |-> "new"]
  /\ ask = [r \in Requests |-> Promise!None]
  /\ lock = [k \in Keys |-> 0]
  /\ rows = [k \in Keys |-> 0]
  /\ told = [r \in Requests |-> Told("none", 0)]

\* Where a handler starts, by kind.
Entry(kind) ==
  CASE kind = "analysis" -> "existing"
    [] kind = "batch"    -> "evaluating"
    [] kind = "job"      -> "locking"

\* Requests are numbered in the order they arrive.
Arrive(r) ==
  /\ pc[r] = "new" /\ \A q \in Requests : q < r => pc[q] # "new"
  /\ \E k \in Keys, b \in Bodies :
       /\ ask' = [ask EXCEPT ![r] = [key |-> k, body |-> b]]
       /\ pc' = [pc EXCEPT ![r] = Entry(KindOf[k])]
  /\ UNCHANGED <<lock, rows, told>>

\* BUG: the digest is taken after Validate filled in knowledge_at, the time
\* of arrival.
SameDigestAfterDefault(q, r) == q = r

\* objectHash(req) is taken before Validate fills in the defaults.
SameDigest(q, r) == ask[q].body = ask[r].body

\* BUG: a transaction that finds its key is left open.
ReleasedOnlyByCommit(r) == lock

\* The transaction of r ends, and with it its advisory lock.
Released(r) == [k \in Keys |-> IF lock[k] = r THEN 0 ELSE lock[k]]

\* BUG: the answer to a repeated request does not carry the old record.
AnswerFoundEmpty(r, code) ==
  IF SameDigest(rows[Key(r)], r) THEN Told(code, 0) ELSE Told("conflict", 0)

\* The answer to a request whose key is already recorded.
AnswerFound(r, code) ==
  IF SameDigest(rows[Key(r)], r) THEN Told(code, rows[Key(r)]) ELSE Told("conflict", 0)

\* The lookup before the calculation, outside any lock.
Existing(r) ==
  /\ pc[r] = "existing"
  /\ IF rows[Key(r)] = 0
     THEN pc' = [pc EXCEPT ![r] = "evaluating"] /\ UNCHANGED told
     ELSE /\ told' = [told EXCEPT ![r] = AnswerFound(r, "existing")]
          /\ pc' = [pc EXCEPT ![r] = "done"]
  /\ UNCHANGED <<ask, lock, rows>>

Evaluate(r) ==
  /\ pc[r] = "evaluating"
  /\ pc' = [pc EXCEPT ![r] = "locking"]
  /\ UNCHANGED <<ask, lock, rows, told>>

\* BUG: the key is not part of the lock's name in every handler.
LockIsFreeAlways(k) == TRUE

LockIsFree(k) == lock[k] = 0

AcquireLock(r) ==
  /\ pc[r] = "locking" /\ LockIsFree(Key(r))
  /\ lock' = [lock EXCEPT ![Key(r)] = r]
  /\ pc' = [pc EXCEPT ![r] = "reading"]
  /\ UNCHANGED <<ask, rows, told>>

FoundUnderLock(r) == rows[Key(r)] # 0

\* The lookup under the lock.  POST /analyses answers 201 even when Save
\* returns the record of another request.
ReadBack(r) ==
  /\ pc[r] = "reading"
  /\ IF FoundUnderLock(r)
     THEN /\ told' = [told EXCEPT ![r] =
                        AnswerFound(r, IF KindOf[Key(r)] = "job" THEN "existing" ELSE "created")]
          /\ pc' = [pc EXCEPT ![r] = "done"]
          /\ lock' = Released(r)
     ELSE /\ pc' = [pc EXCEPT ![r] = "inserting"]
          /\ UNCHANGED <<told, lock>>
  /\ UNCHANGED <<ask, rows>>

Inserted(k) == {q \in Requests : Key(q) = k /\ pc[q] \in {"committing", "orphan"}}

\* The INSERTs and the audit row.  UNIQUE(tenant_id, idempotency_key) makes
\* them wait for another transaction's uncommitted row of the same key, and
\* rejects them with a server error once there is a committed one.
Insert(r) ==
  /\ pc[r] = "inserting" /\ Inserted(Key(r)) = {}
  /\ IF rows[Key(r)] = 0
     THEN pc' = [pc EXCEPT ![r] = "committing"] /\ UNCHANGED <<lock, told>>
     ELSE /\ pc' = [pc EXCEPT ![r] = "done"]
          /\ told' = [told EXCEPT ![r] = Told("error", 0)]
          /\ lock' = Released(r)
  /\ UNCHANGED <<ask, rows>>

Commit(r) ==
  /\ pc[r] = "committing"
  /\ rows' = [rows EXCEPT ![Key(r)] = r]
  /\ told' = [told EXCEPT ![r] = Told("created", r)]
  /\ pc' = [pc EXCEPT ![r] = "done"]
  /\ lock' = Released(r)
  /\ UNCHANGED ask

\* The context ends, or the connection breaks, while COMMIT is under way.
CommitUnanswered(r) ==
  /\ pc[r] = "committing"
  /\ told' = [told EXCEPT ![r] = Told("error", 0)]
  /\ pc' = [pc EXCEPT ![r] = "orphan"]
  /\ UNCHANGED <<ask, lock, rows>>

\* The server finishes that transaction, one way or the other.
OrphanEnds(r) ==
  /\ pc[r] = "orphan"
  /\ rows' = [rows EXCEPT ![Key(r)] = r] \/ UNCHANGED rows
  /\ pc' = [pc EXCEPT ![r] = "done"]
  /\ lock' = Released(r)
  /\ UNCHANGED <<ask, told>>

\* Any call returns an error (bad input, a service or the database is
\* unavailable, 40 s are over, the client went away): rollback.
Fail(r) ==
  /\ pc[r] \in {"existing", "evaluating", "locking", "reading", "inserting", "committing"}
  /\ told' = [told EXCEPT ![r] = Told("error", 0)]
  /\ pc' = [pc EXCEPT ![r] = "done"]
  /\ lock' = Released(r)
  /\ UNCHANGED <<ask, rows>>

Handle(r) ==
  \/ Existing(r) \/ Evaluate(r) \/ AcquireLock(r) \/ ReadBack(r) \/ Insert(r)
  \/ Commit(r) \/ CommitUnanswered(r) \/ OrphanEnds(r) \/ Fail(r)

Next == \E r \in Requests : Arrive(r) \/ Handle(r)

Spec == Init /\ [][Next]_vars

\* The 40 s context of every handler and worker ends every wait, and the
\* server finishes every COMMIT.
FairSpec == Spec /\ \A r \in Requests : WF_vars(Handle(r))

-----------------------------------------------------------------------------
(* Properties.                                                              *)

Answers ==
  {Told(code, 0) : code \in {"none", "conflict", "error"}}
    \cup {Told(code, r) : code \in {"created", "existing"}, r \in Requests}

TypeOK ==
  /\ pc \in [Requests -> Steps]
  /\ ask \in [Requests -> [key : Keys, body : Bodies] \cup {Promise!None}]
  /\ \A r \in Requests : ask[r] = Promise!None <=> pc[r] = "new"
  /\ lock \in [Keys -> Requests \cup {0}]
  /\ rows \in [Keys -> Requests \cup {0}]
  /\ told \in [Requests -> Answers]

\* No insert ever meets another row of its key, committed or not: the unique
\* constraint is a second line of defence, and an identical retry is never
\* answered with the server error it would raise (store.go:115-128).
NoDuplicateKey ==
  \A r \in Requests :
    pc[r] \in {"inserting", "committing", "orphan"} =>
      /\ rows[Key(r)] = 0
      /\ Inserted(Key(r)) \subseteq {r}

\* "Retrying an identical key returns the original result; different input
\* returns 409" (ARCHITECTURE.md:32-33): a successful answer carries the
\* committed record of its key, made from the same body; a conflict is only
\* told to a request whose body differs from the recorded one.
AnswersMatchRecord ==
  \A r \in Requests :
    LET winner == rows[Key(r)] IN
      /\ told[r].code \in {"created", "existing"} =>
           winner # 0 /\ told[r].id = winner /\ ask[winner].body = ask[r].body
      /\ told[r].code = "conflict" => winner # 0 /\ ask[winner].body # ask[r].body

\* No key stays locked: every path out of the transaction ends it, the one
\* that finds the key included (the deferred Rollback of store.go:114).
LocksAreReleased ==
  \A k \in Keys, r \in Requests : lock[k] = r ~> lock[k] # r

\* The writes implement WriteOnce: a key is decided once, by a request that
\* arrived, and every answer is about that decision.
ImplementsWriteOnce == Promise!Spec
=============================================================================
