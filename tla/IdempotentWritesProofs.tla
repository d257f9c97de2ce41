----------------------- MODULE IdempotentWritesProofs -----------------------
(* For any number of requests and keys: no key is recorded twice, every      *)
(* answer is about the record of its key, and the writes implement WriteOnce. *)
(* The argument is the advisory lock: who is past the lookup under the lock  *)
(* holds it, so what that lookup found stays true until the COMMIT.          *)
EXTENDS IdempotentWrites, TLAPS

\* The steps of a transaction that has its lock.
Locked == {"reading", "inserting", "committing", "orphan"}

HoldersHaveTheLock ==
  \A r \in Requests : pc[r] \in Locked => lock[Key(r)] = r

\* What the lookup under the lock found stays true until the transaction ends.
NothingFoundIsStillTrue ==
  \A r \in Requests : pc[r] \in {"inserting", "committing", "orphan"} => rows[Key(r)] = 0

NoAnswerYet ==
  \A r \in Requests : pc[r] \notin {"orphan", "done"} => told[r] = Told("none", 0)

\* A record was made by a request that used its key, and that has ended.
RecordsAreOfTheirKey ==
  \A k \in Keys : rows[k] # 0 => Key(rows[k]) = k /\ pc[rows[k]] = "done"

WritesInv ==
  /\ HoldersHaveTheLock
  /\ NothingFoundIsStillTrue
  /\ NoAnswerYet
  /\ RecordsAreOfTheirKey
  /\ AnswersMatchRecord

USE WritesAssumption DEF Requests

-----------------------------------------------------------------------------
(* Facts about the operators.                                               *)

\* A request that has arrived has a key.
LEMMA KeyOfArrived ==
  ASSUME TypeOK, NEW r \in Requests, pc[r] # "new"
  PROVE  Key(r) \in Keys /\ ask[r] # Promise!None
BY DEF TypeOK, Key

LEMMA EntryIsNoLockedStep ==
  ASSUME NEW k \in Keys
  PROVE  Entry(KindOf[k]) \in {"existing", "evaluating", "locking"}
BY DEF Entry, Kinds

\* The answer to a key that is already recorded is one of the answers there are.
LEMMA FoundIsAnswer ==
  ASSUME TypeOK, NEW r \in Requests, pc[r] # "new", rows[Key(r)] # 0,
         NEW code \in {"created", "existing"}
  PROVE  AnswerFound(r, code) \in Answers
<1>1. rows[Key(r)] \in Requests
  BY KeyOfArrived DEF TypeOK
<1>2. QED
  BY <1>1 DEF AnswerFound, Answers

\* The lock after the transaction of r ended: the same but for r's own.
LEMMA ReleasedLock ==
  ASSUME TypeOK, NEW r \in Requests
  PROVE  /\ Released(r) \in [Keys -> Requests \cup {0}]
         /\ \A k \in Keys : lock[k] # r => Released(r)[k] = lock[k]
BY DEF TypeOK, Released

-----------------------------------------------------------------------------
(* Type correctness.                                                        *)

LEMMA InitTypeOK == Init => TypeOK
BY DEF Init, TypeOK, Steps, Answers

LEMMA ArriveTypeOK ==
  ASSUME TypeOK, NEW r \in Requests, Arrive(r)
  PROVE  TypeOK'
<1>1. PICK k \in Keys, b \in Bodies :
        /\ ask' = [ask EXCEPT ![r] = [key |-> k, body |-> b]]
        /\ pc' = [pc EXCEPT ![r] = Entry(KindOf[k])]
  BY DEF Arrive
<1>2. [key |-> k, body |-> b] # Promise!None
  BY DEF Promise!None
<1>3. Entry(KindOf[k]) \in Steps \ {"new"}
  BY EntryIsNoLockedStep DEF Steps
<1>4. pc' \in [Requests -> Steps] /\ ask' \in [Requests -> [key : Keys, body : Bodies] \cup {Promise!None}]
  BY <1>1, <1>3 DEF TypeOK
<1>5. \A q \in Requests : ask'[q] = Promise!None <=> pc'[q] = "new"
  BY <1>1, <1>2, <1>3 DEF TypeOK
<1>6. /\ lock' \in [Keys -> Requests \cup {0}] /\ rows' \in [Keys -> Requests \cup {0}]
      /\ told' \in [Requests -> Answers]
  BY DEF Arrive, TypeOK
<1>7. (ask \in [Requests -> [key : Keys, body : Bodies] \cup {Promise!None}])'
  BY <1>4 DEF Promise!None
<1>8. (\A q \in Requests : ask[q] = Promise!None <=> pc[q] = "new")'
  BY <1>5 DEF Promise!None
<1>9. (told \in [Requests -> Answers])'
  BY <1>6 DEF Answers
<1>10. QED
  BY <1>4, <1>6, <1>7, <1>8, <1>9 DEF TypeOK

LEMMA HandleTypeOK ==
  ASSUME TypeOK, NEW r \in Requests, Handle(r)
  PROVE  TypeOK'
<1>1. pc[r] # "new"
  BY DEF Handle, Existing, Evaluate, AcquireLock, ReadBack, Insert, Commit,
         CommitUnanswered, OrphanEnds, Fail
<1>2. Key(r) \in Keys
  BY <1>1, KeyOfArrived
<1>3. Released(r) \in [Keys -> Requests \cup {0}]
  BY ReleasedLock
<1>4. lock' \in [Keys -> Requests \cup {0}]
  BY <1>2, <1>3 DEF Handle, Existing, Evaluate, AcquireLock, ReadBack, Insert, Commit,
         CommitUnanswered, OrphanEnds, Fail, TypeOK
<1>5. rows' \in [Keys -> Requests \cup {0}]
  BY <1>2 DEF Handle, Existing, Evaluate, AcquireLock, ReadBack, Insert, Commit,
         CommitUnanswered, OrphanEnds, Fail, TypeOK
<1>6. ask' = ask /\ \E s \in Steps \ {"new"} : pc' = [pc EXCEPT ![r] = s]
  BY DEF Handle, Existing, Evaluate, AcquireLock, ReadBack, Insert, Commit,
         CommitUnanswered, OrphanEnds, Fail, Steps
<1>7. told' = told \/ \E a \in Answers : told' = [told EXCEPT ![r] = a]
  <2>1. Told("error", 0) \in Answers /\ Told("created", r) \in Answers
    BY DEF Answers
  <2>2. CASE Existing(r)
    BY <2>2, <1>1, FoundIsAnswer DEF Existing
  <2>3. CASE ReadBack(r)
    BY <2>3, <1>1, FoundIsAnswer DEF ReadBack, FoundUnderLock
  <2>4. CASE ~Existing(r) /\ ~ReadBack(r)
    BY <2>1, <2>4 DEF Handle, Evaluate, AcquireLock, Insert, Commit,
         CommitUnanswered, OrphanEnds, Fail
  <2>5. QED
    BY <2>2, <2>3, <2>4
<1>8. told' \in [Requests -> Answers]
  BY <1>7 DEF TypeOK
<1>9. /\ pc' \in [Requests -> Steps]
      /\ \A q \in Requests : ask'[q] = Promise!None <=> pc'[q] = "new"
  BY <1>1, <1>6 DEF TypeOK
<1>10. QED
  BY <1>4, <1>5, <1>6, <1>8, <1>9 DEF TypeOK, Answers

\* Every variable keeps its type: no request is answered before it arrived,
\* and answers are of the forms that server.go and jobs.go give.
THEOREM WritesTypeCorrect == Spec => []TypeOK
<1>1. TypeOK /\ [Next]_vars => TypeOK'
  <2>1. ASSUME TypeOK, UNCHANGED vars PROVE TypeOK'
    BY <2>1 DEF TypeOK, vars, Answers
  <2>2. QED
    BY <2>1, ArriveTypeOK, HandleTypeOK DEF Next
<1>2. QED
  BY <1>1, InitTypeOK, PTL DEF Spec
-----------------------------------------------------------------------------
(* The invariant.                                                           *)

LEMMA InitWritesInv == Init => WritesInv
BY DEF Init, WritesInv, HoldersHaveTheLock, NothingFoundIsStillTrue, NoAnswerYet,
       RecordsAreOfTheirKey, AnswersMatchRecord, Told, Locked

\* Two transactions that have the lock are about different keys.
LEMMA OneHolder ==
  ASSUME TypeOK, HoldersHaveTheLock,
         NEW q \in Requests, NEW r \in Requests, q # r,
         pc[q] \in Locked, pc[r] \in Locked
  PROVE  Key(q) # Key(r)
BY DEF HoldersHaveTheLock

LEMMA ArriveWritesInv ==
  ASSUME TypeOK, WritesInv, NEW r \in Requests, Arrive(r)
  PROVE  WritesInv'
<1>1. PICK k \in Keys, b \in Bodies :
        /\ ask' = [ask EXCEPT ![r] = [key |-> k, body |-> b]]
        /\ pc' = [pc EXCEPT ![r] = Entry(KindOf[k])]
  BY DEF Arrive
<1>2. pc[r] = "new" /\ UNCHANGED <<lock, rows, told>> /\ pc'[r] \notin Locked \cup {"done"}
  BY <1>1, EntryIsNoLockedStep DEF Arrive, TypeOK, Locked
<1>3. \A q \in Requests : q # r => pc'[q] = pc[q] /\ ask'[q] = ask[q] /\ Key(q)' = Key(q)
  BY <1>1 DEF TypeOK, Key
<1>4. told[r] = Told("none", 0)
  BY <1>2 DEF WritesInv, NoAnswerYet
<1>5. HoldersHaveTheLock' /\ NothingFoundIsStillTrue' /\ NoAnswerYet'
  BY <1>2, <1>3, <1>4 DEF WritesInv, HoldersHaveTheLock, NothingFoundIsStillTrue, NoAnswerYet,
     Locked
<1>6. \A j \in Keys : rows[j] # 0 => rows[j] \in Requests /\ rows[j] # r
  BY <1>2 DEF TypeOK, WritesInv, RecordsAreOfTheirKey
<1>7. RecordsAreOfTheirKey'
  BY <1>2, <1>3, <1>6 DEF WritesInv, RecordsAreOfTheirKey
<1>8. AnswersMatchRecord'
  <2> SUFFICES ASSUME NEW q \in Requests
               PROVE  /\ told[q].code \in {"created", "existing"} =>
                           /\ rows[Key(q)'] # 0 /\ told[q].id = rows[Key(q)']
                           /\ ask'[rows[Key(q)']].body = ask'[q].body
                      /\ told[q].code = "conflict" =>
                           /\ rows[Key(q)'] # 0
                           /\ ask'[rows[Key(q)']].body # ask'[q].body
    BY <1>2 DEF AnswersMatchRecord
  <2>1. CASE q = r
    BY <1>4, <2>1 DEF Told
  <2>2. CASE q # r /\ pc[q] = "new"
    BY <2>2 DEF WritesInv, NoAnswerYet, Told
  <2>3. CASE q # r /\ pc[q] # "new"
    BY <1>3, <1>6, <2>3, KeyOfArrived DEF WritesInv, AnswersMatchRecord
  <2>4. QED
    BY <2>1, <2>2, <2>3
<1>9. QED
  BY <1>5, <1>7, <1>8 DEF WritesInv

\* What every statement of r leaves alone: the requests, the place and the
\* answer of every other request, and the locks the others hold.
LEMMA OthersAreLeftAlone ==
  ASSUME TypeOK, WritesInv, NEW r \in Requests, Handle(r),
         NEW q \in Requests, q # r
  PROVE  /\ ask' = ask /\ Key(q)' = Key(q) /\ Key(r)' = Key(r)
         /\ pc'[q] = pc[q] /\ told'[q] = told[q]
         /\ pc[q] \in Locked => lock'[Key(q)] = q
<1>1. ask' = ask /\ pc'[q] = pc[q] /\ told'[q] = told[q]
  BY DEF Handle, Existing, Evaluate, AcquireLock, ReadBack, Insert, Commit,
         CommitUnanswered, OrphanEnds, Fail, TypeOK
<1>2. ASSUME pc[q] \in Locked PROVE lock'[Key(q)] = q
  <2>1. Key(q) \in Keys /\ lock[Key(q)] = q
    BY <1>2, KeyOfArrived DEF WritesInv, HoldersHaveTheLock, Locked
  <2>2. Released(r)[Key(q)] = q
    BY <2>1, ReleasedLock
  <2>3. CASE AcquireLock(r)
    <3>1. Key(r) # Key(q)
      BY <2>1, <2>3 DEF AcquireLock, LockIsFree
    <3>2. QED
      BY <2>1, <2>3, <3>1 DEF AcquireLock, TypeOK
  <2>4. CASE ~AcquireLock(r)
    BY <2>1, <2>2, <2>4 DEF Handle, Existing, Evaluate, ReadBack, Insert, Commit,
       CommitUnanswered, OrphanEnds, Fail
  <2>5. QED
    BY <2>3, <2>4
<1>3. QED
  BY <1>1, <1>2 DEF Key

\* A statement of r changes the record of no key but its own, and that one
\* only from none to r.
LEMMA RecordsAreKept ==
  ASSUME TypeOK, WritesInv, NEW r \in Requests, Handle(r)
  PROVE  \/ rows' = rows
         \/ /\ pc[r] \in {"committing", "orphan"} /\ rows[Key(r)] = 0 /\ pc'[r] = "done"
            /\ rows' = [rows EXCEPT ![Key(r)] = r]
<1>1. pc[r] \in {"committing", "orphan"} => rows[Key(r)] = 0
  BY DEF WritesInv, NothingFoundIsStillTrue
<1>2. QED
  BY <1>1 DEF Handle, Existing, Evaluate, AcquireLock, ReadBack, Insert, Commit,
     CommitUnanswered, OrphanEnds, Fail, TypeOK

LEMMA HandleWritesInv ==
  ASSUME TypeOK, WritesInv, NEW r \in Requests, Handle(r)
  PROVE  WritesInv'
<1>1. ask' = ask /\ \A q \in Requests : Key(q)' = Key(q)
  BY DEF Handle, Existing, Evaluate, AcquireLock, ReadBack, Insert, Commit,
         CommitUnanswered, OrphanEnds, Fail, Key
<1>2. pc[r] # "new" /\ Key(r) \in Keys
  BY KeyOfArrived DEF Handle, Existing, Evaluate, AcquireLock, ReadBack, Insert, Commit,
         CommitUnanswered, OrphanEnds, Fail
<1>3. HoldersHaveTheLock'
  <2>1. pc'[r] \in Locked => lock'[Key(r)] = r
    BY <1>2 DEF WritesInv, HoldersHaveTheLock, Locked, Handle, Existing, Evaluate, AcquireLock,
       ReadBack, Insert, Commit, CommitUnanswered, OrphanEnds, Fail, TypeOK
  <2>2. QED
    BY <1>1, <2>1, OthersAreLeftAlone DEF HoldersHaveTheLock
<1>4. NothingFoundIsStillTrue'
  <2>1. pc'[r] \in {"inserting", "committing", "orphan"} => rows'[Key(r)] = 0
    BY <1>2 DEF WritesInv, NothingFoundIsStillTrue, FoundUnderLock, Handle, Existing, Evaluate,
       AcquireLock, ReadBack, Insert, Commit, CommitUnanswered, OrphanEnds, Fail, TypeOK
  <2>2. ASSUME NEW q \in Requests, q # r, pc[q] \in {"inserting", "committing", "orphan"}
        PROVE  rows'[Key(q)] = 0
    <3>1. rows[Key(q)] = 0 /\ Key(q) \in Keys
      BY <2>2, KeyOfArrived DEF WritesInv, NothingFoundIsStillTrue
    <3>2. pc[r] \in {"committing", "orphan"} => Key(q) # Key(r)
      BY <2>2, OneHolder DEF WritesInv, Locked
    <3>3. QED
      BY <3>1, <3>2, RecordsAreKept DEF TypeOK
  <2>3. QED
    BY <1>1, <2>1, <2>2, OthersAreLeftAlone DEF NothingFoundIsStillTrue
<1>5. NoAnswerYet'
  <2>1. pc'[r] \notin {"orphan", "done"} => told'[r] = Told("none", 0)
    BY DEF WritesInv, NoAnswerYet, Handle, Existing, Evaluate, AcquireLock, ReadBack, Insert,
       Commit, CommitUnanswered, OrphanEnds, Fail, TypeOK
  <2>2. QED
    BY <2>1, OthersAreLeftAlone DEF WritesInv, NoAnswerYet
<1>6. RecordsAreOfTheirKey'
  <2> SUFFICES ASSUME NEW k \in Keys, rows'[k] # 0
               PROVE  ask'[rows'[k]].key = k /\ pc'[rows'[k]] = "done"
    BY DEF RecordsAreOfTheirKey, Key
  <2>1. CASE rows'[k] = rows[k]
    <3>1. rows[k] \in Requests /\ Key(rows[k]) = k /\ pc[rows[k]] = "done"
      BY <2>1 DEF WritesInv, RecordsAreOfTheirKey, TypeOK
    <3>2. rows[k] # r
      BY <3>1 DEF Handle, Existing, Evaluate, AcquireLock, ReadBack, Insert, Commit,
         CommitUnanswered, OrphanEnds, Fail
    <3>3. QED
      BY <2>1, <3>1, <3>2, OthersAreLeftAlone DEF Key
  <2>2. CASE rows'[k] # rows[k]
    BY <1>1, <1>2, <2>2, RecordsAreKept DEF TypeOK, Key
  <2>3. QED
    BY <2>1, <2>2
<1>7. AnswersMatchRecord'
  <2> DEFINE Matches(answer, q, winner) ==
        /\ answer.code \in {"created", "existing"} =>
             winner # 0 /\ answer.id = winner /\ ask[winner].body = ask[q].body
        /\ answer.code = "conflict" => winner # 0 /\ ask[winner].body # ask[q].body
  <2>1. \A q \in Requests : Matches(told[q], q, rows[Key(q)])
    BY DEF WritesInv, AnswersMatchRecord
  <2>2. ASSUME NEW q \in Requests, told'[q] = told[q]
        PROVE  Matches(told'[q], q, rows'[Key(q)])
    <3>1. CASE told[q].code \in {"created", "existing", "conflict"}
      <4>1. rows[Key(q)] # 0
        BY <2>1, <3>1
      <4>2. Key(q) \in Keys
        BY <3>1, KeyOfArrived DEF WritesInv, NoAnswerYet, Told
      <4>3. rows'[Key(q)] = rows[Key(q)]
        BY <1>2, <4>1, <4>2, RecordsAreKept DEF TypeOK
      <4>4. QED
        BY <2>1, <2>2, <4>3
    <3>2. CASE told[q].code \notin {"created", "existing", "conflict"}
      BY <2>2, <3>2
    <3>3. QED
      BY <3>1, <3>2
  <2>3. ASSUME told'[r] # told[r]
        PROVE  Matches(told'[r], r, rows'[Key(r)])
    <3>1. CASE told'[r] = Told("error", 0)
      BY <3>1 DEF Told
    <3>2. CASE Commit(r)
      BY <1>2, <3>2 DEF Commit, TypeOK, Told
    <3>3. CASE Existing(r) \/ ReadBack(r)
      <4>1. /\ rows' = rows /\ rows[Key(r)] # 0
            /\ \E code \in {"created", "existing"} : told'[r] = AnswerFound(r, code)
        BY <2>3, <3>3 DEF Existing, ReadBack, FoundUnderLock, TypeOK
      <4>2. QED
        BY <4>1 DEF AnswerFound, SameDigest, Told
    <3>4. QED
      BY <2>3, <3>1, <3>2, <3>3 DEF Handle, Evaluate, AcquireLock, Insert,
         CommitUnanswered, OrphanEnds, Fail, TypeOK
  <2>4. \A q \in Requests : Matches(told'[q], q, rows'[Key(q)])
    BY <2>2, <2>3, OthersAreLeftAlone
  <2>5. QED
    BY <1>1, <2>4 DEF AnswersMatchRecord
<1>8. QED
  BY <1>3, <1>4, <1>5, <1>6, <1>7 DEF WritesInv

\* The invariant the other theorems rest on.
THEOREM WritesInvariant == Spec => [](TypeOK /\ WritesInv)
<1>1. TypeOK /\ WritesInv /\ [Next]_vars => TypeOK' /\ WritesInv'
  <2>1. ASSUME TypeOK, WritesInv, UNCHANGED vars PROVE TypeOK' /\ WritesInv'
    BY <2>1 DEF TypeOK, vars, Answers, WritesInv, HoldersHaveTheLock, NothingFoundIsStillTrue,
       NoAnswerYet, RecordsAreOfTheirKey, AnswersMatchRecord, Key
  <2>2. QED
    BY <2>1, ArriveTypeOK, HandleTypeOK, ArriveWritesInv, HandleWritesInv DEF Next
<1>2. QED
  BY <1>1, InitTypeOK, InitWritesInv, PTL DEF Spec

\* No insert ever meets another row of its key, committed or not
\* (store.go:115-128).
THEOREM NoDuplicateKeyHolds == Spec => []NoDuplicateKey
<1>1. TypeOK /\ WritesInv => NoDuplicateKey
  BY OneHolder DEF WritesInv, NothingFoundIsStillTrue, NoDuplicateKey, Inserted, Locked
<1>2. QED
  BY <1>1, WritesInvariant, PTL

\* A successful answer carries the record of its key, made from the same
\* body; a conflict is told only when the bodies differ (ARCHITECTURE.md:32-33).
THEOREM AnswersMatchRecordHolds == Spec => []AnswersMatchRecord
<1>1. WritesInv => AnswersMatchRecord
  BY DEF WritesInv
<1>2. QED
  BY <1>1, WritesInvariant, PTL

-----------------------------------------------------------------------------
(* The refinement.                                                          *)

\* Who is answered in this step was not answered before.
LEMMA AskedAndUnanswered ==
  ASSUME TypeOK, WritesInv, NEW r \in Requests, pc[r] \notin {"new", "orphan", "done"}
  PROVE  ask[r] # Promise!None /\ told[r].code = "none" /\ Key(r) \in Keys
BY KeyOfArrived DEF WritesInv, NoAnswerYet, Told

\* An answer about a recorded key is the promise's Repeat or Conflict.
LEMMA FoundIsPromised ==
  ASSUME TypeOK, WritesInv, NEW r \in Requests, pc[r] \notin {"new", "orphan", "done"},
         NEW code \in {"created", "existing"}, rows[Key(r)] # 0,
         told' = [told EXCEPT ![r] = AnswerFound(r, code)], UNCHANGED <<ask, rows>>
  PROVE  Promise!Repeat(r) \/ Promise!Conflict(r)
<1>1. CASE SameDigest(rows[Key(r)], r)
  BY <1>1, AskedAndUnanswered DEF Promise!Repeat, AnswerFound, SameDigest, Key, Told, Promise!Told
<1>2. CASE ~SameDigest(rows[Key(r)], r)
  BY <1>2, AskedAndUnanswered DEF Promise!Conflict, AnswerFound, SameDigest, Key, Told, Promise!Told
<1>3. QED
  BY <1>1, <1>2

LEMMA ErrorIsPromised ==
  ASSUME TypeOK, WritesInv, NEW r \in Requests, pc[r] \notin {"new", "orphan", "done"},
         told' = [told EXCEPT ![r] = Told("error", 0)], UNCHANGED <<ask, rows>>
  PROVE  Promise!Error(r)
BY AskedAndUnanswered DEF Promise!Error, Told, Promise!Told

\* A COMMIT that takes effect is the promise's Win, answered or not.
LEMMA CommitIsPromised ==
  ASSUME TypeOK, WritesInv, NEW r \in Requests, pc[r] \in {"committing", "orphan"},
         rows' = [rows EXCEPT ![Key(r)] = r], UNCHANGED ask,
         \/ UNCHANGED told
         \/ pc[r] = "committing" /\ told' = [told EXCEPT ![r] = Told("created", r)]
  PROVE  Promise!Win(r)
<1>1. ask[r] # Promise!None /\ rows[Key(r)] = 0
  BY KeyOfArrived DEF WritesInv, NothingFoundIsStillTrue
<1>2. pc[r] = "committing" => told[r].code = "none"
  BY AskedAndUnanswered
<1>3. QED
  BY <1>1, <1>2 DEF Promise!Win, Key, Told, Promise!Told

LEMMA StepIsPromised ==
  ASSUME TypeOK, WritesInv, [Next]_vars
  PROVE  [Promise!Next]_(Promise!vars)
<1>1. CASE UNCHANGED vars
  BY <1>1 DEF vars, Promise!vars
<1>2. ASSUME NEW r \in Requests, Arrive(r) PROVE Promise!Next
  <2>1. ask[r] = Promise!None /\ UNCHANGED <<rows, told>>
    BY <1>2 DEF Arrive, TypeOK
  <2>2. Promise!Ask(r)
    BY <1>2, <2>1 DEF Arrive, Promise!Ask
  <2>3. QED
    BY <2>2 DEF Promise!Next
<1>3. ASSUME NEW r \in Requests, Handle(r) PROVE Promise!Next \/ UNCHANGED <<ask, rows, told>>
  <2>1. CASE Existing(r)
    BY <2>1, FoundIsPromised DEF Existing, Promise!Next
  <2>2. CASE Evaluate(r) \/ AcquireLock(r)
    BY <2>2 DEF Evaluate, AcquireLock
  <2>3. CASE ReadBack(r)
    BY <2>3, FoundIsPromised DEF ReadBack, FoundUnderLock, Promise!Next
  <2>4. CASE Insert(r)
    BY <2>4, ErrorIsPromised DEF Insert, Promise!Next
  <2>5. CASE Commit(r)
    BY <2>5, CommitIsPromised DEF Commit, Promise!Next
  <2>6. CASE CommitUnanswered(r) \/ Fail(r)
    BY <2>6, ErrorIsPromised DEF CommitUnanswered, Fail, Promise!Next
  <2>7. CASE OrphanEnds(r)
    BY <2>7, CommitIsPromised DEF OrphanEnds, Promise!Next
  <2>8. QED
    BY <1>3, <2>1, <2>2, <2>3, <2>4, <2>5, <2>6, <2>7 DEF Handle
<1>4. QED
  BY <1>1, <1>2, <1>3 DEF Next, Promise!vars

\* The writes keep the promise of an idempotency key: a key is decided once,
\* by a request that used it, and every answer is about that decision.
THEOREM WritesKeepPromise == Spec => ImplementsWriteOnce
<1>1. Init => Promise!Init
  BY DEF Init, Promise!Init, Told, Promise!Told
<1>2. TypeOK /\ WritesInv /\ [Next]_vars => [Promise!Next]_(Promise!vars)
  BY StepIsPromised
<1>3. QED
  BY <1>1, <1>2, WritesInvariant, PTL DEF Spec, Promise!Spec, ImplementsWriteOnce
=============================================================================
