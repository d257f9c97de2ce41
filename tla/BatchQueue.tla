----------------------------- MODULE BatchQueue -----------------------------
(* The batch queue of apps/api-go/internal/app/jobs.go: job items in a      *)
(* PostgreSQL table, and the goroutines of one API process that claim them  *)
(* under a lease, evaluate them, save the analysis under the item's stable  *)
(* idempotency key and report the outcome.                                  *)
(*                                                                          *)
(* A database transaction is one step: its row locks keep others out until  *)
(* it commits, and an uncommitted one is rolled back.  What can happen      *)
(* between the three transactions of a run (claim, Save, finish) is what    *)
(* the actions below interleave.  Time is counted in ticks of 40 s.         *)
EXTENDS Naturals, FiniteSets

CONSTANTS
  Workers,      \* the goroutines started in main.go
  Items,        \* every item that may ever be enqueued
  Jobs,         \* the jobs, each the set of its items
  Tenants,
  TenantOf,     \* the tenant of an item
  ScanLimit,    \* the LIMIT 100 of work_tenants
  NoItem,       \* what an idle worker works on
  MaxAttempts,  \* 3 in the SQL of jobs.go
  LeaseTicks,   \* interval '2 minutes'
  WorkTicks,    \* the 40 s of workOne
  FinishTicks,  \* the 5 s of the finish transaction, rounded up
  Faults        \* which of FaultKinds the environment may do

FaultKinds == {"commit", "database", "stall", "crash", "shutdown"}

\* The two-minute lease is longer than the two timeouts a run can use up.
ASSUME TimingAssumption ==
  /\ LeaseTicks \in Nat /\ WorkTicks \in Nat /\ FinishTicks \in Nat
  /\ WorkTicks + FinishTicks < LeaseTicks

ASSUME QueueAssumption ==
  /\ MaxAttempts \in Nat \ {0}
  /\ NoItem \notin Items
  /\ Jobs \subseteq SUBSET Items
  /\ TenantOf \in [Items -> Tenants]
  /\ \A job \in Jobs : \A i, j \in job : TenantOf[i] = TenantOf[j]
  /\ ScanLimit \in Nat \ {0}
  /\ Faults \subseteq FaultKinds

VARIABLES
  row,       \* the job_items table
  analyses,  \* analyses by idempotency key "batch:"+id: which lease computed it, 0 if none
  work,      \* the goroutines
  scan,      \* the tenants each of them has still to visit on its round
  ids,       \* newID(): lease tokens handed out so far, each one fresh
  stopping,  \* the signal context of main.go is cancelled
  wrong      \* history, read by no action: the attempts of an item that went wrong

vars == <<row, analyses, work, scan, ids, stopping, wrong>>

Statuses == {"absent", "queued", "running", "complete", "failed"}

\* lease is lease_token, left the ticks until lease_until (0 once it has
\* passed or is NULL), analysis is analysis_id (0 for NULL).
Row == [status : Statuses, attempts : 0..MaxAttempts, lease : Nat,
        left : 0..LeaseTicks, analysis : Nat]

\* A goroutine inside workOne: the id, lease and attempts it scanned at the
\* claim, the analysis it saved (0 after an error), the ticks since its
\* current timeout started, and whether it was held up longer than that.
Goroutine == [pc : {"idle", "evaluating", "finishing"}, item : Items \cup {NoItem},
              token : Nat, tries : 0..MaxAttempts, result : Nat,
              age : Nat, stalled : BOOLEAN]

Idle == [pc |-> "idle", item |-> NoItem, token |-> 0, tries |-> 0,
         result |-> 0, age |-> 0, stalled |-> FALSE]

Active(w) == work[w].pc # "idle"

\* Nothing went wrong with w's attempt so far: no error, and no time lost.
RunsWell(w) ==
  /\ Active(w) /\ ~work[w].stalled
  /\ work[w].pc = "finishing" => work[w].result # 0

UnderWay(i) == \E w \in Workers : RunsWell(w) /\ work[w].item = i

\* The items whose attempt goes wrong when the attempts of the goroutines W do;
\* an attempt is counted once, with the first thing that goes wrong in it.
CountWrong(W) ==
  wrong' = [i \in Items |->
              IF \E w \in W : RunsWell(w) /\ work[w].item = i
              THEN wrong[i] + 1 ELSE wrong[i]]

Init ==
  /\ row = [i \in Items |-> [status |-> "absent", attempts |-> 0, lease |-> 0,
                             left |-> 0, analysis |-> 0]]
  /\ analyses = [i \in Items |-> 0]
  /\ work = [w \in Workers |-> Idle]
  /\ scan = [w \in Workers |-> {}]
  /\ ids = 0
  /\ stopping = FALSE
  /\ wrong = [i \in Items |-> 0]

-----------------------------------------------------------------------------
(* enqueue: all the items of a new job, or none.  A repeated request finds  *)
(* the job and changes nothing.                                             *)

Enqueue ==
  \E job \in Jobs :
    /\ \A i \in job : row[i].status = "absent"
    /\ row' = [i \in Items |->
                 IF i \in job THEN [row[i] EXCEPT !.status = "queued"] ELSE row[i]]
    /\ UNCHANGED <<analyses, work, scan, ids, stopping, wrong>>

-----------------------------------------------------------------------------
(* The rounds of Work, and the claim transaction, which sees the rows of    *)
(* the tenant visited and no others.                                        *)

\* BUG: only tenants with queued items are listed.
BusyIfQueued == {TenantOf[i] : i \in {j \in Items : row[j].status = "queued"}}

Busy == {TenantOf[i] : i \in {j \in Items : row[j].status \in {"queued", "running"}}}

\* What work_tenants() may return: at most ScanLimit of them, in no order.
Lists ==
  IF Cardinality(Busy) <= ScanLimit THEN {Busy}
  ELSE {S \in SUBSET Busy : Cardinality(S) = ScanLimit}

\* Worker w goes on with its round, or begins one, and comes to tenant t.
Visit(w, t) ==
  /\ work[w].pc = "idle" /\ ~stopping
  /\ \E S \in IF scan[w] = {} THEN Lists ELSE {scan[w]} :
       t \in S /\ scan' = [scan EXCEPT ![w] = S \ {t}]

LeaseExpired(i) == row[i].status = "running" /\ row[i].left = 0

\* BUG: lease_until < now() is missing in the sweep.
ExhaustedIgnoringLease ==
  {i \in Items : row[i].status = "running" /\ row[i].attempts >= MaxAttempts}

Exhausted == {i \in Items : LeaseExpired(i) /\ row[i].attempts >= MaxAttempts}

\* BUG: FOR UPDATE SKIP LOCKED taken for the lease, so that any running item qualifies.
ClaimableIgnoringLease ==
  {i \in Items : row[i].status \in {"queued", "running"} /\ row[i].attempts < MaxAttempts}

\* BUG: the limit on attempts is left to the sweep.
ClaimableNoLimit == {i \in Items : row[i].status = "queued" \/ LeaseExpired(i)}

\* The oldest updated_at goes first, but ties (the items of one job) and
\* SKIP LOCKED make any of these the first one.
Claimable ==
  {i \in Items : /\ row[i].status = "queued" \/ LeaseExpired(i)
                 /\ row[i].attempts < MaxAttempts}

\* The UPDATE of line 141.  It leaves lease_token as it was.
Swept(t) ==
  [i \in Items |-> IF i \in Exhausted /\ TenantOf[i] = t
                   THEN [row[i] EXCEPT !.status = "failed"] ELSE row[i]]

\* The table after the claim transaction took item i.
Claimed(i) ==
  [Swept(TenantOf[i]) EXCEPT
     ![i] = [status |-> "running", attempts |-> @.attempts + 1,
             lease |-> ids + 1, left |-> LeaseTicks, analysis |-> @.analysis]]

Started(i) ==
  [pc |-> "evaluating", item |-> i, token |-> ids + 1, tries |-> row[i].attempts + 1,
   result |-> 0, age |-> 0, stalled |-> FALSE]

Claim(w) ==
  /\ \E i \in Claimable :
       /\ Visit(w, TenantOf[i])
       /\ row' = Claimed(i) /\ work' = [work EXCEPT ![w] = Started(i)]
  /\ ids' = ids + 1
  /\ UNCHANGED <<analyses, stopping, wrong>>

\* The commit of the claim reaches the server but its answer is lost: the
\* item is leased to nobody, and the attempt is used up.
ClaimUnacknowledged(w) ==
  /\ "commit" \in Faults
  /\ \E i \in Claimable :
       /\ Visit(w, TenantOf[i])
       /\ row' = Claimed(i) /\ wrong' = [wrong EXCEPT ![i] = @ + 1]
  /\ ids' = ids + 1
  /\ UNCHANGED <<analyses, work, stopping>>

\* No candidate row, or another worker's transaction has it locked: the
\* transaction commits what the sweep did.
SweepOnly(w) ==
  /\ \E t \in Tenants :
       /\ Visit(w, t)
       /\ \/ \E i \in Exhausted : TenantOf[i] = t
          \/ \A i \in Claimable : TenantOf[i] # t
       /\ row' = Swept(t)
  /\ UNCHANGED <<analyses, work, ids, stopping, wrong>>

\* The transaction fails, or only SKIP LOCKED passed over what it would take:
\* the tenant's turn comes again on the next round.
VisitFails(w) ==
  /\ "database" \in Faults
  /\ \E t \in Tenants : Visit(w, t)
  /\ UNCHANGED <<row, analyses, work, ids, stopping, wrong>>

-----------------------------------------------------------------------------
(* Evaluate and Save, under the 40 s timeout.                               *)

InTime(w) == work[w].age <= WorkTicks /\ ~stopping

\* Unmarshal, Evaluate or Save returned an error; the timeout and a
\* cancelled context make sure that one of them does in the end.
EvaluateFails(w) ==
  /\ work[w].pc = "evaluating"
  /\ work' = [work EXCEPT ![w].pc = "finishing", ![w].age = 0] /\ CountWrong({w})
  /\ UNCHANGED <<row, analyses, scan, ids, stopping>>

\* BUG: a retry writes over the analysis already stored.
SavedRecordUpsert(w) == work[w].token

\* What is stored under the item's key once Save has committed: the analysis
\* that was there, or else the new one.
SavedRecord(w) ==
  LET old == analyses[work[w].item] IN IF old # 0 THEN old ELSE work[w].token

Save(w) ==
  /\ work[w].pc = "evaluating" /\ InTime(w)
  /\ analyses' = [analyses EXCEPT ![work[w].item] = SavedRecord(w)]
  /\ work' = [work EXCEPT ![w].pc = "finishing", ![w].age = 0,
                          ![w].result = SavedRecord(w)]
  /\ UNCHANGED <<row, scan, ids, stopping, wrong>>

\* Save's commit reaches the server, Save returns an error all the same.
SaveUnacknowledged(w) ==
  /\ "commit" \in Faults
  /\ work[w].pc = "evaluating" /\ InTime(w)
  /\ analyses[work[w].item] = 0
  /\ analyses' = [analyses EXCEPT ![work[w].item] = work[w].token]
  /\ work' = [work EXCEPT ![w].pc = "finishing", ![w].age = 0] /\ CountWrong({w})
  /\ UNCHANGED <<row, scan, ids, stopping>>

-----------------------------------------------------------------------------
(* The finish transaction.  Its timeout derives from the worker's context,  *)
(* so after the signal it fails at once.                                    *)

\* BUG: the outcome is written by item id alone.
HoldsById(g) == TRUE

\* AND lease_token = ...: the item was not claimed again since.
HoldsLease(g) == row[g.item].lease = g.token

\* BUG: the error of Save is dropped and the item reported complete without an analysis.
ReportAlwaysComplete(r, g) ==
  [status |-> "complete", analysis |-> g.result,
   attempts |-> r.attempts, lease |-> r.lease, left |-> 0]

\* Row r after the finish transaction of goroutine g; the lease token stays.
Report(r, g) ==
  [status |-> IF g.result # 0 THEN "complete"
              ELSE IF g.tries >= MaxAttempts THEN "failed" ELSE "queued",
   analysis |-> IF g.result # 0 THEN g.result ELSE r.analysis,
   attempts |-> r.attempts, lease |-> r.lease, left |-> 0]

Finish(w) ==
  /\ work[w].pc = "finishing" /\ ~stopping
  /\ LET g == work[w]
     IN  row' = IF HoldsLease(g) THEN [row EXCEPT ![g.item] = Report(@, g)] ELSE row
  /\ work' = [work EXCEPT ![w] = Idle]
  /\ UNCHANGED <<analyses, scan, ids, stopping, wrong>>

FinishAborted(w) ==
  /\ work[w].pc = "finishing"
  /\ stopping \/ "database" \in Faults \/ work[w].stalled
  /\ work' = [work EXCEPT ![w] = Idle] /\ CountWrong({w})
  /\ UNCHANGED <<row, analyses, scan, ids, stopping>>

-----------------------------------------------------------------------------
(* Time and the process.                                                    *)

Budget(g) == IF g.pc = "evaluating" THEN WorkTicks ELSE FinishTicks

\* The context timers fire: time does not pass a goroutine's timeout unless
\* the goroutine is held up.
Tick ==
  /\ \A w \in Workers :
       Active(w) /\ ~work[w].stalled => work[w].age < Budget(work[w])
  /\ row' = [i \in Items |-> [row[i] EXCEPT !.left = IF @ = 0 THEN 0 ELSE @ - 1]]
  /\ work' = [w \in Workers |->
                IF Active(w) /\ work[w].age <= Budget(work[w])
                THEN [work[w] EXCEPT !.age = @ + 1] ELSE work[w]]
  /\ UNCHANGED <<analyses, scan, ids, stopping, wrong>>

\* The process or its machine is paused for an unknown time.
Stall(w) ==
  /\ "stall" \in Faults
  /\ Active(w) /\ ~work[w].stalled
  /\ work' = [work EXCEPT ![w].stalled = TRUE] /\ CountWrong({w})
  /\ UNCHANGED <<row, analyses, scan, ids, stopping>>

\* SIGTERM.  With every worker idle it changes nothing here.
Shutdown ==
  /\ "shutdown" \in Faults
  /\ ~stopping /\ \E w \in Workers : Active(w)
  /\ stopping' = TRUE
  /\ UNCHANGED <<row, analyses, work, scan, ids, wrong>>

\* The process ends, after the signal without waiting for its workers or by
\* a crash, and is started again (restart: unless-stopped).
Restart ==
  /\ \/ stopping
     \/ "crash" \in Faults /\ \E w \in Workers : Active(w)
  /\ work' = [w \in Workers |-> Idle] /\ CountWrong(Workers)
  /\ scan' = [w \in Workers |-> {}]
  /\ stopping' = FALSE
  /\ UNCHANGED <<row, analyses, ids>>

-----------------------------------------------------------------------------
Poll(w) == Claim(w) \/ SweepOnly(w)

Process(w) ==
  EvaluateFails(w) \/ Save(w) \/ Finish(w) \/ FinishAborted(w)

Next ==
  \/ Enqueue
  \/ \E w \in Workers :
       \/ Claim(w) \/ ClaimUnacknowledged(w) \/ SweepOnly(w) \/ VisitFails(w)
       \/ EvaluateFails(w) \/ Save(w) \/ SaveUnacknowledged(w)
       \/ Finish(w) \/ FinishAborted(w) \/ Stall(w)
  \/ Tick \/ Shutdown \/ Restart

Spec == Init /\ [][Next]_vars

\* The ticker polls every second, the timeouts end every wait, a pause ends,
\* time passes, and a process that was told to stop is replaced.
Fairness ==
  /\ \A w \in Workers : WF_vars(Poll(w)) /\ WF_vars(Process(w))
  /\ WF_vars(Tick)
  /\ WF_vars(Restart /\ stopping)

FairSpec == Spec /\ Fairness

-----------------------------------------------------------------------------
(* Properties.                                                              *)

TypeOK ==
  /\ row \in [Items -> Row]
  /\ analyses \in [Items -> Nat]
  /\ work \in [Workers -> Goroutine]
  /\ scan \in [Workers -> SUBSET Tenants]
  /\ ids \in Nat
  /\ stopping \in BOOLEAN
  /\ wrong \in [Items -> Nat]

\* An item shows an analysis exactly when it is complete, and then it is the
\* one stored under the item's key, whichever attempt computed it
\* (analysis_id in jobs.go:182 against Save in store.go:119-125).
CompleteReportsStored ==
  \A i \in Items :
    /\ row[i].status = "complete" => row[i].analysis = analyses[i]
    /\ row[i].status = "complete" <=> row[i].analysis # 0

\* A goroutine that was never held up still has its lease, unexpired, at every
\* moment between the claim and the end of the finish transaction: the two
\* minutes of the lease outlast its 40 s and 5 s (jobs.go:134,146,168).
LeaseOutlastsWork ==
  \A w \in Workers :
    Active(w) /\ ~work[w].stalled =>
      LET r == row[work[w].item]
      IN  r.status = "running" /\ r.lease = work[w].token /\ r.left > 0

\* No two goroutines, neither of them held up, work on one item: the claim
\* (jobs.go:146) never hands out an item whose lease is in use.
ExclusiveWork ==
  \A v, w \in Workers :
    /\ v # w /\ Active(v) /\ Active(w)
    /\ ~work[v].stalled /\ ~work[w].stalled
    => work[v].item # work[w].item

\* "late workers cannot finalize a replacement worker's lease"
\* (ARCHITECTURE.md:39): an item stops running only by the sweep of its last
\* expired lease or by the goroutine that holds its current lease.
OnlyHolderEndsRun ==
  [][\A i \in Items :
       row[i].status = "running" /\ row'[i].status # "running" =>
         \/ i \in Exhausted /\ row'[i].status = "failed"
         \/ \E w \in Workers :
              /\ work[w].pc = "finishing" /\ ~Active(w)'
              /\ work[w].item = i /\ work[w].token = row[i].lease]_vars

\* A complete item is never changed again, whatever late workers report.
CompleteIsFinal ==
  [][\A i \in Items : row[i].status = "complete" => row'[i] = row[i]]_vars

\* "After three failed attempts an item is marked failed" (OPERATIONS.md:46-47).
\* The attempts a row counts are exactly those that went wrong, and the one
\* under way.  An attempt goes wrong if its run returns an error, is held up,
\* or is cut off before it reports (a crash, the signal, a failed finish), or if
\* the claim's answer is lost, so that nobody evaluates at all; none is counted
\* twice, and nothing else (a sweep, a late worker, a failed visit) uses one up.
AttemptsAreAccountedFor ==
  \A i \in Items :
    LET r == row[i] IN
      /\ UnderWay(i) => r.status = "running" /\ r.attempts = wrong[i] + 1
      /\ ~UnderWay(i) /\ r.status # "complete" => r.attempts = wrong[i]
      /\ r.status = "complete" => r.attempts \in {wrong[i], wrong[i] + 1}
      /\ r.status = "failed" => wrong[i] = MaxAttempts

\* Every item that was accepted is settled in the end, and stays so.
EveryItemSettles ==
  \A i \in Items :
    row[i].status # "absent" ~> [](row[i].status \in {"complete", "failed"})

\* "A separate timeout lets failed/cancelled requests relinquish their leases
\* safely" (jobs.go:167): a goroutine that leaves the finish transaction does
\* not leave its item running under its own lease.
WorkerRelinquishesLease ==
  [][\A w \in Workers :
       work[w].pc = "finishing" /\ ~Active(w)' /\ stopping' = stopping =>
         LET r == row'[work[w].item]
         IN  ~(r.status = "running" /\ r.lease = work[w].token)]_vars

-----------------------------------------------------------------------------
(* The inductive invariant of BatchQueueProofs: why the properties hold.     *)

\* Every lease token is fresh: no two goroutines share one.
TokensAreFresh ==
  /\ \A i \in Items : row[i].lease <= ids
  /\ \A w \in Workers : Active(w) => work[w].item \in Items /\ work[w].token \in 1..ids
  /\ \A v, w \in Workers :
       v # w /\ Active(v) /\ Active(w) => work[v].token # work[w].token

\* While a row carries a goroutine's token nobody else has settled it, and
\* the attempts the goroutine scanned are still the row's.
HolderIsCurrent ==
  \A w \in Workers :
    Active(w) /\ row[work[w].item].lease = work[w].token =>
      /\ row[work[w].item].status \in {"running", "failed"}
      /\ row[work[w].item].attempts = work[w].tries

\* What a goroutine is about to report is what is stored.
ResultIsStored ==
  \A w \in Workers :
    work[w].result # 0 => Active(w) /\ work[w].result = analyses[work[w].item]

\* A goroutine that was not held up has used no more of its lease than its
\* timeouts allow.
LeaseIsAhead ==
  \A w \in Workers :
    Active(w) /\ ~work[w].stalled =>
      LET g == work[w]  r == row[g.item] IN
        /\ r.status = "running" /\ r.lease = g.token /\ g.age <= Budget(g)
        /\ IF g.pc = "evaluating" THEN r.left + g.age >= LeaseTicks
                                  ELSE r.left + g.age + WorkTicks >= LeaseTicks

\* A failed row has used up its attempts.
FailedIsExhausted ==
  \A i \in Items : row[i].status = "failed" => row[i].attempts = MaxAttempts

IndInv ==
  /\ TypeOK
  /\ TokensAreFresh
  /\ HolderIsCurrent
  /\ ResultIsStored
  /\ CompleteReportsStored
  /\ FailedIsExhausted
  /\ LeaseIsAhead

\* Inductive with it: only a running item has an unexpired lease, and only an
\* accepted item is worked on.
OnlyRunningIsLeased ==
  /\ \A i \in Items : row[i].status # "running" => row[i].left = 0
  /\ \A w \in Workers : Active(w) => row[work[w].item].status # "absent"

-----------------------------------------------------------------------------
\* What a landlord sees of an item (ItemPromise).
PublicState ==
  [i \in Items |->
     IF row[i].status \in {"queued", "running"} THEN "pending" ELSE row[i].status]

Promise == INSTANCE ItemPromise
  WITH state <- PublicState, stored <- analyses,
       reported <- [i \in Items |-> row[i].analysis]

\* The queue implements ItemPromise.
ImplementsPromise == Promise!Spec
=============================================================================
