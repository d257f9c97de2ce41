-------------------------- MODULE BatchQueueProofs --------------------------
(* Proofs about BatchQueue for every number of workers, items, jobs and      *)
(* attempts and every set of faults.                                         *)
EXTENDS BatchQueue, TLAPS

\* The disjuncts of Next, for the proofs that go through them one by one.
LEMMA NextCases ==
  ASSUME Next
  PROVE  \/ Enqueue \/ Tick \/ Shutdown \/ Restart
         \/ \E w \in Workers :
              \/ Claim(w) \/ ClaimUnacknowledged(w) \/ SweepOnly(w) \/ VisitFails(w)
              \/ EvaluateFails(w) \/ Save(w) \/ SaveUnacknowledged(w)
              \/ Finish(w) \/ FinishAborted(w) \/ Stall(w)
BY DEF Next

LEMMA IdleType == Idle \in Goroutine
BY QueueAssumption DEF Idle, Goroutine

\* The sweep and the claim keep rows well typed.
LEMMA SweptType ==
  ASSUME TypeOK, NEW t
  PROVE  Swept(t) \in [Items -> Row]
BY DEF TypeOK, Swept, Row, Statuses

\* A visit is made by an idle worker while no signal came, and shortens lists
\* of tenants.
LEMMA VisitType ==
  ASSUME TypeOK, NEW w \in Workers, NEW t, Visit(w, t)
  PROVE  /\ work[w].pc = "idle" /\ ~stopping
         /\ scan' \in [Workers -> SUBSET Tenants]
<1>1. Busy \subseteq Tenants
  BY QueueAssumption DEF Busy
<1>2. \A S \in Lists : S \subseteq Tenants
  BY <1>1 DEF Lists
<1> QED BY <1>2 DEF Visit, TypeOK

LEMMA ClaimedType ==
  ASSUME TypeOK, NEW i \in Claimable
  PROVE  /\ Claimed(i) \in [Items -> Row]
         /\ i \in Items /\ row[i].attempts + 1 \in 0..MaxAttempts
<1>1. i \in Items /\ row[i].attempts + 1 \in 0..MaxAttempts
  BY QueueAssumption DEF TypeOK, Claimable, Row
<1> DEFINE t == TenantOf[i]
<1>2. Swept(t) \in [Items -> Row] /\ Swept(t)[i].attempts + 1 \in 0..MaxAttempts
  <2>1. Swept(t)[i].attempts = row[i].attempts
    BY <1>1 DEF Swept, TypeOK, Row
  <2> QED BY <1>1, <2>1, SweptType
<1>3. ids + 1 \in Nat /\ LeaseTicks \in 0..LeaseTicks
  BY TimingAssumption DEF TypeOK
<1> QED BY <1>1, <1>2, <1>3 DEF Claimed, Row, Statuses

\* Attempts are only ever added to the count.
LEMMA CountType ==
  ASSUME TypeOK, NEW W, CountWrong(W)
  PROVE  wrong' \in [Items -> Nat]
BY DEF TypeOK, CountWrong

\* Types are preserved by every step.
LEMMA TypeStep ==
  ASSUME TypeOK, [Next]_vars
  PROVE  TypeOK'
<1> USE DEF TypeOK
<1>1. CASE UNCHANGED vars
  BY <1>1 DEF vars
<1>2. CASE Enqueue
  BY <1>2 DEF Enqueue, Row, Statuses
<1>3. ASSUME NEW w \in Workers, Claim(w) PROVE TypeOK'
  <2> PICK i \in Claimable :
        /\ Visit(w, TenantOf[i])
        /\ row' = Claimed(i)
        /\ work' = [work EXCEPT ![w] = Started(i)]
    BY <1>3 DEF Claim
  <2>1. row' \in [Items -> Row] BY ClaimedType
  <2>2. Started(i) \in Goroutine
    BY ClaimedType DEF Started, Goroutine
  <2>3. work' \in [Workers -> Goroutine] BY <2>2
  <2> QED BY <1>3, <2>1, <2>3, VisitType DEF Claim
<1>4. ASSUME NEW w \in Workers, ClaimUnacknowledged(w) PROVE TypeOK'
  <2> PICK i \in Claimable :
        /\ Visit(w, TenantOf[i])
        /\ row' = Claimed(i) /\ wrong' = [wrong EXCEPT ![i] = @ + 1]
    BY <1>4 DEF ClaimUnacknowledged
  <2> QED BY <1>4, ClaimedType, VisitType DEF ClaimUnacknowledged
<1>5. ASSUME NEW w \in Workers, SweepOnly(w) PROVE TypeOK'
  <2> PICK t \in Tenants : Visit(w, t) /\ row' = Swept(t)
    BY <1>5 DEF SweepOnly
  <2> QED BY <1>5, SweptType, VisitType DEF SweepOnly
<1>6. ASSUME NEW w \in Workers, EvaluateFails(w) PROVE TypeOK'
  <2>1. [work[w] EXCEPT !.pc = "finishing", !.age = 0] \in Goroutine
    BY DEF Goroutine
  <2>2. work' = [work EXCEPT ![w] = [work[w] EXCEPT !.pc = "finishing", !.age = 0]]
    BY <1>6 DEF EvaluateFails
  <2>3. work' \in [Workers -> Goroutine]
    BY <2>1, <2>2
  <2> QED BY <1>6, <2>3, CountType DEF EvaluateFails
<1>7. ASSUME NEW w \in Workers, Save(w) \/ SaveUnacknowledged(w) PROVE TypeOK'
  BY <1>7, CountType DEF Save, SaveUnacknowledged, SavedRecord, Goroutine
<1>8. ASSUME NEW w \in Workers, Finish(w) PROVE TypeOK'
  <2>2. \A r \in Row, g \in Goroutine : Report(r, g) \in Row
    BY TimingAssumption DEF Report, Row, Goroutine, Statuses
  <2>3. row' \in [Items -> Row]
    BY <1>8, <2>2 DEF Finish, Goroutine
  <2> QED BY <1>8, <2>3, IdleType DEF Finish
<1>9. ASSUME NEW w \in Workers, FinishAborted(w) PROVE TypeOK'
  BY <1>9, IdleType, CountType DEF FinishAborted
<1>10. ASSUME NEW w \in Workers, Stall(w) PROVE TypeOK'
  BY <1>10, CountType DEF Stall, Goroutine
<1>11. CASE Tick
  <2>1. row' \in [Items -> Row]
    <3>1. \A r \in Row : [r EXCEPT !.left = IF @ = 0 THEN 0 ELSE @ - 1] \in Row
      BY TimingAssumption DEF Row
    <3> QED BY <1>11, <3>1 DEF Tick
  <2>2. work' \in [Workers -> Goroutine]
    <3>1. \A g \in Goroutine : [g EXCEPT !.age = @ + 1] \in Goroutine
      BY DEF Goroutine
    <3> QED BY <1>11, <3>1 DEF Tick
  <2> QED BY <1>11, <2>1, <2>2 DEF Tick
<1>12. CASE Shutdown
  BY <1>12 DEF Shutdown
<1>13. CASE Restart
  BY <1>13, IdleType, CountType DEF Restart
<1>14. ASSUME NEW w \in Workers, VisitFails(w) PROVE TypeOK'
  <2> PICK t \in Tenants : Visit(w, t)
    BY <1>14 DEF VisitFails
  <2> QED BY <1>14, VisitType DEF VisitFails
<1> QED BY <1>1, <1>2, <1>3, <1>4, <1>5, <1>6, <1>7, <1>8, <1>9, <1>10, <1>11, <1>12, <1>13,
           <1>14, NextCases

LEMMA InitType == Init => TypeOK
<1>1. [status |-> "absent", attempts |-> 0, lease |-> 0, left |-> 0, analysis |-> 0] \in Row
  BY QueueAssumption, TimingAssumption DEF Row, Statuses
<1>2. Init => row \in [Items -> Row]
  BY <1>1 DEF Init
<1>3. Init => work \in [Workers -> Goroutine]
  BY IdleType DEF Init
<1>4. Init => analyses \in [Items -> Nat] /\ ids \in Nat /\ scan \in [Workers -> SUBSET Tenants]
  BY DEF Init
<1>5. Init => stopping \in BOOLEAN
  BY DEF Init
<1>6. Init => wrong \in [Items -> Nat]
  BY DEF Init
<1> QED BY <1>2, <1>3, <1>4, <1>5, <1>6 DEF TypeOK

\* Every reachable state has the declared types.
THEOREM TypeCorrect == Spec => []TypeOK
<1>1. TypeOK /\ [Next]_vars => TypeOK'
  BY TypeStep
<1> QED BY <1>1, InitType, PTL DEF Spec

-----------------------------------------------------------------------------
(* The inductive invariant.                                                  *)

\* What the sweep leaves of a row.
LEMMA SweptRow ==
  ASSUME TypeOK, NEW t, NEW j \in Items
  PROVE  LET s == Swept(t)[j]
         IN  /\ s.lease = row[j].lease /\ s.attempts = row[j].attempts
             /\ s.left = row[j].left /\ s.analysis = row[j].analysis
             /\ s.status = row[j].status \/ (j \in Exhausted /\ s.status = "failed")
             /\ j \in Exhausted /\ TenantOf[j] = t => s.status = "failed"
BY DEF Swept, TypeOK, Row

\* What the claim of item i leaves of a row.
LEMMA ClaimedRow ==
  ASSUME TypeOK, NEW i \in Claimable, NEW j \in Items
  PROVE  /\ j # i => Claimed(i)[j] = Swept(TenantOf[i])[j]
         /\ i = j => Claimed(i)[j] = [status |-> "running", attempts |-> row[i].attempts + 1,
                                     lease |-> ids + 1, left |-> LeaseTicks,
                                     analysis |-> row[i].analysis]
BY SweptRow, SweptType DEF Claimed, Claimable

\* A swept row has used up its attempts.
LEMMA ExhaustedAttempts ==
  ASSUME TypeOK, NEW i \in Exhausted
  PROVE  row[i].attempts = MaxAttempts
<1>1. i \in Items /\ row[i].attempts >= MaxAttempts
  BY DEF Exhausted
<1>2. row[i].attempts \in 0..MaxAttempts
  BY <1>1 DEF TypeOK, Row
<1> QED BY <1>1, <1>2, QueueAssumption

\* Only a running row with an expired lease is swept, and only one with
\* attempts left is claimed.
LEMMA SweptOrClaimed ==
  /\ \A i \in Exhausted :
       /\ i \in Items /\ row[i].status = "running" /\ row[i].left = 0
       /\ row[i].attempts >= MaxAttempts
  /\ \A i \in Claimable :
       /\ i \in Items /\ row[i].attempts < MaxAttempts
       /\ row[i].status = "queued" \/ (row[i].status = "running" /\ row[i].left = 0)
<1>1. \A i \in Exhausted :
       /\ i \in Items /\ row[i].status = "running" /\ row[i].left = 0
       /\ row[i].attempts >= MaxAttempts
  BY DEF Exhausted, LeaseExpired
<1>2. \A i \in Claimable :
       /\ i \in Items /\ row[i].attempts < MaxAttempts
       /\ row[i].status = "queued" \/ (row[i].status = "running" /\ row[i].left = 0)
  BY DEF Claimable, LeaseExpired
<1> QED BY <1>1, <1>2

LEMMA ClaimStep ==
  ASSUME IndInv, NEW w \in Workers, Claim(w)
  PROVE  IndInv'
<1> PICK i \in Claimable :
      /\ Visit(w, TenantOf[i])
      /\ row' = Claimed(i) /\ work' = [work EXCEPT ![w] = Started(i)]
  BY DEF Claim
<1> DEFINE t == TenantOf[i]
<1> USE DEF IndInv
<1>1. TypeOK' BY TypeStep DEF Next
<1>2. /\ ids' = ids + 1 /\ analyses' = analyses /\ work[w].pc = "idle" /\ i \in Items
      /\ ids \in Nat
  BY SweptOrClaimed, VisitType DEF Claim, TypeOK
<1>3. /\ work'[w] = Started(i)
      /\ \A v \in Workers : v # w => work'[v] = work[v]
  BY DEF TypeOK
<1>4. /\ \A j \in Items : j # i => row'[j] = Swept(t)[j]
      /\ row'[i].status = "running" /\ row'[i].lease = ids + 1
      /\ row'[i].attempts = row[i].attempts + 1
      /\ row'[i].left = LeaseTicks /\ row'[i].analysis = row[i].analysis
  <2>1. \A j \in Items : j # i => row'[j] = Swept(t)[j]
    BY ClaimedRow
  <2>2. row'[i] = [status |-> "running", attempts |-> row[i].attempts + 1, lease |-> ids + 1,
                   left |-> LeaseTicks, analysis |-> row[i].analysis]
    BY ClaimedRow, <1>2
  <2> QED BY <2>1, <2>2
<1>5. \A v \in Workers : v # w /\ Active(v)' => Active(v) /\ work[v].item \in Items
  BY <1>3 DEF Active, TokensAreFresh
<1>6. TokensAreFresh'
  <2>1. \A j \in Items : row'[j].lease <= ids'
    <3> SUFFICES ASSUME NEW j \in Items PROVE row'[j].lease <= ids'
      OBVIOUS
    <3>1. row[j].lease \in Nat /\ row[j].lease <= ids
      BY DEF TokensAreFresh, TypeOK, Row
    <3>2. row'[j].lease = ids + 1 \/ row'[j].lease = row[j].lease
      BY <1>4, SweptRow
    <3> QED BY <1>2, <3>1, <3>2
  <2>2. \A v \in Workers : Active(v)' =>
          /\ work'[v].item \in Items
          /\ IF v = w THEN work'[v].token = ids + 1
             ELSE work'[v].token = work[v].token /\ work[v].token \in 1..ids
    BY <1>2, <1>3, <1>5 DEF TokensAreFresh, Active, Started
  <2>3. \A u, v \in Workers : u # v /\ Active(u)' /\ Active(v)' => work'[u].token # work'[v].token
    BY <1>2, <1>3, <1>5, <2>2 DEF TokensAreFresh
  <2>4. \A v \in Workers : Active(v)' => work'[v].token \in 1..ids'
    BY <1>2, <2>2
  <2> QED BY <2>1, <2>2, <2>3, <2>4 DEF TokensAreFresh, Active
<1>7. HolderIsCurrent'
  BY <1>2, <1>3, <1>4, <1>5, SweptRow DEF HolderIsCurrent, TokensAreFresh, Active, Started,
     TypeOK, Row, Goroutine
<1>8. ResultIsStored'
  BY <1>2, <1>3 DEF ResultIsStored, Active, Started
<1>9. CompleteReportsStored'
  BY <1>2, <1>4, SweptRow, SweptOrClaimed DEF CompleteReportsStored
<1>10. FailedIsExhausted'
  <2> SUFFICES ASSUME NEW j \in Items, row'[j].status = "failed"
               PROVE  row'[j].attempts = MaxAttempts
    BY DEF FailedIsExhausted
  <2>1. j # i /\ row'[j] = Swept(t)[j] /\ Swept(t)[j].attempts = row[j].attempts
    BY <1>4, SweptRow
  <2>2. CASE j \in Exhausted
    BY <2>1, <2>2, ExhaustedAttempts
  <2>3. CASE j \notin Exhausted
    BY <2>1, <2>3, SweptRow DEF FailedIsExhausted
  <2> QED BY <2>2, <2>3
<1>11. LeaseIsAhead'
  BY <1>2, <1>3, <1>4, <1>5, SweptRow, SweptOrClaimed, TimingAssumption
     DEF LeaseIsAhead, Active, Started, Budget, TypeOK, Row, Goroutine
<1> QED BY <1>1, <1>6, <1>7, <1>8, <1>9, <1>10, <1>11

LEMMA ClaimUnacknowledgedStep ==
  ASSUME IndInv, NEW w \in Workers, ClaimUnacknowledged(w)
  PROVE  IndInv'
<1> PICK i \in Claimable : Visit(w, TenantOf[i]) /\ row' = Claimed(i)
  BY DEF ClaimUnacknowledged
<1> DEFINE t == TenantOf[i]
<1> USE DEF IndInv
<1>1. TypeOK' BY TypeStep DEF Next
<1>2. /\ ids' = ids + 1 /\ analyses' = analyses /\ work' = work /\ i \in Items
      /\ ids \in Nat
  BY SweptOrClaimed DEF ClaimUnacknowledged, TypeOK
<1>3. /\ \A j \in Items : j # i => row'[j] = Swept(t)[j]
      /\ row'[i].status = "running" /\ row'[i].lease = ids + 1
      /\ row'[i].analysis = row[i].analysis
  <2>1. \A j \in Items : j # i => row'[j] = Swept(t)[j]
    BY ClaimedRow
  <2>2. row'[i] = [status |-> "running", attempts |-> row[i].attempts + 1, lease |-> ids + 1,
                   left |-> LeaseTicks, analysis |-> row[i].analysis]
    BY ClaimedRow, <1>2
  <2> QED BY <2>1, <2>2
<1>4. TokensAreFresh'
  <2>1. \A j \in Items : row'[j].lease <= ids'
    <3> SUFFICES ASSUME NEW j \in Items PROVE row'[j].lease <= ids'
      OBVIOUS
    <3>1. row[j].lease \in Nat /\ row[j].lease <= ids
      BY DEF TokensAreFresh, TypeOK, Row
    <3>2. row'[j].lease = ids + 1 \/ row'[j].lease = row[j].lease
      BY <1>3, SweptRow
    <3> QED BY <1>2, <3>1, <3>2
  <2>2. \A v \in Workers : Active(v) => work[v].token \in 1..ids'
    BY <1>2 DEF TokensAreFresh
  <2> QED BY <1>2, <2>1, <2>2 DEF TokensAreFresh, Active
<1>5. HolderIsCurrent'
  BY <1>2, <1>3, SweptRow DEF HolderIsCurrent, TokensAreFresh, Active, TypeOK, Row, Goroutine
<1>6. ResultIsStored'
  BY <1>2 DEF ResultIsStored, Active
<1>7. CompleteReportsStored'
  BY <1>2, <1>3, SweptRow, SweptOrClaimed DEF CompleteReportsStored
<1>8. FailedIsExhausted'
  BY <1>2, <1>3, SweptRow, ExhaustedAttempts DEF FailedIsExhausted
<1>9. LeaseIsAhead'
  <2>1. \A v \in Workers : Active(v) /\ ~work[v].stalled =>
          /\ work[v].item \in Items /\ row[work[v].item].left > 0
          /\ row[work[v].item].status = "running"
    BY TimingAssumption DEF LeaseIsAhead, TokensAreFresh, Active, Budget, TypeOK, Row, Goroutine
  <2>2. \A v \in Workers : Active(v) /\ ~work[v].stalled =>
          work[v].item \notin Exhausted /\ work[v].item # i
    BY <2>1, SweptOrClaimed
  <2> QED BY <1>2, <1>3, <2>1, <2>2, SweptRow DEF LeaseIsAhead, Active, Budget
<1> QED BY <1>1, <1>4, <1>5, <1>6, <1>7, <1>8, <1>9

LEMMA SweepOnlyStep ==
  ASSUME IndInv, NEW w \in Workers, SweepOnly(w)
  PROVE  IndInv'
<1> PICK t \in Tenants : Visit(w, t) /\ row' = Swept(t)
  BY DEF SweepOnly
<1> USE DEF IndInv
<1>1. TypeOK' BY TypeStep DEF Next
<1>2. row' = Swept(t) /\ ids' = ids /\ analyses' = analyses /\ work' = work
  BY DEF SweepOnly
<1>3. TokensAreFresh'
  BY <1>2, SweptRow DEF TokensAreFresh, Active
<1>4. HolderIsCurrent'
  BY <1>2, SweptRow DEF HolderIsCurrent, TokensAreFresh, Active
<1>5. ResultIsStored'
  BY <1>2 DEF ResultIsStored, Active
<1>6. CompleteReportsStored'
  BY <1>2, SweptRow, SweptOrClaimed DEF CompleteReportsStored
<1>7. FailedIsExhausted'
  BY <1>2, SweptRow, ExhaustedAttempts DEF FailedIsExhausted
<1>8. LeaseIsAhead'
  <2>1. \A v \in Workers : Active(v) /\ ~work[v].stalled =>
           work[v].item \in Items /\ row[work[v].item].left > 0
    BY TimingAssumption DEF LeaseIsAhead, TokensAreFresh, Active, Budget, TypeOK, Row, Goroutine
  <2>2. \A v \in Workers : Active(v) /\ ~work[v].stalled => work[v].item \notin Exhausted
    BY <2>1, SweptOrClaimed
  <2> QED BY <1>2, <2>1, <2>2, SweptRow DEF LeaseIsAhead, Active, Budget
<1> QED BY <1>1, <1>3, <1>4, <1>5, <1>6, <1>7, <1>8

LEMMA EnqueueStep ==
  ASSUME IndInv, Enqueue
  PROVE  IndInv'
<1> PICK job \in Jobs :
      /\ \A i \in job : row[i].status = "absent"
      /\ row' = [i \in Items |->
                   IF i \in job THEN [row[i] EXCEPT !.status = "queued"] ELSE row[i]]
  BY DEF Enqueue
<1> USE DEF IndInv
<1>1. TypeOK' BY TypeStep DEF Next
<1>2. ids' = ids /\ analyses' = analyses /\ work' = work
  BY DEF Enqueue
<1>3. \A i \in Items :
        /\ row'[i].lease = row[i].lease /\ row'[i].attempts = row[i].attempts
        /\ row'[i].left = row[i].left /\ row'[i].analysis = row[i].analysis
        /\ row'[i].status # row[i].status => row[i].status = "absent" /\ row'[i].status = "queued"
  BY DEF TypeOK, Row
<1>4. TokensAreFresh'
  BY <1>2, <1>3 DEF TokensAreFresh, Active
<1>5. HolderIsCurrent'
  BY <1>2, <1>3 DEF HolderIsCurrent, TokensAreFresh, Active
<1>6. ResultIsStored'
  BY <1>2 DEF ResultIsStored, Active
<1>7. CompleteReportsStored'
  BY <1>2, <1>3 DEF CompleteReportsStored
<1>8. FailedIsExhausted'
  BY <1>2, <1>3 DEF FailedIsExhausted
<1>9. LeaseIsAhead'
  BY <1>2, <1>3 DEF LeaseIsAhead, TokensAreFresh, Active, Budget
<1> QED BY <1>1, <1>4, <1>5, <1>6, <1>7, <1>8, <1>9

Dropped ==
  /\ row' = row /\ analyses' = analyses /\ ids' = ids
  /\ \A v \in Workers :
       \/ work'[v] = work[v]
       \/ work'[v] = Idle
       \/ Active(v) /\ work'[v] = [work[v] EXCEPT !.stalled = TRUE]

\* A step that only drops goroutines, marks them stalled or leaves them alone
\* (FinishAborted, Stall, VisitFails, Shutdown, Restart, stuttering).
LEMMA DroppedStep ==
  ASSUME IndInv, TypeOK', Dropped
  PROVE  IndInv'
<1> USE DEF IndInv
<1>1. \A v \in Workers :
        /\ Active(v)' =>
             /\ Active(v) /\ work'[v].item = work[v].item /\ work'[v].token = work[v].token
             /\ work'[v].tries = work[v].tries /\ work'[v].pc = work[v].pc
             /\ work'[v].age = work[v].age /\ work'[v].result = work[v].result
             /\ ~work'[v].stalled => ~work[v].stalled /\ work'[v] = work[v]
        /\ ~Active(v)' => work'[v].result = 0 \/ (work'[v].result = work[v].result /\ ~Active(v))
  <2> SUFFICES ASSUME NEW v \in Workers
               PROVE  /\ Active(v)' =>
                           /\ Active(v) /\ work'[v].item = work[v].item
                           /\ work'[v].token = work[v].token
                           /\ work'[v].tries = work[v].tries /\ work'[v].pc = work[v].pc
                           /\ work'[v].age = work[v].age /\ work'[v].result = work[v].result
                           /\ ~work'[v].stalled => ~work[v].stalled /\ work'[v] = work[v]
                      /\ ~Active(v)' =>
                            work'[v].result = 0 \/ (work'[v].result = work[v].result /\ ~Active(v))
    OBVIOUS
  <2>1. CASE work'[v] = work[v] BY <2>1 DEF Active
  <2>2. CASE work'[v] = Idle
    <3>1. work'[v].pc = "idle" /\ work'[v].result = 0 BY <2>2 DEF Idle
    <3> QED BY <3>1 DEF Active
  <2>3. CASE Active(v) /\ work'[v] = [work[v] EXCEPT !.stalled = TRUE]
    <3>1. work[v] \in Goroutine BY DEF TypeOK
    <3>2. /\ work'[v].item = work[v].item /\ work'[v].token = work[v].token
          /\ work'[v].tries = work[v].tries /\ work'[v].pc = work[v].pc
          /\ work'[v].age = work[v].age /\ work'[v].result = work[v].result
          /\ work'[v].stalled
      BY <2>3, <3>1 DEF Goroutine
    <3> QED BY <2>3, <3>2 DEF Active
  <2> QED BY <2>1, <2>2, <2>3 DEF Dropped
<1>2. TokensAreFresh'
  BY <1>1 DEF TokensAreFresh, Dropped
<1>3. HolderIsCurrent'
  BY <1>1 DEF HolderIsCurrent, Dropped
<1>4. ResultIsStored'
  BY <1>1 DEF ResultIsStored, Dropped
<1>5. CompleteReportsStored' /\ FailedIsExhausted'
  BY DEF CompleteReportsStored, FailedIsExhausted, Dropped
<1>6. LeaseIsAhead'
  BY <1>1 DEF LeaseIsAhead, Budget, Dropped
<1> QED BY <1>2, <1>3, <1>4, <1>5, <1>6

LEMMA EvaluateFailsStep ==
  ASSUME IndInv, NEW w \in Workers, EvaluateFails(w)
  PROVE  IndInv'
<1> USE DEF IndInv
<1>1. TypeOK' BY TypeStep DEF Next
<1>2. row' = row /\ ids' = ids /\ analyses' = analyses
  BY DEF EvaluateFails
<1>3. /\ work[w].pc = "evaluating" /\ work'[w].pc = "finishing" /\ work'[w].age = 0
      /\ work'[w].item = work[w].item /\ work'[w].token = work[w].token
      /\ work'[w].tries = work[w].tries /\ work'[w].result = work[w].result
      /\ work'[w].stalled = work[w].stalled
      /\ \A v \in Workers : v # w => work'[v] = work[v]
  BY DEF EvaluateFails, TypeOK, Goroutine
<1>4. TokensAreFresh'
  BY <1>2, <1>3 DEF TokensAreFresh, Active
<1>5. HolderIsCurrent'
  BY <1>2, <1>3 DEF HolderIsCurrent, Active
<1>6. ResultIsStored'
  BY <1>2, <1>3 DEF ResultIsStored, Active
<1>7. CompleteReportsStored' /\ FailedIsExhausted'
  BY <1>2 DEF CompleteReportsStored, FailedIsExhausted
<1>8. LeaseIsAhead'
  BY <1>2, <1>3, TimingAssumption
     DEF LeaseIsAhead, TokensAreFresh, Active, Budget, TypeOK, Row, Goroutine
<1> QED BY <1>1, <1>4, <1>5, <1>6, <1>7, <1>8

\* Both outcomes of Save: the analysis of the item is stored once, and a
\* result is only handed on if it is the stored one.
LEMMA SaveStep ==
  ASSUME IndInv, NEW w \in Workers, Save(w) \/ SaveUnacknowledged(w)
  PROVE  IndInv'
<1> DEFINE i == work[w].item
<1> USE DEF IndInv
<1>1. TypeOK' BY TypeStep DEF Next
<1>2. /\ row' = row /\ ids' = ids
      /\ i \in Items /\ work[w].token \in 1..ids /\ ids \in Nat
      /\ analyses' = [analyses EXCEPT ![i] = SavedRecord(w)]
  BY DEF Save, SaveUnacknowledged, SavedRecord, TokensAreFresh, Active, TypeOK
<1>3. /\ \A j \in Items : analyses[j] # 0 => analyses'[j] = analyses[j]
      /\ analyses'[i] # 0
  BY <1>2 DEF SavedRecord, TypeOK
<1>4. /\ work[w].pc = "evaluating" /\ work'[w].pc = "finishing" /\ work'[w].age = 0
      /\ work'[w].item = i /\ work'[w].token = work[w].token
      /\ work'[w].tries = work[w].tries /\ work'[w].stalled = work[w].stalled
      /\ \A v \in Workers : v # w => work'[v] = work[v]
  BY DEF Save, SaveUnacknowledged, TypeOK, Goroutine
<1>5. work'[w].result = analyses'[i] \/ work'[w].result = work[w].result
  BY <1>2 DEF Save, SaveUnacknowledged, TypeOK, Goroutine
<1>6. TokensAreFresh'
  BY <1>2, <1>4 DEF TokensAreFresh, Active
<1>7. HolderIsCurrent'
  BY <1>2, <1>4 DEF HolderIsCurrent, Active
<1>8. ResultIsStored'
  <2> SUFFICES ASSUME NEW v \in Workers, work'[v].result # 0
               PROVE  Active(v)' /\ work'[v].result = analyses'[work'[v].item]
    BY DEF ResultIsStored
  <2>1. CASE v = w
    <3>1. CASE work'[w].result = analyses'[i]
      BY <2>1, <3>1, <1>4 DEF Active
    <3>2. CASE work'[w].result = work[w].result
      BY <2>1, <3>2, <1>2, <1>3, <1>4 DEF Active, ResultIsStored
    <3> QED BY <3>1, <3>2, <1>5
  <2>2. CASE v # w
    BY <2>2, <1>3, <1>4 DEF Active, ResultIsStored, TokensAreFresh
  <2> QED BY <2>1, <2>2
<1>9. CompleteReportsStored'
  BY <1>2, <1>3 DEF CompleteReportsStored
<1>10. FailedIsExhausted'
  BY <1>2 DEF FailedIsExhausted
<1>11. LeaseIsAhead'
  BY <1>2, <1>4, TimingAssumption
     DEF LeaseIsAhead, TokensAreFresh, Active, Budget, TypeOK, Row, Goroutine
<1> QED BY <1>1, <1>6, <1>7, <1>8, <1>9, <1>10, <1>11

LEMMA FinishStep ==
  ASSUME IndInv, NEW w \in Workers, Finish(w)
  PROVE  IndInv'
<1> DEFINE g == work[w]
           i == g.item
<1> USE DEF IndInv
<1>1. TypeOK' BY TypeStep DEF Next
<1>2. /\ g.pc = "finishing" /\ work' = [work EXCEPT ![w] = Idle]
      /\ ids' = ids /\ analyses' = analyses
      /\ row' = IF HoldsLease(g) THEN [row EXCEPT ![i] = Report(@, g)] ELSE row
  BY DEF Finish
<1>3. CASE ~HoldsLease(g)
  <2>1. \A v \in Workers : work'[v] = work[v] \/ work'[v] = Idle
    BY <1>2 DEF TypeOK
  <2>2. Dropped BY <1>2, <1>3, <2>1 DEF Dropped
  <2> QED BY <1>1, <2>2, DroppedStep
<1>4. CASE HoldsLease(g)
  <2>1. /\ i \in Items /\ row[i].lease = g.token
        /\ row[i].status \in {"running", "failed"} /\ row[i].attempts = g.tries
    BY <1>2, <1>4 DEF HoldsLease, HolderIsCurrent, TokensAreFresh, Active
  <2>2. /\ \A j \in Items : j # i => row'[j] = row[j]
        /\ row'[i].lease = row[i].lease /\ row'[i].attempts = row[i].attempts
        /\ g.result # 0 => row'[i].status = "complete" /\ row'[i].analysis = g.result
        /\ g.result = 0 => /\ row'[i].analysis = row[i].analysis
                          /\ row'[i].status = IF g.tries >= MaxAttempts
                                              THEN "failed" ELSE "queued"
    BY <1>2, <1>4, <2>1 DEF Report, TypeOK
  <2>3. /\ ~Active(w)' /\ work'[w].result = 0
        /\ \A v \in Workers : v # w => work'[v] = work[v]
    BY <1>2 DEF TypeOK, Active, Idle
  <2>4. \A v \in Workers : v # w /\ Active(v) /\ work[v].item = i => row[i].lease # work[v].token
    BY <1>2, <2>1 DEF TokensAreFresh, Active
  <2>5. TokensAreFresh'
    BY <1>2, <2>2, <2>3 DEF TokensAreFresh, Active
  <2>6. HolderIsCurrent'
    BY <1>2, <2>2, <2>3, <2>4 DEF HolderIsCurrent, TokensAreFresh, Active
  <2>7. ResultIsStored'
    BY <1>2, <2>3 DEF ResultIsStored, Active
  <2>8. CompleteReportsStored'
    <3>1. row[i].analysis = 0
      BY <2>1 DEF CompleteReportsStored
    <3>2. g.result # 0 => g.result = analyses[i]
      BY DEF ResultIsStored
    <3> QED BY <1>2, <2>1, <2>2, <3>1, <3>2 DEF CompleteReportsStored
  <2>9. FailedIsExhausted'
    <3>1. g.tries >= MaxAttempts => row[i].attempts = MaxAttempts
      <4>1. row[i].attempts \in 0..MaxAttempts
        BY <2>1 DEF TypeOK, Row
      <4> QED BY <2>1, <4>1, QueueAssumption
    <3> QED BY <2>1, <2>2, <3>1 DEF FailedIsExhausted
  <2>10. LeaseIsAhead'
    BY <1>2, <2>2, <2>3, <2>4 DEF LeaseIsAhead, TokensAreFresh, Active, Budget
  <2> QED BY <1>1, <2>5, <2>6, <2>7, <2>8, <2>9, <2>10
<1> QED BY <1>3, <1>4

LEMMA TickStep ==
  ASSUME IndInv, Tick
  PROVE  IndInv'
<1> USE DEF IndInv
<1>1. TypeOK' BY TypeStep DEF Next
<1>2. ids' = ids /\ analyses' = analyses
  BY DEF Tick
<1>3. \A i \in Items :
        /\ row'[i].status = row[i].status /\ row'[i].lease = row[i].lease
        /\ row'[i].attempts = row[i].attempts /\ row'[i].analysis = row[i].analysis
        /\ row'[i].left = IF row[i].left = 0 THEN 0 ELSE row[i].left - 1
  BY DEF Tick, TypeOK, Row
<1>4. \A v \in Workers :
        /\ work'[v].pc = work[v].pc /\ work'[v].item = work[v].item
        /\ work'[v].token = work[v].token /\ work'[v].tries = work[v].tries
        /\ work'[v].result = work[v].result /\ work'[v].stalled = work[v].stalled
  BY DEF Tick, TypeOK, Goroutine
<1>5. \A v \in Workers : Active(v) /\ ~work[v].stalled =>
         work[v].age < Budget(work[v]) /\ work'[v].age = work[v].age + 1
  <2> SUFFICES ASSUME NEW v \in Workers, Active(v), ~work[v].stalled
               PROVE  work[v].age < Budget(work[v]) /\ work'[v].age = work[v].age + 1
    OBVIOUS
  <2>1. work[v].age < Budget(work[v])
    BY DEF Tick
  <2>2. work[v].age \in Nat /\ Budget(work[v]) \in Nat
    BY TimingAssumption DEF TypeOK, Goroutine, Budget
  <2>3. work'[v] = [work[v] EXCEPT !.age = @ + 1]
    BY <2>1, <2>2 DEF Tick
  <2> QED BY <2>1, <2>3 DEF TypeOK, Goroutine
<1>6. TokensAreFresh'
  BY <1>2, <1>3, <1>4 DEF TokensAreFresh, Active
<1>7. HolderIsCurrent'
  BY <1>2, <1>3, <1>4 DEF HolderIsCurrent, TokensAreFresh, Active
<1>8. ResultIsStored'
  BY <1>2, <1>4 DEF ResultIsStored, Active
<1>9. CompleteReportsStored' /\ FailedIsExhausted'
  BY <1>2, <1>3 DEF CompleteReportsStored, FailedIsExhausted
<1>10. LeaseIsAhead'
  BY <1>3, <1>4, <1>5, TimingAssumption
     DEF LeaseIsAhead, TokensAreFresh, Active, Budget, TypeOK, Row, Goroutine
<1> QED BY <1>1, <1>6, <1>7, <1>8, <1>9, <1>10

\* The invariant is inductive.
LEMMA IndInvStep ==
  ASSUME IndInv, [Next]_vars
  PROVE  IndInv'
<1>1. TypeOK /\ TypeOK'
  BY TypeStep DEF IndInv
<1>2. CASE UNCHANGED vars
  <2>1. Dropped BY <1>2 DEF vars, Dropped
  <2> QED BY <1>1, <2>1, DroppedStep
<1>3. CASE Enqueue BY <1>3, EnqueueStep
<1>4. CASE Tick BY <1>4, TickStep
<1>5. CASE Shutdown
  <2>1. Dropped BY <1>5 DEF Shutdown, Dropped
  <2> QED BY <1>1, <2>1, DroppedStep
<1>6. CASE Restart
  <2>1. Dropped BY <1>6 DEF Restart, Dropped
  <2> QED BY <1>1, <2>1, DroppedStep
<1>7. ASSUME NEW w \in Workers,
             Claim(w) \/ ClaimUnacknowledged(w) \/ SweepOnly(w) \/ EvaluateFails(w)
               \/ Save(w) \/ SaveUnacknowledged(w) \/ Finish(w)
      PROVE  IndInv'
  BY <1>7, ClaimStep, ClaimUnacknowledgedStep, SweepOnlyStep, EvaluateFailsStep, SaveStep,
     FinishStep
<1>8. ASSUME NEW w \in Workers, FinishAborted(w) PROVE IndInv'
  <2>1. \A v \in Workers : work'[v] = work[v] \/ work'[v] = Idle
    BY <1>1, <1>8 DEF FinishAborted, TypeOK
  <2>2. Dropped BY <1>8, <2>1 DEF FinishAborted, Dropped
  <2> QED BY <1>1, <2>2, DroppedStep
<1>9. ASSUME NEW w \in Workers, Stall(w) PROVE IndInv'
  <2>1. \A v \in Workers :
           \/ work'[v] = work[v]
           \/ Active(v) /\ work'[v] = [work[v] EXCEPT !.stalled = TRUE]
    BY <1>1, <1>9 DEF Stall, TypeOK
  <2>2. Dropped BY <1>9, <2>1 DEF Stall, Dropped
  <2> QED BY <1>1, <2>2, DroppedStep
<1>10. ASSUME NEW w \in Workers, VisitFails(w) PROVE IndInv'
  <2>1. Dropped BY <1>10 DEF VisitFails, Dropped
  <2> QED BY <1>1, <2>1, DroppedStep
<1> QED BY <1>2, <1>3, <1>4, <1>5, <1>6, <1>7, <1>8, <1>9, <1>10, NextCases

\* The inductive invariant holds in every reachable state.
THEOREM Invariance == Spec => []IndInv
<1>1. Init => IndInv
  <2> SUFFICES ASSUME Init PROVE IndInv OBVIOUS
  <2>1. TypeOK BY InitType
  <2>2. /\ \A i \in Items : row[i] = [status |-> "absent", attempts |-> 0, lease |-> 0,
                                     left |-> 0, analysis |-> 0]
        /\ \A w \in Workers : work[w] = Idle
    BY DEF Init
  <2>3. \A w \in Workers : ~Active(w) /\ work[w].result = 0
    BY <2>2 DEF Active, Idle
  <2>4. ids = 0 BY DEF Init
  <2> QED BY <2>1, <2>2, <2>3, <2>4 DEF IndInv, TokensAreFresh, HolderIsCurrent,
             ResultIsStored, CompleteReportsStored, FailedIsExhausted, LeaseIsAhead
<1>2. IndInv /\ [Next]_vars => IndInv'
  BY IndInvStep
<1> QED BY <1>1, <1>2, PTL DEF Spec

-----------------------------------------------------------------------------
(* The safety properties that follow from the invariant.                     *)

\* A complete item shows the analysis stored under its key.
THEOREM CompleteReportsStoredHolds == Spec => []CompleteReportsStored
<1>1. IndInv => CompleteReportsStored BY DEF IndInv
<1> QED BY <1>1, Invariance, PTL

\* What is left of a lease is at least what its holder may still use.
LEMMA LeaseArithmetic ==
  ASSUME IndInv, NEW w \in Workers, Active(w), ~work[w].stalled
  PROVE  LET r == row[work[w].item]
         IN  r.status = "running" /\ r.lease = work[w].token /\ r.left > 0
BY TimingAssumption
   DEF IndInv, LeaseIsAhead, TokensAreFresh, Active, Budget, TypeOK, Row, Goroutine

\* The lease of a worker that was not held up never expires under it.
THEOREM LeaseOutlastsWorkHolds == Spec => []LeaseOutlastsWork
<1>1. IndInv => LeaseOutlastsWork
  BY LeaseArithmetic DEF LeaseOutlastsWork
<1> QED BY <1>1, Invariance, PTL

\* Two workers that were not held up never evaluate one item.
THEOREM ExclusiveWorkHolds == Spec => []ExclusiveWork
<1>1. IndInv => ExclusiveWork
  BY LeaseArithmetic DEF ExclusiveWork, IndInv, TokensAreFresh
<1> QED BY <1>1, Invariance, PTL

-----------------------------------------------------------------------------
(* The attempts of an item: a step that makes the attempt under way go wrong *)
(* counts it once, and no other step touches the count.                      *)

\* A goroutine has a result only once it is done evaluating.
NoResultYet == \A w \in Workers : work[w].pc = "evaluating" => work[w].result = 0

LEMMA NoResultYetStep ==
  ASSUME TypeOK, NoResultYet, [Next]_vars
  PROVE  NoResultYet'
<1> USE DEF TypeOK, NoResultYet
<1>1. CASE work' = work BY <1>1
<1>2. CASE Tick
  <2>1. \A w \in Workers : work'[w].pc = work[w].pc /\ work'[w].result = work[w].result
    BY <1>2 DEF Tick, Goroutine
  <2> QED BY <2>1
<1>3. CASE Restart BY <1>3 DEF Restart, Idle
<1>4. ASSUME NEW w \in Workers, Claim(w) PROVE NoResultYet'
  BY <1>4 DEF Claim, Started
<1>5. ASSUME NEW w \in Workers,
             EvaluateFails(w) \/ Save(w) \/ SaveUnacknowledged(w) \/ Finish(w) \/ FinishAborted(w)
      PROVE  NoResultYet'
  <2>1. work'[w].pc # "evaluating" /\ \A v \in Workers : v # w => work'[v] = work[v]
    BY <1>5 DEF EvaluateFails, Save, SaveUnacknowledged, Finish, FinishAborted, Idle, Goroutine
  <2> QED BY <2>1
<1>6. ASSUME NEW w \in Workers, Stall(w) PROVE NoResultYet'
  BY <1>6 DEF Stall, Goroutine
<1>7. Enqueue \/ Shutdown \/ UNCHANGED vars => work' = work
  BY DEF Enqueue, Shutdown, vars
<1>8. \A w \in Workers : ClaimUnacknowledged(w) \/ SweepOnly(w) \/ VisitFails(w) => work' = work
  BY DEF ClaimUnacknowledged, SweepOnly, VisitFails
<1> QED BY <1>1, <1>2, <1>3, <1>4, <1>5, <1>6, <1>7, <1>8, NextCases

\* An attempt under way has its item's row, and no goroutine shares it.
LEMMA RunsWellRow ==
  ASSUME IndInv, NEW w \in Workers, RunsWell(w)
  PROVE  /\ work[w].item \in Items
         /\ row[work[w].item].status = "running" /\ row[work[w].item].left > 0
         /\ row[work[w].item].lease = work[w].token
         /\ \A v \in Workers : RunsWell(v) /\ work[v].item = work[w].item => v = w
BY LeaseArithmetic DEF RunsWell, IndInv, TokensAreFresh

\* Steps that leave every attempt under way as it is.
LEMMA KeptAttempts ==
  ASSUME IndInv, AttemptsAreAccountedFor, wrong' = wrong,
         \A w \in Workers :
           /\ RunsWell(w)' <=> RunsWell(w)
           /\ RunsWell(w) => work'[w].item = work[w].item,
         \A i \in Items :
           /\ row'[i].attempts = row[i].attempts
           /\ \/ row'[i].status = row[i].status
              \/ row[i].status = "absent" /\ row'[i].status = "queued"
              \/ i \in Exhausted /\ row'[i].status = "failed"
  PROVE  AttemptsAreAccountedFor'
<1> SUFFICES ASSUME NEW i \in Items
             PROVE  /\ UnderWay(i)' => row'[i].status = "running" /\ row'[i].attempts = wrong'[i] + 1
                    /\ ~UnderWay(i)' /\ row'[i].status # "complete" => row'[i].attempts = wrong'[i]
                    /\ row'[i].status = "complete" => row'[i].attempts \in {wrong'[i], wrong'[i] + 1}
                    /\ row'[i].status = "failed" => wrong'[i] = MaxAttempts
  BY DEF AttemptsAreAccountedFor
<1>1. UnderWay(i)' <=> UnderWay(i)
  BY DEF UnderWay
<1>2. UnderWay(i) => row[i].status = "running" /\ i \notin Exhausted
  BY RunsWellRow, SweptOrClaimed, TimingAssumption DEF UnderWay, IndInv, TypeOK, Row
<1>3. i \in Exhausted => row[i].status = "running" /\ row[i].attempts = MaxAttempts
  BY SweptOrClaimed, ExhaustedAttempts DEF IndInv
<1> QED BY <1>1, <1>2, <1>3 DEF AttemptsAreAccountedFor

\* Steps in which the attempts of the goroutines W go wrong.
LEMMA LostAttempts ==
  ASSUME IndInv, AttemptsAreAccountedFor, NEW W \in SUBSET Workers,
         CountWrong(W), row' = row,
         \A w \in W : ~RunsWell(w)',
         \A w \in Workers \ W : work'[w] = work[w]
  PROVE  AttemptsAreAccountedFor'
<1> SUFFICES ASSUME NEW i \in Items
             PROVE  /\ UnderWay(i)' => row[i].status = "running" /\ row[i].attempts = wrong'[i] + 1
                    /\ ~UnderWay(i)' /\ row[i].status # "complete" => row[i].attempts = wrong'[i]
                    /\ row[i].status = "complete" => row[i].attempts \in {wrong'[i], wrong'[i] + 1}
                    /\ row[i].status = "failed" => wrong'[i] = MaxAttempts
  BY DEF AttemptsAreAccountedFor
<1>1. \A w \in Workers \ W : RunsWell(w)' <=> RunsWell(w)
  BY DEF RunsWell, Active
<1>2. wrong'[i] = IF \E w \in W : RunsWell(w) /\ work[w].item = i THEN wrong[i] + 1 ELSE wrong[i]
  BY DEF CountWrong
<1>3. wrong[i] \in Nat
  BY DEF IndInv, TypeOK
<1>4. CASE \E w \in W : RunsWell(w) /\ work[w].item = i
  <2> PICK w \in W : RunsWell(w) /\ work[w].item = i BY <1>4
  <2>1. UnderWay(i) /\ row[i].status = "running" BY RunsWellRow DEF UnderWay
  <2>2. \A v \in Workers \ W : ~(RunsWell(v) /\ work[v].item = i)
    BY RunsWellRow
  <2>3. ~UnderWay(i)' BY <1>1, <2>2 DEF UnderWay
  <2> QED BY <1>2, <1>3, <1>4, <2>1, <2>3 DEF AttemptsAreAccountedFor
<1>5. CASE ~\E w \in W : RunsWell(w) /\ work[w].item = i
  <2>1. UnderWay(i)' <=> UnderWay(i)
    BY <1>1, <1>5 DEF UnderWay
  <2> QED BY <1>2, <1>5, <2>1 DEF AttemptsAreAccountedFor
<1> QED BY <1>4, <1>5

\* The claim takes an item no attempt is under way for, with the answer of its
\* commit or without.
LEMMA ClaimAttempts ==
  ASSUME IndInv, AttemptsAreAccountedFor, NEW w \in Workers, Claim(w) \/ ClaimUnacknowledged(w)
  PROVE  AttemptsAreAccountedFor'
<1> PICK c \in Claimable :
      /\ row' = Claimed(c) /\ work[w].pc = "idle"
      /\ \/ Claim(w) /\ work' = [work EXCEPT ![w] = Started(c)] /\ wrong' = wrong
         \/ work' = work /\ wrong' = [wrong EXCEPT ![c] = @ + 1]
  BY DEF Claim, ClaimUnacknowledged, Visit
<1> SUFFICES ASSUME NEW i \in Items
             PROVE  /\ UnderWay(i)' => row'[i].status = "running" /\ row'[i].attempts = wrong'[i] + 1
                    /\ ~UnderWay(i)' /\ row'[i].status # "complete" => row'[i].attempts = wrong'[i]
                    /\ row'[i].status = "complete" => row'[i].attempts \in {wrong'[i], wrong'[i] + 1}
                    /\ row'[i].status = "failed" => wrong'[i] = MaxAttempts
  BY DEF AttemptsAreAccountedFor
<1>1. /\ TypeOK /\ c \in Items /\ wrong[i] \in Nat /\ wrong[c] \in Nat
      /\ row[i].left \in Nat /\ row[c].left \in Nat
  BY SweptOrClaimed, TimingAssumption DEF IndInv, TypeOK, Row
<1>2. ~RunsWell(w) /\ \A v \in Workers : v # w => work'[v] = work[v]
  BY <1>1 DEF RunsWell, Active, TypeOK
<1>3. \A v \in Workers : v # w => (RunsWell(v)' <=> RunsWell(v)) /\ work'[v].item = work[v].item
  BY <1>2 DEF RunsWell, Active
<1>4. UnderWay(i) => row[i].status = "running" /\ i \notin Exhausted /\ i # c
  BY <1>1, RunsWellRow, SweptOrClaimed DEF UnderWay
<1>5. CASE i = c
  <2>1. /\ row'[c].status = "running" /\ row'[c].attempts = row[c].attempts + 1
    <3>1. Claimed(c)[c] = [status |-> "running", attempts |-> row[c].attempts + 1,
                           lease |-> ids + 1, left |-> LeaseTicks, analysis |-> row[c].analysis]
      BY <1>1, ClaimedRow
    <3> QED BY <3>1
  <2>2. row[c].attempts = wrong[c]
    BY <1>1, <1>4, <1>5, SweptOrClaimed DEF AttemptsAreAccountedFor
  <2>3. CASE work' = [work EXCEPT ![w] = Started(c)] /\ wrong' = wrong
    <3>1. work'[w] = Started(c) BY <1>1, <2>3 DEF TypeOK
    <3>2. RunsWell(w)' /\ work'[w].item = c
      BY <3>1 DEF RunsWell, Active, Started
    <3>3. UnderWay(c)' BY <3>2 DEF UnderWay
    <3> QED BY <1>5, <2>1, <2>2, <2>3, <3>3
  <2>4. CASE work' = work /\ wrong' = [wrong EXCEPT ![c] = @ + 1]
    <3>1. ~UnderWay(c)' BY <1>4, <1>5, <2>4 DEF UnderWay, RunsWell, Active
    <3>2. wrong'[c] = wrong[c] + 1 BY <1>1, <2>4 DEF TypeOK
    <3> QED BY <1>5, <2>1, <2>2, <3>1, <3>2
  <2> QED BY <2>3, <2>4
<1>6. CASE i # c
  <2>1. row'[i] = Swept(TenantOf[c])[i] BY <1>1, <1>6, ClaimedRow
  <2>2. /\ row'[i].attempts = row[i].attempts
        /\ row'[i].status = row[i].status \/ (i \in Exhausted /\ row'[i].status = "failed")
    BY <1>1, <2>1, SweptRow
  <2>3. i \in Exhausted => row[i].status = "running" /\ row[i].attempts = MaxAttempts
    BY <1>1, SweptOrClaimed, ExhaustedAttempts
  <2>4. wrong'[i] = wrong[i] BY <1>1, <1>6 DEF TypeOK
  <2>5. RunsWell(w)' => work'[w].item = c
    BY <1>1, <1>2 DEF TypeOK, Started, RunsWell, Active
  <2>6. UnderWay(i)' <=> UnderWay(i)
    BY <1>2, <1>3, <1>6, <2>5 DEF UnderWay
  <2> QED BY <1>4, <2>2, <2>3, <2>4, <2>6 DEF AttemptsAreAccountedFor
<1> QED BY <1>5, <1>6

\* A report ends the attempt it is about, and no other.
LEMMA FinishAttempts ==
  ASSUME IndInv, AttemptsAreAccountedFor, NEW w \in Workers, Finish(w)
  PROVE  AttemptsAreAccountedFor'
<1> DEFINE g == work[w]
           c == g.item
<1> SUFFICES ASSUME NEW i \in Items
             PROVE  /\ UnderWay(i)' => row'[i].status = "running" /\ row'[i].attempts = wrong[i] + 1
                    /\ ~UnderWay(i)' /\ row'[i].status # "complete" => row'[i].attempts = wrong[i]
                    /\ row'[i].status = "complete" => row'[i].attempts \in {wrong[i], wrong[i] + 1}
                    /\ row'[i].status = "failed" => wrong[i] = MaxAttempts
  BY DEF AttemptsAreAccountedFor, Finish
<1>1. /\ g.pc = "finishing" /\ TypeOK /\ wrong[i] \in Nat /\ c \in Items
      /\ row' = IF HoldsLease(g) THEN [row EXCEPT ![c] = Report(row[c], g)] ELSE row
  BY DEF Finish, IndInv, TypeOK, TokensAreFresh, Active
<1>2. ~RunsWell(w)' /\ \A v \in Workers : v # w => work'[v] = work[v]
  BY <1>1 DEF Finish, TypeOK, RunsWell, Active, Idle
<1>3. \A v \in Workers : v # w => (RunsWell(v)' <=> RunsWell(v)) /\ work'[v].item = work[v].item
  BY <1>2 DEF RunsWell, Active
<1>4. RunsWell(w) => HoldsLease(g) /\ g.result # 0
  BY <1>1, RunsWellRow DEF HoldsLease, RunsWell
<1>5. CASE HoldsLease(g) /\ i = c
  <2>1. /\ row[i].attempts = g.tries /\ row[i].attempts \in 0..MaxAttempts
        /\ row[i].status \in {"running", "failed"}
    BY <1>1, <1>5 DEF HoldsLease, IndInv, HolderIsCurrent, Active, TypeOK, Row
  <2>2. row'[i] = Report(row[i], g) BY <1>1, <1>5 DEF TypeOK
  <2>3. \A v \in Workers : v # w /\ RunsWell(v) => work[v].item # i
    <3> SUFFICES ASSUME NEW v \in Workers, v # w, RunsWell(v), work[v].item = i PROVE FALSE
      OBVIOUS
    <3>1. work[v].token = g.token
      BY <1>5, RunsWellRow DEF HoldsLease
    <3> QED BY <1>1, <3>1 DEF IndInv, TokensAreFresh, RunsWell, Active
  <2>4. ~UnderWay(i)' BY <1>2, <1>3, <2>3 DEF UnderWay
  <2>5. UnderWay(i) => RunsWell(w) BY <2>3 DEF UnderWay
  <2>6. CASE g.result # 0
    <3>1. row'[i].status = "complete" /\ row'[i].attempts = row[i].attempts
      BY <2>2, <2>6 DEF Report
    <3> QED BY <1>1, <2>1, <2>4, <3>1 DEF AttemptsAreAccountedFor
  <2>7. CASE g.result = 0
    <3>1. /\ row'[i].attempts = row[i].attempts
          /\ row'[i].status = IF g.tries >= MaxAttempts THEN "failed" ELSE "queued"
      BY <2>2, <2>7 DEF Report
    <3>2. row[i].attempts = wrong[i]
      BY <1>4, <2>1, <2>5, <2>7 DEF AttemptsAreAccountedFor
    <3>3. g.tries >= MaxAttempts => row[i].attempts = MaxAttempts
      BY <2>1, QueueAssumption
    <3> QED BY <2>1, <2>4, <3>1, <3>2, <3>3
  <2> QED BY <2>6, <2>7
<1>6. CASE ~(HoldsLease(g) /\ i = c)
  <2>1. row'[i] = row[i] BY <1>1, <1>6 DEF TypeOK
  <2>2. UnderWay(i)' <=> UnderWay(i)
    BY <1>2, <1>3, <1>4, <1>6 DEF UnderWay
  <2> QED BY <2>1, <2>2 DEF AttemptsAreAccountedFor
<1> QED BY <1>5, <1>6

LEMMA AttemptsStep ==
  ASSUME IndInv, NoResultYet, AttemptsAreAccountedFor, [Next]_vars
  PROVE  AttemptsAreAccountedFor'
<1>1. TypeOK BY DEF IndInv
<1>2. ASSUME wrong' = wrong, work' = work, row' = row PROVE AttemptsAreAccountedFor'
  BY <1>2 DEF AttemptsAreAccountedFor, UnderWay, RunsWell, Active
<1>3. CASE UNCHANGED vars \/ Shutdown BY <1>2, <1>3 DEF vars, Shutdown
<1>4. CASE Enqueue
  <2>1. \A w \in Workers : RunsWell(w)' <=> RunsWell(w)
    BY <1>4 DEF Enqueue, RunsWell, Active
  <2>2. \A i \in Items :
          /\ row'[i].attempts = row[i].attempts
          /\ \/ row'[i].status = row[i].status
             \/ row[i].status = "absent" /\ row'[i].status = "queued"
    BY <1>1, <1>4 DEF Enqueue, TypeOK, Row
  <2>3. wrong' = wrong /\ work' = work BY <1>4 DEF Enqueue
  <2> QED BY <2>1, <2>2, <2>3, KeptAttempts
<1>5. CASE Tick
  <2>1. \A w \in Workers :
          /\ work'[w].pc = work[w].pc /\ work'[w].item = work[w].item
          /\ work'[w].result = work[w].result /\ work'[w].stalled = work[w].stalled
    BY <1>1, <1>5 DEF Tick, TypeOK, Goroutine
  <2>2. \A w \in Workers : RunsWell(w)' <=> RunsWell(w)
    BY <2>1 DEF RunsWell, Active
  <2>3. \A i \in Items : row'[i].attempts = row[i].attempts /\ row'[i].status = row[i].status
    BY <1>1, <1>5 DEF Tick, TypeOK, Row
  <2>4. wrong' = wrong BY <1>5 DEF Tick
  <2> QED BY <2>1, <2>2, <2>3, <2>4, KeptAttempts
<1>6. CASE Restart
  <2>1. \A w \in Workers : ~RunsWell(w)'
    BY <1>6 DEF Restart, RunsWell, Active, Idle
  <2> QED BY <1>6, <2>1, LostAttempts DEF Restart
<1>7. ASSUME NEW w \in Workers, Claim(w) \/ ClaimUnacknowledged(w) \/ Finish(w)
      PROVE  AttemptsAreAccountedFor'
  BY <1>7, ClaimAttempts, FinishAttempts
<1>8. ASSUME NEW w \in Workers, SweepOnly(w) PROVE AttemptsAreAccountedFor'
  <2> PICK t \in Tenants : row' = Swept(t) BY <1>8 DEF SweepOnly
  <2>1. wrong' = wrong /\ work' = work BY <1>8 DEF SweepOnly
  <2>2. \A v \in Workers : RunsWell(v)' <=> RunsWell(v)
    BY <2>1 DEF RunsWell, Active
  <2> QED BY <1>1, <2>1, <2>2, SweptRow, KeptAttempts
<1>9. ASSUME NEW w \in Workers, VisitFails(w) PROVE AttemptsAreAccountedFor'
  BY <1>2, <1>9 DEF VisitFails
<1>10. ASSUME NEW w \in Workers,
              EvaluateFails(w) \/ SaveUnacknowledged(w) \/ FinishAborted(w) \/ Stall(w)
       PROVE  AttemptsAreAccountedFor'
  <2>1. ~RunsWell(w)'
    BY <1>1, <1>10 DEF EvaluateFails, SaveUnacknowledged, FinishAborted, Stall, TypeOK, Goroutine,
       NoResultYet, RunsWell, Active, Idle
  <2>2. row' = row /\ CountWrong({w}) /\ \A v \in Workers \ {w} : work'[v] = work[v]
    BY <1>1, <1>10 DEF EvaluateFails, SaveUnacknowledged, FinishAborted, Stall, TypeOK
  <2> QED BY <2>1, <2>2, LostAttempts
<1>11. ASSUME NEW w \in Workers, Save(w) PROVE AttemptsAreAccountedFor'
  <2>1. /\ work[w].pc = "evaluating" /\ work'[w].pc = "finishing"
        /\ work'[w].item = work[w].item /\ work'[w].stalled = work[w].stalled
        /\ work'[w].result = SavedRecord(w)
        /\ \A v \in Workers : v # w => work'[v] = work[v]
        /\ row' = row /\ wrong' = wrong
    BY <1>1, <1>11 DEF Save, TypeOK, Goroutine
  <2>2. SavedRecord(w) # 0
    BY <2>1 DEF SavedRecord, IndInv, TokensAreFresh, TypeOK, Active
  <2>3. \A v \in Workers : /\ RunsWell(v)' <=> RunsWell(v)
                           /\ work'[v].item = work[v].item
    BY <2>1, <2>2 DEF RunsWell, Active
  <2> QED BY <2>1, <2>3, KeptAttempts
<1> QED BY <1>3, <1>4, <1>5, <1>6, <1>7, <1>8, <1>9, <1>10, <1>11, NextCases

\* A row counts exactly the attempts that went wrong and the one under way, so
\* a failed item is one MaxAttempts attempts of which went wrong.
THEOREM AttemptsAreAccountedForHolds == Spec => []AttemptsAreAccountedFor
<1>1. Init => NoResultYet /\ AttemptsAreAccountedFor
  <2> SUFFICES ASSUME Init PROVE NoResultYet /\ AttemptsAreAccountedFor OBVIOUS
  <2>1. \A w \in Workers : work[w].pc = "idle"
    BY DEF Init, Idle
  <2>2. \A i \in Items : row[i].status = "absent" /\ row[i].attempts = 0 /\ wrong[i] = 0
    BY DEF Init
  <2> QED BY <2>1, <2>2 DEF NoResultYet, AttemptsAreAccountedFor, UnderWay, RunsWell, Active
<1>2. IndInv /\ NoResultYet /\ AttemptsAreAccountedFor /\ [Next]_vars
        => NoResultYet' /\ AttemptsAreAccountedFor'
  BY NoResultYetStep, AttemptsStep DEF IndInv
<1> QED BY <1>1, <1>2, Invariance, PTL DEF Spec

-----------------------------------------------------------------------------
(* What a step may never do.                                                 *)

LEMMA OnlyRunningIsLeasedStep ==
  ASSUME IndInv, OnlyRunningIsLeased, [Next]_vars
  PROVE  OnlyRunningIsLeased'
<1> USE DEF IndInv, OnlyRunningIsLeased
<1>1. CASE UNCHANGED vars BY <1>1 DEF vars, Active
<1>2. CASE Enqueue
  <2>1. \A i \in Items :
          /\ row'[i].left = row[i].left
          /\ row'[i].status = row[i].status
               \/ (row[i].status = "absent" /\ row'[i].status = "queued")
    BY <1>2 DEF Enqueue, TypeOK, Row
  <2>2. work' = work BY <1>2 DEF Enqueue
  <2> QED BY <2>1, <2>2 DEF Active, TokensAreFresh
<1>3. CASE Tick
  <2>1. \A i \in Items :
          /\ row'[i].status = row[i].status
          /\ row'[i].left = IF row[i].left = 0 THEN 0 ELSE row[i].left - 1
    BY <1>3 DEF Tick, TypeOK, Row
  <2>2. \A w \in Workers : work'[w].pc = work[w].pc /\ work'[w].item = work[w].item
    BY <1>3 DEF Tick, TypeOK, Goroutine
  <2> QED BY <2>1, <2>2 DEF Active, TokensAreFresh
<1>4. ASSUME Shutdown \/ Restart PROVE OnlyRunningIsLeased'
  <2>1. row' = row /\ \A w \in Workers : work'[w] = work[w] \/ work'[w].pc = "idle"
    BY <1>4 DEF Shutdown, Restart, Idle
  <2> QED BY <2>1 DEF Active
<1>5. ASSUME NEW w \in Workers, Claim(w) \/ ClaimUnacknowledged(w) PROVE OnlyRunningIsLeased'
  <2> PICK i \in Claimable :
        row' = Claimed(i) /\ (work' = work \/ work' = [work EXCEPT ![w] = Started(i)])
    BY <1>5 DEF Claim, ClaimUnacknowledged
  <2>0. \A v \in Workers : work'[v] = work[v] \/ work'[v].item = i
    BY DEF Started, TypeOK
  <2>1. i \in Items BY SweptOrClaimed
  <2>2. row'[i].status = "running"
    <3>1. Claimed(i)[i] = [status |-> "running", attempts |-> row[i].attempts + 1,
                           lease |-> ids + 1, left |-> LeaseTicks, analysis |-> row[i].analysis]
      BY <2>1, ClaimedRow
    <3> QED BY <3>1
  <2>3. \A j \in Items : j # i =>
          /\ row'[j].left = row[j].left
          /\ row'[j].status = row[j].status
               \/ (row'[j].status = "failed" /\ row[j].left = 0)
    <3> SUFFICES ASSUME NEW j \in Items, j # i
                 PROVE  /\ row'[j].left = row[j].left
                        /\ row'[j].status = row[j].status
                             \/ (row'[j].status = "failed" /\ row[j].left = 0)
      OBVIOUS
    <3>1. row'[j] = Swept(TenantOf[i])[j]
      BY ClaimedRow
    <3> QED BY <3>1, SweptRow, SweptOrClaimed
  <2> QED BY <2>0, <2>1, <2>2, <2>3 DEF Active, TokensAreFresh
<1>6. ASSUME NEW w \in Workers, SweepOnly(w) PROVE OnlyRunningIsLeased'
  <2> PICK t \in Tenants : row' = Swept(t)
    BY <1>6 DEF SweepOnly
  <2>1. work' = work BY <1>6 DEF SweepOnly
  <2> QED BY <2>1, SweptRow, SweptOrClaimed DEF Active, TokensAreFresh
<1>7. ASSUME NEW w \in Workers,
             EvaluateFails(w) \/ Save(w) \/ SaveUnacknowledged(w) \/ Stall(w)
      PROVE  OnlyRunningIsLeased'
  <2>1. /\ row' = row /\ Active(w)
        /\ \A v \in Workers : v # w => work'[v] = work[v]
        /\ work'[w].item = work[w].item
    BY <1>7 DEF EvaluateFails, Save, SaveUnacknowledged, Stall, TypeOK, Goroutine, Active
  <2> QED BY <2>1 DEF Active
<1>8. ASSUME NEW w \in Workers, Finish(w) \/ FinishAborted(w) PROVE OnlyRunningIsLeased'
  <2> DEFINE i == work[w].item
  <2>1. \A v \in Workers : work'[v] = work[v] \/ work'[v].pc = "idle"
    BY <1>8 DEF Finish, FinishAborted, Idle, TypeOK
  <2>2. row' = row \/ (row' = [row EXCEPT ![i] = Report(row[i], work[w])])
    BY <1>8 DEF Finish, FinishAborted
  <2>3. \A j \in Items : row'[j] = row[j] \/ (row'[j].left = 0 /\ row'[j].status # "absent")
    BY <2>2 DEF Report, TypeOK
  <2> QED BY <2>1, <2>3 DEF Active, TokensAreFresh
<1>9. ASSUME NEW w \in Workers, VisitFails(w) PROVE OnlyRunningIsLeased'
  <2>1. row' = row /\ work' = work BY <1>9 DEF VisitFails
  <2> QED BY <2>1 DEF Active
<1> QED BY <1>1, <1>2, <1>3, <1>4, <1>5, <1>6, <1>7, <1>8, <1>9, NextCases

LEMMA OnlyRunningIsLeasedHolds == Spec => []OnlyRunningIsLeased
<1>1. Init => OnlyRunningIsLeased
  BY DEF Init, OnlyRunningIsLeased, Active, Idle
<1>2. IndInv /\ OnlyRunningIsLeased /\ [Next]_vars => OnlyRunningIsLeased'
  BY OnlyRunningIsLeasedStep
<1> QED BY <1>1, <1>2, Invariance, PTL DEF Spec

\* Only the sweep and the finish transaction of the lease's holder end a run,
\* and no step touches a complete item.
LEMMA RowsChangeLawfully ==
  ASSUME IndInv, OnlyRunningIsLeased, [Next]_vars, NEW i \in Items
  PROVE  /\ row[i].status = "complete" => row'[i] = row[i]
         /\ row[i].status = "running" /\ row'[i].status # "running" =>
              \/ i \in Exhausted /\ row'[i].status = "failed"
              \/ \E w \in Workers :
                   /\ work[w].pc = "finishing" /\ ~Active(w)'
                   /\ work[w].item = i /\ work[w].token = row[i].lease
<1> USE DEF IndInv
<1>1. CASE row' = row BY <1>1
<1>2. CASE Enqueue
  <2>1. row'[i] = row[i] \/ row[i].status = "absent" BY <1>2 DEF Enqueue
  <2> QED BY <2>1
<1>3. CASE Tick
  <2>1. row'[i] = [row[i] EXCEPT !.left = IF row[i].left = 0 THEN 0 ELSE row[i].left - 1]
    BY <1>3 DEF Tick
  <2>2. row[i] \in Row BY DEF TypeOK
  <2>3. row'[i].status = row[i].status BY <2>1, <2>2 DEF Row
  <2>4. row[i].left = 0 => row'[i] = row[i] BY <2>1, <2>2 DEF Row
  <2> QED BY <2>3, <2>4 DEF OnlyRunningIsLeased
<1>4. ASSUME NEW w \in Workers, Claim(w) \/ ClaimUnacknowledged(w) \/ SweepOnly(w)
      PROVE  /\ row[i].status = "complete" => row'[i] = row[i]
             /\ row[i].status = "running" /\ row'[i].status # "running" =>
                  i \in Exhausted /\ row'[i].status = "failed"
  <2>1. \/ \E t \in Tenants : row' = Swept(t)
        \/ \E c \in Claimable : row' = Claimed(c)
    BY <1>4 DEF Claim, ClaimUnacknowledged, SweepOnly
  <2>2. \A t : row[i].status = "complete" => Swept(t)[i] = row[i]
    BY SweptOrClaimed DEF Swept
  <2>3. ASSUME NEW t \in Tenants, row' = Swept(t)
        PROVE  /\ row[i].status = "complete" => row'[i] = row[i]
               /\ row[i].status = "running" /\ row'[i].status # "running" =>
                    i \in Exhausted /\ row'[i].status = "failed"
    BY <2>2, <2>3, SweptRow
  <2>4. ASSUME NEW c \in Claimable, row' = Claimed(c)
        PROVE  /\ row[i].status = "complete" => row'[i] = row[i]
               /\ row[i].status = "running" /\ row'[i].status # "running" =>
                    i \in Exhausted /\ row'[i].status = "failed"
    <3>1. CASE i = c
      <4>1. row'[i].status = "running"
        <5>1. Claimed(c)[i] = [status |-> "running", attempts |-> row[c].attempts + 1,
                               lease |-> ids + 1, left |-> LeaseTicks,
                               analysis |-> row[c].analysis]
          BY <3>1, ClaimedRow
        <5> QED BY <2>4, <5>1
      <4> QED BY <3>1, <4>1, SweptOrClaimed
    <3>2. CASE i # c
      <4>1. row'[i] = Swept(TenantOf[c])[i] BY <2>4, <3>2, ClaimedRow
      <4> QED BY <2>2, <4>1, SweptRow
    <3> QED BY <3>1, <3>2
  <2> QED BY <2>1, <2>3, <2>4
<1>5. ASSUME NEW w \in Workers, Finish(w), row' # row
      PROVE  /\ row[i].status = "complete" => row'[i] = row[i]
             /\ row[i].status = "running" /\ row'[i].status # "running" =>
                  /\ work[w].pc = "finishing" /\ ~Active(w)'
                  /\ work[w].item = i /\ work[w].token = row[i].lease
  <2> DEFINE g == work[w]
  <2>1. /\ g.pc = "finishing" /\ row[g.item].lease = g.token
        /\ row' = [row EXCEPT ![g.item] = Report(row[g.item], g)]
        /\ work' = [work EXCEPT ![w] = Idle]
    BY <1>5 DEF Finish, HoldsLease
  <2>2. row[g.item].status # "complete"
    BY <2>1 DEF HolderIsCurrent, Active
  <2>3. i # g.item => row'[i] = row[i]
    BY <2>1 DEF TypeOK
  <2>4. ~Active(w)'
    BY <2>1 DEF TypeOK, Active, Idle
  <2> QED BY <2>1, <2>2, <2>3, <2>4
<1>6. Shutdown \/ Restart => row' = row
  BY DEF Shutdown, Restart
<1>7. \A w \in Workers :
        EvaluateFails(w) \/ Save(w) \/ SaveUnacknowledged(w) \/ FinishAborted(w) \/ Stall(w)
          \/ VisitFails(w)
          => row' = row
  BY DEF EvaluateFails, Save, SaveUnacknowledged, FinishAborted, Stall, VisitFails
<1>8. UNCHANGED vars => row' = row BY DEF vars
<1> QED BY <1>1, <1>2, <1>3, <1>4, <1>5, <1>6, <1>7, <1>8, NextCases

\* A complete item stays as it is.
THEOREM CompleteIsFinalHolds == Spec => CompleteIsFinal
<1>1. IndInv /\ OnlyRunningIsLeased /\ [Next]_vars =>
        [\A i \in Items : row[i].status = "complete" => row'[i] = row[i]]_vars
  BY RowsChangeLawfully
<1> QED BY <1>1, Invariance, OnlyRunningIsLeasedHolds, PTL DEF Spec, CompleteIsFinal

\* Late workers do not end a replacement worker's run.
THEOREM OnlyHolderEndsRunHolds == Spec => OnlyHolderEndsRun
<1>1. IndInv /\ OnlyRunningIsLeased /\ [Next]_vars =>
        [\A i \in Items :
           row[i].status = "running" /\ row'[i].status # "running" =>
             \/ i \in Exhausted /\ row'[i].status = "failed"
             \/ \E w \in Workers :
                  /\ work[w].pc = "finishing" /\ ~Active(w)'
                  /\ work[w].item = i /\ work[w].token = row[i].lease]_vars
  BY RowsChangeLawfully
<1> QED BY <1>1, Invariance, OnlyRunningIsLeasedHolds, PTL DEF Spec, OnlyHolderEndsRun

-----------------------------------------------------------------------------
(* BatchQueue implements ItemPromise: every step of the queue is a step of   *)
(* the promise, or changes nothing a landlord can see.                       *)

\* Row i looks to a landlord as its status says.
LEMMA PublicRow ==
  ASSUME NEW i \in Items
  PROVE  /\ PublicState[i] = IF row[i].status \in {"queued", "running"}
                             THEN "pending" ELSE row[i].status
         /\ PublicState'[i] = IF row'[i].status \in {"queued", "running"}
                              THEN "pending" ELSE row'[i].status
BY DEF PublicState

\* A step that changes no status and no analysis is invisible.
LEMMA Invisible ==
  ASSUME analyses' = analyses,
         \A i \in Items : /\ row'[i].analysis = row[i].analysis
                          /\ PublicState'[i] = PublicState[i]
  PROVE  UNCHANGED Promise!vars
<1>1. PublicState' = PublicState BY DEF PublicState
<1>2. [i \in Items |-> row'[i].analysis] = [i \in Items |-> row[i].analysis]
  OBVIOUS
<1> QED BY <1>1, <1>2 DEF Promise!vars

\* Enqueue is Submit.
LEMMA EnqueueSubmits ==
  ASSUME IndInv, Enqueue
  PROVE  Promise!Next
<1> PICK job \in Jobs :
      /\ \A i \in job : row[i].status = "absent"
      /\ row' = [i \in Items |->
                   IF i \in job THEN [row[i] EXCEPT !.status = "queued"] ELSE row[i]]
  BY DEF Enqueue
<1>1. job \in SUBSET Items BY QueueAssumption
<1>2. \A i \in Items :
        /\ row'[i].analysis = row[i].analysis
        /\ row'[i].status = IF i \in job THEN "queued" ELSE row[i].status
  BY DEF IndInv, TypeOK, Row
<1>3. \A i \in job : PublicState[i] = "absent"
  BY <1>1, PublicRow
<1>4. PublicState' = [i \in Items |-> IF i \in job THEN "pending" ELSE PublicState[i]]
  BY <1>2 DEF PublicState
<1>5. [i \in Items |-> row'[i].analysis] = [i \in Items |-> row[i].analysis]
  BY <1>2
<1>6. analyses' = analyses BY DEF Enqueue
<1>7. Promise!Submit BY <1>1, <1>3, <1>4, <1>5, <1>6 DEF Promise!Submit
<1> QED BY <1>7 DEF Promise!Next

\* The claim transaction is Fail, for the items it sweeps.
LEMMA ClaimFails ==
  ASSUME IndInv, NEW w \in Workers, Claim(w) \/ ClaimUnacknowledged(w) \/ SweepOnly(w)
  PROVE  Promise!Next
<1> USE DEF IndInv
<1>1. analyses' = analyses
  BY DEF Claim, ClaimUnacknowledged, SweepOnly
<1> PICK t : row' = Swept(t) \/ \E c \in Claimable : t = TenantOf[c] /\ row' = Claimed(c)
  BY DEF Claim, ClaimUnacknowledged, SweepOnly
<1> DEFINE S == {i \in Exhausted : TenantOf[i] = t}
<1>2. \A i \in Items :
        /\ row'[i].analysis = row[i].analysis
        /\ PublicState'[i] = IF i \in S THEN "failed" ELSE PublicState[i]
  <2> SUFFICES ASSUME NEW i \in Items
               PROVE  /\ row'[i].analysis = row[i].analysis
                      /\ PublicState'[i] = IF i \in S THEN "failed" ELSE PublicState[i]
    OBVIOUS
  <2>2. row'[i] = Swept(t)[i] =>
          /\ row'[i].analysis = row[i].analysis
          /\ row'[i].status = IF i \in S THEN "failed" ELSE row[i].status
    <3>1. i \notin S => Swept(t)[i] = row[i] BY DEF Swept, TypeOK
    <3> QED BY <3>1, SweptRow
  <2>3. CASE row'[i] = Swept(t)[i]
    BY <2>2, <2>3, PublicRow
  <2>4. CASE i \in Claimable /\ row' = Claimed(i)
    <3>1. Claimed(i)[i] = [status |-> "running", attempts |-> row[i].attempts + 1,
                           lease |-> ids + 1, left |-> LeaseTicks, analysis |-> row[i].analysis]
      BY <2>4, ClaimedRow
    <3>2. row'[i].status = "running" /\ row'[i].analysis = row[i].analysis
      BY <2>4, <3>1
    <3>3. row[i].status \in {"queued", "running"} /\ i \notin Exhausted
      <4>1. row[i].attempts \in 0..MaxAttempts BY DEF TypeOK, Row
      <4> QED BY <2>4, <4>1, SweptOrClaimed, QueueAssumption
    <3> QED BY <3>2, <3>3, PublicRow
  <2>5. ASSUME NEW c \in Claimable, t = TenantOf[c], row' = Claimed(c), c # i
        PROVE  row'[i] = Swept(t)[i]
    BY <2>5, ClaimedRow
  <2> QED BY <2>3, <2>4, <2>5
<1>3. PublicState' = [i \in Items |-> IF i \in S THEN "failed" ELSE PublicState[i]]
  BY <1>2 DEF PublicState
<1>4. \A i \in S : PublicState[i] = "pending"
  BY SweptOrClaimed, PublicRow
<1>5. [i \in Items |-> row'[i].analysis] = [i \in Items |-> row[i].analysis]
  BY <1>2
<1>6. S \in SUBSET Items BY SweptOrClaimed
<1>7. Promise!Fail BY <1>1, <1>3, <1>4, <1>5, <1>6 DEF Promise!Fail
<1> QED BY <1>7 DEF Promise!Next

\* Save is Store if it stores something new, and invisible otherwise.
LEMMA SaveStores ==
  ASSUME IndInv, OnlyRunningIsLeased, NEW w \in Workers, Save(w) \/ SaveUnacknowledged(w)
  PROVE  [Promise!Next]_(Promise!vars)
<1> DEFINE i == work[w].item
<1> USE DEF IndInv
<1>1. /\ row' = row /\ i \in Items /\ work[w].token \in Nat \ {0}
      /\ analyses' = [analyses EXCEPT ![i] = SavedRecord(w)]
      /\ row[i].status # "absent"
  BY DEF Save, SaveUnacknowledged, SavedRecord, TokensAreFresh, Active, TypeOK,
         OnlyRunningIsLeased
<1>2. PublicState' = PublicState
  BY <1>1 DEF PublicState
<1>3. CASE analyses[i] # 0
  <2>1. analyses' = analyses BY <1>1, <1>3 DEF SavedRecord, TypeOK
  <2> QED BY <1>1, <1>2, <2>1, Invisible
<1>4. CASE analyses[i] = 0
  <2>1. analyses' = [analyses EXCEPT ![i] = work[w].token]
    BY <1>1, <1>4 DEF SavedRecord
  <2>2. /\ analyses' \in [Items -> Nat] /\ analyses'[i] # 0
        /\ \A j \in Items \ {i} : analyses'[j] = analyses[j]
    BY <1>1, <2>1 DEF TypeOK
  <2>3. PublicState[i] # "absent"
    BY <1>1, PublicRow
  <2>4. Promise!Store
    BY <1>1, <1>2, <1>4, <2>2, <2>3 DEF Promise!Store
  <2> QED BY <2>4 DEF Promise!Next
<1> QED BY <1>3, <1>4

\* Finish is Complete, or Fail, or invisible.
LEMMA FinishReports ==
  ASSUME IndInv, NEW w \in Workers, Finish(w)
  PROVE  [Promise!Next]_(Promise!vars)
<1> DEFINE g == work[w]
           i == g.item
<1> USE DEF IndInv
<1>1. /\ analyses' = analyses
      /\ row' = IF HoldsLease(g) THEN [row EXCEPT ![i] = Report(row[i], g)] ELSE row
      /\ Active(w) /\ i \in Items
  BY DEF Finish, Active, TokensAreFresh
<1>2. CASE ~HoldsLease(g)
  <2>1. row' = row BY <1>1, <1>2
  <2> QED BY <1>1, <2>1, Invisible, PublicRow
<1>3. CASE HoldsLease(g)
  <2>1. /\ row[i].status \in {"running", "failed"} /\ row[i].attempts = g.tries
    BY <1>1, <1>3 DEF HoldsLease, HolderIsCurrent
  <2>2. \A j \in Items : j # i => row'[j] = row[j]
    BY <1>1, <1>3 DEF TypeOK
  <2>3. row'[i] = Report(row[i], g)
    BY <1>1, <1>3 DEF TypeOK
  <2>4. CASE g.result # 0
    <3>1. g.result = analyses[i] BY <2>4 DEF ResultIsStored
    <3>2. row'[i].status = "complete" /\ row'[i].analysis = analyses[i]
      BY <2>3, <2>4, <3>1 DEF Report
    <3>3. PublicState' = [PublicState EXCEPT ![i] = "complete"]
      <4>1. \A j \in Items :
              PublicState'[j] = IF j = i THEN "complete" ELSE PublicState[j]
        BY <2>2, <3>2, PublicRow
      <4> QED BY <4>1 DEF PublicState
    <3>4. [j \in Items |-> row'[j].analysis]
            = [[j \in Items |-> row[j].analysis] EXCEPT ![i] = analyses[i]]
      <4>1. \A j \in Items :
              row'[j].analysis = IF j = i THEN analyses[i] ELSE row[j].analysis
        BY <2>2, <3>2
      <4> QED BY <4>1
    <3>5. PublicState[i] \in {"pending", "failed"}
      BY <1>1, <2>1, PublicRow
    <3>6. Promise!Complete
      BY <1>1, <2>4, <3>1, <3>3, <3>4, <3>5 DEF Promise!Complete
    <3> QED BY <3>6 DEF Promise!Next
  <2>5. CASE g.result = 0 /\ g.tries >= MaxAttempts
    <3>1. row'[i].status = "failed" /\ row'[i].analysis = row[i].analysis
      BY <2>3, <2>5 DEF Report
    <3>2. \A j \in Items :
            /\ row'[j].analysis = row[j].analysis
            /\ j # i => PublicState'[j] = PublicState[j]
      BY <2>2, <3>1, PublicRow
    <3>3. PublicState'[i] = "failed"
      BY <1>1, <3>1, PublicRow
    <3>4. CASE row[i].status = "failed"
      <4>1. PublicState[i] = "failed" BY <1>1, <3>4, PublicRow
      <4> QED BY <1>1, <3>2, <3>3, <4>1, Invisible
    <3>5. CASE row[i].status = "running"
      <4>1. PublicState[i] = "pending" BY <1>1, <3>5, PublicRow
      <4>2. PublicState' = [j \in Items |-> IF j \in {i} THEN "failed" ELSE PublicState[j]]
        BY <3>2, <3>3 DEF PublicState
      <4>3. [j \in Items |-> row'[j].analysis] = [j \in Items |-> row[j].analysis]
        BY <3>2
      <4>4. {i} \in SUBSET Items BY <1>1
      <4>5. Promise!Fail BY <1>1, <4>1, <4>2, <4>3, <4>4 DEF Promise!Fail
      <4> QED BY <4>5 DEF Promise!Next
    <3> QED BY <2>1, <3>4, <3>5
  <2>6. CASE g.result = 0 /\ ~(g.tries >= MaxAttempts)
    <3>1. row'[i].status = "queued" /\ row'[i].analysis = row[i].analysis
      BY <2>3, <2>6 DEF Report
    <3>2. row[i].status = "running"
      <4>1. row[i].status = "failed" => row[i].attempts = MaxAttempts
        BY <1>1 DEF FailedIsExhausted
      <4> QED BY <2>1, <2>6, <4>1, QueueAssumption
    <3>3. \A j \in Items : /\ row'[j].analysis = row[j].analysis
                           /\ PublicState'[j] = PublicState[j]
      BY <1>1, <2>2, <3>1, <3>2, PublicRow
    <3> QED BY <1>1, <3>3, Invisible
  <2> QED BY <2>4, <2>5, <2>6
<1> QED BY <1>2, <1>3

\* Every step maps to a step of the promise or to a stutter.
LEMMA StepRefines ==
  ASSUME IndInv, OnlyRunningIsLeased, [Next]_vars
  PROVE  [Promise!Next]_(Promise!vars)
<1>1. row' = row /\ analyses' = analyses => UNCHANGED Promise!vars
  BY Invisible, PublicRow
<1>2. CASE UNCHANGED vars BY <1>1, <1>2 DEF vars
<1>3. CASE Tick
  <2>1. \A i \in Items : row'[i].status = row[i].status /\ row'[i].analysis = row[i].analysis
    BY <1>3 DEF Tick, IndInv, TypeOK, Row
  <2>2. analyses' = analyses BY <1>3 DEF Tick
  <2> QED BY <2>1, <2>2, Invisible, PublicRow
<1>4. CASE Shutdown \/ Restart
  BY <1>1, <1>4 DEF Shutdown, Restart
<1>5. ASSUME NEW w \in Workers,
             EvaluateFails(w) \/ FinishAborted(w) \/ Stall(w) \/ VisitFails(w)
      PROVE  UNCHANGED Promise!vars
  BY <1>1, <1>5 DEF EvaluateFails, FinishAborted, Stall, VisitFails
<1> QED BY <1>2, <1>3, <1>4, <1>5, NextCases, EnqueueSubmits, ClaimFails, SaveStores,
           FinishReports

\* The queue keeps its promise: at most one analysis is ever stored for an
\* item, a complete item shows that one for good, and a failed item never
\* becomes pending again.
THEOREM QueueKeepsPromise == Spec => ImplementsPromise
<1>1. Init => Promise!Init
  BY DEF Init, Promise!Init, PublicState
<1>2. IndInv /\ OnlyRunningIsLeased /\ [Next]_vars => [Promise!Next]_(Promise!vars)
  BY StepRefines
<1> QED BY <1>1, <1>2, Invariance, OnlyRunningIsLeasedHolds, PTL
        DEF Spec, ImplementsPromise, Promise!Spec
=============================================================================
