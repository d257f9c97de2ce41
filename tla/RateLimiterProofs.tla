-------------------------- MODULE RateLimiterProofs --------------------------
(* Proofs about RateLimiter for every number of clients, limit, window and   *)
(* capacity.                                                                 *)
EXTENDS RateLimiter, FiniteSetTheorems, TLAPS

Entry == [client : Clients, at : Nat, passed : BOOLEAN]

\* Passed in a log that is given, and how many that is.
PassedIn(l, c, t, u) ==
  {n \in DOMAIN l : l[n].client = c /\ l[n].at \in t..u /\ l[n].passed}

Through(l, c, t, u) == Cardinality(PassedIn(l, c, t, u))

\* The clients that got something through from time t to time u.
Served(l, t, u) == {c \in Clients : PassedIn(l, c, t, u) # {}}

\* Request n was refused for a cause, in the log l.
HasCause(l, n) ==
  LET u == l[n].at
      t == IF u > Window THEN u - Window ELSE 0
  IN  Through(l, l[n].client, t, u) >= Limit \/ Cardinality(Served(l, t, u)) > Capacity

\* At time u bucket b of client c counts what passed since it started; no more
\* than one limit passed in the window before, and nothing after it was over.
Counts(l, c, b, u) ==
  /\ b.start <= u
  /\ Through(l, c, b.start, u) = IF b.count > Limit THEN Limit ELSE b.count
  /\ Through(l, c, b.start - Window, b.start - 1) <= Limit
  /\ \A n \in PassedIn(l, c, 0, u) : l[n].at <= b.start + Window

BucketsCount == \A c \in DOMAIN limits : Counts(log, c, limits[c], clock)

\* A client without a bucket got at most one limit through in the last window,
\* and nothing now.
TheRestAreQuiet ==
  \A c \in Clients \ DOMAIN limits :
    /\ Through(log, c, clock - Window, clock) <= Limit
    /\ PassedIn(log, c, clock, clock) = {}

IndInv ==
  /\ TypeOK
  /\ log \in Seq(Entry)
  /\ IsFiniteSet(DOMAIN limits)
  /\ BucketsCount
  /\ TheRestAreQuiet
  /\ BurstIsBounded
  /\ RefusalHasCause

-----------------------------------------------------------------------------
(* Lemmas about counting the log.                                            *)

\* The requests of any span are finitely many, no more than those of a span
\* that holds it.
LEMMA PassedIsFinite ==
  ASSUME NEW l \in Seq(Entry), NEW c, NEW t, NEW u
  PROVE  /\ IsFiniteSet(PassedIn(l, c, t, u))
         /\ Through(l, c, t, u) \in Nat
<1>1. Len(l) \in Nat /\ DOMAIN l = 1..Len(l)
  OBVIOUS
<1>2. IsFiniteSet(DOMAIN l)
  BY <1>1, FS_Interval
<1>3. PassedIn(l, c, t, u) \in SUBSET DOMAIN l
  BY DEF PassedIn
<1> QED
  BY <1>2, <1>3, FS_Subset, FS_CardinalityType DEF Through

LEMMA ThroughIsMonotone ==
  ASSUME NEW l \in Seq(Entry), NEW c, NEW t, NEW u, NEW v, NEW w,
         PassedIn(l, c, t, u) \subseteq PassedIn(l, c, v, w)
  PROVE  Through(l, c, t, u) <= Through(l, c, v, w)
BY PassedIsFinite, FS_Subset DEF Through

\* A span that is covered by two others has no more than both.
LEMMA ThroughIsSubadditive ==
  ASSUME NEW l \in Seq(Entry), NEW c, NEW t, NEW u, NEW v, NEW w, NEW x, NEW y,
         PassedIn(l, c, t, u) \subseteq PassedIn(l, c, v, w) \cup PassedIn(l, c, x, y)
  PROVE  Through(l, c, t, u) <= Through(l, c, v, w) + Through(l, c, x, y)
<1> DEFINE A == PassedIn(l, c, v, w)
           B == PassedIn(l, c, x, y)
<1>1. IsFiniteSet(A) /\ IsFiniteSet(B)
  BY PassedIsFinite
<1>2. /\ IsFiniteSet(A \cup B)
      /\ Cardinality(A \cup B) = Cardinality(A) + Cardinality(B) - Cardinality(A \cap B)
  BY <1>1, FS_Union
<1>3. IsFiniteSet(A \cap B)
  BY <1>1, FS_Intersection
<1>4. /\ Cardinality(A) \in Nat /\ Cardinality(B) \in Nat /\ Cardinality(A \cap B) \in Nat
      /\ Cardinality(A \cup B) \in Nat /\ Through(l, c, t, u) \in Nat
  BY <1>1, <1>2, <1>3, PassedIsFinite, FS_CardinalityType
<1>5. Through(l, c, t, u) <= Cardinality(A \cup B)
  BY <1>2, FS_Subset DEF Through
<1> QED
  BY <1>2, <1>4, <1>5 DEF Through

\* The clients of a span are finitely many.
LEMMA ServedIsFinite ==
  ASSUME NEW l \in Seq(Entry), NEW t, NEW u
  PROVE  IsFiniteSet(Served(l, t, u))
<1> DEFINE D == {n \in DOMAIN l : l[n].client \in Served(l, t, u)}
           f == [n \in D |-> l[n].client]
<1>1. IsFiniteSet(DOMAIN l)
  <2>1. Len(l) \in Nat /\ DOMAIN l = 1..Len(l)
    OBVIOUS
  <2> QED
    BY <2>1, FS_Interval
<1>2. IsFiniteSet(D)
  BY <1>1, FS_Subset
<1>3. \A c \in Served(l, t, u) : \E n \in D : f[n] = c
  BY DEF Served, PassedIn
<1>4. f \in Surjection(D, Served(l, t, u))
  BY <1>3 DEF Surjection
<1> QED
  BY <1>2, <1>4, FS_Surjection

\* The properties, in terms of the log.
LEMMA PropertiesOfTheLog ==
  /\ BurstIsBounded <=>
       \A c \in Clients, t \in 0..MaxTime : Through(log, c, t, t + Window) <= 2 * Limit
  /\ BurstIsBounded' <=>
       \A c \in Clients, t \in 0..MaxTime : Through(log', c, t, t + Window) <= 2 * Limit
  /\ RefusalHasCause <=> \A n \in DOMAIN log : ~log[n].passed => HasCause(log, n)
  /\ RefusalHasCause' <=> \A n \in DOMAIN log' : ~log'[n].passed => HasCause(log', n)
<1>1. BurstIsBounded <=>
        \A c \in Clients, t \in 0..MaxTime : Through(log, c, t, t + Window) <= 2 * Limit
  BY DEF BurstIsBounded, Through, PassedIn, Passed
<1>2. BurstIsBounded' <=>
        \A c \in Clients, t \in 0..MaxTime : Through(log', c, t, t + Window) <= 2 * Limit
  BY DEF BurstIsBounded, Through, PassedIn, Passed
<1>3. RefusalHasCause <=> \A n \in DOMAIN log : ~log[n].passed => HasCause(log, n)
  BY DEF RefusalHasCause, HasCause, Through, Served, PassedIn, Passed
<1>4. RefusalHasCause' <=> \A n \in DOMAIN log' : ~log'[n].passed => HasCause(log', n)
  BY DEF RefusalHasCause, HasCause, Through, Served, PassedIn, Passed
<1> QED
  BY <1>1, <1>2, <1>3, <1>4

\* What an entry that is appended adds to a span.
LEMMA PassedAfterAppend ==
  ASSUME log \in Seq(Entry), NEW e \in Entry, log' = Append(log, e), NEW c, NEW t, NEW u
  PROVE  /\ log' \in Seq(Entry)
         /\ Len(log) + 1 \notin PassedIn(log, c, t, u)
         /\ PassedIn(log', c, t, u) = IF e.passed /\ e.client = c /\ e.at \in t..u
                                      THEN PassedIn(log, c, t, u) \cup {Len(log) + 1}
                                      ELSE PassedIn(log, c, t, u)
<1>1. Len(log) \in Nat /\ DOMAIN log = 1..Len(log)
  OBVIOUS
<1>2. /\ log' \in Seq(Entry) /\ DOMAIN log' = 1..Len(log) + 1
      /\ log'[Len(log) + 1] = e /\ \A n \in 1..Len(log) : log'[n] = log[n]
  OBVIOUS
<1> QED
  BY <1>1, <1>2 DEF PassedIn

LEMMA ThroughAfterAppend ==
  ASSUME log \in Seq(Entry), NEW e \in Entry, log' = Append(log, e), NEW c, NEW t, NEW u
  PROVE  Through(log', c, t, u) = IF e.passed /\ e.client = c /\ e.at \in t..u
                              THEN Through(log, c, t, u) + 1 ELSE Through(log, c, t, u)
BY PassedAfterAppend, PassedIsFinite, FS_AddElement DEF Through

\* A refusal keeps the cause it had.
LEMMA CausesStand ==
  ASSUME log \in Seq(Entry), NEW e \in Entry, log' = Append(log, e),
         NEW n \in DOMAIN log, HasCause(log, n)
  PROVE  HasCause(log', n)
<1> DEFINE u == log[n].at
           t == IF u > Window THEN u - Window ELSE 0
           c == log[n].client
<1>1. log' \in Seq(Entry) /\ log'[n] = log[n]
  OBVIOUS
<1>2. \A d : PassedIn(log, d, t, u) \subseteq PassedIn(log', d, t, u)
  BY PassedAfterAppend
<1>3. CASE Through(log, c, t, u) >= Limit
  <2>1. Through(log, c, t, u) <= Through(log', c, t, u)
    BY <1>1, <1>2, PassedIsFinite, FS_Subset DEF Through
  <2>2. Through(log, c, t, u) \in Nat /\ Through(log', c, t, u) \in Nat
    BY <1>1, PassedIsFinite
  <2>3. Through(log', c, t, u) >= Limit
    BY <1>3, <2>1, <2>2, LimiterAssumption
  <2> QED
    BY <1>1, <2>3 DEF HasCause
<1>4. CASE Cardinality(Served(log, t, u)) > Capacity
  <2>1. Served(log, t, u) \subseteq Served(log', t, u)
    BY <1>2 DEF Served
  <2>2. IsFiniteSet(Served(log, t, u)) /\ IsFiniteSet(Served(log', t, u))
    BY <1>1, ServedIsFinite
  <2>3. Cardinality(Served(log, t, u)) <= Cardinality(Served(log', t, u))
    BY <2>1, <2>2, FS_Subset
  <2>4. Cardinality(Served(log', t, u)) > Capacity
    BY <1>4, <2>2, <2>3, FS_CardinalityType, LimiterAssumption
  <2> QED
    BY <1>1, <2>4 DEF HasCause
<1> QED
  BY <1>3, <1>4 DEF HasCause

-----------------------------------------------------------------------------
(* Lemmas about the buckets.                                                 *)

\* The sweep takes only buckets that are over, and none of a map with room.
LEMMA SweptBuckets ==
  /\ DOMAIN Swept \subseteq DOMAIN limits
  /\ \A c \in DOMAIN Swept : Swept[c] = limits[c]
  /\ \A c \in DOMAIN limits \ DOMAIN Swept : Over(limits[c].start)
  /\ Cardinality(DOMAIN limits) > Capacity =>
       \A c \in DOMAIN Swept : ~Over(limits[c].start)
  /\ ~(Cardinality(DOMAIN limits) > Capacity) => Swept = limits
BY DEF Swept, Restrict

\* A client without a running bucket is quiet.
LEMMA QuietClient ==
  ASSUME IndInv, NEW c \in Clients, c \notin DOMAIN limits \/ Over(limits[c].start)
  PROVE  Through(log, c, clock - Window, clock) <= Limit /\ PassedIn(log, c, clock, clock) = {}
<1>1. CASE c \notin DOMAIN limits
  BY <1>1 DEF IndInv, TheRestAreQuiet
<1>2. CASE c \in DOMAIN limits
  <2> DEFINE s == limits[c].start
             n == limits[c].count
  <2>1. /\ s \in Nat /\ clock \in Nat /\ Window \in Nat /\ Limit \in Nat /\ n \in Nat
        /\ clock - s > Window
    BY <1>2, LimiterAssumption DEF IndInv, TypeOK, Bucket, Over
  <2>2. /\ Through(log, c, s, clock) = IF n > Limit THEN Limit ELSE n
        /\ \A m \in PassedIn(log, c, 0, clock) : log[m].at <= s + Window
    BY <1>2 DEF IndInv, BucketsCount, Counts
  <2>3. PassedIn(log, c, clock - Window, clock) \subseteq PassedIn(log, c, s, clock)
    BY <2>1 DEF PassedIn, IndInv, TypeOK
  <2>4. Through(log, c, clock - Window, clock) <= Limit
    BY <2>1, <2>2, <2>3, ThroughIsMonotone, PassedIsFinite DEF IndInv
  <2>5. PassedIn(log, c, clock, clock) = {}
    <3>1. PassedIn(log, c, clock, clock) \subseteq PassedIn(log, c, 0, clock)
      BY <2>1 DEF PassedIn
    <3>2. \A m \in PassedIn(log, c, clock, clock) : log[m].at = clock
      BY <2>1 DEF PassedIn
    <3> QED
      BY <2>1, <2>2, <3>1, <3>2
  <2> QED
    BY <2>4, <2>5
<1> QED
  BY <1>1, <1>2

\* The bucket a request is counted in.
LEMMA CountedType ==
  ASSUME TypeOK, NEW c \in Clients
  PROVE  Counted(c) \in Bucket
BY LimiterAssumption DEF TypeOK, Counted, Bucket

-----------------------------------------------------------------------------
(* The steps.                                                                *)

LEMMA InitIndInv == Init => IndInv
<1> SUFFICES ASSUME Init PROVE IndInv
  OBVIOUS
<1>1. log = <<>> /\ limits = <<>> /\ clock = 0 /\ DOMAIN limits = {} /\ DOMAIN log = {}
  BY DEF Init
<1>2. IsFiniteSet(DOMAIN limits) /\ Cardinality(DOMAIN limits) = 0
  BY <1>1, FS_EmptySet
<1>3. \A c, t, u : PassedIn(log, c, t, u) = {} /\ Through(log, c, t, u) = 0
  BY <1>1, FS_EmptySet DEF PassedIn, Through
<1>4. TypeOK
  BY <1>1, <1>2, LimiterAssumption DEF TypeOK
<1>5. BucketsCount /\ TheRestAreQuiet /\ BurstIsBounded /\ RefusalHasCause
  BY <1>1, <1>3, LimiterAssumption, PropertiesOfTheLog DEF BucketsCount, TheRestAreQuiet
<1> QED
  BY <1>1, <1>2, <1>4, <1>5 DEF IndInv

\* When time passes, the spans that end now lose what is too old.
LEMMA TickIndInv ==
  ASSUME IndInv, Tick
  PROVE  IndInv'
<1> USE DEF IndInv
<1>1. /\ clock \in Nat /\ clock' = clock + 1 /\ clock' \in 0..MaxTime
      /\ limits' = limits /\ log' = log
  BY LimiterAssumption DEF Tick, TypeOK
<1>3. \A n \in DOMAIN log : log[n].at \in 0..clock
  BY DEF TypeOK
<1>4. TypeOK'
  BY <1>1 DEF TypeOK
<1>5. BucketsCount'
  <2> SUFFICES ASSUME NEW c \in DOMAIN limits'
               PROVE  Counts(log', c, limits'[c], clock')
    BY DEF BucketsCount
  <2> DEFINE b == limits[c]
  <2>1. b.start \in Nat /\ Counts(log, c, b, clock)
    BY <1>1 DEF TypeOK, Bucket, BucketsCount
  <2>2. /\ PassedIn(log, c, b.start, clock') = PassedIn(log, c, b.start, clock)
        /\ PassedIn(log, c, 0, clock') = PassedIn(log, c, 0, clock)
    BY <1>1, <1>3, <2>1 DEF PassedIn
  <2>3. Counts(log, c, b, clock')
    BY <1>1, <2>1, <2>2 DEF Counts, Through
  <2> QED
    BY <1>1, <2>3
<1>6. TheRestAreQuiet'
  <2> SUFFICES ASSUME NEW c \in Clients \ DOMAIN limits'
               PROVE  /\ Through(log', c, clock' - Window, clock') <= Limit
                      /\ PassedIn(log', c, clock', clock') = {}
    BY DEF TheRestAreQuiet
  <2>1. PassedIn(log, c, clock' - Window, clock')
          \subseteq PassedIn(log, c, clock - Window, clock)
    BY <1>1, <1>3, LimiterAssumption DEF PassedIn
  <2>2. Through(log, c, clock - Window, clock) <= Limit
    BY <1>1 DEF TheRestAreQuiet
  <2>3. Through(log, c, clock' - Window, clock') <= Limit
    BY <2>1, <2>2, ThroughIsMonotone, PassedIsFinite, LimiterAssumption
  <2>4. PassedIn(log, c, clock', clock') = {}
    BY <1>1, <1>3 DEF PassedIn
  <2> QED
    BY <1>1, <2>3, <2>4
<1>7. BurstIsBounded' /\ RefusalHasCause'
  BY <1>1, PropertiesOfTheLog
<1> QED
  BY <1>1, <1>4, <1>5, <1>6, <1>7

\* With a bucket that counts, any span of one window that ends now is two
\* spans of one limit each.
LEMMA BurstNow ==
  ASSUME NEW l \in Seq(Entry), NEW u \in Nat, \A n \in DOMAIN l : l[n].at <= u,
         NEW c, NEW b \in Bucket, Counts(l, c, b, u), NEW t \in Nat, t + Window >= u
  PROVE  Through(l, c, t, t + Window) <= 2 * Limit
<1> DEFINE s == b.start
<1>1. /\ Window \in Nat /\ Limit \in Nat /\ s \in Nat /\ b.count \in Nat /\ s <= u
  BY LimiterAssumption DEF Bucket, Counts
<1>2. \A n \in DOMAIN l : l[n].at \in Nat
  <2>1. \A n \in DOMAIN l : l[n] \in Entry
    OBVIOUS
  <2> QED
    BY <2>1 DEF Entry
<1>3. PassedIn(l, c, t, t + Window)
        \subseteq PassedIn(l, c, s - Window, s - 1) \cup PassedIn(l, c, s, u)
  BY <1>1, <1>2 DEF PassedIn
<1>4. Through(l, c, s - Window, s - 1) <= Limit
  BY DEF Counts
<1>5. Through(l, c, s, u) <= Limit
  BY <1>1 DEF Counts
<1>6. Through(l, c, t, t + Window) <= Through(l, c, s - Window, s - 1) + Through(l, c, s, u)
  BY <1>3, ThroughIsSubadditive
<1> QED
  BY <1>1, <1>4, <1>5, <1>6, PassedIsFinite

\* A request that is refused because the map is full.
LEMMA RefusedByMap ==
  ASSUME IndInv, Full, limits' = Swept, clock' = clock, NEW e \in Entry,
         e.at = clock, ~e.passed, log' = Append(log, e)
  PROVE  IndInv'
<1> USE DEF IndInv
<1>1. /\ clock \in Nat /\ Len(log) \in Nat /\ DOMAIN log = 1..Len(log) /\ e.client \in Clients
  BY DEF TypeOK, Entry
<1>2. /\ log' \in Seq(Entry) /\ DOMAIN log' = 1..Len(log) + 1
      /\ log'[Len(log) + 1] = e /\ \A n \in 1..Len(log) : log'[n] = log[n]
  OBVIOUS
<1>3. \A d, t, u : /\ PassedIn(log', d, t, u) = PassedIn(log, d, t, u)
                   /\ Through(log', d, t, u) = Through(log, d, t, u)
  BY PassedAfterAppend, ThroughAfterAppend
<1>4. /\ DOMAIN limits' \subseteq DOMAIN limits
      /\ \A d \in DOMAIN limits' : limits'[d] = limits[d]
      /\ \A d \in DOMAIN limits \ DOMAIN limits' : Over(limits[d].start)
  BY SweptBuckets
<1>5. IsFiniteSet(DOMAIN limits') /\ Cardinality(DOMAIN limits') <= Capacity + 1
  <2>1. /\ IsFiniteSet(DOMAIN limits')
        /\ Cardinality(DOMAIN limits') <= Cardinality(DOMAIN limits)
    BY <1>4, FS_Subset
  <2>2. Cardinality(DOMAIN limits') \in Nat /\ Cardinality(DOMAIN limits) \in Nat
    BY <2>1, FS_CardinalityType
  <2> QED
    BY <2>1, <2>2, LimiterAssumption DEF TypeOK
<1>6. TypeOK'
  <2>1. /\ DOMAIN limits' \subseteq Clients
        /\ \A d \in DOMAIN limits' : limits'[d] \in Bucket
    BY <1>4 DEF TypeOK
  <2>2. e \in [client : Clients, at : 0..clock, passed : BOOLEAN]
    BY <1>1 DEF Entry
  <2>3. \A n \in DOMAIN log' : log'[n] \in [client : Clients, at : 0..clock, passed : BOOLEAN]
    BY <1>1, <1>2, <2>2 DEF TypeOK
  <2> QED
    BY <1>1, <1>5, <2>1, <2>3 DEF TypeOK
<1>7. BucketsCount'
  <2> SUFFICES ASSUME NEW d \in DOMAIN limits'
               PROVE  Counts(log', d, limits'[d], clock')
    BY DEF BucketsCount
  <2>1. limits'[d] = limits[d] /\ Counts(log, d, limits[d], clock)
    BY <1>4 DEF BucketsCount
  <2>2. \A n \in PassedIn(log, d, 0, clock) : log'[n] = log[n]
    BY <1>1, <1>2 DEF PassedIn
  <2>3. \A n \in PassedIn(log', d, 0, clock) : log'[n].at <= limits[d].start + Window
    BY <1>3, <2>1, <2>2 DEF Counts
  <2>4. Counts(log', d, limits[d], clock)
    BY <1>3, <2>1, <2>3 DEF Counts
  <2> QED
    BY <2>1, <2>4
<1>8. TheRestAreQuiet'
  <2> SUFFICES ASSUME NEW d \in Clients \ DOMAIN limits'
               PROVE  /\ Through(log', d, clock - Window, clock) <= Limit
                      /\ PassedIn(log', d, clock, clock) = {}
    BY DEF TheRestAreQuiet
  <2> QED
    BY <1>3, <1>4, QuietClient
<1>9. BurstIsBounded'
  BY <1>3, PropertiesOfTheLog
<1>10. HasCause(log', Len(log) + 1)
  <2> DEFINE t == IF clock > Window THEN clock - Window ELSE 0
  <2>1. Cardinality(DOMAIN limits) > Capacity
    BY SweptBuckets DEF Full
  <2>2. \A d \in DOMAIN limits' : d \in Clients /\ PassedIn(log, d, t, clock) # {}
    <3> SUFFICES ASSUME NEW d \in DOMAIN limits' PROVE PassedIn(log, d, t, clock) # {}
      BY <1>6 DEF TypeOK
    <3> DEFINE s == limits[d].start
               k == limits[d].count
    <3>1. /\ d \in DOMAIN limits /\ ~Over(s) /\ s \in Nat /\ k \in Nat \ {0}
          /\ Window \in Nat /\ Limit \in Nat \ {0}
      BY <1>4, <2>1, SweptBuckets, LimiterAssumption DEF TypeOK, Bucket
    <3>2. Through(log, d, s, clock) = IF k > Limit THEN Limit ELSE k
      BY <3>1 DEF BucketsCount, Counts
    <3>3. Through(log, d, s, clock) # 0
      BY <3>1, <3>2
    <3>4. PassedIn(log, d, s, clock) # {}
      BY <3>3, FS_EmptySet DEF Through
    <3>5. PassedIn(log, d, s, clock) \subseteq PassedIn(log, d, t, clock)
      BY <1>1, <3>1 DEF PassedIn, Over, TypeOK
    <3> QED
      BY <3>4, <3>5
  <2>3. \A d \in DOMAIN limits' : PassedIn(log', d, t, clock) # {}
    BY <1>3, <2>2
  <2> HIDE DEF t
  <2>4. DOMAIN limits' \subseteq Served(log', t, clock)
    BY <2>2, <2>3 DEF Served
  <2>5. Cardinality(DOMAIN limits') <= Cardinality(Served(log', t, clock))
    BY <1>2, <2>4, ServedIsFinite, FS_Subset
  <2>6. Cardinality(DOMAIN limits') \in Nat /\ Cardinality(Served(log', t, clock)) \in Nat
    BY <1>2, <1>5, ServedIsFinite, FS_CardinalityType
  <2>7. Cardinality(Served(log', t, clock)) > Capacity
    BY <2>5, <2>6, LimiterAssumption DEF Full
  <2> QED
    BY <1>1, <1>2, <2>7 DEF HasCause, t
<1>11. RefusalHasCause'
  BY <1>1, <1>2, <1>10, CausesStand, PropertiesOfTheLog
<1> QED
  BY <1>2, <1>5, <1>6, <1>7, <1>8, <1>9, <1>11

\* The bucket a request is counted in counts it.
LEMMA CountedCounts ==
  ASSUME IndInv, NEW c \in Clients, NEW e \in Entry, e.client = c, e.at = clock,
         e.passed <=> Counted(c).count <= Limit, log' = Append(log, e)
  PROVE  Counts(log', c, Counted(c), clock)
<1> DEFINE b == Counted(c)
           s == b.start
<1> USE DEF IndInv
<1>1. /\ clock \in Nat /\ Window \in Nat /\ Limit \in Nat \ {0}
      /\ Len(log) \in Nat /\ DOMAIN log = 1..Len(log)
  BY LimiterAssumption DEF TypeOK
<1>2. /\ log'[Len(log) + 1] = e /\ DOMAIN log' = 1..Len(log) + 1
      /\ \A n \in 1..Len(log) : log'[n] = log[n]
  OBVIOUS
<1>3. \A t, u : clock \notin t..u => Through(log', c, t, u) = Through(log, c, t, u)
  BY ThroughAfterAppend
<1>4. \A t, u : clock \in t..u =>
        Through(log', c, t, u) = IF b.count <= Limit THEN Through(log, c, t, u) + 1
                                 ELSE Through(log, c, t, u)
  BY ThroughAfterAppend
<1>5. \A n \in PassedIn(log', c, 0, clock) :
        log'[n].at = clock \/ (n \in PassedIn(log, c, 0, clock) /\ log'[n] = log[n])
  BY <1>1, <1>2 DEF PassedIn
<1>6. CASE c \in DOMAIN limits /\ ~Over(limits[c].start)
  <2> DEFINE old == limits[c]
  <2>1. /\ old.start \in Nat /\ old.count \in Nat /\ Counts(log, c, old, clock)
        /\ clock - old.start <= Window /\ old.start <= clock
    BY <1>1, <1>6 DEF TypeOK, Bucket, BucketsCount, Counts, Over
  <2>2. s = old.start /\ b.count = IF old.count > Limit THEN old.count ELSE old.count + 1
    BY <1>6 DEF Counted, TypeOK, Bucket
  <2>3. Through(log', c, s, clock) = IF b.count > Limit THEN Limit ELSE b.count
    BY <1>1, <1>4, <2>1, <2>2 DEF Counts
  <2>4. Through(log', c, s - Window, s - 1) <= Limit
    BY <1>1, <1>3, <2>1, <2>2 DEF Counts
  <2>5. \A n \in PassedIn(log', c, 0, clock) : log'[n].at <= s + Window
    <3>1. \A n \in PassedIn(log, c, 0, clock) : log[n].at <= s + Window
      BY <2>1, <2>2 DEF Counts
    <3>2. clock <= s + Window
      BY <1>1, <2>1, <2>2
    <3> QED
      BY <1>5, <3>1, <3>2
  <2> QED
    BY <2>1, <2>2, <2>3, <2>4, <2>5 DEF Counts
<1>7. CASE ~(c \in DOMAIN limits /\ ~Over(limits[c].start))
  <2>1. s = clock /\ b.count = 1
    BY <1>7 DEF Counted
  <2>2. Through(log, c, clock - Window, clock) <= Limit /\ PassedIn(log, c, clock, clock) = {}
    BY <1>7, QuietClient
  <2>3. Through(log, c, clock, clock) = 0
    BY <2>2, FS_EmptySet DEF Through
  <2>4. Through(log', c, s, clock) = 1
    BY <1>1, <1>4, <2>1, <2>3
  <2>5. Through(log', c, s - Window, s - 1) <= Limit
    <3>1. PassedIn(log, c, clock - Window, clock - 1)
            \subseteq PassedIn(log, c, clock - Window, clock)
      BY <1>1 DEF PassedIn, TypeOK
    <3>2. Through(log, c, clock - Window, clock - 1) <= Limit
      BY <1>1, <2>2, <3>1, ThroughIsMonotone, PassedIsFinite
    <3> QED
      BY <1>1, <1>3, <2>1, <3>2
  <2>6. \A n \in PassedIn(log', c, 0, clock) : log'[n].at <= s + Window
    BY <1>1, <1>2, <2>1 DEF PassedIn, TypeOK
  <2>7. Through(log', c, s, clock) = IF b.count > Limit THEN Limit ELSE b.count
    BY <1>1, <2>1, <2>4
  <2>8. s <= clock
    BY <1>1, <2>1
  <2> QED
    BY <2>5, <2>6, <2>7, <2>8 DEF Counts
<1> QED
  BY <1>6, <1>7

\* A request that is counted.
LEMMA RequestCounted ==
  ASSUME IndInv, ~Full, NEW c \in Clients, NEW e \in Entry, e.client = c, e.at = clock,
         e.passed <=> Counted(c).count <= Limit, log' = Append(log, e), clock' = clock,
         limits' = [d \in DOMAIN Swept \cup {c} |-> IF d = c THEN Counted(c) ELSE Swept[d]]
  PROVE  IndInv'
<1> USE DEF IndInv
<1>1. /\ clock \in Nat /\ Window \in Nat /\ Limit \in Nat \ {0}
      /\ Len(log) \in Nat /\ DOMAIN log = 1..Len(log)
  BY LimiterAssumption DEF TypeOK
<1>2. /\ log' \in Seq(Entry) /\ DOMAIN log' = 1..Len(log) + 1
      /\ log'[Len(log) + 1] = e /\ \A n \in 1..Len(log) : log'[n] = log[n]
  OBVIOUS
<1>3. /\ \A d, t, u : d # c => /\ PassedIn(log', d, t, u) = PassedIn(log, d, t, u)
                               /\ Through(log', d, t, u) = Through(log, d, t, u)
      /\ \A t, u : clock \notin t..u => Through(log', c, t, u) = Through(log, c, t, u)
  BY PassedAfterAppend, ThroughAfterAppend
<1>4. /\ DOMAIN limits' = DOMAIN Swept \cup {c} /\ limits'[c] = Counted(c)
      /\ \A d \in DOMAIN limits' \ {c} : d \in DOMAIN limits /\ limits'[d] = limits[d]
      /\ \A d \in DOMAIN limits \ DOMAIN limits' : Over(limits[d].start)
  BY SweptBuckets
<1>5. Counted(c) \in Bucket
  BY CountedType
<1>6. IsFiniteSet(DOMAIN limits') /\ Cardinality(DOMAIN limits') <= Capacity + 1
  <2>1. IsFiniteSet(DOMAIN Swept)
    BY SweptBuckets, FS_Subset
  <2>2. Cardinality(DOMAIN Swept) \in Nat /\ ~(Cardinality(DOMAIN Swept) > Capacity)
    BY <2>1, FS_CardinalityType DEF Full
  <2>3. /\ IsFiniteSet(DOMAIN limits')
        /\ \/ Cardinality(DOMAIN limits') = Cardinality(DOMAIN Swept)
           \/ Cardinality(DOMAIN limits') = Cardinality(DOMAIN Swept) + 1
    BY <1>4, <2>1, FS_AddElement
  <2> QED
    BY <2>2, <2>3, LimiterAssumption
<1>7. TypeOK'
  <2>1. /\ DOMAIN limits' \subseteq Clients
        /\ \A d \in DOMAIN limits' : limits'[d] \in Bucket
    BY <1>4, <1>5 DEF TypeOK
  <2>2. e \in [client : Clients, at : 0..clock, passed : BOOLEAN]
    BY <1>1 DEF Entry
  <2>3. \A n \in DOMAIN log' : log'[n] \in [client : Clients, at : 0..clock, passed : BOOLEAN]
    BY <1>1, <1>2, <2>2 DEF TypeOK
  <2> QED
    BY <1>1, <1>6, <2>1, <2>3 DEF TypeOK
<1>8. Counts(log', c, Counted(c), clock)
  BY CountedCounts
<1>9. BucketsCount'
  <2> SUFFICES ASSUME NEW d \in DOMAIN limits'
               PROVE  Counts(log', d, limits'[d], clock')
    BY DEF BucketsCount
  <2>1. CASE d = c
    BY <1>4, <1>8, <2>1
  <2>2. CASE d # c
    <3>1. limits'[d] = limits[d] /\ Counts(log, d, limits[d], clock)
      BY <1>4, <2>2 DEF BucketsCount
    <3>2. \A n \in PassedIn(log, d, 0, clock) : log'[n] = log[n]
      BY <1>1, <1>2 DEF PassedIn
    <3>3. \A t, u : /\ PassedIn(log', d, t, u) = PassedIn(log, d, t, u)
                    /\ Through(log', d, t, u) = Through(log, d, t, u)
      BY <1>3, <2>2
    <3>4. \A n \in PassedIn(log', d, 0, clock) : log'[n].at <= limits[d].start + Window
      <4>1. \A n \in PassedIn(log, d, 0, clock) : log[n].at <= limits[d].start + Window
        BY <3>1 DEF Counts
      <4>2. PassedIn(log', d, 0, clock) = PassedIn(log, d, 0, clock)
        BY <3>3
      <4> QED
        BY <3>2, <4>1, <4>2
    <3>5. Counts(log', d, limits[d], clock)
      BY <3>1, <3>3, <3>4 DEF Counts
    <3> QED
      BY <3>1, <3>5
  <2> QED
    BY <2>1, <2>2
<1>10. TheRestAreQuiet'
  <2> SUFFICES ASSUME NEW d \in Clients \ DOMAIN limits'
               PROVE  /\ Through(log', d, clock - Window, clock) <= Limit
                      /\ PassedIn(log', d, clock, clock) = {}
    BY DEF TheRestAreQuiet
  <2> QED
    BY <1>3, <1>4, QuietClient
<1>11. BurstIsBounded'
  <2> SUFFICES ASSUME NEW d \in Clients, NEW t \in 0..MaxTime
               PROVE  Through(log', d, t, t + Window) <= 2 * Limit
    BY PropertiesOfTheLog
  <2>1. t \in Nat /\ Through(log, d, t, t + Window) <= 2 * Limit
    BY LimiterAssumption, PropertiesOfTheLog
  <2>2. CASE d # c \/ clock \notin t..t + Window
    BY <1>3, <2>1, <2>2
  <2>3. CASE d = c /\ clock \in t..t + Window
    <3>1. \A n \in DOMAIN log : log[n].at <= clock
      BY <1>1 DEF TypeOK
    <3>2. \A n \in DOMAIN log' : log'[n].at <= clock
      BY <1>1, <1>2, <3>1
    <3>3. t + Window >= clock
      BY <1>1, <2>1, <2>3
    <3>4. Through(log', c, t, t + Window) <= 2 * Limit
      BY <1>1, <1>2, <1>5, <1>8, <2>1, <3>2, <3>3, BurstNow
    <3> QED
      BY <2>3, <3>4
  <2> QED
    BY <2>2, <2>3
<1>12. ~e.passed => HasCause(log', Len(log) + 1)
  <2> SUFFICES ASSUME ~e.passed PROVE HasCause(log', Len(log) + 1)
    OBVIOUS
  <2> DEFINE t == IF clock > Window THEN clock - Window ELSE 0
             b == limits[c]
  <2>1. c \in DOMAIN limits /\ ~Over(b.start) /\ b.count >= Limit
    BY <1>1 DEF Counted, TypeOK, Bucket
  <2>2. b.start \in Nat /\ b.count \in Nat /\ Counts(log, c, b, clock)
    BY <2>1 DEF TypeOK, Bucket, BucketsCount
  <2>3. Through(log, c, b.start, clock) = Limit
    BY <1>1, <2>1, <2>2 DEF Counts
  <2>4. PassedIn(log, c, b.start, clock) \subseteq PassedIn(log, c, t, clock)
    BY <1>1, <2>1, <2>2 DEF PassedIn, Over, TypeOK
  <2>5. Through(log, c, t, clock) >= Limit
    BY <1>1, <2>3, <2>4, ThroughIsMonotone, PassedIsFinite
  <2>6. Through(log', c, t, clock) = Through(log, c, t, clock)
    BY ThroughAfterAppend
  <2> QED
    BY <1>1, <1>2, <2>5, <2>6 DEF HasCause
<1>13. RefusalHasCause'
  BY <1>1, <1>2, <1>12, CausesStand, PropertiesOfTheLog
<1> QED
  BY <1>2, <1>6, <1>7, <1>9, <1>10, <1>11, <1>13

LEMMA NextIndInv == IndInv /\ [Next]_vars => IndInv'
<1> SUFFICES ASSUME IndInv, [Next]_vars PROVE IndInv'
  OBVIOUS
<1>1. CASE Tick
  BY <1>1, TickIndInv
<1>2. ASSUME NEW c \in Clients, Request(c) PROVE IndInv'
  <2> DEFINE e(p) == [client |-> c, at |-> clock, passed |-> p]
  <2>1. \A p \in BOOLEAN : /\ e(p) \in Entry /\ e(p).client = c /\ e(p).at = clock
                           /\ e(p).passed = p
    BY LimiterAssumption DEF IndInv, TypeOK, Entry
  <2>2. CASE Full
    <3>1. limits' = Swept /\ clock' = clock /\ log' = Append(log, e(FALSE))
      BY <1>2, <2>2 DEF Request
    <3> HIDE DEF e
    <3> QED
      BY <2>1, <2>2, <3>1, RefusedByMap
  <2>3. CASE ~Full
    <3>1. /\ limits' = [d \in DOMAIN Swept \cup {c} |->
                          IF d = c THEN Counted(c) ELSE Swept[d]]
          /\ clock' = clock /\ log' = Append(log, e(Counted(c).count <= Limit))
      BY <1>2, <2>3 DEF Request
    <3>2. (Counted(c).count <= Limit) \in BOOLEAN
      OBVIOUS
    <3> HIDE DEF e
    <3> QED
      BY <2>1, <2>3, <3>1, <3>2, RequestCounted
  <2> QED
    BY <2>2, <2>3
<1>3. CASE UNCHANGED vars
  <2>1. UNCHANGED <<limits, clock, log>>
    BY <1>3 DEF vars
  <2>2. TypeOK' /\ BucketsCount' /\ TheRestAreQuiet' /\ BurstIsBounded' /\ RefusalHasCause'
    BY <2>1, PropertiesOfTheLog DEF IndInv, TypeOK, BucketsCount, TheRestAreQuiet
  <2> QED
    BY <2>1, <2>2 DEF IndInv
<1> QED
  BY <1>1, <1>2, <1>3 DEF Next

LEMMA Invariance == Spec => []IndInv
BY InitIndInv, NextIndInv, PTL DEF Spec

-----------------------------------------------------------------------------
(* The theorems.                                                             *)

\* Buckets stay well formed, and the map never holds more than one client over
\* its capacity.
THEOREM RateLimiterTypeCorrect == Spec => []TypeOK
<1>1. IndInv => TypeOK
  BY DEF IndInv
<1> QED
  BY <1>1, Invariance, PTL

\* A client gets at most two limits through in any span of one window, however
\* its buckets are swept and start again.
THEOREM BurstIsBoundedHolds == Spec => []BurstIsBounded
<1>1. IndInv => BurstIsBounded
  BY DEF IndInv
<1> QED
  BY <1>1, Invariance, PTL

\* Every refusal has a cause in the last window that is not itself a refusal:
\* nobody is locked out by requests that were refused.
THEOREM RefusalHasCauseHolds == Spec => []RefusalHasCause
<1>1. IndInv => RefusalHasCause
  BY DEF IndInv
<1> QED
  BY <1>1, Invariance, PTL
=============================================================================
