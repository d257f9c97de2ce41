---------------------------- MODULE CatalogProofs ----------------------------
(* For any policy keys, days, moments and number of imports: at most one     *)
(* accepted version of a key applies anywhere, every row cites its source,   *)
(* and the catalog implements Timeline.                                      *)
(*                                                                           *)
(* The argument is geometric.  A row covers a rectangle of days and moments  *)
(* of knowledge; accepted rows of one key never meet (RowsAreApart).  A      *)
(* commit cuts the rows it supersedes at its own timestamp: below it the old *)
(* rectangle stays, above it only the days beside the bundle's.  That needs  *)
(* no closed row to reach past the timestamp of a later import               *)
(* (ClosedBeforeNow).                                                        *)
EXTENDS Catalog, FiniteSetTheorems, TLAPS

\* Two accepted rows of one key share a day and a moment of knowledge.
Meet(r, s) ==
  /\ r.key = s.key /\ r.status = "accepted" /\ s.status = "accepted"
  /\ r.lo < s.hi /\ s.lo < r.hi
  /\ r.from < s.until /\ s.from < r.until

RowsAreApart == \A r, s \in rows : Meet(r, s) => r = s

\* The timestamp of the open import, or else the earliest that the next one can get.
Now == IF tx = NoTx THEN clock ELSE tx.now

ClosedBeforeNow == \A r \in rows : r.until = Forever \/ r.until <= Now

\* An import is only begun while there is room for its source.
RoomForSource == tx # NoTx => Len(sources) < MaxSources

CatalogInv ==
  /\ RowsAreApart
  /\ ClosedBeforeNow
  /\ RoomForSource
  /\ RowsCiteTheirSource

USE CatalogAssumption DEF Days, Moments, Forever

-----------------------------------------------------------------------------
(* What a commit writes.                                                    *)

LEMMA OpenTx ==
  ASSUME TypeOK, tx # NoTx
  PROVE  /\ tx.bundle \in Bundle /\ tx.accept \in BOOLEAN /\ tx.supersede \in BOOLEAN
         /\ tx.now \in 0..clock /\ tx.now \in 0..MaxTime
<1>1. tx \in [open : {TRUE}, bundle : Bundle, accept : BOOLEAN, supersede : BOOLEAN,
             now : 0..clock]
  BY DEF TypeOK
<1>2. clock \in 0..MaxTime
  BY DEF TypeOK
<1>3. /\ tx.bundle \in Bundle /\ tx.accept \in BOOLEAN /\ tx.supersede \in BOOLEAN
      /\ tx.now \in 0..clock
  BY <1>1
<1>4. QED
  BY <1>2, <1>3

LEMMA BundleFacts ==
  ASSUME NEW b \in Bundle
  PROVE  /\ b.value \in [Keys -> Values \cup {0}]
         /\ b.lo \in Days /\ b.hi \in 1..MaxDay \cup {Forever} /\ b.lo < b.hi
BY DEF Bundle

LEMMA RowFacts ==
  ASSUME NEW r \in Row
  PROVE  /\ r.key \in Keys /\ r.value \in Values
         /\ r.lo \in Days /\ r.hi \in 1..MaxDay \cup {Forever} /\ r.lo < r.hi
         /\ r.from \in 0..MaxTime /\ r.until \in 1..MaxTime \cup {Forever} /\ r.from < r.until
         /\ r.status \in {"pending", "accepted"} /\ r.source \in 1..MaxSources
BY DEF Row

\* What is true of a row that an import closes.
LEMMA SupersededRow ==
  ASSUME TypeOK, tx # NoTx, ~Refused, NEW r \in Superseded
  PROVE  /\ r \in rows /\ r \in Row /\ tx.accept
         /\ r.status = "accepted" /\ r.until = Forever
         /\ r.lo < tx.bundle.hi /\ tx.bundle.lo < r.hi
         /\ r.from < tx.now /\ r.key \in BundleKeys
<1>1. r \in rows /\ tx.accept
  BY DEF Superseded, Overlaps
<1>2. r \in Row
  BY <1>1 DEF TypeOK
<1>3. /\ r.status = "accepted" /\ r.until = Forever
      /\ r.lo < tx.bundle.hi /\ tx.bundle.lo < r.hi /\ r.key \in BundleKeys
  BY DEF Superseded, Overlaps
<1>4. r.from < tx.now
  BY <1>2, RowFacts, OpenTx DEF Refused
<1>5. QED
  BY <1>1, <1>2, <1>3, <1>4

\* A row of the bundle's keys that is accepted, current and shares a day with
\* the bundle is superseded by an accepted import.
LEMMA CurrentOverlapIsSuperseded ==
  ASSUME tx.accept, NEW r \in rows, r.key \in BundleKeys, r.status = "accepted",
         r.until = Forever, r.lo < tx.bundle.hi, tx.bundle.lo < r.hi
  PROVE  r \in Superseded
BY DEF Superseded, Overlaps

LEMMA ClosedRow ==
  ASSUME TypeOK, tx # NoTx, ~Refused, NEW r \in Superseded
  PROVE  /\ Closed(r) \in Row
         /\ Closed(r).key = r.key /\ Closed(r).value = r.value
         /\ Closed(r).status = r.status /\ Closed(r).source = r.source
         /\ Closed(r).lo = r.lo /\ Closed(r).hi = r.hi
         /\ Closed(r).from = r.from /\ Closed(r).until = tx.now
<1>1. r \in Row /\ r.from < tx.now /\ tx.now \in 0..MaxTime
  BY SupersededRow, OpenTx
<1>2. QED
  BY <1>1 DEF Closed, Row

\* A slice keeps its row's days on one side of the bundle, and is known from
\* the import's timestamp on.
LEMMA SliceRow ==
  ASSUME TypeOK, tx # NoTx, ~Refused, NEW r \in Superseded, NEW s \in Slices(r)
  PROVE  /\ s \in Row
         /\ s.key = r.key /\ s.value = r.value /\ s.status = r.status /\ s.source = r.source
         /\ s.from = tx.now /\ s.until = Forever
         /\ \/ s.lo = r.lo /\ s.hi = tx.bundle.lo
            \/ s.lo = tx.bundle.hi /\ s.hi = r.hi
         /\ r.lo <= s.lo /\ s.hi <= r.hi /\ s.lo < s.hi
<1>1. /\ r \in Row /\ r.from < tx.now /\ r.until = Forever /\ tx.now \in 0..MaxTime
      /\ r.lo < tx.bundle.hi /\ tx.bundle.lo < r.hi
  BY SupersededRow, OpenTx
<1>2. /\ tx.bundle.lo \in Days /\ tx.bundle.hi \in 1..MaxDay \cup {Forever}
  BY OpenTx, BundleFacts
<1>3. PICK p \in Parts(r) : s = [r EXCEPT !.lo = p[1], !.hi = p[2], !.from = tx.now]
  BY DEF Slices
<1>4. p[1] < p[2] /\ \/ p[1] = r.lo /\ p[2] = tx.bundle.lo
                     \/ p[1] = tx.bundle.hi /\ p[2] = r.hi
  BY DEF Parts
<1>5. PICK l, h : /\ s = [r EXCEPT !.lo = l, !.hi = h, !.from = tx.now] /\ l < h
                  /\ \/ l = r.lo /\ h = tx.bundle.lo
                     \/ l = tx.bundle.hi /\ h = r.hi
  BY <1>3, <1>4
<1>6. l \in Days /\ h \in 1..MaxDay \cup {Forever} /\ tx.now \in 0..MaxTime /\ tx.now < r.until
  BY <1>1, <1>2, <1>5, RowFacts
<1>7. /\ s \in Row /\ s.lo = l /\ s.hi = h /\ s.from = tx.now /\ s.until = r.until
      /\ s.key = r.key /\ s.value = r.value /\ s.status = r.status /\ s.source = r.source
  BY <1>1, <1>5, <1>6 DEF Row
<1>8. QED
  BY <1>1, <1>2, <1>5, <1>7, RowFacts

\* Both sides of the bundle are kept, where the row reaches past it.
LEMMA SlicesExist ==
  ASSUME TypeOK, tx # NoTx, ~Refused, NEW r \in Superseded
  PROVE  /\ r.lo < tx.bundle.lo => \E s \in Slices(r) : s.lo = r.lo /\ s.hi = tx.bundle.lo
         /\ tx.bundle.hi < r.hi => \E s \in Slices(r) : s.lo = tx.bundle.hi /\ s.hi = r.hi
<1>1. r \in Row
  BY SupersededRow
<1>2. ASSUME NEW l, NEW h, <<l, h>> \in Parts(r)
      PROVE  \E s \in Slices(r) : s.lo = l /\ s.hi = h
  <2> DEFINE s == [r EXCEPT !.lo = <<l, h>>[1], !.hi = <<l, h>>[2], !.from = tx.now]
  <2>1. s \in Slices(r)
    BY <1>2 DEF Slices
  <2>2. QED
    BY <1>1, <2>1 DEF Row
<1>3. /\ r.lo < tx.bundle.lo => <<r.lo, tx.bundle.lo>> \in Parts(r)
      /\ tx.bundle.hi < r.hi => <<tx.bundle.hi, r.hi>> \in Parts(r)
  BY DEF Parts
<1>4. QED
  BY <1>2, <1>3

LEMMA NewRow ==
  ASSUME TypeOK, RoomForSource, tx # NoTx, NEW n \in NewRows
  PROVE  /\ n \in Row /\ n.key \in BundleKeys /\ n.value = tx.bundle.value[n.key]
         /\ n.lo = tx.bundle.lo /\ n.hi = tx.bundle.hi
         /\ n.from = tx.now /\ n.until = Forever /\ n.source = Len(sources) + 1
         /\ n.status = IF tx.accept THEN "accepted" ELSE "pending"
<1>1. /\ tx.bundle \in Bundle /\ tx.now \in 0..MaxTime
      /\ Len(sources) \in Nat /\ Len(sources) < MaxSources
  <2>1. Len(sources) \in Nat
    BY DEF TypeOK
  <2>2. QED
    BY <2>1, OpenTx DEF RoomForSource
<1>2. PICK k \in BundleKeys :
        n = [key |-> k, value |-> tx.bundle.value[k], lo |-> tx.bundle.lo, hi |-> tx.bundle.hi,
             from |-> tx.now, until |-> Forever, source |-> Len(sources) + 1,
             status |-> IF tx.accept THEN "accepted" ELSE "pending"]
  BY DEF NewRows
<1>3. k \in Keys /\ tx.bundle.value[k] \in Values
  BY <1>1, BundleFacts DEF BundleKeys
<1>4. n \in Row
  BY <1>1, <1>2, <1>3, BundleFacts DEF Row
<1>5. QED
  BY <1>2, <1>4

LEMMA NewRowExists ==
  ASSUME NEW k \in BundleKeys
  PROVE  \E n \in NewRows : n.key = k
<1> DEFINE n == [key |-> k, value |-> tx.bundle.value[k], lo |-> tx.bundle.lo,
                 hi |-> tx.bundle.hi, from |-> tx.now, until |-> Forever,
                 source |-> Len(sources) + 1,
                 status |-> IF tx.accept THEN "accepted" ELSE "pending"]
<1>1. n \in NewRows
  BY DEF NewRows
<1>2. n.key = k
  OBVIOUS
<1>3. QED
  BY <1>1, <1>2

\* The four kinds of rows after a commit.
LEMMA RowsAfterCommit ==
  ASSUME Commit, NEW s
  PROVE  s \in rows' <=>
           \/ s \in rows /\ s \notin Superseded
           \/ \E r \in Superseded : s = Closed(r)
           \/ \E r \in Superseded : s \in Slices(r)
           \/ s \in NewRows
<1> DEFINE C == {Closed(r) : r \in Superseded}
           S == UNION {Slices(r) : r \in Superseded}
<1>1. rows' = (rows \ Superseded) \cup C \cup S \cup NewRows
  BY DEF Commit
<1>2. s \in C <=> \E r \in Superseded : s = Closed(r)
  OBVIOUS
<1>3. s \in S <=> \E r \in Superseded : s \in Slices(r)
  OBVIOUS
<1> HIDE DEF C, S
<1>4. s \in rows' <=> (s \in rows /\ s \notin Superseded) \/ s \in C \/ s \in S \/ s \in NewRows
  BY <1>1
<1>5. QED
  BY <1>2, <1>3, <1>4, Zenon

-----------------------------------------------------------------------------
(* Type correctness.                                                        *)

LEMMA Element ==
  ASSUME NEW S, NEW q \in Seq(S), NEW n \in DOMAIN q
  PROVE  q[n] \in S
OBVIOUS

LEMMA InitTypeOK == Init => TypeOK
BY DEF Init, TypeOK

LEMMA BeginTypeOK ==
  ASSUME TypeOK, NEW b \in Bundle, NEW accept \in BOOLEAN, NEW supersede \in BOOLEAN,
         Begin(b, accept, supersede)
  PROVE  TypeOK'
BY DEF TypeOK, Begin, Row, Bundle

LEMMA CommitTypeOK ==
  ASSUME TypeOK, RoomForSource, Commit
  PROVE  TypeOK'
<1>1. tx # NoTx /\ ~Refused /\ tx' = NoTx /\ clock' = clock
  BY DEF Commit
<1>2. rows' \subseteq Row
  <2> SUFFICES ASSUME NEW s \in rows' PROVE s \in Row
    OBVIOUS
  <2>1. CASE s \in rows
    BY <2>1 DEF TypeOK
  <2>2. CASE \E r \in Superseded : s = Closed(r)
    BY <1>1, <2>2, ClosedRow
  <2>3. CASE \E r \in Superseded : s \in Slices(r)
    BY <1>1, <2>3, SliceRow
  <2>4. CASE s \in NewRows
    BY <1>1, <2>4, NewRow
  <2>5. QED
    BY <2>1, <2>2, <2>3, <2>4, RowsAfterCommit
<1>3. sources' \in Seq([bundle : Bundle, accepted : BOOLEAN])
  <2>1. [bundle |-> tx.bundle, accepted |-> tx.accept] \in [bundle : Bundle, accepted : BOOLEAN]
    BY <1>1, OpenTx
  <2>2. sources \in Seq([bundle : Bundle, accepted : BOOLEAN])
    BY DEF TypeOK
  <2>3. QED
    BY <2>1, <2>2 DEF Commit
<1>4. QED
  BY <1>1, <1>2, <1>3 DEF TypeOK, Row, Bundle, NoTx

LEMMA NextTypeOK ==
  ASSUME TypeOK, CatalogInv, [Next]_vars
  PROVE  TypeOK'
<1>1. CASE UNCHANGED vars
  BY <1>1 DEF TypeOK, vars, Row, Bundle, NoTx
<1>2. CASE Import
  BY <1>2, BeginTypeOK DEF Import
<1>3. CASE Approve
  <2>1. PICK n \in DOMAIN sources, supersede \in BOOLEAN : Begin(sources[n].bundle, TRUE, supersede)
    BY <1>3 DEF Approve
  <2>2. sources[n].bundle \in Bundle
    <3>1. sources \in Seq([bundle : Bundle, accepted : BOOLEAN])
      BY DEF TypeOK
    <3>2. sources[n] \in [bundle : Bundle, accepted : BOOLEAN]
      BY <3>1, Element
    <3>3. QED
      BY <3>2
  <2>3. QED
    BY <2>1, <2>2, BeginTypeOK
<1>4. CASE Commit
  BY <1>4, CommitTypeOK DEF CatalogInv
<1>5. CASE Abort
  BY <1>5 DEF Abort, TypeOK, Row, Bundle, NoTx
<1>6. CASE Tick
  <2>1. /\ clock \in 0..MaxTime /\ clock' = clock + 1 /\ clock < MaxTime
        /\ UNCHANGED <<rows, sources, tx>>
    BY <1>6 DEF Tick, TypeOK
  <2>2. tx # NoTx => tx \in [open : {TRUE}, bundle : Bundle, accept : BOOLEAN,
                            supersede : BOOLEAN, now : 0..clock']
    <3> SUFFICES ASSUME tx # NoTx
                 PROVE  tx \in [open : {TRUE}, bundle : Bundle, accept : BOOLEAN,
                               supersede : BOOLEAN, now : 0..clock']
      OBVIOUS
    <3>1. tx \in [open : {TRUE}, bundle : Bundle, accept : BOOLEAN, supersede : BOOLEAN,
                 now : 0..clock]
      BY DEF TypeOK
    <3>2. 0..clock \subseteq 0..clock'
      BY <2>1
    <3>3. QED
      BY <3>1, <3>2
  <2>3. (rows \subseteq Row)'
    BY <2>1 DEF TypeOK, Row
  <2>4. (sources \in Seq([bundle : Bundle, accepted : BOOLEAN]))'
    BY <2>1 DEF TypeOK, Bundle
  <2>5. (tx = NoTx \/ tx \in [open : {TRUE}, bundle : Bundle, accept : BOOLEAN,
                             supersede : BOOLEAN, now : 0..clock])'
    BY <2>1, <2>2 DEF Bundle, NoTx
  <2>6. (clock \in 0..MaxTime)'
    BY <2>1
  <2>7. QED
    BY <2>3, <2>4, <2>5, <2>6 DEF TypeOK
<1>7. QED
  BY <1>1, <1>2, <1>3, <1>4, <1>5, <1>6 DEF Next
-----------------------------------------------------------------------------
(* The invariant.                                                           *)

LEMMA InitCatalogInv == Init => CatalogInv
BY DEF Init, CatalogInv, RowsAreApart, ClosedBeforeNow, RoomForSource, RowsCiteTheirSource

\* Kept rows, closed rows, slices and new rows are apart, each from each other kind.
LEMMA ApartAfterCommit ==
  ASSUME TypeOK, CatalogInv, Commit
  PROVE  RowsAreApart'
<1>1. tx # NoTx /\ ~Refused
  BY DEF Commit
<1>2. /\ tx.bundle.lo \in Days /\ tx.bundle.hi \in 1..MaxDay \cup {Forever}
      /\ tx.bundle.lo < tx.bundle.hi /\ tx.now \in 0..MaxTime
  BY <1>1, OpenTx, BundleFacts
<1>3. \A r, s \in rows : Meet(r, s) => r = s
  BY DEF CatalogInv, RowsAreApart
<1>4. \A s \in rows : s \in Row /\ (s.until = Forever \/ s.until <= tx.now)
  BY <1>1 DEF CatalogInv, ClosedBeforeNow, Now, TypeOK
<1> DEFINE Kept == rows \ Superseded
<1>5. ASSUME NEW r \in Superseded, NEW s \in Kept
      PROVE  ~Meet(Closed(r), s) /\ ~Meet(s, Closed(r))
  <2>1. ~Meet(r, s)
    BY <1>3, <1>5, <1>1, SupersededRow
  <2>2. r \in Row /\ s \in Row /\ r.until = Forever
    BY <1>1, <1>4, <1>5, SupersededRow
  <2>3. QED
    BY <1>1, <1>2, <1>5, <2>1, <2>2, ClosedRow, RowFacts DEF Meet
<1>6. ASSUME NEW r \in Superseded, NEW p \in Slices(r), NEW s \in Kept
      PROVE  ~Meet(p, s) /\ ~Meet(s, p)
  <2>1. ~Meet(r, s)
    BY <1>3, <1>6, <1>1, SupersededRow
  <2>2. r \in Row /\ s \in Row /\ p \in Row /\ r.until = Forever /\ r.from < tx.now
    BY <1>1, <1>4, <1>6, SupersededRow, SliceRow
  <2>3. QED
    BY <1>1, <1>2, <1>6, <2>1, <2>2, SliceRow, RowFacts DEF Meet
<1>7. ASSUME NEW n \in NewRows, NEW s \in Kept
      PROVE  ~Meet(n, s) /\ ~Meet(s, n)
  <2> SUFFICES ASSUME Meet(n, s) \/ Meet(s, n)
               PROVE  FALSE
    OBVIOUS
  <2>1. /\ n.key \in BundleKeys /\ n.lo = tx.bundle.lo /\ n.hi = tx.bundle.hi
        /\ n.from = tx.now /\ n.status = IF tx.accept THEN "accepted" ELSE "pending"
    BY <1>1, <1>7, NewRow DEF CatalogInv
  <2>2. s \in Row /\ (s.until = Forever \/ s.until <= tx.now)
    BY <1>4, <1>7
  <2>3. s.key \in BundleKeys /\ tx.accept /\ s.status = "accepted"
    BY <2>1 DEF Meet
  <2>4. s.lo < tx.bundle.hi /\ tx.bundle.lo < s.hi /\ tx.now < s.until
    BY <2>1 DEF Meet
  <2>5. s.until = Forever
    BY <1>2, <2>2, <2>4, RowFacts
  <2>6. QED
    BY <1>7, <2>3, <2>4, <2>5, CurrentOverlapIsSuperseded
<1>8. ASSUME NEW r \in Superseded, NEW s \in Superseded
      PROVE  Meet(r, s) => r = s
  BY <1>1, <1>3, <1>8, SupersededRow
<1>9. ASSUME NEW r \in Superseded, NEW s \in Superseded, Meet(Closed(r), Closed(s))
      PROVE  Closed(r) = Closed(s)
  <2>1. r \in Row /\ s \in Row /\ r.until = Forever /\ s.until = Forever
    BY <1>1, <1>9, SupersededRow
  <2>2. Meet(r, s)
    BY <1>1, <1>2, <1>9, <2>1, ClosedRow, RowFacts DEF Meet
  <2>3. QED
    BY <1>8, <1>9, <2>2
<1>10. ASSUME NEW r \in Superseded, NEW s \in rows', s.from = tx.now
       PROVE  ~Meet(Closed(r), s) /\ ~Meet(s, Closed(r))
  BY <1>1, <1>2, <1>10, ClosedRow DEF Meet
<1>11. ASSUME NEW r \in Superseded, NEW s \in Superseded, NEW p \in Slices(r), NEW q \in Slices(s),
              Meet(p, q)
       PROVE  p = q
  <2>1. r \in Row /\ s \in Row /\ r.until = Forever /\ s.until = Forever
    BY <1>1, <1>11, SupersededRow
  <2>2. p \in Row /\ q \in Row
    BY <1>1, <1>11, SliceRow
  <2>3. Meet(r, s)
    BY <1>1, <1>2, <1>11, <2>1, <2>2, SliceRow, RowFacts DEF Meet
  <2>4. r = s
    BY <1>8, <1>11, <2>3
  <2>5. p.lo = q.lo /\ p.hi = q.hi
    BY <1>1, <1>2, <1>11, <2>1, <2>2, <2>4, SliceRow, RowFacts DEF Meet
  <2>6. QED
    BY <1>1, <1>11, <2>2, <2>4, <2>5, SliceRow DEF Row
<1>12. ASSUME NEW r \in Superseded, NEW p \in Slices(r), NEW n \in NewRows
       PROVE  ~Meet(p, n) /\ ~Meet(n, p)
  <2>1. r \in Row /\ p \in Row
    BY <1>1, <1>12, SupersededRow, SliceRow
  <2>2. n.lo = tx.bundle.lo /\ n.hi = tx.bundle.hi
    BY <1>1, <1>12, NewRow DEF CatalogInv
  <2>3. QED
    BY <1>1, <1>2, <1>12, <2>1, <2>2, SliceRow, RowFacts DEF Meet
<1>13. ASSUME NEW m \in NewRows, NEW n \in NewRows, Meet(m, n)
       PROVE  m = n
  BY <1>13 DEF NewRows, Meet
<1>14. \A s \in rows' : \/ s \in Kept
                        \/ \E r \in Superseded : s = Closed(r)
                        \/ \E r \in Superseded : s \in Slices(r)
                        \/ s \in NewRows
  BY RowsAfterCommit
<1>15. \A s \in rows' : (\E r \in Superseded : s \in Slices(r)) \/ s \in NewRows => s.from = tx.now
  BY <1>1, SliceRow, NewRow DEF CatalogInv
<1>16. ASSUME NEW r \in rows', NEW s \in rows', Meet(r, s)
       PROVE  r = s
  <2>1. CASE r \in Kept
    BY <1>3, <1>5, <1>6, <1>7, <1>14, <1>16, <2>1
  <2>2. CASE s \in Kept
    BY <1>3, <1>5, <1>6, <1>7, <1>14, <1>16, <2>2
  <2>3. CASE r \notin Kept /\ s \notin Kept
    <3>1. CASE \E q \in Superseded : r = Closed(q)
      BY <1>9, <1>10, <1>14, <1>15, <1>16, <2>3, <3>1
    <3>2. CASE \E q \in Superseded : s = Closed(q)
      BY <1>9, <1>10, <1>14, <1>15, <1>16, <2>3, <3>2
    <3>3. CASE /\ ~\E q \in Superseded : r = Closed(q)
               /\ ~\E q \in Superseded : s = Closed(q)
      BY <1>11, <1>12, <1>13, <1>14, <1>16, <2>3, <3>3
    <3>4. QED
      BY <3>1, <3>2, <3>3
  <2>4. QED
    BY <2>1, <2>2, <2>3
<1>17. QED
  BY <1>16 DEF RowsAreApart

LEMMA CitesAfterCommit ==
  ASSUME TypeOK, CatalogInv, Commit
  PROVE  RowsCiteTheirSource'
<1>1. tx # NoTx /\ ~Refused /\ RoomForSource
  BY DEF Commit, CatalogInv
<1> DEFINE new == [bundle |-> tx.bundle, accepted |-> tx.accept]
<1>2. sources' = Append(sources, new) /\ new \in [bundle : Bundle, accepted : BOOLEAN]
  BY <1>1, OpenTx DEF Commit
<1>3. sources \in Seq([bundle : Bundle, accepted : BOOLEAN])
  BY DEF TypeOK
<1> HIDE DEF new
<1>4. /\ Len(sources) + 1 \in DOMAIN sources' /\ sources'[Len(sources) + 1] = new
      /\ \A n \in DOMAIN sources : n \in DOMAIN sources' /\ sources'[n] = sources[n]
  BY <1>2, <1>3
<1> DEFINE Cites(r, s) == /\ r.value = s.bundle.value[r.key]
                          /\ s.bundle.lo <= r.lo /\ r.hi <= s.bundle.hi
                          /\ r.status = "accepted" <=> s.accepted
<1>5. \A r \in rows : r.source \in DOMAIN sources /\ Cites(r, sources[r.source])
  BY DEF CatalogInv, RowsCiteTheirSource
<1>6. ASSUME NEW n \in DOMAIN sources PROVE sources[n].bundle \in Bundle
  <2>1. sources[n] \in [bundle : Bundle, accepted : BOOLEAN]
    BY <1>3, Element
  <2>2. QED
    BY <2>1
<1>7. ASSUME NEW s \in rows'
      PROVE  s.source \in DOMAIN sources' /\ Cites(s, sources'[s.source])
  <2>1. CASE s \in rows
    BY <1>4, <1>5, <2>1
  <2>2. ASSUME NEW r \in Superseded, s = Closed(r)
        PROVE  s.source \in DOMAIN sources' /\ Cites(s, sources'[s.source])
    BY <1>1, <1>4, <1>5, <2>2, SupersededRow, ClosedRow
  <2>3. ASSUME NEW r \in Superseded, s \in Slices(r)
        PROVE  s.source \in DOMAIN sources' /\ Cites(s, sources'[s.source])
    <3>1. /\ r \in rows /\ r \in Row /\ s \in Row /\ r.lo <= s.lo /\ s.hi <= r.hi
          /\ s.key = r.key /\ s.value = r.value /\ s.status = r.status /\ s.source = r.source
      BY <1>1, <2>3, SupersededRow, SliceRow
    <3>2. sources[r.source].bundle \in Bundle
      BY <1>5, <1>6, <3>1
    <3>3. /\ sources[r.source].bundle.lo <= s.lo /\ s.hi <= sources[r.source].bundle.hi
      BY <1>5, <3>1, <3>2, BundleFacts, RowFacts
    <3>4. QED
      BY <1>4, <1>5, <3>1, <3>3
  <2>4. CASE s \in NewRows
    <3>1. /\ s.source = Len(sources) + 1 /\ s.value = tx.bundle.value[s.key]
          /\ s.lo = tx.bundle.lo /\ s.hi = tx.bundle.hi
          /\ s.status = IF tx.accept THEN "accepted" ELSE "pending"
      BY <1>1, <2>4, NewRow
    <3>2. new.bundle = tx.bundle /\ new.accepted = tx.accept
      BY DEF new
    <3>3. tx.bundle \in Bundle
      BY <1>1, OpenTx
    <3>4. QED
      BY <1>4, <3>1, <3>2, <3>3, BundleFacts
  <2>5. QED
    BY <2>1, <2>2, <2>3, <2>4, RowsAfterCommit
<1>8. QED
  BY <1>7 DEF RowsCiteTheirSource

LEMMA CommitCatalogInv ==
  ASSUME TypeOK, CatalogInv, Commit
  PROVE  CatalogInv'
<1>1. tx # NoTx /\ ~Refused /\ tx' = NoTx /\ clock' = clock /\ tx.now \in 0..clock
  BY OpenTx DEF Commit
<1>2. ClosedBeforeNow'
  <2> SUFFICES ASSUME NEW s \in rows'
               PROVE  s.until = Forever \/ s.until <= clock
    BY <1>1 DEF ClosedBeforeNow, Now
  <2>1. clock \in 0..MaxTime
    BY DEF TypeOK
  <2>2. CASE s \in rows
    <3>1. s \in Row /\ (s.until = Forever \/ s.until <= tx.now)
      BY <1>1, <2>2 DEF CatalogInv, ClosedBeforeNow, Now, TypeOK
    <3>2. QED
      BY <1>1, <2>1, <3>1, RowFacts
  <2>3. CASE \E r \in Superseded : s = Closed(r)
    BY <1>1, <2>1, <2>3, ClosedRow
  <2>4. CASE \E r \in Superseded : s \in Slices(r)
    BY <1>1, <2>4, SliceRow
  <2>5. CASE s \in NewRows
    BY <1>1, <2>5, NewRow DEF CatalogInv
  <2>6. QED
    BY <2>2, <2>3, <2>4, <2>5, RowsAfterCommit
<1>3. RoomForSource'
  BY <1>1 DEF RoomForSource
<1>4. QED
  BY <1>2, <1>3, ApartAfterCommit, CitesAfterCommit DEF CatalogInv

\* A step that writes no rows keeps the invariant: time only moves on.
LEMMA QuietCatalogInv ==
  ASSUME TypeOK, CatalogInv, UNCHANGED <<rows, sources>>,
         clock \in Nat, clock' \in Nat, clock <= clock',
         \/ tx' = tx
         \/ tx' = NoTx /\ clock' = clock
         \/ tx = NoTx /\ tx' # NoTx /\ tx'.now = clock /\ Len(sources) < MaxSources
  PROVE  CatalogInv'
<1>1. tx # NoTx => tx.now \in 0..clock
  BY OpenTx
<1>2. Now \in Nat /\ Now' \in Nat /\ Now <= Now'
  BY <1>1 DEF Now
<1>3. \A r \in rows : r.until = Forever \/ r.until \in Nat
  BY RowFacts DEF TypeOK
<1>4. ClosedBeforeNow'
  BY <1>2, <1>3 DEF CatalogInv, ClosedBeforeNow
<1>5. RoomForSource'
  BY DEF CatalogInv, RoomForSource
<1>6. RowsAreApart' /\ RowsCiteTheirSource'
  BY DEF CatalogInv, RowsAreApart, RowsCiteTheirSource, Meet
<1>7. QED
  BY <1>4, <1>5, <1>6 DEF CatalogInv

LEMMA NextCatalogInv ==
  ASSUME TypeOK, CatalogInv, [Next]_vars
  PROVE  CatalogInv'
<1>1. clock \in Nat
  BY DEF TypeOK
<1>2. ASSUME NEW b, NEW accept, NEW supersede, Begin(b, accept, supersede)
      PROVE  CatalogInv'
  <2>1. /\ tx = NoTx /\ tx' # NoTx /\ tx'.now = clock /\ Len(sources) < MaxSources
        /\ UNCHANGED <<rows, sources, clock>>
    BY <1>2 DEF Begin, NoTx
  <2>2. QED
    BY <1>1, <2>1, QuietCatalogInv
<1>3. CASE Import \/ Approve
  BY <1>2, <1>3 DEF Import, Approve
<1>4. CASE Commit
  BY <1>4, CommitCatalogInv
<1>5. CASE Abort
  BY <1>1, <1>5, QuietCatalogInv DEF Abort
<1>6. CASE Tick
  BY <1>1, <1>6, QuietCatalogInv DEF Tick
<1>7. CASE UNCHANGED vars
  BY <1>1, <1>7, QuietCatalogInv DEF vars
<1>8. QED
  BY <1>3, <1>4, <1>5, <1>6, <1>7 DEF Next

\* The invariant the theorems rest on.
THEOREM CatalogInvariant == Spec => [](TypeOK /\ CatalogInv)
<1>1. TypeOK /\ CatalogInv /\ [Next]_vars => TypeOK' /\ CatalogInv'
  BY NextTypeOK, NextCatalogInv
<1>2. QED
  BY <1>1, InitTypeOK, InitCatalogInv, PTL DEF Spec

\* Every row and every source is well formed, and no row is empty: the CHECKs
\* of schedule_rows never reject what an import slices (001_init.sql:20-33).
THEOREM CatalogTypeCorrect == Spec => []TypeOK
BY CatalogInvariant, PTL

\* Every row can be traced to a source that says the same of the same days,
\* however often it was sliced (pipeline.py:89).
THEOREM RowsCiteTheirSourceHolds == Spec => []RowsCiteTheirSource
<1>1. CatalogInv => RowsCiteTheirSource
  BY DEF CatalogInv
<1>2. QED
  BY <1>1, CatalogInvariant, PTL

\* The row applies to a day at a moment of knowledge.
Covers(r, k, d, m) ==
  /\ r.key = k /\ r.status = "accepted"
  /\ r.lo <= d /\ d < r.hi /\ r.from <= m /\ m < r.until

LEMMA Scheduled ==
  ASSUME NEW k, NEW d, NEW m, NEW r
  PROVE  /\ r \in schedules(k, d, m) <=> r \in rows /\ Covers(r, k, d, m)
         /\ r \in schedules(k, d, m)' <=> r \in rows' /\ Covers(r, k, d, m)
BY DEF schedules, Covers

\* Two rows that apply to the same day and moment meet there.
LEMMA CoversMeets ==
  ASSUME NEW k, NEW d \in Days, NEW m \in Moments, NEW r \in Row, NEW s \in Row,
         Covers(r, k, d, m), Covers(s, k, d, m)
  PROVE  Meet(r, s)
BY RowFacts DEF Covers, Meet

LEMMA AtMostOneScheduled ==
  ASSUME TypeOK, RowsAreApart, NEW k, NEW d \in Days, NEW m \in Moments,
         NEW r \in schedules(k, d, m), NEW s \in schedules(k, d, m)
  PROVE  r = s
<1>1. r \in rows /\ s \in rows /\ Covers(r, k, d, m) /\ Covers(s, k, d, m)
  BY Scheduled
<1>2. r \in Row /\ s \in Row
  BY <1>1 DEF TypeOK
<1>3. QED
  BY <1>1, <1>2, CoversMeets DEF RowsAreApart

\* Accepted versions of one policy key never share a day and a moment of
\* knowledge: the exclusion constraint of 001_init.sql:32 never rejects an
\* import, and a lookup has at most one row for a key.
THEOREM AtMostOneVersionHolds == Spec => []AtMostOneVersion
<1>1. ASSUME TypeOK, CatalogInv PROVE AtMostOneVersion
  <2> SUFFICES ASSUME NEW k \in Keys, NEW d \in Days, NEW m \in Moments
               PROVE  Cardinality(schedules(k, d, m)) <= 1
    BY DEF AtMostOneVersion
  <2>1. CASE schedules(k, d, m) = {}
    BY <2>1, FS_EmptySet
  <2>2. ASSUME NEW r \in schedules(k, d, m) PROVE Cardinality(schedules(k, d, m)) = 1
    <3>1. schedules(k, d, m) = {r}
      BY <1>1, <2>2, AtMostOneScheduled DEF CatalogInv
    <3>2. QED
      BY <3>1, FS_Singleton
  <2>3. QED
    BY <2>1, <2>2
<1>2. QED
  BY <1>1, CatalogInvariant, PTL

-----------------------------------------------------------------------------
(* The refinement.                                                          *)

LEMMA FactOfOne ==
  ASSUME NEW S, NEW r \in S, \A s \in S : s = r
  PROVE  FactOf(S) = r.value
<1>1. (CHOOSE x \in S : TRUE) \in S
  OBVIOUS
<1>2. QED
  BY <1>1 DEF FactOf

LEMMA FactOfNone == FactOf({}) = 0
BY DEF FactOf

\* The bundle of the open import is published for this key, day and moment.
Published(k, d, m) ==
  tx.bundle.value[k] # 0 /\ d \in tx.bundle.lo..(tx.bundle.hi - 1) /\ m >= tx.now

\* What the commit publishes has the value of the bundle afterwards.
LEMMA PublishedFact ==
  ASSUME TypeOK, TypeOK', CatalogInv, CatalogInv', Commit, tx.accept,
         NEW k \in Keys, NEW d \in Days, NEW m \in Moments, Published(k, d, m)
  PROVE  FactOf(schedules(k, d, m)') = tx.bundle.value[k]
<1>1. tx # NoTx /\ k \in BundleKeys
  BY DEF Commit, Published, BundleKeys
<1>2. PICK n \in NewRows : n.key = k
  BY <1>1, NewRowExists
<1>3. /\ n \in Row /\ n.value = tx.bundle.value[k] /\ n.lo = tx.bundle.lo /\ n.hi = tx.bundle.hi
      /\ n.from = tx.now /\ n.until = Forever /\ n.status = "accepted"
  BY <1>1, <1>2, NewRow DEF CatalogInv
<1>4. Covers(n, k, d, m)
  BY <1>2, <1>3, RowFacts DEF Covers, Published
<1>5. n \in schedules(k, d, m)'
  BY <1>2, <1>4, RowsAfterCommit, Scheduled
<1>6. \A s \in schedules(k, d, m)' : s = n
  <2> SUFFICES ASSUME NEW s \in schedules(k, d, m)' PROVE s = n
    OBVIOUS
  <2>1. s \in rows' /\ n \in rows' /\ Covers(s, k, d, m)
    BY <1>5, Scheduled
  <2>2. s \in Row
    BY <2>1 DEF TypeOK, Row
  <2>3. Meet(s, n)
    BY <1>3, <1>4, <2>1, <2>2, CoversMeets
  <2>4. QED
    BY <2>1, <2>3 DEF CatalogInv, RowsAreApart, Meet
<1>7. QED
  BY <1>3, <1>5, <1>6, FactOfOne

\* Where nothing is published, what was known before is still known: from the
\* row itself, from its closed part, or from one of its slices.
LEMMA OldRowsRemain ==
  ASSUME TypeOK, CatalogInv, Commit, NEW k \in Keys, NEW d \in Days, NEW m \in Moments,
         ~Published(k, d, m), NEW r \in rows, Covers(r, k, d, m)
  PROVE  \E s \in rows' : Covers(s, k, d, m) /\ s.value = r.value
<1>1. tx # NoTx /\ ~Refused
  BY DEF Commit
<1>2. /\ tx.bundle.lo \in Days /\ tx.bundle.hi \in 1..MaxDay \cup {Forever}
      /\ tx.now \in 0..MaxTime
  BY <1>1, OpenTx, BundleFacts
<1>3. CASE r \notin Superseded
  BY <1>3, RowsAfterCommit
<1>4. CASE r \in Superseded /\ m < tx.now
  <2>1. Covers(Closed(r), k, d, m) /\ Closed(r).value = r.value
    BY <1>1, <1>4, ClosedRow DEF Covers
  <2>2. QED
    BY <1>4, <2>1, RowsAfterCommit
<1>5. CASE r \in Superseded /\ m >= tx.now
  <2>1. /\ r \in Row /\ r.until = Forever /\ tx.bundle.value[k] # 0
        /\ r.lo <= d /\ d < r.hi
    BY <1>1, <1>5, SupersededRow DEF Covers, BundleKeys
  <2>2. d < tx.bundle.lo \/ tx.bundle.hi <= d
    BY <1>2, <1>5, <2>1 DEF Published
  <2>3. PICK s \in Slices(r) : \/ s.lo = r.lo /\ s.hi = tx.bundle.lo /\ d < tx.bundle.lo
                               \/ s.lo = tx.bundle.hi /\ s.hi = r.hi /\ tx.bundle.hi <= d
    BY <1>1, <1>2, <1>5, <2>1, <2>2, SlicesExist, RowFacts
  <2>4. Covers(s, k, d, m) /\ s.value = r.value
    BY <1>1, <1>2, <1>5, <2>1, <2>3, SliceRow DEF Covers
  <2>5. QED
    BY <1>5, <2>4, RowsAfterCommit
<1>6. QED
  BY <1>2, <1>3, <1>4, <1>5

\* And nothing else is known: a row that applies now comes from one that did.
LEMMA NoOtherRows ==
  ASSUME TypeOK, CatalogInv, Commit, NEW k \in Keys, NEW d \in Days, NEW m \in Moments,
         ~Published(k, d, m), NEW s \in rows', Covers(s, k, d, m)
  PROVE  \E r \in rows : Covers(r, k, d, m) /\ s.value = r.value
<1>1. tx # NoTx /\ ~Refused
  BY DEF Commit
<1>2. /\ tx.bundle.lo \in Days /\ tx.bundle.hi \in 1..MaxDay \cup {Forever}
      /\ tx.now \in 0..MaxTime
  BY <1>1, OpenTx, BundleFacts
<1>3. CASE s \in rows
  BY <1>3
<1>4. ASSUME NEW r \in Superseded, s = Closed(r)
      PROVE  \E q \in rows : Covers(q, k, d, m) /\ s.value = q.value
  <2>1. r \in rows /\ r.until = Forever
    BY <1>1, SupersededRow
  <2>2. Covers(r, k, d, m) /\ s.value = r.value
    BY <1>1, <1>4, <2>1, ClosedRow DEF Covers
  <2>3. QED
    BY <2>1, <2>2
<1>5. ASSUME NEW r \in Superseded, s \in Slices(r)
      PROVE  \E q \in rows : Covers(q, k, d, m) /\ s.value = q.value
  <2>1. r \in rows /\ r \in Row /\ s \in Row /\ r.until = Forever /\ r.from < tx.now
    BY <1>1, <1>5, SupersededRow, SliceRow
  <2>2. Covers(r, k, d, m) /\ s.value = r.value
    BY <1>1, <1>2, <1>5, <2>1, SliceRow, RowFacts DEF Covers
  <2>3. QED
    BY <2>1, <2>2
<1>6. CASE s \in NewRows
  <2>1. /\ s.key \in BundleKeys /\ s.lo = tx.bundle.lo /\ s.hi = tx.bundle.hi /\ s.from = tx.now
    BY <1>1, <1>6, NewRow DEF CatalogInv
  <2>2. Published(k, d, m)
    BY <1>2, <2>1 DEF Covers, Published, BundleKeys
  <2>3. QED
    BY <2>2
<1>7. QED
  BY <1>3, <1>4, <1>5, <1>6, RowsAfterCommit

LEMMA UnpublishedFact ==
  ASSUME TypeOK, TypeOK', CatalogInv, CatalogInv', Commit,
         NEW k \in Keys, NEW d \in Days, NEW m \in Moments, ~Published(k, d, m)
  PROVE  FactOf(schedules(k, d, m)') = FactOf(schedules(k, d, m))
<1>1. CASE schedules(k, d, m) = {}
  <2>1. schedules(k, d, m)' = {}
    BY <1>1, NoOtherRows, Scheduled
  <2>2. QED
    BY <1>1, <2>1
<1>2. ASSUME NEW r \in schedules(k, d, m)
      PROVE  FactOf(schedules(k, d, m)') = FactOf(schedules(k, d, m))
  <2>1. r \in rows /\ Covers(r, k, d, m)
    BY <1>2, Scheduled
  <2>2. PICK s \in rows' : Covers(s, k, d, m) /\ s.value = r.value
    BY <2>1, OldRowsRemain
  <2>3. \A q \in schedules(k, d, m)' : q = s
    <3> SUFFICES ASSUME NEW q \in schedules(k, d, m)' PROVE q = s
      OBVIOUS
    <3>1. q \in rows' /\ Covers(q, k, d, m)
      BY Scheduled
    <3>2. q \in Row /\ s \in Row
      BY <2>2, <3>1 DEF TypeOK, Row
    <3>3. Meet(q, s)
      BY <2>2, <3>1, <3>2, CoversMeets
    <3>4. QED
      BY <2>2, <3>1, <3>3 DEF CatalogInv, RowsAreApart, Meet
  <2>4. s \in schedules(k, d, m)'
    BY <2>2, Scheduled
  <2>5. FactOf(schedules(k, d, m)') = s.value
    BY <2>3, <2>4, FactOfOne
  <2>6. \A q \in schedules(k, d, m) : q = r
    BY <1>2, AtMostOneScheduled DEF CatalogInv
  <2>7. FactOf(schedules(k, d, m)) = r.value
    BY <1>2, <2>6, FactOfOne
  <2>8. QED
    BY <2>2, <2>5, <2>7
<1>3. QED
  BY <1>1, <1>2

\* Without --supersede there is nothing yet where the bundle is published.
LEMMA CommitFills ==
  ASSUME TypeOK, CatalogInv, Commit, tx.accept, ~tx.supersede,
         NEW k \in Keys, NEW d \in Days, NEW m \in Moments, Published(k, d, m)
  PROVE  FactOf(schedules(k, d, m)) = 0
<1>1. tx # NoTx /\ Superseded = {} /\ k \in BundleKeys
  BY DEF Commit, Refused, Published, BundleKeys
<1>2. /\ tx.bundle.lo \in Days /\ tx.bundle.hi \in 1..MaxDay \cup {Forever}
      /\ tx.now \in 0..MaxTime
  BY <1>1, OpenTx, BundleFacts
<1>3. ASSUME NEW r \in schedules(k, d, m) PROVE FALSE
  <2>1. r \in rows /\ Covers(r, k, d, m)
    BY <1>3, Scheduled
  <2>2. r \in Row /\ (r.until = Forever \/ r.until <= tx.now)
    BY <1>1, <2>1 DEF TypeOK, CatalogInv, ClosedBeforeNow, Now
  <2>3. r.until = Forever
    BY <1>2, <2>1, <2>2, RowFacts DEF Covers, Published
  <2>4. r.lo < tx.bundle.hi /\ tx.bundle.lo < r.hi
    BY <1>2, <2>1, <2>2, RowFacts DEF Covers, Published
  <2>5. QED
    BY <1>1, <2>1, <2>3, <2>4, CurrentOverlapIsSuperseded DEF Covers
<1>4. QED
  BY <1>3, FactOfNone

LEMMA ValueAt ==
  ASSUME NEW k \in Keys, NEW d \in Days, NEW m \in Moments
  PROVE  Value[k][d][m] = FactOf(schedules(k, d, m))
BY DEF Value

LEMMA ValueKept ==
  ASSUME \A k \in Keys, d \in Days, m \in Moments :
           FactOf(schedules(k, d, m)') = FactOf(schedules(k, d, m))
  PROVE  UNCHANGED Value
BY DEF Value, FactOf

LEMMA AcceptedCommitPublishes ==
  ASSUME TypeOK, TypeOK', CatalogInv, CatalogInv', Commit, tx.accept
  PROVE  /\ tx # NoTx /\ sources' # sources
         /\ History!Publish(tx.bundle, tx.now)
         /\ tx.supersede \/ History!Fills(tx.bundle, tx.now)
<1>1. tx # NoTx
  BY DEF Commit
<1>2. sources' # sources
  <2>1. Len(sources) \in Nat /\ Len(sources') = Len(sources) + 1
    BY DEF TypeOK, Commit
  <2>2. QED
    BY <2>1
<1>3. History!Publish(tx.bundle, tx.now)
  <2>1. \A k \in Keys, d \in Days, m \in Moments :
          FactOf(schedules(k, d, m)') =
            IF tx.bundle.value[k] # 0 /\ d \in tx.bundle.lo..(tx.bundle.hi - 1) /\ m >= tx.now
            THEN tx.bundle.value[k]
            ELSE Value[k][d][m]
    BY PublishedFact, UnpublishedFact, ValueAt DEF Published
  <2>2. Value' = [k \in Keys |-> [d \in Days |-> [m \in Moments |-> FactOf(schedules(k, d, m)')]]]
    BY DEF Value, FactOf
  <2>3. QED
    BY <2>1, <2>2 DEF History!Publish
<1>4. tx.supersede \/ History!Fills(tx.bundle, tx.now)
  BY CommitFills, ValueAt DEF History!Fills, Published
<1>5. QED
  BY <1>1, <1>2, <1>3, <1>4

\* A pending import adds no accepted rows.
LEMMA PendingCommitIsInvisible ==
  ASSUME TypeOK, CatalogInv, Commit, ~tx.accept
  PROVE  UNCHANGED Value
<1>1. tx # NoTx /\ Superseded = {}
  BY DEF Commit, Superseded
<1>2. \A n \in NewRows : n.status = "pending"
  BY <1>1, NewRow DEF CatalogInv
<1>3. ASSUME NEW k, NEW d, NEW m
      PROVE  schedules(k, d, m)' = schedules(k, d, m)
  <2> SUFFICES ASSUME NEW s PROVE s \in schedules(k, d, m)' <=> s \in schedules(k, d, m)
    OBVIOUS
  <2>1. s \in rows' <=> s \in rows \/ s \in NewRows
    BY <1>1, RowsAfterCommit
  <2>2. QED
    BY <1>2, <2>1, Scheduled DEF Covers
<1>4. QED
  BY <1>3, ValueKept

\* The catalog implements Timeline: an accepted import publishes its bundle
\* from its own timestamp on, over nothing unless it supersedes, and no other
\* step changes what is known of any day at any moment.
THEOREM CatalogImplementsTimeline == Spec => ImplementsTimeline
<1> DEFINE Step ==
      \/ /\ tx # NoTx /\ tx.accept /\ sources' # sources
         /\ History!Publish(tx.bundle, tx.now)
         /\ tx.supersede \/ History!Fills(tx.bundle, tx.now)
      \/ sources' = sources /\ UNCHANGED Value
      \/ ~tx.accept /\ UNCHANGED Value
<1>1. Init => History!Init
  <2> SUFFICES ASSUME Init PROVE History!Init
    OBVIOUS
  <2>1. \A k \in Keys, d \in Days, m \in Moments : FactOf(schedules(k, d, m)) = 0
    BY FactOfNone DEF Init, schedules
  <2>2. QED
    BY <2>1 DEF History!Init, Value
<1>2. ASSUME TypeOK, TypeOK', CatalogInv, CatalogInv', [Next]_vars
      PROVE  [Step]_vars
  <2>1. CASE Commit /\ tx.accept
    BY <1>2, <2>1, AcceptedCommitPublishes
  <2>2. CASE Commit /\ ~tx.accept
    BY <1>2, <2>2, PendingCommitIsInvisible
  <2>3. CASE rows' = rows /\ sources' = sources
    BY <2>3 DEF Value, FactOf, schedules
  <2>4. (rows' = rows /\ sources' = sources) \/ Commit
    BY <1>2 DEF Next, Import, Approve, Begin, Abort, Tick, vars
  <2>5. QED
    BY <2>1, <2>2, <2>3, <2>4
<1>3. QED
  BY <1>1, <1>2, CatalogInvariant, PTL DEF Spec, ImplementsTimeline
=============================================================================
