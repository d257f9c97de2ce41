------------------------------ MODULE Catalog -------------------------------
(* The temporal catalog: import_bundle and approve of                        *)
(* python/voucherbase/pipeline.py on one side, the schedule lookup of a rent *)
(* analysis (schedules in store.go) on the other.                            *)
(*                                                                           *)
(* An import is one transaction under an advisory lock, so at most one is    *)
(* open; what it writes appears when it commits.  Its timestamp is taken     *)
(* earlier, after the lock (pipeline.py:78).                                 *)
EXTENDS Naturals, Sequences, FiniteSets

CONSTANTS
  Keys,        \* policy keys: authority, kind, geo_key, bedrooms, structure, utility_code
  Values,      \* value_cents
  MaxDay,      \* bound: days are 0..MaxDay
  MaxTime,     \* bound: the clock
  MaxSources   \* bound: imports that commit

ASSUME CatalogAssumption ==
  /\ Values \subseteq Nat \ {0}
  /\ MaxDay \in Nat /\ MaxTime \in Nat /\ MaxSources \in Nat

Days == 0..MaxDay
Moments == 0..MaxTime

\* The open end of a range, later than every day and every moment.
Forever == MaxDay + MaxTime + 1

VARIABLES
  rows,     \* schedule_rows
  sources,  \* catalog_sources in order of creation: the snapshot and whether it is accepted
  tx,       \* the open import transaction
  clock

vars == <<rows, sources, tx, clock>>

\* A validated bundle: the value of each key (0 where the bundle has no row),
\* and the days it is valid for.
Bundle ==
  {b \in [value : [Keys -> Values \cup {0}], lo : Days, hi : 1..MaxDay \cup {Forever}] :
     b.lo < b.hi /\ \E k \in Keys : b.value[k] # 0}

\* A schedule row; its CHECKs reject an empty valid_during or known_during.
Row ==
  {r \in [key : Keys, value : Values, lo : Days, hi : 1..MaxDay \cup {Forever},
          from : 0..MaxTime, until : 1..MaxTime \cup {Forever},
          status : {"pending", "accepted"}, source : 1..MaxSources] :
     r.lo < r.hi /\ r.from < r.until}

NoTx == [open |-> FALSE]

Init ==
  /\ rows = {} /\ sources = <<>> /\ tx = NoTx /\ clock = 0

-----------------------------------------------------------------------------
(* Import.  A bundle whose external key exists already is refused or changes *)
(* nothing (pipeline.py:70-73), so only new keys are modelled.               *)

Begin(b, accept, supersede) ==
  /\ tx = NoTx /\ Len(sources) < MaxSources
  /\ tx' = [open |-> TRUE, bundle |-> b, accept |-> accept, supersede |-> supersede,
            now |-> clock]
  /\ UNCHANGED <<rows, sources, clock>>

Import == \E b \in Bundle, accept, supersede \in BOOLEAN : Begin(b, accept, supersede)

\* approve: the snapshot of a pending source under a new external key.
Approve ==
  \E n \in DOMAIN sources, supersede \in BOOLEAN :
    ~sources[n].accepted /\ Begin(sources[n].bundle, TRUE, supersede)

\* The accepted, still current rows of the key that share a day with the bundle.
Overlaps(k) ==
  {r \in rows : /\ r.key = k /\ r.status = "accepted" /\ r.until = Forever
                /\ r.lo < tx.bundle.hi /\ tx.bundle.lo < r.hi}

BundleKeys == {k \in Keys : tx.bundle.value[k] # 0}

\* The rows the open import closes.
Superseded == IF tx.accept THEN UNION {Overlaps(k) : k \in BundleKeys} ELSE {}

\* BUG: what is left of an old row after the new days is dropped.
PartsLeftOnly(r) == {p \in {<<r.lo, tx.bundle.lo>>} : p[1] < p[2]}

\* BUG: the whole old interval is kept beside the new one.
PartsWhole(r) == {<<r.lo, r.hi>>}

\* What remains of the days of an old row on either side of the new ones.
Parts(r) == {p \in {<<r.lo, tx.bundle.lo>>, <<tx.bundle.hi, r.hi>>} : p[1] < p[2]}

Closed(r) == [r EXCEPT !.until = tx.now]

\* BUG: what remains of an old row is filed under the new source.
SlicesOfNewSource(r) ==
  {[r EXCEPT !.lo = p[1], !.hi = p[2], !.from = tx.now, !.source = Len(sources) + 1] :
     p \in Parts(r)}

Slices(r) == {[r EXCEPT !.lo = p[1], !.hi = p[2], !.from = tx.now] : p \in Parts(r)}

NewRows ==
  {[key |-> k, value |-> tx.bundle.value[k], lo |-> tx.bundle.lo, hi |-> tx.bundle.hi,
    from |-> tx.now, until |-> Forever, source |-> Len(sources) + 1,
    status |-> IF tx.accept THEN "accepted" ELSE "pending"] : k \in BundleKeys}

\* BUG: a row may be closed at the moment it became known.
RefusedOverlapsOnly == Superseded # {} /\ ~tx.supersede

\* The import raises: overlapping facts without --supersede, or a row that
\* would be closed at the moment it became known (CHECK NOT isempty).
Refused ==
  \/ Superseded # {} /\ ~tx.supersede
  \/ \E r \in Superseded : r.from >= tx.now

Commit ==
  /\ tx # NoTx /\ ~Refused
  /\ rows' = (rows \ Superseded) \cup {Closed(r) : r \in Superseded}
               \cup (UNION {Slices(r) : r \in Superseded}) \cup NewRows
  /\ sources' = Append(sources, [bundle |-> tx.bundle, accepted |-> tx.accept])
  /\ tx' = NoTx
  /\ UNCHANGED <<clock>>

\* Refused, or the process or the connection fails: nothing is written.
Abort ==
  /\ tx # NoTx
  /\ tx' = NoTx
  /\ UNCHANGED <<rows, sources, clock>>

-----------------------------------------------------------------------------
(* The lookup of an analysis, and time.                                      *)

\* The rows a lookup returns for one policy key.
schedules(k, day, known) ==
  {r \in rows : /\ r.key = k /\ r.status = "accepted"
                /\ r.lo <= day /\ day < r.hi
                /\ r.from <= known /\ known < r.until}

Tick ==
  /\ clock < MaxTime
  /\ clock' = clock + 1
  /\ UNCHANGED <<rows, sources, tx>>

Next == Import \/ Approve \/ Commit \/ Abort \/ Tick

Spec == Init /\ [][Next]_vars

-----------------------------------------------------------------------------
(* Properties.                                                               *)

TypeOK ==
  /\ rows \subseteq Row
  /\ sources \in Seq([bundle : Bundle, accepted : BOOLEAN])
  /\ tx = NoTx \/ tx \in [open : {TRUE}, bundle : Bundle, accept : BOOLEAN,
                          supersede : BOOLEAN, now : 0..clock]
  /\ clock \in 0..MaxTime

\* Accepted versions of one policy key never share a day and a moment of
\* knowledge, so the exclusion constraint of 001_init.sql:32 never rejects an
\* import and every lookup has at most one row for a key.
AtMostOneVersion ==
  \A k \in Keys, d \in Days, m \in Moments : Cardinality(schedules(k, d, m)) <= 1

\* Every row can be traced to a source: it says nothing its source does not
\* say of the key and those days, and a pending source has no accepted rows,
\* however often the rows of a source were sliced ("Retain non-overlapping
\* portions as newly-known slices of the OLD source", pipeline.py:89).
RowsCiteTheirSource ==
  \A r \in rows :
    /\ r.source \in DOMAIN sources
    /\ LET s == sources[r.source]
       IN  /\ r.value = s.bundle.value[r.key]
           /\ s.bundle.lo <= r.lo /\ r.hi <= s.bundle.hi
           /\ r.status = "accepted" <=> s.accepted

FactOf(found) == IF found = {} THEN 0 ELSE (CHOOSE r \in found : TRUE).value

Value == [k \in Keys |-> [d \in Days |-> [m \in Moments |-> FactOf(schedules(k, d, m))]]]

\* "earlier queries can reproduce what was known before" (ARCHITECTURE.md:50):
\* what a lookup returns for a moment of knowledge in the past never changes.
PastLookupsAreReproducible ==
  [][\A k \in Keys, d \in Days, m \in Moments :
       m < clock => Value'[k][d][m] = Value[k][d][m]]_vars

History == INSTANCE Timeline WITH value <- Value

\* The catalog implements Timeline: committing an accepted import publishes
\* its bundle from its own timestamp on, filling only empty days unless it
\* supersedes; earlier knowledge and other days keep their values, and no other step
\* (a pending import, an abort) changes a value anywhere.
ImplementsTimeline ==
  /\ History!Init
  /\ [][ \/ /\ tx # NoTx /\ tx.accept /\ sources' # sources
            /\ History!Publish(tx.bundle, tx.now)
            /\ tx.supersede \/ History!Fills(tx.bundle, tx.now)
         \/ sources' = sources /\ UNCHANGED Value
         \/ ~tx.accept /\ UNCHANGED Value ]_vars
=============================================================================
