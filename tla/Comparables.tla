---------------------------- MODULE Comparables -----------------------------
(* The market observations of a tenant: importComparables of server.go adds  *)
(* them, candidates of store.go reads the newest ones near a property, and   *)
(* compare of model.py selects the sample an analysis shows.                 *)
(*                                                                           *)
(* All observations are near the property.  The comparisons of compare that  *)
(* do not depend on time (kind, demo flag, bedrooms, structure, condition,   *)
(* size, bathrooms, rent) are one number, the part of the selection score    *)
(* that is not the age of the observation, or Unfit.  The range and the      *)
(* median shown are functions of the sample.                                 *)
(*                                                                           *)
(* This is the market half of an analysis and Planning the other half; the   *)
(* names of the specification differ so that one module can extend both.     *)
EXTENDS Integers, FiniteSets, Folds

CONSTANTS
  Ids,             \* comparables.id; the model picks unused ones in any order
  Refs,            \* property_ref
  Scores,
  Unfit,           \* fails a comparison that does not depend on time
  MaxTime,         \* bound: the clock, in days
  Window,          \* 180 days
  CandidateLimit,  \* 2000 observations
  Shown            \* 12 observations

ASSUME ComparablesAssumption ==
  /\ Ids \subseteq Nat /\ Scores \subseteq Nat /\ Unfit \notin Scores
  /\ MaxTime \in Nat /\ Window \in Nat
  /\ CandidateLimit \in Nat /\ Shown \in Nat

Days == 0..MaxTime

Observation ==
  [id : Ids, ref : Refs, day : Days, recorded : Days, score : Scores \cup {Unfit}]

VARIABLES
  stored,  \* comparables
  open,    \* the import under way: a set of observations, {} if there is none
  clock

marketVars == <<stored, open, clock>>

MarketInit == stored = {} /\ open = {} /\ clock = 0

-----------------------------------------------------------------------------
(* Import.  recorded_at is the start of the transaction (DEFAULT now()); the *)
(* observations are not from the future.                                     *)

IdsOf(S) == {c.id : c \in S}

Begin ==
  /\ open = {}
  /\ \E c \in Observation :
       /\ c.recorded = clock /\ c.day <= clock
       /\ c.id \notin IdsOf(stored)
       /\ open' = {c}
  /\ UNCHANGED <<stored, clock>>

\* One more row of the same payload.
More ==
  /\ open # {}
  /\ \E c \in Observation :
       /\ \A d \in open : c.recorded = d.recorded /\ c.day <= d.recorded
       /\ c.id \notin IdsOf(stored \cup open)
       /\ open' = open \cup {c}
  /\ UNCHANGED <<stored, clock>>

\* All rows appear together, or none does: an external_id that exists, or an
\* error, rolls the import back.
Commit == open # {} /\ stored' = stored \cup open /\ open' = {} /\ UNCHANGED clock

Abort == open # {} /\ open' = {} /\ UNCHANGED <<stored, clock>>

Tick == clock < MaxTime /\ clock' = clock + 1 /\ UNCHANGED <<stored, open>>

MarketNext == Begin \/ More \/ Commit \/ Abort \/ Tick

MarketSpec == MarketInit /\ [][MarketNext]_marketVars

-----------------------------------------------------------------------------
(* Selection, for a lease date and a moment of knowledge.                    *)

\* ORDER BY observed_on DESC, id
NewerRow(c, d) == c.day > d.day \/ (c.day = d.day /\ c.id < d.id)

Candidates ==
  {c \in stored : Cardinality({d \in stored : NewerRow(d, c)}) < CandidateLimit}

\* sorted(..., key=(observed_on, id), reverse=True): c comes before d.
Before(c, d) == c.day > d.day \/ (c.day = d.day /\ c.id > d.id)

LastOf(S) == CHOOSE c \in S : \A d \in S \ {c} : Before(d, c)

Age(c, effective) == effective - c.day

\* BUG: an observation counts before it is known.
AcceptableUnseen(c, effective, known) ==
  /\ c.day <= effective /\ Age(c, effective) <= Window
  /\ c.score # Unfit

Acceptable(c, effective, known) ==
  /\ c.recorded <= known
  /\ c.day <= effective /\ Age(c, effective) <= Window
  /\ c.score # Unfit

\* BUG: an observation that is not accepted hides older ones of its property.
ConsiderMarkingAll(acc, c, effective, known) ==
  [chosen |-> IF c.ref \notin acc.seen /\ Acceptable(c, effective, known)
              THEN acc.chosen \cup {c} ELSE acc.chosen,
   seen |-> acc.seen \cup {c.ref}]

\* One turn of the loop: only an accepted observation marks its property.
Consider(acc, c, effective, known) ==
  IF c.ref \notin acc.seen /\ Acceptable(c, effective, known)
  THEN [chosen |-> acc.chosen \cup {c}, seen |-> acc.seen \cup {c.ref}]
  ELSE acc

\* The loop; the fold takes apart the observation that comes last.
Chosen(effective, known) ==
  MapThenFoldSet(LAMBDA c, acc : Consider(acc, c, effective, known),
                 [chosen |-> {}, seen |-> {}], LAMBDA c : c, LastOf, Candidates).chosen

\* The best by score and id; the score grows with age.
Better(c, d, effective) ==
  LET sc == c.score + Age(c, effective)
      sd == d.score + Age(d, effective)
  IN  sc < sd \/ (sc = sd /\ c.id < d.id)

Selected(effective, known) ==
  LET chosen == Chosen(effective, known)
  IN  {c \in chosen : Cardinality({d \in chosen : Better(d, c, effective)}) < Shown}

-----------------------------------------------------------------------------
(* Properties.                                                               *)

\* The loop of compare selects, of each property, its newest acceptable
\* observation, and nothing else: an observation that is too new, too old or
\* not known yet does not hide an older one (model.py:30-54).
NewestOfEachProperty ==
  \A effective, known \in Days :
    LET ok == {c \in Candidates : Acceptable(c, effective, known)}
    IN  Chosen(effective, known) =
          {c \in ok : \A d \in ok : d.ref = c.ref =>
             d.day < c.day \/ (d.day = c.day /\ d.id <= c.id)}

\* No import that is under way or starts later has a recorded_at before this.
Horizon == IF open = {} THEN clock ELSE (CHOOSE c \in open : TRUE).recorded

\* The sample that a lookup selects for a past moment of knowledge stays the
\* same whatever is imported afterwards, as long as the candidates fit into the
\* limit: there is no look-ahead (model.py:39, store.go:98).
PastSamplesStand ==
  [][\A effective, known \in Days :
       known < Horizon /\ Cardinality(stored') <= CandidateLimit =>
         Selected(effective, known)' = Selected(effective, known)]_marketVars
=============================================================================
