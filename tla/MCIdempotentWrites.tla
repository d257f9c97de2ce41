------------------------- MODULE MCIdempotentWrites -------------------------
(* A small instance of IdempotentWrites for TLC: a key of each kind that     *)
(* differs in its steps, with two bodies.                                    *)
EXTENDS IdempotentWrites, TLC

CONSTANTS kAnalysis, kJob, kBatch

MCKindOf == kAnalysis :> "analysis" @@ kJob :> "job" @@ kBatch :> "batch"
=============================================================================
