----------------------------- MODULE MCGateway ------------------------------
(* A small instance of Gateway for TLC: two requests and two connections,    *)
(* two tenants, one of them with a viewer besides its owner.                 *)
EXTENDS Gateway, TLC

CONSTANTS r1, r2, c1, c2, k1, k2, k3, t1, t2

Ask(ops, keys) == [op : ops, key : keys]

MCAsked ==
  (r1 :> (Ask(Operations, {k1}) \cup Ask({"report", "analysis"}, {k2})
            \cup Ask({"create"}, {k3}))) @@
  (r2 :> (Ask({"create", "analysis", "enqueue"}, {k1}) \cup Ask({"report"}, {k3})))

MCTenantOf == (k1 :> t1) @@ (k2 :> t2) @@ (k3 :> t1)
=============================================================================
