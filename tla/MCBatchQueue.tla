---------------------------- MODULE MCBatchQueue ----------------------------
(* Small instances of BatchQueue for TLC.                                   *)
EXTENDS BatchQueue, TLC

CONSTANTS w1, w2, i1, i2, t1, t2

TwoItems == {i1, i2}
OneJob == {Items}
JobPerItem == {{i} : i \in Items}
OneTenant == [i \in Items |-> t1]
TenantPerItem == (i1 :> t1) @@ (i2 :> t2)
AnyButTheSignal == FaultKinds \ {"shutdown"}
AllFaults == FaultKinds
OnlyShutdown == {"shutdown"}
=============================================================================
