--------------------------- MODULE MCLiveInstance ---------------------------
(* Values of LiveInstance's constants for TLC. *)
EXTENDS LiveInstance, TLC

CONSTANTS e1, e2, r1, r2, r3, none, l1

TwoRuns == {e1, e2}
OneRun == {e1}
OneRpc == {r1}
AllRpcs == {r1, r2, r3}

(* r1 carries one call, r2 two, r3 none. *)
Calls == [r \in RpcIds |-> IF r = r1 THEN 1 ELSE IF r = r2 THEN 2 ELSE 0]

OneListener == {l1}
NoListener == {}
NoBatch == {}
RefusedBatch == {r2}

RunSymmetry == Permutations(Runs)
=============================================================================
