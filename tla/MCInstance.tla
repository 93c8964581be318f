----------------------------- MODULE MCInstance -----------------------------
(***************************************************************************)
(* One live object in two settings, for TLC: with a connection, which      *)
(* resyncs and reattaches, or with broadcasts, sent and received.  Both at *)
(* once are out of reach; `part` says which.                               *)
(***************************************************************************)
EXTENDS MCLiveInstance

VARIABLE part

OneCall == [r \in OneRpc |-> 1]
Broadcasts == INSTANCE LiveInstance WITH
    RpcIds <- OneRpc, CallsOf <- OneCall, Rejected <- NoBatch,
    MaxEvents <- 1, MaxPublish <- 1, MaxViews <- 0

InstanceInit == Init /\ part \in {"connected", "broadcasts"}

InstanceNext ==
    /\ \/ part = "connected" /\ Next
       \/ part = "broadcasts" /\ Broadcasts!Next
    /\ UNCHANGED part

InstanceSpec == InstanceInit /\ [][InstanceNext]_<<part, vars>>
=============================================================================
