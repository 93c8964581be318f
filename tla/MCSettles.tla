------------------------------ MODULE MCSettles ------------------------------
(***************************************************************************)
(* What must come to an end, for TLC: the calls of a page over a socket    *)
(* (LiveSync), the batches of an instance (LiveInstance), the requests that*)
(* reconcile one (Reconcile) and the streams of slow clients (Egress).     *)
(* They share no variable, so a behaviour is of one of them: `part` says   *)
(* which, and the others rest in one of their initial states.              *)
(***************************************************************************)
EXTENDS LiveSync

VARIABLES
    part,
    conn, sends,
    life, run, issued, pending, timer, queue, phase, backlog, ending, state, lastSeq,
    cached, listener, row, saving, closing, lost, early, inputs,
    pc, props, skip, auth, newest, started, loader, patches, gate, render, wrote, threw,
    writes, data, last, drained, ruined, disposed

(* One stream; what others do to it are envelopes. *)
Out == INSTANCE Egress WITH
    Streams <- {"x"}, Sources <- {"i", "j"}, Budget <- 3, Sizes <- {1, 2}, MaxSends <- 3

(* Two runs of a batch of two calls, or of a resend of it. *)
TwoCalls == [r \in {"r"} |-> 2]
Object == INSTANCE LiveInstance WITH
    NoRun <- "none", Runs <- {"e1", "e2"}, RpcIds <- {"r"}, CallsOf <- TwoCalls,
    Rejected <- {}, Listeners <- {}, AckLimit <- 1, BacklogCap <- 1,
    MaxWrites <- 2, MaxEvents <- 0, MaxPublish <- 0, MaxViews <- 0,
    seq <- lastSeq, acks <- cached, conn <- listener, count <- inputs

(* Three requests for two sets of props, and loaders that do not write. *)
Warm == INSTANCE Reconcile WITH
    Reqs <- 1 .. 3, First <- 1, NoReq <- 0, Props <- {"a", "b"}, Built <- "a",
    NoProps <- "none", Restored <- FALSE, MaxPatches <- 0, pending <- writes, page <- data

-----------------------------------------------------------------------------
egressVars == <<conn, sends>>
liveVars == <<life, run, issued, pending, timer, queue, phase, backlog, ending, state,
              lastSeq, cached, listener, row, saving, closing, lost, early, inputs>>
loadVars == <<pc, props, skip, auth, newest, started, loader, patches, gate, render, wrote,
              threw, writes, data, last, drained, ruined, disposed>>
allVars == <<part, syncVars, egressVars, liveVars, loadVars>>

SettlesInit ==
    /\ part \in {"sync", "egress", "live", "load"}
    /\ SyncInit
    /\ Out!Init /\ (part # "egress" => \A s \in DOMAIN conn : conn[s].kind = "sse")
    /\ Object!Init
    /\ Warm!Init /\ (part # "load" => wrote /\ loader[1] = "over")

SettlesNext ==
    /\ \/ part = "sync" /\ SyncNext /\ UNCHANGED <<egressVars, liveVars, loadVars>>
       \/ part = "egress" /\ Out!Next /\ UNCHANGED <<syncVars, liveVars, loadVars>>
       \/ part = "live" /\ Object!Next /\ UNCHANGED <<syncVars, egressVars, loadVars>>
       \/ part = "load" /\ Warm!Next /\ UNCHANGED <<syncVars, egressVars, liveVars>>
    /\ UNCHANGED part

SettlesSpec ==
    /\ SettlesInit /\ [][SettlesNext]_allVars
    /\ SyncFairness /\ Out!Fairness /\ Object!RuntimeFairness /\ Warm!Fairness
-----------------------------------------------------------------------------
(* A killed stream is reaped, although its client stalls (Egress).         *)
KilledIsReaped == Out!KilledIsReaped
(* Every batch is answered, or dropped by dispose (LiveInstance).          *)
EveryBatchSettles == Object!EveryBatchSettles
(* Every request that reconciles is answered (Reconcile).                  *)
EveryRequestEnds == Warm!EveryRequestEnds
=============================================================================
