------------------------------ MODULE LiveSync ------------------------------
(***************************************************************************)
(* One live object seen from several pages of a session: the stores of     *)
(* packages/client/src/store.ts, each behind the connection of its page    *)
(* (connection.ts), the stream and the upstream requests of a transport,   *)
(* and the instance at the other end (instance.ts, handler.ts).            *)
(*                                                                         *)
(* The instance is taken at the grain of LiveInstance's acks: a batch that *)
(* is not a resend starts a run, and runs overlap.  The state is a log: the*)
(* entry of a batch stands for its writes being in the state, all of them, *)
(* and what is flushed before the end of a run is nobody's entry.  A run   *)
(* that ends puts its entry in the log with its ack, in one envelope, save *)
(* that an error ack of another run may have taken the writes, and commits *)
(* them later, or a draft that held them threw (LiveInstance's `early` and *)
(* `lost`): then the success is acked without them.                        *)
(* A page is one document: its rpc counter starts over with it, and a tab  *)
(* that reloads is another page.                                           *)
(***************************************************************************)
EXTENDS LiveStore, SequencesExt

CONSTANTS
    Pages,       \* documents of the session that show this instance
    Other,       \* the author of a write that is no page's batch
    Transport,   \* "sse" or "ws"
    AckLimit,    \* ACK_CACHE_LIMIT
    MaxCalls,    \* bound: batches per page
    MaxWrites,   \* bound: writes of others
    MaxDrops,    \* bound: dropped streams
    MaxLost,     \* bound: upstream requests that fail (SSE)
    MaxCorrupt   \* bound: frames a store cannot apply

ASSUME SyncConstantsOK ==
    /\ Other \notin Pages
    /\ Transport \in {"sse", "ws"}
    /\ {AckLimit, MaxCalls, MaxWrites, MaxDrops, MaxLost, MaxCorrupt} \subseteq Nat
    /\ AckLimit > 0

VARIABLES
    log, seq, acks, running,   \* the instance: state, seq, dedupe window, runs under way
    astray,    \* history: batches acked as a success while their writes were
               \* with the error ack of another run, or lost
    document,  \* per page: its life, the store it holds, whether SSR filled it
    store,     \* per page
    used,      \* per page: rpcCounter
    outcome,   \* per page: how the promise of each batch settled
    link,      \* per page: the stream
    opened,    \* per page: #everOpened
    down,      \* per page: envelopes on the stream, oldest first
    up,        \* per page: frames or requests on their way to the server
    unsure,    \* history, per page: batches called before the first open, or
               \* whose request failed, and not resent since
    count      \* bounded inputs used so far

server == <<log, seq, acks, running, astray>>
client == <<document, store, used, outcome>>
syncVars == <<server, client, link, opened, down, up, unsure, count>>

Write == [by : Pages \cup {Other}, n : Nat]
RpcNo == 1 .. MaxCalls
Resync == [kind |-> "resync", n |-> 0]
BatchMsg(n) == [kind |-> "batch", n |-> n]

SyncInit ==
    /\ log = <<>> /\ seq = 1 /\ acks = <<>> /\ astray = {}
    /\ running = [p \in Pages |-> [n \in RpcNo |-> 0]]
    /\ document = [p \in Pages |-> "new"]
    /\ store = [p \in Pages |-> FreshStore]
    /\ used = [p \in Pages |-> 0]
    /\ outcome = [p \in Pages |-> [n \in RpcNo |-> "none"]]
    /\ link = [p \in Pages |-> "down"]
    /\ opened = [p \in Pages |-> FALSE]
    /\ down = [p \in Pages |-> <<>>] /\ up = [p \in Pages |-> <<>>]
    /\ unsure = [p \in Pages |-> {}]
    /\ count = [write |-> 0, drop |-> 0, lost |-> 0, corrupt |-> 0]

Use(what, most) == count[what] < most /\ count' = [count EXCEPT ![what] = @ + 1]

-----------------------------------------------------------------------------
(* The instance *)

(* An envelope goes to every subscribed stream of the session.             *)
SentTo(dn, env, joining) ==
    [p \in Pages |-> IF link[p] # "down" \/ p \in joining THEN Append(dn[p], env) ELSE dn[p]]

FullTo(joining) ==
    /\ seq' = seq + 1
    /\ down' = SentTo(down, Full(seq + 1, log), joining)

(* The dedupe window is keyed by the rpc id alone.                         *)
CachedAck(n) == Only(acks, {env \in Range(acks) : env.ack = n})

Remember(env) ==
    acks' = IF CachedAck(env.ack) # <<>>
            THEN [i \in DOMAIN acks |-> IF acks[i].ack = env.ack THEN env ELSE acks[i]]
            ELSE LET kept == Append(acks, env) IN IF Len(kept) > AckLimit THEN Tail(kept) ELSE kept

(* Mutant: a cached batch is swallowed without its ack.                    *)
ReceiveUnanswered(p, msg) ==
    IF msg.kind = "resync"
    THEN FullTo({}) /\ UNCHANGED <<log, acks, running, astray>>
    ELSE /\ IF CachedAck(msg.n) # <<>>
            THEN UNCHANGED running
            ELSE running' = [running EXCEPT ![p][msg.n] = @ + 1]
         /\ UNCHANGED <<log, seq, acks, down, astray>>

(* acceptBatch and handleBatch up to the first handler, or the resync      *)
(* control.                                                                *)
Receive(p, msg) ==
    IF msg.kind = "resync"
    THEN FullTo({}) /\ UNCHANGED <<log, acks, running, astray>>
    ELSE /\ UNCHANGED <<log, seq, acks, astray>>
         /\ IF CachedAck(msg.n) # <<>>
            THEN down' = SentTo(down, CachedAck(msg.n)[1], {}) /\ UNCHANGED running
            ELSE running' = [running EXCEPT ![p][msg.n] = @ + 1] /\ UNCHANGED down

Arrive(p) ==
    /\ \E i \in DOMAIN up[p] :
         /\ Transport = "ws" => i = 1
         /\ Receive(p, up[p][i])
         /\ up' = [up EXCEPT ![p] = RemoveAt(@, i)]
    /\ UNCHANGED <<client, link, opened, unsure, count>>

(* What an error ack took over from runs that have succeeded since.        *)
Late == {late \in SeqOf(astray \ Range(log), MaxCalls) : IsInjective(late)}

(* A run ends.  Its ack carries the writes of the batch.  An error ack may *)
(* carry them or not, those of the calls before the one that failed, and   *)
(* it carries what it took over; a success ack comes without them when an  *)
(* error ack or a draft that threw took them and no earlier run brought    *)
(* the same.                                                               *)
Finish(p, n) ==
    LET own == [by |-> p, n |-> n] IN
    /\ running[p][n] > 0
    /\ running' = [running EXCEPT ![p][n] = @ - 1]
    /\ \E ok \in BOOLEAN, written \in BOOLEAN, late \in Late :
         LET writes == late \o (IF written THEN <<own>> ELSE <<>>)
             env == Patches(seq + 1, writes, n, ok)
         IN /\ ok => late = <<>>
            /\ astray' = IF ok /\ ~written THEN astray \cup ({own} \ Range(log)) ELSE astray
            /\ log' = log \o writes
            /\ seq' = seq + 1
            /\ Remember(env)
            /\ down' = SentTo(down, env, {})
    /\ UNCHANGED <<client, link, opened, up, unsure, count>>

(* A flush without an ack: a broadcast reaction, a chunk, another user.    *)
OtherWrite ==
    /\ Use("write", MaxWrites)
    /\ LET writes == <<[by |-> Other, n |-> count.write]>> IN
         /\ log' = log \o writes
         /\ seq' = seq + 1
         /\ down' = SentTo(down, Patches(seq + 1, writes, NoAck, TRUE), {})
    /\ UNCHANGED <<acks, running, astray, client, link, opened, up, unsure>>

-----------------------------------------------------------------------------
(* The page *)

(* Upstream sends.  A batch for a closed socket is dropped: a reopened one *)
(* resends what is unacked.  SSE posts whatever the stream does, and so    *)
(* does a control message.                                                 *)
Send(p, msgs) ==
    up' = [up EXCEPT ![p] = IF Transport = "sse" \/ link[p] = "open" THEN @ \o msgs ELSE @]

(* The document: server-rendered with the present state and seq, or bare,  *)
(* its store waiting; or a page whose store for this instance comes later. *)
Load(p) ==
    /\ document[p] = "new"
    /\ \/ document' = [document EXCEPT ![p] = "ssr"]
          /\ store' = [store EXCEPT ![p] =
                         ApplyEnvelope(FreshStore, Full(seq, log), FALSE)]
       \/ document' = [document EXCEPT ![p] = "held"] /\ UNCHANGED store
       \/ document' = [document EXCEPT ![p] = "bare"] /\ UNCHANGED store
    /\ UNCHANGED <<server, used, outcome, link, opened, down, up, unsure, count>>

(* Mutant: the store waits, nobody asks.                                   *)
BindSilently(p) ==
    /\ document[p] = "bare" /\ link[p] = "open"
    /\ document' = [document EXCEPT ![p] = "held"]
    /\ UNCHANGED <<server, store, used, outcome, link, opened, down, up, unsure, count>>

(* A slot or a remount binds a store to an instance that already streams   *)
(* to this page, and asks for its snapshot.                                *)
Bind(p) ==
    /\ document[p] = "bare" /\ link[p] = "open"
    /\ document' = [document EXCEPT ![p] = "held"]
    /\ up' = [up EXCEPT ![p] = Append(@, Resync)]
    /\ UNCHANGED <<server, store, used, outcome, link, opened, down, unsure, count>>

(* The stream reaches the server, which subscribes it: an SSR page whose   *)
(* seq is still current is adopted, once, else everyone gets a full.       *)
Connect(p) ==
    /\ document[p] \notin {"new", "closed"} /\ link[p] = "down"
    /\ link' = [link EXCEPT ![p] = "opening"]
    /\ document' = [document EXCEPT ![p] = IF @ = "ssr" THEN "held" ELSE @]
    /\ \/ document[p] = "ssr" /\ store[p].seq = seq /\ UNCHANGED <<seq, down>>
       \/ FullTo({p})
    /\ UNCHANGED <<log, acks, running, astray, store, used, outcome, opened, up, unsure,
                   count>>

(* Mutant: a reopened stream resends nothing.                              *)
OpenedSilently(p) ==
    /\ link[p] = "opening"
    /\ link' = [link EXCEPT ![p] = "open"]
    /\ opened' = [opened EXCEPT ![p] = TRUE]
    /\ unsure' = [unsure EXCEPT ![p] = IF opened[p] THEN {} ELSE Range(store[p].ops)]
    /\ UNCHANGED <<server, client, down, up, count>>

(* The page learns that the stream is open; a reopened one resends.        *)
Opened(p) ==
    /\ link[p] = "opening"
    /\ link' = [link EXCEPT ![p] = "open"]
    /\ opened' = [opened EXCEPT ![p] = TRUE]
    /\ LET resend == [i \in DOMAIN Unacked(store[p]) |-> BatchMsg(Unacked(store[p])[i])] IN
         up' = [up EXCEPT ![p] = IF opened[p] THEN @ \o resend ELSE @]
    /\ unsure' = [unsure EXCEPT ![p] = IF opened[p] THEN {} ELSE Range(store[p].ops)]
    /\ UNCHANGED <<server, client, down, count>>

(* The stream dies with what is on it; a socket also with what it carries. *)
CutOff(p) ==
    /\ link' = [link EXCEPT ![p] = "down"]
    /\ down' = [down EXCEPT ![p] = <<>>]
    /\ up' = [up EXCEPT ![p] = IF Transport = "ws" THEN <<>> ELSE @]

Drop(p) ==
    /\ link[p] # "down"
    /\ Use("drop", MaxDrops)
    /\ CutOff(p)
    /\ UNCHANGED <<server, client, opened, unsure>>

(* A request fails before the server sees it; nobody retries it.           *)
LosePost(p) ==
    /\ Transport = "sse"
    /\ Use("lost", MaxLost)
    /\ \E i \in DOMAIN up[p] :
         /\ up' = [up EXCEPT ![p] = RemoveAt(@, i)]
         /\ unsure' = [unsure EXCEPT ![p] =
                         IF up[p][i].kind = "batch" THEN @ \cup {up[p][i].n} ELSE @]
    /\ UNCHANGED <<server, client, link, opened, down>>

(* The tab is closed or reloaded.                                          *)
Close(p) ==
    /\ document[p] \notin {"new", "closed"}
    /\ document' = [document EXCEPT ![p] = "closed"]
    /\ CutOff(p)
    /\ UNCHANGED <<server, store, used, outcome, opened, unsure, count>>

(* rpc calls of one tick, flushed as one batch.                            *)
Call(p) ==
    /\ document[p] \in {"ssr", "held"} /\ used[p] < MaxCalls
    /\ used' = [used EXCEPT ![p] = @ + 1]
    /\ store' = [store EXCEPT ![p] = Submit(@, used[p] + 1)]
    /\ Send(p, <<BatchMsg(used[p] + 1)>>)
    /\ UNCHANGED <<server, document, outcome, link, opened, down, unsure, count>>

(* The next envelope of the stream; one for a store the page does not hold *)
(* is ignored.                                                             *)
Deliver(p) ==
    /\ link[p] = "open" /\ down[p] # <<>>
    /\ down' = [down EXCEPT ![p] = Tail(@)]
    /\ LET env == Head(down[p])
           s == store[p]
       IN
       \/ /\ document[p] = "bare"
          /\ UNCHANGED <<store, outcome, up, count>>
       \/ /\ document[p] = "held"
          /\ \E corrupt \in BOOLEAN :
               /\ IF corrupt THEN InOrder(s, env) /\ env.writes # <<>> /\ Use("corrupt", MaxCorrupt)
                             ELSE UNCHANGED count
               /\ store' = [store EXCEPT ![p] = ApplyEnvelope(s, env, corrupt)]
               /\ up' = [up EXCEPT ![p] = IF AsksResync(s, env, corrupt)
                                          THEN Append(@, Resync) ELSE @]
          /\ outcome' = IF Settles(s, env)
                        THEN [outcome EXCEPT ![p][env.ack] = IF env.ok THEN "ok" ELSE "error"]
                        ELSE outcome
    /\ UNCHANGED <<server, document, used, link, opened, unsure>>

-----------------------------------------------------------------------------
Serve(p) == Arrive(p) \/ \E n \in RpcNo : Finish(p, n)
Stream(p) == Connect(p) \/ Opened(p) \/ Deliver(p)

SyncNext ==
    \/ OtherWrite
    \/ \E p \in Pages :
         \/ Serve(p) \/ Stream(p)
         \/ Load(p) \/ Bind(p) \/ Call(p)
         \/ Drop(p) \/ LosePost(p) \/ Close(p)

SyncSpec == SyncInit /\ [][SyncNext]_syncVars

(* A page reconnects (EventSource, or the socket's backoff), frames that   *)
(* are not lost arrive, streams are read, and handlers come to an end.     *)
SyncFairness ==
    \A p \in Pages :
        /\ WF_syncVars(Connect(p)) /\ WF_syncVars(Opened(p)) /\ WF_syncVars(Deliver(p))
        /\ WF_syncVars(Arrive(p)) /\ \A n \in RpcNo : WF_syncVars(Finish(p, n))

FairSpec == SyncSpec /\ SyncFairness
-----------------------------------------------------------------------------
(* Properties *)

Live(p) == document[p] = "held" /\ link[p] = "open"

(* wire-protocol.md, invariants 1 and 4: what a store has confirmed is a   *)
(* state the instance was in, through gaps, stale and repeated acks,       *)
(* unusable frames, reconnections and adoption; and a store that trusts it *)
(* and has read its whole stream has the present one (applyEnvelope).      *)
ConfirmedExact ==
    \A p \in Pages :
        /\ IsPrefix(store[p].confirmed, log)
        /\ Live(p) /\ ~store[p].awaiting /\ down[p] = <<>> =>
              store[p].confirmed = log /\ store[p].seq = seq

(* The batch of a pending call is somewhere: on its way, running, or       *)
(* answered by an envelope on the stream.                                  *)
Covered(p, n) ==
    \/ BatchMsg(n) \in Range(up[p])
    \/ running[p][n] > 0
    \/ \E i \in DOMAIN down[p] : down[p][i].ack = n

(* On an open stream every pending call is covered, across drops, resends, *)
(* evictions from the dedupe window and re-acks, if it was made since the  *)
(* stream first opened and its own request did not fail (#send, #flush,    *)
(* resendUnacked).  A call made before that waits for a reconnection:      *)
(* #send drops it and the first open resends nothing (connection.ts:1169). *)
CallCovered ==
    \A p \in Pages : Live(p) =>
        \A n \in Range(store[p].ops) \ unsure[p] : Covered(p, n)

(* A store that waits for a snapshot on an open stream has one coming: the *)
(* snapshot itself or the request for it (requestResync, subscribeSession).*)
(* wire-protocol.md:268: a client that resyncs every gap still converges.  *)
RecoveryUnderWay ==
    \A p \in Pages : Live(p) /\ store[p].awaiting =>
        Resync \in Range(up[p]) \/ \E i \in DOMAIN down[p] : down[p][i].full

(* Neither is forgotten while the stream is open.                          *)
NothingForgotten == CallCovered /\ RecoveryUnderWay

(* A call that succeeded shows: its write is in the confirmed state of the *)
(* page, unless the store is waiting for a snapshot.  It implies that an   *)
(* acked batch ran (#settleOp; the dedupe window of handleBatch).  With    *)
(* several pages it is what wire-protocol.md:96-103 promises of resends.   *)
(* The exception is a success whose writes had gone astray when it was     *)
(* acked: see AckAfterWritesButEarly of LiveInstance.                      *)
AckedShows ==
    \A p \in Pages : \A n \in RpcNo :
        outcome[p][n] = "ok" /\ ~store[p].awaiting /\ [by |-> p, n |-> n] \notin astray =>
            [by |-> p, n |-> n] \in Range(store[p].confirmed)

Promise == INSTANCE SyncPromise WITH
              seen <- [p \in Pages |-> store[p].confirmed],
              done <- [p \in Pages |->
                         {n \in RpcNo : outcome[p][n] = "ok" /\ [by |-> p, n |-> n] \notin astray}]

(* Pages read an append-only log in order, and a call that succeeds has its*)
(* write in that log by then, unless it went astray: see SyncPromise.      *)
KeepsPromise == Promise!Spec

(* A call of an open page settles, unless its request is lost, or it was   *)
(* made before the stream first opened.                                    *)
CallsSettle ==
    \A p \in Pages : \A n \in RpcNo :
        n \in Range(store[p].ops) /\ opened[p] /\ n \notin unsure[p]
            ~> n \notin Range(store[p].ops) \/ document[p] = "closed" \/ n \in unsure[p]

(* A page that stays converges: its store ends up trusting what it has.    *)
StoreRecovers ==
    \A p \in Pages : document[p] = "held" ~> document[p] = "closed" \/ ~store[p].awaiting
=============================================================================
