---------------------------- MODULE LiveInstance ----------------------------
(***************************************************************************)
(* One live object on the server: packages/core/src/instance.ts running on *)
(* the queue of packages/core/src/queue.ts.                                *)
(*                                                                         *)
(* Rpc handlers run off the queue and interleave at their awaits; their    *)
(* writes go to one pending list shared by the instance, and only tasks of *)
(* the FIFO queue touch the state.  A task is not atomic: it applies its   *)
(* writes in one synchronous segment and then awaits the storage write, so *)
(* a task of the model is a start step and an end step, and everything     *)
(* that does not use the queue (resync, SSR reads, arriving batches, timer *)
(* callbacks, error acks without patches) may happen in between.           *)
(*                                                                         *)
(* Abstraction.  A write (mutator) is a number, given out in the order the *)
(* patchState calls are made; the state is the sequence of writes applied  *)
(* so far, which is what a patch stream must reproduce (patches are not    *)
(* idempotent: array inserts and string appends).  A recipe may throw.     *)
(* A connected client is the replica its envelopes, all consumed, give it. *)
(***************************************************************************)
EXTENDS Integers, Sequences, FiniteSets, Functions

CONSTANTS
    Runs,        \* invocations of handleBatch, a resent batch being another one
    NoRun,       \* the author of what no rpc run issued
    RpcIds,      \* batch ids
    CallsOf,     \* RpcIds -> number of calls in the batch
    Rejected,    \* batches refused at the door (protocol version, shape, size)
    Listeners,   \* connections
    AckLimit,    \* ACK_CACHE_LIMIT
    BacklogCap,  \* maxBroadcastBacklog
    MaxWrites,   \* bound: writes issued
    MaxEvents,   \* bound: broadcasts received from other instances
    MaxPublish,  \* bound: broadcasts sent
    MaxViews     \* bound: resync, SSR reads and (re)attachments

ASSUME ConstantsOK ==
    /\ NoRun \notin Runs
    /\ CallsOf \in [RpcIds -> Nat]
    /\ Rejected \subseteq RpcIds
    /\ {AckLimit, BacklogCap, MaxWrites, MaxEvents, MaxPublish, MaxViews} \subseteq Nat
    /\ AckLimit > 0

VARIABLES
    life,     \* "up", then inside dispose "draining" and "closing", then "gone"
    run,      \* per invocation: program counter, batch id, calls left
    issued,   \* history: who issued each write, and from where
    pending,  \* #pendingMuts
    timer,    \* #flushScheduled
    queue,    \* tasks of the SerialQueue, the head being the current one
    phase,    \* where the head task is: not started, or at which await
    backlog,  \* #broadcastBacklog
    ending,   \* the last `on` run is over and its finally has not run yet
    state,    \* #state
    seq,      \* #seq
    acks,     \* keys of the #acks cache, oldest first
    conn,     \* listeners and the replicas behind them
    row,      \* the page state in the stored snapshot
    saving,   \* the state the last queue task handed to storage
    closing,  \* the state dispose handed to storage
    lost,     \* history: writes discarded with a draft, and the one that threw
    early,    \* history: writes an error ack took out of the pending list
    count     \* bounded inputs used so far

vars == <<life, run, issued, pending, timer, queue, phase, backlog, ending, state, seq,
          acks, conn, row, saving, closing, lost, early, count>>

WriteId == 1 .. Len(issued)
Settled == {"acked", "failed", "reacked", "dropped"}

Author == [run : Runs \cup {NoRun}, kind : {"patch", "onError", "event"}, upto : Nat]
Task == {t \in [kind : {"chunk", "final", "err", "event", "publish"},
                 run : Runs \cup {NoRun}, muts : Seq(Nat), upto : Nat] :
           t.kind \in {"final", "err"} => t.run \in Runs}
RunState == {s \in [pc : {"idle", "prepare", "body", "final", "thrown", "err"} \cup Settled,
                    rpc : RpcIds \cup {NoRun}, left : Nat] :
               s.pc \in {"prepare", "body"} => s.left > 0}
Connection == [st : {"off", "page", "on"}, view : Seq(Nat), seq : Nat, torn : BOOLEAN]

TaskOf(kind, e) == [kind |-> kind, run |-> e, muts |-> <<>>, upto |-> 0]
AuthorOf(kind, e) == [run |-> e, kind |-> kind, upto |-> 0]

(* The writes an error ack has applied and not announced yet: #ackError    *)
(* emits only after its queue task, storage write included, is over.       *)
Unsent == IF phase = "write" /\ queue[1].kind = "err" THEN queue[1].muts ELSE <<>>

-----------------------------------------------------------------------------
(* Init: LiveInstance.create has run setup and its first write-through; no *)
(* listener is attached yet.                                               *)
Init ==
    /\ life = "up"
    /\ run = [e \in Runs |-> [pc |-> "idle", rpc |-> NoRun, left |-> 0]]
    /\ issued = <<>> /\ pending = <<>> /\ timer = FALSE
    /\ queue = <<>> /\ phase = "idle"
    /\ backlog = 0 /\ ending = FALSE
    /\ state = <<>> /\ seq = 1 /\ acks = <<>>
    /\ conn = [l \in Listeners |-> [st |-> "off", view |-> <<>>, seq |-> 0, torn |-> FALSE]]
    /\ row = <<>> /\ saving = <<>> /\ closing = <<>>
    /\ lost = {} /\ early = {}
    /\ count = [event |-> 0, publish |-> 0, view |-> 0]

(* #emit: the next sequence number to every attached listener.             *)
Told(c, ms, n) == [c EXCEPT !.view = c.view \o ms, !.seq = n]

Announce(ms) ==
    /\ seq' = seq + 1
    /\ conn' = [l \in Listeners |->
                  IF conn[l].st = "on" THEN Told(conn[l], ms, seq + 1) ELSE conn[l]]

(* A snapshot of the present state, as SSR and `full` envelopes take it.   *)
Seen(st, n) == [st |-> st, view |-> state, seq |-> n, torn |-> Unsent # <<>>]

(* The #acks map keeps insertion order and evicts its oldest key.          *)
CacheAck(r) ==
    acks' = IF r \in Range(acks) THEN acks
            ELSE LET cached == Append(acks, r)
                 IN  IF Len(cached) > AckLimit THEN Tail(cached) ELSE cached

EmitAck(r, ms) == Announce(ms) /\ CacheAck(r)

Goto(e, pc) == run' = [run EXCEPT ![e].pc = pc]
Enqueue(t) == queue' = Append(queue, t)
Pop == queue' = Tail(queue) /\ phase' = "idle"
At(kind) == queue # <<>> /\ queue[1].kind = kind /\ phase = "idle"

(* A draft over these writes throws: one of them is to blame, all are lost.*)
Discard(ms) ==
    \E by \in Range(ms) : lost' = lost \cup {[id |-> m, by |-> by] : m \in Range(ms)}

Issue(author) ==
    /\ Len(issued) < MaxWrites
    /\ issued' = Append(issued, author)
NextWrite == Len(issued) + 1

-----------------------------------------------------------------------------
(* Batches *)

(* #ackError.  The pending list is taken at once, with the repair of the   *)
(* rpc's onError if it declares one; with nothing to apply, the error ack  *)
(* goes out at once too, else it waits for its queue task.                 *)
AckError(e, r, repairs) ==
    \E repair \in repairs :
      LET taken == IF repair THEN Append(pending, NextWrite) ELSE pending
          Become(pc) == run' = [run EXCEPT ![e] = [pc |-> pc, rpc |-> r, left |-> @.left]]
      IN
        /\ IF repair THEN Issue(AuthorOf("onError", e)) ELSE UNCHANGED issued
        /\ pending' = <<>>
        /\ early' = early \cup Range(taken)
        /\ \/ /\ taken = <<>>
              /\ EmitAck(r, <<>>)
              /\ Become("failed")
              /\ UNCHANGED queue
           \/ /\ taken # <<>>
              /\ Enqueue([TaskOf("err", e) EXCEPT !.muts = taken])
              /\ Become("err")
              /\ UNCHANGED <<seq, conn, acks>>
        /\ UNCHANGED <<life, timer, phase, backlog, ending, state, row, saving, closing, lost, count>>

(* The synchronous part of handleBatch: refused at the door, re-acked from *)
(* the dedupe window, or started.  The registry delivers to live instances.*)
Refuse(e, r) ==
    /\ life = "up"
    /\ run[e].pc = "idle" /\ r \in Rejected
    /\ AckError(e, r, {FALSE})

Reack(e, r) ==
    /\ life = "up"
    /\ run[e].pc = "idle" /\ r \in Range(acks)
    /\ run' = [run EXCEPT ![e] = [pc |-> "reacked", rpc |-> r, left |-> 0]]
    /\ UNCHANGED <<life, issued, pending, timer, queue, phase, backlog, ending, state, seq,
                   acks, conn, row, saving, closing, lost, early, count>>

Deliver(e, r) ==
    /\ life = "up"
    /\ run[e].pc = "idle" /\ r \notin Rejected /\ r \notin Range(acks)
    /\ LET pc == IF CallsOf[r] = 0 THEN "final" ELSE "prepare" IN
         /\ run' = [run EXCEPT ![e] = [pc |-> pc, rpc |-> r, left |-> CallsOf[r]]]
         /\ IF pc = "final" THEN Enqueue(TaskOf("final", e)) ELSE UNCHANGED queue
    /\ UNCHANGED <<life, issued, pending, timer, phase, backlog, ending, state, seq, acks,
                   conn, row, saving, closing, lost, early, count>>

(* #prepare admitted the call: its handler starts.                         *)
Prepared(e) ==
    /\ run[e].pc = "prepare"
    /\ Goto(e, "body")
    /\ UNCHANGED <<life, issued, pending, timer, queue, phase, backlog, ending, state, seq,
                   acks, conn, row, saving, closing, lost, early, count>>

(* The catch of handleBatch: #prepare refused the call, its handler threw, *)
(* or the draft of the final flush did.  Only a call has an onError.       *)
Fail(e) ==
    /\ run[e].pc \in {"prepare", "body", "thrown"}
    /\ AckError(e, run[e].rpc, {repair \in BOOLEAN : repair => CallsOf[run[e].rpc] > 0})

(* Mutant: no timer while a chunk task is in the queue, running or not.    *)
PatchStateBehindChunk(e) ==
    /\ run[e].pc = "body"
    /\ life = "up"
    /\ Issue(AuthorOf("patch", e))
    /\ pending' = Append(pending, NextWrite)
    /\ timer' = (timer \/ \A i \in DOMAIN queue : queue[i].kind # "chunk")
    /\ UNCHANGED <<life, run, queue, phase, backlog, ending, state, seq, acks, conn, row,
                   saving, closing, lost, early, count>>

(* ctx.patchState: #queueMut.                                              *)
PatchState(e) ==
    /\ run[e].pc = "body"
    /\ life = "up"
    /\ Issue(AuthorOf("patch", e))
    /\ pending' = Append(pending, NextWrite)
    /\ timer' = TRUE
    /\ UNCHANGED <<life, run, queue, phase, backlog, ending, state, seq, acks, conn, row,
                   saving, closing, lost, early, count>>

(* ctx.broadcast: a publish task behind everything queued so far.          *)
Send(e, q) ==
    /\ count.publish < MaxPublish
    /\ queue' = Append(q, [TaskOf("publish", e) EXCEPT !.upto = Len(issued)])
    /\ count' = [count EXCEPT !.publish = @ + 1]

Broadcast(e) ==
    /\ run[e].pc = "body"
    /\ Send(e, queue)
    /\ UNCHANGED <<life, run, issued, pending, timer, phase, backlog, ending, state, seq,
                   acks, conn, row, saving, closing, lost, early>>

(* An onError or `on` handler may broadcast too, from inside its task.     *)
MaySend(e, q) == Send(e, q) \/ (queue' = q /\ UNCHANGED count)

(* A handler returns: the next call is prepared, or #flushFinal is queued. *)
Return(e) ==
    /\ run[e].pc = "body"
    /\ run' = [run EXCEPT ![e].left = @ - 1,
                          ![e].pc = IF run[e].left > 1 THEN "prepare" ELSE "final"]
    /\ IF run[e].left > 1 THEN UNCHANGED queue ELSE Enqueue(TaskOf("final", e))
    /\ UNCHANGED <<life, issued, pending, timer, phase, backlog, ending, state, seq, acks,
                   conn, row, saving, closing, lost, early, count>>

-----------------------------------------------------------------------------
(* Queue tasks *)

(* The setTimeout callback of #queueMut.                                   *)
FlushTimer ==
    /\ timer
    /\ timer' = FALSE
    /\ Enqueue(TaskOf("chunk", NoRun))
    /\ UNCHANGED <<life, run, issued, pending, phase, backlog, ending, state, seq, acks, conn,
                   row, saving, closing, lost, early, count>>

(* Mutant: the list is copied for the draft but not emptied.               *)
CommitCopy ==
    /\ state' = state \o pending
    /\ pending' = pending
    /\ saving' = state \o pending

(* Apply the pending list on one draft and start the write-through; the    *)
(* caller says what is announced.                                          *)
Commit ==
    /\ state' = state \o pending
    /\ pending' = <<>>
    /\ saving' = state \o pending

(* #flushChunk.  Nothing to do once disposed or when the list was drained. *)
Chunk ==
    /\ At("chunk")
    /\ \/ /\ life # "up" \/ pending = <<>>
          /\ Pop
          /\ UNCHANGED <<pending, state, seq, conn, saving, lost>>
       \/ /\ life = "up" /\ pending # <<>>
          /\ Commit /\ Announce(pending)
          /\ phase' = "write"
          /\ UNCHANGED <<queue, lost>>
       \/ /\ life = "up" /\ pending # <<>>
          /\ Discard(pending)
          /\ pending' = <<>>
          /\ Pop
          /\ UNCHANGED <<state, seq, conn, saving>>
    /\ UNCHANGED <<life, run, issued, timer, backlog, ending, acks, row, closing, early, count>>

(* Mutant: the final flush commits its own run's writes only.              *)
FinalOwnWrites ==
    /\ At("final") /\ life = "up"
    /\ LET e == queue[1].run
           own == SelectSeq(pending, LAMBDA m : issued[m].run = e)
       IN /\ state' = state \o own
          /\ saving' = state \o own
          /\ pending' = SelectSeq(pending, LAMBDA m : issued[m].run # e)
          /\ EmitAck(run[e].rpc, own)
          /\ Goto(e, "acked")
    /\ phase' = "write"
    /\ UNCHANGED <<life, issued, timer, queue, backlog, ending, row, closing, lost, early, count>>

(* Mutant: the final flush acks and leaves the pending list to the timer.  *)
FinalAckOnly ==
    /\ At("final")
    /\ LET e == queue[1].run IN EmitAck(run[e].rpc, <<>>) /\ Goto(e, "acked")
    /\ phase' = "write"
    /\ UNCHANGED <<life, issued, pending, timer, queue, backlog, ending, state, row, saving,
                   closing, lost, early, count>>

(* #flushFinal: the success ack carries whatever is pending.  A throwing   *)
(* draft sends handleBatch to its catch, some microtasks later.            *)
Final ==
    /\ At("final")
    /\ LET e == queue[1].run IN
       \/ /\ life # "up"
          /\ Pop /\ Goto(e, "dropped")
          /\ UNCHANGED <<pending, state, seq, acks, conn, saving, lost>>
       \/ /\ life = "up"
          /\ Commit /\ EmitAck(run[e].rpc, pending)
          /\ phase' = "write"
          /\ Goto(e, "acked")
          /\ UNCHANGED <<queue, lost>>
       \/ /\ life = "up"
          /\ Discard(pending)
          /\ pending' = <<>>
          /\ Pop /\ Goto(e, "thrown")
          /\ UNCHANGED <<state, seq, acks, conn, saving>>
    /\ UNCHANGED <<life, issued, timer, backlog, ending, row, closing, early, count>>

(* Mutant: the snapshot is taken before the writes are applied.            *)
ErrSavesFirst ==
    /\ At("err")
    /\ state' = state \o queue[1].muts
    /\ saving' = state
    /\ phase' = "write"
    /\ UNCHANGED <<life, run, issued, pending, timer, queue, backlog, ending, seq, acks, conn,
                   row, closing, lost, early, count>>

(* Mutant: a throwing draft ends the task without an ack.                  *)
ErrUnanswered ==
    /\ At("err")
    /\ Discard(queue[1].muts)
    /\ Pop
    /\ UNCHANGED <<life, run, issued, pending, timer, backlog, ending, state, seq, acks, conn,
                   row, saving, closing, early, count>>

(* The queue task of #ackError: applied here, announced only at its end.   *)
(* When the draft throws there is no write and the ack leaves at once.     *)
Err ==
    /\ At("err")
    /\ LET t == queue[1]
           Finish(q) == IF \E m \in Range(t.muts) : issued[m].kind = "onError"
                        THEN MaySend(t.run, q) ELSE queue' = q /\ UNCHANGED count
       IN
       \/ /\ state' = state \o t.muts
          /\ saving' = state \o t.muts
          /\ phase' = "write"
          /\ Finish(queue)
          /\ UNCHANGED <<run, seq, acks, conn, lost>>
       \/ /\ Discard(t.muts)
          /\ EmitAck(run[t.run].rpc, <<>>)
          /\ Goto(t.run, "failed")
          /\ phase' = "idle"
          /\ Finish(Tail(queue))
          /\ UNCHANGED <<state, saving>>
    /\ UNCHANGED <<life, issued, pending, timer, backlog, ending, row, closing, early>>

(* The run of an `on` handler is over, thrown or not.  The count is given  *)
(* back in the finally behind the task's promise, two microtasks later,    *)
(* and by then the next task has run its first segment.                    *)
EndOfReaction == ~ending /\ ending' = TRUE

(* Mutant: the backlog is given back only by a handler that did not throw. *)
ReactKeepsBacklog ==
    /\ phase' = "idle"
    /\ MaySend(NoRun, Tail(queue))
    /\ UNCHANGED <<ending, issued, state, seq, conn, saving>>

(* The `on` handler itself: one draft, one flush; a throw discards it.     *)
React ==
    \/ /\ Issue([AuthorOf("event", queue[1].run) EXCEPT !.upto = queue[1].upto])
       /\ state' = Append(state, NextWrite)
       /\ saving' = Append(state, NextWrite)
       /\ Announce(<<NextWrite>>)
       /\ phase' = "write"
       /\ MaySend(NoRun, queue)
       /\ UNCHANGED ending
    \/ /\ phase' = "idle"
       /\ MaySend(NoRun, Tail(queue))
       /\ EndOfReaction
       /\ UNCHANGED <<issued, state, seq, conn, saving>>

(* Mutant: the handler runs without committing what is pending first.      *)
EventUndrained ==
    /\ At("event")
    /\ React
    /\ UNCHANGED <<pending, lost, life, run, timer, backlog, acks, row, closing, early>>

(* #runEventHandler: pending writes are committed on a draft of their own  *)
(* and written through before the handler sees the state.                  *)
Event ==
    /\ At("event")
    /\ \/ /\ pending = <<>>
          /\ React
          /\ UNCHANGED <<pending, lost>>
       \/ /\ pending # <<>>
          /\ Commit /\ Announce(pending)
          /\ phase' = "commit"
          /\ UNCHANGED <<issued, queue, ending, lost, count>>
       \/ /\ pending # <<>>
          /\ Discard(pending)
          /\ pending' = <<>>
          /\ Pop
          /\ EndOfReaction
          /\ UNCHANGED <<issued, state, seq, conn, saving, count>>
    /\ UNCHANGED <<life, run, timer, backlog, acks, row, closing, early>>

(* storage.set settles; #writeThrough swallows its failure.                *)
Stored == row' \in {saving, row}

EventCommitted ==
    /\ phase = "commit"
    /\ Stored
    /\ React
    /\ UNCHANGED <<life, run, pending, timer, backlog, acks, closing, lost, early>>

(* A subscribed topic delivers a message to the `on` handler: queued behind*)
(* the rest, or dropped when too many are outstanding.                     *)
Receive(t) ==
    /\ life \in {"up", "draining"}
    /\ IF backlog >= BacklogCap
       THEN UNCHANGED <<queue, backlog>>
       ELSE Enqueue(t) /\ backlog' = backlog + 1

(* bus.publish reaches the subscribers; with `self` the sender is one.     *)
Publish ==
    /\ At("publish")
    /\ phase' = "write"
    /\ \/ Receive([queue[1] EXCEPT !.kind = "event"])
       \/ UNCHANGED <<queue, backlog>>
    /\ UNCHANGED <<life, run, issued, pending, timer, ending, state, seq, acks, conn, row,
                   saving, closing, lost, early, count>>

(* Mutant: the task leaves the queue but is still taken for a running one. *)
TaskDoneStillRunning ==
    /\ phase = "write"
    /\ queue' = Tail(queue)
    /\ UNCHANGED <<life, run, issued, pending, timer, phase, backlog, ending, state, seq, acks,
                   conn, row, saving, closing, lost, early, count>>

(* The last await of a task is over.                                       *)
TaskDone ==
    /\ phase = "write"
    /\ Pop
    /\ LET t == queue[1] IN
         /\ IF t.kind = "publish" THEN UNCHANGED row ELSE Stored
         /\ IF t.kind = "event" THEN EndOfReaction ELSE UNCHANGED ending
         /\ IF t.kind = "err"
            THEN EmitAck(run[t.run].rpc, t.muts) /\ Goto(t.run, "failed")
            ELSE UNCHANGED <<run, seq, acks, conn>>
    /\ UNCHANGED <<life, issued, pending, timer, backlog, state, saving, closing, lost, early, count>>

(* The finally of #subscribeTopic.                                         *)
Finally ==
    /\ ending
    /\ ending' = FALSE
    /\ backlog' = backlog - 1
    /\ UNCHANGED <<life, run, issued, pending, timer, queue, phase, state, seq, acks,
                   conn, row, saving, closing, lost, early, count>>

-----------------------------------------------------------------------------
(* Connections, broadcasts from elsewhere, teardown *)

Look == count.view < MaxViews /\ count' = [count EXCEPT !.view = @ + 1]

(* `resync`: a full snapshot to every listener, off the queue.             *)
FullToAll(attached) ==
    /\ seq' = seq + 1
    /\ conn' = [l \in Listeners |->
                  IF conn[l].st = "on" \/ l \in attached THEN Seen("on", seq + 1) ELSE conn[l]]

Resync ==
    /\ life = "up"
    /\ Look
    /\ FullToAll({})
    /\ UNCHANGED <<life, run, issued, pending, timer, queue, phase, backlog, ending, state,
                   acks, row, saving, closing, lost, early>>

(* The document of a server-rendered page embeds state and seq.            *)
Render(l) ==
    /\ life = "up" /\ conn[l].st = "off"
    /\ Look
    /\ conn' = [conn EXCEPT ![l] = Seen("page", seq)]
    /\ UNCHANGED <<life, run, issued, pending, timer, queue, phase, backlog, ending, state,
                   seq, acks, row, saving, closing, lost, early>>

(* Mutant: a page is adopted by its token alone, whatever its seq.         *)
AttachByToken(l) ==
    /\ life = "up" /\ conn[l].st # "on"
    /\ Look
    /\ \/ /\ conn[l].st = "page"
          /\ conn' = [conn EXCEPT ![l].st = "on"]
          /\ UNCHANGED seq
       \/ FullToAll({l})
    /\ UNCHANGED <<life, run, issued, pending, timer, queue, phase, backlog, ending, state,
                   acks, row, saving, closing, lost, early>>

(* subscribeInstance: a page whose seq is still current is adopted without *)
(* a snapshot (its token may also have expired); anyone else is resynced.  *)
Attach(l) ==
    /\ life = "up" /\ conn[l].st # "on"
    /\ Look
    /\ \/ /\ conn[l].st = "page" /\ conn[l].seq = seq
          /\ conn' = [conn EXCEPT ![l].st = "on"]
          /\ UNCHANGED seq
       \/ FullToAll({l})
    /\ UNCHANGED <<life, run, issued, pending, timer, queue, phase, backlog, ending, state,
                   acks, row, saving, closing, lost, early>>

Detach(l) ==
    /\ conn[l].st = "on"
    /\ conn' = [conn EXCEPT ![l].st = "off"]
    /\ UNCHANGED <<life, run, issued, pending, timer, queue, phase, backlog, ending, state,
                   seq, acks, row, saving, closing, lost, early, count>>

(* A message another instance published on a topic this one subscribed to. *)
BusMessage ==
    /\ count.event < MaxEvents
    /\ count' = [count EXCEPT !.event = @ + 1]
    /\ Receive(TaskOf("event", NoRun))
    /\ UNCHANGED <<life, run, issued, pending, timer, phase, ending, state, seq, acks,
                   conn, row, saving, closing, lost, early>>

(* dispose up to its `queue.idle()`.                                       *)
Dispose ==
    /\ life = "up"
    /\ life' = "draining"
    /\ UNCHANGED <<run, issued, pending, timer, queue, phase, backlog, ending, state, seq,
                   acks, conn, row, saving, closing, lost, early, count>>

(* The rest of dispose: unsubscribe, drop the listeners, and, with         *)
(* `persist`, start the last write-through.                                *)
Drained ==
    /\ life = "draining"
    /\ queue = <<>>
    /\ conn' = [l \in Listeners |-> [conn[l] EXCEPT !.st = "off"]]
    /\ \/ life' = "closing" /\ closing' = state
       \/ life' = "gone" /\ UNCHANGED closing
    /\ UNCHANGED <<run, issued, pending, timer, queue, phase, backlog, ending, state, seq,
                   acks, row, saving, lost, early, count>>

Closed ==
    /\ life = "closing"
    /\ life' = "gone"
    /\ row' \in {closing, row}
    /\ UNCHANGED <<run, issued, pending, timer, queue, phase, backlog, ending, state, seq,
                   acks, conn, saving, closing, lost, early, count>>

-----------------------------------------------------------------------------
TaskStep ==
    Chunk \/ Final \/ Err \/ Event \/ EventCommitted \/ Publish \/ TaskDone \/ Finally
HandlerStep(e) == Prepared(e) \/ Return(e) \/ Fail(e)

Next ==
    \/ \E e \in Runs : \/ \E r \in RpcIds : Refuse(e, r) \/ Reack(e, r) \/ Deliver(e, r)
                       \/ HandlerStep(e) \/ PatchState(e) \/ Broadcast(e)
    \/ FlushTimer
    \/ TaskStep
    \/ Resync \/ BusMessage
    \/ \E l \in Listeners : Render(l) \/ Attach(l) \/ Detach(l)
    \/ Dispose \/ Drained \/ Closed

Spec == Init /\ [][Next]_vars

(* The event loop runs due timers and settled promises, and storage and    *)
(* bus calls settle; nothing is assumed of user code here.                 *)
RuntimeFairness == WF_vars(FlushTimer) /\ WF_vars(TaskStep)
FairSpec == Spec /\ RuntimeFairness

-----------------------------------------------------------------------------
(* Properties *)

(* Every variable has its type.                                            *)
TypeOK ==
    /\ life \in {"up", "draining", "closing", "gone"}
    /\ run \in [Runs -> RunState]
    /\ issued \in Seq(Author)
    /\ pending \in Seq(Nat)
    /\ timer \in BOOLEAN
    /\ queue \in Seq(Task)
    /\ phase \in {"idle", "write", "commit"} /\ (phase # "idle" => queue # <<>>)
    /\ backlog \in Int /\ ending \in BOOLEAN
    /\ state \in Seq(Nat) /\ seq \in Nat
    /\ acks \in Seq(RpcIds \cup {NoRun})
    /\ conn \in [Listeners -> Connection]
    /\ row \in Seq(Nat) /\ saving \in Seq(Nat) /\ closing \in Seq(Nat)
    /\ lost \subseteq [id : Nat, by : Nat] /\ early \subseteq Nat
    /\ count \in [event : Nat, publish : Nat, view : Nat]

(* A connected client's replica, plus the writes of an error ack that is   *)
(* still waiting for storage, is the server's state: chunk, ack, error and *)
(* event flushes, late attachment, resync and SSR adoption by sequence     *)
(* number all keep it so (#emit, resync, subscribeInstance).  The exception*)
(* is a snapshot taken while such an error ack waits: see ReplicaIsState.  *)
ReplicaExact ==
    \A l \in Listeners :
        conn[l].st = "on" /\ ~conn[l].torn => conn[l].view \o Unsent = state

(* wire-protocol.md, invariant 1: patches applied in order over the last   *)
(* full snapshot always equal the server's confirmed state.                *)
ReplicaIsState ==
    \A l \in Listeners :
        conn[l].st = "on" /\ phase = "idle" => conn[l].view = state

LostIds == {x.id : x \in lost}
Waiting == UNION {Range(queue[i].muts) : i \in {j \in DOMAIN queue : j > 1 \/ phase = "idle"}}

(* No write issued by patchState, onError or an `on` handler is applied    *)
(* twice, or disappears: it is in the state once, or pending, or held by an*)
(* error ack's task, or was discarded with a draft that threw, whichever   *)
(* of the concurrent flushes got hold of it (#pendingMuts.splice).  What a *)
(* handler wrote before it threw is conserved too: see ThrowDiscards.      *)
WritesConserved ==
    /\ WriteId = Range(state) \cup Range(pending) \cup Waiting \cup LostIds
    /\ Cardinality(WriteId) = Len(state) + Len(pending) + Cardinality(Waiting)
                                + Cardinality(LostIds)

IsPatch(m) == issued[m].kind = "patch"

(* error-handling.md:83, "A handler throw discards its unflushed draft and *)
(* rejects the ack": of a run that failed, no write that was still pending *)
(* at the throw is in the state.  #ackError commits it with the error ack. *)
(* (Checked with one run, whose own error ack is then the only one.)       *)
ThrowDiscards ==
    \A m \in Range(state) :
        IsPatch(m) /\ m \in early => run[issued[m].run].pc # "failed"

(* Writes of patchState land in the order of the calls, across concurrent  *)
(* handlers (#pendingMuts), save those an error ack took out of the list   *)
(* ahead of their turn.                                                    *)
PatchOrderButEarly ==
    \A i, j \in DOMAIN state :
        i < j /\ IsPatch(state[i]) /\ IsPatch(state[j]) /\ state[i] > state[j]
            => state[j] \in early

WritesOf(e, upto) == {m \in WriteId : m <= upto /\ issued[m].run = e /\ issued[m].kind # "event"}
Landed == Range(state) \cup LostIds

(* A success ack is sent after the run's writes, all of them: none is left *)
(* pending or in another task when the client is told it is done           *)
(* (#flushFinal), unless a draft that held it threw or an error ack of     *)
(* another run took it.                                                    *)
AckAfterWritesButEarly ==
    \A e \in Runs :
        run[e].pc = "acked" => WritesOf(e, Len(issued)) \subseteq Landed \cup early

(* A handler's writes issued before its broadcast come before the reaction *)
(* of its own instance (#runEventHandler drains the pending list first),   *)
(* save those an error ack took.                                           *)
ReactionAfterSender ==
    \A j \in DOMAIN state :
        issued[state[j]].kind = "event" =>
            WritesOf(issued[state[j]].run, issued[state[j]].upto)
                \subseteq {state[i] : i \in 1 .. j} \cup LostIds \cup early

(* Pending writes of a live instance always have a flush coming, however   *)
(* timers, chunk tasks and draining tasks interleave: a timer is armed or  *)
(* a chunk task has not started (#queueMut, #flushScheduled).              *)
FlushArmed ==
    pending # <<>> /\ life = "up" =>
        timer \/ \E i \in DOMAIN queue : queue[i].kind = "chunk" /\ (i > 1 \/ phase = "idle")

(* The broadcast backlog counts exactly the `on` handler runs that are     *)
(* outstanding, and the one that has ended without its finally: nothing    *)
(* leaks, nothing is given back twice, at most one run is counted too many *)
(* (the next task may meet it), and the cap holds (#subscribeTopic).       *)
BacklogExact ==
    /\ backlog = Cardinality({i \in DOMAIN queue : queue[i].kind = "event"})
                    + (IF ending THEN 1 ELSE 0)
    /\ backlog <= BacklogCap

(* Storage holds a state the instance went through, and no flush path ends *)
(* without having handed its result to storage (#writeThrough).            *)
SnapshotFaithful ==
    /\ saving = state
    /\ row = SubSeq(state, 1, Len(row))

Ran(e) == run[e].pc \notin {"idle", "reacked"} /\ run[e].rpc \notin Rejected

(* instance.ts:355, "Resent batches (same rpcId) are re-acked, not re-run".*)
RunOnce ==
    \A e, f \in Runs : Ran(e) /\ Ran(f) /\ run[e].rpc = run[f].rpc => e = f

(* Every batch handed to the instance is answered, or dropped by dispose,  *)
(* if every handler eventually returns or throws.  What has settled stays  *)
(* so: again and again, no run is under way.                               *)
HandlersEnd == \A e \in Runs : WF_vars(HandlerStep(e))
EveryBatchSettles ==
    HandlersEnd => []<>(\A e \in Runs : run[e].pc \in Settled \cup {"idle"})
=============================================================================
