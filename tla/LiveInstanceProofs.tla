------------------------- MODULE LiveInstanceProofs -------------------------
(***************************************************************************)
(* Proofs of the invariants of LiveInstance for all values of its          *)
(* constants: first the types and the replica theorem, then the invariants *)
(* about writes: none is lost or doubled, storage follows the state, acks  *)
(* and reactions come after the writes they vouch for, and the broadcast   *)
(* backlog is exact.  For these a step is first reduced to what it does to *)
(* the writes (Effect); each invariant is then preserved effect by effect. *)
(***************************************************************************)
EXTENDS LiveInstance, SequenceTheorems, FiniteSetTheorems, TLAPS

-----------------------------------------------------------------------------
(* Types of what the helpers build *)

LEMMA RangeType == ASSUME NEW S, NEW s \in Seq(S) PROVE Range(s) \subseteq S
BY DEF Range

LEMMA ConnectionUpdate ==
    ASSUME NEW c \in Connection, NEW v \in Seq(Nat), NEW n \in Nat
    PROVE  [c EXCEPT !.view = v, !.seq = n] \in Connection
BY DEF Connection

LEMMA ToldType ==
    ASSUME NEW c \in Connection, NEW ms \in Seq(Nat), NEW n \in Nat
    PROVE  Told(c, ms, n) \in Connection
<1>1. c.view \o ms \in Seq(Nat)  BY DEF Connection
<1> QED BY <1>1, ConnectionUpdate, Zenon DEF Told

LEMMA AnnounceType ==
    ASSUME TypeOK, NEW ms \in Seq(Nat), Announce(ms)
    PROVE  seq' \in Nat /\ conn' \in [Listeners -> Connection]
<1>0. conn \in [Listeners -> Connection] /\ seq \in Nat
  BY DEF TypeOK
<1>1. seq' = seq + 1 /\ seq + 1 \in Nat
  BY <1>0 DEF Announce
<1>2. \A l \in Listeners : Told(conn[l], ms, seq + 1) \in Connection /\ conn[l] \in Connection
  BY <1>0, <1>1, ToldType
<1> QED BY <1>1, <1>2, Zenon DEF Announce

LEMMA CacheAckType ==
    ASSUME TypeOK, NEW r \in RpcIds \cup {NoRun}, CacheAck(r)
    PROVE  acks' \in Seq(RpcIds \cup {NoRun})
<1>1. acks \in Seq(RpcIds \cup {NoRun})  BY DEF TypeOK
<1>2. Append(acks, r) \in Seq(RpcIds \cup {NoRun}) /\ Append(acks, r) # <<>>
  BY <1>1
<1>3. Tail(Append(acks, r)) \in Seq(RpcIds \cup {NoRun})
  BY <1>2
<1> QED BY <1>1, <1>2, <1>3 DEF CacheAck

LEMMA EmitAckType ==
    ASSUME TypeOK, NEW r \in RpcIds \cup {NoRun}, NEW ms \in Seq(Nat), EmitAck(r, ms)
    PROVE  /\ seq' \in Nat /\ conn' \in [Listeners -> Connection]
           /\ acks' \in Seq(RpcIds \cup {NoRun})
BY AnnounceType, CacheAckType DEF EmitAck

LEMMA DiscardType ==
    ASSUME TypeOK, NEW ms \in Seq(Nat), Discard(ms)
    PROVE  lost' \subseteq [id : Nat, by : Nat]
<1>1. lost \subseteq [id : Nat, by : Nat]  BY DEF TypeOK
<1>2. Range(ms) \subseteq Nat  BY RangeType
<1> QED BY <1>1, <1>2 DEF Discard

LEMMA TaskType ==
    /\ \A e \in Runs \cup {NoRun} : TaskOf("chunk", e) \in Task
    /\ \A e \in Runs \cup {NoRun} : TaskOf("event", e) \in Task
    /\ \A e \in Runs : TaskOf("final", e) \in Task
    /\ \A e \in Runs : \A ms \in Seq(Nat) : [TaskOf("err", e) EXCEPT !.muts = ms] \in Task
    /\ \A e \in Runs \cup {NoRun} : \A n \in Nat :
          [TaskOf("publish", e) EXCEPT !.upto = n] \in Task
<1>1. <<>> \in Seq(Nat)  OBVIOUS
<1> QED BY <1>1 DEF TaskOf, Task

LEMMA AppendTask ==
    ASSUME NEW q \in Seq(Task), NEW t \in Task
    PROVE  Append(q, t) \in Seq(Task) /\ Append(q, t) # <<>>
BY AppendProperties, Zenon

LEMMA HeadType ==
    ASSUME TypeOK, queue # <<>>
    PROVE  /\ queue[1] \in Task /\ queue[1].muts \in Seq(Nat)
           /\ queue[1].kind \in {"final", "err"} => queue[1].run \in Runs
           /\ Tail(queue) \in Seq(Task)
<1>1. queue \in Seq(Task)  BY DEF TypeOK
<1>2. queue[1] \in Task /\ Tail(queue) \in Seq(Task)  BY <1>1
<1> QED BY <1>2 DEF Task

LEMMA RunUpdate ==
    ASSUME NEW s \in RunState, NEW n \in Nat,
           NEW pc \in {"prepare", "final"}, pc = "prepare" => n > 0
    PROVE  [s EXCEPT !.left = n, !.pc = pc] \in RunState
BY DEF RunState

LEMMA CountUpdate ==
    ASSUME NEW c \in [event : Nat, publish : Nat, view : Nat], NEW n \in Nat
    PROVE  /\ [c EXCEPT !.view = n] \in [event : Nat, publish : Nat, view : Nat]
           /\ [c EXCEPT !.event = n] \in [event : Nat, publish : Nat, view : Nat]
OBVIOUS

LEMMA LookType ==
    ASSUME TypeOK, Look PROVE count' \in [event : Nat, publish : Nat, view : Nat]
<1>1. count \in [event : Nat, publish : Nat, view : Nat]  BY DEF TypeOK
<1>2. count.view + 1 \in Nat  BY <1>1
<1> QED BY <1>1, <1>2, CountUpdate, Zenon DEF Look

LEMMA GotoType ==
    ASSUME TypeOK, NEW e \in Runs,
           NEW pc \in {"body", "final", "thrown", "err"} \cup Settled,
           pc = "body" => run[e].pc \in {"prepare", "body"},
           Goto(e, pc)
    PROVE  run' \in [Runs -> RunState]
<1>1. run \in [Runs -> RunState]  BY DEF TypeOK
<1>2. [run[e] EXCEPT !.pc = pc] \in RunState  BY <1>1 DEF RunState, Settled
<1>3. run' = [run EXCEPT ![e] = [run[e] EXCEPT !.pc = pc]]  BY DEF Goto
<1> QED BY <1>1, <1>2, <1>3

LEMMA IssueType ==
    ASSUME TypeOK, NEW a \in Author, Issue(a)
    PROVE  issued' \in Seq(Author) /\ NextWrite \in Nat
BY DEF Issue, TypeOK, NextWrite

LEMMA AuthorType ==
    /\ \A e \in Runs \cup {NoRun} : AuthorOf("patch", e) \in Author /\ AuthorOf("onError", e) \in Author
    /\ \A t \in Task : [AuthorOf("event", t.run) EXCEPT !.upto = t.upto] \in Author
BY DEF AuthorOf, Author, Task
-----------------------------------------------------------------------------
(* Type correctness *)

LEMMA CommitType ==
    ASSUME TypeOK, Commit
    PROVE  state' \in Seq(Nat) /\ pending' \in Seq(Nat) /\ saving' \in Seq(Nat)
BY DEF Commit, TypeOK

LEMMA SendType ==
    ASSUME TypeOK, NEW e \in Runs \cup {NoRun}, NEW q \in Seq(Task),
           MaySend(e, q)
    PROVE  /\ queue' \in Seq(Task) /\ (queue' # <<>> \/ queue' = q)
           /\ count' \in [event : Nat, publish : Nat, view : Nat]
<1>0. count \in [event : Nat, publish : Nat, view : Nat] /\ Len(issued) \in Nat
  BY DEF TypeOK
<1>1. CASE Send(e, q)
  <2>1. [TaskOf("publish", e) EXCEPT !.upto = Len(issued)] \in Task
    BY <1>0, TaskType
  <2>2. queue' \in Seq(Task) /\ queue' # <<>>
    BY <1>1, <2>1, AppendTask, Zenon DEF Send
  <2>3. count' \in [event : Nat, publish : Nat, view : Nat]
    BY <1>0, <1>1 DEF Send
  <2> QED BY <2>2, <2>3
<1>2. CASE queue' = q /\ UNCHANGED count
  BY <1>0, <1>2
<1> QED BY <1>1, <1>2 DEF MaySend

LEMMA AckErrorType ==
    ASSUME TypeOK, NEW e \in Runs, NEW r \in RpcIds \cup {NoRun}, NEW rs \in SUBSET BOOLEAN,
           AckError(e, r, rs)
    PROVE  TypeOK'
<1>1. PICK repair \in rs :
        LET taken == IF repair THEN Append(pending, NextWrite) ELSE pending
            Become(pc) == run' = [run EXCEPT ![e] = [pc |-> pc, rpc |-> r, left |-> @.left]]
        IN
        /\ IF repair THEN Issue(AuthorOf("onError", e)) ELSE UNCHANGED issued
        /\ pending' = <<>>
        /\ early' = early \cup Range(taken)
        /\ \/ /\ taken = <<>>
              /\ EmitAck(r, <<>>)
              /\ Become("failed")
              /\ UNCHANGED queue
           \/ /\ taken # <<>>
              /\ Enqueue([TaskOf("err", e) EXCEPT !.muts = taken])
              /\ Become("err")
              /\ UNCHANGED <<seq, conn, acks>>
        /\ UNCHANGED <<life, timer, phase, backlog, ending, state, row, saving, closing, lost, count>>
  BY DEF AckError
<1> DEFINE taken == IF repair THEN Append(pending, NextWrite) ELSE pending
<1>2. issued' \in Seq(Author)
  BY <1>1, IssueType, AuthorType DEF TypeOK
<1>3. taken \in Seq(Nat)
  BY DEF TypeOK, NextWrite
<1>4. pending' \in Seq(Nat)
  BY <1>1
<1>5. early' \subseteq Nat
  BY <1>1, <1>3, RangeType DEF TypeOK
<1>6. run' \in [Runs -> RunState]
  <2>1. PICK pc \in {"failed", "err"} :
          run' = [run EXCEPT ![e] = [pc |-> pc, rpc |-> r, left |-> run[e].left]]
    BY <1>1, Zenon
  <2>2. run \in [Runs -> RunState]  BY DEF TypeOK
  <2>3. [pc |-> pc, rpc |-> r, left |-> run[e].left] \in RunState
    BY <2>2 DEF RunState, Settled
  <2> QED BY <2>1, <2>2, <2>3
<1> HIDE DEF taken
<1>7. queue' \in Seq(Task) /\ (queue # <<>> => queue' # <<>>)
  <2>1. queue \in Seq(Task)  BY DEF TypeOK
  <2>2. [TaskOf("err", e) EXCEPT !.muts = taken] \in Task  BY <1>3, TaskType
  <2> QED BY <1>1, <2>1, <2>2, AppendTask, Zenon DEF Enqueue, taken
<1>8. /\ seq' \in Nat /\ conn' \in [Listeners -> Connection]
      /\ acks' \in Seq(RpcIds \cup {NoRun})
  <2>1. <<>> \in Seq(Nat)  OBVIOUS
  <2>2. EmitAck(r, <<>>) \/ UNCHANGED <<seq, conn, acks>>  BY <1>1, Zenon
  <2>3. CASE UNCHANGED <<seq, conn, acks>>  BY <2>3 DEF TypeOK
  <2> QED BY <2>1, <2>2, <2>3, EmitAckType, Zenon
<1>9. UNCHANGED <<life, timer, phase, backlog, ending, state, row, saving, closing, lost, count>>
  BY <1>1, Zenon
<1> QED BY <1>2, <1>4, <1>5, <1>6, <1>7, <1>8, <1>9 DEF TypeOK
LEMMA SeenType ==
    ASSUME TypeOK, NEW st \in {"page", "on"}, NEW n \in Nat
    PROVE  Seen(st, n) \in Connection
BY DEF Seen, Connection, TypeOK

LEMMA FullType ==
    ASSUME TypeOK, NEW attached, FullToAll(attached)
    PROVE  seq' \in Nat /\ conn' \in [Listeners -> Connection]
<1>0. conn \in [Listeners -> Connection] /\ seq \in Nat  BY DEF TypeOK
<1>1. seq' = seq + 1 /\ seq + 1 \in Nat  BY <1>0 DEF FullToAll
<1>2. Seen("on", seq + 1) \in Connection  BY <1>1, SeenType
<1> QED BY <1>0, <1>1, <1>2, Zenon DEF FullToAll

LEMMA ReceiveType ==
    ASSUME TypeOK, NEW t \in Task, Receive(t)
    PROVE  queue' \in Seq(Task) /\ (queue # <<>> => queue' # <<>>) /\ backlog' \in Int
<1>1. queue \in Seq(Task) /\ backlog \in Int  BY DEF TypeOK
<1>2. Append(queue, t) \in Seq(Task) /\ Append(queue, t) # <<>>  BY <1>1, AppendTask
<1> QED BY <1>1, <1>2 DEF Receive, Enqueue

LEMMA ReactType ==
    ASSUME TypeOK, queue # <<>>, React
    PROVE  /\ issued' \in Seq(Author) /\ state' \in Seq(Nat) /\ saving' \in Seq(Nat)
           /\ seq' \in Nat /\ conn' \in [Listeners -> Connection]
           /\ queue' \in Seq(Task) /\ ending' \in BOOLEAN
           /\ phase' \in {"idle", "write"} /\ (phase' # "idle" => queue' # <<>>)
           /\ count' \in [event : Nat, publish : Nat, view : Nat]
<1>0. /\ queue \in Seq(Task) /\ state \in Seq(Nat) /\ saving \in Seq(Nat) /\ ending \in BOOLEAN
      /\ issued \in Seq(Author) /\ seq \in Nat /\ conn \in [Listeners -> Connection]
  BY DEF TypeOK
<1>1. queue[1] \in Task /\ Tail(queue) \in Seq(Task)  BY HeadType
<1>2. ASSUME Issue([AuthorOf("event", queue[1].run) EXCEPT !.upto = queue[1].upto]),
             state' = Append(state, NextWrite), saving' = Append(state, NextWrite),
             Announce(<<NextWrite>>), phase' = "write", MaySend(NoRun, queue),
             UNCHANGED ending
      PROVE  /\ issued' \in Seq(Author) /\ state' \in Seq(Nat) /\ saving' \in Seq(Nat)
             /\ seq' \in Nat /\ conn' \in [Listeners -> Connection]
             /\ queue' \in Seq(Task) /\ ending' \in BOOLEAN
             /\ phase' \in {"idle", "write"} /\ (phase' # "idle" => queue' # <<>>)
             /\ count' \in [event : Nat, publish : Nat, view : Nat]
  <2>1. issued' \in Seq(Author) /\ NextWrite \in Nat  BY <1>1, <1>2, AuthorType, IssueType
  <2>2. state' \in Seq(Nat) /\ saving' \in Seq(Nat)  BY <1>0, <1>2, <2>1
  <2>3. <<NextWrite>> \in Seq(Nat)  BY <2>1
  <2>4. seq' \in Nat /\ conn' \in [Listeners -> Connection]
    BY <1>2, <2>3, AnnounceType
  <2>5. /\ queue' \in Seq(Task) /\ queue' # <<>>
        /\ count' \in [event : Nat, publish : Nat, view : Nat]
    BY <1>0, <1>2, SendType
  <2> QED BY <1>0, <1>2, <2>1, <2>2, <2>4, <2>5
<1>3. ASSUME phase' = "idle", MaySend(NoRun, Tail(queue)), EndOfReaction,
             UNCHANGED <<issued, state, seq, conn, saving>>
      PROVE  /\ issued' \in Seq(Author) /\ state' \in Seq(Nat) /\ saving' \in Seq(Nat)
             /\ seq' \in Nat /\ conn' \in [Listeners -> Connection]
             /\ queue' \in Seq(Task) /\ ending' \in BOOLEAN
             /\ phase' \in {"idle", "write"} /\ (phase' # "idle" => queue' # <<>>)
             /\ count' \in [event : Nat, publish : Nat, view : Nat]
  <2>1. /\ queue' \in Seq(Task)
        /\ count' \in [event : Nat, publish : Nat, view : Nat]
    BY <1>1, <1>3, SendType
  <2>2. ending' \in BOOLEAN  BY <1>3 DEF EndOfReaction
  <2> QED BY <1>0, <1>3, <2>1, <2>2
<1> QED BY <1>2, <1>3, Zenon DEF React

LEMMA TypeStep == TypeOK /\ [Next]_vars => TypeOK'
<1> SUFFICES ASSUME TypeOK, [Next]_vars PROVE TypeOK'
  OBVIOUS
<1>0. /\ queue \in Seq(Task) /\ run \in [Runs -> RunState]
      /\ state \in Seq(Nat) /\ pending \in Seq(Nat) /\ conn \in [Listeners -> Connection]
      /\ count \in [event : Nat, publish : Nat, view : Nat]
  BY DEF TypeOK
<1>1. ASSUME NEW e \in Runs, NEW r \in RpcIds, Refuse(e, r) PROVE TypeOK'
  BY <1>1, AckErrorType DEF Refuse
<1>2. ASSUME NEW e \in Runs, NEW r \in RpcIds, Reack(e, r) PROVE TypeOK'
  <2>1. run' \in [Runs -> RunState]  BY <1>0, <1>2 DEF Reack, RunState, Settled
  <2> QED BY <1>2, <2>1 DEF Reack, TypeOK
<1>3. ASSUME NEW e \in Runs, NEW r \in RpcIds, Deliver(e, r) PROVE TypeOK'
  <2>1. run' \in [Runs -> RunState]
    BY <1>0, <1>3, ConstantsOK DEF Deliver, RunState, Settled
  <2>2. queue' \in Seq(Task) /\ (queue # <<>> => queue' # <<>>)
    BY <1>0, <1>3, TaskType, AppendTask DEF Deliver, Enqueue
  <2> QED BY <1>3, <2>1, <2>2 DEF Deliver, TypeOK
<1>4. ASSUME NEW e \in Runs, Prepared(e) PROVE TypeOK'
  <2>1. run' \in [Runs -> RunState]  BY <1>4, GotoType DEF Prepared
  <2> QED BY <1>4, <2>1 DEF Prepared, TypeOK
<1>5. ASSUME NEW e \in Runs, Fail(e) PROVE TypeOK'
  <2>1. run[e].rpc \in RpcIds \cup {NoRun}  BY <1>0 DEF RunState
  <2> QED BY <1>5, <2>1, AckErrorType DEF Fail
<1>6. ASSUME NEW e \in Runs, PatchState(e) PROVE TypeOK'
  <2>1. issued' \in Seq(Author) /\ NextWrite \in Nat
    BY <1>6, IssueType, AuthorType DEF PatchState
  <2>2. pending' \in Seq(Nat)  BY <1>0, <1>6, <2>1 DEF PatchState
  <2> QED BY <1>6, <2>1, <2>2 DEF PatchState, TypeOK
<1>7. ASSUME NEW e \in Runs, Broadcast(e) PROVE TypeOK'
  <2>1. /\ queue' \in Seq(Task) /\ (queue # <<>> => queue' # <<>>)
        /\ count' \in [event : Nat, publish : Nat, view : Nat]
    BY <1>0, <1>7, SendType DEF Broadcast, MaySend
  <2> QED BY <1>7, <2>1 DEF Broadcast, TypeOK
<1>8. ASSUME NEW e \in Runs, Return(e) PROVE TypeOK'
  <2>1. run' \in [Runs -> RunState]
    <3> DEFINE next == [run[e] EXCEPT !.left = @ - 1,
                                      !.pc = IF run[e].left > 1 THEN "prepare" ELSE "final"]
    <3>1. next \in RunState
      <4>1. run[e] \in RunState /\ run[e].left \in Nat /\ run[e].left > 0
        BY <1>0, <1>8 DEF Return, RunState
      <4>2. CASE run[e].left > 1
        <5>1. next = [run[e] EXCEPT !.left = run[e].left - 1, !.pc = "prepare"]  BY <4>2
        <5>2. run[e].left - 1 \in Nat /\ run[e].left - 1 > 0  BY <4>1, <4>2
        <5> QED BY <4>1, <5>1, <5>2, RunUpdate
      <4>3. CASE run[e].left = 1
        <5>1. next = [run[e] EXCEPT !.left = 0, !.pc = "final"]  BY <4>3
        <5> QED BY <4>1, <5>1, RunUpdate
      <4> QED BY <4>1, <4>2, <4>3
    <3>2. run' = [run EXCEPT ![e] = next]
      BY <1>8 DEF Return
    <3> QED BY <1>0, <3>1, <3>2
  <2>2. queue' \in Seq(Task) /\ (queue # <<>> => queue' # <<>>)
    BY <1>0, <1>8, TaskType, AppendTask DEF Return, Enqueue
  <2> QED BY <1>8, <2>1, <2>2 DEF Return, TypeOK
<1>9. ASSUME FlushTimer PROVE TypeOK'
  <2>1. queue' \in Seq(Task) /\ queue' # <<>>
    BY <1>0, <1>9, TaskType, AppendTask DEF FlushTimer, Enqueue
  <2> QED BY <1>9, <2>1 DEF FlushTimer, TypeOK
<1>10. ASSUME Chunk PROVE TypeOK'
  <2>0. queue # <<>> /\ Tail(queue) \in Seq(Task)
    BY <1>10, HeadType DEF Chunk, At
  <2>u. UNCHANGED <<life, run, issued, timer, backlog, ending, acks, row, closing, early, count>>
    BY <1>10 DEF Chunk
  <2>1. CASE Pop /\ UNCHANGED <<pending, state, seq, conn, saving, lost>>
    BY <2>0, <2>1, <2>u DEF Pop, TypeOK
  <2>2. CASE Commit /\ Announce(pending) /\ phase' = "write" /\ UNCHANGED <<queue, lost>>
    BY <1>0, <2>0, <2>2, <2>u, CommitType, AnnounceType DEF TypeOK
  <2>3. CASE Discard(pending) /\ pending' = <<>> /\ Pop /\ UNCHANGED <<state, seq, conn, saving>>
    <3>1. lost' \subseteq [id : Nat, by : Nat]  BY <1>0, <2>3, DiscardType
    <3> QED BY <2>0, <2>3, <2>u, <3>1 DEF Pop, TypeOK
  <2> QED BY <1>10, <2>1, <2>2, <2>3 DEF Chunk
<1>11. ASSUME Final PROVE TypeOK'
  <2> DEFINE e == queue[1].run
  <2>0. queue # <<>> /\ Tail(queue) \in Seq(Task) /\ e \in Runs
    BY <1>11, HeadType DEF Final, At
  <2>a. run[e].rpc \in RpcIds \cup {NoRun}  BY <1>0, <2>0 DEF RunState
  <2>u. UNCHANGED <<life, issued, timer, backlog, ending, row, closing, early, count>>
    BY <1>11 DEF Final
  <2>1. CASE Pop /\ Goto(e, "dropped") /\ UNCHANGED <<pending, state, seq, acks, conn, saving, lost>>
    <3>1. run' \in [Runs -> RunState]  BY <2>0, <2>1, GotoType DEF Settled
    <3> QED BY <2>0, <2>1, <2>u, <3>1 DEF Pop, TypeOK
  <2>2. CASE /\ Commit /\ EmitAck(run[e].rpc, pending) /\ phase' = "write" /\ Goto(e, "acked")
             /\ UNCHANGED <<queue, lost>>
    <3>1. run' \in [Runs -> RunState]  BY <2>0, <2>2, GotoType DEF Settled
    <3>2. /\ seq' \in Nat /\ conn' \in [Listeners -> Connection]
          /\ acks' \in Seq(RpcIds \cup {NoRun})
      BY <1>0, <2>a, <2>2, EmitAckType
    <3> QED BY <2>0, <2>2, <2>u, <3>1, <3>2, CommitType DEF TypeOK
  <2>3. CASE /\ Discard(pending) /\ pending' = <<>> /\ Pop /\ Goto(e, "thrown")
             /\ UNCHANGED <<state, seq, acks, conn, saving>>
    <3>1. run' \in [Runs -> RunState]  BY <2>0, <2>3, GotoType DEF Settled
    <3>2. lost' \subseteq [id : Nat, by : Nat]  BY <1>0, <2>3, DiscardType
    <3> QED BY <2>0, <2>3, <2>u, <3>1, <3>2 DEF Pop, TypeOK
  <2> QED BY <1>11, <2>1, <2>2, <2>3 DEF Final
<1>12. ASSUME Err PROVE TypeOK'
  <2> DEFINE t == queue[1]
             Finish(q) == IF \E m \in Range(t.muts) : issued[m].kind = "onError"
                          THEN MaySend(t.run, q) ELSE queue' = q /\ UNCHANGED count
  <2>0. queue # <<>> /\ Tail(queue) \in Seq(Task) /\ t.run \in Runs /\ t.muts \in Seq(Nat)
    BY <1>12, HeadType DEF Err, At
  <2>u. UNCHANGED <<life, issued, pending, timer, backlog, ending, row, closing, early>>
    BY <1>12 DEF Err
  <2>a. run[t.run].rpc \in RpcIds \cup {NoRun}  BY <1>0, <2>0 DEF RunState
  <2>b. ASSUME NEW q \in Seq(Task), Finish(q)
        PROVE  /\ queue' \in Seq(Task) /\ (queue' # <<>> \/ queue' = q)
               /\ count' \in [event : Nat, publish : Nat, view : Nat]
    BY <1>0, <2>0, <2>b, SendType
  <2>1. CASE /\ state' = state \o t.muts /\ saving' = state \o t.muts
             /\ phase' = "write" /\ Finish(queue)
             /\ UNCHANGED <<run, seq, acks, conn, lost>>
    <3>1. state \o t.muts \in Seq(Nat)  BY <1>0, <2>0
    <3>2. /\ queue' \in Seq(Task) /\ queue' # <<>>
          /\ count' \in [event : Nat, publish : Nat, view : Nat]
      BY <1>0, <2>0, <2>1, <2>b
    <3> QED BY <2>1, <2>u, <3>1, <3>2 DEF TypeOK
  <2>2. CASE /\ Discard(t.muts) /\ EmitAck(run[t.run].rpc, <<>>) /\ Goto(t.run, "failed")
             /\ phase' = "idle" /\ Finish(Tail(queue)) /\ UNCHANGED <<state, saving>>
    <3>1. run' \in [Runs -> RunState]  BY <2>0, <2>2, GotoType DEF Settled
    <3>2. /\ seq' \in Nat /\ conn' \in [Listeners -> Connection]
          /\ acks' \in Seq(RpcIds \cup {NoRun})
      <4>1. <<>> \in Seq(Nat)  OBVIOUS
      <4> QED BY <2>a, <2>2, <4>1, EmitAckType, Zenon
    <3>3. /\ queue' \in Seq(Task) /\ count' \in [event : Nat, publish : Nat, view : Nat]
      BY <2>0, <2>2, <2>b
    <3>4. lost' \subseteq [id : Nat, by : Nat]  BY <2>0, <2>2, DiscardType
    <3> QED BY <2>2, <2>u, <3>1, <3>2, <3>3, <3>4 DEF TypeOK
  <2> QED BY <1>12, <2>1, <2>2 DEF Err
<1>13. ASSUME Event PROVE TypeOK'
  <2>0. queue # <<>> /\ Tail(queue) \in Seq(Task)
    BY <1>13, HeadType DEF Event, At
  <2>u. UNCHANGED <<life, run, timer, backlog, acks, row, closing, early>>
    BY <1>13 DEF Event
  <2>1. CASE React /\ UNCHANGED <<pending, lost>>
    BY <2>0, <2>1, <2>u, ReactType DEF TypeOK
  <2>2. CASE Commit /\ Announce(pending) /\ phase' = "commit"
             /\ UNCHANGED <<issued, queue, ending, lost, count>>
    BY <1>0, <2>0, <2>2, <2>u, CommitType, AnnounceType DEF TypeOK
  <2>3. CASE /\ Discard(pending) /\ pending' = <<>> /\ Pop /\ EndOfReaction
             /\ UNCHANGED <<issued, state, seq, conn, saving, count>>
    <3>1. lost' \subseteq [id : Nat, by : Nat]  BY <1>0, <2>3, DiscardType
    <3> QED BY <2>0, <2>3, <2>u, <3>1 DEF Pop, EndOfReaction, TypeOK
  <2> QED BY <1>13, <2>1, <2>2, <2>3 DEF Event
<1>14. ASSUME EventCommitted PROVE TypeOK'
  <2>1. queue # <<>> /\ row' \in Seq(Nat)
    BY <1>14 DEF EventCommitted, Stored, TypeOK
  <2> QED BY <1>14, <2>1, ReactType DEF EventCommitted, TypeOK
<1>15. ASSUME Publish PROVE TypeOK'
  <2>0. queue # <<>> /\ queue[1] \in Task
    BY <1>15, HeadType DEF Publish, At
  <2>1. [queue[1] EXCEPT !.kind = "event"] \in Task  BY <2>0 DEF Task
  <2>2. queue' \in Seq(Task) /\ queue' # <<>> /\ backlog' \in Int
    <3>1. CASE Receive([queue[1] EXCEPT !.kind = "event"])
      BY <2>0, <2>1, <3>1, ReceiveType
    <3>2. CASE UNCHANGED <<queue, backlog>>  BY <2>0, <3>2 DEF TypeOK
    <3> QED BY <1>15, <3>1, <3>2 DEF Publish
  <2> QED BY <1>15, <2>2 DEF Publish, TypeOK
<1>16. ASSUME TaskDone PROVE TypeOK'
  <2> DEFINE t == queue[1]
  <2>0. queue # <<>> /\ Tail(queue) \in Seq(Task) /\ t.muts \in Seq(Nat)
        /\ (t.kind = "err" => t.run \in Runs)
    BY <1>16, HeadType DEF TaskDone, TypeOK
  <2>1. row' \in Seq(Nat) /\ backlog' \in Int /\ ending' \in BOOLEAN
    BY <1>16 DEF TaskDone, Stored, EndOfReaction, TypeOK
  <2>2. /\ run' \in [Runs -> RunState] /\ seq' \in Nat /\ conn' \in [Listeners -> Connection]
        /\ acks' \in Seq(RpcIds \cup {NoRun})
    <3>1. CASE t.kind = "err"
      <4>1. run[t.run].rpc \in RpcIds \cup {NoRun}  BY <1>0, <2>0, <3>1 DEF RunState
      <4>2. EmitAck(run[t.run].rpc, t.muts) /\ Goto(t.run, "failed")
        BY <1>16, <3>1 DEF TaskDone
      <4> QED BY <2>0, <3>1, <4>1, <4>2, EmitAckType, GotoType DEF Settled
    <3>2. CASE t.kind # "err"
      BY <1>16, <3>2 DEF TaskDone, TypeOK
    <3> QED BY <3>1, <3>2
  <2> QED BY <1>16, <2>0, <2>1, <2>2 DEF TaskDone, Pop, TypeOK
<1>17. ASSUME Resync PROVE TypeOK'
  <2>1. count' \in [event : Nat, publish : Nat, view : Nat]
    BY <1>17, LookType DEF Resync
  <2> QED BY <1>17, <2>1, FullType DEF Resync, TypeOK
<1>18. ASSUME BusMessage PROVE TypeOK'
  <2>1. count' \in [event : Nat, publish : Nat, view : Nat]
    <3>1. count.event + 1 \in Nat  BY <1>0
    <3> QED BY <1>0, <1>18, <3>1, CountUpdate, Zenon DEF BusMessage
  <2>2. queue' \in Seq(Task) /\ (queue # <<>> => queue' # <<>>) /\ backlog' \in Int
    BY <1>18, TaskType, ReceiveType DEF BusMessage
  <2> QED BY <1>18, <2>1, <2>2 DEF BusMessage, TypeOK
<1>19. ASSUME NEW l \in Listeners, Render(l) PROVE TypeOK'
  <2>1. count' \in [event : Nat, publish : Nat, view : Nat]
    BY <1>19, LookType DEF Render
  <2>2. Seen("page", seq) \in Connection  BY SeenType DEF TypeOK
  <2>3. conn' \in [Listeners -> Connection]  BY <1>0, <1>19, <2>2 DEF Render
  <2> QED BY <1>19, <2>1, <2>3 DEF Render, TypeOK
<1>20. ASSUME NEW l \in Listeners, Attach(l) PROVE TypeOK'
  <2>1. count' \in [event : Nat, publish : Nat, view : Nat]
    BY <1>20, LookType DEF Attach
  <2>2. seq' \in Nat /\ conn' \in [Listeners -> Connection]
    <3>1. CASE conn' = [conn EXCEPT ![l].st = "on"] /\ UNCHANGED seq
      BY <1>0, <3>1 DEF TypeOK, Connection
    <3>2. CASE FullToAll({l})  BY <3>2, FullType
    <3> QED BY <1>20, <3>1, <3>2 DEF Attach
  <2> QED BY <1>20, <2>1, <2>2 DEF Attach, TypeOK
<1>21. ASSUME NEW l \in Listeners, Detach(l) PROVE TypeOK'
  <2>1. conn' \in [Listeners -> Connection]  BY <1>0, <1>21 DEF Detach, Connection
  <2> QED BY <1>21, <2>1 DEF Detach, TypeOK
<1>22. ASSUME Dispose PROVE TypeOK'
  BY <1>22 DEF Dispose, TypeOK
<1>23. ASSUME Drained PROVE TypeOK'
  <2>1. conn' \in [Listeners -> Connection]  BY <1>0, <1>23 DEF Drained, Connection
  <2> QED BY <1>23, <2>1 DEF Drained, TypeOK
<1>24. ASSUME Closed PROVE TypeOK'
  BY <1>24 DEF Closed, TypeOK
<1>25. ASSUME UNCHANGED vars PROVE TypeOK'
  BY <1>25 DEF vars, TypeOK
<1>26. ASSUME Finally PROVE TypeOK'
  <2>0. backlog \in Int  BY DEF TypeOK
  <2>1. backlog' \in Int  BY <2>0, <1>26 DEF Finally
  <2>3. ending' \in BOOLEAN  BY <1>26, Zenon DEF Finally
  <2>2. UNCHANGED <<life, run, issued, pending, timer, queue, phase, state, seq, acks,
                    conn, row, saving, closing, lost, early, count>>
    BY <1>26 DEF Finally
  <2> QED BY <2>1, <2>2, <2>3 DEF TypeOK
<1> QED BY <1>1, <1>2, <1>3, <1>4, <1>5, <1>6, <1>7, <1>8, <1>9, <1>10, <1>11, <1>12,
           <1>13, <1>14, <1>15, <1>16, <1>17, <1>18, <1>19, <1>20, <1>21, <1>22, <1>23,
           <1>24, <1>25, <1>26 DEF Next, TaskStep, HandlerStep

LEMMA TypeInit == Init => TypeOK
<1> SUFFICES ASSUME Init PROVE TypeOK
  OBVIOUS
<1>1. run \in [Runs -> RunState]  BY DEF Init, RunState
<1>2. conn \in [Listeners -> Connection]
  <2>1. [st |-> "off", view |-> <<>>, seq |-> 0, torn |-> FALSE] \in Connection
    BY DEF Connection
  <2> QED BY <2>1 DEF Init
<1>3. count \in [event : Nat, publish : Nat, view : Nat]  BY DEF Init
<1>4. /\ issued \in Seq(Author) /\ pending \in Seq(Nat) /\ queue \in Seq(Task)
      /\ state \in Seq(Nat) /\ acks \in Seq(RpcIds \cup {NoRun})
      /\ row \in Seq(Nat) /\ saving \in Seq(Nat) /\ closing \in Seq(Nat)
  BY DEF Init
<1>5. /\ life \in {"up", "draining", "closing", "gone"} /\ timer \in BOOLEAN
      /\ phase \in {"idle", "write", "commit"} /\ (phase # "idle" => queue # <<>>)
  BY Zenon DEF Init
<1>6. backlog \in Int /\ seq \in Nat  BY DEF Init
<1>8. ending \in BOOLEAN  BY Zenon DEF Init
<1>7. lost \subseteq [id : Nat, by : Nat] /\ early \subseteq Nat  BY Zenon DEF Init
<1> QED BY <1>1, <1>2, <1>3, <1>4, <1>5, <1>6, <1>7, <1>8, Zenon DEF TypeOK

(* Every variable of the instance keeps its type, for any number of batches, *)
(* listeners, writes and broadcasts.                                         *)
THEOREM TypeCorrect == Spec => []TypeOK
<1>1. Init => TypeOK  BY TypeInit
<1>2. TypeOK /\ [Next]_vars => TypeOK'  BY TypeStep
<1> QED BY <1>1, <1>2, PTL DEF Spec

-----------------------------------------------------------------------------
(* Replicas.  Adoption by sequence number is why the invariant also speaks *)
(* of server-rendered pages nobody has attached yet: their seq never       *)
(* exceeds the instance's, and while it equals it their view is current.   *)

ReplicaInv ==
    \A l \in Listeners :
        conn[l].st # "off" =>
            /\ conn[l].seq <= seq
            /\ ~conn[l].torn /\ (conn[l].st = "on" \/ conn[l].seq = seq)
                  => conn[l].view \o Unsent = state

LEMMA ReplicaQuiet ==
    ASSUME ReplicaInv, UNCHANGED <<conn, seq, state>>, Unsent' = Unsent
    PROVE  ReplicaInv'
BY DEF ReplicaInv

LEMMA ToldFields ==
    ASSUME NEW c \in Connection, NEW ms \in Seq(Nat), NEW n \in Nat
    PROVE  /\ Told(c, ms, n).st = c.st /\ (Told(c, ms, n).torn <=> c.torn)
           /\ Told(c, ms, n).seq = n /\ Told(c, ms, n).view = c.view \o ms
BY DEF Told, Connection

LEMMA ReplicaAnnounce ==
    ASSUME TypeOK, ReplicaInv, NEW ms \in Seq(Nat), Announce(ms),
           \A v \in Seq(Nat) : v \o Unsent = state => (v \o ms) \o Unsent' = state'
    PROVE  ReplicaInv'
<1>0. conn \in [Listeners -> Connection] /\ seq \in Nat  BY DEF TypeOK
<1>1. seq' = seq + 1 /\ seq + 1 \in Nat  BY <1>0 DEF Announce
<1>2. SUFFICES ASSUME NEW l \in Listeners, conn'[l].st # "off"
               PROVE  /\ conn'[l].seq <= seq'
                      /\ ~conn'[l].torn /\ (conn'[l].st = "on" \/ conn'[l].seq = seq')
                            => conn'[l].view \o Unsent' = state'
  BY Zenon DEF ReplicaInv
<1>3. conn[l] \in Connection /\ conn[l].view \in Seq(Nat) /\ conn[l].seq \in Nat
  BY <1>0 DEF Connection
<1>4. CASE conn[l].st = "on"
  <2>1. conn'[l] = Told(conn[l], ms, seq + 1)  BY <1>4, Zenon DEF Announce
  <2> DEFINE t == Told(conn[l], ms, seq + 1)
  <2>2a. (t.torn <=> conn[l].torn) /\ t.seq = seq + 1 /\ t.view = conn[l].view \o ms
    BY <1>1, <1>3, ToldFields
  <2> HIDE DEF t
  <2>2. /\ conn'[l].torn <=> conn[l].torn
        /\ conn'[l].seq = seq + 1
        /\ conn'[l].view = conn[l].view \o ms
    BY <2>1, <2>2a, Zenon DEF t
  <2>3. ~conn[l].torn => conn[l].view \o Unsent = state  BY <1>4 DEF ReplicaInv
  <2>4. conn'[l].seq <= seq'  BY <1>1, <2>2
  <2>5. ~conn'[l].torn => conn'[l].view \o Unsent' = state'
    BY <1>3, <2>2, <2>3, Zenon
  <2> QED BY <2>4, <2>5, Zenon
<1>5. CASE conn[l].st # "on"
  <2>1. conn'[l] = conn[l]  BY <1>5, Zenon DEF Announce
  <2>2. conn[l].seq <= seq  BY <1>2, <2>1 DEF ReplicaInv
  <2> QED BY <1>0, <1>1, <1>3, <1>5, <2>1, <2>2
<1> QED BY <1>4, <1>5

LEMMA SeenFields ==
    ASSUME NEW st, NEW n
    PROVE  /\ Seen(st, n).st = st /\ Seen(st, n).seq = n
           /\ Seen(st, n).view = state /\ (Seen(st, n).torn <=> Unsent # <<>>)
BY Zenon DEF Seen

LEMMA ReplicaFull ==
    ASSUME TypeOK, ReplicaInv, NEW attached, FullToAll(attached),
           UNCHANGED <<state, queue, phase>>
    PROVE  ReplicaInv'
<1>0. conn \in [Listeners -> Connection] /\ seq \in Nat /\ state \in Seq(Nat)  BY DEF TypeOK
<1>1. seq' = seq + 1 /\ seq + 1 \in Nat  BY <1>0 DEF FullToAll
<1>2. SUFFICES ASSUME NEW l \in Listeners, conn'[l].st # "off"
               PROVE  /\ conn'[l].seq <= seq'
                      /\ ~conn'[l].torn /\ (conn'[l].st = "on" \/ conn'[l].seq = seq')
                            => conn'[l].view \o Unsent' = state'
  BY Zenon DEF ReplicaInv
<1>3. Unsent' = Unsent  BY DEF Unsent
<1>4. CASE conn'[l] = Seen("on", seq + 1)
  <2>0. /\ conn'[l].torn <=> Unsent # <<>>
        /\ conn'[l].seq = seq + 1
        /\ conn'[l].view = state
    <3> DEFINE s == Seen("on", seq + 1)
    <3>1. (s.torn <=> Unsent # <<>>) /\ s.seq = seq + 1 /\ s.view = state
      BY SeenFields
    <3> HIDE DEF s
    <3> QED BY <1>4, <3>1, Zenon DEF s
  <2>1. ~conn'[l].torn => Unsent = <<>>  BY <2>0, Zenon
  <2>2. state \o <<>> = state  BY <1>0
  <2>3. conn'[l].seq = seq' /\ conn'[l].view = state
    BY <1>1, <2>0, Zenon
  <2>4. conn'[l].seq <= seq'  BY <1>1, <2>3
  <2>5. ~conn'[l].torn => conn'[l].view \o Unsent' = state'
    BY <1>3, <2>1, <2>2, <2>3, Zenon
  <2> QED BY <2>4, <2>5, Zenon
<1>5. CASE conn'[l] = conn[l] /\ conn[l].st # "on"
  <2>1. conn[l].seq <= seq /\ conn[l].seq \in Nat  BY <1>0, <1>2, <1>5 DEF ReplicaInv, Connection
  <2> QED BY <1>0, <1>1, <1>5, <2>1
<1> QED BY <1>4, <1>5, Zenon DEF FullToAll

(* The head of the queue only changes when its task ends, so Unsent does.  *)
CommitInv == phase = "commit" => queue # <<>> /\ queue[1].kind = "event"

Grows == queue' = queue \/ \E t \in Task : queue' = Append(queue, t)

LEMMA GrowsHead ==
    ASSUME TypeOK, Grows, queue # <<>>
    PROVE  queue' # <<>> /\ queue'[1] = queue[1]
<1>1. queue \in Seq(Task)  BY DEF TypeOK
<1>2. CASE queue' = queue  BY <1>2
<1>3. CASE \E t \in Task : queue' = Append(queue, t)
  <2>1. PICK t \in Task : queue' = Append(queue, t)  BY <1>3
  <2>2. Len(queue) \in Nat /\ Len(queue) >= 1 /\ queue' \in Seq(Task)
        /\ Append(queue, t)[1] = queue[1]
    BY <1>1, <2>1
  <2>3. queue' # <<>>  BY <1>1, <2>1, AppendTask
  <2> QED BY <2>1, <2>2, <2>3
<1> QED BY <1>2, <1>3 DEF Grows

LEMMA GrowsUnsent ==
    ASSUME TypeOK, CommitInv, Grows, phase' = phase
    PROVE  Unsent' = Unsent /\ CommitInv'
<1>1. CASE queue # <<>>  BY <1>1, GrowsHead DEF Unsent, CommitInv
<1>2. CASE queue = <<>>
  <2>1. phase = "idle"  BY <1>2 DEF TypeOK
  <2> QED BY <2>1 DEF Unsent, CommitInv
<1> QED BY <1>1, <1>2

LEMMA SendGrows ==
    ASSUME TypeOK, NEW e \in Runs \cup {NoRun}, MaySend(e, queue)
    PROVE  Grows
<1>1. Len(issued) \in Nat  BY DEF TypeOK
<1>2. [TaskOf("publish", e) EXCEPT !.upto = Len(issued)] \in Task  BY <1>1, TaskType
<1> QED BY <1>2, Zenon DEF MaySend, Send, Grows

LEMMA IdleUnsent == phase # "write" => Unsent = <<>>
BY DEF Unsent

LEMMA EmptyRight == ASSUME NEW v \in Seq(Nat) PROVE v \o <<>> = v
OBVIOUS

(* Nothing is announced, and what is unsent is what the state gained.      *)
LEMMA ReplicaSilent ==
    ASSUME TypeOK, ReplicaInv, UNCHANGED <<conn, seq>>,
           \A v \in Seq(Nat) : v \o Unsent = state => v \o Unsent' = state'
    PROVE  ReplicaInv'
<1>1. \A l \in Listeners : conn[l].view \in Seq(Nat)  BY DEF TypeOK, Connection
<1> QED BY <1>1, Zenon DEF ReplicaInv

LEMMA ReplicaReact ==
    ASSUME TypeOK, CommitInv, ReplicaInv, At("event") \/ phase = "commit", React
    PROVE  ReplicaInv' /\ CommitInv'
<1>0. state \in Seq(Nat) /\ NextWrite \in Nat  BY DEF TypeOK, NextWrite
<1>1. Unsent = <<>>  BY DEF Unsent, At
<1>2. queue # <<>> /\ queue[1].kind = "event"  BY DEF At, CommitInv
<1>3. ASSUME state' = Append(state, NextWrite), Announce(<<NextWrite>>),
             phase' = "write", MaySend(NoRun, queue)
      PROVE  ReplicaInv' /\ CommitInv'
  <2>1. Unsent' = <<>>
    BY <1>2, <1>3, SendGrows, GrowsHead DEF Unsent
  <2>2. <<NextWrite>> \in Seq(Nat)  BY <1>0
  <2>3. \A v \in Seq(Nat) : v \o Unsent = state => (v \o <<NextWrite>>) \o Unsent' = state'
    BY <1>0, <1>1, <1>3, <2>1
  <2> QED BY <1>3, <2>2, <2>3, ReplicaAnnounce DEF CommitInv
<1>4. ASSUME phase' = "idle", UNCHANGED <<state, seq, conn>>
      PROVE  ReplicaInv' /\ CommitInv'
  <2>1. Unsent' = <<>>  BY <1>4 DEF Unsent
  <2> QED BY <1>1, <1>4, <2>1, ReplicaSilent DEF CommitInv
<1> QED BY <1>3, <1>4, Zenon DEF React

(* A task at the head commits what is pending and announces it.            *)
LEMMA ReplicaCommit ==
    ASSUME TypeOK, ReplicaInv, phase = "idle", Commit, Announce(pending), Unsent' = <<>>
    PROVE  ReplicaInv'
<1>0. state \in Seq(Nat) /\ pending \in Seq(Nat)  BY DEF TypeOK
<1>1. Unsent = <<>>  BY DEF Unsent
<1>2. \A v \in Seq(Nat) : v \o Unsent = state => (v \o pending) \o Unsent' = state'
  BY <1>0, <1>1 DEF Commit
<1> QED BY <1>0, <1>2, ReplicaAnnounce

LEMMA ReplicaAckError ==
    ASSUME TypeOK, CommitInv, ReplicaInv, NEW e \in Runs, NEW r \in RpcIds \cup {NoRun},
           NEW rs \in SUBSET BOOLEAN, AckError(e, r, rs)
    PROVE  ReplicaInv' /\ CommitInv'
<1>0. state \in Seq(Nat) /\ pending \in Seq(Nat) /\ NextWrite \in Nat
  BY DEF TypeOK, NextWrite
<1>1. PICK repair \in rs :
        LET taken == IF repair THEN Append(pending, NextWrite) ELSE pending
        IN
        /\ \/ /\ taken = <<>>
              /\ EmitAck(r, <<>>)
              /\ UNCHANGED queue
           \/ /\ taken # <<>>
              /\ Enqueue([TaskOf("err", e) EXCEPT !.muts = taken])
              /\ UNCHANGED <<seq, conn, acks>>
        /\ UNCHANGED <<phase, state>>
  BY DEF AckError
<1> DEFINE taken == IF repair THEN Append(pending, NextWrite) ELSE pending
<1>2. taken \in Seq(Nat)  BY <1>0
<1>3. [TaskOf("err", e) EXCEPT !.muts = taken] \in Task  BY <1>2, TaskType
<1> HIDE DEF taken
<1>4. Grows  BY <1>1, <1>3, Zenon DEF Enqueue, Grows, taken
<1>5. Unsent' = Unsent /\ CommitInv'  BY <1>1, <1>4, GrowsUnsent
<1>6. CASE Announce(<<>>)
  <2>1. \A v \in Seq(Nat) : v \o Unsent = state => (v \o <<>>) \o Unsent' = state'
    BY <1>1, <1>5, EmptyRight
  <2>2. <<>> \in Seq(Nat)  OBVIOUS
  <2> QED BY <1>5, <1>6, <2>1, <2>2, ReplicaAnnounce
<1>7. CASE UNCHANGED <<seq, conn>>
  BY <1>1, <1>5, <1>7, ReplicaQuiet
<1> QED BY <1>1, <1>6, <1>7, Zenon DEF EmitAck

LEMMA ReplicaTaskStep ==
    ASSUME TypeOK, CommitInv, ReplicaInv, TaskStep
    PROVE  ReplicaInv' /\ CommitInv'
<1>0. /\ queue \in Seq(Task) /\ state \in Seq(Nat) /\ pending \in Seq(Nat)
      /\ run \in [Runs -> RunState]
  BY DEF TypeOK
<1>1. ASSUME phase = "idle", phase' = "idle", UNCHANGED <<state, seq, conn>>
      PROVE  ReplicaInv' /\ CommitInv'
  <2>1. Unsent = <<>> /\ Unsent' = <<>>  BY <1>1 DEF Unsent
  <2> QED BY <1>1, <2>1, ReplicaSilent DEF CommitInv
<1>2. ASSUME Chunk PROVE ReplicaInv' /\ CommitInv'
  <2>1. CASE UNCHANGED <<state, seq, conn>> /\ phase' = "idle"
    BY <1>1, <1>2, <2>1 DEF Chunk, At
  <2>2. CASE Commit /\ Announce(pending) /\ phase' = "write" /\ UNCHANGED queue
    <3>1. Unsent' = <<>>  BY <1>2, <2>2 DEF Chunk, At, Unsent
    <3> QED BY <1>2, <2>2, <3>1, ReplicaCommit DEF Chunk, At, CommitInv
  <2> QED BY <1>2, <2>1, <2>2, Zenon DEF Chunk, Pop
<1>3. ASSUME Final PROVE ReplicaInv' /\ CommitInv'
  <2>1. CASE UNCHANGED <<state, seq, conn>> /\ phase' = "idle"
    BY <1>1, <1>3, <2>1 DEF Final, At
  <2>2. CASE Commit /\ Announce(pending) /\ phase' = "write" /\ UNCHANGED queue
    <3>1. Unsent' = <<>>  BY <1>3, <2>2 DEF Final, At, Unsent
    <3> QED BY <1>3, <2>2, <3>1, ReplicaCommit DEF Final, At, CommitInv
  <2> QED BY <1>3, <2>1, <2>2, Zenon DEF Final, Pop, EmitAck
<1>4. ASSUME Err PROVE ReplicaInv' /\ CommitInv'
  <2>0. queue # <<>> /\ queue[1].kind = "err" /\ phase = "idle"  BY <1>4 DEF Err, At
  <2>1. queue[1].muts \in Seq(Nat) /\ queue[1].run \in Runs  BY <2>0, HeadType
  <2>2. Unsent = <<>>  BY <2>0 DEF Unsent
  <2>3. CASE /\ state' = state \o queue[1].muts /\ phase' = "write"
             /\ (MaySend(queue[1].run, queue) \/ queue' = queue)
             /\ UNCHANGED <<seq, conn>>
    <3>1. Grows  BY <2>1, <2>3, SendGrows DEF Grows
    <3>2. Unsent' = queue[1].muts  BY <2>0, <2>3, <3>1, GrowsHead DEF Unsent
    <3>3. \A v \in Seq(Nat) : v \o Unsent = state => v \o Unsent' = state'
      BY <2>2, <2>3, <3>2, EmptyRight, Zenon
    <3> QED BY <2>3, <3>3, ReplicaSilent DEF CommitInv
  <2>4. CASE Announce(<<>>) /\ phase' = "idle" /\ UNCHANGED state
    <3>1. Unsent' = <<>>  BY <2>4 DEF Unsent
    <3>2. \A v \in Seq(Nat) : v \o Unsent = state => (v \o <<>>) \o Unsent' = state'
      BY <2>2, <2>4, <3>1, EmptyRight
    <3>3. <<>> \in Seq(Nat)  OBVIOUS
    <3> QED BY <2>4, <3>2, <3>3, ReplicaAnnounce DEF CommitInv
  <2> QED BY <1>4, <2>3, <2>4, Zenon DEF Err, EmitAck
<1>5. ASSUME Event PROVE ReplicaInv' /\ CommitInv'
  <2>1. CASE React  BY <1>5, <2>1, ReplicaReact DEF Event
  <2>2. CASE Commit /\ Announce(pending) /\ phase' = "commit" /\ UNCHANGED queue
    <3>1. Unsent' = <<>>  BY <2>2 DEF Unsent
    <3> QED BY <1>5, <2>2, <3>1, ReplicaCommit DEF Event, At, CommitInv
  <2>3. CASE UNCHANGED <<state, seq, conn>> /\ phase' = "idle"
    BY <1>1, <1>5, <2>3 DEF Event, At
  <2> QED BY <1>5, <2>1, <2>2, <2>3, Zenon DEF Event, Pop
<1>6. ASSUME EventCommitted PROVE ReplicaInv' /\ CommitInv'
  BY <1>6, ReplicaReact DEF EventCommitted
<1>7. ASSUME Publish PROVE ReplicaInv' /\ CommitInv'
  <2>0. queue # <<>> /\ queue[1].kind = "publish" /\ phase = "idle"  BY <1>7 DEF Publish, At
  <2>1. [queue[1] EXCEPT !.kind = "event"] \in Task  BY <2>0, HeadType DEF Task
  <2>2. Grows  BY <1>7, <2>1, Zenon DEF Publish, Receive, Enqueue, Grows
  <2>3. Unsent = <<>> /\ Unsent' = <<>>  BY <1>7, <2>0, <2>2, GrowsHead DEF Unsent, Publish
  <2>4. UNCHANGED <<state, seq, conn>> /\ phase' = "write"  BY <1>7 DEF Publish
  <2> QED BY <2>3, <2>4, ReplicaSilent DEF CommitInv
<1>8. ASSUME TaskDone PROVE ReplicaInv' /\ CommitInv'
  <2>0. phase = "write" /\ phase' = "idle" /\ UNCHANGED state /\ queue # <<>>
    BY <1>8 DEF TaskDone, Pop, TypeOK
  <2>1. Unsent' = <<>>  BY <2>0 DEF Unsent
  <2>2. CASE queue[1].kind = "err"
    <3>1. Announce(queue[1].muts)  BY <1>8, <2>2, Zenon DEF TaskDone, EmitAck
    <3>2. Unsent = queue[1].muts /\ queue[1].muts \in Seq(Nat)
      BY <2>0, <2>2, HeadType DEF Unsent
    <3>3. \A v \in Seq(Nat) : v \o Unsent = state => (v \o queue[1].muts) \o Unsent' = state'
      BY <2>0, <2>1, <3>2
    <3> QED BY <2>0, <3>1, <3>2, <3>3, ReplicaAnnounce DEF CommitInv
  <2>3. CASE queue[1].kind # "err"
    <3>1. UNCHANGED <<seq, conn>>  BY <1>8, <2>3, Zenon DEF TaskDone
    <3>2. Unsent = <<>>  BY <2>3 DEF Unsent
    <3> QED BY <2>0, <2>1, <3>1, <3>2, ReplicaSilent DEF CommitInv
  <2> QED BY <2>2, <2>3
<1>9. ASSUME Finally PROVE ReplicaInv' /\ CommitInv'
  <2>1. UNCHANGED <<queue, phase, state, seq, conn>>  BY <1>9 DEF Finally
  <2>2. Unsent' = Unsent  BY <2>1 DEF Unsent
  <2> QED BY <2>1, <2>2, ReplicaSilent DEF CommitInv
<1> QED BY <1>2, <1>3, <1>4, <1>5, <1>6, <1>7, <1>8, <1>9, Zenon DEF TaskStep

LEMMA ReplicaStep == TypeOK /\ CommitInv /\ ReplicaInv /\ [Next]_vars => ReplicaInv' /\ CommitInv'
<1> SUFFICES ASSUME TypeOK, CommitInv, ReplicaInv, [Next]_vars
             PROVE  ReplicaInv' /\ CommitInv'
  OBVIOUS
<1>0. /\ conn \in [Listeners -> Connection] /\ seq \in Nat /\ state \in Seq(Nat)
      /\ run \in [Runs -> RunState] /\ queue \in Seq(Task)
  BY DEF TypeOK
<1>1. ASSUME Grows, UNCHANGED <<phase, state, seq, conn>>
      PROVE  ReplicaInv' /\ CommitInv'
  BY <1>1, GrowsUnsent, ReplicaQuiet
<1>2. ASSUME NEW e \in Runs, NEW r \in RpcIds, Refuse(e, r) \/ Reack(e, r) \/ Deliver(e, r)
      PROVE  ReplicaInv' /\ CommitInv'
  <2>1. CASE Refuse(e, r)  BY <2>1, ReplicaAckError DEF Refuse
  <2>2. CASE Reack(e, r)  BY <1>1, <2>2 DEF Reack, Grows
  <2>3. CASE Deliver(e, r)
    <3>1. Grows  BY <2>3, TaskType, Zenon DEF Deliver, Enqueue, Grows
    <3> QED BY <1>1, <2>3, <3>1 DEF Deliver
  <2> QED BY <1>2, <2>1, <2>2, <2>3
<1>3. ASSUME NEW e \in Runs, HandlerStep(e) \/ PatchState(e) \/ Broadcast(e)
      PROVE  ReplicaInv' /\ CommitInv'
  <2>1. CASE Prepared(e)  BY <1>1, <2>1 DEF Prepared, Grows
  <2>2. CASE Return(e)
    <3>1. Grows  BY <2>2, TaskType, Zenon DEF Return, Enqueue, Grows
    <3> QED BY <1>1, <2>2, <3>1 DEF Return
  <2>3. CASE Fail(e)
    <3>1. run[e].rpc \in RpcIds \cup {NoRun}  BY <1>0 DEF RunState
    <3> QED BY <2>3, <3>1, ReplicaAckError DEF Fail
  <2>4. CASE PatchState(e)  BY <1>1, <2>4 DEF PatchState, Grows
  <2>5. CASE Broadcast(e)
    <3>1. Grows  BY <2>5, SendGrows DEF Broadcast, MaySend
    <3> QED BY <1>1, <2>5, <3>1 DEF Broadcast
  <2> QED BY <1>3, <2>1, <2>2, <2>3, <2>4, <2>5 DEF HandlerStep
<1>4. CASE FlushTimer
  <2>1. Grows  BY <1>4, TaskType, Zenon DEF FlushTimer, Enqueue, Grows
  <2> QED BY <1>1, <1>4, <2>1 DEF FlushTimer
<1>5. CASE TaskStep  BY <1>5, ReplicaTaskStep
<1>6. CASE Resync
  <2>1. FullToAll({}) /\ UNCHANGED <<state, queue, phase>>  BY <1>6 DEF Resync
  <2> QED BY <2>1, ReplicaFull DEF CommitInv
<1>7. CASE BusMessage
  <2>1. TaskOf("event", NoRun) \in Task  BY TaskType
  <2>2. Grows  BY <1>7, <2>1, Zenon DEF BusMessage, Receive, Enqueue, Grows
  <2> QED BY <1>1, <1>7, <2>2 DEF BusMessage
<1>8. ASSUME UNCHANGED <<state, seq, queue, phase>>, NEW l \in Listeners, NEW c,
             conn' = [conn EXCEPT ![l] = c],
             c.st # "off" => /\ c.seq <= seq
                             /\ ~c.torn /\ (c.st = "on" \/ c.seq = seq) => c.view \o Unsent = state
      PROVE  ReplicaInv' /\ CommitInv'
  <2>1. Unsent' = Unsent  BY <1>8 DEF Unsent
  <2>2. \A k \in Listeners : conn'[k] = IF k = l THEN c ELSE conn[k]  BY <1>0, <1>8
  <2>3. ReplicaInv'  BY <1>8, <2>1, <2>2, Zenon DEF ReplicaInv
  <2> QED BY <1>8, <2>3 DEF CommitInv
<1>9. ASSUME NEW l \in Listeners, Render(l) PROVE ReplicaInv' /\ CommitInv'
  <2> DEFINE c == Seen("page", seq)
  <2>1. c.seq = seq /\ c.view = state /\ (c.torn <=> Unsent # <<>>)  BY SeenFields
  <2>2. conn' = [conn EXCEPT ![l] = c] /\ UNCHANGED <<state, seq, queue, phase>>
    BY <1>9 DEF Render
  <2> HIDE DEF c
  <2>3. c.seq <= seq  BY <1>0, <2>1
  <2>4. ~c.torn => c.view \o Unsent = state  BY <1>0, <2>1, EmptyRight, Zenon
  <2> QED BY <1>8, <2>2, <2>3, <2>4, Zenon
<1>10. ASSUME NEW l \in Listeners, Attach(l) PROVE ReplicaInv' /\ CommitInv'
  <2>0. UNCHANGED <<state, queue, phase>>  BY <1>10 DEF Attach
  <2>1. CASE FullToAll({l})  BY <2>0, <2>1, ReplicaFull DEF CommitInv
  <2>2. CASE /\ conn[l].st = "page" /\ conn[l].seq = seq /\ UNCHANGED seq
             /\ conn' = [conn EXCEPT ![l].st = "on"]
    <3> DEFINE c == [conn[l] EXCEPT !.st = "on"]
    <3>1. c.seq = conn[l].seq /\ (c.torn <=> conn[l].torn) /\ c.view = conn[l].view
      BY <1>0 DEF Connection
    <3>2. conn' = [conn EXCEPT ![l] = c]  BY <2>2
    <3> HIDE DEF c
    <3>3. c.seq <= seq  BY <1>0, <2>2, <3>1
    <3>4. ~c.torn => c.view \o Unsent = state  BY <2>2, <3>1, Zenon DEF ReplicaInv
    <3> QED BY <1>8, <2>0, <2>2, <3>2, <3>3, <3>4, Zenon
  <2> QED BY <1>10, <2>1, <2>2 DEF Attach
<1>11. ASSUME NEW l \in Listeners, Detach(l) PROVE ReplicaInv' /\ CommitInv'
  <2> DEFINE c == [conn[l] EXCEPT !.st = "off"]
  <2>1. c.st = "off"  BY <1>0 DEF Connection
  <2>2. conn' = [conn EXCEPT ![l] = c] /\ UNCHANGED <<state, seq, queue, phase>>
    BY <1>11 DEF Detach
  <2> HIDE DEF c
  <2> QED BY <1>8, <2>1, <2>2, Zenon
<1>12. CASE Drained
  <2>1. \A l \in Listeners : conn'[l].st = "off"  BY <1>0, <1>12 DEF Drained, Connection
  <2> QED BY <1>12, <2>1 DEF Drained, ReplicaInv, CommitInv
<1>13. CASE Dispose  BY <1>1, <1>13 DEF Dispose, Grows
<1>14. CASE Closed  BY <1>1, <1>14 DEF Closed, Grows
<1>15. CASE UNCHANGED vars  BY <1>1, <1>15 DEF vars, Grows
<1> QED BY <1>2, <1>3, <1>4, <1>5, <1>6, <1>7, <1>9, <1>10, <1>11, <1>12, <1>13, <1>14,
           <1>15 DEF Next

(* A connected client's replica is the server's state, less the writes of  *)
(* an error ack under way, in every reachable state and whatever the       *)
(* number of batches, writes, flushes and reconnections: no envelope is    *)
(* built on a base the client does not have (#emit, resync, and the        *)
(* adoption of a server-rendered page by its sequence number).             *)
THEOREM ReplicaCorrect == Spec => []ReplicaExact
<1>1. Init => TypeOK /\ CommitInv /\ ReplicaInv
  <2>1. ASSUME Init PROVE CommitInv /\ ReplicaInv
    BY <2>1 DEF Init, CommitInv, ReplicaInv
  <2> QED BY <2>1, TypeInit
<1>2. TypeOK /\ CommitInv /\ ReplicaInv /\ [Next]_vars => (TypeOK /\ CommitInv /\ ReplicaInv)'
  BY TypeStep, ReplicaStep
<1>3. ReplicaInv => ReplicaExact  BY Zenon DEF ReplicaInv, ReplicaExact
<1> QED BY <1>1, <1>2, <1>3, PTL DEF Spec


-----------------------------------------------------------------------------
(* What a step does to the writes *)

(* Tasks other than error acks carry no write, and none was queued by a    *)
(* write yet to come.                                                      *)
TasksInv ==
    \A i \in DOMAIN queue :
        /\ queue[i].upto <= Len(issued)
        /\ queue[i].kind # "err" => queue[i].muts = <<>>

Plain(t) == t \in Task /\ t.kind # "err" /\ t.muts = <<>> /\ t.upto <= Len(issued)
Longer(q) == queue' = q \/ \E t \in Task : Plain(t) /\ queue' = Append(q, t)

Waits ==
    /\ Longer(queue)
    /\ phase' = phase \/ (At("publish") /\ phase' = "write")
    /\ UNCHANGED <<issued, pending, state, saving, lost, early>>

Ends ==
    /\ queue # <<>> /\ (phase = "idle" => queue[1].kind # "err")
    /\ At("chunk") => life # "up" \/ pending = <<>>
    /\ phase' = "idle"
    /\ Longer(Tail(queue))
    /\ UNCHANGED <<issued, pending, state, saving, lost, early>>

Writes == \E e \in Runs : PatchState(e)

Takes == \E e \in Runs, repair \in BOOLEAN :
    LET taken == IF repair THEN Append(pending, NextWrite) ELSE pending IN
    /\ IF repair THEN Issue(AuthorOf("onError", e)) ELSE UNCHANGED issued
    /\ pending' = <<>>
    /\ early' = early \cup Range(taken)
    /\ IF taken = <<>> THEN UNCHANGED queue
       ELSE Enqueue([TaskOf("err", e) EXCEPT !.muts = taken])
    /\ UNCHANGED <<phase, state, saving, lost>>

Flushes == At("chunk") \/ At("final") \/ At("event")

Commits ==
    /\ Flushes /\ Commit
    /\ phase' = "write" \/ (At("event") /\ phase' = "commit")
    /\ UNCHANGED <<issued, queue, lost, early>>

Discards ==
    /\ Flushes /\ Discard(pending) /\ pending' = <<>> /\ Pop
    /\ UNCHANGED <<issued, state, saving, early>>

Lands ==
    /\ At("err")
    /\ state' = state \o queue[1].muts
    /\ saving' = state \o queue[1].muts
    /\ phase' = "write"
    /\ Longer(queue)
    /\ UNCHANGED <<issued, pending, lost, early>>

Throws ==
    /\ At("err")
    /\ Discard(queue[1].muts)
    /\ phase' = "idle"
    /\ Longer(Tail(queue))
    /\ UNCHANGED <<issued, pending, state, saving, early>>

Reacts ==
    /\ queue # <<>> /\ queue[1].kind = "event"
    /\ phase = "commit" \/ (phase = "idle" /\ pending = <<>>)
    /\ Issue([AuthorOf("event", queue[1].run) EXCEPT !.upto = queue[1].upto])
    /\ state' = Append(state, NextWrite)
    /\ saving' = Append(state, NextWrite)
    /\ phase' = "write"
    /\ Longer(queue)
    /\ UNCHANGED <<pending, lost, early>>

Effect == \/ Waits \/ Ends \/ Writes \/ Takes \/ Commits
          \/ Discards \/ Lands \/ Throws \/ Reacts

LEMMA PlainTask ==
    ASSUME TypeOK
    PROVE  /\ \A e \in Runs \cup {NoRun} : Plain(TaskOf("chunk", e)) /\ Plain(TaskOf("event", e))
           /\ \A e \in Runs : Plain(TaskOf("final", e))
           /\ \A e \in Runs \cup {NoRun} : Plain([TaskOf("publish", e) EXCEPT !.upto = Len(issued)])
<1>1. Len(issued) \in Nat  BY DEF TypeOK
<1>2. \A k \in {"chunk", "event", "final", "publish"}, e \in Runs \cup {NoRun} :
         TaskOf(k, e).kind = k /\ TaskOf(k, e).muts = <<>> /\ TaskOf(k, e).upto = 0
  BY DEF TaskOf
<1>3. \A e \in Runs \cup {NoRun} :
         LET t == [TaskOf("publish", e) EXCEPT !.upto = Len(issued)] IN
         t.kind = "publish" /\ t.muts = <<>> /\ t.upto = Len(issued)
  BY DEF TaskOf
<1> QED BY <1>1, <1>2, <1>3, TaskType DEF Plain

LEMMA SendLonger ==
    ASSUME TypeOK, NEW e \in Runs \cup {NoRun}, NEW q, MaySend(e, q) \/ queue' = q
    PROVE  Longer(q)
<1>1. CASE Send(e, q)
  <2> DEFINE t == [TaskOf("publish", e) EXCEPT !.upto = Len(issued)]
  <2>1. Plain(t) /\ t \in Task  BY PlainTask DEF Plain
  <2>2. queue' = Append(q, t)  BY <1>1 DEF Send
  <2> QED BY <2>1, <2>2, Zenon DEF Longer
<1> QED BY <1>1, Zenon DEF MaySend, Longer

LEMMA ReactEffect ==
    ASSUME TypeOK, queue # <<>>, queue[1].kind = "event",
           phase = "commit" \/ (phase = "idle" /\ pending = <<>>),
           React, UNCHANGED <<pending, lost, early>>
    PROVE  Reacts \/ Ends
<1>1. ASSUME Issue([AuthorOf("event", queue[1].run) EXCEPT !.upto = queue[1].upto]),
             state' = Append(state, NextWrite), saving' = Append(state, NextWrite),
             phase' = "write", MaySend(NoRun, queue)
      PROVE  Reacts
  BY <1>1, SendLonger, Zenon DEF Reacts
<1>2. ASSUME phase' = "idle", MaySend(NoRun, Tail(queue)), UNCHANGED <<issued, state, saving>>
      PROVE  Ends
  BY <1>2, SendLonger DEF Ends, At
<1> QED BY <1>1, <1>2, Zenon DEF React

LEMMA AckErrorEffect ==
    ASSUME NEW e \in Runs, NEW r, NEW rs \in SUBSET BOOLEAN, AckError(e, r, rs)
    PROVE  Takes
BY Zenon DEF AckError, Takes

LEMMA TaskEffect ==
    ASSUME TypeOK, CommitInv, TasksInv, TaskStep
    PROVE  Effect
<1>1. ASSUME Chunk PROVE Effect
  <2>0. At("chunk") /\ UNCHANGED <<issued, early>>  BY <1>1 DEF Chunk
  <2>1. CASE Pop /\ (life # "up" \/ pending = <<>>) /\ UNCHANGED <<pending, state, saving, lost>>
    <3>1. Ends  BY <2>0, <2>1 DEF At, Pop, Ends, Longer
    <3> QED BY <3>1 DEF Effect
  <2>2. CASE Commit /\ phase' = "write" /\ UNCHANGED <<queue, lost>>
    <3>1. Commits  BY <2>0, <2>2, Zenon DEF Commits, Flushes
    <3> QED BY <3>1 DEF Effect
  <2>3. CASE Discard(pending) /\ pending' = <<>> /\ Pop /\ UNCHANGED <<state, saving>>
    <3>1. Discards  BY <2>0, <2>3, Zenon DEF Discards, Flushes
    <3> QED BY <3>1 DEF Effect
  <2> QED BY <1>1, <2>1, <2>2, <2>3, Zenon DEF Chunk
<1>2. ASSUME Final PROVE Effect
  <2>0. At("final") /\ UNCHANGED <<issued, early>>  BY <1>2 DEF Final
  <2>1. CASE Pop /\ UNCHANGED <<pending, state, saving, lost>>
    <3>1. Ends  BY <2>0, <2>1 DEF At, Pop, Ends, Longer
    <3> QED BY <3>1 DEF Effect
  <2>2. CASE Commit /\ phase' = "write" /\ UNCHANGED <<queue, lost>>
    <3>1. Commits  BY <2>0, <2>2, Zenon DEF Commits, Flushes
    <3> QED BY <3>1 DEF Effect
  <2>3. CASE Discard(pending) /\ pending' = <<>> /\ Pop /\ UNCHANGED <<state, saving>>
    <3>1. Discards  BY <2>0, <2>3, Zenon DEF Discards, Flushes
    <3> QED BY <3>1 DEF Effect
  <2> QED BY <1>2, <2>1, <2>2, <2>3, Zenon DEF Final
<1>3. ASSUME Err PROVE Effect
  <2>0. At("err") /\ UNCHANGED <<issued, pending, early>> /\ queue[1].run \in Runs \cup {NoRun}
    BY <1>3, HeadType DEF Err, At
  <2>1. CASE /\ state' = state \o queue[1].muts /\ saving' = state \o queue[1].muts
             /\ phase' = "write" /\ UNCHANGED lost
             /\ MaySend(queue[1].run, queue) \/ queue' = queue
    <3>1. Longer(queue)  BY <2>0, <2>1, SendLonger, Zenon
    <3>2. Lands  BY <2>0, <2>1, <3>1 DEF Lands
    <3> QED BY <3>2 DEF Effect
  <2>2. CASE /\ Discard(queue[1].muts) /\ phase' = "idle" /\ UNCHANGED <<state, saving>>
             /\ MaySend(queue[1].run, Tail(queue)) \/ queue' = Tail(queue)
    <3>1. Longer(Tail(queue))  BY <2>0, <2>2, SendLonger, Zenon
    <3>2. Throws  BY <2>0, <2>2, <3>1 DEF Throws
    <3> QED BY <3>2 DEF Effect
  <2> QED BY <1>3, <2>1, <2>2, Zenon DEF Err
<1>4. ASSUME Event PROVE Effect
  <2>0. At("event") /\ queue # <<>> /\ queue[1].kind = "event" /\ phase = "idle"
        /\ UNCHANGED early
    BY <1>4 DEF Event, At
  <2>1. CASE pending = <<>> /\ React /\ UNCHANGED <<pending, lost>>
    BY <2>0, <2>1, ReactEffect DEF Effect
  <2>2. CASE Commit /\ phase' = "commit" /\ UNCHANGED <<issued, queue, lost>>
    <3>1. Commits  BY <2>0, <2>2, Zenon DEF Commits, Flushes
    <3> QED BY <3>1 DEF Effect
  <2>3. CASE Discard(pending) /\ pending' = <<>> /\ Pop /\ UNCHANGED <<issued, state, saving>>
    <3>1. Discards  BY <2>0, <2>3, Zenon DEF Discards, Flushes
    <3> QED BY <3>1 DEF Effect
  <2> QED BY <1>4, <2>1, <2>2, <2>3, Zenon DEF Event
<1>5. ASSUME EventCommitted PROVE Effect
  <2>1. phase = "commit" /\ React /\ UNCHANGED <<pending, lost, early>>
    BY <1>5 DEF EventCommitted
  <2> QED BY <2>1, ReactEffect DEF CommitInv, Effect
<1>6. ASSUME Publish PROVE Effect
  <2> DEFINE t == [queue[1] EXCEPT !.kind = "event"]
  <2>0. /\ At("publish") /\ queue # <<>> /\ queue[1].kind = "publish" /\ phase' = "write"
        /\ UNCHANGED <<issued, pending, state, saving, lost, early>>
    BY <1>6 DEF Publish, At
  <2>1. queue[1] \in Task /\ 1 \in DOMAIN queue  BY <2>0, HeadType DEF TypeOK
  <2>2. t \in Task /\ t.kind = "event" /\ t.muts = queue[1].muts /\ t.upto = queue[1].upto
    BY <2>1 DEF Task
  <2>3. Plain(t)  BY <2>0, <2>1, <2>2 DEF Plain, TasksInv
  <2>4. queue' = queue \/ queue' = Append(queue, t)
    BY <1>6, Zenon DEF Publish, Receive, Enqueue
  <2>5. Longer(queue)  BY <2>2, <2>3, <2>4, Zenon DEF Longer
  <2> QED BY <2>0, <2>5 DEF Waits, Effect
<1>7. ASSUME TaskDone PROVE Effect
  <2>1. phase = "write" /\ queue # <<>> /\ Pop
        /\ UNCHANGED <<issued, pending, state, saving, lost, early>>
    BY <1>7 DEF TaskDone, TypeOK
  <2> QED BY <2>1 DEF Pop, Ends, At, Longer, Effect
<1>8. ASSUME Finally PROVE Effect
  <2>1. UNCHANGED <<issued, pending, queue, phase, state, saving, lost, early>>
    BY <1>8 DEF Finally
  <2> QED BY <2>1 DEF Waits, Longer, Effect
<1> QED BY <1>1, <1>2, <1>3, <1>4, <1>5, <1>6, <1>7, <1>8 DEF TaskStep

(* Every step of the instance is one of the nine effects.                  *)
LEMMA StepEffect ==
    ASSUME TypeOK, CommitInv, TasksInv, [Next]_vars
    PROVE  Effect
<1>0. run \in [Runs -> RunState]  BY DEF TypeOK
<1>1. ASSUME UNCHANGED <<issued, pending, state, saving, lost, early, phase>>, Longer(queue)
      PROVE  Effect
  BY <1>1 DEF Waits, Effect
<1>2. ASSUME UNCHANGED <<issued, pending, state, saving, lost, early, phase, queue>>
      PROVE  Effect
  BY <1>1, <1>2 DEF Longer
<1>3. ASSUME UNCHANGED <<issued, pending, state, saving, lost, early, phase>>,
             NEW t, Plain(t), Enqueue(t)
      PROVE  Effect
  BY <1>1, <1>3, Zenon DEF Longer, Plain, Enqueue
<1>4. ASSUME NEW e \in Runs, NEW r \in RpcIds, Refuse(e, r) \/ Reack(e, r) \/ Deliver(e, r)
      PROVE  Effect
  <2>1. CASE Refuse(e, r)  BY <2>1, AckErrorEffect DEF Refuse, Effect
  <2>2. CASE Reack(e, r)  BY <1>2, <2>2 DEF Reack
  <2>3. CASE Deliver(e, r)
    <3>1. Enqueue(TaskOf("final", e)) \/ UNCHANGED queue  BY <2>3, Zenon DEF Deliver
    <3> QED BY <1>2, <1>3, <2>3, <3>1, PlainTask DEF Deliver
  <2> QED BY <1>4, <2>1, <2>2, <2>3
<1>5. ASSUME NEW e \in Runs, HandlerStep(e) \/ PatchState(e) \/ Broadcast(e)
      PROVE  Effect
  <2>1. CASE Prepared(e)  BY <1>2, <2>1 DEF Prepared
  <2>2. CASE Return(e)
    <3>1. Enqueue(TaskOf("final", e)) \/ UNCHANGED queue  BY <2>2, Zenon DEF Return
    <3> QED BY <1>2, <1>3, <2>2, <3>1, PlainTask DEF Return
  <2>3. CASE Fail(e)  BY <2>3, AckErrorEffect DEF Fail, Effect
  <2>4. CASE PatchState(e)  BY <2>4 DEF Writes, Effect
  <2>5. CASE Broadcast(e)
    <3>1. Longer(queue)  BY <2>5, SendLonger DEF Broadcast, MaySend
    <3> QED BY <1>1, <2>5, <3>1 DEF Broadcast
  <2> QED BY <1>5, <2>1, <2>2, <2>3, <2>4, <2>5 DEF HandlerStep
<1>6. CASE FlushTimer  BY <1>3, <1>6, PlainTask DEF FlushTimer
<1>7. CASE TaskStep  BY <1>7, TaskEffect
<1>8. CASE BusMessage
  <2>1. Enqueue(TaskOf("event", NoRun)) \/ UNCHANGED queue
    BY <1>8, Zenon DEF BusMessage, Receive
  <2> QED BY <1>2, <1>3, <1>8, <2>1, PlainTask DEF BusMessage
<1>9. CASE Resync  BY <1>2, <1>9 DEF Resync
<1>10. ASSUME NEW l \in Listeners, Render(l) \/ Attach(l) \/ Detach(l) PROVE Effect
  BY <1>2, <1>10 DEF Render, Attach, Detach
<1>11. CASE Dispose \/ Drained \/ Closed  BY <1>2, <1>11 DEF Dispose, Drained, Closed
<1>12. CASE UNCHANGED vars  BY <1>2, <1>12 DEF vars
<1> QED BY <1>4, <1>5, <1>6, <1>7, <1>8, <1>9, <1>10, <1>11, <1>12 DEF Next

-----------------------------------------------------------------------------
(* Invariants *)

(* The writes held by the i-th task, unless it is applying them already.   *)
Carried(i) ==
    IF i \in DOMAIN queue /\ (i > 1 \/ phase = "idle") THEN Range(queue[i].muts) ELSE {}

(* WritesConserved, made inductive: the four places a write may be at are  *)
(* disjoint and none holds it twice.                                       *)
OnceInv ==
    /\ IsInjective(state) /\ IsInjective(pending)
    /\ \A i \in DOMAIN queue : IsInjective(queue[i].muts)
ApartInv ==
    \A i, j \in DOMAIN queue : i # j => Carried(i) \cap Carried(j) = {}
PlacesInv ==
    /\ Range(state) \cap Range(pending) = {}
    /\ Range(state) \cap Waiting = {} /\ Range(pending) \cap Waiting = {}
    /\ Range(state) \cap LostIds = {} /\ Range(pending) \cap LostIds = {}
    /\ Waiting \cap LostIds = {}
    /\ WriteId = Range(state) \cup Range(pending) \cup Waiting \cup LostIds
WriteInv == OnceInv /\ ApartInv /\ PlacesInv

(* The pending list holds writes of patchState only, in the order of the   *)
(* calls, and every one made after its oldest; what waits in an error      *)
(* ack's task was taken early, and no reaction is among it.                *)
OrderInv ==
    /\ \A i, j \in DOMAIN pending : i < j => pending[i] < pending[j]
    /\ \A p \in Range(pending) : IsPatch(p)
    /\ \A p \in Range(pending), m \in WriteId : IsPatch(m) /\ m > p => m \in Range(pending)
    /\ \A m \in Waiting : m \in early /\ issued[m].kind # "event"

(* Who has a write pending has not been acked.                             *)
AckInv ==
    \A p \in Range(pending) : issued[p].run \in Runs /\ run[issued[p].run].pc # "acked"

(* A reaction was caused by a broadcast of the past; while the instance    *)
(* stores what it committed for it, only newer writes become pending.      *)
CauseInv ==
    /\ \A m \in WriteId : issued[m].upto <= Len(issued)
    /\ phase = "commit" => \A p \in Range(pending) : p > queue[1].upto

(* Both states handed to storage are states the instance went through.     *)
PrefixOf(s) == Len(s) <= Len(state) /\ s = SubSeq(state, 1, Len(s))
StoredInv == saving = state /\ PrefixOf(row) /\ PrefixOf(closing)

-----------------------------------------------------------------------------
(* The queue *)

LEMMA TailShape ==
    ASSUME NEW q \in Seq(Task), q # <<>>
    PROVE  /\ Tail(q) \in Seq(Task) /\ Len(Tail(q)) = Len(q) - 1
           /\ DOMAIN Tail(q) = 1 .. Len(q) - 1 /\ DOMAIN q = 1 .. Len(q) /\ Len(q) \in Nat \ {0}
           /\ \A i \in 1 .. Len(q) - 1 : Tail(q)[i] = q[i + 1]
<1>1. Len(q) \in Nat \ {0}  BY EmptySeq
<1>2. Tail(q) \in Seq(Task) /\ Len(Tail(q)) = Len(q) - 1
      /\ \A i \in 1 .. Len(Tail(q)) : Tail(q)[i] = q[i + 1]
  BY HeadTailProperties
<1> QED BY <1>1, <1>2, LenProperties

LEMMA AppendShape ==
    ASSUME NEW q \in Seq(Task), NEW t \in Task
    PROVE  /\ Append(q, t) \in Seq(Task) /\ Len(q) \in Nat
           /\ DOMAIN Append(q, t) = 1 .. Len(q) + 1 /\ DOMAIN q = 1 .. Len(q)
           /\ \A i \in 1 .. Len(q) : Append(q, t)[i] = q[i]
           /\ Append(q, t)[Len(q) + 1] = t
BY AppendProperties, LenProperties

(* What Longer leaves: the tasks of q, and behind them a plain one at most.*)
LEMMA LongerShape ==
    ASSUME NEW q \in Seq(Task), Longer(q)
    PROVE  /\ queue' \in Seq(Task) /\ Len(q) \in Nat
           /\ DOMAIN q = 1 .. Len(q)
           /\ DOMAIN queue' = 1 .. Len(q) \/ DOMAIN queue' = 1 .. Len(q) + 1
           /\ \A i \in 1 .. Len(q) : queue'[i] = q[i]
           /\ \A i \in DOMAIN queue' : i > Len(q) => Plain(queue'[i])
<1>1. CASE queue' = q  BY <1>1, LenProperties
<1>2. CASE \E t \in Task : Plain(t) /\ queue' = Append(q, t)
  <2>1. PICK t \in Task : Plain(t) /\ queue' = Append(q, t)  BY <1>2
  <2> QED BY <2>1, AppendShape
<1> QED BY <1>1, <1>2 DEF Longer

LEMMA LongerOrigin ==
    ASSUME NEW q \in Seq(Task), Longer(q), NEW i \in DOMAIN queue'
    PROVE  (i \in DOMAIN q /\ queue'[i] = q[i]) \/ Plain(queue'[i])
<1>1. /\ Len(q) \in Nat /\ DOMAIN q = 1 .. Len(q)
      /\ DOMAIN queue' = 1 .. Len(q) \/ DOMAIN queue' = 1 .. Len(q) + 1
      /\ \A k \in 1 .. Len(q) : queue'[k] = q[k]
      /\ \A k \in DOMAIN queue' : k > Len(q) => Plain(queue'[k])
  BY LongerShape, Zenon
<1> QED BY <1>1

LEMMA SeqTypes ==
    ASSUME TypeOK
    PROVE  /\ queue \in Seq(Task) /\ state \in Seq(Nat) /\ pending \in Seq(Nat)
           /\ Len(queue) \in Nat /\ Len(state) \in Nat /\ Len(pending) \in Nat
           /\ Len(issued) \in Nat /\ issued \in Seq(Author)
           /\ queue # <<>> => 1 \in DOMAIN queue /\ Len(queue) > 0
BY DEF TypeOK

LEMMA NoMuts == Range(<<>>) = {} /\ IsInjective(<<>>)
BY DEF Range, IsInjective

(* The writes listed in a task, whether it holds them or applied them.     *)
Listed(i) == IF i \in DOMAIN queue THEN Range(queue[i].muts) ELSE {}

LEMMA ListedGrows ==
    ASSUME TypeOK, Longer(queue)
    PROVE  \A i \in Nat \ {0} : Listed(i)' = Listed(i)
<1>1. queue \in Seq(Task)  BY DEF TypeOK
<1> SUFFICES ASSUME NEW i \in Nat \ {0} PROVE Listed(i)' = Listed(i)
  OBVIOUS
<1>2. CASE i \in 1 .. Len(queue)  BY <1>1, <1>2, LongerShape DEF Listed
<1>3. CASE i \notin 1 .. Len(queue)
  <2>1. Listed(i) = {}  BY <1>1, <1>3, LongerShape DEF Listed
  <2>2. i \in DOMAIN queue' => queue'[i].muts = <<>>  BY <1>1, <1>3, LongerShape DEF Plain
  <2> QED BY <2>1, <2>2, NoMuts DEF Listed
<1> QED BY <1>2, <1>3

LEMMA ListedShifts ==
    ASSUME TypeOK, queue # <<>>, Longer(Tail(queue))
    PROVE  \A i \in Nat \ {0} : Listed(i)' = Listed(i + 1)
<1> DEFINE q == Tail(queue)
<1>1. queue \in Seq(Task)  BY DEF TypeOK
<1>2. q \in Seq(Task) /\ Len(q) = Len(queue) - 1 /\ Len(queue) \in Nat \ {0}
      /\ DOMAIN queue = 1 .. Len(queue)
      /\ \A i \in 1 .. Len(queue) - 1 : q[i] = queue[i + 1]
  BY <1>1, TailShape
<1> HIDE DEF q
<1>3. /\ DOMAIN queue' = 1 .. Len(q) \/ DOMAIN queue' = 1 .. Len(q) + 1
      /\ \A i \in 1 .. Len(q) : queue'[i] = q[i]
      /\ \A i \in DOMAIN queue' : i > Len(q) => queue'[i].muts = <<>>
  <2>1. Longer(q)  BY DEF q
  <2> QED BY <1>2, <2>1, LongerShape DEF Plain
<1> SUFFICES ASSUME NEW i \in Nat \ {0} PROVE Listed(i)' = Listed(i + 1)
  OBVIOUS
<1>4. CASE i \in 1 .. Len(queue) - 1
  <2>1. i \in DOMAIN queue' /\ queue'[i] = queue[i + 1]  BY <1>2, <1>3, <1>4
  <2> QED BY <1>2, <1>4, <2>1 DEF Listed
<1>5. CASE i \notin 1 .. Len(queue) - 1
  <2>1. Listed(i + 1) = {}  BY <1>2, <1>5 DEF Listed
  <2>2. i \in DOMAIN queue' => queue'[i].muts = <<>>  BY <1>2, <1>3, <1>5
  <2> QED BY <2>1, <2>2, NoMuts DEF Listed
<1> QED BY <1>4, <1>5

LEMMA CarriedListed ==
    ASSUME TypeOK, NEW i \in Nat \ {0}
    PROVE  Carried(i) = IF i > 1 \/ phase = "idle" THEN Listed(i) ELSE {}
BY DEF Carried, Listed

LEMMA PlainHead ==
    ASSUME TypeOK, TasksInv, queue # <<>>, queue[1].kind # "err"
    PROVE  Listed(1) = {} /\ Carried(1) = {}
<1>1. 1 \in DOMAIN queue  BY DEF TypeOK
<1> QED BY <1>1, NoMuts DEF TasksInv, Listed, Carried

(* An effect keeps what the tasks carry in place, or moves it up by one.   *)
LEMMA CarriedStays ==
    ASSUME TypeOK, TypeOK', TasksInv, Waits \/ Commits \/ Reacts
    PROVE  \A i \in Nat \ {0} : Carried(i)' = Carried(i)
<1>1. Longer(queue)  BY DEF Waits, Commits, Reacts, Longer
<1>2. \A i \in Nat \ {0} : Listed(i)' = Listed(i)  BY <1>1, ListedGrows
<1>3. phase' = phase \/ (queue # <<>> /\ queue[1].kind # "err")
  BY DEF Waits, Commits, Reacts, Flushes, At
<1>4. phase' = phase \/ Listed(1) = {}  BY <1>3, PlainHead
<1> QED BY <1>2, <1>4, CarriedListed DEF Carried, Listed

LEMMA CarriedShifts ==
    ASSUME TypeOK, TypeOK', TasksInv, Ends \/ Discards \/ Throws
    PROVE  /\ \A i \in Nat \ {0} : Carried(i)' = Carried(i + 1)
           /\ ~ Throws => Carried(1) = {}
<1>1. queue # <<>> /\ Longer(Tail(queue)) /\ phase' = "idle"
  BY DEF Ends, Discards, Throws, Flushes, At, Pop, Longer
<1>2. \A i \in Nat \ {0} : Listed(i)' = Listed(i + 1)  BY <1>1, ListedShifts
<1>3. \A i \in Nat \ {0} : Carried(i)' = Listed(i)'  BY <1>1 DEF Carried, Listed
<1>4. \A i \in Nat \ {0} : Carried(i + 1) = Listed(i + 1)  BY DEF Carried, Listed
<1>5. ASSUME Ends \/ Discards PROVE Carried(1) = {}
  <2>1. phase # "idle" \/ queue[1].kind # "err"
    BY <1>5 DEF Ends, Discards, Flushes, At
  <2> QED BY <1>1, <2>1, PlainHead DEF Carried
<1> QED BY <1>2, <1>3, <1>4, <1>5

LEMMA CarriedWaits ==
    ASSUME TypeOK
    PROVE  /\ \A m : m \in Waiting <=> \E i \in Nat \ {0} : m \in Carried(i)
           /\ DOMAIN queue \subseteq Nat \ {0}
<1>1. DOMAIN queue \subseteq Nat \ {0}  BY DEF TypeOK
<1> QED BY <1>1 DEF Waiting, Carried

LEMMA CarriedWaitsNext ==
    ASSUME TypeOK'
    PROVE  /\ \A m : m \in Waiting' <=> \E i \in Nat \ {0} : m \in Carried(i)'
           /\ DOMAIN queue' \subseteq Nat \ {0}
<1>1. DOMAIN queue' \subseteq Nat \ {0}  BY DEF TypeOK
<1> QED BY <1>1 DEF Waiting, Carried

LEMMA ApartNat ==
    ASSUME TypeOK
    PROVE  ApartInv <=> \A i, j \in Nat \ {0} : i # j => Carried(i) \cap Carried(j) = {}
BY CarriedWaits DEF ApartInv, Carried

-----------------------------------------------------------------------------
(* TasksInv *)

LEMMA TakenTask ==
    ASSUME NEW e \in Runs, NEW ms \in Seq(Nat)
    PROVE  LET t == [TaskOf("err", e) EXCEPT !.muts = ms]
           IN  t \in Task /\ t.kind = "err" /\ t.muts = ms /\ t.upto = 0
BY TaskType DEF TaskOf

(* Whatever a step does to the queue, a task of it is one of before, a     *)
(* plain one, or the task of an error ack that takes the pending list.     *)
LEMMA TaskOrigin ==
    ASSUME TypeOK, Effect, NEW i \in DOMAIN queue'
    PROVE  \/ \E j \in DOMAIN queue : queue'[i] = queue[j]
           \/ Plain(queue'[i])
           \/ /\ Takes /\ queue'[i].kind = "err" /\ queue'[i].upto = 0
              /\ queue'[i].muts = pending \/ queue'[i].muts = Append(pending, NextWrite)
<1>0. queue \in Seq(Task) /\ pending \in Seq(Nat) /\ Append(pending, NextWrite) \in Seq(Nat)
  BY DEF TypeOK, NextWrite
<1>1. CASE Longer(queue)  BY <1>0, <1>1, LongerOrigin, Zenon
<1>2. CASE queue # <<>> /\ Longer(Tail(queue))
  <2>1. /\ Tail(queue) \in Seq(Task) /\ DOMAIN Tail(queue) = 1 .. Len(queue) - 1
        /\ DOMAIN queue = 1 .. Len(queue) /\ Len(queue) \in Nat \ {0}
        /\ \A k \in 1 .. Len(queue) - 1 : Tail(queue)[k] = queue[k + 1]
    BY <1>0, <1>2, TailShape
  <2>2. (i \in DOMAIN Tail(queue) /\ queue'[i] = Tail(queue)[i]) \/ Plain(queue'[i])
    BY <1>2, <2>1, LongerOrigin, Zenon
  <2> QED BY <2>1, <2>2
<1>3. CASE Takes
  <2>1. PICK e \in Runs, ms \in {pending, Append(pending, NextWrite)} :
          UNCHANGED queue \/ Enqueue([TaskOf("err", e) EXCEPT !.muts = ms])
    BY <1>3, Zenon DEF Takes
  <2> DEFINE t == [TaskOf("err", e) EXCEPT !.muts = ms]
  <2>2. t \in Task /\ t.kind = "err" /\ t.muts = ms /\ t.upto = 0  BY <1>0, TakenTask
  <2> HIDE DEF t
  <2>3. CASE queue' = Append(queue, t)
    <3>1. (i \in DOMAIN queue /\ queue'[i] = queue[i]) \/ queue'[i] = t
      BY <1>0, <2>2, <2>3, AppendShape
    <3> QED BY <1>3, <2>2, <3>1
  <2> QED BY <2>1, <2>3 DEF Enqueue, t
<1> QED BY <1>1, <1>2, <1>3 DEF Effect, Waits, Ends, Writes, PatchState, Commits, Discards,
           Lands, Throws, Reacts, Flushes, At, Pop, Longer

LEMMA IssuedGrows ==
    ASSUME TypeOK, Effect
    PROVE  /\ Len(issued) \in Nat /\ issued \in Seq(Author)
           /\ \/ UNCHANGED issued
              \/ \E a \in Author : issued' = Append(issued, a) /\ Len(issued') = Len(issued) + 1
           /\ Len(issued') \in Nat /\ Len(issued') >= Len(issued)
           /\ \A m \in WriteId : m \in WriteId' /\ issued'[m] = issued[m]
<1>0. Len(issued) \in Nat /\ issued \in Seq(Author)  BY DEF TypeOK
<1>1. \/ UNCHANGED issued
      \/ \E a \in Author : issued' = Append(issued, a)
  <2>1. CASE Writes  BY <2>1, AuthorType DEF Writes, PatchState, Issue
  <2>2. CASE Takes  BY <2>2, AuthorType, Zenon DEF Takes, Issue
  <2>3. CASE Reacts
    <3>1. queue[1] \in Task  BY <2>3, HeadType DEF Reacts
    <3> QED BY <2>3, <3>1, AuthorType, Zenon DEF Reacts, Issue
  <2> QED BY <2>1, <2>2, <2>3 DEF Effect, Waits, Ends, Commits, Discards, Lands, Throws
<1>2. ASSUME NEW a \in Author, issued' = Append(issued, a)
      PROVE  /\ Len(issued') = Len(issued) + 1
             /\ \A m \in 1 .. Len(issued) : issued'[m] = issued[m]
  BY <1>0, <1>2, AppendProperties
<1> QED BY <1>0, <1>1, <1>2 DEF WriteId

LEMMA TasksStep == TypeOK /\ TasksInv /\ Effect => TasksInv'
<1> SUFFICES ASSUME TypeOK, TasksInv, Effect, NEW i \in DOMAIN queue'
             PROVE  /\ queue'[i].upto <= Len(issued')
                    /\ queue'[i].kind # "err" => queue'[i].muts = <<>>
  BY DEF TasksInv
<1>0. Len(issued) \in Nat /\ Len(issued') \in Nat /\ Len(issued') >= Len(issued)
  BY IssuedGrows
<1>1. ASSUME NEW j \in DOMAIN queue, queue'[i] = queue[j]
      PROVE  /\ queue'[i].upto <= Len(issued')
             /\ queue'[i].kind # "err" => queue'[i].muts = <<>>
  <2>1. queue[j].upto \in Nat  BY DEF TypeOK, Task
  <2> QED BY <1>0, <1>1, <2>1 DEF TasksInv
<1>2. CASE Plain(queue'[i])
  <2>1. queue'[i].upto \in Nat  BY <1>2 DEF Plain, Task
  <2> QED BY <1>0, <1>2, <2>1 DEF Plain
<1> QED BY <1>0, <1>1, <1>2, TaskOrigin

-----------------------------------------------------------------------------
(* Ranges of sequences, and what the tasks hold after a step *)

LEMMA AppendRange ==
    ASSUME NEW s \in Seq(Nat), NEW n \in Nat
    PROVE  /\ Append(s, n) \in Seq(Nat) /\ Range(Append(s, n)) = Range(s) \cup {n}
           /\ IsInjective(s) /\ n \notin Range(s) => IsInjective(Append(s, n))
<1>1. /\ Append(s, n) \in Seq(Nat) /\ Len(s) \in Nat
      /\ DOMAIN s = 1 .. Len(s) /\ DOMAIN Append(s, n) = 1 .. Len(s) + 1
      /\ \A i \in 1 .. Len(s) : Append(s, n)[i] = s[i]
      /\ Append(s, n)[Len(s) + 1] = n
  OBVIOUS
<1>2. Range(Append(s, n)) = Range(s) \cup {n}  BY <1>1 DEF Range
<1>3. ASSUME IsInjective(s), n \notin Range(s) PROVE IsInjective(Append(s, n))
  BY <1>1, <1>3 DEF IsInjective, Range
<1> QED BY <1>1, <1>2, <1>3

LEMMA ConcatRange ==
    ASSUME NEW s \in Seq(Nat), NEW t \in Seq(Nat)
    PROVE  /\ s \o t \in Seq(Nat) /\ Range(s \o t) = Range(s) \cup Range(t)
           /\ IsInjective(s) /\ IsInjective(t) /\ Range(s) \cap Range(t) = {}
                 => IsInjective(s \o t)
<1>1. Range(s \o t) = Range(s) \cup Range(t)  BY RangeConcatenation
<1>2. ASSUME IsInjective(s), IsInjective(t), Range(s) \cap Range(t) = {}
      PROVE  IsInjective(s \o t)
  <2>1. /\ Len(s) \in Nat /\ Len(t) \in Nat
        /\ DOMAIN s = 1 .. Len(s) /\ DOMAIN t = 1 .. Len(t)
        /\ DOMAIN (s \o t) = 1 .. Len(s) + Len(t)
        /\ \A i \in 1 .. Len(s) + Len(t) :
              (s \o t)[i] = IF i <= Len(s) THEN s[i] ELSE t[i - Len(s)]
    BY ConcatProperties, LenProperties
  <2>2. \A i \in 1 .. Len(s), j \in 1 .. Len(t) : s[i] # t[j]  BY <1>2, <2>1 DEF Range
  <2> SUFFICES ASSUME NEW i \in 1 .. Len(s) + Len(t), NEW j \in 1 .. Len(s) + Len(t),
                      (s \o t)[i] = (s \o t)[j]
               PROVE  i = j
    BY <2>1 DEF IsInjective
  <2>3. CASE i <= Len(s) /\ j <= Len(s)
    <3>1. i \in DOMAIN s /\ j \in DOMAIN s /\ s[i] = s[j]  BY <2>1, <2>3
    <3> QED BY <1>2, <3>1, Zenon DEF IsInjective
  <2>4. CASE i > Len(s) /\ j > Len(s)
    <3>1. i - Len(s) \in DOMAIN t /\ j - Len(s) \in DOMAIN t /\ t[i - Len(s)] = t[j - Len(s)]
      BY <2>1, <2>4
    <3>2. i - Len(s) = j - Len(s)  BY <1>2, <3>1, Zenon DEF IsInjective
    <3> QED BY <2>1, <3>2
  <2>5. CASE i <= Len(s) /\ j > Len(s)
    <3>1. i \in 1 .. Len(s) /\ j - Len(s) \in 1 .. Len(t) /\ s[i] = t[j - Len(s)]
      BY <2>1, <2>5
    <3> QED BY <2>2, <3>1
  <2>6. CASE i > Len(s) /\ j <= Len(s)
    <3>1. j \in 1 .. Len(s) /\ i - Len(s) \in 1 .. Len(t) /\ s[j] = t[i - Len(s)]
      BY <2>1, <2>6
    <3> QED BY <2>2, <3>1
  <2> QED BY <2>1, <2>3, <2>4, <2>5, <2>6
<1> QED BY <1>1, <1>2

LEMMA DiscardIds == ASSUME NEW ms, Discard(ms) PROVE LostIds' = LostIds \cup Range(ms)
<1>1. PICK by \in Range(ms) : lost' = lost \cup {[id |-> m, by |-> by] : m \in Range(ms)}
  BY DEF Discard
<1>2. \A m \in Range(ms) : [id |-> m, by |-> by].id = m  OBVIOUS
<1>3. \A i : i \in LostIds' <=> \E x \in lost' : i = x.id  BY Zenon DEF LostIds
<1>4. \A i : i \in LostIds <=> \E x \in lost : i = x.id  BY Zenon DEF LostIds
<1>5. \A m \in Range(ms) : [id |-> m, by |-> by] \in lost'  BY <1>1
<1>6. ASSUME NEW i \in LostIds' PROVE i \in LostIds \cup Range(ms)
  <2>1. PICK x \in lost' : i = x.id  BY <1>3, <1>6
  <2>2. CASE x \in lost  BY <1>4, <2>1, <2>2
  <2>3. CASE \E m \in Range(ms) : x = [id |-> m, by |-> by]  BY <1>2, <2>1, <2>3
  <2> QED BY <1>1, <2>1, <2>2, <2>3
<1>7. ASSUME NEW i \in LostIds PROVE i \in LostIds'
  BY <1>1, <1>3, <1>4, <1>7
<1>8. ASSUME NEW i \in Range(ms) PROVE i \in LostIds'
  <2>1. [id |-> i, by |-> by].id = i /\ [id |-> i, by |-> by] \in lost'  BY <1>2, <1>5, <1>8
  <2> QED BY <1>3, <2>1
<1> QED BY <1>6, <1>7, <1>8

LEMMA WaitingStays ==
    ASSUME TypeOK, TypeOK', ApartInv, \A i \in Nat \ {0} : Carried(i)' = Carried(i)
    PROVE  ApartInv' /\ Waiting' = Waiting
<1>1. \A m : m \in Waiting <=> \E i \in Nat \ {0} : m \in Carried(i)  BY CarriedWaits
<1>2. \A m : m \in Waiting' <=> \E i \in Nat \ {0} : m \in Carried(i)'  BY CarriedWaitsNext
<1>3. DOMAIN queue' \subseteq Nat \ {0}  BY CarriedWaitsNext
<1>4. \A i, j \in Nat \ {0} : i # j => Carried(i) \cap Carried(j) = {}  BY ApartNat
<1>5. ApartInv'  BY <1>3, <1>4, Zenon DEF ApartInv
<1> QED BY <1>1, <1>2, <1>5, Zenon

LEMMA WaitingShifts ==
    ASSUME TypeOK, TypeOK', ApartInv, \A i \in Nat \ {0} : Carried(i)' = Carried(i + 1)
    PROVE  ApartInv' /\ Waiting' = Waiting \ Carried(1)
<1>1. \A m : m \in Waiting <=> \E i \in Nat \ {0} : m \in Carried(i)  BY CarriedWaits
<1>2. \A m : m \in Waiting' <=> \E i \in Nat \ {0} : m \in Carried(i)'  BY CarriedWaitsNext
<1>3. DOMAIN queue' \subseteq Nat \ {0}  BY CarriedWaitsNext
<1>4. \A i, j \in Nat \ {0} : i # j => Carried(i) \cap Carried(j) = {}  BY ApartNat
<1>5. ApartInv'
  <2> SUFFICES ASSUME NEW i \in DOMAIN queue', NEW j \in DOMAIN queue', i # j
               PROVE  Carried(i)' \cap Carried(j)' = {}
    BY DEF ApartInv
  <2>1. i \in Nat \ {0} /\ j \in Nat \ {0}  BY <1>3
  <2>2. i + 1 \in Nat \ {0} /\ j + 1 \in Nat \ {0} /\ i + 1 # j + 1  BY <2>1
  <2> QED BY <1>4, <2>1, <2>2, Zenon
<1>6. ASSUME NEW m \in Waiting' PROVE m \in Waiting \ Carried(1)
  <2>1. PICK i \in Nat \ {0} : m \in Carried(i + 1)  BY <1>2, <1>6
  <2>2. i + 1 \in Nat \ {0} /\ 1 \in Nat \ {0} /\ i + 1 # 1  OBVIOUS
  <2> QED BY <1>1, <1>4, <2>1, <2>2, Zenon
<1>7. ASSUME NEW m \in Waiting, m \notin Carried(1) PROVE m \in Waiting'
  <2>1. PICK i \in Nat \ {0} : m \in Carried(i)  BY <1>1
  <2>2. i - 1 \in Nat \ {0} /\ (i - 1) + 1 = i  BY <1>7, <2>1
  <2> QED BY <1>2, <2>1, <2>2
<1> QED BY <1>5, <1>6, <1>7

LEMMA WaitingLands ==
    ASSUME TypeOK, TypeOK', ApartInv, Lands
    PROVE  /\ ApartInv' /\ Waiting' = Waiting \ Carried(1)
           /\ Carried(1) = Range(queue[1].muts)
<1>1. \A m : m \in Waiting <=> \E i \in Nat \ {0} : m \in Carried(i)  BY CarriedWaits
<1>2. \A m : m \in Waiting' <=> \E i \in Nat \ {0} : m \in Carried(i)'  BY CarriedWaitsNext
<1>3. DOMAIN queue' \subseteq Nat \ {0}  BY CarriedWaitsNext
<1>4. \A i, j \in Nat \ {0} : i # j => Carried(i) \cap Carried(j) = {}  BY ApartNat
<1>5. \A i \in Nat \ {0} : Listed(i)' = Listed(i)  BY ListedGrows DEF Lands
<1>6. Carried(1) = Range(queue[1].muts) /\ Carried(1)' = {}
      /\ \A i \in Nat \ {0, 1} : Carried(i)' = Carried(i)
  <2>1. queue # <<>> /\ phase = "idle" /\ phase' = "write"  BY DEF Lands, At
  <2>2. 1 \in DOMAIN queue  BY <2>1, SeqTypes
  <2>3. \A i \in Nat \ {0} : /\ Carried(i) = Listed(i)
                            /\ Carried(i)' = IF i > 1 THEN Listed(i)' ELSE {}
    BY <2>1 DEF Carried, Listed
  <2>4. Listed(1) = Range(queue[1].muts)  BY <2>2 DEF Listed
  <2> QED BY <1>5, <2>3, <2>4
<1>7. ApartInv'  BY <1>3, <1>4, <1>6 DEF ApartInv
<1>8. ASSUME NEW m \in Waiting' PROVE m \in Waiting \ Carried(1)
  <2>1. PICK i \in Nat \ {0} : m \in Carried(i)'  BY <1>2, <1>8
  <2>2. i # 1 /\ m \in Carried(i)  BY <1>6, <2>1
  <2> QED BY <1>1, <1>4, <2>2
<1>9. ASSUME NEW m \in Waiting, m \notin Carried(1) PROVE m \in Waiting'
  BY <1>1, <1>2, <1>6, <1>9
<1> QED BY <1>6, <1>7, <1>8, <1>9

LEMMA WaitingTakes ==
    ASSUME TypeOK, TypeOK', ApartInv, NEW e \in Runs, NEW ms \in Seq(Nat),
           UNCHANGED phase,
           IF ms = <<>> THEN UNCHANGED queue
           ELSE Enqueue([TaskOf("err", e) EXCEPT !.muts = ms]),
           Range(ms) \cap Waiting = {}
    PROVE  ApartInv' /\ Waiting' = Waiting \cup Range(ms)
<1>1. \A m : m \in Waiting <=> \E i \in Nat \ {0} : m \in Carried(i)  BY CarriedWaits
<1>2. \A m : m \in Waiting' <=> \E i \in Nat \ {0} : m \in Carried(i)'  BY CarriedWaitsNext
<1>3. CASE ms = <<>>
  <2>1. \A i \in Nat \ {0} : Carried(i)' = Carried(i)  BY <1>3 DEF Carried
  <2> QED BY <1>3, <2>1, WaitingStays, NoMuts
<1>4. CASE ms # <<>>
  <2> DEFINE t == [TaskOf("err", e) EXCEPT !.muts = ms]
  <2>0. PICK n \in Nat \ {0} : n = Len(queue) + 1  BY SeqTypes
  <2>1. queue \in Seq(Task) /\ n \in Nat \ {0} /\ n = Len(queue) + 1  BY <2>0, SeqTypes
  <2>2. t \in Task /\ t.muts = ms  BY TakenTask
  <2>3. queue' = Append(queue, t)  BY <1>4 DEF Enqueue
  <2> HIDE DEF t
  <2>4. /\ DOMAIN queue' = 1 .. n /\ DOMAIN queue = 1 .. Len(queue)
        /\ \A i \in 1 .. Len(queue) : queue'[i] = queue[i]
        /\ queue'[n] = t
    BY <2>1, <2>2, <2>3, AppendShape
  <2>5. n > 1 \/ phase' = "idle"
    <3>1. queue # <<>> => Len(queue) > 0  BY SeqTypes
    <3> QED BY <2>1, <3>1 DEF TypeOK
  <2>6. \A i \in Nat \ {0} : Carried(i)' = IF i = n THEN Range(ms) ELSE Carried(i)
    <3>1. n \in DOMAIN queue' /\ queue'[n].muts = ms  BY <2>1, <2>2, <2>4
    <3>2. Carried(n)' = Range(ms)  BY <2>5, <3>1 DEF Carried
    <3>3. ASSUME NEW i \in Nat \ {0, n} PROVE Carried(i)' = Carried(i)
      <4>1. i \in DOMAIN queue' <=> i \in DOMAIN queue  BY <2>1, <2>4
      <4>2. i \in DOMAIN queue => queue'[i] = queue[i]  BY <2>4
      <4> QED BY <4>1, <4>2 DEF Carried
    <3> QED BY <3>2, <3>3
  <2>7. Carried(n) = {}  BY <2>1, <2>4 DEF Carried
  <2>8. Waiting' = Waiting \cup Range(ms)
    <3>1. ASSUME NEW m \in Waiting' PROVE m \in Waiting \/ m \in Range(ms)
      <4>1. PICK i \in Nat \ {0} : m \in Carried(i)'  BY <1>2, <3>1
      <4> QED BY <1>1, <2>6, <4>1
    <3>2. ASSUME NEW m \in Waiting PROVE m \in Waiting'
      <4>1. PICK i \in Nat \ {0} : m \in Carried(i)  BY <1>1, <3>2
      <4>2. m \in Carried(i)'  BY <2>6, <2>7, <4>1
      <4> QED BY <1>2, <4>2
    <3>3. ASSUME NEW m \in Range(ms) PROVE m \in Waiting'
      BY <1>2, <2>1, <2>6, <3>3
    <3> QED BY <3>1, <3>2, <3>3
  <2>9. ApartInv'
    <3>1. \A i, j \in Nat \ {0} : i # j => Carried(i) \cap Carried(j) = {}  BY ApartNat
    <3>2. \A i \in Nat \ {0} : Range(ms) \cap Carried(i) = {}  BY <1>1
    <3>3. DOMAIN queue' \subseteq Nat \ {0}  BY CarriedWaitsNext
    <3> SUFFICES ASSUME NEW i \in DOMAIN queue', NEW j \in DOMAIN queue', i # j
                 PROVE  Carried(i)' \cap Carried(j)' = {}
      BY DEF ApartInv
    <3>4. i \in Nat \ {0} /\ j \in Nat \ {0}  BY <3>3
    <3>5. Carried(i)' = IF i = n THEN Range(ms) ELSE Carried(i)  BY <2>6, <3>4
    <3>6. Carried(j)' = IF j = n THEN Range(ms) ELSE Carried(j)  BY <2>6, <3>4
    <3>7. Carried(i) \cap Carried(j) = {}  BY <3>1, <3>4
    <3> QED BY <3>2, <3>4, <3>5, <3>6, <3>7
  <2> QED BY <2>8, <2>9
<1> QED BY <1>3, <1>4

-----------------------------------------------------------------------------
(* WritesConserved *)

LEMMA FreshWrite ==
    ASSUME TypeOK, PlacesInv
    PROVE  /\ NextWrite \in Nat /\ NextWrite \notin WriteId
           /\ NextWrite \notin Range(state) \cup Range(pending) \cup Waiting \cup LostIds
           /\ \A a : Issue(a) => WriteId' = WriteId \cup {NextWrite}
<1>1. issued \in Seq(Author) /\ Len(issued) \in Nat  BY DEF TypeOK
<1>2. \A a : Len(Append(issued, a)) = Len(issued) + 1  BY <1>1
<1>3. NextWrite \in Nat /\ NextWrite \notin WriteId  BY <1>1 DEF NextWrite, WriteId
<1>4. \A a : Issue(a) => WriteId' = WriteId \cup {NextWrite}
  BY <1>1, <1>2 DEF Issue, WriteId, NextWrite
<1> QED BY <1>3, <1>4 DEF PlacesInv

LEMMA TasksOnce ==
    ASSUME TypeOK, OnceInv, PlacesInv, Effect
    PROVE  \A i \in DOMAIN queue' : IsInjective(queue'[i].muts)
<1> SUFFICES ASSUME NEW i \in DOMAIN queue' PROVE IsInjective(queue'[i].muts)
  OBVIOUS
<1>1. IsInjective(pending) /\ IsInjective(Append(pending, NextWrite))
  BY SeqTypes, FreshWrite, AppendRange DEF OnceInv
<1>2. ASSUME NEW j \in DOMAIN queue, queue'[i] = queue[j] PROVE IsInjective(queue'[i].muts)
  BY <1>2 DEF OnceInv
<1>3. CASE Plain(queue'[i])  BY <1>3, NoMuts DEF Plain
<1> QED BY <1>1, <1>2, <1>3, TaskOrigin

LEMMA QuietPlaces ==
    ASSUME TypeOK, TypeOK', TasksInv, WriteInv, Waits \/ Ends
    PROVE  WriteInv'
<1>1. Effect  BY DEF Effect
<1>2. UNCHANGED <<issued, pending, state, lost>>  BY DEF Waits, Ends
<1>3. ApartInv' /\ Waiting' = Waiting
  <2>1. CASE Waits  BY <2>1, CarriedStays, WaitingStays DEF WriteInv
  <2>2. CASE Ends
    <3>1. ~ Throws  BY <2>2 DEF Ends, Throws, At
    <3> QED BY <2>2, <3>1, CarriedShifts, WaitingShifts DEF WriteInv
  <2> QED BY <2>1, <2>2
<1>4. OnceInv'  BY <1>1, <1>2, TasksOnce DEF OnceInv, WriteInv
<1>5. PlacesInv'  BY <1>2, <1>3 DEF PlacesInv, WriteInv, WriteId, LostIds
<1> QED BY <1>3, <1>4, <1>5 DEF WriteInv

LEMMA WritesPlaces ==
    ASSUME TypeOK, TypeOK', TasksInv, WriteInv, Writes
    PROVE  WriteInv'
<1>1. Effect  BY DEF Effect
<1>2. PICK e \in Runs : PatchState(e)  BY DEF Writes
<1>3. pending' = Append(pending, NextWrite) /\ UNCHANGED <<state, lost, queue, phase>>
  BY <1>2 DEF PatchState
<1>4. /\ Range(pending)' = Range(pending) \cup {NextWrite} /\ IsInjective(pending)'
      /\ WriteId' = WriteId \cup {NextWrite}
  BY <1>2, <1>3, SeqTypes, FreshWrite, AppendRange DEF WriteInv, OnceInv, PatchState
<1>5. ApartInv' /\ Waiting' = Waiting
  <2>1. \A i \in Nat \ {0} : Carried(i)' = Carried(i)  BY <1>3 DEF Carried
  <2> QED BY <2>1, WaitingStays DEF WriteInv
<1>6. OnceInv'  BY <1>1, <1>3, <1>4, TasksOnce DEF OnceInv, WriteInv
<1>7. PlacesInv'
  BY <1>3, <1>4, <1>5, FreshWrite DEF PlacesInv, WriteInv, LostIds
<1> QED BY <1>5, <1>6, <1>7 DEF WriteInv

LEMMA TakesPlaces ==
    ASSUME TypeOK, TypeOK', TasksInv, WriteInv, Takes
    PROVE  WriteInv'
<1>1. Effect  BY DEF Effect
<1>2. PICK e \in Runs, repair \in BOOLEAN :
        LET taken == IF repair THEN Append(pending, NextWrite) ELSE pending IN
        /\ IF repair THEN Issue(AuthorOf("onError", e)) ELSE UNCHANGED issued
        /\ pending' = <<>>
        /\ IF taken = <<>> THEN UNCHANGED queue
           ELSE Enqueue([TaskOf("err", e) EXCEPT !.muts = taken])
        /\ UNCHANGED <<phase, state, lost>>
  BY Zenon DEF Takes
<1>3. PICK ms \in Seq(Nat) :
        /\ \/ /\ Range(ms) = Range(pending) \cup {NextWrite}
              /\ WriteId' = WriteId \cup {NextWrite}
           \/ Range(ms) = Range(pending) /\ WriteId' = WriteId
        /\ IF ms = <<>> THEN UNCHANGED queue
           ELSE Enqueue([TaskOf("err", e) EXCEPT !.muts = ms])
  <2>1. CASE repair
    <3>1. /\ Append(pending, NextWrite) \in Seq(Nat)
          /\ Range(Append(pending, NextWrite)) = Range(pending) \cup {NextWrite}
      BY SeqTypes, FreshWrite, AppendRange DEF WriteInv
    <3>2. WriteId' = WriteId \cup {NextWrite}  BY <1>2, <2>1, FreshWrite DEF WriteInv
    <3> QED BY <1>2, <2>1, <3>1, <3>2
  <2>2. CASE ~ repair  BY <1>2, <2>2, SeqTypes DEF WriteId
  <2> QED BY <2>1, <2>2
<1>4. /\ pending' = <<>> /\ Range(pending)' = {} /\ IsInjective(pending)'
      /\ UNCHANGED <<phase, state, lost>>
  BY <1>2, NoMuts
<1>5. Range(ms) \cap Waiting = {}  BY <1>3, FreshWrite DEF WriteInv, PlacesInv
<1>6. ApartInv' /\ Waiting' = Waiting \cup Range(ms)
  <2>1. UNCHANGED phase  BY <1>4
  <2>2. IF ms = <<>> THEN UNCHANGED queue ELSE Enqueue([TaskOf("err", e) EXCEPT !.muts = ms])
    BY <1>3
  <2> QED BY <1>5, <2>1, <2>2, WaitingTakes DEF WriteInv
<1>7. OnceInv'  BY <1>1, <1>4, TasksOnce DEF OnceInv, WriteInv
<1>8. PlacesInv'
  BY <1>3, <1>4, <1>6, FreshWrite DEF PlacesInv, WriteInv, LostIds
<1> QED BY <1>6, <1>7, <1>8 DEF WriteInv

(* A task that puts the pending list in the state, or drops it.            *)
LEMMA FlushPlaces ==
    ASSUME TypeOK, TypeOK', TasksInv, WriteInv, Commits \/ Discards
    PROVE  WriteInv'
<1>1. Effect  BY DEF Effect
<1>2. /\ pending' = <<>> /\ Range(pending)' = {} /\ IsInjective(pending)'
      /\ UNCHANGED issued /\ WriteId' = WriteId
  BY NoMuts DEF Commits, Commit, Discards, WriteId
<1>3. ApartInv' /\ Waiting' = Waiting
  <2>1. CASE Commits  BY <2>1, CarriedStays, WaitingStays DEF WriteInv
  <2>2. CASE Discards
    <3>1. ~ Throws  BY <2>2 DEF Discards, Flushes, Throws, At
    <3> QED BY <2>2, <3>1, CarriedShifts, WaitingShifts DEF WriteInv
  <2> QED BY <2>1, <2>2
<1>4. \/ /\ Range(state)' = Range(state) \cup Range(pending) /\ IsInjective(state)'
         /\ LostIds' = LostIds
      \/ /\ Range(state)' = Range(state) /\ IsInjective(state)'
         /\ LostIds' = LostIds \cup Range(pending)
  <2>1. CASE Commits
    <3>1. state' = state \o pending /\ UNCHANGED lost  BY <2>1 DEF Commits, Commit
    <3> QED BY <3>1, SeqTypes, ConcatRange DEF WriteInv, OnceInv, PlacesInv, LostIds
  <2>2. CASE Discards
    <3>1. UNCHANGED state /\ LostIds' = LostIds \cup Range(pending)
      BY <2>2, DiscardIds DEF Discards
    <3> QED BY <3>1 DEF WriteInv, OnceInv
  <2> QED BY <2>1, <2>2
<1>5. OnceInv'  BY <1>1, <1>2, <1>4, TasksOnce DEF OnceInv, WriteInv
<1>6. PlacesInv'  BY <1>2, <1>3, <1>4 DEF PlacesInv, WriteInv
<1> QED BY <1>3, <1>5, <1>6 DEF WriteInv

(* The task of an error ack applies its writes, or loses them.             *)
LEMMA ErrPlaces ==
    ASSUME TypeOK, TypeOK', TasksInv, WriteInv, Lands \/ Throws
    PROVE  WriteInv'
<1> DEFINE ms == queue[1].muts
<1>1. Effect /\ At("err") /\ UNCHANGED <<issued, pending>>  BY DEF Effect, Lands, Throws
<1>2. /\ WriteId' = WriteId /\ Range(pending)' = Range(pending)
      /\ IsInjective(pending)' <=> IsInjective(pending)
  BY <1>1 DEF WriteId
<1>3. 1 \in DOMAIN queue /\ ms \in Seq(Nat) /\ IsInjective(ms) /\ phase = "idle"
  BY <1>1, SeqTypes, HeadType DEF At, WriteInv, OnceInv
<1>4. Carried(1) = Range(ms)  BY <1>3 DEF Carried
<1> HIDE DEF ms
<1>5. ApartInv' /\ Waiting' = Waiting \ Range(ms)
  <2>1. CASE Lands  BY <1>4, <2>1, WaitingLands DEF WriteInv
  <2>2. CASE Throws  BY <1>4, <2>2, CarriedShifts, WaitingShifts DEF WriteInv
  <2> QED BY <2>1, <2>2
<1>6. Range(ms) \subseteq Waiting  BY <1>4, CarriedWaits
<1>7. \/ /\ Range(state)' = Range(state) \cup Range(ms) /\ IsInjective(state)'
         /\ LostIds' = LostIds
      \/ /\ Range(state)' = Range(state) /\ IsInjective(state)'
         /\ LostIds' = LostIds \cup Range(ms)
  <2>1. CASE Lands
    <3>1. state' = state \o ms /\ UNCHANGED lost  BY <2>1 DEF Lands, ms
    <3>2. Range(state) \cap Range(ms) = {}  BY <1>6 DEF WriteInv, PlacesInv
    <3> QED BY <1>3, <3>1, <3>2, SeqTypes, ConcatRange DEF WriteInv, OnceInv, LostIds
  <2>2. CASE Throws
    <3>1. UNCHANGED state /\ LostIds' = LostIds \cup Range(ms)
      BY <2>2, DiscardIds DEF Throws, ms
    <3> QED BY <3>1 DEF WriteInv, OnceInv
  <2> QED BY <2>1, <2>2
<1>8. OnceInv'  BY <1>1, <1>2, <1>7, TasksOnce DEF OnceInv, WriteInv
<1>9. PlacesInv'  BY <1>2, <1>5, <1>6, <1>7 DEF PlacesInv, WriteInv
<1> QED BY <1>5, <1>8, <1>9 DEF WriteInv

LEMMA ReactsPlaces ==
    ASSUME TypeOK, TypeOK', TasksInv, WriteInv, Reacts
    PROVE  WriteInv'
<1>1. Effect  BY DEF Effect
<1>2. state' = Append(state, NextWrite) /\ UNCHANGED <<pending, lost>>  BY DEF Reacts
<1>3. /\ Range(state)' = Range(state) \cup {NextWrite} /\ IsInjective(state)'
      /\ WriteId' = WriteId \cup {NextWrite}
  BY <1>2, SeqTypes, FreshWrite, AppendRange DEF WriteInv, OnceInv, Reacts
<1>4. ApartInv' /\ Waiting' = Waiting  BY CarriedStays, WaitingStays DEF WriteInv
<1>5. OnceInv'  BY <1>1, <1>2, <1>3, TasksOnce DEF OnceInv, WriteInv
<1>6. PlacesInv'  BY <1>2, <1>3, <1>4, FreshWrite DEF PlacesInv, WriteInv, LostIds
<1> QED BY <1>4, <1>5, <1>6 DEF WriteInv

LEMMA WriteStep == TypeOK /\ TypeOK' /\ TasksInv /\ WriteInv /\ Effect => WriteInv'
BY QuietPlaces, WritesPlaces, TakesPlaces, FlushPlaces, ErrPlaces, ReactsPlaces DEF Effect

LEMMA CommitStep == TypeOK /\ TypeOK' /\ CommitInv /\ Effect => CommitInv'
<1> SUFFICES ASSUME TypeOK, TypeOK', CommitInv, Effect, phase' = "commit"
             PROVE  queue' # <<>> /\ queue'[1].kind = "event"
  BY DEF CommitInv
<1>0. queue \in Seq(Task) /\ pending \in Seq(Nat) /\ Append(pending, NextWrite) \in Seq(Nat)
  BY DEF TypeOK, NextWrite
<1>1. CASE Commits  BY <1>1 DEF Commits, At
<1>2. CASE phase = "commit" /\ (queue' = queue \/ \E t \in Task : queue' = Append(queue, t))
  <2>1. queue # <<>> /\ queue[1].kind = "event"  BY <1>2 DEF CommitInv
  <2> QED BY <1>2, <2>1, GrowsHead DEF Grows
<1>3. CASE Waits  BY <1>2, <1>3 DEF Waits, Longer
<1>4. CASE Writes  BY <1>2, <1>4 DEF Writes, PatchState
<1>5. CASE Takes
  <2>1. PICK e \in Runs, ms \in {pending, Append(pending, NextWrite)} :
          /\ UNCHANGED queue \/ Enqueue([TaskOf("err", e) EXCEPT !.muts = ms])
          /\ UNCHANGED phase
    BY <1>5, Zenon DEF Takes
  <2>2. [TaskOf("err", e) EXCEPT !.muts = ms] \in Task  BY <1>0, TaskType
  <2> QED BY <1>2, <2>1, <2>2, Zenon DEF Enqueue
<1> QED BY <1>1, <1>3, <1>4, <1>5 DEF Effect, Ends, Discards, Pop, Lands, Throws, Reacts

(* What every proof below starts from.                                     *)
Core == TypeOK /\ CommitInv /\ TasksInv /\ WriteInv

LEMMA CoreInit == Init => Core
<1> SUFFICES ASSUME Init PROVE Core
  OBVIOUS
<1>1. TypeOK  BY TypeInit
<1>2. issued = <<>> /\ pending = <<>> /\ state = <<>> /\ queue = <<>> /\ lost = {}
      /\ phase = "idle"
  BY DEF Init
<1>3. DOMAIN queue = {}  BY <1>2
<1>4. CommitInv /\ TasksInv /\ ApartInv  BY <1>2, <1>3 DEF CommitInv, TasksInv, ApartInv
<1>5. OnceInv  BY <1>2, <1>3, NoMuts DEF OnceInv
<1>6. Waiting = {} /\ LostIds = {} /\ WriteId = {}  BY <1>2, <1>3 DEF Waiting, LostIds, WriteId
<1> QED BY <1>1, <1>2, <1>4, <1>5, <1>6, NoMuts DEF Core, WriteInv, PlacesInv

LEMMA CoreStep == Core /\ [Next]_vars => Core' /\ Effect
<1> SUFFICES ASSUME Core, [Next]_vars PROVE Core' /\ Effect
  OBVIOUS
<1>1. TypeOK' /\ Effect  BY TypeStep, StepEffect DEF Core
<1> QED BY <1>1, CommitStep, TasksStep, WriteStep DEF Core

LEMMA InjectiveCardinality ==
    ASSUME NEW s \in Seq(Nat), IsInjective(s)
    PROVE  IsFiniteSet(Range(s)) /\ Cardinality(Range(s)) = Len(s)
<1>1. Len(s) \in Nat /\ DOMAIN s = 1 .. Len(s) /\ s \in [1 .. Len(s) -> Range(s)]
  <2>1. s \in [1 .. Len(s) -> Nat] /\ Len(s) \in Nat  BY LenProperties
  <2> QED BY <2>1 DEF Range
<1>2. s \in Bijection(1 .. Len(s), Range(s))
  BY <1>1 DEF Bijection, Injection, Surjection, Range
<1>3. IsFiniteSet(1 .. Len(s)) /\ Cardinality(1 .. Len(s)) = Len(s)
  BY <1>1, FS_Interval
<1> QED BY <1>2, <1>3, FS_Bijection DEF ExistsBijection

LEMMA DisjointCardinality ==
    ASSUME NEW A, NEW B, IsFiniteSet(A), IsFiniteSet(B), A \cap B = {}
    PROVE  IsFiniteSet(A \cup B) /\ Cardinality(A \cup B) = Cardinality(A) + Cardinality(B)
<1>1. Cardinality(A) \in Nat /\ Cardinality(B) \in Nat  BY FS_CardinalityType
<1>2. Cardinality(A \cap B) = 0  BY FS_EmptySet
<1>3. /\ IsFiniteSet(A \cup B)
      /\ Cardinality(A \cup B) = Cardinality(A) + Cardinality(B) - Cardinality(A \cap B)
  BY FS_Union, Zenon
<1> QED BY <1>1, <1>2, <1>3

LEMMA CoreConserves == Core => WritesConserved
<1> SUFFICES ASSUME Core PROVE WritesConserved
  OBVIOUS
<1> DEFINE S == Range(state)
           P == Range(pending)
<1>1. /\ S \cap P = {} /\ (S \cup P) \cap Waiting = {} /\ (S \cup P \cup Waiting) \cap LostIds = {}
      /\ WriteId = S \cup P \cup Waiting \cup LostIds
  BY DEF Core, WriteInv, PlacesInv
<1>2. IsFiniteSet(WriteId)
  <2>1. Len(issued) \in Nat  BY SeqTypes DEF Core
  <2> QED BY <2>1, FS_Interval DEF WriteId
<1>3. IsFiniteSet(Waiting) /\ IsFiniteSet(LostIds)  BY <1>1, <1>2, FS_Subset
<1>4. /\ IsFiniteSet(S) /\ Cardinality(S) = Len(state)
      /\ IsFiniteSet(P) /\ Cardinality(P) = Len(pending)
  BY SeqTypes, InjectiveCardinality DEF Core, WriteInv, OnceInv
<1> HIDE DEF S, P
<1>5. IsFiniteSet(S \cup P) /\ Cardinality(S \cup P) = Len(state) + Len(pending)
  <2>1. Cardinality(S \cup P) = Cardinality(S) + Cardinality(P) /\ IsFiniteSet(S \cup P)
    BY <1>1, <1>4, DisjointCardinality, Zenon
  <2> QED BY <1>4, <2>1
<1>6. /\ IsFiniteSet(S \cup P \cup Waiting)
      /\ Cardinality(S \cup P \cup Waiting) = Len(state) + Len(pending) + Cardinality(Waiting)
  <2>1. /\ IsFiniteSet(S \cup P \cup Waiting)
        /\ Cardinality(S \cup P \cup Waiting) = Cardinality(S \cup P) + Cardinality(Waiting)
    BY <1>1, <1>3, <1>5, DisjointCardinality, Zenon
  <2> QED BY <1>5, <2>1
<1>7. Cardinality(WriteId) = Len(state) + Len(pending) + Cardinality(Waiting)
                               + Cardinality(LostIds)
  <2>1. Cardinality(WriteId) = Cardinality(S \cup P \cup Waiting) + Cardinality(LostIds)
    BY <1>1, <1>3, <1>6, DisjointCardinality, Zenon
  <2> QED BY <1>6, <2>1
<1> QED BY <1>1, <1>7 DEF WritesConserved, S, P

(* No write is lost or applied twice, whatever tasks, error acks and       *)
(* reactions contend for the pending list and however many there are:      *)
(* #pendingMuts is emptied by whoever takes it (splice), and what a task   *)
(* took reaches the state or is discarded with it, once.                   *)
THEOREM WritesCorrect == Spec => []WritesConserved
<1>1. Init => Core  BY CoreInit
<1>2. Core /\ [Next]_vars => Core'  BY CoreStep
<1>3. Core => WritesConserved  BY CoreConserves
<1> QED BY <1>1, <1>2, <1>3, PTL DEF Spec

-----------------------------------------------------------------------------
(* FlushArmed *)

(* A chunk task that has not started.                                      *)
Coming == \E i \in DOMAIN queue : queue[i].kind = "chunk" /\ (i > 1 \/ phase = "idle")

LEMMA ArmedSource ==
    ASSUME TypeOK, [Next]_vars
    PROVE  /\ life' = "up" => life = "up"
           /\ timer => timer' \/ FlushTimer
           /\ Writes => timer' \/ UNCHANGED pending
<1>1. ASSUME NEW e \in Runs, NEW r, Refuse(e, r) \/ Reack(e, r) \/ Deliver(e, r)
      PROVE  UNCHANGED <<life, timer>>
  BY <1>1, Zenon DEF Refuse, Reack, Deliver, AckError
<1>2. ASSUME NEW e \in Runs, HandlerStep(e) \/ Broadcast(e)
      PROVE  UNCHANGED <<life, timer>>
  BY <1>2, Zenon DEF HandlerStep, Prepared, Return, Fail, AckError, Broadcast
<1>3. ASSUME NEW e \in Runs, PatchState(e) PROVE UNCHANGED life /\ timer' = TRUE
  BY <1>3, Zenon DEF PatchState
<1>4. ASSUME TaskStep PROVE UNCHANGED <<life, timer>>
  <2>1. CASE Chunk \/ Final \/ Err \/ Event \/ Publish
    BY <2>1, Zenon DEF Chunk, Final, Err, Event, Publish
  <2>2. CASE EventCommitted \/ TaskDone \/ Finally
    BY <2>2, Zenon DEF EventCommitted, TaskDone, Finally
  <2> QED BY <1>4, <2>1, <2>2 DEF TaskStep
<1>5. ASSUME Resync \/ BusMessage \/ UNCHANGED vars PROVE UNCHANGED <<life, timer>>
  BY <1>5, Zenon DEF Resync, BusMessage, vars
<1>6. ASSUME NEW l \in Listeners, Render(l) \/ Attach(l) \/ Detach(l)
      PROVE  UNCHANGED <<life, timer>>
  BY <1>6, Zenon DEF Render, Attach, Detach
<1>7. ASSUME Dispose \/ Drained \/ Closed PROVE UNCHANGED timer /\ life' # "up"
  BY <1>7 DEF Dispose, Drained, Closed
<1>8. ASSUME FlushTimer PROVE UNCHANGED life  BY <1>8 DEF FlushTimer
<1>9. Writes => timer'  BY <1>3 DEF Writes
<1>10. (UNCHANGED life \/ life' # "up") /\ (UNCHANGED timer \/ timer' = TRUE \/ FlushTimer)
  BY <1>1, <1>2, <1>3, <1>4, <1>5, <1>6, <1>7, <1>8 DEF Next
<1>11. life' = "up" => life = "up"  BY <1>10
<1>12. ASSUME timer PROVE timer' \/ FlushTimer
  <2>1. CASE timer' = timer  BY <1>12, <2>1
  <2>2. CASE timer' = TRUE  BY <2>2
  <2> QED BY <1>10, <2>1, <2>2
<1> QED BY <1>9, <1>11, <1>12

LEMMA ComingStays ==
    ASSUME TypeOK, TypeOK', Effect, life = "up", pending' # <<>>, Coming
    PROVE  Coming'
<1>1. PICK i \in DOMAIN queue : queue[i].kind = "chunk" /\ (i > 1 \/ phase = "idle")
  BY DEF Coming
<1>2. /\ queue \in Seq(Task) /\ Len(queue) \in Nat \ {0} /\ DOMAIN queue = 1 .. Len(queue)
      /\ queue # <<>> /\ i \in Nat \ {0}
  BY <1>1, SeqTypes
<1>3. ASSUME Longer(queue), phase' = phase \/ queue[1].kind # "chunk" \/ i > 1
      PROVE  Coming'
  <2>1. i \in DOMAIN queue' /\ queue'[i] = queue[i]  BY <1>2, <1>3, LongerShape
  <2>2. i > 1 \/ phase' = "idle"
    <3>1. CASE i = 1  BY <1>1, <1>3, <3>1
    <3>2. CASE i # 1  BY <1>2, <3>2
    <3> QED BY <3>1, <3>2
  <2> QED BY <1>1, <2>1, <2>2 DEF Coming
<1>4. ASSUME Longer(Tail(queue)), i > 1, phase' = "idle"
      PROVE  Coming'
  <2>1. PICK j \in Nat \ {0} : j = i - 1  BY <1>2, <1>4
  <2> DEFINE q == Tail(queue)
  <2>2. q \in Seq(Task) /\ j \in 1 .. Len(q) /\ q[j] = queue[i] /\ Longer(q)
    BY <1>2, <1>4, <2>1, TailShape
  <2> HIDE DEF q
  <2>3. j \in DOMAIN queue' /\ queue'[j] = queue[i]  BY <2>2, LongerShape
  <2> QED BY <1>1, <1>4, <2>3 DEF Coming
<1>5. CASE Waits
  <2>1. Longer(queue) /\ (phase' = phase \/ queue[1].kind # "chunk")  BY <1>5 DEF Waits, At
  <2> QED BY <1>3, <2>1
<1>6. CASE Ends
  <2>1. i # 1
    <3> SUFFICES ASSUME i = 1 PROVE FALSE
      OBVIOUS
    <3>1. At("chunk")  BY <1>1, <1>2 DEF At
    <3> QED BY <1>6, <3>1 DEF Ends
  <2>2. i > 1  BY <1>2, <2>1
  <2> QED BY <1>4, <1>6, <2>2 DEF Ends
<1>7. CASE Writes
  <2>1. UNCHANGED <<queue, phase>>  BY <1>7 DEF Writes, PatchState
  <2> QED BY <2>1 DEF Coming
<1>8. CASE Lands \/ Throws
  <2>1. queue[1].kind # "chunk"  BY <1>8 DEF Lands, Throws, At
  <2>2. i > 1
    <3>1. i # 1  BY <1>1, <2>1
    <3> QED BY <1>2, <3>1
  <2> QED BY <1>3, <1>4, <1>8, <2>2 DEF Lands, Throws
<1>9. CASE Reacts
  <2>1. queue[1].kind # "chunk" /\ Longer(queue)  BY <1>9 DEF Reacts
  <2> QED BY <1>3, <2>1
<1> QED BY <1>5, <1>6, <1>7, <1>8, <1>9 DEF Effect, Takes, Commits, Commit, Discards

LEMMA ArmedStep == Core /\ FlushArmed /\ [Next]_vars => FlushArmed'
<1> SUFFICES ASSUME Core, FlushArmed, [Next]_vars, pending' # <<>>, life' = "up"
             PROVE  timer' \/ Coming'
  BY DEF FlushArmed, Coming
<1>1. TypeOK /\ TypeOK' /\ Effect  BY CoreStep DEF Core
<1>2. life = "up" /\ (timer => timer' \/ FlushTimer) /\ (Writes => timer' \/ UNCHANGED pending)
  BY <1>1, ArmedSource
<1>3. Writes \/ UNCHANGED pending
  BY <1>1 DEF Effect, Waits, Ends, Takes, Commits, Commit, Discards, Lands, Throws, Reacts
<1>4. CASE UNCHANGED pending
  <2>1. timer \/ Coming  BY <1>2, <1>4 DEF FlushArmed, Coming
  <2>2. CASE Coming  BY <1>1, <1>2, <2>2, ComingStays
  <2>3. CASE FlushTimer
    <3>1. TaskOf("chunk", NoRun) \in Task /\ TaskOf("chunk", NoRun).kind = "chunk"
      BY TaskType DEF TaskOf
    <3>2. queue' = Append(queue, TaskOf("chunk", NoRun)) /\ phase' = phase
      BY <2>3 DEF FlushTimer, Enqueue
    <3>3. PICK n \in Nat \ {0} : n = Len(queue) + 1  BY <1>1, SeqTypes
    <3>4. n \in DOMAIN queue' /\ queue'[n].kind = "chunk"
      BY <1>1, <3>1, <3>2, <3>3, SeqTypes, AppendShape
    <3>5. n > 1 \/ phase' = "idle"
      <4>1. CASE queue = <<>>  BY <1>1, <3>2, <4>1 DEF TypeOK
      <4>2. CASE queue # <<>>  BY <1>1, <3>3, <4>2, SeqTypes
      <4> QED BY <4>1, <4>2
    <3> QED BY <3>4, <3>5 DEF Coming
  <2> QED BY <1>2, <2>1, <2>2, <2>3
<1> QED BY <1>2, <1>3, <1>4

(* A live instance never sits on pending writes with nothing to flush      *)
(* them: a timer is armed or a chunk task is still to start, however       *)
(* timers, flushes and final acks interleave (#queueMut, #flushScheduled). *)
THEOREM ArmedCorrect == Spec => []FlushArmed
<1>1. Init => Core /\ FlushArmed
  <2>1. Init => FlushArmed  BY DEF Init, FlushArmed
  <2> QED BY <2>1, CoreInit
<1>2. Core /\ FlushArmed /\ [Next]_vars => Core' /\ FlushArmed'  BY CoreStep, ArmedStep
<1> QED BY <1>1, <1>2, PTL DEF Spec

-----------------------------------------------------------------------------
(* SnapshotFaithful *)

LEMMA StoredSource ==
    ASSUME [Next]_vars
    PROVE  row' \in {row, saving, closing} /\ closing' \in {closing, state}
<1>1. ASSUME NEW e \in Runs, NEW r, Refuse(e, r) \/ Reack(e, r) \/ Deliver(e, r)
      PROVE  UNCHANGED <<row, closing>>
  BY <1>1, Zenon DEF Refuse, Reack, Deliver, AckError
<1>2. ASSUME NEW e \in Runs, HandlerStep(e) \/ PatchState(e) \/ Broadcast(e)
      PROVE  UNCHANGED <<row, closing>>
  BY <1>2, Zenon DEF HandlerStep, Prepared, Return, Fail, AckError, PatchState, Broadcast
<1>3. CASE TaskStep
  <2>1. CASE Chunk \/ Final \/ Err \/ Event \/ Publish
    BY <2>1, Zenon DEF Chunk, Final, Err, Event, Publish
  <2>2. CASE EventCommitted \/ TaskDone \/ Finally
    BY <2>2, Zenon DEF EventCommitted, TaskDone, Stored, Finally
  <2> QED BY <1>3, <2>1, <2>2 DEF TaskStep
<1>4. CASE FlushTimer \/ Resync \/ BusMessage \/ Dispose \/ UNCHANGED vars
  BY <1>4, Zenon DEF FlushTimer, Resync, BusMessage, Dispose, vars
<1>5. ASSUME NEW l \in Listeners, Render(l) \/ Attach(l) \/ Detach(l)
      PROVE  UNCHANGED <<row, closing>>
  BY <1>5, Zenon DEF Render, Attach, Detach
<1>6. CASE Drained \/ Closed  BY <1>6, Zenon DEF Drained, Closed
<1> QED BY <1>1, <1>2, <1>3, <1>4, <1>5, <1>6, Zenon DEF Next

(* The state only grows at its end, and storage gets what it became.       *)
LEMMA StateGrows ==
    ASSUME TypeOK, TypeOK', Effect
    PROVE  /\ state \in Seq(Nat) /\ state' \in Seq(Nat) /\ Len(state) <= Len(state')
           /\ \A i \in 1 .. Len(state) : state'[i] = state[i]
           /\ (saving' = saving /\ state' = state) \/ saving' = state'
<1>0. state \in Seq(Nat) /\ state' \in Seq(Nat) /\ pending \in Seq(Nat)  BY DEF TypeOK
<1>1. ASSUME NEW ms \in Seq(Nat), state' = state \o ms
      PROVE  Len(state) <= Len(state') /\ \A i \in 1 .. Len(state) : state'[i] = state[i]
  BY <1>0, <1>1, ConcatProperties, LenProperties
<1>2. CASE Commits  BY <1>0, <1>1, <1>2 DEF Commits, Commit
<1>3. CASE Lands
  <2>1. queue[1].muts \in Seq(Nat)  BY <1>3, HeadType DEF Lands, At
  <2>2. state' = state \o queue[1].muts /\ saving' = state'  BY <1>3 DEF Lands
  <2> QED BY <1>0, <1>1, <2>1, <2>2
<1>4. CASE Reacts
  <2>1. NextWrite \in Nat  BY SeqTypes DEF NextWrite
  <2>2. state' = Append(state, NextWrite) /\ saving' = state'  BY <1>4 DEF Reacts
  <2>3. Len(state') = Len(state) + 1 /\ \A i \in 1 .. Len(state) : state'[i] = state[i]
    BY <1>0, <2>1, <2>2, AppendProperties
  <2>4. Len(state) \in Nat  BY SeqTypes
  <2> QED BY <1>0, <2>2, <2>3, <2>4
<1>5. CASE UNCHANGED <<state, saving>>
  <2>1. Len(state) \in Nat  BY SeqTypes
  <2> QED BY <1>0, <1>5, <2>1
<1> QED BY <1>2, <1>3, <1>4, <1>5
        DEF Effect, Waits, Ends, Writes, PatchState, Takes, Discards, Throws

LEMMA PrefixGrows ==
    ASSUME NEW s \in Seq(Nat), NEW t \in Seq(Nat), NEW u \in Seq(Nat),
           Len(s) <= Len(t), s = SubSeq(t, 1, Len(s)),
           Len(t) <= Len(u), \A i \in 1 .. Len(t) : u[i] = t[i]
    PROVE  Len(s) <= Len(u) /\ s = SubSeq(u, 1, Len(s))
<1>0. Len(s) \in Nat /\ Len(t) \in Nat /\ Len(u) \in Nat  OBVIOUS
<1>1. \A i \in 1 .. Len(s) : t[i] \in Nat /\ u[i] \in Nat  BY <1>0, ElementOfSeq
<1>2. \A i \in 1 .. Len(s) : s[i] = t[i]  BY <1>0, <1>1, SubSeqProperties
<1>3. /\ SubSeq(u, 1, Len(s)) \in Seq(Nat) /\ Len(SubSeq(u, 1, Len(s))) = Len(s)
      /\ \A i \in 1 .. Len(s) : SubSeq(u, 1, Len(s))[i] = u[i]
  BY <1>0, <1>1, SubSeqProperties
<1>a. ASSUME NEW i \in 1 .. Len(s) PROVE u[i] = t[i]
  <2>1. i \in 1 .. Len(t)  BY <1>0
  <2> QED BY <2>1, Zenon
<1>4. \A i \in 1 .. Len(s) : SubSeq(u, 1, Len(s))[i] = s[i]
  BY <1>a, <1>2, <1>3
<1>5. s = SubSeq(u, 1, Len(s))  BY <1>3, <1>4, SeqEqual
<1> QED BY <1>0, <1>5

LEMMA StoredStep == Core /\ StoredInv /\ [Next]_vars => StoredInv'
<1> SUFFICES ASSUME Core, StoredInv, [Next]_vars PROVE StoredInv'
  OBVIOUS
<1>1. TypeOK /\ TypeOK' /\ Effect  BY CoreStep DEF Core
<1>2. saving' = state'  BY <1>1, StateGrows DEF StoredInv
<1>3. row \in Seq(Nat) /\ closing \in Seq(Nat) /\ state \in Seq(Nat) /\ Len(state) \in Nat
  BY <1>1 DEF TypeOK
<1>4. \A s \in {row, saving, closing, state} : s \in Seq(Nat) /\ PrefixOf(s)
  <2>1. PrefixOf(state)  BY <1>3, SubSeqFull DEF PrefixOf
  <2> QED BY <1>3, <2>1 DEF StoredInv
<1>5. \A s \in {row, saving, closing, state} :
         Len(s) <= Len(state') /\ s = SubSeq(state', 1, Len(s))
  BY <1>1, <1>4, StateGrows, PrefixGrows DEF PrefixOf
<1>6. row' \in {row, saving, closing} /\ closing' \in {closing, state}  BY StoredSource
<1>7. Len(row') <= Len(state') /\ row' = SubSeq(state', 1, Len(row'))  BY <1>5, <1>6
<1>8. Len(closing') <= Len(state') /\ closing' = SubSeq(state', 1, Len(closing'))
  BY <1>5, <1>6
<1> QED BY <1>2, <1>7, <1>8 DEF StoredInv, PrefixOf

(* Whatever storage writes fail or come late, the stored row is a state    *)
(* the instance went through, and no flush path ends without having handed *)
(* its result over (#writeThrough, and dispose's last write).              *)
THEOREM SnapshotCorrect == Spec => []SnapshotFaithful
<1>1. Init => Core /\ StoredInv
  <2> SUFFICES ASSUME Init PROVE StoredInv
    BY CoreInit
  <2>1. state = <<>> /\ saving = <<>> /\ row = <<>> /\ closing = <<>>  BY DEF Init
  <2>2. <<>> = SubSeq(<<>>, 1, Len(<<>>)) /\ Len(<<>>) <= Len(<<>>)  OBVIOUS
  <2> QED BY <2>1, <2>2 DEF StoredInv, PrefixOf
<1>2. Core /\ StoredInv /\ [Next]_vars => Core' /\ StoredInv'  BY CoreStep, StoredStep
<1>3. Core /\ StoredInv => SnapshotFaithful  BY DEF StoredInv, PrefixOf, SnapshotFaithful
<1> QED BY <1>1, <1>2, <1>3, PTL DEF Spec

-----------------------------------------------------------------------------
(* PatchOrderButEarly *)

LEMMA TakesFacts ==
    ASSUME TypeOK, PlacesInv, Takes
    PROVE  \E e \in Runs, ms \in Seq(Nat) :
              /\ \/ /\ Range(ms) = Range(pending) \cup {NextWrite}
                    /\ Issue(AuthorOf("onError", e))
                 \/ Range(ms) = Range(pending) /\ UNCHANGED issued
              /\ pending' = <<>> /\ early' = early \cup Range(ms)
              /\ IF ms = <<>> THEN UNCHANGED queue
                 ELSE Enqueue([TaskOf("err", e) EXCEPT !.muts = ms])
              /\ UNCHANGED <<phase, state, saving, lost>>
<1>1. PICK e \in Runs, repair \in BOOLEAN :
        LET taken == IF repair THEN Append(pending, NextWrite) ELSE pending IN
        /\ IF repair THEN Issue(AuthorOf("onError", e)) ELSE UNCHANGED issued
        /\ pending' = <<>>
        /\ early' = early \cup Range(taken)
        /\ IF taken = <<>> THEN UNCHANGED queue
           ELSE Enqueue([TaskOf("err", e) EXCEPT !.muts = taken])
        /\ UNCHANGED <<phase, state, saving, lost>>
  BY Zenon DEF Takes
<1>2. CASE repair
  <2>1. /\ Append(pending, NextWrite) \in Seq(Nat)
        /\ Range(Append(pending, NextWrite)) = Range(pending) \cup {NextWrite}
    BY SeqTypes, FreshWrite, AppendRange
  <2> QED BY <1>1, <1>2, <2>1
<1>3. CASE ~ repair  BY <1>1, <1>3, SeqTypes
<1> QED BY <1>2, <1>3

(* What waits in error acks' tasks after a step.                           *)
LEMMA WaitingSource ==
    ASSUME TypeOK, TypeOK', TasksInv, WriteInv, Effect
    PROVE  /\ early \subseteq early' /\ LostIds \subseteq LostIds'
           /\ Takes => /\ pending' = <<>>
                       /\ \A m \in Waiting' \ Waiting :
                             /\ m \in early'
                             /\ m \in Range(pending) \/ issued'[m].kind = "onError"
           /\ ~ Takes => UNCHANGED early /\ Waiting' \subseteq Waiting
<1>1. CASE Waits \/ Commits \/ Reacts
  BY <1>1, CarriedStays, WaitingStays DEF WriteInv, Waits, Commits, Commit, Reacts, Takes, LostIds
<1>2. CASE Ends \/ Discards \/ Throws
  <2>1. Waiting' \subseteq Waiting  BY <1>2, CarriedShifts, WaitingShifts DEF WriteInv
  <2>2. LostIds \subseteq LostIds'
    <3>1. CASE Ends  BY <3>1 DEF Ends, LostIds
    <3>2. CASE Discards \/ Throws  BY <3>2, DiscardIds DEF Discards, Throws
    <3> QED BY <1>2, <3>1, <3>2
  <2>3. UNCHANGED early  BY <1>2 DEF Ends, Discards, Throws
  <2> QED BY <2>1, <2>2, <2>3 DEF Takes
<1>3. CASE Writes
  <2>1. UNCHANGED <<queue, phase, early, lost>>  BY <1>3 DEF Writes, PatchState
  <2>2. Waiting' = Waiting /\ LostIds' = LostIds  BY <2>1 DEF Waiting, LostIds
  <2> QED BY <2>1, <2>2 DEF Takes
<1>4. CASE Lands
  <2>1. Waiting' \subseteq Waiting  BY <1>4, WaitingLands DEF WriteInv
  <2> QED BY <1>4, <2>1 DEF Lands, Takes, LostIds
<1>5. CASE Takes
  <2>1. PICK e \in Runs, ms \in Seq(Nat) :
          /\ \/ /\ Range(ms) = Range(pending) \cup {NextWrite}
                /\ Issue(AuthorOf("onError", e))
             \/ Range(ms) = Range(pending) /\ UNCHANGED issued
          /\ pending' = <<>> /\ early' = early \cup Range(ms)
          /\ IF ms = <<>> THEN UNCHANGED queue
             ELSE Enqueue([TaskOf("err", e) EXCEPT !.muts = ms])
          /\ UNCHANGED <<phase, state, saving, lost>>
    BY <1>5, TakesFacts, Zenon DEF WriteInv
  <2>2. Range(ms) \cap Waiting = {}  BY <2>1, FreshWrite DEF WriteInv, PlacesInv
  <2>3. UNCHANGED phase /\ IF ms = <<>> THEN UNCHANGED queue
                           ELSE Enqueue([TaskOf("err", e) EXCEPT !.muts = ms])
    BY <2>1
  <2>4. Waiting' = Waiting \cup Range(ms)  BY <2>2, <2>3, WaitingTakes DEF WriteInv
  <2>5. ASSUME Issue(AuthorOf("onError", e)) PROVE issued'[NextWrite].kind = "onError"
    <3>1. issued' = Append(issued, AuthorOf("onError", e)) /\ issued \in Seq(Author)
          /\ AuthorOf("onError", e) \in Author /\ AuthorOf("onError", e).kind = "onError"
      BY <2>5, SeqTypes, AuthorType DEF Issue, AuthorOf
    <3> QED BY <3>1, AppendProperties DEF NextWrite
  <2>6. LostIds' = LostIds  BY <2>1 DEF LostIds
  <2> QED BY <1>5, <2>1, <2>4, <2>5, <2>6
<1> QED BY <1>1, <1>2, <1>3, <1>4, <1>5 DEF Effect

LEMMA PendingIds ==
    ASSUME Core
    PROVE  /\ Range(state) \subseteq WriteId /\ Range(pending) \subseteq WriteId
           /\ Waiting \subseteq WriteId
           /\ WriteId \subseteq Nat /\ \A m \in WriteId : m < NextWrite
<1>1. Len(issued) \in Nat  BY SeqTypes DEF Core
<1> QED BY <1>1 DEF Core, WriteInv, PlacesInv, WriteId, NextWrite

LEMMA OrderInit == Init => OrderInv
<1> SUFFICES ASSUME Init PROVE OrderInv
  OBVIOUS
<1>1. pending = <<>> /\ queue = <<>>  BY DEF Init
<1>2. DOMAIN pending = {} /\ DOMAIN queue = {} /\ Range(pending) = {}  BY <1>1, NoMuts
<1>3. Waiting = {}  BY <1>2 DEF Waiting
<1> QED BY <1>2, <1>3 DEF OrderInv

LEMMA OrderStep == Core /\ OrderInv /\ [Next]_vars => OrderInv'
<1> SUFFICES ASSUME Core, OrderInv, [Next]_vars PROVE OrderInv'
  OBVIOUS
<1>0. TypeOK /\ TypeOK' /\ Effect /\ TasksInv /\ WriteInv  BY CoreStep DEF Core
<1>1. \A m \in WriteId : m \in WriteId' /\ issued'[m] = issued[m]  BY <1>0, IssuedGrows
<1>2. \A m \in Waiting' : m \in early' /\ issued'[m].kind # "event"
  <2> SUFFICES ASSUME NEW m \in Waiting' PROVE m \in early' /\ issued'[m].kind # "event"
    OBVIOUS
  <2>1. CASE m \in Waiting
    BY <1>0, <1>1, <2>1, PendingIds, WaitingSource DEF OrderInv
  <2>2. CASE m \notin Waiting
    <3>1. m \in early' /\ (m \in Range(pending) \/ issued'[m].kind = "onError")
      BY <1>0, <2>2, WaitingSource
    <3>2. m \in Range(pending) => issued'[m].kind = "patch"
      BY <1>1, PendingIds DEF OrderInv, IsPatch
    <3> QED BY <3>1, <3>2
  <2> QED BY <2>1, <2>2
<1>3. CASE pending' = <<>>
  <2>1. Range(pending') = {} /\ DOMAIN pending' = {}  BY <1>3, NoMuts
  <2> QED BY <1>2, <2>1 DEF OrderInv
<1>4. CASE Writes
  <2>1. PICK e \in Runs : PatchState(e)  BY <1>4 DEF Writes
  <2>2. /\ pending \in Seq(Nat) /\ NextWrite \in Nat /\ pending' = Append(pending, NextWrite)
        /\ WriteId' = WriteId \cup {NextWrite}
    BY <1>0, <2>1, SeqTypes, FreshWrite DEF PatchState, WriteInv
  <2>3. issued'[NextWrite].kind = "patch"
    <3>1. issued' = Append(issued, AuthorOf("patch", e)) /\ issued \in Seq(Author)
          /\ AuthorOf("patch", e) \in Author /\ AuthorOf("patch", e).kind = "patch"
      BY <1>0, <2>1, SeqTypes, AuthorType DEF PatchState, Issue, AuthorOf
    <3> QED BY <3>1, AppendProperties DEF NextWrite
  <2>4. Range(pending') = Range(pending) \cup {NextWrite}  BY <2>2, AppendRange
  <2>5. \A i, j \in DOMAIN pending' : i < j => pending'[i] < pending'[j]
    <3>1. /\ Len(pending) \in Nat /\ DOMAIN pending = 1 .. Len(pending)
          /\ DOMAIN pending' = 1 .. Len(pending) + 1
          /\ \A i \in 1 .. Len(pending) : pending'[i] = pending[i]
          /\ pending'[Len(pending) + 1] = NextWrite
      BY <2>2, AppendProperties, LenProperties
    <3>2. \A i \in 1 .. Len(pending) : pending[i] < NextWrite  BY <3>1, PendingIds DEF Range
    <3> QED BY <3>1, <3>2 DEF OrderInv
  <2>6. \A p \in Range(pending') : issued'[p].kind = "patch"
    BY <1>1, <2>3, <2>4, PendingIds DEF OrderInv, IsPatch
  <2>7. ASSUME NEW p \in Range(pending'), NEW m \in WriteId', issued'[m].kind = "patch", m > p
        PROVE  m \in Range(pending')
    <3>1. CASE m = NextWrite  BY <2>4, <3>1
    <3>2. CASE m \in WriteId
      <4>1. p # NextWrite  BY <2>2, <2>7, <3>2, PendingIds
      <4> QED BY <1>1, <2>4, <2>7, <3>2, <4>1 DEF OrderInv, IsPatch
    <3> QED BY <2>2, <3>1, <3>2
  <2> QED BY <1>2, <2>5, <2>6, <2>7 DEF OrderInv, IsPatch
<1>5. CASE UNCHANGED <<pending, issued>>
  BY <1>2, <1>5 DEF OrderInv, IsPatch, WriteId
<1>6. CASE Reacts
  <2>1. UNCHANGED pending /\ WriteId' = WriteId \cup {NextWrite}
    BY <1>0, <1>6, FreshWrite DEF Reacts, WriteInv
  <2>2. issued'[NextWrite].kind = "event"
    <3> DEFINE a == [AuthorOf("event", queue[1].run) EXCEPT !.upto = queue[1].upto]
    <3>1. a \in Author  BY <1>0, <1>6, HeadType, AuthorType DEF Reacts
    <3>2. a.kind = "event"  BY DEF AuthorOf
    <3>3. issued' = Append(issued, a)  BY <1>6 DEF Reacts, Issue
    <3> HIDE DEF a
    <3>4. issued \in Seq(Author)  BY <1>0, SeqTypes
    <3> QED BY <3>1, <3>2, <3>3, <3>4, AppendProperties DEF NextWrite
  <2>3. \A p \in Range(pending') : issued'[p].kind = "patch"
    BY <1>1, <2>1, PendingIds DEF OrderInv, IsPatch
  <2>4. ASSUME NEW p \in Range(pending'), NEW m \in WriteId', issued'[m].kind = "patch", m > p
        PROVE  m \in Range(pending')
    BY <1>1, <2>1, <2>2, <2>4 DEF OrderInv, IsPatch
  <2> QED BY <1>2, <2>1, <2>3, <2>4 DEF OrderInv, IsPatch
<1> QED BY <1>0, <1>3, <1>4, <1>5, <1>6
        DEF Effect, Waits, Ends, Takes, Commits, Commit, Discards, Lands, Throws

(* Where the writes a step adds to the state come from.                    *)
LEMMA StateSource ==
    ASSUME TypeOK, Effect, NEW j \in DOMAIN state', ~ (j \in DOMAIN state)
    PROVE  \/ /\ Commits /\ DOMAIN state = 1 .. Len(state)
              /\ j - Len(state) \in DOMAIN pending /\ state'[j] = pending[j - Len(state)]
           \/ Lands /\ state'[j] \in Range(queue[1].muts)
           \/ Reacts /\ j = Len(state) + 1 /\ state'[j] = NextWrite
<1>0. /\ state \in Seq(Nat) /\ pending \in Seq(Nat) /\ NextWrite \in Nat
      /\ Len(state) \in Nat /\ DOMAIN state = 1 .. Len(state)
  BY SeqTypes, LenProperties DEF NextWrite
<1>1. ASSUME NEW ms \in Seq(Nat), state' = state \o ms
      PROVE  j - Len(state) \in DOMAIN ms /\ state'[j] = ms[j - Len(state)]
  <2>1. /\ Len(ms) \in Nat /\ DOMAIN ms = 1 .. Len(ms) /\ DOMAIN state' = 1 .. Len(state) + Len(ms)
        /\ \A i \in 1 .. Len(state) + Len(ms) :
              state'[i] = IF i <= Len(state) THEN state[i] ELSE ms[i - Len(state)]
    BY <1>0, <1>1, ConcatProperties, LenProperties
  <2> QED BY <1>0, <2>1
<1>2. CASE Commits
  <2>1. state' = state \o pending  BY <1>2 DEF Commits, Commit
  <2> QED BY <1>0, <1>1, <1>2, <2>1
<1>3. CASE Lands
  <2>1. state' = state \o queue[1].muts /\ queue[1].muts \in Seq(Nat)
    BY <1>3, HeadType DEF Lands, At
  <2> QED BY <1>1, <1>3, <2>1 DEF Range
<1>4. CASE Reacts
  <2>1. state' = Append(state, NextWrite)  BY <1>4 DEF Reacts
  <2>2. DOMAIN state' = 1 .. Len(state) + 1 /\ state'[Len(state) + 1] = NextWrite
    BY <1>0, <2>1, AppendProperties, LenProperties
  <2> QED BY <1>0, <1>4, <2>2
<1> QED BY <1>2, <1>3, <1>4 DEF Effect, Waits, Ends, Writes, PatchState, Takes, Discards, Throws

LEMMA LandedHeld ==
    ASSUME TypeOK, At("err")
    PROVE  Range(queue[1].muts) \subseteq Waiting
<1>1. 1 \in DOMAIN queue /\ phase = "idle"  BY SeqTypes DEF At
<1>2. Carried(1) = Range(queue[1].muts)  BY <1>1 DEF Carried
<1> QED BY <1>2, CarriedWaits

LEMMA PatchOrderStep ==
    Core /\ OrderInv /\ PatchOrderButEarly /\ [Next]_vars => PatchOrderButEarly'
<1> SUFFICES ASSUME Core, OrderInv, PatchOrderButEarly, [Next]_vars,
                    NEW i \in DOMAIN state', NEW j \in DOMAIN state', i < j,
                    issued'[state'[i]].kind = "patch", issued'[state'[j]].kind = "patch",
                    state'[i] > state'[j]
             PROVE  state'[j] \in early'
  BY DEF PatchOrderButEarly, IsPatch
<1>0. TypeOK /\ TypeOK' /\ Effect /\ TasksInv /\ WriteInv  BY CoreStep DEF Core
<1>1. \A m \in WriteId : m \in WriteId' /\ issued'[m] = issued[m]  BY <1>0, IssuedGrows
<1>2. /\ Len(state) \in Nat /\ Len(state') \in Nat
      /\ DOMAIN state = 1 .. Len(state) /\ DOMAIN state' = 1 .. Len(state')
      /\ \A k \in 1 .. Len(state) : state'[k] = state[k]
  BY <1>0, StateGrows, LenProperties
<1>3. ASSUME NEW k \in DOMAIN state
      PROVE  state'[k] = state[k] /\ state[k] \in WriteId /\ state[k] \in Range(state)
             /\ issued'[state[k]] = issued[state[k]]
  BY <1>1, <1>2, PendingIds DEF Range
<1>4. CASE j \in DOMAIN state
  <2>1. i \in DOMAIN state  BY <1>2, <1>4
  <2>2. state[j] \in early  BY <1>3, <1>4, <2>1 DEF PatchOrderButEarly, IsPatch
  <2> QED BY <1>0, <1>3, <1>4, <2>2, WaitingSource
<1>5. CASE ~ (j \in DOMAIN state)
  <2>1. CASE Lands /\ state'[j] \in Range(queue[1].muts)
    <3>1. state'[j] \in Waiting  BY <1>0, <2>1, LandedHeld DEF Lands
    <3> QED BY <2>1, <3>1 DEF OrderInv, Lands
  <2>2. CASE Reacts /\ j = Len(state) + 1 /\ state'[j] = NextWrite
    <3>1. i \in DOMAIN state  BY <1>2, <2>2
    <3>2. state'[i] < NextWrite  BY <1>3, <3>1, PendingIds
    <3>3. state'[i] \in Nat /\ NextWrite \in Nat  BY <1>0, <1>3, <3>1, PendingIds, FreshWrite DEF WriteInv
    <3> QED BY <2>2, <3>2, <3>3
  <2>3. CASE Commits /\ j - Len(state) \in DOMAIN pending /\ state'[j] = pending[j - Len(state)]
    <3>1. state'[j] \in Range(pending)  BY <2>3 DEF Range
    <3>2. CASE i \in DOMAIN state
      <4>1. state[i] \in Range(pending)  BY <1>3, <3>1, <3>2 DEF OrderInv, IsPatch
      <4> QED BY <1>0, <1>3, <3>2, <4>1 DEF WriteInv, PlacesInv
    <3>3. CASE ~ (i \in DOMAIN state)
      <4>1. i - Len(state) \in DOMAIN pending /\ state'[i] = pending[i - Len(state)]
        <5>1. state' = state \o pending /\ state \in Seq(Nat) /\ pending \in Seq(Nat)
          BY <1>0, <2>3, SeqTypes DEF Commits, Commit
        <5>2. /\ Len(pending) \in Nat /\ DOMAIN pending = 1 .. Len(pending)
              /\ DOMAIN state' = 1 .. Len(state) + Len(pending)
              /\ \A k \in 1 .. Len(state) + Len(pending) :
                    state'[k] = IF k <= Len(state) THEN state[k] ELSE pending[k - Len(state)]
          BY <5>1, ConcatProperties, LenProperties
        <5>3. i \in 1 .. Len(state) + Len(pending) /\ ~ (i <= Len(state))
          BY <1>2, <3>3, <5>2
        <5>4. state'[i] = pending[i - Len(state)]  BY <5>2, <5>3
        <5>5. i - Len(state) \in 1 .. Len(pending)  BY <1>2, <5>2, <5>3
        <5> QED BY <5>2, <5>4, <5>5
      <4>2. i - Len(state) < j - Len(state)  BY <1>2
      <4>3. pending[i - Len(state)] < pending[j - Len(state)]
        BY <2>3, <4>1, <4>2, Zenon DEF OrderInv
      <4>4. state' \in Seq(Nat)  BY <1>0, StateGrows
      <4>5. state'[i] \in Nat /\ state'[j] \in Nat  BY <1>2, <4>4, ElementOfSeq
      <4> QED BY <2>3, <4>1, <4>3, <4>5
    <3> QED BY <3>2, <3>3
  <2> QED BY <1>0, <1>5, <2>1, <2>2, <2>3, StateSource
<1> QED BY <1>4, <1>5

(* Writes of patchState reach the state in the order of the calls, across  *)
(* any number of concurrent handlers and whichever task flushes them       *)
(* (#pendingMuts), save those an error ack took ahead of their turn.       *)
THEOREM PatchOrderCorrect == Spec => []PatchOrderButEarly
<1>1. Init => Core /\ OrderInv /\ PatchOrderButEarly
  <2>1. Init => PatchOrderButEarly  BY DEF Init, PatchOrderButEarly
  <2> QED BY <2>1, CoreInit, OrderInit
<1>2. Core /\ OrderInv /\ PatchOrderButEarly /\ [Next]_vars
        => Core' /\ OrderInv' /\ PatchOrderButEarly'
  BY CoreStep, OrderStep, PatchOrderStep
<1> QED BY <1>1, <1>2, PTL DEF Spec

-----------------------------------------------------------------------------
(* AckAfterWritesButEarly *)

(* A run is acked only by a step that leaves nothing pending.              *)
LEMMA AckSource ==
    ASSUME TypeOK, [Next]_vars, NEW f \in Runs,
           run'[f].pc = "acked", run[f].pc # "acked"
    PROVE  pending' = <<>>
<1>0. run \in [Runs -> RunState]  BY DEF TypeOK
<1>1. UNCHANGED run => FALSE  OBVIOUS
<1>2. ASSUME NEW e \in Runs, NEW pc, Goto(e, pc), pc # "acked" PROVE FALSE
  BY <1>0, <1>2 DEF Goto, RunState
<1>3. ASSUME NEW e \in Runs, NEW r, NEW rs, AckError(e, r, rs) PROVE pending' = <<>>
  BY <1>3, Zenon DEF AckError
<1>4. ASSUME NEW e \in Runs, NEW r \in RpcIds, Refuse(e, r) \/ Reack(e, r) \/ Deliver(e, r)
      PROVE  pending' = <<>>
  <2>1. CASE Refuse(e, r)  BY <1>3, <2>1 DEF Refuse
  <2>2. CASE Reack(e, r)  BY <1>0, <2>2 DEF Reack
  <2>3. CASE Deliver(e, r)
    <3>1. PICK pc \in {"final", "prepare"} :
            run' = [run EXCEPT ![e] = [pc |-> pc, rpc |-> r, left |-> CallsOf[r]]]
      BY <2>3 DEF Deliver
    <3> QED BY <1>0, <3>1
  <2> QED BY <1>4, <2>1, <2>2, <2>3
<1>5. ASSUME NEW e \in Runs, HandlerStep(e) PROVE pending' = <<>>
  <2>1. CASE Prepared(e)  BY <1>2, <2>1 DEF Prepared
  <2>2. CASE Return(e)  BY <1>0, <2>2 DEF Return, RunState
  <2>3. CASE Fail(e)  BY <1>3, <2>3 DEF Fail
  <2> QED BY <1>5, <2>1, <2>2, <2>3 DEF HandlerStep
<1>6. CASE TaskStep
  <2>1. CASE Chunk \/ Event \/ EventCommitted \/ Publish \/ Finally
    BY <1>1, <2>1 DEF Chunk, Event, EventCommitted, Publish, Finally
  <2>2. CASE Final
    <3>1. queue[1].run \in Runs  BY <2>2, HeadType DEF Final, At
    <3>2. pending' = <<>> \/ Goto(queue[1].run, "dropped")
      BY <2>2, Zenon DEF Final, Commit
    <3> QED BY <1>2, <3>1, <3>2
  <2>3. CASE Err
    <3>1. queue[1].run \in Runs  BY <2>3, HeadType DEF Err, At
    <3>2. UNCHANGED run \/ Goto(queue[1].run, "failed")  BY <2>3, Zenon DEF Err
    <3> QED BY <1>1, <1>2, <3>1, <3>2
  <2>4. CASE TaskDone
    <3>1. queue # <<>>  BY <2>4 DEF TaskDone, TypeOK
    <3>2. queue[1].kind = "err" => queue[1].run \in Runs  BY <3>1, HeadType
    <3>3. UNCHANGED run \/ (queue[1].kind = "err" /\ Goto(queue[1].run, "failed"))
      BY <2>4, Zenon DEF TaskDone
    <3> QED BY <1>1, <1>2, <3>2, <3>3
  <2> QED BY <1>6, <2>1, <2>2, <2>3, <2>4 DEF TaskStep
<1>7. ASSUME NEW e \in Runs, PatchState(e) \/ Broadcast(e) PROVE FALSE
  BY <1>1, <1>7 DEF PatchState, Broadcast
<1>8. ASSUME NEW l \in Listeners, Render(l) \/ Attach(l) \/ Detach(l) PROVE FALSE
  BY <1>1, <1>8 DEF Render, Attach, Detach
<1>9. CASE FlushTimer \/ Resync \/ BusMessage \/ Dispose \/ Drained \/ Closed \/ UNCHANGED vars
  BY <1>1, <1>9 DEF FlushTimer, Resync, BusMessage, Dispose, Drained, Closed, vars
<1> QED BY <1>4, <1>5, <1>6, <1>7, <1>8, <1>9 DEF Next

(* What is pending after a step was, or is the write of a patchState.      *)
LEMMA PendingSource ==
    ASSUME TypeOK, PlacesInv, Effect, NEW p \in Range(pending'), p \notin Range(pending)
    PROVE  /\ p = NextWrite /\ UNCHANGED <<phase, queue>>
           /\ \E e \in Runs : PatchState(e) /\ issued'[p] = AuthorOf("patch", e)
<1>1. pending' = pending => FALSE  OBVIOUS
<1>2. pending' = <<>> => FALSE  BY NoMuts
<1>3. Writes
  BY <1>1, <1>2
     DEF Effect, Waits, Ends, Takes, Commits, Commit, Discards, Lands, Throws, Reacts
<1>4. PICK e \in Runs : PatchState(e)  BY <1>3 DEF Writes
<1>5. pending' = Append(pending, NextWrite) /\ UNCHANGED <<phase, queue>>
      /\ issued' = Append(issued, AuthorOf("patch", e))
  BY <1>4 DEF PatchState, Issue
<1>6. Range(pending') = Range(pending) \cup {NextWrite}
  BY <1>5, SeqTypes, FreshWrite, AppendRange
<1>7. issued'[NextWrite] = AuthorOf("patch", e)
  BY <1>5, SeqTypes, AuthorType, AppendProperties DEF NextWrite
<1> QED BY <1>4, <1>5, <1>6, <1>7

LEMMA AckStep == Core /\ AckInv /\ [Next]_vars => AckInv'
<1> SUFFICES ASSUME Core, AckInv, [Next]_vars, NEW p \in Range(pending')
             PROVE  issued'[p].run \in Runs /\ run'[issued'[p].run].pc # "acked"
  BY DEF AckInv
<1>0. TypeOK /\ Effect /\ WriteInv  BY CoreStep DEF Core
<1>1. CASE p \in Range(pending)
  <2>1. issued'[p] = issued[p]  BY <1>0, <1>1, IssuedGrows, PendingIds
  <2>2. issued[p].run \in Runs /\ run[issued[p].run].pc # "acked"  BY <1>1 DEF AckInv
  <2>3. pending' # <<>>  BY NoMuts
  <2> QED BY <1>0, <2>1, <2>2, <2>3, AckSource
<1>2. CASE p \notin Range(pending)
  <2>1. PICK e \in Runs : PatchState(e) /\ issued'[p] = AuthorOf("patch", e)
    BY <1>0, <1>2, PendingSource DEF WriteInv
  <2>2. run[e].pc = "body" /\ run' = run /\ AuthorOf("patch", e).run = e
    BY <2>1 DEF PatchState, AuthorOf
  <2> QED BY <2>1, <2>2
<1> QED BY <1>1, <1>2

(* When a client is told that its batch is done, none of the batch's       *)
(* writes is pending or in the task of another run: they are in the state  *)
(* (#flushFinal commits before it acks), save what a throwing draft or     *)
(* another run's error ack took.                                           *)
THEOREM AckCorrect == Spec => []AckAfterWritesButEarly
<1>1. Init => Core /\ OrderInv /\ AckInv
  <2>1. Init => OrderInv  BY OrderInit
  <2>2. Init => AckInv  BY NoMuts DEF Init, AckInv
  <2> QED BY <2>1, <2>2, CoreInit
<1>2. Core /\ OrderInv /\ AckInv /\ [Next]_vars => Core' /\ OrderInv' /\ AckInv'
  BY CoreStep, OrderStep, AckStep
<1>3. Core /\ OrderInv /\ AckInv => AckAfterWritesButEarly
  <2> SUFFICES ASSUME Core, OrderInv, AckInv, NEW e \in Runs, run[e].pc = "acked",
                      NEW m \in WritesOf(e, Len(issued))
               PROVE  m \in Landed \cup early
    BY DEF AckAfterWritesButEarly
  <2>1. m \in WriteId /\ issued[m].run = e  BY DEF WritesOf
  <2>2. m \in Range(state) \cup Range(pending) \cup Waiting \cup LostIds
    BY <2>1 DEF Core, WriteInv, PlacesInv
  <2> QED BY <2>1, <2>2 DEF AckInv, OrderInv, Landed
<1> QED BY <1>1, <1>2, <1>3, PTL DEF Spec

-----------------------------------------------------------------------------
(* ReactionAfterSender *)

(* The one write a step may issue: what it was caused by lies in the past. *)
LEMMA IssuedSource ==
    ASSUME TypeOK, TasksInv, Effect, NEW m \in WriteId', m \notin WriteId
    PROVE  /\ m = NextWrite /\ issued'[m].upto <= Len(issued)
           /\ Reacts => issued'[m].upto = queue[1].upto /\ queue[1].upto <= Len(issued)
<1>0. issued \in Seq(Author) /\ Len(issued) \in Nat  BY SeqTypes
<1>1. ASSUME NEW a \in Author, Issue(a) PROVE m = NextWrite /\ issued'[m] = a
  <2>1. issued' = Append(issued, a)  BY <1>1 DEF Issue
  <2>2. Len(issued') = Len(issued) + 1 /\ issued'[Len(issued) + 1] = a
    BY <1>0, <2>1, AppendProperties
  <2>3. m = Len(issued) + 1  BY <1>0, <2>2 DEF WriteId
  <2> QED BY <2>2, <2>3 DEF NextWrite
<1>2. UNCHANGED issued => FALSE  BY DEF WriteId
<1>3. ASSUME NEW k \in {"patch", "onError"}, NEW e \in Runs, Issue(AuthorOf(k, e)), ~ Reacts
      PROVE  m = NextWrite /\ issued'[m].upto <= Len(issued)
  <2>1. AuthorOf(k, e) \in Author /\ AuthorOf(k, e).upto = 0  BY AuthorType DEF AuthorOf
  <2> QED BY <1>0, <1>1, <1>3, <2>1
<1>a. Reacts => state' # state
  <2>1. Len(Append(state, NextWrite)) = Len(state) + 1 /\ Len(state) \in Nat
    BY SeqTypes, AppendProperties DEF NextWrite
  <2> QED BY <2>1 DEF Reacts
<1>4. CASE Writes
  <2>1. PICK e \in Runs : Issue(AuthorOf("patch", e)) /\ UNCHANGED state
    BY <1>4 DEF Writes, PatchState
  <2>2. ~ Reacts  BY <1>a, <2>1
  <2> QED BY <1>3, <2>1, <2>2
<1>5. CASE Takes
  <2>1. PICK e \in Runs : (Issue(AuthorOf("onError", e)) \/ UNCHANGED issued) /\ UNCHANGED state
    BY <1>5, Zenon DEF Takes
  <2>2. ~ Reacts  BY <1>a, <2>1
  <2> QED BY <1>2, <1>3, <2>1, <2>2
<1>6. CASE Reacts
  <2> DEFINE a == [AuthorOf("event", queue[1].run) EXCEPT !.upto = queue[1].upto]
  <2>1. queue # <<>> /\ Issue(a)  BY <1>6 DEF Reacts
  <2>2. queue[1] \in Task /\ queue[1].upto <= Len(issued)
    BY <2>1, HeadType, SeqTypes DEF TasksInv
  <2>3. a \in Author /\ a.upto = queue[1].upto  BY <2>2, AuthorType DEF AuthorOf
  <2> HIDE DEF a
  <2> QED BY <1>1, <2>1, <2>2, <2>3
<1> QED BY <1>2, <1>4, <1>5, <1>6 DEF Effect, Waits, Ends, Commits, Discards, Lands, Throws

LEMMA CauseStep == Core /\ CauseInv /\ [Next]_vars => CauseInv'
<1> SUFFICES ASSUME Core, CauseInv, [Next]_vars PROVE CauseInv'
  OBVIOUS
<1>0. TypeOK /\ TypeOK' /\ Effect /\ TasksInv /\ WriteInv /\ CommitInv  BY CoreStep DEF Core
<1>1. ASSUME NEW m \in WriteId' PROVE issued'[m].upto <= Len(issued')
  <2>1. Len(issued) \in Nat /\ Len(issued') \in Nat /\ Len(issued') >= Len(issued)
    BY <1>0, IssuedGrows
  <2>2. issued'[m].upto \in Nat
    <3>1. issued' \in Seq(Author)  BY <1>0, IssuedGrows, AppendProperties
    <3>2. issued'[m] \in Author  BY <3>1, ElementOfSeq DEF WriteId
    <3> QED BY <3>2 DEF Author
  <2>3. issued'[m].upto <= Len(issued)
    <3>1. CASE m \in WriteId  BY <1>0, <3>1, IssuedGrows DEF CauseInv
    <3>2. CASE m \notin WriteId  BY <1>0, <3>2, IssuedSource
    <3> QED BY <3>1, <3>2
  <2> QED BY <2>1, <2>2, <2>3
<1>2. ASSUME phase' = "commit", NEW p \in Range(pending') PROVE p > queue'[1].upto
  <2>1. pending' # <<>>  BY NoMuts
  <2>2. CASE Waits
    <3>1. phase = "commit" /\ UNCHANGED pending  BY <1>2, <2>2 DEF Waits
    <3>2. queue # <<>> /\ Grows  BY <1>0, <2>2, <3>1 DEF CommitInv, Waits, Longer, Grows
    <3>3. queue'[1] = queue[1]  BY <1>0, <3>2, GrowsHead
    <3> QED BY <3>1, <3>3 DEF CauseInv
  <2>3. CASE Writes
    <3>1. phase = "commit" /\ UNCHANGED queue  BY <1>2, <2>3 DEF Writes, PatchState
    <3>2. CASE p \in Range(pending)  BY <3>1, <3>2 DEF CauseInv
    <3>3. CASE p \notin Range(pending)
      <4>1. p = NextWrite  BY <1>0, <3>3, PendingSource DEF WriteInv
      <4>2. queue # <<>>  BY <1>0, <3>1 DEF CommitInv
      <4>3. queue[1].upto \in Nat /\ queue[1].upto <= Len(issued) /\ Len(issued) \in Nat
        BY <1>0, <4>2, HeadType, SeqTypes DEF TasksInv, Task
      <4> QED BY <3>1, <4>1, <4>3 DEF NextWrite
    <3> QED BY <3>2, <3>3
  <2> QED BY <1>0, <1>2, <2>1, <2>2, <2>3
          DEF Effect, Ends, Takes, Commits, Commit, Discards, Pop, Lands, Throws, Reacts
<1> QED BY <1>1, <1>2 DEF CauseInv

LEMMA ReactionStep ==
    Core /\ OrderInv /\ CauseInv /\ ReactionAfterSender /\ [Next]_vars => ReactionAfterSender'
<1> SUFFICES ASSUME Core, OrderInv, CauseInv, ReactionAfterSender, [Next]_vars,
                    NEW j \in DOMAIN state', issued'[state'[j]].kind = "event",
                    NEW m \in WriteId', m <= issued'[state'[j]].upto,
                    issued'[m].run = issued'[state'[j]].run, issued'[m].kind # "event"
             PROVE  m \in {state'[i] : i \in 1 .. j} \cup LostIds' \cup early'
  BY DEF ReactionAfterSender, WritesOf
<1>0. TypeOK /\ TypeOK' /\ Effect /\ TasksInv /\ WriteInv  BY CoreStep DEF Core
<1>1. /\ Len(issued) \in Nat /\ Len(issued') \in Nat
      /\ \A k \in WriteId : k \in WriteId' /\ issued'[k] = issued[k]
  BY <1>0, IssuedGrows
<1>2. /\ Len(state) \in Nat /\ Len(state') \in Nat
      /\ DOMAIN state = 1 .. Len(state) /\ DOMAIN state' = 1 .. Len(state')
      /\ \A k \in 1 .. Len(state) : state'[k] = state[k]
  BY <1>0, StateGrows, LenProperties
<1>3. early \subseteq early' /\ LostIds \subseteq LostIds'  BY <1>0, WaitingSource
<1>4. ASSUME NEW n \in Nat, n <= Len(issued), m <= n PROVE m \in WriteId
  BY <1>1, <1>4 DEF WriteId
<1>5. CASE j \in DOMAIN state
  <2>1. state'[j] = state[j] /\ state[j] \in WriteId
    BY <1>2, <1>5, PendingIds DEF Range
  <2>2. issued'[state[j]] = issued[state[j]]  BY <1>1, <2>1
  <2>3. issued[state[j]].upto <= Len(issued) /\ issued[state[j]].upto \in Nat
    <3>1. issued[state[j]] \in Author  BY <1>0, <2>1, SeqTypes, ElementOfSeq DEF WriteId
    <3> QED BY <2>1, <3>1 DEF CauseInv, Author
  <2>4. m \in WriteId  BY <1>4, <2>1, <2>2, <2>3
  <2>5. m \in WritesOf(issued[state[j]].run, issued[state[j]].upto)
    BY <1>1, <2>1, <2>2, <2>4 DEF WritesOf
  <2>6. m \in {state[i] : i \in 1 .. j} \cup LostIds \cup early
    BY <1>5, <2>1, <2>2, <2>5 DEF ReactionAfterSender
  <2>7. \A i \in 1 .. j : state'[i] = state[i]  BY <1>2, <1>5
  <2> QED BY <1>3, <2>6, <2>7
<1>6. CASE ~ (j \in DOMAIN state)
  <2>1. CASE Commits /\ j - Len(state) \in DOMAIN pending /\ state'[j] = pending[j - Len(state)]
    <3>1. state'[j] \in Range(pending) /\ UNCHANGED issued  BY <2>1 DEF Range, Commits
    <3>2. issued[state'[j]].kind = "patch"  BY <3>1 DEF OrderInv, IsPatch
    <3> QED BY <3>1, <3>2
  <2>2. CASE Lands /\ state'[j] \in Range(queue[1].muts)
    <3>1. state'[j] \in Waiting /\ UNCHANGED issued  BY <1>0, <2>2, LandedHeld DEF Lands
    <3> QED BY <3>1 DEF OrderInv
  <2>3. CASE Reacts /\ j = Len(state) + 1 /\ state'[j] = NextWrite
    <3>1. NextWrite \in WriteId' /\ NextWrite \notin WriteId
      BY <1>0, <2>3, FreshWrite DEF WriteInv, Reacts
    <3>2. issued'[state'[j]].upto = queue[1].upto /\ queue[1].upto <= Len(issued)
      BY <1>0, <2>3, <3>1, IssuedSource
    <3>3. queue[1].upto \in Nat  BY <1>0, <2>3, HeadType DEF Reacts, Task
    <3>4. m \in WriteId /\ m \in Nat  BY <1>4, <3>2, <3>3, PendingIds
    <3>5. m \in Range(state) \cup Range(pending) \cup Waiting \cup LostIds
      BY <1>0, <3>4 DEF WriteInv, PlacesInv
    <3>6. m \notin Range(pending)
      <4>1. CASE phase = "commit"
        <5> SUFFICES ASSUME m \in Range(pending) PROVE FALSE
          OBVIOUS
        <5>1. m > queue[1].upto  BY <4>1 DEF CauseInv
        <5> QED BY <3>2, <3>3, <3>4, <5>1
      <4>2. CASE pending = <<>>  BY <4>2, NoMuts
      <4> QED BY <2>3, <4>1, <4>2 DEF Reacts
    <3>7. m \in Waiting => m \in early  BY DEF OrderInv
    <3>8. m \in Range(state) => m \in {state'[i] : i \in 1 .. j}
      <4> SUFFICES ASSUME NEW i \in DOMAIN state, m = state[i]
                   PROVE  m \in {state'[k] : k \in 1 .. j}
        BY DEF Range
      <4>1. i \in 1 .. j /\ state'[i] = m  BY <1>2, <2>3
      <4> QED BY <4>1
    <3> QED BY <1>3, <3>5, <3>6, <3>7, <3>8
  <2> QED BY <1>0, <1>6, <2>1, <2>2, <2>3, StateSource
<1> QED BY <1>5, <1>6

(* The reaction of an instance to its own handler's broadcast comes after  *)
(* every write the handler had made before it: #runEventHandler commits    *)
(* what is pending first, and a write made while that commit is stored is  *)
(* newer than the broadcast.  Writes an error ack took are the exception.  *)
THEOREM ReactionCorrect == Spec => []ReactionAfterSender
<1>1. Init => Core /\ OrderInv /\ CauseInv /\ ReactionAfterSender
  <2>1. Init => ReactionAfterSender  BY DEF Init, ReactionAfterSender
  <2>2. Init => CauseInv  BY DEF Init, CauseInv, WriteId
  <2> QED BY <2>1, <2>2, CoreInit, OrderInit
<1>2. Core /\ OrderInv /\ CauseInv /\ ReactionAfterSender /\ [Next]_vars
        => Core' /\ OrderInv' /\ CauseInv' /\ ReactionAfterSender'
  BY CoreStep, OrderStep, CauseStep, ReactionStep
<1> QED BY <1>1, <1>2, PTL DEF Spec

-----------------------------------------------------------------------------
(* BacklogExact *)

Events(q) == {i \in DOMAIN q : q[i].kind = "event"}

(* The queue becomes q, or q and a task that is not a reaction behind it.  *)
Quiet(q) == queue' = q \/ \E t \in Task : t.kind # "event" /\ queue' = Append(q, t)

LEMMA EventsAppend ==
    ASSUME NEW q \in Seq(Task), NEW t \in Task
    PROVE  /\ IsFiniteSet(Events(q)) /\ Cardinality(Events(q)) \in Nat
           /\ Cardinality(Events(Append(q, t))) =
                Cardinality(Events(q)) + (IF t.kind = "event" THEN 1 ELSE 0)
<1>1. /\ Len(q) \in Nat /\ DOMAIN q = 1 .. Len(q) /\ DOMAIN Append(q, t) = 1 .. Len(q) + 1
      /\ \A i \in 1 .. Len(q) : Append(q, t)[i] = q[i]
      /\ Append(q, t)[Len(q) + 1] = t
  BY AppendShape
<1>2. IsFiniteSet(Events(q)) /\ Cardinality(Events(q)) \in Nat
  <2>1. IsFiniteSet(1 .. Len(q)) /\ Events(q) \subseteq 1 .. Len(q)
    BY <1>1, FS_Interval DEF Events
  <2> QED BY <2>1, FS_Subset, FS_CardinalityType
<1>3. Len(q) + 1 \notin Events(q)  BY <1>1 DEF Events
<1>4. CASE t.kind = "event"
  <2>1. Events(Append(q, t)) = Events(q) \cup {Len(q) + 1}  BY <1>1, <1>4 DEF Events
  <2>2. Cardinality(Events(Append(q, t))) = Cardinality(Events(q)) + 1
    BY <1>2, <1>3, <2>1, FS_AddElement
  <2> QED BY <1>2, <1>4, <2>2
<1>5. CASE t.kind # "event"
  <2>1. Events(Append(q, t)) = Events(q)  BY <1>1, <1>5 DEF Events
  <2> QED BY <1>2, <1>5, <2>1
<1> QED BY <1>4, <1>5

LEMMA EventsTail ==
    ASSUME NEW q \in Seq(Task), q # <<>>
    PROVE  Cardinality(Events(Tail(q))) =
             Cardinality(Events(q)) - (IF q[1].kind = "event" THEN 1 ELSE 0)
<1>1. /\ Tail(q) \in Seq(Task) /\ DOMAIN Tail(q) = 1 .. Len(q) - 1 /\ DOMAIN q = 1 .. Len(q)
      /\ Len(q) \in Nat \ {0} /\ \A i \in 1 .. Len(q) - 1 : Tail(q)[i] = q[i + 1]
  BY TailShape
<1>2. q[1] \in Task  BY <1>1, ElementOfSeq
<1>3. /\ IsFiniteSet(Events(q)) /\ Cardinality(Events(q)) \in Nat
      /\ IsFiniteSet(Events(Tail(q))) /\ Cardinality(Events(Tail(q))) \in Nat
  BY <1>1, <1>2, EventsAppend
<1> DEFINE f == [i \in Events(Tail(q)) |-> i + 1]
<1>4. f \in Bijection(Events(Tail(q)), Events(q) \ {1})
  <2>1. \A i \in Events(Tail(q)) : i \in 1 .. Len(q) - 1 /\ i + 1 \in Events(q) \ {1}
    BY <1>1 DEF Events
  <2>2. \A i, j \in Events(Tail(q)) : i # j => i + 1 # j + 1  BY <2>1
  <2>3. ASSUME NEW j \in Events(q) \ {1} PROVE \E i \in Events(Tail(q)) : i + 1 = j
    <3>1. j - 1 \in 1 .. Len(q) - 1 /\ (j - 1) + 1 = j  BY <1>1 DEF Events
    <3>2. j - 1 \in Events(Tail(q))  BY <1>1, <3>1 DEF Events
    <3> QED BY <3>1, <3>2
  <2>4. f \in [Events(Tail(q)) -> Events(q) \ {1}]  BY <2>1
  <2>5. IsInjective(f)  BY <2>2 DEF IsInjective
  <2>6. f \in Injection(Events(Tail(q)), Events(q) \ {1})  BY <2>4, <2>5 DEF Injection
  <2>7. f \in Surjection(Events(Tail(q)), Events(q) \ {1})
    <3>1. \A j \in Events(q) \ {1} : \E i \in Events(Tail(q)) : f[i] = j  BY <2>3
    <3> QED BY <2>4, <3>1, Zenon DEF Surjection
  <2> QED BY <2>6, <2>7 DEF Bijection
<1>5. Cardinality(Events(Tail(q))) = Cardinality(Events(q) \ {1})
  BY <1>3, <1>4, FS_Bijection DEF ExistsBijection
<1>6. CASE q[1].kind = "event"
  <2>1. 1 \in Events(q)  BY <1>1, <1>6 DEF Events
  <2>2. Cardinality(Events(q) \ {1}) = Cardinality(Events(q)) - 1
    BY <1>3, <2>1, FS_RemoveElement
  <2> QED BY <1>5, <1>6, <2>2
<1>7. CASE q[1].kind # "event"
  <2>1. Events(q) \ {1} = Events(q)  BY <1>7 DEF Events
  <2>2. Cardinality(Events(q)) = Cardinality(Events(q)) - 0  BY <1>3
  <2> QED BY <1>5, <1>7, <2>1, <2>2, Zenon
<1> QED BY <1>6, <1>7

LEMMA SendQuiet ==
    ASSUME TypeOK, NEW e \in Runs \cup {NoRun}, NEW q, MaySend(e, q)
    PROVE  Quiet(q)
<1>1. CASE Send(e, q)
  <2> DEFINE t == [TaskOf("publish", e) EXCEPT !.upto = Len(issued)]
  <2>1. t \in Task  BY PlainTask DEF Plain
  <2>2. t.kind = "publish"  BY DEF TaskOf
  <2>3. queue' = Append(q, t)  BY <1>1 DEF Send
  <2> HIDE DEF t
  <2> QED BY <2>1, <2>2, <2>3 DEF Quiet
<1> QED BY <1>1 DEF MaySend, Quiet

(* What a step does to the reactions queued and to their count: nothing;   *)
(* one more of both; one fewer queued, whose finally is owed; or that      *)
(* finally.                                                                *)
Same == Quiet(queue) /\ UNCHANGED <<backlog, ending>>
More == /\ backlog < BacklogCap /\ backlog' = backlog + 1 /\ UNCHANGED ending
        /\ \E t \in Task : t.kind = "event" /\ queue' = Append(queue, t)
Less == /\ queue # <<>> /\ Quiet(Tail(queue))
        /\ UNCHANGED backlog
        /\ IF queue[1].kind = "event" THEN EndOfReaction ELSE UNCHANGED ending
Given == ending /\ ending' = FALSE /\ backlog' = backlog - 1 /\ UNCHANGED queue

LEMMA BacklogSource ==
    ASSUME TypeOK, CommitInv, [Next]_vars
    PROVE  Same \/ More \/ Less \/ Given
<1>0. backlog \in Int /\ BacklogCap \in Nat  BY ConstantsOK DEF TypeOK
<1>1. ASSUME UNCHANGED <<queue, backlog, ending>> PROVE Same
  BY <1>1 DEF Same, Quiet
<1>2. ASSUME NEW k \in {"chunk", "final"}, NEW e \in Runs \cup {NoRun},
             k = "final" => e \in Runs,
             UNCHANGED queue \/ Enqueue(TaskOf(k, e)),
             UNCHANGED <<backlog, ending>>
      PROVE  Same
  <2>1. TaskOf(k, e) \in Task /\ TaskOf(k, e).kind = k  BY <1>2, TaskType DEF TaskOf
  <2> QED BY <1>2, <2>1 DEF Same, Quiet, Enqueue
<1>3. ASSUME NEW e \in Runs, NEW r, NEW rs, AckError(e, r, rs) PROVE Same
  <2>1. PICK repair \in BOOLEAN, ms \in {pending, Append(pending, NextWrite)} :
          /\ UNCHANGED queue \/ Enqueue([TaskOf("err", e) EXCEPT !.muts = ms])
          /\ UNCHANGED <<backlog, ending>>
    BY <1>3, Zenon DEF AckError
  <2>2. ms \in Seq(Nat)
    <3>1. pending \in Seq(Nat) /\ NextWrite \in Nat  BY SeqTypes DEF NextWrite
    <3> QED BY <3>1
  <2>3. /\ [TaskOf("err", e) EXCEPT !.muts = ms] \in Task
        /\ [TaskOf("err", e) EXCEPT !.muts = ms].kind # "event"
    BY <2>2, TaskType DEF TaskOf
  <2> QED BY <2>1, <2>3, Zenon DEF Same, Quiet, Enqueue
<1>4. ASSUME NEW t \in Task, t.kind = "event", Receive(t), UNCHANGED ending
      PROVE  Same \/ More
  <2>1. CASE UNCHANGED <<queue, backlog>>  BY <1>1, <1>4, <2>1
  <2>2. CASE ~ (backlog >= BacklogCap)
    <3>1. queue' = Append(queue, t) /\ backlog' = backlog + 1
      BY <1>4, <2>2 DEF Receive, Enqueue
    <3>2. backlog < BacklogCap  BY <1>0, <2>2
    <3> QED BY <1>4, <3>1, <3>2 DEF More
  <2> QED BY <1>4, <2>1, <2>2 DEF Receive
<1>5. ASSUME queue # <<>>, queue[1].kind = "event", React, UNCHANGED backlog
      PROVE  Same \/ Less
  <2>1. CASE MaySend(NoRun, queue) /\ UNCHANGED ending  BY <1>5, <2>1, SendQuiet DEF Same
  <2>2. CASE MaySend(NoRun, Tail(queue)) /\ EndOfReaction
    BY <1>5, <2>2, SendQuiet DEF Less
  <2> QED BY <1>5, <2>1, <2>2 DEF React
<1>6. ASSUME NEW e \in Runs, NEW r \in RpcIds, Refuse(e, r) \/ Reack(e, r) \/ Deliver(e, r)
      PROVE  Same
  <2>1. CASE Refuse(e, r)  BY <1>3, <2>1 DEF Refuse
  <2>2. CASE Reack(e, r)  BY <1>1, <2>2 DEF Reack
  <2>3. CASE Deliver(e, r)
    <3>1. UNCHANGED queue \/ Enqueue(TaskOf("final", e))  BY <2>3, Zenon DEF Deliver
    <3> QED BY <1>2, <2>3, <3>1 DEF Deliver
  <2> QED BY <1>6, <2>1, <2>2, <2>3
<1>7. ASSUME NEW e \in Runs, HandlerStep(e) \/ PatchState(e) \/ Broadcast(e) PROVE Same
  <2>1. CASE Prepared(e) \/ PatchState(e)  BY <1>1, <2>1 DEF Prepared, PatchState
  <2>2. CASE Return(e)
    <3>1. UNCHANGED queue \/ Enqueue(TaskOf("final", e))  BY <2>2, Zenon DEF Return
    <3> QED BY <1>2, <2>2, <3>1 DEF Return
  <2>3. CASE Fail(e)  BY <1>3, <2>3 DEF Fail
  <2>4. CASE Broadcast(e)  BY <2>4, SendQuiet DEF Broadcast, MaySend, Same
  <2> QED BY <1>7, <2>1, <2>2, <2>3, <2>4 DEF HandlerStep
<1>8. CASE TaskStep
  <2>1. ASSUME NEW k, At(k), k # "event", Pop, UNCHANGED <<backlog, ending>> PROVE Less
    BY <2>1 DEF At, Pop, Less, Quiet
  <2>2. CASE Chunk
    <3>1. At("chunk") /\ UNCHANGED <<backlog, ending>> /\ (Pop \/ UNCHANGED queue)
      BY <2>2, Zenon DEF Chunk
    <3> QED BY <1>1, <2>1, <3>1
  <2>3. CASE Final
    <3>1. At("final") /\ UNCHANGED <<backlog, ending>> /\ (Pop \/ UNCHANGED queue)
      BY <2>3, Zenon DEF Final
    <3> QED BY <1>1, <2>1, <3>1
  <2>4. CASE Err
    <3>1. queue # <<>> /\ queue[1].kind = "err" /\ queue[1].run \in Runs
          /\ UNCHANGED <<backlog, ending>>
      BY <2>4, HeadType DEF Err, At
    <3>2. \E q \in {queue, Tail(queue)} : MaySend(queue[1].run, q) \/ queue' = q
      BY <2>4, Zenon DEF Err
    <3>3. Quiet(queue) \/ Quiet(Tail(queue))  BY <3>1, <3>2, SendQuiet DEF Quiet
    <3> QED BY <3>1, <3>3 DEF Same, Less
  <2>5. CASE Event
    <3>1. queue # <<>> /\ queue[1].kind = "event" /\ UNCHANGED backlog
      BY <2>5 DEF Event, At
    <3>2. React \/ UNCHANGED <<queue, ending>> \/ (Pop /\ EndOfReaction)
      BY <2>5, Zenon DEF Event
    <3>3. CASE Pop /\ EndOfReaction  BY <3>1, <3>3 DEF Pop, Less, Quiet
    <3> QED BY <1>1, <1>5, <3>1, <3>2, <3>3
  <2>6. CASE EventCommitted  BY <1>5, <2>6 DEF EventCommitted, CommitInv
  <2>7. CASE Publish
    <3>1. queue # <<>> /\ queue[1].kind = "publish" /\ queue[1] \in Task
      BY <2>7, HeadType DEF Publish, At
    <3> DEFINE t == [queue[1] EXCEPT !.kind = "event"]
    <3>2. t \in Task /\ t.kind = "event"  BY <3>1 DEF Task
    <3>3. (Receive(t) \/ UNCHANGED <<queue, backlog>>) /\ UNCHANGED ending
      BY <2>7 DEF Publish
    <3> HIDE DEF t
    <3> QED BY <1>1, <1>4, <3>2, <3>3
  <2>8. CASE TaskDone
    <3>1. queue # <<>> /\ queue' = Tail(queue)
          /\ UNCHANGED backlog
          /\ IF queue[1].kind = "event" THEN EndOfReaction ELSE UNCHANGED ending
      BY <2>8 DEF TaskDone, Pop, TypeOK
    <3> QED BY <3>1 DEF Less, Quiet
  <2>9. CASE Finally  BY <2>9 DEF Finally, Given
  <2> QED BY <1>8, <2>2, <2>3, <2>4, <2>5, <2>6, <2>7, <2>8, <2>9 DEF TaskStep
<1>9. CASE FlushTimer
  <2>1. Enqueue(TaskOf("chunk", NoRun)) /\ UNCHANGED <<backlog, ending>>  BY <1>9 DEF FlushTimer
  <2> QED BY <1>2, <2>1
<1>10. CASE BusMessage
  <2>1. TaskOf("event", NoRun) \in Task /\ TaskOf("event", NoRun).kind = "event"
    BY TaskType DEF TaskOf
  <2> QED BY <1>4, <1>10, <2>1 DEF BusMessage
<1>11. ASSUME NEW l \in Listeners, Render(l) \/ Attach(l) \/ Detach(l) PROVE Same
  BY <1>1, <1>11 DEF Render, Attach, Detach
<1>12. CASE Resync \/ Dispose \/ Drained \/ Closed \/ UNCHANGED vars
  BY <1>1, <1>12 DEF Resync, Dispose, Drained, Closed, vars
<1> QED BY <1>6, <1>7, <1>8, <1>9, <1>10, <1>11, <1>12 DEF Next

LEMMA QuietEvents ==
    ASSUME NEW q \in Seq(Task), Quiet(q)
    PROVE  Cardinality(Events(queue')) = Cardinality(Events(q))
<1>1. CASE queue' = q  BY <1>1
<1>2. ASSUME NEW t \in Task, t.kind # "event", queue' = Append(q, t)
      PROVE  Cardinality(Events(queue')) = Cardinality(Events(q))
  <2>1. Cardinality(Events(queue')) = Cardinality(Events(q)) + 0
        /\ Cardinality(Events(q)) \in Nat
    BY <1>2, EventsAppend
  <2> QED BY <2>1
<1> QED BY <1>1, <1>2 DEF Quiet

LEMMA BacklogStep == TypeOK /\ CommitInv /\ BacklogExact /\ [Next]_vars => BacklogExact'
<1> SUFFICES ASSUME TypeOK, CommitInv, BacklogExact, [Next]_vars PROVE BacklogExact'
  OBVIOUS
<1>0. /\ queue \in Seq(Task) /\ backlog \in Int /\ BacklogCap \in Nat
      /\ ending \in BOOLEAN /\ Cardinality(Events(queue)) \in Int
      /\ backlog = Cardinality(Events(queue)) + (IF ending THEN 1 ELSE 0)
      /\ backlog <= BacklogCap
  <2>1. queue \in Seq(Task)  BY DEF TypeOK
  <2>2. TaskOf("event", NoRun) \in Task  BY TaskType
  <2>3. Cardinality(Events(queue)) \in Nat  BY <2>1, <2>2, EventsAppend
  <2> QED BY <2>3, ConstantsOK DEF TypeOK, BacklogExact, Events
<1>1. /\ backlog' = Cardinality(Events(queue')) + (IF ending' THEN 1 ELSE 0)
      /\ backlog' <= BacklogCap
  <2>1. CASE Same  BY <1>0, <2>1, QuietEvents DEF Same
  <2>2. CASE More
    <3>1. PICK t \in Task : t.kind = "event" /\ queue' = Append(queue, t)  BY <2>2 DEF More
    <3>2. Cardinality(Events(queue')) = Cardinality(Events(queue)) + 1
      BY <1>0, <3>1, EventsAppend
    <3> QED BY <1>0, <2>2, <3>2 DEF More
  <2>3. CASE Less
    <3>1. Tail(queue) \in Seq(Task)  BY <1>0, <2>3, TailShape DEF Less
    <3>2. Cardinality(Events(queue')) = Cardinality(Events(Tail(queue)))
      BY <2>3, <3>1, QuietEvents DEF Less
    <3>3. Cardinality(Events(Tail(queue))) =
            Cardinality(Events(queue)) - (IF queue[1].kind = "event" THEN 1 ELSE 0)
      BY <1>0, <2>3, EventsTail DEF Less
    <3> QED BY <1>0, <2>3, <3>2, <3>3 DEF Less, EndOfReaction
  <2>4. CASE Given  BY <1>0, <2>4 DEF Given
  <2> QED BY <2>1, <2>2, <2>3, <2>4, BacklogSource
<1> QED BY <1>1 DEF BacklogExact, Events

(* The broadcast backlog counts exactly the reactions that are queued or   *)
(* running, plus the one whose finally is owed, whichever way each ends,   *)
(* and never exceeds its cap (#subscribeTopic): a leaked unit would silence*)
(* the instance for good.                                                  *)
THEOREM BacklogCorrect == Spec => []BacklogExact
<1>1. Init => Core /\ BacklogExact
  <2> SUFFICES ASSUME Init PROVE BacklogExact
    BY CoreInit
  <2>1. queue = <<>> /\ backlog = 0 /\ ending = FALSE  BY DEF Init
  <2>2. {i \in DOMAIN queue : queue[i].kind = "event"} = {}  BY <2>1
  <2> QED BY <2>1, <2>2, FS_EmptySet, ConstantsOK DEF BacklogExact
<1>2. Core /\ BacklogExact /\ [Next]_vars => Core' /\ BacklogExact'
  BY CoreStep, BacklogStep DEF Core
<1> QED BY <1>1, <1>2, PTL DEF Spec
=============================================================================
