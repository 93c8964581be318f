------------------------------- MODULE Egress -------------------------------
(***************************************************************************)
(* Envelopes on their way out: from the listeners of an instance, through  *)
(* the byte budget of a session stream (handleStream in handler.ts, open   *)
(* in ws.ts), to a client that reads slowly, stalls or leaves, over the    *)
(* write loop of the node adapter (adapter-node/src/index.ts).             *)
(*                                                                         *)
(* Abstraction.  A chunk is its size.  Streams do not share an id here     *)
(* (SlotMounts has what happens when they do), and an instance is only     *)
(* what sends to its listeners.                                            *)
(***************************************************************************)
EXTENDS Naturals, Sequences, FiniteSets, SequencesExt, Filter

CONSTANTS
    Streams,    \* requests for a stream, and socket upgrades
    Sources,    \* the instances of the session
    Budget,     \* maxBufferedBytes
    Sizes,      \* of an envelope
    MaxSends    \* bound: envelopes emitted in a behaviour

(* The preamble of a stream fits the budget, and an envelope has a size.   *)
EgressConstantsOK ==
    /\ "nobody" \notin Streams /\ IsFiniteSet(Sources) /\ Budget \in Nat \ {0} /\ Sizes \subseteq Nat
    /\ \E largest \in Sizes : \A size \in Sizes : size <= largest

VARIABLES
    conn,   \* per stream: see Closed
    sends   \* envelopes emitted so far

egressVars == <<conn, sends>>

(* kind      "sse" or "ws"                                                 *)
(* body      the response stream: "none", "open", "errored", "closed"      *)
(* queue     its unread chunks; on a socket the unsent ones                *)
(* listens   the instances that hold a listener of it                      *)
(* named     whether streamRegistry holds it                               *)
(* watched   whether an abort of the request is listened for               *)
(* gone      whether the client or the response is                         *)
(* loop      writeWebResponse: "none", "reading", "parked" on a drain,     *)
(*           "over"; before that, "auth" while the request is authenticated*)
(* early     history: the client left before the stream began              *)
Closed(kind) ==
    [kind |-> kind, body |-> "none", queue |-> <<>>, listens |-> {}, named |-> FALSE,
     watched |-> FALSE, gone |-> FALSE, loop |-> "none", early |-> FALSE]

Init ==
    /\ conn \in [Streams -> {Closed("sse"), Closed("ws")}]
    /\ sends = 0

Unread(c) == Total(c.queue)

-----------------------------------------------------------------------------
(* The stream: handleStream and the send of open *)

(* unregisterStream and the handle's cleanup.                              *)
Detached(c) == [c EXCEPT !.named = FALSE, !.listens = {}]

(* The kill: an SSE body is errored and what it held is dropped; a socket  *)
(* is told to close, and its session ends with the close event.            *)
Kill(c, handle) ==
    IF c.kind = "ws" THEN [c EXCEPT !.body = "errored"]
    ELSE [(IF handle THEN Detached(c) ELSE c) EXCEPT !.body = "errored", !.queue = <<>>]

(* Mutant: the budget is checked before the chunk is queued.               *)
PushLate(c, size, handle) ==
    IF c.body # "open" THEN c
    ELSE IF Unread(c) > Budget THEN Kill(c, handle)
    ELSE [c EXCEPT !.queue = Append(@, size)]
(* `send`: nothing once the stream was killed or closed; a queue that now  *)
(* outweighs the budget kills it.                                          *)
Push(c, size, handle) ==
    IF c.body # "open" THEN c
    ELSE LET d == [c EXCEPT !.queue = Append(@, size)] IN
         IF Unread(d) > Budget THEN Kill(d, handle) ELSE d

(* #emit, to the listeners of instance i; `me` has no handle yet.          *)
Sent(cs, i, size, me) ==
    [s \in Streams |-> IF i \in cs[s].listens THEN Push(cs[s], size, s # me) ELSE cs[s]]

(* subscribeSession's fan-out: join, then a full snapshot, which all the   *)
(* listeners of the instance receive.                                      *)
Join(cs, s, i, size) ==
    Sent([cs EXCEPT ![s].listens = @ \cup {i}], i, size, s)

(* The end of `start`: a stream killed in the fan-out is cleaned up now    *)
(* and never registered.                                                   *)
Named(c) ==
    IF c.body = "errored" /\ c.kind = "sse" THEN Detached(c)
    ELSE [c EXCEPT !.named = (c.kind = "sse"), !.watched = TRUE]

(* A request, or an upgrade, is authenticated.                             *)
Request(s) ==
    /\ conn[s].loop = "none"
    /\ conn' = [conn EXCEPT ![s].loop = "auth"]
    /\ UNCHANGED sends

(* The instances of the session, joined one after the other.               *)
Fanned(cs, s, size, order) ==
    LET joined[n \in 0 .. Len(order)] ==
          IF n = 0 THEN cs ELSE Join(joined[n - 1], s, order[n], size)
    IN  joined[Len(order)]

(* handleStream, or open, in one synchronous call; a socket that is gone   *)
(* by then is not upgraded.                                                *)
Start(s, size) ==
    /\ conn[s].loop = "auth"
    /\ conn[s].kind = "ws" => ~conn[s].gone
    /\ LET opened == [conn EXCEPT ![s].body = "open", ![s].loop = "reading",
                                  ![s].queue = IF @ = <<>> /\ conn[s].kind = "sse" THEN <<1>> ELSE @]
       IN conn' = [Fanned(opened, s, size, SetToSeq(Sources)) EXCEPT ![s] = Named(@)]
    /\ UNCHANGED sends

Refused(s) ==
    /\ conn[s].loop = "auth" /\ conn[s].kind = "ws" /\ conn[s].gone
    /\ conn' = [conn EXCEPT ![s].loop = "over"]
    /\ UNCHANGED sends

(* An instance emits an envelope.                                          *)
Emit(i, size) ==
    /\ sends < MaxSends
    /\ sends' = sends + 1
    /\ conn' = Sent(conn, i, size, "nobody")

-----------------------------------------------------------------------------
(* The write loop of the adapter, and the client *)

Step(s, c) == conn' = [conn EXCEPT ![s] = c] /\ UNCHANGED sends

(* The response closes: the request is aborted, and a stream that listens  *)
(* for it unregisters, cleans up and closes its body.  A socket's close    *)
(* event ends its session.                                                 *)
Gone(c) ==
    LET d == [c EXCEPT !.gone = TRUE, !.early = (c.loop = "auth")] IN
    IF ~c.watched THEN d
    ELSE [Detached(d) EXCEPT !.body = IF @ = "open" THEN "closed" ELSE @]

Leave(s) ==
    /\ conn[s].loop \in {"auth", "reading", "parked"} /\ ~conn[s].gone
    /\ Step(s, Gone(conn[s]))

(* A chunk is read and written: the socket takes it, or asks to wait for a *)
(* drain (writeChunk).                                                     *)
Write(s) ==
    /\ conn[s].loop = "reading" /\ conn[s].queue # <<>> /\ ~conn[s].gone
    /\ conn[s].body = "errored" => conn[s].kind = "ws"
    /\ \E full \in BOOLEAN :
          Step(s, [conn[s] EXCEPT !.queue = Tail(@),
                                  !.loop = IF full THEN "parked" ELSE "reading"])

Drain(s) ==
    /\ conn[s].loop = "parked" /\ ~conn[s].gone
    /\ Step(s, [conn[s] EXCEPT !.loop = "reading"])

(* Mutant: an error of the body does not destroy the response.             *)
ReapNot(s) == FALSE
(* The body errored: the response is destroyed, and that closes it.  A     *)
(* socket told to close does.                                              *)
Reap(s) ==
    /\ conn[s].body = "errored" /\ ~conn[s].gone
    /\ Step(s, Gone(conn[s]))

(* The loop ends when the body is done, errored or nobody is there to      *)
(* write to; it cancels the body, which does not reach the stream, and     *)
(* ends the response.                                                      *)
Finish(s) ==
    /\ \/ conn[s].loop = "parked" /\ conn[s].gone
       \/ conn[s].loop = "reading"
          /\ \/ conn[s].gone
             \/ conn[s].kind = "sse" /\ conn[s].body = "errored"
    /\ conn[s].body = "errored" => conn[s].gone
    /\ Step(s, [conn[s] EXCEPT !.loop = "over", !.queue = <<>>,
                               !.body = IF @ = "open" THEN "closed" ELSE @])

-----------------------------------------------------------------------------
Next ==
    \/ \E s \in Streams :
         \/ Request(s) \/ Refused(s) \/ Leave(s)
         \/ Write(s) \/ Drain(s) \/ Reap(s) \/ Finish(s)
         \/ \E size \in Sizes : Start(s, size)
    \/ \E i \in Sources, size \in Sizes : Emit(i, size)

(* The adapter's callbacks run.  The client may stall for ever.            *)
Fairness == \A s \in Streams : WF_egressVars(Reap(s)) /\ WF_egressVars(Finish(s))

Spec == Init /\ [][Next]_egressVars /\ Fairness
-----------------------------------------------------------------------------
(* Nobody is sent envelopes who is not there to read them: a stream that   *)
(* was killed, or whose client left, holds no listener and cannot be       *)
(* joined, even when the kill came while it was being joined; a socket     *)
(* until its close event.  Not so a stream whose client left before it     *)
(* began (handleStream: kill, start, abort).                               *)
DeadHoldNothing ==
    \A s \in Streams :
        LET c == conn[s] IN
        \/ c.body = "errored" /\ c.kind = "sse"
        \/ c.gone /\ ~c.early
        => c.listens = {} /\ ~c.named

(* What a stream holds for a client that does not read is bounded by the   *)
(* budget, plus the envelope that kills a socket.                          *)
BudgetHolds ==
    \A s \in Streams :
        LET c == conn[s] IN
        Unread(c) <= Budget + (IF c.body = "errored" THEN Max(Sizes) ELSE 0)

(* A client that stalls, is killed or leaves costs the server a budget's   *)
(* worth of bytes at most, and no listener once it is gone.                *)
StreamsCostLittle == DeadHoldNothing /\ BudgetHolds

(* A killed stream is reaped, although its client stalls and the loop      *)
(* waits for a drain that never comes (writeWebResponse).                  *)
KilledIsReaped == \A s \in Streams : conn[s].body = "errored" ~> conn[s].loop = "over"
=============================================================================
