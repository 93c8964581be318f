------------------------------- MODULE Ingress -------------------------------
(***************************************************************************)
(* A request through the handler: fetch and its stages in                  *)
(* server-bun/src/handler.ts (origin gate, throttle, authenticate,         *)
(* dispatch), run by runPipeline of core/src/pipeline.ts, up to the status *)
(* it is answered with.  Requests interleave at every await, and so do the *)
(* entries of one mount-batch.                                             *)
(*                                                                         *)
(* Abstraction.  What a mount does to the registry is Registry's; here it  *)
(* is its outcome.  An application's hook settles, one way or the other.   *)
(* The requests are those of one session.                                  *)
(***************************************************************************)
EXTENDS Naturals, FiniteSets, SequencesExt, Filter

CONSTANTS
    Requests,   \* requests of a behaviour
    Inputs,     \* what a request may be: see Input
    Burst,      \* tokens of the mount throttle; refills are RateLimit's
    MaxBatch    \* MAX_MOUNT_BATCH

VARIABLES
    rq,       \* per request: see Idle
    tokens,   \* left in the session's mount bucket
    holder    \* whose session has the instance the requests name: "us",
              \* "them", or "gone"

ingressVars == <<rq, tokens, holder>>

Control == {"stream", "rpc", "mount", "batch", "release", "resync", "url"}

(* body   "good"; "over" the cap, "garbled" (not JSON), "odd" (not the     *)
(*        shape the message should have)                                   *)
(* size   entries of a batch                                               *)
(* isNew  whether the request came without a valid session cookie          *)
Input == [plane : Control \cup {"route", "page", "other"}, sameOrigin : BOOLEAN,
          isNew : BOOLEAN, body : {"good", "over", "garbled", "odd"}, size : Nat]

IngressConstantsOK ==
    /\ IsFiniteSet(Requests) /\ Inputs # {} /\ Inputs \subseteq Input
    /\ Burst \in Nat /\ MaxBatch \in Nat

(* at       "idle", "origin", "throttle", "auth", "dispatch", "body",      *)
(*          "mounting", "reconciling", "render", "threw", "done", or       *)
(*          "rejected" when an error hook of the application throws        *)
(* results  per entry to mount: "none", "instance", "redirect", "error"    *)
(* built    history: the entries that were mounted                         *)
(* ran      history: whose instance, or whose route, it ran something of   *)
(* charged  history: the mount tokens it took                              *)
(* told     whether the response carries the cookie of a new session       *)
Idle == [in |-> CHOOSE i \in Inputs : TRUE, at |-> "idle", status |-> 0, error |-> "none",
         results |-> <<>>, built |-> {}, ran |-> "nobody", charged |-> 0, told |-> FALSE]

Init ==
    /\ rq = [r \in Requests |-> Idle]
    /\ tokens = Burst
    /\ holder \in {"us", "them"}

-----------------------------------------------------------------------------
(* How a stage ends *)

At(q, stage) == [q EXCEPT !.at = stage]
Plain(q, status) == [q EXCEPT !.at = "done", !.status = status]
(* withSession: a new session is told its id.                              *)
Done(q, status) == [Plain(q, status) EXCEPT !.told = q.in.isNew]
Throw(q, e) == [q EXCEPT !.at = "threw", !.error = e]
Step(r, q) == rq' = [rq EXCEPT ![r] = q] /\ UNCHANGED <<tokens, holder>>

Arrive(r) ==
    /\ rq[r].at = "idle"
    /\ \E i \in Inputs : Step(r, [Idle EXCEPT !.in = i, !.at = "origin"])

Origin(r) ==
    /\ rq[r].at = "origin"
    /\ Step(r, IF rq[r].in.plane \in Control /\ ~rq[r].in.sameOrigin
               THEN Plain(rq[r], 403) ELSE At(rq[r], "throttle"))

Throttle(r) ==
    /\ rq[r].at = "throttle"
    /\ \/ Step(r, At(rq[r], "auth"))
       \/ rq[r].in.plane # "stream" /\ Step(r, Plain(rq[r], 429))

Authenticate(r) ==
    /\ rq[r].at = "auth"
    /\ Step(r, At(rq[r], "dispatch")) \/ Step(r, Plain(rq[r], 403))

(* What the application's own code may throw, before or after it has done  *)
(* something; the other errors are the handler's.                          *)
Thrown == {"redirect", "invalid", "crash"}

Mounting(q, n) == [q EXCEPT !.at = "mounting", !.results = [i \in 1 .. n |-> "none"]]

Dispatch(r) ==
    LET q == rq[r] IN
    /\ q.at = "dispatch"
    /\ CASE q.in.plane = "stream" -> Step(r, Done(q, 200))
         [] q.in.plane \in Control \ {"stream"} -> Step(r, At(q, "body"))
         [] q.in.plane = "route" ->      \* a state-changing method, not crossOrigin
                IF ~q.in.sameOrigin THEN Step(r, Done(q, 403))
                ELSE \/ Step(r, Done(q, 405))
                     \/ Step(r, Done([q EXCEPT !.ran = "us"], 200))
                     \/ \E e \in Thrown : Step(r, Throw([q EXCEPT !.ran = "us"], e))
         [] q.in.plane = "page" ->
                \/ Step(r, Throw(q, "missing"))          \* no pattern
                \/ Step(r, Throw(q, "invalid"))          \* resolveGetProps
                \/ Step(r, Mounting(q, 1))
         [] q.in.plane = "other" -> Step(r, Plain(q, 404))

-----------------------------------------------------------------------------
(* The messages of the control plane, once the body is read *)

(* acceptBatch, and the status handleRpc gives its outcome.                *)
Accept(q) ==
    IF q.in.body = "odd" THEN Done(q, 400)
    ELSE IF holder # "us" THEN Done(q, 404)
    ELSE Done([q EXCEPT !.ran = holder], 202)

(* What a mount message asks for: entries it would mount, or its refusal.  *)
Refusal(q) ==
    IF q.in.plane = "batch" /\ q.in.body = "odd" THEN 400
    ELSE IF q.in.plane = "batch" /\ q.in.size > MaxBatch THEN 413
    ELSE IF q.in.size > tokens THEN 429 ELSE 0

(* Mutant: a batch takes what tokens there are.                            *)
ChargedSome(q) == IF Refusal(q) \in {0, 429} /\ tokens > 0 THEN Min({q.in.size, tokens}) ELSE 0
(* takeMountTokens: all of its entries, or nothing.                        *)
Charged(q) == IF Refusal(q) = 0 THEN q.in.size ELSE 0

AskMount(r) ==
    LET q == [rq[r] EXCEPT !.charged = Charged(rq[r])] IN
    /\ tokens' = tokens - Charged(q)
    /\ rq' = [rq EXCEPT ![r] =
                 IF Refusal(q) # 0 THEN Done(q, Refusal(q))
                 ELSE IF q.in.plane = "mount" /\ q.in.body = "odd" THEN Throw(q, "crash")
                 ELSE Mounting(q, q.in.size)]
    /\ UNCHANGED holder

(* release is a no-op for what it does not find; resync and url answer an  *)
(* unknown instance 404.                                                   *)
Named(q) ==
    IF q.in.plane = "release" THEN Done(q, 204)
    ELSE IF holder # "us" \/ q.in.body = "odd" THEN Done(q, 404)
    ELSE IF q.in.plane = "resync" THEN Done([q EXCEPT !.ran = holder], 204)
    ELSE At(q, "reconciling")

ReadBody(r) ==
    LET q == rq[r] IN
    /\ q.at = "body"
    /\ CASE q.in.body = "over" -> Step(r, Throw(q, "large"))
         [] q.in.body = "garbled" -> Step(r, Throw(q, "crash"))
         [] OTHER -> CASE q.in.plane = "rpc" -> Step(r, Accept(q))
                       [] q.in.plane \in {"mount", "batch"} -> AskMount(r)
                       [] OTHER -> Step(r, Named(q))

(* The props are validated, and then guard and load run; the redirect of a *)
(* deny is answered as JSON.                                               *)
Reconcile(r) ==
    LET q == rq[r]
        s == [q EXCEPT !.ran = "us"]
    IN
    /\ q.at = "reconciling"
    /\ \/ Step(r, Throw(q, "invalid"))
       \/ \E e \in Thrown \ {"redirect"} : Step(r, Throw(s, e))
       \/ \E status \in {200, 204} : Step(r, Done(s, status))

Outcomes == {"instance", "redirect", "invalid", "missing", "shed", "crash"}

Result(o) == IF o \in {"instance", "redirect"} THEN o ELSE "error"

(* mountOne: an entry of a batch keeps its own outcome; a single mount     *)
(* answers or throws it.                                                   *)
Settled(q, i, o) ==
    LET s == [q EXCEPT !.results[i] = Result(o),
                       !.built = IF o = "instance" THEN @ \cup {i} ELSE @] IN
    CASE q.in.plane = "batch" -> s
      [] q.in.plane = "page" /\ o = "instance" -> At(s, "render")
      [] q.in.plane = "mount" /\ o \in {"instance", "redirect"} -> Done(s, 200)
      [] OTHER -> Throw(s, o)

MountSettles(r, i) ==
    LET q == rq[r] IN
    /\ q.at = "mounting" /\ i \in DOMAIN q.results /\ q.results[i] = "none"
    /\ \E o \in Outcomes : Step(r, Settled(q, i, o))

(* Promise.all: a batch is answered when all of its entries are settled.   *)
AnswerBatch(r) ==
    LET q == rq[r] IN
    /\ q.at = "mounting" /\ q.in.plane = "batch"
    /\ \A i \in DOMAIN q.results : q.results[i] # "none"
    /\ Step(r, Done(q, 200))

Render(r) ==
    /\ rq[r].at = "render"
    /\ Step(r, Done(rq[r], 200)) \/ \E e \in Thrown : Step(r, Throw(rq[r], e))

-----------------------------------------------------------------------------
StatusOf == [large |-> 413, redirect |-> 302, invalid |-> 422, shed |-> 429,
             missing |-> 404, crash |-> 500]

(* mapRequestError: the pages for what is missing and for a crash are the  *)
(* application's, which tell a new session its id; the fallbacks do not.   *)
MapError(r) ==
    LET q == rq[r] IN
    /\ q.at = "threw"
    /\ \/ q.error \notin {"missing", "crash"} /\ Step(r, Done(q, StatusOf[q.error]))
       \/ /\ q.error \in {"missing", "crash"}
          /\ \/ Step(r, Plain(q, StatusOf[q.error]))
             \/ Step(r, Done(q, StatusOf[q.error]))
             \/ Step(r, At(q, "rejected"))

(* The instance is evicted meanwhile.                                      *)
Evict == holder # "gone" /\ holder' = "gone" /\ UNCHANGED <<rq, tokens>>

Next ==
    \/ Evict
    \/ \E r \in Requests :
         \/ Arrive(r) \/ Origin(r) \/ Throttle(r) \/ Authenticate(r) \/ Dispatch(r)
         \/ ReadBody(r) \/ Reconcile(r) \/ AnswerBatch(r) \/ Render(r) \/ MapError(r)
         \/ \E i \in 1 .. MaxBatch : MountSettles(r, i)

Spec == Init /\ [][Next]_ingressVars
-----------------------------------------------------------------------------
(* What the requests were charged for together.                            *)
Paid(qs) ==
    Total([n \in 1 .. Cardinality(Requests) |-> qs[SetToSeq(Requests)[n]].charged])

(* The statuses the handler refuses a request with, and those it answers an *)
(* error of the application's own with, when that comes before anything is  *)
(* done: not so for a page, a route or a new url.                           *)
Refuses(q) ==
    \/ q.status \in {400, 403, 404, 405, 413, 429}
    \/ q.status \in {302, 422} /\ q.in.plane \notin {"page", "route", "url"}

(* The answer is what happened (the mount-batch comment, "one entry's       *)
(* failure never poisoning its siblings", and handler.ts:1666, "nothing was *)
(* built"): a refused request mounted nothing, ran nothing and, short of    *)
(* the entry it was charged for, cost nothing; a batch answers every        *)
(* position with what became of that entry; a session that was given an     *)
(* instance by an answer is told its id; and all mounts together were paid  *)
(* for.                                                                     *)
AnswersAreTrue ==
    /\ \A r \in Requests :
         LET q == rq[r] IN
         q.at = "done" =>
         /\ Refuses(q) => q.built = {} /\ q.ran = "nobody"
         /\ q.status \in {400, 413, 429} /\ q.error = "none" => q.charged = 0
         /\ q.in.plane = "batch" /\ q.status = 200 =>
                \A i \in 1 .. q.in.size : q.results[i] = "instance" <=> i \in q.built
         /\ q.in.isNew /\ q.built # {} /\ q.status # 500 => q.told
         /\ q.in.plane = "batch" /\ q.in.body = "good" => q.status # 500
    /\ tokens + Paid(rq) = Burst
    /\ \A r \in Requests : rq[r].in.plane # "page" => Cardinality(rq[r].built) <= rq[r].charged

=============================================================================
