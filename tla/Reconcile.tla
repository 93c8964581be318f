----------------------------- MODULE Reconcile -----------------------------
(***************************************************************************)
(* A warm instance reconciled to URLs: reconcileEntry and reconcileUrl of  *)
(* packages/server-bun/src/handler.ts over authorize, loadForRender and    *)
(* #runLoad of packages/core/src/instance.ts.                              *)
(*                                                                         *)
(* Requests (page loads, mounts, `url` controls) of one session share the  *)
(* instance.  Each awaits the guard, then either skips the loader, the     *)
(* props being those of the last clean reconcile, or starts it and awaits  *)
(* the render gate, which the loader's first flushed patch opens.  Loaders *)
(* stream on behind the gate; a newer run takes their writes away.         *)
(*                                                                         *)
(* Abstraction.  A request starts at most one loader run, so a run is named*)
(* by its request, and a write by the run that made it.  LiveInstance has  *)
(* the queue: here a flush is one step, and always comes (FlushArmed).     *)
(* A loader's write changes the state.  The promise hops from a settled    *)
(* guard or gate to the assignment of lastProps are one step.  A definition*)
(* without a guard behaves as one whose guard allows at once.              *)
(***************************************************************************)
EXTENDS Naturals, Sequences, SequencesExt

CONSTANTS
    Reqs,        \* requests
    First,       \* the one that built and registered the instance
    NoReq,       \* no request
    Props,       \* canonical props
    Built,       \* the props First came with
    NoProps,     \* lastProps not set
    Restored,    \* restoredFromSnapshot: no load is ever skipped
    MaxPatches   \* bound: patchState calls of a loader

ASSUME ReconcileConstantsOK ==
    /\ First \in Reqs /\ NoReq \notin Reqs
    /\ Built \in Props /\ NoProps \notin Props
    /\ Restored \in BOOLEAN /\ MaxPatches \in Nat

VARIABLES
    pc,        \* per request: where it is, or how it ended
    props,     \* per request
    skip,      \* per request: skipLoad, decided before the guard is awaited
    auth,      \* request behind #authController
    started,   \* requests in the order of their loader runs: #loadRunId is its length
    loader,    \* per request: its loader
    patches,   \* per request: patchState calls made
    gate,      \* per request: the deferred its loadForRender awaits
    render,    \* #renderGate: the request whose gate is installed
    wrote,     \* #loadWrote
    threw,     \* #loadThrew
    pending,   \* #pendingMuts
    page,      \* loaders' writes in the state
    last,      \* entry.lastProps
    disposed,  \* #disposed
    newest,    \* history: the last request the guard let through
    drained,   \* history: a write of the run in charge went out with another flush
    ruined     \* history: runs with a write discarded with a throwing draft

asked == <<pc, props, skip, auth, newest>>
runs == <<started, loader, patches, gate, render, wrote, threw>>
data == <<pending, page, drained, ruined>>
vars == <<asked, runs, data, last, disposed>>

Winner == Last(started)    \* the run that holds #loadRunId

Init ==
    /\ props = [q \in Reqs |-> IF q = First THEN Built ELSE NoProps]
    /\ pc = [q \in Reqs |-> IF q = First THEN "served" ELSE "idle"]
    /\ skip = [q \in Reqs |-> FALSE] /\ auth = NoReq
    /\ started = <<First>> /\ newest = First
    /\ gate = [q \in Reqs |-> IF q = First THEN "open" ELSE "none"]
    /\ patches = [q \in Reqs |-> 0]
    /\ render = NoReq /\ disposed = FALSE
    /\ \E first \in {"running", "over"} :
        /\ loader = [q \in Reqs |-> IF q = First THEN first ELSE "none"]
        /\ \/ /\ wrote = TRUE /\ threw = FALSE       \* a clean build, perhaps streaming on
              /\ page = <<First>> /\ last = Built
           \/ /\ first = "over" /\ page = <<>>       \* ended without a write, or threw
              /\ wrote = FALSE /\ threw \in BOOLEAN
              /\ last = IF threw THEN NoProps ELSE Built
    /\ pending = <<>> /\ drained = FALSE /\ ruined = {}

-----------------------------------------------------------------------------
(* Requests *)

(* Mutant: the props of the request do not reach the instance.             *)
BeginForgetsProps(q, p) ==
    /\ pc[q] = "idle"
    /\ pc' = [pc EXCEPT ![q] = IF disposed THEN "served" ELSE "guard"]
    /\ auth' = IF disposed THEN auth ELSE q
    /\ UNCHANGED <<props, skip, newest, runs, data, last, disposed>>

(* reconcileEntry up to the guard: the dedup is decided now, and the guard *)
(* run in flight is superseded.  A disposed instance serves what it has.   *)
Begin(q, p) ==
    /\ pc[q] = "idle"
    /\ props' = [props EXCEPT ![q] = p]
    /\ IF disposed
       THEN /\ pc' = [pc EXCEPT ![q] = "served"]
            /\ last' = p
            /\ UNCHANGED <<skip, auth>>
       ELSE /\ pc' = [pc EXCEPT ![q] = "guard"]
            /\ skip' = [skip EXCEPT ![q] = p = last /\ ~Restored]
            /\ auth' = q
            /\ UNCHANGED last
    /\ UNCHANGED <<newest, runs, data, disposed>>

(* The guard settles, either way, for a request a newer one superseded.    *)
Superseded(q) ==
    /\ pc[q] = "guard" /\ auth # q
    /\ pc' = [pc EXCEPT ![q] = "stale"]
    /\ UNCHANGED <<props, skip, auth, newest, runs, data, last, disposed>>

Denied(q) ==
    /\ pc[q] = "guard" /\ auth = q
    /\ pc' = [pc EXCEPT ![q] = "denied"]
    /\ UNCHANGED <<props, skip, auth, newest, runs, data, last, disposed>>

(* Allowed, and nothing to load: deduplicated, or disposed meanwhile.      *)
Skipped(q) ==
    /\ pc[q] = "guard" /\ auth = q
    /\ skip[q] \/ disposed
    /\ pc' = [pc EXCEPT ![q] = "served"]
    /\ last' = props[q]
    /\ newest' = q
    /\ UNCHANGED <<props, skip, auth, runs, data, disposed>>

(* Mutant: the outgoing gate is overwritten and never resolved.            *)
StartLoadOverGate(q) ==
    /\ pc[q] = "guard" /\ auth = q
    /\ ~skip[q] /\ ~disposed
    /\ pc' = [pc EXCEPT ![q] = "gate"]
    /\ newest' = q
    /\ started' = Append(started, q)
    /\ gate' = [gate EXCEPT ![q] = "shut"]
    /\ render' = q
    /\ loader' = [loader EXCEPT ![q] = "running"]
    /\ wrote' = FALSE /\ threw' = FALSE /\ drained' = FALSE
    /\ UNCHANGED <<props, skip, auth, patches, pending, page, ruined, last, disposed>>

(* Allowed: loadForRender.  The gate of the request this one supersedes    *)
(* opens on what there is; #runLoad claims the run tag.                    *)
StartLoad(q) ==
    /\ pc[q] = "guard" /\ auth = q
    /\ ~skip[q] /\ ~disposed
    /\ pc' = [pc EXCEPT ![q] = "gate"]
    /\ newest' = q
    /\ started' = Append(started, q)
    /\ gate' = [r \in Reqs |-> IF r = q THEN "shut" ELSE IF r = render THEN "open" ELSE gate[r]]
    /\ render' = q
    /\ loader' = [loader EXCEPT ![q] = "running"]
    /\ wrote' = FALSE /\ threw' = FALSE /\ drained' = FALSE
    /\ UNCHANGED <<props, skip, auth, patches, pending, page, ruined, last, disposed>>

(* Mutant: the key advances whenever the paint was released.               *)
AnswerAlwaysClean(q) ==
    /\ pc[q] = "gate" /\ gate[q] = "open"
    /\ last' = props[q]
    /\ pc' = [pc EXCEPT ![q] = "served"]
    /\ UNCHANGED <<props, skip, auth, newest, runs, data, disposed>>

(* The gate is settled and its request resumes: a redirect is thrown, else *)
(* the dedup key advances if the run is still the winner and threw nothing.*)
Answer(q) ==
    /\ pc[q] = "gate"
    /\ \/ /\ gate[q] = "refused"
          /\ pc' = [pc EXCEPT ![q] = "redirected"]
          /\ UNCHANGED last
       \/ /\ gate[q] = "open"
          /\ pc' = [pc EXCEPT ![q] = "served"]
          /\ last' = IF Winner = q /\ ~threw THEN props[q] ELSE last
    /\ UNCHANGED <<props, skip, auth, newest, runs, data, disposed>>

-----------------------------------------------------------------------------
(* Loaders *)

(* #settleRenderGate: only the run behind the installed gate settles it.   *)
SettleGate(q, how) ==
    IF render = q /\ q # NoReq
    THEN gate' = [gate EXCEPT ![q] = how] /\ render' = NoReq
    ELSE UNCHANGED <<gate, render>>

(* Mutant: a superseded run's writes are not dropped.                      *)
LoaderPatchUntagged(q) ==
    /\ loader[q] = "running" /\ patches[q] < MaxPatches
    /\ patches' = [patches EXCEPT ![q] = @ + 1]
    /\ wrote' = TRUE
    /\ pending' = IF disposed THEN pending ELSE Append(pending, q)
    /\ UNCHANGED <<asked, started, loader, gate, render, threw, page, drained, ruined,
                   last, disposed>>

(* ctx.patchState of a loader: dropped unless its run holds the tag.       *)
LoaderPatch(q) ==
    /\ loader[q] = "running" /\ patches[q] < MaxPatches
    /\ IF Winner = q
       THEN /\ patches' = [patches EXCEPT ![q] = @ + 1]
            /\ wrote' = TRUE
            /\ pending' = IF disposed THEN pending ELSE Append(pending, q)
       ELSE UNCHANGED <<patches, wrote, pending>>
    /\ UNCHANGED <<asked, started, loader, gate, render, threw, page, drained, ruined,
                   last, disposed>>

(* The loader returns; a run that holds the tag flushes before it ends.    *)
LoaderReturns(q) ==
    /\ loader[q] = "running"
    /\ loader' = [loader EXCEPT ![q] = IF Winner = q THEN "flushing" ELSE "over"]
    /\ UNCHANGED <<asked, started, patches, gate, render, wrote, threw, data, last,
                   disposed>>

(* ... its flush is through: #runLoad ends and settles the gate.           *)
LoaderFlushed(q) ==
    /\ loader[q] = "flushing"
    /\ disposed \/ ~ \E i \in DOMAIN pending : pending[i] = q
    /\ loader' = [loader EXCEPT ![q] = "over"]
    /\ SettleGate(q, "open")
    /\ UNCHANGED <<asked, started, patches, wrote, threw, data, last, disposed>>

(* Mutant: a throw ends the run without settling the gate.                 *)
LoaderThrowsShut(q) ==
    /\ loader[q] = "running"
    /\ loader' = [loader EXCEPT ![q] = "over"]
    /\ threw' = (threw \/ Winner = q)
    /\ UNCHANGED <<asked, started, patches, wrote, gate, render, data, last, disposed>>

(* It throws: data errors are userland's, a redirect goes to the request   *)
(* that still waits.  Neither counts for a run that lost the tag.          *)
LoaderThrows(q) ==
    /\ loader[q] = "running"
    /\ loader' = [loader EXCEPT ![q] = "over"]
    /\ \/ threw' = (threw \/ Winner = q) /\ SettleGate(q, "open")
       \/ SettleGate(q, "refused") /\ UNCHANGED threw
    /\ UNCHANGED <<asked, started, patches, wrote, data, last, disposed>>

-----------------------------------------------------------------------------
(* The instance around them *)

(* Mutant: any flush opens the paint.                                      *)
FlushOpensAny ==
    /\ ~disposed
    /\ pending' = <<>>
    /\ page' = page \o pending
    /\ SettleGate(Winner, "open")
    /\ UNCHANGED <<asked, started, loader, patches, wrote, threw, last, disposed,
                   drained, ruined>>

(* Mutant: a chunk leaves the gate to the end of the loader.               *)
FlushKeepsGate ==
    /\ ~disposed
    /\ pending' = <<>>
    /\ page' = page \o pending
    /\ UNCHANGED <<asked, runs, last, disposed, drained, ruined>>

(* #flushChunk.  If the loader in charge has written, patches open its     *)
(* gate, whoever wrote them; a draft that throws is discarded whole.       *)
Flush ==
    /\ ~disposed
    /\ pending' = <<>>
    /\ \/ /\ page' = page \o pending
          /\ IF wrote THEN SettleGate(Winner, "open") ELSE UNCHANGED <<gate, render>>
          /\ UNCHANGED ruined
       \/ /\ ruined' = ruined \cup Range(pending)
          /\ UNCHANGED <<page, gate, render>>
    /\ UNCHANGED <<asked, started, loader, patches, wrote, threw, last, disposed,
                   drained>>

Chunk == pending # <<>> /\ Flush

(* A flush of writes of rpcs and broadcasts alone.                         *)
OtherChunk == pending = <<>> /\ Flush

(* The pending list goes out with an rpc's ack or before an `on` handler.  *)
Drain ==
    /\ pending # <<>> /\ ~disposed
    /\ pending' = <<>>
    /\ \/ /\ page' = page \o pending
          /\ drained' = (drained \/ Winner \in Range(pending))
          /\ UNCHANGED ruined
       \/ /\ ruined' = ruined \cup Range(pending)
          /\ UNCHANGED <<page, drained>>
    /\ UNCHANGED <<asked, runs, last, disposed>>

Dispose ==
    /\ ~disposed
    /\ disposed' = TRUE
    /\ UNCHANGED <<asked, runs, data, last>>

-----------------------------------------------------------------------------
Guard(q) == Superseded(q) \/ Denied(q) \/ Skipped(q) \/ StartLoad(q)
LoaderEnds(q) == LoaderReturns(q) \/ LoaderFlushed(q) \/ LoaderThrows(q)

Next ==
    \/ \E q \in Reqs : \/ \E p \in Props : Begin(q, p)
                       \/ Guard(q) \/ Answer(q) \/ LoaderPatch(q) \/ LoaderEnds(q)
    \/ Chunk \/ OtherChunk \/ Drain \/ Dispose

Spec == Init /\ [][Next]_vars

(* The runtime: a settled gate resumes its request, flushes come.          *)
Fairness == WF_vars(Chunk) /\ \A q \in Reqs : WF_vars(Answer(q))

(* The hypothesis of what only holds when userland's code comes to an end. *)
HandlersEnd == \A q \in Reqs : WF_vars(Guard(q)) /\ WF_vars(LoaderEnds(q))

-----------------------------------------------------------------------------
(* Properties *)

(* Every variable has its type.                                            *)
TypeOK ==
    /\ pc \in [Reqs -> {"idle", "guard", "gate", "served", "stale", "denied", "redirected"}]
    /\ props \in [Reqs -> Props \cup {NoProps}]
    /\ \A q \in Reqs : props[q] = NoProps <=> pc[q] = "idle"
    /\ skip \in [Reqs -> BOOLEAN]
    /\ auth \in Reqs \cup {NoReq} /\ render \in Reqs \cup {NoReq}
    /\ started \in Seq(Reqs) /\ started # <<>> /\ newest \in Reqs
    /\ loader \in [Reqs -> {"none", "running", "flushing", "over"}]
    /\ patches \in [Reqs -> Nat]
    /\ gate \in [Reqs -> {"none", "shut", "open", "refused"}]
    /\ wrote \in BOOLEAN /\ threw \in BOOLEAN /\ disposed \in BOOLEAN
    /\ pending \in Seq(Reqs) /\ page \in Seq(Reqs)
    /\ last \in Props \cup {NoProps}
    /\ drained \in BOOLEAN /\ ruined \subseteq Reqs

(* No request waits on a gate nobody will settle: a shut gate is the       *)
(* installed one, of the run that holds the tag, and its loader has not    *)
(* ended (loadForRender: "instead of hanging on a slot this call is about  *)
(* to overwrite"; #settleRenderGate, #supersedeRenderGate).                *)
GateOwned ==
    \A q \in Reqs : gate[q] = "shut" =>
        render = q /\ Winner = q /\ loader[q] \in {"running", "flushing"}

(* A page is not painted on an unrelated flush: once the gate of the       *)
(* winning run is open, its data is in the state, or it ended without any, *)
(* or the draft that held its write threw (#flushChunk, #loadWrote).       *)
PaintHasData ==
    \A q \in Reqs : gate[q] = "open" /\ Winner = q /\ ~disposed =>
        q \in Range(page) \cup ruined \/ loader[q] = "over"

(* The first flushed patch of a loader opens its gate, unless it left with *)
(* an rpc's ack or an event's flush (loadForRender, #flushChunk).          *)
FirstPatchOpens ==
    \A q \in Reqs : gate[q] = "shut" => drained \/ q \notin Range(page)

(* Latest-wins in the state: no write of a run comes after a write of a    *)
(* newer one, whatever loaders do with their abort signal (#runLoad).      *)
LoadOrder ==
    LET w == page \o pending IN
    \A i, j \in DOMAIN w : \A k, n \in DOMAIN started :
        i < j /\ started[k] = w[i] /\ started[n] = w[j] => k <= n

(* Some run for these props did not end with its write missing.            *)
Loaded(p) ==
    \E i \in DOMAIN started :
        /\ props[started[i]] = p
        /\ started[i] \in Range(page) \cup ruined \/ loader[started[i]] = "over"

(* The dedup key names props whose load the state has seen: neither a run  *)
(* superseded before its paint nor the props of a request that was still   *)
(* waiting become the key (reconcileEntry).                                *)
KeyWasLoaded == last # NoProps /\ ~disposed => Loaded(last)

Quiet ==
    /\ pending = <<>> /\ ~disposed
    /\ \A q \in Reqs : pc[q] \notin {"guard", "gate"} /\ loader[q] \in {"none", "over"}

(* spec.md:137, `load` runs "on every URL change. ... Latest-wins": when   *)
(* everything has settled, the data on the page is of a load for the props *)
(* of the last request the guard let through, or that load has failed.     *)
LatestWins ==
    Quiet /\ page # <<>> => props[newest] \in {props[Last(page)], props[Winner]}

Ended == {"served", "stale", "denied", "redirected"}

(* Every request is answered, if guards and loaders come to an end: none is*)
(* left behind by a newer request, a throw or dispose (loadForRender).     *)
(* What has ended stays so: again and again, no request waits.             *)
EveryRequestEnds == HandlersEnd => []<>(\A q \in Reqs : pc[q] \in Ended \cup {"idle"})
=============================================================================
