------------------------------ MODULE Registry ------------------------------
(***************************************************************************)
(* The instance registry of packages/server-bun/src/handler.ts:            *)
(* mountInstance, buildInstance, evictEntry, the caps, subscribeSession    *)
(* and dispose.                                                            *)
(*                                                                         *)
(* Mounts, streams and timers share `sessions`, `byInstanceId` and         *)
(* `unattached`, and await guards, storage and loaders in the middle.  A   *)
(* mount builds at most one instance: an instance is named by its mount,   *)
(* and so is its registry entry.                                           *)
(*                                                                         *)
(* Abstraction.  Consecutive awaits that read and write nothing shared are *)
(* one.  Storage is what it may hand to create: the session data of an     *)
(* earlier instance of the key.  Time is left out: a timer fires at any    *)
(* time.  The byte budget, which sheds as the session cap does, and the    *)
(* mount throttle are left out.                                            *)
(***************************************************************************)
EXTENDS Naturals, Sequences, FiniteSets, Functions, Filter

CONSTANTS
    Mounts,         \* mounts; also the instances they build
    NoMount,        \* no instance
    Keys,           \* a session's keys of pattern and path
    Sids,           \* session ids
    Principals,     \* session data a request authenticates to
    Streams,        \* event streams and sockets
    Sockets,        \* those of Streams that are sockets
    NoStream,       \* a mount that names no stream
    sid,            \* the session of a key or stream
    Requests,       \* what a mount may ask for
    MaxPerSession,  \* maxInstancesPerSession
    MaxUnattached   \* maxUnattachedInstances

(* What the constants are assumed to be.                                   *)
RegistryConstantsOK ==
    /\ NoMount \notin Mounts /\ NoStream \notin Streams
    /\ Sockets \subseteq Streams
    /\ sid \in [Keys \cup Streams -> Sids]
    /\ Requests \subseteq
         [key : Keys, principal : Principals, stream : Streams \cup {NoStream}]
    /\ \A r \in Requests : r.stream # NoStream => sid[r.stream] = sid[r.key]
    /\ {MaxPerSession, MaxUnattached} \subseteq Nat

VARIABLES
    pc,          \* per mount: the await it is at
    request,     \* per mount: its key, principal and stream
    got,         \* per mount: the entry it hands out
    life,        \* per instance: "none", "live", "disposed", "orphan"
    session,     \* per instance: its session data
    entries,     \* the values of `sessions`, in order of registration
    byInstanceId,
    unattached,  \* least recently used first
    timers,      \* entries with an eviction timer
    attached,    \* everAttached
    reused,      \* history: entries whose timer a warm mount has cleared
    stream,      \* per stream: "no", "open", "closed"
    unsubs,      \* per stream: the keys of its unsubs
    listening,   \* per stream: the instances that have its listener
    disposed     \* of the handler

mounts == <<pc, request, got>>
instances == <<life, session>>
registry == <<entries, byInstanceId, unattached, timers, attached, reused>>
wires == <<stream, unsubs, listening>>
vars == <<mounts, instances, registry, wires, disposed>>

Key(m) == request[m].key
Registered == Range(entries)
At(k) == {e \in Registered : Key(e) = k}
Held(e) == \E s \in Streams : e \in listening[s]    \* subscriberCount > 0
Slice(i) == Only(entries, {e \in Registered : sid[Key(e)] = i})

Init ==
    /\ pc = [m \in Mounts |-> "idle"]
    /\ request = [m \in Mounts |-> <<>>]
    /\ got = [m \in Mounts |-> NoMount]
    /\ life = [m \in Mounts |-> "none"]
    /\ session = [m \in Mounts |-> <<>>]
    /\ entries = <<>> /\ byInstanceId = {} /\ unattached = <<>>
    /\ timers = {} /\ attached = {} /\ reused = {}
    /\ stream = [s \in Streams |-> "no"]
    /\ unsubs = [s \in Streams |-> {}] /\ listening = [s \in Streams |-> {}]
    /\ disposed = FALSE

-----------------------------------------------------------------------------
(* Eviction *)

Without(seq, es) == Only(seq, Range(seq) \ es)
FirstOf(seq, n) == {seq[i] : i \in {j \in DOMAIN seq : j <= n}}
Excess(n, limit) == IF n > limit THEN n - limit ELSE 0

(* Mutant: subscribers do not protect an instance.                         *)
ShedIdleHeld(slice, keep, limit) ==
    FirstOf(Without(slice, keep), Excess(Len(slice) + 1, limit))

(* shedIdleInstances: oldest first, until fewer than limit remain.         *)
ShedIdle(slice, keep, limit) ==
    FirstOf(Only(slice, {e \in Range(slice) \ keep : ~Held(e)}),
            Excess(Len(slice) + 1, limit))

(* enforceUnattachedCap: least recently used first, never the new one.     *)
ShedUnattached(lru, keep) ==
    FirstOf(Without(lru, {keep}), Excess(Len(lru), MaxUnattached))

(* evictEntry for each of gone.  A registered entry owns its key           *)
(* (RegistryAgrees), as the identity check there asks.                     *)
Evict(gone) ==
    /\ entries' = Without(entries, gone)
    /\ byInstanceId' = byInstanceId \ gone
    /\ unattached' = Without(unattached, gone)
    /\ timers' = timers \ gone
    /\ life' = [e \in Mounts |-> IF e \in gone THEN "disposed" ELSE life[e]]

(* The mount gate: a session at its cap sheds idle instances, and refuses  *)
(* the mount when that makes no room.                                      *)
Admit(m, k) ==
    LET slice == Slice(sid[k])
        shed == ShedIdle(slice, {}, MaxPerSession)
    IN /\ Evict(shed)
       /\ pc' = [pc EXCEPT ![m] = IF Len(Without(slice, shed)) >= MaxPerSession
                                  THEN "done" ELSE "building"]

-----------------------------------------------------------------------------
(* Mounts *)

(* Events, timers too, wait for the microtasks that answer a mount.         *)
Quiet == \A m \in Mounts : pc[m] # "ready"

(* A GET names no stream; a control message names one that may be open or  *)
(* not; a socket's frame comes from the socket, while it is open.          *)
Request(m, r) ==
    /\ pc[m] = "idle" /\ Quiet /\ ~disposed
    /\ r.stream \in Sockets => stream[r.stream] = "open"
    /\ request' = [request EXCEPT ![m] = r]

(* Warm reuse: the entry's timer is cleared and it is reconciled.          *)
Reuse(m, r) ==
    /\ Request(m, r)
    /\ \E e \in At(r.key) :
        /\ session[e] = r.principal
        /\ got' = [got EXCEPT ![m] = e]
        /\ timers' = timers \ {e}
        /\ reused' = IF Held(e) THEN reused ELSE reused \cup {e}
        /\ unattached' = IF e \in Range(unattached)
                         THEN Append(Without(unattached, {e}), e) ELSE unattached
    /\ pc' = [pc EXCEPT ![m] = "reconciling"]
    /\ UNCHANGED <<instances, entries, byInstanceId, attached, wires, disposed>>

(* The session has changed: the entry goes, whoever listens.               *)
Replace(m, r) ==
    /\ Request(m, r)
    /\ \E e \in At(r.key) : session[e] # r.principal /\ Evict({e})
    /\ pc' = [pc EXCEPT ![m] = "replacing"]
    /\ UNCHANGED <<got, session, attached, reused, wires, disposed>>

Fresh(m, r) ==
    /\ Request(m, r)
    /\ At(r.key) = {}
    /\ Admit(m, r.key)
    /\ UNCHANGED <<got, session, attached, reused, wires, disposed>>

(* The old instance is disposed of and its row deleted; the key is not     *)
(* looked up again.                                                        *)
Replaced(m) ==
    /\ pc[m] = "replacing"
    /\ Admit(m, Key(m))
    /\ UNCHANGED <<request, got, session, attached, reused, wires, disposed>>

(* runGuard denies, or storage fails: nothing is built.                    *)
Deny(m) ==
    /\ pc[m] = "building"
    /\ pc' = [pc EXCEPT ![m] = "done"]
    /\ UNCHANGED <<request, got, instances, registry, wires, disposed>>

(* LiveInstance.create: setup runs, with the session of the request or of  *)
(* the row of an earlier instance of the key.                              *)
Create(m) ==
    /\ pc[m] = "building"
    /\ pc' = [pc EXCEPT ![m] = "loading"]
    /\ life' = [life EXCEPT ![m] = "live"]
    /\ \E p \in {request[m].principal} \cup
                {session[e] : e \in {f \in Mounts : life[f] # "none" /\ Key(f) = Key(m)}} :
          session' = [session EXCEPT ![m] = p]
    /\ UNCHANGED <<request, got, registry, wires, disposed>>

(* setup throws after it has subscribed, or the first snapshot fails:      *)
(* create rejects, and nobody disposes of what it made.                    *)
CreateFails(m) ==
    /\ \/ pc[m] = "building" /\ session' = [session EXCEPT ![m] = request[m].principal]
       \/ pc[m] = "loading" /\ UNCHANGED session
    /\ pc' = [pc EXCEPT ![m] = "done"]
    /\ life' = [life EXCEPT ![m] = "orphan"]
    /\ UNCHANGED <<request, got, registry, wires, disposed>>

(* Mutant: a redirect from load leaves the instance alone.                 *)
LoadThrowsKeeps(m) ==
    /\ pc[m] = "loading"
    /\ pc' = [pc EXCEPT ![m] = "done"]
    /\ UNCHANGED <<request, got, instances, registry, wires, disposed>>

(* load redirects: the instance is disposed of.                            *)
LoadThrows(m) ==
    /\ pc[m] = "loading"
    /\ pc' = [pc EXCEPT ![m] = "done"]
    /\ life' = [life EXCEPT ![m] = "disposed"]
    /\ UNCHANGED <<request, got, session, registry, wires, disposed>>

(* A mount of the same key has registered meanwhile: it wins.              *)
Lose(m) ==
    /\ pc[m] = "loading"
    /\ \E winner \in At(Key(m)) : got' = [got EXCEPT ![m] = winner]
    /\ life' = [life EXCEPT ![m] = "disposed"]
    /\ pc' = [pc EXCEPT ![m] = "losing"]
    /\ UNCHANGED <<request, session, registry, wires, disposed>>

(* What sessions, unattached and the caps become with the entry m; gone is *)
(* what the caps shed.  Map.set takes the place of an entry of the key.    *)
Add(m, gone) ==
    /\ entries' = Append(Without(entries, At(Key(m)) \cup gone), m)
    /\ byInstanceId' = (byInstanceId \ gone) \cup {m}
    /\ unattached' = Append(Without(unattached, gone), m)
    /\ timers' = (timers \ gone) \cup (IF disposed THEN {} ELSE {m})
    /\ life' = [e \in Mounts |-> IF e \in gone THEN "disposed" ELSE life[e]]
    /\ got' = [got EXCEPT ![m] = m]
    /\ pc' = [pc EXCEPT ![m] = "ready"]
    /\ UNCHANGED <<request, session, attached, reused, wires, disposed>>

(* Mutant: the registration does not look for a winner.                    *)
RegisterBlind(m) == pc[m] = "loading" /\ Add(m, {})

(* The entry is registered, both caps are enforced and its timer is set.   *)
Register(m) ==
    /\ pc[m] = "loading" /\ At(Key(m)) = {}
    /\ LET lru == ShedUnattached(Append(unattached, m), m)
           slice == Append(Without(Slice(sid[Key(m)]), lru), m)
       IN Add(m, lru \cup ShedIdle(slice, {m}, MaxPerSession + 1))

(* The loser is disposed of; reconcileEntry is through or has thrown.      *)
Ready(m) ==
    /\ pc[m] \in {"losing", "reconciling"}
    /\ \/ pc' = [pc EXCEPT ![m] = "ready"] /\ UNCHANGED got
       \/ /\ pc[m] = "reconciling" /\ pc' = [pc EXCEPT ![m] = "done"]
          /\ got' = [got EXCEPT ![m] = NoMount]
    /\ UNCHANGED <<request, instances, registry, wires, disposed>>

-----------------------------------------------------------------------------
(* Streams *)

(* subscribeInstance for each of es.                                       *)
Join(s, es) ==
    LET new == es \ unsubs[s]
    IN /\ timers' = timers \ new
       /\ attached' = attached \cup new
       /\ unattached' = Without(unattached, new)
       /\ reused' = reused \ new
       /\ unsubs' = [unsubs EXCEPT ![s] = @ \cup new]
       /\ listening' = [listening EXCEPT ![s] = @ \cup new]

(* The mount is answered.  An event stream is joined while streamRegistry  *)
(* has it; a socket's message has its socket, open or not.                 *)
Answer(m) ==
    LET s == request[m].stream
    IN /\ pc[m] = "ready"
       /\ pc' = [pc EXCEPT ![m] = "done"]
       /\ IF s \in Sockets \/ (s # NoStream /\ stream[s] = "open" /\ ~disposed)
          THEN Join(s, {got[m]})
          ELSE UNCHANGED <<timers, attached, unattached, reused, unsubs, listening>>
       /\ got' = [got EXCEPT ![m] = NoMount]
       /\ UNCHANGED <<request, instances, entries, byInstanceId, stream, disposed>>

(* subscribeSession                                                        *)
Open(s) ==
    /\ stream[s] = "no" /\ Quiet /\ ~disposed
    /\ stream' = [stream EXCEPT ![s] = "open"]
    /\ Join(s, Range(Slice(sid[s])))
    /\ UNCHANGED <<mounts, instances, entries, byInstanceId, disposed>>

(* scheduleEvictionIfIdle for those of es the registry still knows, when   *)
(* the listeners are heard.                                                *)
Arm(es, heard) ==
    LET idle == {e \in es \cap byInstanceId : \A s \in Streams : e \notin heard[s]}
    IN /\ timers' = IF disposed THEN timers ELSE timers \cup idle
       /\ reused' = IF disposed THEN reused ELSE reused \ idle

(* Mutant: the timers are armed before the listeners are gone.             *)
CloseArmsFirst(s) ==
    /\ stream[s] = "open" /\ Quiet
    /\ stream' = [stream EXCEPT ![s] = "closed"]
    /\ listening' = [listening EXCEPT ![s] = {}]
    /\ Arm(unsubs[s], listening)
    /\ UNCHANGED <<mounts, instances, entries, byInstanceId, unattached, attached,
                   unsubs, disposed>>

(* cleanup: unsubs keeps its keys.                                         *)
Close(s) ==
    /\ stream[s] = "open" /\ Quiet
    /\ stream' = [stream EXCEPT ![s] = "closed"]
    /\ listening' = [listening EXCEPT ![s] = {}]
    /\ Arm(unsubs[s], listening')
    /\ UNCHANGED <<mounts, instances, entries, byInstanceId, unattached, attached,
                   unsubs, disposed>>

(* releaseInstance: the client has abandoned an instance.                  *)
Release(s, e) ==
    /\ stream[s] = "open" /\ e \in unsubs[s] /\ Quiet
    /\ s \in Sockets \/ ~disposed
    /\ unsubs' = [unsubs EXCEPT ![s] = @ \ {e}]
    /\ listening' = [listening EXCEPT ![s] = @ \ {e}]
    /\ Arm({e}, listening')
    /\ UNCHANGED <<mounts, instances, entries, byInstanceId, unattached, attached,
                   stream, disposed>>

(* The timer of an entry, which nobody holds (IdleArmedButReused), fires.   *)
TimerFires(e) ==
    /\ e \in timers /\ Quiet
    /\ Evict({e})
    /\ UNCHANGED <<mounts, session, attached, reused, wires, disposed>>

(* dispose of the handler: mounts under way go on.                         *)
Dispose ==
    /\ ~disposed /\ Quiet
    /\ disposed' = TRUE
    /\ Evict(Registered)
    /\ UNCHANGED <<mounts, session, attached, reused, wires>>

Next ==
    \/ \E m \in Mounts, r \in Requests : Reuse(m, r) \/ Replace(m, r) \/ Fresh(m, r)
    \/ \E m \in Mounts :
        \/ Replaced(m) \/ Deny(m) \/ Create(m) \/ CreateFails(m) \/ LoadThrows(m)
        \/ Lose(m) \/ Register(m) \/ Ready(m) \/ Answer(m) \/ TimerFires(m)
    \/ \E s \in Streams : Open(s) \/ Close(s) \/ \E e \in Mounts : Release(s, e)
    \/ Dispose

Spec == Init /\ [][Next]_vars

-----------------------------------------------------------------------------
(* Properties *)

(* The registries agree across every race of mounts, timers and streams:   *)
(* one entry per key, found by its id exactly while it is found by its     *)
(* key; in the least-recently-used list exactly until a client attaches;   *)
(* alive; and no timer outlives its entry.  A stream can release whatever  *)
(* it listens to.                                                          *)
RegistryAgrees ==
    /\ \A s \in Streams : listening[s] \subseteq unsubs[s]
    /\ \A i, j \in DOMAIN entries : Key(entries[i]) = Key(entries[j]) => i = j
    /\ byInstanceId = Registered
    /\ Range(unattached) = Registered \ attached
    /\ Len(unattached) = Cardinality(Range(unattached))
    /\ \A e \in Registered : life[e] = "live"
    /\ timers \subseteq Registered

(* Whatever a mount ends with, and whoever wins: an instance with topic    *)
(* subscriptions is registered, or a mount still builds it.  (One whose    *)
(* create rejects is neither: life "orphan".)                              *)
NoOrphans ==
    \A e \in Mounts : life[e] = "live" => e \in Registered \/ pc[e] = "loading"

(* An entry nobody listens to has an eviction timer and one somebody       *)
(* listens to has none, save for the entries whose timer warm reuse has    *)
(* cleared and no stream has joined since, and after dispose.              *)
IdleArmedButReused ==
    disposed \/ \A e \in Registered \ reused : Held(e) <=> e \notin timers

(* An instance is not dropped out from under a subscriber by a timer or a  *)
(* cap: only a mount under another principal, or shutdown, removes it.     *)
SparesHeld ==
    \A e \in Registered : Held(e) /\ e \notin Range(entries') =>
        \/ disposed'
        \/ \E m \in Mounts : pc'[m] = "replacing" /\ pc[m] = "idle"
              /\ request'[m].key = Key(e) /\ request'[m].principal # session[e]

(* However many mounts pass the gate together, registering an instance     *)
(* leaves its session over the cap only with instances that are held, and  *)
(* leaves no more unattached instances than their cap (the new one aside). *)
MakesRoom ==
    \A m \in Range(entries') \ Registered :
        LET slice == Only(entries', {e \in Range(entries') : sid[Key(e)] = sid[Key(m)]})
        IN /\ Len(slice) > MaxPerSession => \A e \in Range(slice) \ {m} : Held(e)
           /\ Len(unattached') <= MaxUnattached \/ unattached' = <<m>>

(* Caps and timers take only what nobody holds, and enough of it.          *)
CapsSpareHeld == [][SparesHeld /\ MakesRoom]_vars

(* docs-site/src/content/docs/concepts/wire-protocol.md:235: a dropped     *)
(* stream "only unsubscribes and re-arms the warm-TTL evict timer".        *)
ClosedHoldsNothing ==
    \A s \in Streams : stream[s] = "closed" => listening[s] \cap Registered = {}
=============================================================================
