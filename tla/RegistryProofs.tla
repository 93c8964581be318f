--------------------------- MODULE RegistryProofs ---------------------------
(***************************************************************************)
(* What Registry promises, for any number of mounts, sessions and streams  *)
(* and for any caps.                                                       *)
(*                                                                         *)
(* RegistryAgrees is not inductive: it does not say that what a mount is   *)
(* about to hand out has been built (Settled), that a client's streams     *)
(* know only instances that left the unattached list (Streaming), or that  *)
(* a timer is not of an entry warm reuse has cleared (Tables).  Handlers   *)
(* differ in how they change the tables in six ways only (Change); the     *)
(* invariant is shown for each of them.                                    *)
(***************************************************************************)
EXTENDS Registry, FilterProofs

States == {"idle", "replacing", "building", "loading", "losing", "reconciling",
           "ready", "done"}

(* Mounts that have built, or will never build, their instance.            *)
Done == {m \in Mounts : pc[m] \in {"ready", "done"}}

MountTypes ==
    /\ pc \in [Mounts -> States]
    /\ request \in [Mounts -> Requests \cup {<<>>}]
    /\ got \in [Mounts -> Mounts \cup {NoMount}]
    /\ life \in [Mounts -> {"none", "live", "disposed", "orphan"}]
    /\ \A m \in Mounts : pc[m] # "idle" => request[m] \in Requests

TableTypes ==
    /\ entries \in Seq(Mounts) /\ unattached \in Seq(Mounts)
    /\ timers \in SUBSET Mounts /\ byInstanceId \in SUBSET Mounts
    /\ attached \in SUBSET Mounts /\ reused \in SUBSET Mounts
    /\ unsubs \in [Streams -> SUBSET Mounts] /\ listening \in [Streams -> SUBSET Mounts]
    /\ disposed \in BOOLEAN

Tables ==
    /\ IsInjective(entries) /\ IsInjective(unattached)
    /\ \A e, f \in Registered : Key(e) = Key(f) => e = f
    /\ byInstanceId = Registered /\ Range(unattached) = Registered \ attached
    /\ timers \subseteq Registered /\ timers \cap reused = {}

Streaming == \A s \in Streams : listening[s] \subseteq unsubs[s] /\ unsubs[s] \subseteq attached

Settled == Registered \cup attached \cup reused \subseteq Done

Handed == \A m \in Mounts : pc[m] \in {"losing", "reconciling", "ready"} => got[m] \in Done

Lives ==
    /\ \A e \in Registered : life[e] = "live"
    /\ \A m \in Mounts : pc[m] = "loading" => life[m] = "live"

IInv ==
    /\ MountTypes /\ TableTypes
    /\ Tables /\ Streaming /\ Settled /\ Handed /\ Lives
    /\ NoOrphans /\ IdleArmedButReused

-----------------------------------------------------------------------------
(* Sequences without repetition *)

LEMMA WithoutPicks ==
    ASSUME NEW S, NEW seq \in Seq(S), NEW es
    PROVE  /\ Without(seq, es) \in Seq(S) /\ Range(Without(seq, es)) = Range(seq) \ es
           /\ IsInjective(seq) => IsInjective(Without(seq, es))
<1>1. Only(seq, Range(seq) \ es) \in Seq(S)
      /\ Range(Only(seq, Range(seq) \ es)) = Range(seq) \cap (Range(seq) \ es)
  BY OnlyPicks
<1>2. IsInjective(seq) => IsInjective(Only(seq, Range(seq) \ es))  BY OnlyInjective
<1>3. Range(seq) \cap (Range(seq) \ es) = Range(seq) \ es  OBVIOUS
<1>4. Without(seq, es) = Only(seq, Range(seq) \ es)  BY DEF Without
<1> QED BY <1>1, <1>2, <1>3, <1>4, Zenon

LEMMA FirstOfPart == \A seq, n : FirstOf(seq, n) \subseteq Range(seq)
BY DEF FirstOf, Range

LEMMA SliceParts ==
    ASSUME TableTypes, Tables, NEW i
    PROVE  /\ Slice(i) \in Seq(Mounts) /\ IsInjective(Slice(i))
           /\ Range(Slice(i)) = {e \in Registered : sid[Key(e)] = i}
<1> DEFINE es == {e \in Registered : sid[Key(e)] = i}
<1>1. entries \in Seq(Mounts) /\ IsInjective(entries)  BY DEF TableTypes, Tables
<1>2. es \subseteq Range(entries)  BY DEF Registered
<1>3. Slice(i) = Only(entries, es)  BY DEF Slice
<1> HIDE DEF es
<1>4. /\ Only(entries, es) \in Seq(Mounts) /\ IsInjective(Only(entries, es))
      /\ Range(Only(entries, es)) = Range(entries) \cap es
  BY <1>1, OnlyPicks, OnlyInjective
<1> QED BY <1>2, <1>3, <1>4 DEF es

(* What the session cap sheds.                                             *)
LEMMA ShedIdleParts ==
    ASSUME NEW slice \in Seq(Mounts), NEW keep, NEW limit
    PROVE  ShedIdle(slice, keep, limit) \subseteq {e \in Range(slice) \ keep : ~Held(e)}
<1> DEFINE idle == {e \in Range(slice) \ keep : ~Held(e)}
<1>1. ShedIdle(slice, keep, limit) = FirstOf(Only(slice, idle), Excess(Len(slice) + 1, limit))
  BY DEF ShedIdle
<1> HIDE DEF idle
<1>2. Range(Only(slice, idle)) \subseteq idle  BY OnlyPicks
<1> QED BY <1>1, <1>2, FirstOfPart DEF idle

LEMMA ShedUnattachedParts ==
    ASSUME NEW lru \in Seq(Mounts), NEW keep
    PROVE  ShedUnattached(lru, keep) \subseteq Range(lru) \ {keep}
BY FirstOfPart, WithoutPicks DEF ShedUnattached

-----------------------------------------------------------------------------
(* The mounts *)

(* A mount goes on to its next await, to which it may bring an instance.   *)
Moves(m, to) ==
    /\ pc' = [pc EXCEPT ![m] = to]
    /\ pc[m] # "done" /\ (pc[m] = "ready" => to = "done")
    /\ \/ pc[m] # "idle" /\ request' = request
       \/ pc[m] = "idle" /\ \E r \in Requests : request' = [request EXCEPT ![m] = r]
    /\ \/ got' = got /\ (to \in {"losing", "reconciling", "ready"} =>
                            pc[m] \in {"losing", "reconciling", "ready"})
       \/ \E g \in Mounts \cup {NoMount} :
             /\ got' = [got EXCEPT ![m] = g]
             /\ to \in {"losing", "reconciling", "ready"} => g \in Done \/ (g = m /\ to = "ready")

LEMMA AtRegistered == \A k : At(k) \subseteq Registered
BY DEF At

LEMMA MountsMove ==
    ASSUME MountTypes, TableTypes, Settled, Next
    PROVE  \/ UNCHANGED <<pc, request, got>>
           \/ \E m \in Mounts, to \in States : Moves(m, to)
<1>a. Registered \subseteq Done /\ Registered \subseteq Mounts
  BY DEF Settled, Done
<1> USE DEF States
<1>1. ASSUME NEW m \in Mounts, NEW r \in Requests, Reuse(m, r)
      PROVE  Moves(m, "reconciling")
  BY <1>1, <1>a, AtRegistered DEF Reuse, Request, Moves
<1>2. ASSUME NEW m \in Mounts, NEW r \in Requests, Replace(m, r)
      PROVE  Moves(m, "replacing")
  BY <1>2 DEF Replace, Request, Moves
<1>3. ASSUME NEW m \in Mounts, NEW k, Admit(m, k)
      PROVE  pc' = [pc EXCEPT ![m] = "done"] \/ pc' = [pc EXCEPT ![m] = "building"]
  BY <1>3 DEF Admit
<1>4. ASSUME NEW m \in Mounts, NEW r \in Requests, Fresh(m, r)
      PROVE  Moves(m, "done") \/ Moves(m, "building")
  BY <1>3, <1>4 DEF Fresh, Request, Moves
<1>5. ASSUME NEW m \in Mounts, Replaced(m)
      PROVE  Moves(m, "done") \/ Moves(m, "building")
  BY <1>3, <1>5 DEF Replaced, Moves
<1>6. ASSUME NEW m \in Mounts, Deny(m) \/ CreateFails(m) \/ LoadThrows(m)
      PROVE  Moves(m, "done")
  BY <1>6 DEF Deny, CreateFails, LoadThrows, Moves
<1>7. ASSUME NEW m \in Mounts, Create(m) PROVE Moves(m, "loading")
  BY <1>7 DEF Create, Moves
<1>8. ASSUME NEW m \in Mounts, Lose(m) PROVE Moves(m, "losing")
  BY <1>8, <1>a, AtRegistered DEF Lose, Moves
<1>9. ASSUME NEW m \in Mounts, Register(m) PROVE Moves(m, "ready")
  BY <1>9 DEF Register, Add, Moves
<1>10. ASSUME NEW m \in Mounts, Ready(m) PROVE Moves(m, "ready") \/ Moves(m, "done")
  BY <1>10 DEF Ready, Moves
<1>11. ASSUME NEW m \in Mounts, Answer(m) PROVE Moves(m, "done")
  BY <1>11 DEF Answer, Moves
<1>12. ASSUME \/ \E m \in Mounts : TimerFires(m)
              \/ \E s \in Streams : Open(s) \/ Close(s) \/ \E e \in Mounts : Release(s, e)
              \/ Dispose
       PROVE  UNCHANGED <<pc, request, got>>
  BY <1>12 DEF TimerFires, Open, Close, Release, Dispose, mounts
<1> QED
  BY <1>1, <1>2, <1>4, <1>5, <1>6, <1>7, <1>8, <1>9, <1>10, <1>11, <1>12 DEF Next

(* Mounts go on: what is done stays done, under the key it has.            *)
LEMMA MountsStep ==
    ASSUME MountTypes, TableTypes, Settled, Handed, Next
    PROVE  /\ pc' \in [Mounts -> States] /\ request' \in [Mounts -> Requests \cup {<<>>}]
           /\ got' \in [Mounts -> Mounts \cup {NoMount}]
           /\ \A o \in Mounts : pc'[o] # "idle" => request'[o] \in Requests
           /\ Done \subseteq Done' /\ Handed'
           /\ \A e \in Done : request'[e] = request[e]
<1>1. CASE UNCHANGED <<pc, request, got>>
  BY <1>1 DEF MountTypes, Done, Handed
<1>2. ASSUME NEW m \in Mounts, NEW to \in States, Moves(m, to)
      PROVE  /\ pc' \in [Mounts -> States] /\ request' \in [Mounts -> Requests \cup {<<>>}]
             /\ got' \in [Mounts -> Mounts \cup {NoMount}]
             /\ \A o \in Mounts : pc'[o] # "idle" => request'[o] \in Requests
             /\ Done \subseteq Done' /\ Handed'
             /\ \A e \in Done : request'[e] = request[e]
  <2>1. pc' \in [Mounts -> States] /\ pc'[m] = to /\ \A o \in Mounts \ {m} : pc'[o] = pc[o]
    BY <1>2 DEF Moves, MountTypes
  <2>2. Done \subseteq Done'  BY <1>2, <2>1 DEF Moves, Done
  <2>3. request' \in [Mounts -> Requests \cup {<<>>}] /\ \A e \in Done : request'[e] = request[e]
    BY <1>2 DEF Moves, MountTypes, Done
  <2>6. \A o \in Mounts : pc'[o] # "idle" => request'[o] \in Requests
    BY <1>2, <2>1 DEF Moves, MountTypes
  <2>4. got' \in [Mounts -> Mounts \cup {NoMount}] /\ \A o \in Mounts \ {m} : got'[o] = got[o]
    BY <1>2 DEF Moves, MountTypes
  <2>5. ASSUME NEW o \in Mounts, pc'[o] \in {"losing", "reconciling", "ready"}
        PROVE  got'[o] \in Done'
    <3>1. CASE o # m  BY <2>1, <2>2, <2>4, <2>5, <3>1 DEF Handed
    <3>2. CASE o = m
      <4>1. CASE /\ got' = got
                 /\ to \in {"losing", "reconciling", "ready"} =>
                       pc[m] \in {"losing", "reconciling", "ready"}
        BY <2>1, <2>2, <2>5, <3>2, <4>1 DEF Handed
      <4>2. ASSUME NEW g \in Mounts \cup {NoMount}, got' = [got EXCEPT ![m] = g],
                   to \in {"losing", "reconciling", "ready"} =>
                      g \in Done \/ (g = m /\ to = "ready")
            PROVE  got'[o] \in Done'
        <5>1. got'[o] = g  BY <3>2, <4>2 DEF MountTypes
        <5>2. m \in Done' \/ to # "ready"  BY <2>1 DEF Done
        <5> QED BY <2>1, <2>2, <2>5, <3>2, <4>2, <5>1, <5>2
      <4> QED BY <1>2, <4>1, <4>2 DEF Moves
    <3> QED BY <3>1, <3>2
  <2> QED BY <2>1, <2>2, <2>3, <2>4, <2>5, <2>6 DEF Handed
<1> QED BY <1>1, <1>2, MountsMove

LEMMA InjectiveCardinality ==
    ASSUME NEW S, NEW seq \in Seq(S), IsInjective(seq)
    PROVE  IsFiniteSet(Range(seq)) /\ Cardinality(Range(seq)) = Len(seq)
<1>1. DOMAIN seq = 1 .. Len(seq) /\ seq \in [1 .. Len(seq) -> S] /\ Len(seq) \in Nat
  BY LenProperties
<1>2. seq \in Bijection(1 .. Len(seq), Range(seq))
  <2>1. seq \in [1 .. Len(seq) -> Range(seq)]  BY <1>1 DEF Range
  <2>2. \A y \in Range(seq) : \E i \in 1 .. Len(seq) : seq[i] = y  BY <1>1 DEF Range
  <2> QED BY <1>1, <2>1, <2>2 DEF Bijection, Injection, Surjection, IsInjective
<1>3. ExistsBijection(1 .. Len(seq), Range(seq))  BY <1>2 DEF ExistsBijection
<1> QED BY <1>1, <1>3, FS_NatBijection, FS_CountingElements

-----------------------------------------------------------------------------
(* The tables: what a handler may do to them *)

Keeps == UNCHANGED <<entries, byInstanceId, unattached, timers, attached, reused,
                     unsubs, listening, disposed>>

(* Entries are evicted.                                                    *)
Sheds(gone) ==
    /\ gone \subseteq Registered
    /\ entries' = Without(entries, gone) /\ byInstanceId' = byInstanceId \ gone
    /\ unattached' = Without(unattached, gone) /\ timers' = timers \ gone
    /\ UNCHANGED <<attached, reused, unsubs, listening>>
    /\ disposed' = disposed \/ disposed' = TRUE

(* A warm mount clears the timer of e.                                     *)
Warms(e) ==
    /\ e \in Registered
    /\ timers' = timers \ {e}
    /\ reused' = IF Held(e) THEN reused ELSE reused \cup {e}
    /\ \/ unattached' = unattached
       \/ e \in Range(unattached) /\ unattached' = Append(Without(unattached, {e}), e)
    /\ UNCHANGED <<entries, byInstanceId, attached, unsubs, listening, disposed>>

(* m is registered.                                                        *)
Adds(m, gone) ==
    /\ gone \subseteq Registered /\ m \notin Done /\ m \in Done'
    /\ \A e \in Registered : Key(e) # Key(m)
    /\ entries' = Append(Without(entries, At(Key(m)) \cup gone), m)
    /\ byInstanceId' = (byInstanceId \ gone) \cup {m}
    /\ unattached' = Append(Without(unattached, gone), m)
    /\ timers' = (timers \ gone) \cup (IF disposed THEN {} ELSE {m})
    /\ UNCHANGED <<request, attached, reused, unsubs, listening, disposed>>

(* A stream listens to es.                                                 *)
Joins(s, es) ==
    /\ es \subseteq Done
    /\ Join(s, es)
    /\ UNCHANGED <<entries, byInstanceId, disposed>>

(* A stream leaves es.                                                     *)
Leaves(s, es) ==
    /\ es \subseteq unsubs[s]
    /\ unsubs' = unsubs \/ unsubs' = [unsubs EXCEPT ![s] = @ \ es]
    /\ listening' = [listening EXCEPT ![s] = @ \ es]
    /\ Arm(es, listening')
    /\ UNCHANGED <<entries, byInstanceId, unattached, attached, disposed>>

(* Every step changes the tables in one of these ways.                     *)
Change ==
    \/ Keeps
    \/ \E gone \in SUBSET Mounts : Sheds(gone)
    \/ \E e \in Mounts : Warms(e)
    \/ \E m \in Mounts, gone \in SUBSET Mounts : Adds(m, gone)
    \/ \E s \in Streams, es \in SUBSET Mounts : Joins(s, es) \/ Leaves(s, es)

(* What a step evicts is registered; and unless it changes the principal   *)
(* or shuts down, nobody holds it.                                         *)
LEMMA AdmitSheds ==
    ASSUME TableTypes, Tables, NEW k
    PROVE  LET shed == ShedIdle(Slice(sid[k]), {}, MaxPerSession)
           IN  shed \subseteq {e \in Registered : ~Held(e)}
<1>1. Slice(sid[k]) \in Seq(Mounts) /\ Range(Slice(sid[k])) \subseteq Registered
  BY SliceParts
<1>2. ShedIdle(Slice(sid[k]), {}, MaxPerSession) \subseteq
         {e \in Range(Slice(sid[k])) \ {} : ~Held(e)}
  BY <1>1, ShedIdleParts
<1> QED BY <1>1, <1>2

(* The slice the session cap looks at when m is registered.                *)
SliceWith(m, lru) == Append(Without(Slice(sid[Key(m)]), lru), m)

LEMMA SliceWithParts ==
    ASSUME TableTypes, Tables, NEW m \in Mounts, m \notin Registered, NEW lru
    PROVE  /\ SliceWith(m, lru) \in Seq(Mounts) /\ IsInjective(SliceWith(m, lru))
           /\ Range(SliceWith(m, lru)) =
                ({e \in Registered : sid[Key(e)] = sid[Key(m)]} \ lru) \cup {m}
<1> DEFINE w == Without(Slice(sid[Key(m)]), lru)
<1>1. /\ w \in Seq(Mounts) /\ IsInjective(w)
      /\ Range(w) = {e \in Registered : sid[Key(e)] = sid[Key(m)]} \ lru
  BY SliceParts, WithoutPicks
<1>2. SliceWith(m, lru) = Append(w, m)  BY DEF SliceWith
<1> HIDE DEF w
<1>3. m \notin Range(w)  BY <1>1
<1> QED BY <1>1, <1>2, <1>3, AppendOne

LEMMA RegisterSheds ==
    ASSUME TableTypes, Tables, Streaming, NEW m \in Mounts, m \notin Registered
    PROVE  LET lru == ShedUnattached(Append(unattached, m), m)
               idle == ShedIdle(SliceWith(m, lru), {m}, MaxPerSession + 1)
           IN  /\ lru \subseteq Range(unattached)
               /\ lru \cup idle \subseteq {e \in Registered : ~Held(e)}
<1> DEFINE lru == ShedUnattached(Append(unattached, m), m)
           idle == ShedIdle(SliceWith(m, lru), {m}, MaxPerSession + 1)
<1>1. lru \subseteq Range(unattached)
  <2>1. unattached \in Seq(Mounts)  BY DEF TableTypes
  <2>2. /\ Append(unattached, m) \in Seq(Mounts)
        /\ Range(Append(unattached, m)) = Range(unattached) \cup {m}
    BY <2>1, AppendOne
  <2>3. lru \subseteq Range(Append(unattached, m)) \ {m}  BY <2>2, ShedUnattachedParts
  <2> QED BY <2>2, <2>3
<1>2. lru \subseteq {e \in Registered : ~Held(e)}
  BY <1>1 DEF Tables, Streaming, Held
<1> HIDE DEF lru
<1>3. SliceWith(m, lru) \in Seq(Mounts) /\ Range(SliceWith(m, lru)) \subseteq Registered \cup {m}
  BY SliceWithParts
<1>4. idle \subseteq {e \in Registered : ~Held(e)}
  <2>1. idle \subseteq {e \in Range(SliceWith(m, lru)) \ {m} : ~Held(e)}
    BY <1>3, ShedIdleParts
  <2> HIDE DEF idle
  <2> QED BY <1>3, <2>1
<1> QED BY <1>1, <1>2, <1>4 DEF lru

LEMMA StepChanges ==
    ASSUME RegistryConstantsOK,
           MountTypes, TableTypes, Tables, Streaming, Settled, Handed, Next
    PROVE  Change
<1>a. /\ Registered \subseteq Done /\ Registered \subseteq Mounts /\ Done \subseteq Mounts
      /\ byInstanceId = Registered
  BY DEF Settled, Done, Tables
<1>b. \A s \in Streams : unsubs[s] \subseteq Mounts /\ listening[s] \subseteq unsubs[s]
  BY DEF TableTypes, Streaming
<1>1. ASSUME NEW m \in Mounts, NEW r \in Requests, Reuse(m, r)
      PROVE  \E e \in Mounts : Warms(e)
  <2>1. PICK e \in At(r.key) :
        /\ timers' = timers \ {e}
        /\ reused' = IF Held(e) THEN reused ELSE reused \cup {e}
        /\ unattached' = IF e \in Range(unattached)
                         THEN Append(Without(unattached, {e}), e) ELSE unattached
    BY <1>1 DEF Reuse
  <2>2. e \in Registered  BY AtRegistered
  <2>3. Warms(e)  BY <1>1, <2>1, <2>2 DEF Reuse, wires, Warms
  <2> QED BY <1>a, <2>2, <2>3
<1>2. ASSUME NEW m \in Mounts, NEW r \in Requests, Replace(m, r)
      PROVE  \E gone \in SUBSET Mounts : Sheds(gone)
  <2>1. PICK e \in At(r.key) : Evict({e})  BY <1>2 DEF Replace
  <2>2. e \in Registered  BY AtRegistered
  <2>3. Sheds({e})  BY <1>2, <2>1, <2>2 DEF Replace, Evict, wires, Sheds
  <2> QED BY <1>a, <2>2, <2>3
<1>3. ASSUME NEW m, NEW k, Admit(m, k), UNCHANGED <<attached, reused, wires, disposed>>
      PROVE  \E gone \in SUBSET Mounts : Sheds(gone)
  <2> DEFINE gone == ShedIdle(Slice(sid[k]), {}, MaxPerSession)
  <2>1. gone \subseteq Registered  BY AdmitSheds
  <2>2. Evict(gone)  BY <1>3 DEF Admit
  <2> HIDE DEF gone
  <2>3. Sheds(gone)  BY <1>3, <2>1, <2>2 DEF Evict, wires, Sheds
  <2> QED BY <1>a, <2>1, <2>3
<1>4. ASSUME NEW m \in Mounts, NEW r \in Requests, Fresh(m, r)
      PROVE  \E gone \in SUBSET Mounts : Sheds(gone)
  BY <1>3, <1>4 DEF Fresh
<1>5. ASSUME NEW m \in Mounts, Replaced(m)
      PROVE  \E gone \in SUBSET Mounts : Sheds(gone)
  BY <1>3, <1>5 DEF Replaced
<1>6. ASSUME NEW m \in Mounts,
             Deny(m) \/ Create(m) \/ CreateFails(m) \/ LoadThrows(m) \/ Lose(m) \/ Ready(m)
      PROVE  Keeps
  BY <1>6 DEF Deny, Create, CreateFails, LoadThrows, Lose, Ready, registry, wires, Keeps
<1>7. ASSUME NEW m \in Mounts, Register(m)
      PROVE  \E gone \in SUBSET Mounts : Adds(m, gone)
  <2> DEFINE lru == ShedUnattached(Append(unattached, m), m)
             gone == lru \cup ShedIdle(SliceWith(m, lru), {m}, MaxPerSession + 1)
  <2>1. pc[m] = "loading" /\ At(Key(m)) = {} /\ Add(m, gone)
    BY <1>7 DEF Register, SliceWith
  <2>2. m \notin Done  BY <2>1 DEF Done
  <2>3. gone \subseteq Registered  BY <1>a, <2>2, RegisterSheds
  <2> HIDE DEF lru, gone
  <2>4. pc'[m] = "ready"  BY <2>1 DEF Add, MountTypes
  <2>5. m \in Done'  BY <2>4 DEF Done
  <2>6. \A e \in Registered : Key(e) # Key(m)  BY <2>1 DEF At
  <2>7. Adds(m, gone)  BY <2>1, <2>2, <2>3, <2>5, <2>6 DEF Add, wires, Adds
  <2> QED BY <1>a, <2>3, <2>7
<1>8. ASSUME NEW m \in Mounts, Answer(m)
      PROVE  Keeps \/ \E s \in Streams : Joins(s, {got[m]})
  <2>1. got[m] \in Done  BY <1>8 DEF Answer, Handed
  <2>2. CASE UNCHANGED <<timers, attached, unattached, reused, unsubs, listening>>
    BY <1>8, <2>2 DEF Answer, Keeps
  <2>3. CASE request[m].stream \in Streams /\ Join(request[m].stream, {got[m]})
    BY <1>8, <2>1, <2>3 DEF Answer, Joins
  <2>4. request[m].stream \in Streams \cup {NoStream} /\ Sockets \subseteq Streams
    BY <1>8 DEF Answer, MountTypes, RegistryConstantsOK
  <2> QED BY <1>8, <2>2, <2>3, <2>4 DEF Answer
<1>9. ASSUME NEW m \in Mounts, TimerFires(m) PROVE Sheds({m})
  BY <1>9 DEF TimerFires, Evict, wires, Sheds, Tables
<1>10. ASSUME NEW s \in Streams, Open(s)
       PROVE  Joins(s, Range(Slice(sid[s]))) /\ Range(Slice(sid[s])) \subseteq Mounts
  BY <1>10, <1>a, SliceParts DEF Open, Joins
<1>11. ASSUME NEW s \in Streams, Close(s) PROVE Leaves(s, unsubs[s])
  <2>1. listening[s] \ unsubs[s] = {}  BY <1>b
  <2>2. listening' = [listening EXCEPT ![s] = @ \ unsubs[s]]
    BY <1>11, <2>1 DEF Close
  <2> QED BY <1>11, <2>2 DEF Close, Leaves
<1>12. ASSUME NEW s \in Streams, NEW e \in Mounts, Release(s, e) PROVE Leaves(s, {e})
  BY <1>12 DEF Release, Leaves
<1>13. ASSUME Dispose PROVE Sheds(Registered)
  BY <1>13 DEF Dispose, Evict, wires, Sheds
<1>14. \A s, e : Joins(s, e) => e \in SUBSET Mounts  BY <1>a DEF Joins
<1>15. \A m \in Mounts : TimerFires(m) => Change  BY <1>9, Zenon DEF Change
<1>16. ASSUME NEW s \in Streams, Open(s) \/ Close(s) \/ \E e \in Mounts : Release(s, e)
       PROVE  Change
  <2>1. Range(Slice(sid[s])) \in SUBSET Mounts /\ unsubs[s] \in SUBSET Mounts
    BY <1>a, <1>b, SliceParts
  <2>2. \A e \in Mounts : {e} \in SUBSET Mounts  OBVIOUS
  <2> QED BY <1>10, <1>11, <1>12, <1>16, <2>1, <2>2, Zenon DEF Change
<1>17. \A m \in Mounts : Answer(m) => Change  BY <1>8, <1>14, Zenon DEF Change
<1>18. Dispose => Change  BY <1>13, <1>a, Zenon DEF Change
<1> QED
  BY <1>1, <1>2, <1>4, <1>5, <1>6, <1>7, <1>15, <1>16, <1>17, <1>18, Zenon DEF Next, Change

-----------------------------------------------------------------------------
(* The tables: what each way keeps of them *)

LinkInv == TableTypes /\ Tables /\ Streaming /\ Settled /\ IdleArmedButReused

(* What is registered stays under its key, when the mounts go on and no    *)
(* entry is added.                                                         *)
LEMMA KeysStay ==
    ASSUME Tables, Settled, \A e \in Done : request'[e] = request[e],
           Registered' \subseteq Registered
    PROVE  \A e, f \in Registered' : Key(e)' = Key(f)' => e = f
BY DEF Tables, Settled, Key

LEMMA KeepsLinks ==
    ASSUME LinkInv, Keeps, Done \subseteq Done', \A e \in Done : request'[e] = request[e]
    PROVE  LinkInv'
<1>1. Registered' = Registered  BY DEF Keeps, Registered
<1>2. \A e, f \in Registered' : Key(e)' = Key(f)' => e = f
  BY <1>1, KeysStay DEF LinkInv
<1>3. TableTypes' /\ Streaming' /\ Settled'
  BY <1>1 DEF LinkInv, Keeps, TableTypes, Streaming, Settled
<1>4. Tables'  BY <1>1, <1>2 DEF LinkInv, Keeps, Tables
<1>5. IdleArmedButReused'  BY <1>1 DEF LinkInv, Keeps, IdleArmedButReused, Held
<1> QED BY <1>3, <1>4, <1>5 DEF LinkInv

LEMMA ShedsLinks ==
    ASSUME LinkInv, NEW gone, Sheds(gone),
           Done \subseteq Done', \A e \in Done : request'[e] = request[e]
    PROVE  LinkInv'
<1>a. entries \in Seq(Mounts) /\ unattached \in Seq(Mounts)  BY DEF LinkInv, TableTypes
<1>1. /\ entries' \in Seq(Mounts) /\ Registered' = Registered \ gone
      /\ IsInjective(entries')
  BY <1>a, WithoutPicks DEF LinkInv, Sheds, Registered, Tables
<1>2. /\ unattached' \in Seq(Mounts) /\ Range(unattached') = Range(unattached) \ gone
      /\ IsInjective(unattached')
  BY <1>a, WithoutPicks DEF LinkInv, Sheds, Tables
<1>3. \A e, f \in Registered' : Key(e)' = Key(f)' => e = f
  BY <1>1, KeysStay DEF LinkInv
<1>4. Streaming' /\ Settled'  BY <1>1 DEF LinkInv, Sheds, Streaming, Settled
<1>5. TableTypes'  BY <1>1, <1>2 DEF LinkInv, Sheds, TableTypes
<1>6. Tables'
  <2>1. byInstanceId' = Registered' /\ timers' \subseteq Registered' /\ timers' \cap reused' = {}
    BY <1>1 DEF LinkInv, Sheds, Tables
  <2>2. Range(unattached') = Registered' \ attached'
    BY <1>1, <1>2 DEF LinkInv, Sheds, Tables
  <2> QED BY <1>1, <1>2, <1>3, <2>1, <2>2 DEF Tables
<1>7. IdleArmedButReused'
  BY <1>1 DEF LinkInv, Sheds, IdleArmedButReused, Held
<1> QED BY <1>4, <1>5, <1>6, <1>7 DEF LinkInv

LEMMA WarmsLinks ==
    ASSUME LinkInv, NEW e \in Mounts, Warms(e),
           Done \subseteq Done', \A f \in Done : request'[f] = request[f]
    PROVE  LinkInv'
<1>a. unattached \in Seq(Mounts) /\ IsInjective(unattached)  BY DEF LinkInv, TableTypes, Tables
<1>1. Registered' = Registered /\ entries' = entries  BY DEF Warms, Registered
<1>2. /\ unattached' \in Seq(Mounts) /\ Range(unattached') = Range(unattached)
      /\ IsInjective(unattached')
  <2>1. CASE unattached' = unattached  BY <1>a, <2>1
  <2>2. CASE e \in Range(unattached) /\ unattached' = Append(Without(unattached, {e}), e)
    <3> DEFINE w == Without(unattached, {e})
    <3>1. w \in Seq(Mounts) /\ Range(w) = Range(unattached) \ {e} /\ IsInjective(w)
      BY <1>a, WithoutPicks
    <3>2. unattached' = Append(w, e)  BY <2>2
    <3> HIDE DEF w
    <3>3. /\ Append(w, e) \in Seq(Mounts) /\ Range(Append(w, e)) = Range(w) \cup {e}
          /\ IsInjective(Append(w, e))
      BY <3>1, AppendOne
    <3> QED BY <2>2, <3>1, <3>2, <3>3
  <2> QED BY <2>1, <2>2 DEF Warms
<1>3. \A f, g \in Registered' : Key(f)' = Key(g)' => f = g
  BY <1>1, KeysStay DEF LinkInv
<1>4. Streaming'  BY DEF LinkInv, Warms, Streaming
<1>5. e \in Registered /\ reused' \subseteq reused \cup {e}  BY DEF Warms
<1>6. Settled'  BY <1>1, <1>5 DEF LinkInv, Warms, Settled
<1>7. TableTypes'  BY <1>1, <1>2, <1>5 DEF LinkInv, Warms, TableTypes
<1>8. Tables'
  <2>1. byInstanceId' = Registered' /\ timers' \subseteq Registered' /\ timers' \cap reused' = {}
    BY <1>1, <1>5 DEF LinkInv, Warms, Tables
  <2> QED BY <1>1, <1>2, <1>3, <2>1 DEF LinkInv, Warms, Tables
<1>9. IdleArmedButReused'
  BY <1>1 DEF LinkInv, Warms, IdleArmedButReused, Held
<1> QED BY <1>4, <1>6, <1>7, <1>8, <1>9 DEF LinkInv

LEMMA AddsLinks ==
    ASSUME LinkInv, NEW m \in Mounts, NEW gone, Adds(m, gone), Done \subseteq Done'
    PROVE  LinkInv'
<1>a. entries \in Seq(Mounts) /\ unattached \in Seq(Mounts)  BY DEF LinkInv, TableTypes
<1>b. m \notin Registered /\ At(Key(m)) = {}
  BY DEF LinkInv, Settled, Adds, At
<1>1. /\ entries' \in Seq(Mounts) /\ Registered' = (Registered \ gone) \cup {m}
      /\ IsInjective(entries')
  <2> DEFINE w == Without(entries, gone)
  <2>1. w \in Seq(Mounts) /\ Range(w) = Registered \ gone /\ IsInjective(w)
    BY <1>a, WithoutPicks DEF LinkInv, Tables, Registered
  <2>2. entries' = Append(w, m)
    <3>1. {} \cup gone = gone  OBVIOUS
    <3> QED BY <1>b, <3>1 DEF Adds
  <2> HIDE DEF w
  <2> QED BY <1>b, <2>1, <2>2, AppendOne DEF Registered
<1>2. /\ unattached' \in Seq(Mounts) /\ Range(unattached') = (Range(unattached) \ gone) \cup {m}
      /\ IsInjective(unattached')
  <2> DEFINE w == Without(unattached, gone)
  <2>1. w \in Seq(Mounts) /\ Range(w) = Range(unattached) \ gone /\ IsInjective(w)
    BY <1>a, WithoutPicks DEF LinkInv, Tables
  <2>2. unattached' = Append(w, m)  BY DEF Adds
  <2>3. m \notin Range(w)  BY <1>b, <2>1 DEF LinkInv, Tables
  <2> HIDE DEF w
  <2> QED BY <2>1, <2>2, <2>3, AppendOne
<1>c. m \notin attached /\ m \notin reused /\ \A s \in Streams : m \notin listening[s]
  BY DEF LinkInv, Settled, Streaming, Adds
<1>3. \A e, f \in Registered' : Key(e)' = Key(f)' => e = f
  BY <1>1 DEF LinkInv, Tables, Adds, Key
<1>4. Streaming' /\ Settled'  BY <1>1 DEF LinkInv, Adds, Streaming, Settled
<1>5. TableTypes'  BY <1>1, <1>2 DEF LinkInv, Adds, TableTypes
<1>6. Tables'
  <2>1. byInstanceId' = Registered'  BY <1>1 DEF LinkInv, Adds, Tables
  <2>2. timers' \subseteq Registered' /\ timers' \cap reused' = {}
    BY <1>1, <1>c DEF LinkInv, Adds, Tables
  <2>3. Range(unattached') = Registered' \ attached'
    BY <1>1, <1>2, <1>c DEF LinkInv, Adds, Tables
  <2> QED BY <1>1, <1>2, <1>3, <2>1, <2>2, <2>3 DEF Tables
<1>7. IdleArmedButReused'
  <2>1. ~Held(m)' /\ \A e : Held(e)' <=> Held(e)  BY <1>c DEF Adds, Held
  <2> QED BY <1>1, <1>c, <2>1 DEF LinkInv, Adds, IdleArmedButReused
<1> QED BY <1>4, <1>5, <1>6, <1>7 DEF LinkInv

LEMMA JoinsLinks ==
    ASSUME LinkInv, NEW s \in Streams, NEW es \in SUBSET Mounts, Joins(s, es),
           Done \subseteq Done', \A e \in Done : request'[e] = request[e]
    PROVE  LinkInv'
<1> DEFINE new == es \ unsubs[s]
<1>a. /\ timers' = timers \ new /\ attached' = attached \cup new
      /\ unattached' = Without(unattached, new) /\ reused' = reused \ new
      /\ unsubs' = [unsubs EXCEPT ![s] = @ \cup new]
      /\ listening' = [listening EXCEPT ![s] = @ \cup new]
      /\ UNCHANGED <<entries, byInstanceId, disposed>>
      /\ new \subseteq Done /\ new \subseteq Mounts
  BY DEF Joins, Join
<1> HIDE DEF new
<1>b. unattached \in Seq(Mounts)  BY DEF LinkInv, TableTypes
<1>c. unsubs \in [Streams -> SUBSET Mounts] /\ listening \in [Streams -> SUBSET Mounts]
  BY DEF LinkInv, TableTypes
<1>1. Registered' = Registered  BY <1>a DEF Registered
<1>2. /\ unattached' \in Seq(Mounts) /\ Range(unattached') = Range(unattached) \ new
      /\ IsInjective(unattached')
  BY <1>a, <1>b, WithoutPicks DEF LinkInv, Tables
<1>3. \A e, f \in Registered' : Key(e)' = Key(f)' => e = f
  BY <1>1, KeysStay DEF LinkInv
<1>4. Streaming'  BY <1>a, <1>c DEF LinkInv, Streaming
<1>5. Settled'  BY <1>1, <1>a DEF LinkInv, Settled
<1>6. TableTypes'  BY <1>1, <1>2, <1>a, <1>c DEF LinkInv, TableTypes
<1>7. Tables'
  <2>1. Range(unattached') = Registered' \ attached'
    BY <1>1, <1>2, <1>a DEF LinkInv, Tables
  <2>2. IsInjective(entries') /\ byInstanceId' = Registered'
    BY <1>1, <1>a DEF LinkInv, Tables
  <2>3. timers' \subseteq Registered' /\ timers' \cap reused' = {}
    BY <1>1, <1>a DEF LinkInv, Tables
  <2> QED BY <1>2, <1>3, <2>1, <2>2, <2>3 DEF Tables
<1>8. IdleArmedButReused'
  <2>1. \A e : Held(e)' <=> Held(e) \/ e \in new  BY <1>a, <1>c DEF Held
  <2> QED BY <1>1, <1>a, <2>1 DEF LinkInv, IdleArmedButReused
<1> QED BY <1>4, <1>5, <1>6, <1>7, <1>8 DEF LinkInv

LEMMA LeavesLinks ==
    ASSUME LinkInv, NEW s \in Streams, NEW es \in SUBSET Mounts, Leaves(s, es),
           Done \subseteq Done', \A e \in Done : request'[e] = request[e]
    PROVE  LinkInv'
<1> DEFINE idle == {e \in es \cap byInstanceId : \A t \in Streams : e \notin listening'[t]}
<1>a. /\ timers' = IF disposed THEN timers ELSE timers \cup idle
      /\ reused' = IF disposed THEN reused ELSE reused \ idle
      /\ idle \subseteq Registered
  BY DEF Leaves, Arm, LinkInv, Tables
<1>b. \A e : Held(e)' <=> \E t \in Streams : e \in listening'[t]  BY DEF Held
<1>c. \A e \in es \cap Registered : Held(e)' <=> e \notin idle
  BY <1>b DEF LinkInv, Tables
<1>d. \A e : e \notin es => (Held(e)' <=> Held(e)) /\ e \notin idle
  BY DEF LinkInv, TableTypes, Leaves, Held
<1>e. \A e : Held(e)' => Held(e)
  BY DEF LinkInv, TableTypes, Leaves, Held
<1> HIDE DEF idle
<1>1. Registered' = Registered  BY DEF Leaves, Registered
<1>3. \A e, f \in Registered' : Key(e)' = Key(f)' => e = f
  BY <1>1, KeysStay DEF LinkInv
<1>4. Streaming'
  BY DEF LinkInv, TableTypes, Leaves, Streaming
<1>5. Settled'  BY <1>1, <1>a DEF LinkInv, Leaves, Settled
<1>6. TableTypes'
  <2>1. unsubs' \in [Streams -> SUBSET Mounts] /\ listening' \in [Streams -> SUBSET Mounts]
    BY DEF LinkInv, TableTypes, Leaves
  <2>2. timers' \in SUBSET Mounts /\ reused' \in SUBSET Mounts
    BY <1>a DEF LinkInv, Tables, TableTypes
  <2> QED BY <1>1, <2>1, <2>2 DEF LinkInv, Leaves, TableTypes
<1>7. Tables'
  <2>1. timers' \subseteq Registered' /\ timers' \cap reused' = {}
    BY <1>1, <1>a DEF LinkInv, Tables
  <2> QED BY <1>1, <1>3, <2>1 DEF LinkInv, Leaves, Tables
<1>8. IdleArmedButReused'
  <2> SUFFICES ASSUME ~disposed, NEW e \in Registered \ reused' PROVE Held(e)' <=> e \notin timers'
    BY <1>1 DEF IdleArmedButReused, Leaves
  <2>1. CASE e \in es
    <3>1. CASE e \in idle  BY <1>a, <1>c, <2>1, <3>1
    <3>2. CASE e \notin idle
      <4>1. Held(e)' /\ Held(e) /\ e \notin reused  BY <1>a, <1>c, <1>e, <2>1, <3>2
      <4>2. e \notin timers  BY <4>1 DEF LinkInv, IdleArmedButReused
      <4> QED BY <1>a, <3>2, <4>1, <4>2
    <3> QED BY <3>1, <3>2
  <2>2. CASE e \notin es
    <3>1. (Held(e)' <=> Held(e)) /\ e \notin idle  BY <1>d, <2>2
    <3>2. e \notin reused /\ (e \in timers' <=> e \in timers)  BY <1>a, <3>1
    <3>3. Held(e) <=> e \notin timers  BY <3>2 DEF LinkInv, IdleArmedButReused
    <3> QED BY <3>1, <3>2, <3>3
  <2> QED BY <2>1, <2>2
<1> QED BY <1>4, <1>5, <1>6, <1>7, <1>8 DEF LinkInv

-----------------------------------------------------------------------------
(* The instances *)

LifeInv == life \in [Mounts -> {"none", "live", "disposed", "orphan"}] /\ Lives /\ NoOrphans

SameLoading == \A m \in Mounts : pc'[m] = "loading" <=> pc[m] = "loading"

LEMMA EvictEnds ==
    ASSUME LifeInv, TableTypes, Settled, NEW gone, gone \subseteq Registered, Evict(gone),
           SameLoading
    PROVE  LifeInv'
<1>1. Registered' = Registered \ gone /\ Registered \subseteq Mounts
  BY WithoutPicks DEF TableTypes, Evict, Registered, Settled, Done
<1>2. life' \in [Mounts -> {"none", "live", "disposed", "orphan"}]
      /\ \A e \in Mounts : life'[e] = IF e \in gone THEN "disposed" ELSE life[e]
  BY DEF LifeInv, Evict
<1>3. \A e \in gone : e \in Mounts /\ pc[e] # "loading"  BY DEF Settled, Done
<1> QED BY <1>1, <1>2, <1>3 DEF LifeInv, Lives, NoOrphans, SameLoading

LEMMA OneEnds ==
    ASSUME LifeInv, Settled, NEW m \in Mounts, m \notin Done,
           entries' = entries, \A e \in Mounts \ {m} : pc'[e] = pc[e],
           NEW x \in {"live", "disposed", "orphan"}, life' = [life EXCEPT ![m] = x],
           pc'[m] = "loading" <=> x = "live"
    PROVE  LifeInv'
<1>1. Registered' = Registered /\ m \notin Registered /\ Registered \subseteq Mounts
  BY DEF Registered, Settled, Done
<1>2. life' \in [Mounts -> {"none", "live", "disposed", "orphan"}]
      /\ life'[m] = x /\ \A e \in Mounts \ {m} : life'[e] = life[e]
  BY DEF LifeInv
<1>3. Lives'  BY <1>1, <1>2 DEF LifeInv, Lives
<1>4. NoOrphans'  BY <1>1, <1>2 DEF LifeInv, NoOrphans
<1> QED BY <1>2, <1>3, <1>4 DEF LifeInv

LEMMA NoneEnds ==
    ASSUME LifeInv, Settled, entries' = entries, life' = life, SameLoading
    PROVE  LifeInv'
<1>1. Registered' = Registered  BY DEF Registered
<1> QED BY <1>1 DEF LifeInv, Lives, NoOrphans, SameLoading

LEMMA LifeStep ==
    ASSUME IInv, Next
    PROVE  LifeInv'
<1> USE DEF IInv
<1>a. LifeInv  BY DEF LifeInv, MountTypes
<1>b. pc \in [Mounts -> States]  BY DEF MountTypes
<1>1. ASSUME NEW m \in Mounts, NEW to, pc' = [pc EXCEPT ![m] = to], pc[m] # "loading",
             to # "loading"
      PROVE  SameLoading
  BY <1>1, <1>b DEF SameLoading
<1>2. pc' = pc => SameLoading  BY DEF SameLoading
<1>3. ASSUME NEW m \in Mounts, NEW r \in Requests, Reuse(m, r)
      PROVE  LifeInv'
  <2>1. SameLoading  BY <1>1, <1>3 DEF Reuse, Request
  <2> QED BY <1>3, <1>a, <2>1, NoneEnds DEF Reuse, instances
<1>4. ASSUME NEW m \in Mounts, NEW r \in Requests, Replace(m, r)
      PROVE  LifeInv'
  <2>1. SameLoading  BY <1>1, <1>4 DEF Replace, Request
  <2>2. PICK e \in At(r.key) : Evict({e})  BY <1>4 DEF Replace
  <2>3. {e} \subseteq Registered  BY AtRegistered
  <2> QED BY <1>a, <2>1, <2>2, <2>3, EvictEnds
<1>5. ASSUME NEW m \in Mounts, NEW k, Admit(m, k), pc[m] # "loading"
      PROVE  LifeInv'
  <2> DEFINE gone == ShedIdle(Slice(sid[k]), {}, MaxPerSession)
  <2>1. gone \subseteq Registered  BY AdmitSheds
  <2>2. Evict(gone)  BY <1>5 DEF Admit
  <2>3. SameLoading
    <3>1. \E to : to # "loading" /\ pc' = [pc EXCEPT ![m] = to]  BY <1>5 DEF Admit
    <3> QED BY <1>1, <1>5, <3>1
  <2> HIDE DEF gone
  <2> QED BY <1>a, <2>1, <2>2, <2>3, EvictEnds
<1>6. ASSUME NEW m \in Mounts, NEW r \in Requests, Fresh(m, r)
      PROVE  LifeInv'
  BY <1>5, <1>6 DEF Fresh, Request
<1>7. ASSUME NEW m \in Mounts, Replaced(m)
      PROVE  LifeInv'
  BY <1>5, <1>7 DEF Replaced
<1>8. ASSUME NEW m \in Mounts, Deny(m) \/ Ready(m) \/ Answer(m)
      PROVE  LifeInv'
  <2>1. SameLoading  BY <1>1, <1>8 DEF Deny, Ready, Answer
  <2>2. life' = life /\ entries' = entries  BY <1>8 DEF Deny, Ready, Answer, instances, registry
  <2> QED BY <1>a, <2>1, <2>2, NoneEnds
<1>9. ASSUME NEW m \in Mounts, Create(m) \/ CreateFails(m) \/ LoadThrows(m) \/ Lose(m)
      PROVE  LifeInv'
  <2>1. m \notin Done  BY <1>9 DEF Create, CreateFails, LoadThrows, Lose, Done
  <2>2. entries' = entries  BY <1>9 DEF Create, CreateFails, LoadThrows, Lose, registry
  <2>3. ASSUME NEW to, NEW x \in {"live", "disposed", "orphan"}, to = "loading" <=> x = "live",
               pc' = [pc EXCEPT ![m] = to], life' = [life EXCEPT ![m] = x]
        PROVE  LifeInv'
    <3>1. pc'[m] = to /\ \A e \in Mounts \ {m} : pc'[e] = pc[e]  BY <1>b, <2>3
    <3> QED BY <1>a, <2>1, <2>2, <2>3, <3>1, OneEnds
  <2>4. CASE Create(m)
    <3>1. pc' = [pc EXCEPT ![m] = "loading"] /\ life' = [life EXCEPT ![m] = "live"]
      BY <2>4 DEF Create
    <3> QED BY <2>3, <3>1
  <2>5. CASE CreateFails(m)
    <3>1. pc' = [pc EXCEPT ![m] = "done"] /\ life' = [life EXCEPT ![m] = "orphan"]
      BY <2>5 DEF CreateFails
    <3> QED BY <2>3, <3>1
  <2>6. CASE LoadThrows(m)
    <3>1. pc' = [pc EXCEPT ![m] = "done"] /\ life' = [life EXCEPT ![m] = "disposed"]
      BY <2>6 DEF LoadThrows
    <3> QED BY <2>3, <3>1
  <2>7. CASE Lose(m)
    <3>1. pc' = [pc EXCEPT ![m] = "losing"] /\ life' = [life EXCEPT ![m] = "disposed"]
      BY <2>7 DEF Lose
    <3> QED BY <2>3, <3>1
  <2> QED BY <1>9, <2>4, <2>5, <2>6, <2>7
<1>10. ASSUME NEW m \in Mounts, Register(m)
       PROVE  LifeInv'
  <2> DEFINE lru == ShedUnattached(Append(unattached, m), m)
             gone == lru \cup ShedIdle(SliceWith(m, lru), {m}, MaxPerSession + 1)
  <2>1. pc[m] = "loading" /\ At(Key(m)) = {} /\ Add(m, gone)
    BY <1>10 DEF Register, SliceWith
  <2>2. m \notin Registered  BY <2>1 DEF Settled, Done
  <2>3. gone \subseteq Registered  BY <2>2, RegisterSheds
  <2> HIDE DEF lru, gone
  <2>4. Registered' = (Registered \ gone) \cup {m} /\ Registered \subseteq Mounts
    <3> DEFINE w == Without(entries, gone)
    <3>1. w \in Seq(Mounts) /\ Range(w) = Registered \ gone
      BY WithoutPicks DEF TableTypes, Registered
    <3>2. entries' = Append(w, m)
      <4>1. {} \cup gone = gone  OBVIOUS
      <4> QED BY <2>1, <4>1 DEF Add
    <3> HIDE DEF w
    <3> QED BY <3>1, <3>2, AppendOne DEF Registered, Settled, Done
  <2>5. life' \in [Mounts -> {"none", "live", "disposed", "orphan"}]
        /\ \A e \in Mounts : life'[e] = IF e \in gone THEN "disposed" ELSE life[e]
    BY <2>1 DEF Add, MountTypes
  <2>6. pc'[m] = "ready" /\ \A e \in Mounts \ {m} : pc'[e] = pc[e]
    BY <1>b, <2>1 DEF Add
  <2>7. Lives'
    <3>1. life[m] = "live" /\ m \notin gone  BY <2>1, <2>2, <2>3 DEF Lives
    <3>2. \A e \in gone : pc[e] # "loading"  BY <2>3 DEF Settled, Done
    <3> QED BY <2>4, <2>5, <2>6, <3>1, <3>2 DEF Lives
  <2>8. NoOrphans'  BY <2>4, <2>5, <2>6 DEF NoOrphans
  <2> QED BY <2>5, <2>7, <2>8 DEF LifeInv
<1>11. ASSUME NEW m \in Mounts, TimerFires(m)
       PROVE  LifeInv'
  BY <1>11, <1>2, <1>a, EvictEnds DEF TimerFires, mounts, Tables
<1>12. ASSUME NEW s \in Streams, Open(s) \/ Close(s) \/ \E e \in Mounts : Release(s, e)
       PROVE  LifeInv'
  BY <1>12, <1>2, <1>a, NoneEnds DEF Open, Close, Release, mounts, instances
<1>13. ASSUME Dispose PROVE LifeInv'
  BY <1>13, <1>2, <1>a, EvictEnds DEF Dispose, mounts
<1> QED
  BY <1>3, <1>4, <1>6, <1>7, <1>8, <1>9, <1>10, <1>11, <1>12, <1>13, Zenon DEF Next

-----------------------------------------------------------------------------
(* The invariant *)

LEMMA Started == Init => IInv
<1> SUFFICES ASSUME Init PROVE IInv
  OBVIOUS
<1>1. Registered = {} /\ Range(unattached) = {} /\ IsInjective(entries) /\ IsInjective(unattached)
  BY DEF Init, Registered, Range, IsInjective
<1>2. MountTypes  BY DEF Init, MountTypes, States
<1>3. TableTypes
  <2>1. disposed \in BOOLEAN  BY Zenon DEF Init
  <2>2. entries \in Seq(Mounts) /\ unattached \in Seq(Mounts)  BY DEF Init
  <2>3. unsubs \in [Streams -> SUBSET Mounts] /\ listening \in [Streams -> SUBSET Mounts]
    BY DEF Init
  <2>4. /\ timers \in SUBSET Mounts /\ byInstanceId \in SUBSET Mounts
        /\ attached \in SUBSET Mounts /\ reused \in SUBSET Mounts
    BY DEF Init
  <2> QED BY <2>1, <2>2, <2>3, <2>4, Zenon DEF TableTypes
<1>4. Tables /\ Streaming /\ Settled /\ Handed
  BY <1>1 DEF Init, Tables, Streaming, Settled, Handed
<1>5. Lives /\ NoOrphans /\ IdleArmedButReused
  BY <1>1 DEF Init, Lives, NoOrphans, IdleArmedButReused
<1> QED BY <1>2, <1>3, <1>4, <1>5 DEF IInv

LEMMA Goes ==
    ASSUME RegistryConstantsOK, IInv, [Next]_vars
    PROVE  IInv'
<1> USE DEF IInv
<1>1. CASE Next
  <2>1. /\ pc' \in [Mounts -> States] /\ request' \in [Mounts -> Requests \cup {<<>>}]
        /\ got' \in [Mounts -> Mounts \cup {NoMount}]
        /\ \A o \in Mounts : pc'[o] # "idle" => request'[o] \in Requests
        /\ Done \subseteq Done' /\ Handed'
        /\ \A e \in Done : request'[e] = request[e]
    BY <1>1, MountsStep
  <2>2. LifeInv'  BY <1>1, LifeStep
  <2>3. LinkInv'
    <3>1. Change  BY <1>1, StepChanges
    <3>2. LinkInv  BY DEF LinkInv
    <3> QED
      BY <2>1, <3>1, <3>2, KeepsLinks, ShedsLinks, WarmsLinks, AddsLinks, JoinsLinks,
         LeavesLinks DEF Change
  <2> QED BY <2>1, <2>2, <2>3 DEF LifeInv, LinkInv, MountTypes
<1>2. CASE UNCHANGED vars
  <2>1. UNCHANGED <<pc, request, got, life, entries, byInstanceId, unattached, timers,
                    attached, reused, unsubs, listening, disposed>>
    BY <1>2 DEF vars, mounts, instances, registry, wires
  <2>2. Done' = Done /\ Registered' = Registered  BY <2>1 DEF Done, Registered
  <2>3. LinkInv'
    <3>1. Keeps /\ LinkInv /\ Done \subseteq Done' /\ \A e \in Done : request'[e] = request[e]
      BY <2>1, <2>2 DEF Keeps, LinkInv
    <3> QED BY <3>1, KeepsLinks
  <2>4. MountTypes' /\ Handed' /\ Lives' /\ NoOrphans'
    BY <2>1, <2>2 DEF MountTypes, Handed, Lives, NoOrphans
  <2> QED BY <2>3, <2>4 DEF LinkInv
<1> QED BY <1>1, <1>2

(* The inductive invariant holds of every reachable state, for any mounts, *)
(* sessions, streams and caps: the tables agree, what a mount hands out is *)
(* built, streams know only attached instances, and no instance is orphan. *)
THEOREM InvariantHolds ==
    ASSUME RegistryConstantsOK
    PROVE  Spec => []IInv
<1>1. IInv /\ [Next]_vars => IInv'  BY Goes
<1> QED BY Started, <1>1, PTL DEF Spec

(* The registries agree in every reachable state: sessions, byInstanceId,  *)
(* the unattached list and the timers tell of the same live instances,     *)
(* whatever mounts, streams, timers and evictions race for them.           *)
THEOREM RegistryAgreesAlways ==
    ASSUME RegistryConstantsOK
    PROVE  Spec => []RegistryAgrees
<1>1. ASSUME IInv PROVE RegistryAgrees
  <2>1. entries \in Seq(Mounts) /\ unattached \in Seq(Mounts)  BY <1>1 DEF IInv, TableTypes
  <2>2. Len(unattached) = Cardinality(Range(unattached))
    BY <1>1, <2>1, InjectiveCardinality DEF IInv, Tables
  <2>3. \A i, j \in DOMAIN entries : Key(entries[i]) = Key(entries[j]) => i = j
    <3>1. \A i \in DOMAIN entries : entries[i] \in Registered  BY DEF Registered, Range
    <3> QED BY <1>1, <3>1 DEF IInv, Tables, IsInjective
  <2> QED BY <1>1, <2>2, <2>3 DEF IInv, Tables, Streaming, Lives, RegistryAgrees
<1> QED BY <1>1, InvariantHolds, PTL

(* No instance is left behind: what has been built and not disposed of is  *)
(* in the registry, or the mount that builds it is still at it.            *)
THEOREM NoOrphansEver ==
    ASSUME RegistryConstantsOK
    PROVE  Spec => []NoOrphans
<1>1. IInv => NoOrphans  BY DEF IInv
<1> QED BY <1>1, InvariantHolds, PTL

(* Until dispose, an entry without a subscriber has its eviction timer and *)
(* one with a subscriber has none, but for what warm reuse has cleared.    *)
THEOREM IdleArmed ==
    ASSUME RegistryConstantsOK
    PROVE  Spec => []IdleArmedButReused
<1>1. IInv => IdleArmedButReused  BY DEF IInv
<1> QED BY <1>1, InvariantHolds, PTL

-----------------------------------------------------------------------------
(* The caps *)

(* What a step does to the entries, and to whom.                           *)
LEMMA EntriesStep ==
    ASSUME IInv, Next
    PROVE  \/ entries' = entries
           \/ \E m \in Mounts : Register(m)
           \/ \E gone \in SUBSET Mounts : entries' = Without(entries, gone) /\
                 \/ \A e \in gone \cap Registered : ~Held(e)
                 \/ disposed'
                 \/ \E m \in Mounts : /\ pc'[m] = "replacing" /\ pc[m] = "idle"
                                      /\ \A e \in gone : /\ request'[m].key = Key(e)
                                                         /\ request'[m].principal # session[e]
<1> USE DEF IInv
<1>a. Registered \subseteq Mounts  BY DEF Settled, Done
<1>1. ASSUME NEW m \in Mounts, NEW r \in Requests, Replace(m, r)
      PROVE  \E e \in Mounts : /\ entries' = Without(entries, {e})
                               /\ pc'[m] = "replacing" /\ pc[m] = "idle"
                               /\ request'[m].key = Key(e) /\ request'[m].principal # session[e]
  <2>1. PICK e \in At(r.key) : session[e] # r.principal /\ Evict({e})  BY <1>1 DEF Replace
  <2>2. request'[m] = r /\ pc'[m] = "replacing" /\ pc[m] = "idle"
    BY <1>1 DEF Replace, Request, MountTypes
  <2>3. e \in Mounts /\ Key(e) = r.key  BY <1>a DEF At
  <2> QED BY <2>1, <2>2, <2>3 DEF Evict
<1>2. ASSUME NEW m, NEW k, Admit(m, k)
      PROVE  \E gone \in SUBSET Mounts :
                entries' = Without(entries, gone) /\ \A e \in gone \cap Registered : ~Held(e)
  <2> DEFINE gone == ShedIdle(Slice(sid[k]), {}, MaxPerSession)
  <2>1. gone \subseteq {e \in Registered : ~Held(e)}  BY AdmitSheds
  <2>2. entries' = Without(entries, gone)  BY <1>2 DEF Admit, Evict
  <2> HIDE DEF gone
  <2> QED BY <1>a, <2>1, <2>2
<1>3. ASSUME NEW e \in Mounts, TimerFires(e)
      PROVE  entries' = Without(entries, {e}) /\ (disposed' \/ ~Held(e))
  <2>1. e \in Registered \ reused /\ e \in timers  BY <1>3 DEF TimerFires, Tables
  <2> QED BY <1>3, <2>1 DEF TimerFires, Evict, IdleArmedButReused
<1>4. ASSUME Dispose PROVE entries' = Without(entries, Registered) /\ disposed'
  BY <1>4 DEF Dispose, Evict
<1>5. ASSUME NEW m \in Mounts, NEW r \in Requests, Reuse(m, r)
      PROVE  entries' = entries
  BY <1>5 DEF Reuse
<1>6. ASSUME NEW m \in Mounts, \/ Deny(m) \/ Create(m) \/ CreateFails(m) \/ LoadThrows(m)
                               \/ Lose(m) \/ Ready(m) \/ Answer(m)
      PROVE  entries' = entries
  BY <1>6 DEF Deny, Create, CreateFails, LoadThrows, Lose, Ready, Answer, registry
<1>7. ASSUME NEW s \in Streams, Open(s) \/ Close(s) \/ \E e \in Mounts : Release(s, e)
      PROVE  entries' = entries
  BY <1>7 DEF Open, Close, Release
<1>8. ASSUME \/ \E m \in Mounts, r \in Requests : Fresh(m, r)
             \/ \E m \in Mounts : Replaced(m)
      PROVE  \E gone \in SUBSET Mounts :
                entries' = Without(entries, gone) /\ \A e \in gone \cap Registered : ~Held(e)
  BY <1>2, <1>8 DEF Fresh, Replaced
<1> HIDE DEF IInv
<1>9. \A e \in Mounts : {e} \in SUBSET Mounts  OBVIOUS
<1>10. Registered \in SUBSET Mounts  BY <1>a
<1>11. ASSUME NEW m \in Mounts, NEW r \in Requests, Replace(m, r)
       PROVE  \E gone \in SUBSET Mounts :
                 /\ entries' = Without(entries, gone) /\ pc'[m] = "replacing" /\ pc[m] = "idle"
                 /\ \A e \in gone : /\ request'[m].key = Key(e)
                                   /\ request'[m].principal # session[e]
  <2>1. PICK e \in Mounts : /\ entries' = Without(entries, {e})
                            /\ pc'[m] = "replacing" /\ pc[m] = "idle"
                            /\ request'[m].key = Key(e) /\ request'[m].principal # session[e]
    BY <1>1, <1>11
  <2> QED BY <1>9, <2>1
<1>12. CASE \E m \in Mounts : TimerFires(m)
  <2>1. PICK m \in Mounts : TimerFires(m)  BY <1>12
  <2>2. \/ \A e \in {m} \cap Registered : ~Held(e)
        \/ disposed'
    BY <1>3, <2>1
  <2> QED BY <1>3, <1>9, <2>1, <2>2
<1>13. CASE Dispose  BY <1>4, <1>10, <1>13
<1> QED BY <1>5, <1>6, <1>7, <1>8, <1>11, <1>12, <1>13 DEF Next

LEMMA FirstOfCardinality ==
    ASSUME NEW S, NEW seq \in Seq(S), IsInjective(seq), NEW n \in Nat,
           NEW x \in Range(seq), x \notin FirstOf(seq, n)
    PROVE  IsFiniteSet(FirstOf(seq, n)) /\ Cardinality(FirstOf(seq, n)) = n
<1>1. DOMAIN seq = 1 .. Len(seq) /\ seq \in [1 .. Len(seq) -> S] /\ Len(seq) \in Nat
  BY LenProperties
<1>2. PICK i \in 1 .. Len(seq) : x = seq[i]  BY <1>1 DEF Range
<1>3. n < i  BY <1>1, <1>2 DEF FirstOf
<1>4. {j \in DOMAIN seq : j <= n} = 1 .. n  BY <1>1, <1>3
<1> DEFINE g == [j \in 1 .. n |-> seq[j]]
<1>5. g \in Bijection(1 .. n, FirstOf(seq, n))
  <2>1. FirstOf(seq, n) = {seq[j] : j \in 1 .. n}  BY <1>4 DEF FirstOf
  <2>2. g \in [1 .. n -> FirstOf(seq, n)]  BY <2>1
  <2>3. \A y \in FirstOf(seq, n) : \E j \in 1 .. n : g[j] = y  BY <2>1
  <2>4. \A j, k \in 1 .. n : g[j] = g[k] => j = k  BY <1>1, <1>3 DEF IsInjective
  <2> QED BY <2>2, <2>3, <2>4 DEF Bijection, Injection, Surjection, IsInjective
<1> HIDE DEF g
<1>6. ExistsBijection(1 .. n, FirstOf(seq, n))  BY <1>5 DEF ExistsBijection
<1> QED BY <1>6, FS_NatBijection, FS_CountingElements

(* What the session cap leaves, if it leaves an idle instance but m.       *)
LEMMA IdleRoom ==
    ASSUME RegistryConstantsOK, NEW slice \in Seq(Mounts), IsInjective(slice), NEW m,
           NEW e \in Range(slice) \ {m}, ~Held(e),
           e \notin ShedIdle(slice, {m}, MaxPerSession + 1)
    PROVE  LET rest == Range(slice) \ ShedIdle(slice, {m}, MaxPerSession + 1)
           IN  IsFiniteSet(rest) /\ Cardinality(rest) <= MaxPerSession
<1> DEFINE es == {f \in Range(slice) \ {m} : ~Held(f)}
           idle == Only(slice, es)
           n == Excess(Len(slice) + 1, MaxPerSession + 1)
           shed == FirstOf(idle, n)
<1>1. ShedIdle(slice, {m}, MaxPerSession + 1) = shed  BY DEF ShedIdle
<1>2. e \in es /\ es \subseteq Range(slice)  OBVIOUS
<1>3. Len(slice) \in Nat /\ MaxPerSession \in Nat
  BY LenProperties DEF RegistryConstantsOK
<1>4. n \in Nat /\ Len(slice) - n <= MaxPerSession  BY <1>3 DEF Excess
<1> HIDE DEF es, n
<1>5. idle \in Seq(Mounts) /\ IsInjective(idle) /\ Range(idle) = es
  <2>1. idle \in Seq(Mounts) /\ Range(idle) = Range(slice) \cap es  BY OnlyPicks
  <2>2. IsInjective(idle)  BY OnlyInjective
  <2> HIDE DEF idle
  <2> QED BY <1>2, <2>1, <2>2
<1> HIDE DEF idle
<1>6. IsFiniteSet(shed) /\ Cardinality(shed) = n /\ shed \subseteq Range(slice)
  <2>1. e \in Range(idle) /\ e \notin FirstOf(idle, n)  BY <1>1, <1>2, <1>5
  <2> QED BY <1>2, <1>4, <1>5, <2>1, FirstOfCardinality, FirstOfPart
<1> HIDE DEF shed
<1>7. IsFiniteSet(Range(slice)) /\ Cardinality(Range(slice)) = Len(slice)
  BY InjectiveCardinality
<1>8. Range(slice) \cap shed = shed  BY <1>6
<1>9. /\ IsFiniteSet(Range(slice) \ shed)
      /\ Cardinality(Range(slice) \ shed) = Len(slice) - n
  BY <1>6, <1>7, <1>8, FS_Difference
<1> QED BY <1>1, <1>4, <1>9

(* What the cap of unattached instances leaves, if anything but m.         *)
LEMMA UnattachedRoom ==
    ASSUME RegistryConstantsOK, TableTypes, Tables, NEW m \in Mounts, m \notin Range(unattached),
           NEW e \in Range(unattached) \ ShedUnattached(Append(unattached, m), m)
    PROVE  LET rest == Range(unattached) \ ShedUnattached(Append(unattached, m), m)
           IN  IsFiniteSet(rest) /\ Cardinality(rest) + 1 <= MaxUnattached
<1> DEFINE lru == Append(unattached, m)
           others == Without(lru, {m})
           n == Excess(Len(lru), MaxUnattached)
           shed == FirstOf(others, n)
<1>1. ShedUnattached(lru, m) = shed  BY DEF ShedUnattached
<1>2. unattached \in Seq(Mounts) /\ IsInjective(unattached) /\ Len(unattached) \in Nat
      /\ MaxUnattached \in Nat
  BY LenProperties DEF TableTypes, Tables, RegistryConstantsOK
<1>3. /\ lru \in Seq(Mounts) /\ IsInjective(lru) /\ Len(lru) = Len(unattached) + 1
      /\ Range(lru) = Range(unattached) \cup {m}
  BY <1>2, AppendOne
<1>4. n \in Nat /\ Len(unattached) - n + 1 <= MaxUnattached  BY <1>2, <1>3 DEF Excess
<1> HIDE DEF lru, n
<1>5. others \in Seq(Mounts) /\ IsInjective(others) /\ Range(others) = Range(unattached)
  <2>1. others \in Seq(Mounts) /\ IsInjective(others) /\ Range(others) = Range(lru) \ {m}
    BY <1>3, WithoutPicks
  <2> HIDE DEF others
  <2> QED BY <1>3, <2>1
<1> HIDE DEF others
<1>6. e \in Range(others) /\ e \notin FirstOf(others, n)  BY <1>1, <1>5 DEF lru
<1>7. IsFiniteSet(shed) /\ Cardinality(shed) = n /\ shed \subseteq Range(unattached)
  BY <1>4, <1>5, <1>6, FirstOfCardinality, FirstOfPart
<1> HIDE DEF shed
<1>8. IsFiniteSet(Range(unattached)) /\ Cardinality(Range(unattached)) = Len(unattached)
  BY <1>2, InjectiveCardinality
<1>9. Range(unattached) \cap shed = shed  BY <1>7
<1>10. /\ IsFiniteSet(Range(unattached) \ shed)
       /\ Cardinality(Range(unattached) \ shed) = Len(unattached) - n
  BY <1>7, <1>8, <1>9, FS_Difference
<1> QED BY <1>1, <1>2, <1>4, <1>10 DEF lru

(* What registering m makes of the tables.                                 *)
LEMMA RegisterParts ==
    ASSUME IInv, NEW m \in Mounts, Register(m)
    PROVE  LET lru == ShedUnattached(Append(unattached, m), m)
               idle == ShedIdle(SliceWith(m, lru), {m}, MaxPerSession + 1)
               gone == lru \cup idle
           IN  /\ m \notin Registered /\ gone \subseteq {e \in Registered : ~Held(e)}
               /\ entries' \in Seq(Mounts) /\ IsInjective(entries')
               /\ Range(entries') = (Registered \ gone) \cup {m}
               /\ unattached' = Append(Without(unattached, gone), m)
<1> DEFINE lru == ShedUnattached(Append(unattached, m), m)
           gone == lru \cup ShedIdle(SliceWith(m, lru), {m}, MaxPerSession + 1)
<1> USE DEF IInv
<1>1. pc[m] = "loading" /\ At(Key(m)) = {} /\ Add(m, gone)
  BY DEF Register, SliceWith
<1>2. m \notin Registered  BY <1>1 DEF Settled, Done
<1>3. gone \subseteq {e \in Registered : ~Held(e)}  BY <1>2, RegisterSheds
<1> HIDE DEF lru, gone
<1> DEFINE w == Without(entries, gone)
<1>4. w \in Seq(Mounts) /\ Range(w) = Registered \ gone /\ IsInjective(w)
  BY WithoutPicks DEF TableTypes, Tables, Registered
<1>5. entries' = Append(w, m)
  <2>1. {} \cup gone = gone  OBVIOUS
  <2> QED BY <1>1, <2>1 DEF Add
<1> HIDE DEF w
<1>6. m \notin Range(w)  BY <1>2, <1>4
<1>7. /\ Append(w, m) \in Seq(Mounts) /\ IsInjective(Append(w, m))
      /\ Range(Append(w, m)) = Range(w) \cup {m}
  BY <1>4, <1>6, AppendOne
<1>8. unattached' = Append(Without(unattached, gone), m)  BY <1>1 DEF Add
<1> QED BY <1>2, <1>3, <1>4, <1>5, <1>7, <1>8 DEF gone, lru

LEMMA RegisterMakesRoom ==
    ASSUME RegistryConstantsOK, IInv, NEW m \in Mounts, Register(m)
    PROVE  MakesRoom
<1> DEFINE lru == ShedUnattached(Append(unattached, m), m)
           idle == ShedIdle(SliceWith(m, lru), {m}, MaxPerSession + 1)
           gone == lru \cup idle
           mine == {e \in Registered : sid[Key(e)] = sid[Key(m)]}
           slice == Only(entries', {e \in Range(entries') : sid[Key(e)] = sid[Key(m)]})
<1>1. /\ m \notin Registered /\ gone \subseteq {e \in Registered : ~Held(e)}
      /\ entries' \in Seq(Mounts) /\ IsInjective(entries')
      /\ Range(entries') = (Registered \ gone) \cup {m}
      /\ unattached' = Append(Without(unattached, gone), m)
  BY RegisterParts
<1>2. /\ SliceWith(m, lru) \in Seq(Mounts) /\ IsInjective(SliceWith(m, lru))
      /\ Range(SliceWith(m, lru)) = (mine \ lru) \cup {m}
  BY <1>1, SliceWithParts DEF IInv
<1>3. idle \subseteq Range(SliceWith(m, lru)) \ {m}  BY <1>2, ShedIdleParts
<1>4. /\ slice \in Seq(Mounts) /\ IsInjective(slice)
      /\ Range(slice) = Range(SliceWith(m, lru)) \ idle
  <2> DEFINE es == {e \in Range(entries') : sid[Key(e)] = sid[Key(m)]}
  <2>1. es \subseteq Range(entries')  OBVIOUS
  <2>2. es = ((mine \ lru) \cup {m}) \ idle  BY <1>1, <1>2, <1>3
  <2> HIDE DEF es
  <2>3. Only(entries', es) \in Seq(Mounts) /\ Range(Only(entries', es)) = Range(entries') \cap es
    BY <1>1, OnlyPicks
  <2>4. IsInjective(Only(entries', es))  BY <1>1, OnlyInjective
  <2>5. slice = Only(entries', es)  BY DEF es
  <2> HIDE DEF slice, idle, mine
  <2> QED BY <1>2, <2>1, <2>2, <2>3, <2>4, <2>5
<1> HIDE DEF slice
<1>5. ASSUME NEW e \in Range(slice) \ {m}, ~Held(e) PROVE ~(Len(slice) > MaxPerSession)
  <2>1. Len(slice) = Cardinality(Range(slice)) /\ Len(slice) \in Nat
    BY <1>4, InjectiveCardinality, LenProperties
  <2>2. e \in Range(SliceWith(m, lru)) \ {m} /\ e \notin idle  BY <1>4, <1>5
  <2>3. Cardinality(Range(SliceWith(m, lru)) \ idle) <= MaxPerSession
    BY <1>2, <1>5, <2>2, IdleRoom
  <2>4. MaxPerSession \in Nat  BY DEF RegistryConstantsOK
  <2> HIDE DEF idle
  <2>5. Cardinality(Range(slice)) <= MaxPerSession  BY <1>4, <2>3
  <2> QED BY <2>1, <2>4, <2>5
<1>6. Len(unattached') <= MaxUnattached \/ unattached' = <<m>>
  <2> DEFINE w == Without(unattached, gone)
  <2>1. w \in Seq(Mounts) /\ IsInjective(w) /\ Range(w) = Range(unattached) \ gone
    BY WithoutPicks DEF IInv, TableTypes, Tables
  <2>2. unattached' = Append(w, m)  BY <1>1
  <2>3. CASE Range(w) = {}
    <3> HIDE DEF w
    <3>1. Len(w) \in Nat /\ DOMAIN w = 1 .. Len(w)  BY <2>1, LenProperties
    <3>2. DOMAIN w = {}  BY <2>3 DEF Range
    <3>3. Len(w) = 0  BY <3>1, <3>2
    <3>4. w = <<>>  BY <2>1, <3>3, EmptySeq
    <3> QED BY <2>2, <3>4
  <2>4. ASSUME NEW e \in Range(w) PROVE Len(unattached') <= MaxUnattached
    <3>1. m \notin Range(unattached)  BY <1>1 DEF IInv, Tables
    <3>2. e \in Range(unattached) \ lru  BY <2>1
    <3>3. /\ IsFiniteSet(Range(unattached) \ lru)
          /\ Cardinality(Range(unattached) \ lru) + 1 <= MaxUnattached
      BY <3>1, <3>2, UnattachedRoom DEF IInv
    <3>4. Range(w) \in SUBSET (Range(unattached) \ lru)  BY <2>1
    <3> HIDE DEF lru, w
    <3>5. Cardinality(Range(w)) <= Cardinality(Range(unattached) \ lru)
      BY <3>3, <3>4, FS_Subset
    <3>6. Cardinality(Range(w)) = Len(w) /\ Len(w) \in Nat /\ Len(unattached') = Len(w) + 1
      BY <2>1, <2>2, InjectiveCardinality, AppendOne
    <3>7. Cardinality(Range(unattached) \ lru) \in Nat /\ MaxUnattached \in Nat
      BY <3>3, FS_CardinalityType DEF RegistryConstantsOK
    <3> QED BY <3>3, <3>5, <3>6, <3>7
  <2> HIDE DEF w
  <2> QED BY <2>3, <2>4
<1>7. Range(entries') \ Registered \subseteq {m}  BY <1>1
<1>8. /\ Len(slice) > MaxPerSession => \A e \in Range(slice) \ {m} : Held(e)
      /\ Len(unattached') <= MaxUnattached \/ unattached' = <<m>>
  BY <1>5, <1>6
<1> QED BY <1>7, <1>8 DEF MakesRoom, slice

(* Evictions: a timer or a cap never takes an instance a client holds, and *)
(* a registration sheds until its session is within the cap or only held   *)
(* instances are left, and until the unattached are within theirs.         *)
THEOREM CapsSpareHeldAlways ==
    ASSUME RegistryConstantsOK
    PROVE  Spec => CapsSpareHeld
<1>1. ASSUME IInv, Next PROVE SparesHeld /\ MakesRoom
  <2>1. entries \in Seq(Mounts)  BY <1>1 DEF IInv, TableTypes
  <2>2. CASE entries' = entries  BY <2>2 DEF SparesHeld, MakesRoom, Registered
  <2>3. ASSUME NEW m \in Mounts, Register(m) PROVE SparesHeld /\ MakesRoom
    <3>1. SparesHeld  BY <1>1, <2>3, RegisterParts DEF SparesHeld
    <3> QED BY <1>1, <2>3, <3>1, RegisterMakesRoom
  <2>4. ASSUME NEW gone \in SUBSET Mounts, entries' = Without(entries, gone),
               \/ \A e \in gone \cap Registered : ~Held(e)
               \/ disposed'
               \/ \E m \in Mounts : /\ pc'[m] = "replacing" /\ pc[m] = "idle"
                                    /\ \A e \in gone : /\ request'[m].key = Key(e)
                                                       /\ request'[m].principal # session[e]
        PROVE  SparesHeld /\ MakesRoom
    <3>1. Range(entries') = Registered \ gone  BY <2>1, <2>4, WithoutPicks DEF Registered
    <3>2. MakesRoom  BY <3>1 DEF MakesRoom
    <3>3. SparesHeld  BY <2>4, <3>1 DEF SparesHeld
    <3> QED BY <3>2, <3>3
  <2> QED BY <1>1, <2>2, <2>3, <2>4, EntriesStep
<1>2. IInv /\ [Next]_vars => [SparesHeld /\ MakesRoom]_vars  BY <1>1
<1> QED BY <1>2, InvariantHolds, PTL DEF Spec, CapsSpareHeld
=============================================================================
