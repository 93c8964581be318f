-------------------------- MODULE SlotMountsProofs --------------------------
(***************************************************************************)
(* Proofs, for all values of its constants, that the client has the store  *)
(* of every slot on screen registered and no other (StoresMatchHandles)    *)
(* and that a settled page shows what was navigated to last (NewestWins).  *)
(* Neither is inductive.  IInv adds that no mount is asked for twice, that *)
(* tickets tell the remounts apart, and that what uses a store (a slot, a  *)
(* release waiting for its microtask) has one of its own.  Few actions     *)
(* touch much of it: the lemmas SlotStep, OneSlot and PageStep take the    *)
(* part of a step that is common to many, RestKept the steps that only     *)
(* send; SendTells and SendAsks say what Send does to the requests.        *)
(***************************************************************************)
EXTENDS SlotMounts, FilterProofs

Stages == {"queued", "loading", "posted", "waiting", "settled", "held", "over"}
Mounted == [by : Slots \cup {Page}, path : Paths, props : Props, my : Nat, stage : Stages,
            live : BOOLEAN, store : Nat, sent : Props]
Pages == Owned(Page)

(* A sequence of messages none of which asks for a mount.                  *)
Tells(msgs) == msgs \in Seq(Range(msgs)) /\ \A x \in Range(msgs) : x.kind # "mount"

Types ==
    /\ mount \in Seq(Mounted) /\ ticket \in Nat /\ runs \in Seq(Nat) /\ releases \in Seq(Nat)
    /\ bound \subseteq {0} \cup Issued /\ primary \in {0} \cup Pages
    /\ posts = [x \in DOMAIN posts |-> posts[x]] /\ Tells(frames)

(* A slot's mount and a page's go through stages of their own.             *)
Ways ==
    \A m \in Issued :
        IF m \in Pages THEN mount[m].stage \in {"loading", "posted", "waiting", "over"}
        ELSE mount[m].stage \in {"queued", "posted", "settled", "held", "over"}

(* The mounts asked for, in requests and in their answers: each of them    *)
(* once, and none of them is answered.                                     *)
Requested == {x \in DOMAIN posts : x.kind = "mount"}
Answered == {b \in back : b.kind # "deny"}
Asking == Requested \cup Answered
AskedOnce ==
    /\ \A x \in Requested : posts[x] = 1
    /\ \A b \in Answered : b.ok \subseteq b.ms
    /\ \A x \in Asking :
         /\ x.ms # {} /\ x.ms \subseteq InStage("posted")
         /\ (\E m \in Pages : x.ms = {m}) \/ x.ms \cap Pages = {}
    /\ \A b \in Answered : b.kind = IF b.ms \cap Pages = {} THEN "slots" ELSE "page"
    /\ \A x, y \in Asking : x # y => x.ms \cap y.ms = {}

(* Tickets are claimed in order, and the newest remount alone swaps.       *)
Tickets ==
    /\ \A m \in Pages : mount[m].my <= ticket
    /\ \A m, n \in Pages : mount[m].my = mount[n].my => m = n
    /\ Range(runs) = Pages \ InStage("loading")
    /\ \A m \in InStage("loading") : mount[m].store = 0
    /\ runs # <<>> =>
         LET m == Last(runs) IN
         /\ mount[m].store # 0 => mount[m].store = m /\ primary = m /\ mount[m].stage # "posted"
         /\ mount[m].stage = "over" /\ mount[m].store # 0 /\ mount[m].my = ticket =>
                screen = mount[m].path

(* Who uses a store: slots on screen or about to be, and those whose       *)
(* release waits for the microtask.                                        *)
Users == InStage("held") \cup InStage("settled") \cup Range(releases)
Released ==
    /\ Range(releases) \subseteq InStage("over") \ Pages
    /\ IsInjective(releases)

(* A user's store is registered, is some slot mount's that was answered,   *)
(* and is its alone.                                                       *)
Owners ==
    /\ \A u \in Users :
         LET s == mount[u].store IN
         /\ s \in bound /\ s \in Issued \ Pages /\ mount[s].path = mount[u].path
         /\ mount[s].stage \in {"settled", "held", "over"}
    /\ \A u, v \in Users : mount[u].store = mount[v].store => u = v
    /\ \A m \in InStage("held") : mount[m].store \in DOMAIN sink /\ sink[mount[m].store] = m

(* What is registered is used, or is the page's.                           *)
Uses ==
    \A s \in bound \ {primary} :
        \/ \E u \in Users : mount[u].store = s
        \/ s \notin Issued \ Pages /\ \E t \in Range(runs) : mount[t].path = PathOf(s)

IInv == Types /\ Ways /\ AskedOnce /\ Tickets /\ Released /\ Owners /\ Uses

-----------------------------------------------------------------------------
(* Messages *)

LEMMA TellsMap ==
    ASSUME NEW n \in Nat, NEW f, f = [i \in 1 .. n |-> f[i]],
           \A i \in 1 .. n : f[i].kind # "mount"
    PROVE  Tells(f)
<1>1. DOMAIN f = 1 .. n  BY Zenon
<1>2. Range(f) = {f[i] : i \in 1 .. n}  BY <1>1, Zenon DEF Range
<1>3. f \in [1 .. n -> Range(f)]
  <2>1. \A i \in 1 .. n : f[i] \in Range(f)  BY <1>2
  <2> HIDE DEF Range
  <2> QED BY <2>1
<1>4. f \in Seq(Range(f))
  <2>1. f \in UNION {[1 .. k -> Range(f)] : k \in Nat}  BY <1>3, Zenon
  <2> QED BY <1>3, IsASeq
<1> QED BY <1>2, <1>4, Zenon DEF Tells

LEMMA TellsNone == Tells(<<>>)
<1>1. Range(<<>>) = {}  BY DEF Range
<1> QED BY <1>1 DEF Tells

LEMMA TellsBoth ==
    ASSUME NEW s, NEW t, Tells(s), Tells(t)
    PROVE  Tells(s \o t) /\ Range(s \o t) = Range(s) \cup Range(t)
<1>1. s \in Seq(Range(s) \cup Range(t)) /\ t \in Seq(Range(s) \cup Range(t))
  BY SeqMonotonic DEF Tells
<1>2. Range(s \o t) = Range(s) \cup Range(t)  BY <1>1, RangeConcatenation
<1>3. s \o t \in Seq(Range(s \o t))  BY <1>1, <1>2, ConcatProperties
<1> QED BY <1>2, <1>3 DEF Tells

LEMMA TellsOne ==
    ASSUME NEW x, x.kind # "mount"
    PROVE  Tells(<<x>>)
<1>1. <<x>> \in Seq({x}) /\ Range(<<x>>) = {x}  BY DEF Range
<1> QED BY <1>1 DEF Tells

(* What is sent that asks for no mount leaves the requests for mounts.     *)
LEMMA SendTells ==
    ASSUME NEW msgs, Tells(msgs), Types, AskedOnce, Send(msgs)
    PROVE  /\ Tells(frames') /\ posts' = [x \in DOMAIN posts' |-> posts'[x]]
           /\ Requested' = Requested /\ \A x \in Requested : posts'[x] = posts[x]
<1> DEFINE framed == {x \in Range(msgs) : OnSocket /\ x.kind # "mount"}
           asked == {i \in DOMAIN msgs : msgs[i] \notin framed}
           kept == {i \in asked : msgs[i].kind # "resync"}
<1>1. frames' = frames \o Only(msgs, framed)  BY DEF Send
<1>2. posts' = [x \in DOMAIN posts \cup {msgs[i] : i \in kept} |->
                  (IF BagIn(x, posts) THEN posts[x] ELSE 0)
                      + Cardinality({i \in kept : msgs[i] = x})]
  BY DEF Send
<1>3. Tells(Only(msgs, framed))
  <2>1. Only(msgs, framed) \in Seq(Range(msgs)) /\ Range(Only(msgs, framed)) = Range(msgs) \cap framed
    BY OnlyPicks DEF Tells
  <2>2. Only(msgs, framed) \in Seq(Range(Only(msgs, framed)))  BY <2>1, SeqOfRange
  <2> QED BY <2>1, <2>2 DEF Tells
<1>4. Tells(frames')  BY <1>1, <1>3, TellsBoth DEF Types
<1>5. \A i \in DOMAIN msgs : msgs[i] \in Range(msgs) /\ msgs[i].kind # "mount"
  BY DEF Tells, Range
<1>6. \A i \in kept : msgs[i].kind # "mount"  BY <1>5
<1>7. DOMAIN posts' = DOMAIN posts \cup {msgs[i] : i \in kept}
  <2> HIDE DEF kept
  <2> QED BY <1>2
<1>8. ASSUME NEW x \in Requested PROVE posts'[x] = posts[x]
  <2>1. x \in DOMAIN posts /\ x.kind = "mount"  BY DEF Requested
  <2>2. {i \in kept : msgs[i] = x} = {}  BY <1>6, <2>1
  <2>3. Cardinality({i \in kept : msgs[i] = x}) = 0  BY <2>2, FS_EmptySet
  <2>4. BagIn(x, posts)  BY <2>1 DEF BagIn, BagToSet
  <2>5. posts'[x] = posts[x] + Cardinality({i \in kept : msgs[i] = x})
    <3> HIDE DEF kept
    <3> QED BY <1>2, <2>1, <2>4
  <2>6. posts[x] = 1  BY DEF AskedOnce
  <2> QED BY <2>3, <2>5, <2>6
<1> QED BY <1>2, <1>4, <1>6, <1>7, <1>8 DEF Requested

(* A request for mounts joins the requests; what is sent with it does not. *)
LEMMA SendAsks ==
    ASSUME NEW msgs, Tells(msgs), Types, AskedOnce, NEW ask, ask.kind = "mount",
           ask \notin Requested, Send(msgs \o <<ask>>)
    PROVE  /\ Tells(frames') /\ posts' = [x \in DOMAIN posts' |-> posts'[x]]
           /\ Requested' = Requested \cup {ask} /\ posts'[ask] = 1
           /\ \A x \in Requested : posts'[x] = posts[x]
<1> DEFINE all == msgs \o <<ask>>
           framed == {x \in Range(all) : OnSocket /\ x.kind # "mount"}
           asked == {i \in DOMAIN all : all[i] \notin framed}
           kept == {i \in asked : all[i].kind # "resync"}
           n == Len(msgs) + 1
<1>1. frames' = frames \o Only(all, framed)  BY DEF Send
<1>2. posts' = [x \in DOMAIN posts \cup {all[i] : i \in kept} |->
                  (IF BagIn(x, posts) THEN posts[x] ELSE 0)
                      + Cardinality({i \in kept : all[i] = x})]
  BY DEF Send
<1>3. /\ all \in Seq(Range(all)) /\ Len(all) = n /\ n \in Nat /\ n >= 1
      /\ all[n] = ask /\ \A i \in 1 .. n - 1 : all[i] = msgs[i] /\ all[i].kind # "mount"
  <2>1. msgs \in Seq(Range(msgs) \cup {ask}) /\ <<ask>> \in Seq(Range(msgs) \cup {ask})
    BY SeqMonotonic DEF Tells
  <2>2. Len(msgs) \in Nat /\ DOMAIN msgs = 1 .. Len(msgs) /\ Len(<<ask>>) = 1 /\ <<ask>>[1] = ask
    BY <2>1, LenProperties
  <2>3. /\ all \in Seq(Range(msgs) \cup {ask}) /\ Len(all) = Len(msgs) + 1
        /\ \A i \in 1 .. Len(msgs) + 1 :
              all[i] = IF i <= Len(msgs) THEN msgs[i] ELSE <<ask>>[i - Len(msgs)]
    BY <2>1, <2>2, ConcatProperties
  <2>4. \A i \in 1 .. Len(msgs) : msgs[i] \in Range(msgs) /\ msgs[i].kind # "mount"
    BY <2>2 DEF Tells, Range
  <2>5. all \in Seq(Range(all))  BY <2>3, SeqOfRange
  <2> QED BY <2>2, <2>3, <2>4, <2>5
<1>4. DOMAIN all = 1 .. n  BY <1>3, LenProperties
<1> HIDE DEF all, n
<1>5. Tells(Only(all, framed))
  <2>1. Only(all, framed) \in Seq(Range(all)) /\ Range(Only(all, framed)) = Range(all) \cap framed
    BY <1>3, OnlyPicks
  <2>2. Only(all, framed) \in Seq(Range(Only(all, framed)))  BY <2>1, SeqOfRange
  <2> QED BY <2>1, <2>2 DEF Tells
<1>6. Tells(frames')  BY <1>1, <1>5, TellsBoth DEF Types
<1>7. n \in kept  BY <1>3, <1>4
<1>8. \A i \in kept : i # n => all[i].kind # "mount"  BY <1>3, <1>4
<1> HIDE DEF kept
<1>9. DOMAIN posts' = DOMAIN posts \cup {all[i] : i \in kept}  BY <1>2
<1>10. ASSUME NEW x \in Requested PROVE posts'[x] = posts[x]
  <2>1. x \in DOMAIN posts /\ x.kind = "mount" /\ x # ask  BY DEF Requested
  <2>2. {i \in kept : all[i] = x} = {}  BY <1>3, <1>8, <2>1
  <2>3. Cardinality({i \in kept : all[i] = x}) = 0  BY <2>2, FS_EmptySet
  <2>4. BagIn(x, posts)  BY <2>1 DEF BagIn, BagToSet
  <2>5. posts'[x] = posts[x] + Cardinality({i \in kept : all[i] = x})  BY <1>2, <2>1, <2>4
  <2>6. posts[x] = 1  BY DEF AskedOnce
  <2> QED BY <2>3, <2>5, <2>6
<1>11. posts'[ask] = 1
  <2>1. {i \in kept : all[i] = ask} = {n}  BY <1>3, <1>7, <1>8
  <2>2. Cardinality({i \in kept : all[i] = ask}) = 1  BY <2>1, FS_Singleton
  <2>3. ~BagIn(ask, posts)  BY DEF BagIn, BagToSet, Requested
  <2>4. ask \in DOMAIN posts'  BY <1>3, <1>7, <1>9
  <2>5. posts'[ask] = 0 + Cardinality({i \in kept : all[i] = ask})  BY <1>2, <1>9, <2>3, <2>4
  <2> QED BY <2>2, <2>5
<1>12. Requested' = Requested \cup {ask}
  <2>1. ask \in DOMAIN posts'  BY <1>3, <1>7, <1>9
  <2>2. \A x \in DOMAIN posts' : x \in DOMAIN posts \/ x = ask \/ x.kind # "mount"
    BY <1>3, <1>8, <1>9
  <2>3. DOMAIN posts \subseteq DOMAIN posts'  BY <1>9
  <2> QED BY <2>1, <2>2, <2>3 DEF Requested
<1> QED BY <1>2, <1>6, <1>10, <1>11, <1>12

-----------------------------------------------------------------------------
(* What a step leaves alone *)

LEMMA MountIs ==
    ASSUME Types
    PROVE  /\ Len(mount) \in Nat /\ Issued = 1 .. Len(mount) /\ 0 \notin Issued
           /\ \A m \in Issued : mount[m] \in Mounted
<1>1. mount \in Seq(Mounted)  BY DEF Types
<1> HIDE DEF Mounted
<1>2. Len(mount) \in Nat /\ DOMAIN mount = 1 .. Len(mount)  BY <1>1, LenProperties
<1>3. \A m \in 1 .. Len(mount) : mount[m] \in Mounted  BY <1>1, ElementOfSeq
<1> QED BY <1>2, <1>3 DEF Issued

LEMMA Remounted ==
    ASSUME Types, NEW f, DOMAIN f = Issued, f = [m \in Issued |-> f[m]],
           \A m \in Issued : f[m] \in Mounted
    PROVE  f \in Seq(Mounted)
<1>1. Len(mount) \in Nat /\ Issued = 1 .. Len(mount)  BY MountIs
<1>2. f \in [1 .. Len(mount) -> Mounted]  BY <1>1
<1>3. f \in UNION {[1 .. n -> Mounted] : n \in Nat}  BY <1>1, <1>2, Zenon
<1> HIDE DEF Mounted
<1> QED BY <1>3, SeqDef, Zenon

LEMMA LastIn ==
    ASSUME Types, runs # <<>>
    PROVE  Last(runs) \in Range(runs)
<1>1. Len(runs) \in Nat /\ DOMAIN runs = 1 .. Len(runs) /\ Len(runs) # 0
  BY LenProperties, EmptySeq DEF Types
<1> QED BY <1>1 DEF Last, Range

(* A mount keeps what it was made with.                                    *)
Same ==
    \A m \in Issued : m \in Issued' /\ mount'[m].by = mount[m].by
                      /\ mount'[m].path = mount[m].path /\ mount'[m].my = mount[m].my

LEMMA AskedKept ==
    ASSUME AskedOnce, Same, NEW gone, InStage("posted") \ gone \subseteq InStage("posted")',
           Requested' \subseteq Requested, Answered' \subseteq Answered,
           \A x \in Requested' : posts'[x] = posts[x],
           \A x \in Asking' : x.ms \cap gone = {}
    PROVE  AskedOnce'
<1>1. Asking' \subseteq Asking  BY DEF Asking
<1>2. \A m \in Issued : m \in Pages' <=> m \in Pages  BY DEF Same, Pages, Owned
<1>3. ASSUME NEW x \in Asking'
      PROVE  /\ x.ms # {} /\ x.ms \subseteq InStage("posted")'
             /\ (\E m \in Pages' : x.ms = {m}) \/ x.ms \cap Pages' = {}
  <2>1. x \in Asking /\ x.ms \subseteq InStage("posted")  BY <1>1 DEF AskedOnce
  <2>2. x.ms \subseteq Issued  BY <2>1 DEF InStage
  <2>3. x.ms \cap Pages' = x.ms \cap Pages  BY <1>2, <2>2
  <2>4. x.ms # {} /\ ((\E m \in Pages : x.ms = {m}) \/ x.ms \cap Pages = {})
    BY <2>1 DEF AskedOnce
  <2>5. x.ms \subseteq InStage("posted")'  BY <2>1
  <2>6. \A m \in Pages : x.ms = {m} => m \in Pages'  BY <1>2 DEF Pages, Owned
  <2> QED BY <2>3, <2>4, <2>5, <2>6
<1>4. ASSUME NEW b \in Answered'
      PROVE  b.ok \subseteq b.ms /\ b.kind = IF b.ms \cap Pages' = {} THEN "slots" ELSE "page"
  <2>1. b \in Answered /\ b \in Asking  BY DEF Asking
  <2>2. b.ms \subseteq Issued  BY <2>1 DEF AskedOnce, InStage
  <2>3. b.ms \cap Pages' = b.ms \cap Pages  BY <1>2, <2>2
  <2> QED BY <2>1, <2>3 DEF AskedOnce
<1>5. \A x, y \in Asking' : x # y => x.ms \cap y.ms = {}  BY <1>1 DEF AskedOnce
<1>6. \A x \in Requested' : posts'[x] = 1  BY DEF AskedOnce
<1> QED BY <1>3, <1>4, <1>5, <1>6 DEF AskedOnce

LEMMA TicketsKept ==
    ASSUME Types, Tickets, Ways', Pages' = Pages, \A m \in Pages : mount'[m] = mount[m],
           UNCHANGED <<ticket, runs, primary, screen>>
    PROVE  Tickets'
<1>1. Pages' \cap InStage("loading")' = Pages \cap InStage("loading")
  BY DEF InStage, Pages, Owned
<1>2. InStage("loading")' \subseteq Pages'  BY DEF InStage, Ways
<1>3. Range(runs) \subseteq Pages /\ (runs # <<>> => Last(runs) \in Pages)  BY LastIn DEF Tickets
<1>4. Last(runs)' = Last(runs) /\ Range(runs)' = Range(runs)  OBVIOUS
<1>5. \A m \in InStage("loading")' : mount'[m].store = 0
  <2>1. \A m \in InStage("loading")' : m \in InStage("loading") /\ mount'[m] = mount[m]
    BY <1>1, <1>2
  <2> QED BY <2>1 DEF Tickets
<1>6. Range(runs)' = Pages' \ InStage("loading")'  BY <1>1, <1>4 DEF Tickets
<1>7. \A m \in Pages' : mount'[m].my <= ticket'  BY DEF Tickets
<1>8. \A m, n \in Pages' : mount'[m].my = mount'[n].my => m = n  BY DEF Tickets
<1> HIDE DEF Last
<1>9. runs' # <<>> =>
         LET m == Last(runs') IN
         /\ mount'[m].store # 0 => mount'[m].store = m /\ primary' = m /\ mount'[m].stage # "posted"
         /\ mount'[m].stage = "over" /\ mount'[m].store # 0 /\ mount'[m].my = ticket' =>
                screen' = mount'[m].path
  BY <1>3 DEF Tickets
<1> QED BY <1>5, <1>6, <1>7, <1>8, <1>9 DEF Tickets

LEMMA OwnersKept ==
    ASSUME Owners, Same, Users' \subseteq Users,
           \A u \in Users' : mount'[u].store = mount[u].store /\ mount[u].store \in bound',
           \A m \in Issued : mount[m].stage \in {"settled", "held", "over"} =>
                             mount'[m].stage \in {"settled", "held", "over"},
           \A m \in InStage("held")' : mount'[m].store \in DOMAIN sink' /\ sink'[mount'[m].store] = m,
           Users \subseteq Issued
    PROVE  Owners'
<1>1. ASSUME NEW u \in Users'
      PROVE  LET s == mount'[u].store IN
             /\ s \in bound' /\ s \in Issued' \ Pages' /\ mount'[s].path = mount'[u].path
             /\ mount'[s].stage \in {"settled", "held", "over"}
  <2> DEFINE s == mount[u].store
  <2>1. u \in Users /\ u \in Issued /\ mount'[u].store = s  OBVIOUS
  <2>2. /\ s \in Issued \ Pages /\ mount[s].path = mount[u].path
        /\ mount[s].stage \in {"settled", "held", "over"}
    BY <2>1 DEF Owners
  <2>3. s \in Issued' \ Pages' /\ mount'[s].path = mount'[u].path
    BY <2>1, <2>2 DEF Same, Pages, Owned
  <2> QED BY <2>1, <2>2, <2>3
<1>2. \A u, v \in Users' : mount'[u].store = mount'[v].store => u = v  BY DEF Owners
<1> QED BY <1>1, <1>2 DEF Owners

LEMMA UsesKept ==
    ASSUME Types, Types', Same, Uses, bound' \ {primary'} \subseteq bound \ {primary},
           \A u \in Users : u \in Users' /\ mount'[u].store = mount[u].store,
           Range(runs) \subseteq Range(runs)' \cap Issued
    PROVE  Uses'
<1> SUFFICES ASSUME NEW s \in bound' \ {primary'}
             PROVE  \/ \E u \in Users' : mount'[u].store = s
                    \/ s \notin Issued' \ Pages' /\ \E t \in Range(runs)' : mount'[t].path = PathOf(s)'
  BY DEF Uses
<1>1. 0 \notin Issued /\ 0 \notin Issued' /\ (s = 0 \/ s \in Issued)
  <2>1. mount' \in Seq(Mounted)  BY DEF Types
  <2>2. DOMAIN mount' = 1 .. Len(mount') /\ Len(mount') \in Nat  BY <2>1, LenProperties
  <2> QED BY <2>2, MountIs DEF Types, Issued
<1>2. s \in bound \ {primary}  OBVIOUS
<1>3. CASE \E u \in Users : mount[u].store = s  BY <1>3
<1>4. CASE s \notin Issued \ Pages /\ \E t \in Range(runs) : mount[t].path = PathOf(s)
  <2>1. PathOf(s)' = PathOf(s)  BY <1>1 DEF PathOf, Same
  <2>2. s \notin Issued' \ Pages'  BY <1>1, <1>4 DEF Same, Pages, Owned
  <2>3. \A t \in Range(runs) : mount'[t].path = mount[t].path  BY DEF Same
  <2> QED BY <1>4, <2>1, <2>2, <2>3
<1> QED BY <1>2, <1>3, <1>4 DEF Uses

LEMMA UsersIn == ASSUME Released PROVE Users \subseteq Issued
BY DEF Released, Users, InStage

LEMMA Appended ==
    ASSUME Types, NEW x \in Mounted, mount' = Append(mount, x)
    PROVE  /\ mount' \in Seq(Mounted) /\ Same
           /\ \A m \in Issued : mount'[m] = mount[m]
           /\ \E n \in Nat \ Issued : n # 0 /\ Issued' = Issued \cup {n} /\ mount'[n] = x
<1> HIDE DEF Mounted
<1>1. /\ mount \in Seq(Mounted) /\ Len(mount) \in Nat /\ DOMAIN mount = 1 .. Len(mount)
  BY LenProperties DEF Types
<1> DEFINE n == Len(mount) + 1
<1>2. /\ mount' \in Seq(Mounted) /\ Len(mount') = n /\ mount'[n] = x
      /\ \A m \in 1 .. Len(mount) : mount'[m] = mount[m]
  BY <1>1, AppendProperties
<1>3. DOMAIN mount' = 1 .. n  BY <1>1, <1>2, LenProperties
<1>4. Issued' = Issued \cup {n} /\ n \notin Issued /\ n \in Nat /\ n # 0  BY <1>1, <1>3 DEF Issued
<1>5. \A m \in Issued : mount'[m] = mount[m]  BY <1>1, <1>2 DEF Issued
<1> HIDE DEF n
<1> QED BY <1>2, <1>4, <1>5 DEF Same

(* A step of one mount.                                                    *)
Changed(m, new) ==
    /\ DOMAIN mount' = Issued /\ mount' = [n \in Issued |-> mount'[n]]
    /\ mount'[m] = new /\ \A n \in Issued \ {m} : mount'[n] = mount[n]

LEMMA ChangedOne ==
    ASSUME Types, NEW m \in Issued, NEW new \in Mounted, Changed(m, new),
           new.by = mount[m].by, new.path = mount[m].path, new.my = mount[m].my
    PROVE  /\ mount' \in Seq(Mounted) /\ Same /\ Issued' = Issued /\ Pages' = Pages
           /\ \A st : InStage(st)' = IF new.stage = st THEN InStage(st) \cup {m}
                                    ELSE InStage(st) \ {m}
<1> HIDE DEF Mounted
<1>1. Issued' = Issued  BY DEF Changed, Issued
<1>2. \A n \in Issued : mount'[n] \in Mounted  BY MountIs DEF Changed
<1>3. mount' \in Seq(Mounted)
  <2> DEFINE f == mount'
  <2>1. DOMAIN f = Issued /\ f = [n \in Issued |-> f[n]] /\ \A n \in Issued : f[n] \in Mounted
    BY <1>2 DEF Changed
  <2> HIDE DEF f
  <2>2. f \in Seq(Mounted)  BY <2>1, Remounted
  <2> QED BY <2>2 DEF f
<1>4. Same  BY <1>1 DEF Changed, Same
<1>5. Pages' = Pages  BY <1>1, <1>4 DEF Pages, Owned, Same
<1>6. \A st : InStage(st)' = IF new.stage = st THEN InStage(st) \cup {m} ELSE InStage(st) \ {m}
  BY <1>1 DEF InStage, Changed
<1> QED BY <1>1, <1>3, <1>4, <1>5, <1>6

(* A step of the page, which sends nothing and leaves the mounts asked for *)
(* and the stores alone.                                                   *)
LEMMA RestKept ==
    ASSUME IInv, UNCHANGED <<mount, ticket, runs, releases, bound, primary, sink, screen>>,
           AskedOnce', Tells(frames'), posts' = [x \in DOMAIN posts' |-> posts'[x]]
    PROVE  IInv'
<1>1. Issued' = Issued /\ Pages' = Pages /\ \A st : InStage(st)' = InStage(st)
  BY DEF Issued, Pages, Owned, InStage
<1>2. Types'  BY <1>1 DEF IInv, Types
<1>3. Ways'  BY <1>1 DEF IInv, Ways
<1>4. Tickets'  BY <1>1, <1>3, TicketsKept DEF IInv
<1>5. Users' = Users  BY <1>1 DEF Users, InStage
<1>6. Released' /\ Owners'  BY <1>1, <1>5 DEF IInv, Released, Owners, InStage
<1>7. Uses'  BY <1>1, <1>5 DEF IInv, Uses, PathOf
<1> QED BY <1>2, <1>3, <1>4, <1>6, <1>7 DEF IInv

LEMMA AskedStays ==
    ASSUME IInv, Same, InStage("posted") \subseteq InStage("posted")', Requested' = Requested,
           Answered' \subseteq Answered, \A x \in Requested : posts'[x] = posts[x]
    PROVE  AskedOnce'
<1> DEFINE gone == {}
<1>1. InStage("posted") \ gone \subseteq InStage("posted")'  OBVIOUS
<1>2. \A x \in Asking' : x.ms \cap gone = {}  OBVIOUS
<1> HIDE DEF gone
<1> QED BY <1>1, <1>2, AskedKept DEF IInv

(* What the slots do between the microtasks: the stores stay in use.       *)
LEMMA SlotStep ==
    ASSUME IInv, Types', Ways', Released', Same,
           Pages' = Pages, \A m \in Pages : mount'[m] = mount[m],
           UNCHANGED <<ticket, runs, bound, primary, screen>>,
           Users' = Users, \A u \in Users : mount'[u].store = mount[u].store,
           InStage("posted") \subseteq InStage("posted")', Requested' = Requested,
           Answered' \subseteq Answered, \A x \in Requested : posts'[x] = posts[x],
           \A m \in Issued : mount[m].stage \in {"settled", "held", "over"} =>
                             mount'[m].stage \in {"settled", "held", "over"},
           \A m \in InStage("held")' : mount'[m].store \in DOMAIN sink' /\ sink'[mount'[m].store] = m
    PROVE  IInv'
<1>0. Types /\ Ways /\ AskedOnce /\ Tickets /\ Released /\ Owners /\ Uses  BY DEF IInv
<1>1. AskedOnce'  BY AskedStays
<1>2. Tickets'  BY <1>0, TicketsKept
<1>3. Users \subseteq Issued  BY <1>0, UsersIn
<1>4. Owners'
  <2>1. \A u \in Users : mount[u].store \in bound  BY <1>0 DEF Owners
  <2> QED BY <1>0, <1>3, <2>1, OwnersKept
<1>5. Uses'
  <2>1. Range(runs) \subseteq Issued  BY <1>0 DEF Tickets, Pages, Owned
  <2> QED BY <1>0, <2>1, UsesKept
<1> QED BY <1>1, <1>2, <1>4, <1>5 DEF IInv

-----------------------------------------------------------------------------
(* A slot *)

LEMMA StartsRight == ASSUME SlotConstantsOK, SlotInit PROVE IInv
<1>1. mount = <<>> /\ posts = EmptyBag /\ back = {} /\ frames = <<>> /\ releases = <<>> /\ runs = <<>>
      /\ ticket = 0 /\ bound = {0} /\ primary = 0
  BY DEF SlotInit
<1>2. Issued = {} /\ Pages = {} /\ \A st : InStage(st) = {}
  BY <1>1 DEF Issued, Pages, Owned, InStage
<1>3. posts = [x \in {} |-> 1]  BY <1>1 DEF EmptyBag, SetToBag
<1>4. Range(<<>>) = {} /\ Requested = {} /\ Answered = {}
  BY <1>1, <1>3 DEF Range, Requested, Answered
<1>5. Types
  <2>1. posts = [x \in DOMAIN posts |-> posts[x]]  BY <1>3
  <2>2. mount \in Seq(Mounted) /\ releases \in Seq(Nat) /\ runs \in Seq(Nat)  BY <1>1
  <2> QED BY <1>1, <2>1, <2>2, TellsNone DEF Types
<1>6. Ways  BY <1>2 DEF Ways
<1>7. AskedOnce  BY <1>4 DEF AskedOnce, Asking
<1>8. Tickets  BY <1>1, <1>2, <1>4 DEF Tickets
<1>9. Users = {}  BY <1>1, <1>2, <1>4 DEF Users
<1>10. Released  BY <1>1, <1>4 DEF Released, IsInjective
<1>11. Owners  BY <1>2, <1>9 DEF Owners
<1>12. Uses  BY <1>1 DEF Uses
<1> QED BY <1>5, <1>6, <1>7, <1>8, <1>10, <1>11, <1>12 DEF IInv

LEMMA MountSlotKeeps ==
    ASSUME SlotConstantsOK, IInv, NEW c \in Slots, NEW p \in Paths, NEW pr \in Props,
           MountSlot(c, p, pr)
    PROVE  IInv'
<1> DEFINE new == NewMount(c, p, pr, "queued")
<1>0. Types /\ Ways /\ AskedOnce /\ Tickets /\ Released /\ Owners /\ Uses  BY DEF IInv
<1>1. /\ mount' = Append(mount, new) /\ ticket' = ticket
      /\ UNCHANGED <<runs, releases, bound, primary, sink, screen, posts, frames, back>>
  BY DEF MountSlot, pageVars, table, wire
<1>2. new \in Mounted /\ new.by = c /\ new.stage = "queued" /\ c # Page
  BY <1>0, <1>1 DEF NewMount, Mounted, Stages, Types, SlotConstantsOK
<1> HIDE DEF new, Mounted
<1>3. /\ mount' \in Seq(Mounted) /\ Same
      /\ \A m \in Issued : mount'[m] = mount[m]
      /\ \E n \in Nat \ Issued : n # 0 /\ Issued' = Issued \cup {n} /\ mount'[n] = new
  BY <1>0, <1>1, <1>2, Appended
<1>4. /\ Pages' = Pages /\ InStage("posted")' = InStage("posted")
      /\ InStage("held")' = InStage("held") /\ InStage("settled")' = InStage("settled")
      /\ InStage("over")' = InStage("over") /\ InStage("loading")' = InStage("loading")
  BY <1>2, <1>3 DEF Pages, Owned, InStage
<1>5. Types'  BY <1>0, <1>1, <1>3, <1>4 DEF Types
<1>6. Ways'
  <2>1. \A m \in Issued' : m \in Issued \/ (mount'[m].stage = "queued" /\ m \notin Pages)
    BY <1>2, <1>3 DEF Pages, Owned
  <2>2. \A m \in Issued : mount'[m].stage = mount[m].stage  BY <1>3
  <2> QED BY <1>0, <1>4, <2>1, <2>2 DEF Ways
<1>7. Requested' = Requested /\ Answered' = Answered  BY <1>1 DEF Requested, Answered
<1>8. \A m \in Pages : mount'[m] = mount[m]  BY <1>3 DEF Pages, Owned
<1>9. Users' = Users /\ Users \subseteq Issued  BY <1>0, <1>1, <1>4, UsersIn DEF Users
<1>10. Released'  BY <1>0, <1>1, <1>4 DEF Released
<1>11. \A m \in InStage("held") : mount[m].store \in DOMAIN sink /\ sink[mount[m].store] = m
  BY <1>0 DEF Owners
<1>12. InStage("held") \subseteq Issued  BY DEF InStage
<1> QED BY <1>0, <1>1, <1>3, <1>4, <1>5, <1>6, <1>7, <1>8, <1>9, <1>10, <1>11, <1>12, SlotStep

(* One slot goes on, or changes what it says of itself.                    *)
LEMMA OneSlot ==
    ASSUME IInv, NEW m \in Issued \ Pages, NEW new \in Mounted, Changed(m, new),
           new.by = mount[m].by, new.path = mount[m].path, new.my = mount[m].my,
           new.store = mount[m].store,
           UNCHANGED <<ticket, runs, bound, primary, screen, back>>,
           Tells(frames'), posts' = [x \in DOMAIN posts' |-> posts'[x]], Requested' = Requested,
           \A x \in Requested : posts'[x] = posts[x],
           \/ /\ new.stage = mount[m].stage /\ UNCHANGED <<releases, sink>>
           \/ /\ mount[m].stage \in {"settled", "held"} /\ new.stage = "over"
              /\ releases' = Append(releases, m) /\ sink' = sink
           \/ /\ mount[m].stage = "settled" /\ new.stage = "held"
              /\ releases' = releases /\ sink' = Put(sink, mount[m].store, m)
    PROVE  IInv'
<1>0. Types /\ Ways /\ AskedOnce /\ Tickets /\ Released /\ Owners /\ Uses  BY DEF IInv
<1>1. /\ mount' \in Seq(Mounted) /\ Same /\ Issued' = Issued /\ Pages' = Pages
      /\ \A s : InStage(s)' = IF new.stage = s THEN InStage(s) \cup {m} ELSE InStage(s) \ {m}
  BY <1>0, ChangedOne
<1>2. \A s : m \in InStage(s) <=> mount[m].stage = s  BY DEF InStage
<1>3. /\ \A n \in Issued : mount'[n].store = mount[n].store
      /\ \A n \in Pages : mount'[n] = mount[n]
  BY DEF Changed, Pages, Owned
<1>4. /\ releases \in Seq(Nat) /\ IsInjective(releases)
      /\ Range(releases) \subseteq InStage("over") \ Pages /\ m \in Nat
  BY <1>0, MountIs DEF Types, Released
<1>5. Answered' = Answered  BY DEF Answered
<1>6. \A n \in InStage("held") : n \in Issued /\ mount[n].store \in DOMAIN sink /\ sink[mount[n].store] = n
  BY <1>0 DEF Owners, InStage
<1>7. new.stage \in {"queued", "posted", "settled", "held", "over"}
      /\ (mount[m].stage = "posted" <=> new.stage = "posted")
  BY <1>0 DEF Ways
<1>8. InStage("posted")' = InStage("posted")
  <2>1. CASE new.stage = "posted"  BY <1>1, <1>2, <1>7, <2>1
  <2>2. CASE new.stage # "posted"  BY <1>1, <1>2, <1>7, <2>2
  <2> QED BY <2>1, <2>2
<1>9. Ways'  BY <1>0, <1>1, <1>7 DEF Ways, Changed
<1>10. \A n \in Issued : mount[n].stage \in {"settled", "held", "over"} =>
                         mount'[n].stage \in {"settled", "held", "over"}
  BY DEF Changed
<1>11. ASSUME releases' \in Seq(Nat), Released', Users' = Users,
              \A n \in InStage("held")' : mount[n].store \in DOMAIN sink' /\ sink'[mount[n].store] = n
       PROVE  IInv'
  <2>1. Types'  BY <1>0, <1>1, <1>11 DEF Types
  <2>2. Users \subseteq Issued  BY <1>0, UsersIn
  <2>3. InStage("held")' \subseteq Issued  BY <1>1 DEF InStage, Issued
  <2> QED BY <1>1, <1>3, <1>5, <1>8, <1>9, <1>10, <1>11, <2>1, <2>2, <2>3, SlotStep
<1>12. CASE new.stage = mount[m].stage /\ UNCHANGED <<releases, sink>>
  <2>1. \A s : InStage(s)' = InStage(s)
    <3> SUFFICES ASSUME NEW s PROVE InStage(s)' = InStage(s)  OBVIOUS
    <3>1. CASE new.stage = s  BY <1>1, <1>2, <1>12, <3>1
    <3>2. CASE new.stage # s  BY <1>1, <1>2, <1>12, <3>2
    <3> QED BY <3>1, <3>2
  <2>2. InStage("held")' = InStage("held") /\ InStage("over")' = InStage("over")
        /\ InStage("settled")' = InStage("settled")
    BY <2>1
  <2>3. Users' = Users  BY <1>12, <2>2 DEF Users
  <2>4. Released'  BY <1>0, <1>1, <1>12, <2>2 DEF Released
  <2> QED BY <1>4, <1>6, <1>11, <1>12, <2>2, <2>3, <2>4
<1>13. CASE /\ mount[m].stage \in {"settled", "held"} /\ new.stage = "over"
            /\ releases' = Append(releases, m) /\ sink' = sink
  <2>1. InStage("over")' = InStage("over") \cup {m}  BY <1>1, <1>13
  <2>2. InStage("held")' = InStage("held") \ {m} /\ InStage("settled")' = InStage("settled") \ {m}
    BY <1>1, <1>13
  <2>3. m \notin Range(releases)  BY <1>2, <1>4, <1>13
  <2>4. releases' \in Seq(Nat) /\ Range(releases') = Range(releases) \cup {m} /\ IsInjective(releases')
    BY <1>4, <1>13, <2>3, AppendOne
  <2>5. Users' = Users  BY <1>2, <1>13, <2>2, <2>4 DEF Users
  <2>6. Released'  BY <1>1, <1>4, <2>1, <2>4 DEF Released
  <2> QED BY <1>6, <1>11, <1>13, <2>2, <2>4, <2>5, <2>6
<1>14. CASE /\ mount[m].stage = "settled" /\ new.stage = "held"
            /\ releases' = releases /\ sink' = Put(sink, mount[m].store, m)
  <2>1. InStage("held")' = InStage("held") \cup {m}  BY <1>1, <1>14
  <2>2. InStage("over")' = InStage("over")
    <3>1. InStage("over")' = InStage("over") \ {m}  BY <1>1, <1>14
    <3> QED BY <1>2, <1>14, <3>1
  <2>3. InStage("settled")' = InStage("settled") \ {m}  BY <1>1, <1>14
  <2>4. Users' = Users  BY <1>2, <1>14, <2>1, <2>3 DEF Users
  <2>5. Released'  BY <1>0, <1>1, <1>14, <2>2 DEF Released
  <2>6. \A n \in InStage("held") : n \in Users /\ m \in Users  BY <1>2, <1>14 DEF Users
  <2>7. \A n \in InStage("held") : n # m /\ mount[n].store # mount[m].store
    BY <1>0, <1>2, <1>14, <2>6 DEF Owners
  <2>8. \A n \in InStage("held")' : mount[n].store \in DOMAIN sink' /\ sink'[mount[n].store] = n
    BY <1>6, <1>14, <2>1, <2>7 DEF Put
  <2> QED BY <1>4, <1>11, <1>14, <2>4, <2>5, <2>8
<1> QED BY <1>12, <1>13, <1>14

LEMMA UnmountKeeps ==
    ASSUME IInv, NEW m \in Issued, Unmount(m)
    PROVE  IInv'
<1>0. Types /\ Ways  BY DEF IInv
<1> DEFINE held == mount[m].stage = "held"
           st == IF held THEN "over" ELSE mount[m].stage
           d == [mount[m] EXCEPT !.live = FALSE]
           new == [d EXCEPT !.stage = st]
<1>1. /\ mount' = [mount EXCEPT ![m].live = FALSE, ![m].stage = IF held THEN "over" ELSE @]
      /\ releases' = (IF held THEN Append(releases, m) ELSE releases)
      /\ m \in Issued \ Pages
      /\ UNCHANGED <<ticket, runs, bound, primary, sink, screen, posts, frames, back>>
  BY DEF Unmount, pageVars, table, wire, Pages, Owned
<1>2. Changed(m, new)  BY <1>1 DEF Issued, Changed
<1>3. mount[m] \in Mounted /\ st \in Stages
  BY <1>0, MountIs DEF Mounted, Stages
<1>4. d \in Mounted /\ d.by = mount[m].by /\ d.path = mount[m].path /\ d.my = mount[m].my
      /\ d.store = mount[m].store
  BY <1>3 DEF Mounted
<1> HIDE DEF d
<1>5. /\ new \in Mounted /\ new.stage = st /\ new.by = mount[m].by /\ new.path = mount[m].path
      /\ new.my = mount[m].my /\ new.store = mount[m].store
  BY <1>3, <1>4 DEF Mounted
<1> HIDE DEF new, Mounted
<1>6. /\ Tells(frames') /\ posts' = [x \in DOMAIN posts' |-> posts'[x]] /\ Requested' = Requested
      /\ \A x \in Requested : posts'[x] = posts[x]
  BY <1>0, <1>1 DEF Types, Requested
<1>7. CASE held
  <2>1. mount[m].stage = "held" /\ new.stage = "over" /\ releases' = Append(releases, m)
    BY <1>1, <1>5, <1>7
  <2> QED BY <1>1, <1>2, <1>5, <1>6, <2>1, OneSlot
<1>8. CASE ~held
  <2>1. new.stage = mount[m].stage /\ releases' = releases  BY <1>1, <1>5, <1>8
  <2> QED BY <1>1, <1>2, <1>5, <1>6, <2>1, OneSlot
<1> QED BY <1>7, <1>8

LEMMA ResumeKeeps ==
    ASSUME IInv, NEW m \in Issued, Resume(m)
    PROVE  IInv'
<1>0. Types /\ Ways  BY DEF IInv
<1> DEFINE st == IF mount[m].live THEN "held" ELSE "over"
           new == [mount[m] EXCEPT !.stage = st]
<1>1. /\ mount' = [mount EXCEPT ![m].stage = st]
      /\ mount[m].stage = "settled"
      /\ \/ st = "held" /\ releases' = releases /\ sink' = Put(sink, mount[m].store, m)
         \/ st = "over" /\ releases' = Append(releases, m) /\ sink' = sink
      /\ UNCHANGED <<ticket, runs, bound, primary, screen, posts, frames, back>>
  BY DEF Resume, pageVars, wire
<1>2. m \in Issued \ Pages  BY <1>0, <1>1 DEF Ways
<1>3. Changed(m, new)  BY <1>1 DEF Issued, Changed
<1>4. mount[m] \in Mounted /\ st \in Stages  BY <1>0, MountIs DEF Stages
<1>5. /\ new \in Mounted /\ new.stage = st /\ new.by = mount[m].by /\ new.path = mount[m].path
      /\ new.my = mount[m].my /\ new.store = mount[m].store
  BY <1>4 DEF Mounted
<1> HIDE DEF new, Mounted, st
<1>6. /\ Tells(frames') /\ posts' = [x \in DOMAIN posts' |-> posts'[x]] /\ Requested' = Requested
      /\ \A x \in Requested : posts'[x] = posts[x]
  BY <1>0, <1>1 DEF Types, Requested
<1> QED BY <1>1, <1>2, <1>3, <1>5, <1>6, OneSlot

LEMMA PatchKeeps ==
    ASSUME IInv, NEW m \in Issued, NEW pr \in Props, Patch(m, pr)
    PROVE  IInv'
<1>0. Types /\ Ways /\ AskedOnce  BY DEF IInv
<1> DEFINE new == [mount[m] EXCEPT !.sent = pr]
           u == Url(mount[m].path, pr)
<1>1. /\ mount' = [mount EXCEPT ![m].sent = pr]
      /\ mount[m].stage = "held" /\ m \in Issued \ Pages /\ Send(<<u>>)
      /\ UNCHANGED <<ticket, runs, bound, primary, screen, releases, sink, back>>
  BY DEF Patch, pageVars, Pages, Owned
<1>2. Changed(m, new)  BY <1>1 DEF Issued, Changed
<1>3. mount[m] \in Mounted  BY <1>0, MountIs
<1>4. /\ new \in Mounted /\ new.stage = mount[m].stage /\ new.by = mount[m].by
      /\ new.path = mount[m].path /\ new.my = mount[m].my /\ new.store = mount[m].store
  BY <1>3 DEF Mounted
<1> HIDE DEF new, Mounted
<1>5. u.kind # "mount"  BY DEF Url, Msg
<1> HIDE DEF u
<1>6. Tells(<<u>>)  BY <1>5, TellsOne
<1>7. /\ Tells(frames') /\ posts' = [x \in DOMAIN posts' |-> posts'[x]] /\ Requested' = Requested
      /\ \A x \in Requested : posts'[x] = posts[x]
  BY <1>0, <1>1, <1>6, SendTells
<1> QED BY <1>1, <1>2, <1>4, <1>7, OneSlot

LEMMA InOrderIs ==
    ASSUME Types, NEW ms
    PROVE  InOrder(ms) \in Seq(Nat) /\ Range(InOrder(ms)) = ms \cap Issued /\ IsInjective(InOrder(ms))
<1> DEFINE all == [n \in 1 .. Len(mount) |-> n]
<1>1. Len(mount) \in Nat /\ Issued = 1 .. Len(mount)  BY MountIs
<1>2. all \in Seq(Nat) /\ DOMAIN all = Issued /\ \A n \in Issued : all[n] = n  BY <1>1, IsASeq
<1>3. InOrder(ms) = Only(all, ms)  BY DEF InOrder
<1> HIDE DEF all
<1>4. Range(all) = Issued /\ IsInjective(all)  BY <1>2 DEF Range, IsInjective
<1>5. Only(all, ms) \in Seq(Nat) /\ Range(Only(all, ms)) = Range(all) \cap ms  BY <1>2, OnlyPicks
<1>6. IsInjective(Only(all, ms))  BY <1>2, <1>4, OnlyInjective
<1> QED BY <1>3, <1>4, <1>5, <1>6

LEMMA DenyKeeps ==
    ASSUME IInv, NEW b \in back, Receive(b), b.kind = "deny"
    PROVE  IInv'
<1>0. Types /\ Ways /\ AskedOnce /\ Tickets /\ Released /\ Owners /\ Uses  BY DEF IInv
<1>1. /\ Idle /\ back' = back \ {b} /\ RouteRedirect(b.path)
      /\ UNCHANGED <<ticket, runs, bound, primary, screen, sink, posts, frames>>
  BY DEF Receive, table, pageVars, sent
<1>2. InStage("settled") = {} /\ releases = <<>>  BY <1>1 DEF Idle
<1> DEFINE hit == {m \in {sink[s] : s \in StoresOf(b.path) \cap DOMAIN sink} :
                     mount[m].live /\ mount[m].stage = "held"}
<1>3. /\ mount' = [m \in Issued |-> IF m \in hit THEN [mount[m] EXCEPT !.stage = "over"]
                                    ELSE mount[m]]
      /\ releases' = releases \o InOrder(hit)
  BY <1>1 DEF RouteRedirect
<1> HIDE DEF hit
<1> DEFINE gone == hit \cap InStage("held")
<1>4. \A m \in Issued : mount'[m] = IF m \in gone THEN [mount[m] EXCEPT !.stage = "over"] ELSE mount[m]
  <2>1. \A m \in Issued : m \in hit => mount[m].stage = "held"  BY DEF hit
  <2> QED BY <1>3, <2>1 DEF InStage
<1>5. Issued' = Issued /\ mount' = [m \in Issued |-> mount'[m]] /\ DOMAIN mount' = Issued
  BY <1>3 DEF Issued
<1>6. \A m \in Issued :
        /\ mount[m] \in Mounted /\ mount'[m] \in Mounted /\ mount'[m].by = mount[m].by
        /\ mount'[m].path = mount[m].path /\ mount'[m].my = mount[m].my
        /\ mount'[m].store = mount[m].store
        /\ mount'[m].stage = IF m \in gone THEN "over" ELSE mount[m].stage
  <2> SUFFICES ASSUME NEW m \in Issued
               PROVE  /\ mount[m] \in Mounted /\ mount'[m] \in Mounted /\ mount'[m].by = mount[m].by
                      /\ mount'[m].path = mount[m].path /\ mount'[m].my = mount[m].my
                      /\ mount'[m].store = mount[m].store
                      /\ mount'[m].stage = IF m \in gone THEN "over" ELSE mount[m].stage
    OBVIOUS
  <2>1. mount[m] \in Mounted  BY <1>0, MountIs
  <2>2. CASE m \in gone
    <3>1. mount'[m] = [mount[m] EXCEPT !.stage = "over"]  BY <1>4, <2>2
    <3> QED BY <2>1, <2>2, <3>1 DEF Mounted, Stages
  <2>3. CASE m \notin gone  BY <1>4, <2>1, <2>3
  <2> QED BY <2>2, <2>3
<1> HIDE DEF Mounted
<1>7. mount' \in Seq(Mounted)
  <2> DEFINE f == mount'
  <2>1. DOMAIN f = Issued /\ f = [m \in Issued |-> f[m]] /\ \A m \in Issued : f[m] \in Mounted
    BY <1>5, <1>6
  <2> HIDE DEF f
  <2>2. f \in Seq(Mounted)  BY <1>0, <2>1, Remounted
  <2> QED BY <2>2 DEF f
<1>8. Same /\ Pages' = Pages  BY <1>5, <1>6 DEF Same, Pages, Owned
<1>9. gone \subseteq InStage("held") /\ InStage("held") \subseteq Issued \ Pages /\ hit \cap Issued = gone
  <2>1. InStage("held") \subseteq Issued \ Pages  BY <1>0 DEF Ways, InStage
  <2>2. \A m \in Issued : m \in hit => m \in InStage("held")  BY DEF hit, InStage
  <2> QED BY <2>1, <2>2
<1> HIDE DEF gone
<1>10. /\ InStage("held")' = InStage("held") \ gone /\ InStage("over")' = InStage("over") \cup gone
       /\ InStage("posted")' = InStage("posted") /\ InStage("settled")' = InStage("settled")
  BY <1>5, <1>6, <1>9 DEF InStage
<1>11. releases' \in Seq(Nat) /\ Range(releases') = gone /\ IsInjective(releases')
  <2>1. InOrder(hit) \in Seq(Nat) /\ Range(InOrder(hit)) = gone /\ IsInjective(InOrder(hit))
    BY <1>0, <1>9, InOrderIs
  <2>2. releases' = InOrder(hit)  BY <1>2, <1>3, <2>1, ConcatEmptySeq
  <2> QED BY <2>1, <2>2
<1>12. Types'  BY <1>0, <1>1, <1>5, <1>7, <1>8, <1>11 DEF Types
<1>13. Ways'  BY <1>0, <1>5, <1>6, <1>8, <1>9 DEF Ways
<1>14. Released'  BY <1>8, <1>9, <1>10, <1>11 DEF Released
<1>15. Users' = Users /\ Users \subseteq Issued
  <2>1. Users = InStage("held")
    <3>1. Range(<<>>) = {}  BY DEF Range
    <3> QED BY <1>2, <3>1 DEF Users
  <2>2. Users' = (InStage("held") \ gone) \cup InStage("settled") \cup gone  BY <1>10, <1>11 DEF Users
  <2> QED BY <1>2, <1>9, <2>1, <2>2
<1>16. Requested' = Requested /\ Answered' \subseteq Answered /\ \A x \in Requested : posts'[x] = posts[x]
  BY <1>1 DEF Requested, Answered
<1>17. \A m \in Pages : mount'[m] = mount[m]  BY <1>4, <1>9 DEF Pages, Owned
<1>18. \A m \in InStage("held")' : mount'[m].store \in DOMAIN sink' /\ sink'[mount'[m].store] = m
  <2>1. \A m \in InStage("held") : m \in Issued /\ mount[m].store \in DOMAIN sink /\ sink[mount[m].store] = m
    BY <1>0, <1>9 DEF Owners
  <2> QED BY <1>1, <1>6, <1>10, <2>1
<1> QED
  BY <1>1, <1>6, <1>8, <1>9, <1>10, <1>12, <1>13, <1>14, <1>15, <1>16, <1>17, <1>18, SlotStep

(* The mounts of a request are answered.                                   *)
LEMMA AnswerTaken ==
    ASSUME IInv, NEW b \in Answered, back' = back \ {b}, Same, Requested' = Requested,
           \A x \in Requested : posts'[x] = posts[x],
           InStage("posted") \ b.ms \subseteq InStage("posted")'
    PROVE  AskedOnce'
<1>1. Answered' = Answered \ {b}  BY DEF Answered
<1>2. b \in Asking /\ AskedOnce /\ \A x \in Requested : x # b
  <2>1. b.kind # "mount"  BY DEF IInv, AskedOnce, Answered
  <2> QED BY <2>1 DEF IInv, Asking, Requested
<1>3. \A x \in Asking' : x \in Asking /\ x # b  BY <1>1, <1>2 DEF Asking
<1>4. \A x \in Asking' : x.ms \cap b.ms = {}  BY <1>2, <1>3 DEF AskedOnce
<1> QED BY <1>1, <1>2, <1>4, AskedKept

LEMMA SettleSlotsKeeps ==
    ASSUME IInv, NEW b \in back, Receive(b), b.kind = "slots"
    PROVE  IInv'
<1>0. Types /\ Ways /\ AskedOnce /\ Tickets /\ Released /\ Owners /\ Uses  BY DEF IInv
<1> DEFINE ms == b.ms
           ok == b.ok
           joins == [i \in 1 .. Len(InOrder(ok)) |-> JoinMsg(InOrder(ok)[i])]
<1>1. /\ Idle /\ back' = back \ {b} /\ bound' = bound \cup ok /\ Send(joins)
      /\ mount' = [m \in Issued |-> IF m \in ms THEN SettleSlotMount(m, ok) ELSE mount[m]]
      /\ UNCHANGED <<ticket, runs, releases, primary, screen, sink>>
  BY DEF Receive, SettleSlots, pageVars
<1>2. InStage("settled") = {} /\ releases = <<>>  BY <1>1 DEF Idle
<1>3. b \in Answered /\ b \in Asking  BY DEF Answered, Asking
<1>4. ok \subseteq ms /\ ms \subseteq InStage("posted") /\ ms \cap Pages = {}
  BY <1>0, <1>3 DEF AskedOnce
<1>5. /\ Tells(frames') /\ posts' = [x \in DOMAIN posts' |-> posts'[x]]
      /\ Requested' = Requested /\ \A x \in Requested : posts'[x] = posts[x]
  <2>1. InOrder(ok) \in Seq(Nat)  BY <1>0, InOrderIs
  <2>2. Len(InOrder(ok)) \in Nat  BY <2>1, LenProperties
  <2>3. \A i \in 1 .. Len(InOrder(ok)) : joins[i].kind # "mount"  BY DEF JoinMsg, Msg
  <2>4. joins = [i \in 1 .. Len(InOrder(ok)) |-> joins[i]]  OBVIOUS
  <2> HIDE DEF joins
  <2>5. Tells(joins)  BY <2>2, <2>3, <2>4, TellsMap
  <2> QED BY <1>0, <1>1, <2>5, SendTells
<1> HIDE DEF ms, ok, joins
<1>6. Issued' = Issued /\ mount' = [m \in Issued |-> mount'[m]] /\ DOMAIN mount' = Issued
  BY <1>1 DEF Issued
<1>7. /\ \A m \in Issued \ ms : mount'[m] = mount[m]
      /\ \A m \in ms : mount'[m] = SettleSlotMount(m, ok) /\ m \in Issued
  BY <1>1, <1>4 DEF InStage
<1>8. \A m \in Issued :
        /\ mount[m] \in Mounted /\ mount'[m] \in Mounted /\ mount'[m].by = mount[m].by
        /\ mount'[m].path = mount[m].path /\ mount'[m].my = mount[m].my
        /\ m \notin ok => mount'[m].store = mount[m].store
        /\ m \in ok => mount'[m].store = m
        /\ mount'[m].stage = IF m \in ok THEN "settled" ELSE IF m \in ms THEN "over" ELSE mount[m].stage
  <2> SUFFICES ASSUME NEW m \in Issued
               PROVE  /\ mount[m] \in Mounted /\ mount'[m] \in Mounted /\ mount'[m].by = mount[m].by
                      /\ mount'[m].path = mount[m].path /\ mount'[m].my = mount[m].my
                      /\ m \notin ok => mount'[m].store = mount[m].store
                      /\ m \in ok => mount'[m].store = m
                      /\ mount'[m].stage =
                            IF m \in ok THEN "settled" ELSE IF m \in ms THEN "over" ELSE mount[m].stage
    OBVIOUS
  <2>1. mount[m] \in Mounted /\ m \in Nat  BY <1>0, MountIs
  <2>2. CASE m \in ok
    <3>1. mount'[m] = [mount[m] EXCEPT !.stage = "settled", !.store = m] /\ m \in ms
      BY <1>4, <1>7, <2>2 DEF SettleSlotMount
    <3> DEFINE st == "settled"
               q == mount'[m]
               r == mount[m]
               d == [r EXCEPT !.stage = st]
    <3>2. d = [r EXCEPT !.stage = st] /\ q = [d EXCEPT !.store = m]  BY <3>1
    <3>3. st \in Stages /\ st = "settled"  BY DEF Stages
    <3>4. r \in Mounted /\ m \in Nat  BY <2>1
    <3> HIDE DEF st, q, r, d
    <3>5. d \in Mounted /\ d.stage = st /\ d.by = r.by /\ d.path = r.path /\ d.my = r.my
      BY <3>2, <3>3, <3>4 DEF Mounted
    <3> HIDE DEF Mounted
    <3>6. /\ q \in Mounted /\ q.stage = st /\ q.store = m
          /\ q.by = r.by /\ q.path = r.path /\ q.my = r.my
      BY <3>2, <3>4, <3>5 DEF Mounted
    <3> QED BY <2>1, <2>2, <3>1, <3>3, <3>6 DEF q, r
  <2>3. CASE m \in ms \ ok
    <3>1. mount'[m] = [mount[m] EXCEPT !.stage = "over"]
      BY <1>7, <2>3 DEF SettleSlotMount
    <3> QED BY <2>1, <2>3, <3>1 DEF Mounted, Stages
  <2>4. CASE m \notin ms  BY <1>4, <1>7, <2>1, <2>4
  <2> QED BY <2>2, <2>3, <2>4
<1> HIDE DEF Mounted
<1>9. mount' \in Seq(Mounted)
  <2> DEFINE f == mount'
  <2>1. DOMAIN f = Issued /\ f = [m \in Issued |-> f[m]] /\ \A m \in Issued : f[m] \in Mounted
    BY <1>6, <1>8
  <2> HIDE DEF f
  <2>2. f \in Seq(Mounted)  BY <1>0, <2>1, Remounted
  <2> QED BY <2>2 DEF f
<1>10. Same /\ Pages' = Pages  BY <1>6, <1>8 DEF Same, Pages, Owned
<1>11. ms \subseteq Issued \ Pages /\ ms \subseteq InStage("posted")  BY <1>4, <1>7
<1>12. /\ InStage("held")' = InStage("held") /\ InStage("settled")' = ok
       /\ InStage("posted") \ ms \subseteq InStage("posted")'
  <2>1. \A m \in ms : mount[m].stage = "posted"  BY <1>11 DEF InStage
  <2> QED BY <1>2, <1>4, <1>6, <1>8, <1>11, <2>1 DEF InStage
<1>13. Types'  BY <1>0, <1>1, <1>4, <1>5, <1>6, <1>9, <1>10, <1>11 DEF Types
<1>14. Ways'  BY <1>0, <1>4, <1>6, <1>8, <1>10, <1>11 DEF Ways
<1>15. AskedOnce'
  <2>1. InStage("posted") \ b.ms \subseteq InStage("posted")'  BY <1>12 DEF ms
  <2> QED BY <1>1, <1>3, <1>5, <1>10, <2>1, AnswerTaken
<1>16. \A m \in Pages : mount'[m] = mount[m]  BY <1>7, <1>11 DEF Pages, Owned
<1>17. Tickets'  BY <1>0, <1>1, <1>10, <1>14, <1>16, TicketsKept
<1>18. Users = InStage("held") /\ Users' = InStage("held") \cup ok
  <2>1. Range(<<>>) = {}  BY DEF Range
  <2> QED BY <1>1, <1>2, <1>12, <2>1 DEF Users
<1>19. Released'
  <2>1. Range(<<>>) = {}  BY DEF Range
  <2> QED BY <1>0, <1>1, <1>2, <2>1 DEF Released
<1> DEFINE Good(u) == LET s == mount'[u].store IN
             /\ s \in bound' /\ s \in Issued' \ Pages' /\ mount'[s].path = mount'[u].path
             /\ mount'[s].stage \in {"settled", "held", "over"}
<1>20. \A u \in InStage("held") : u \in Issued /\ u \notin ms /\ u \in Users
  BY <1>11, <1>18 DEF InStage
<1>21. ASSUME NEW u \in InStage("held")
       PROVE  Good(u) /\ mount'[u].store = mount[u].store /\ mount[u].store \notin ms
  <2> DEFINE s == mount[u].store
  <2>1. /\ s \in bound /\ s \in Issued \ Pages /\ mount[s].path = mount[u].path
        /\ mount[s].stage \in {"settled", "held", "over"}
    BY <1>0, <1>20 DEF Owners
  <2>2. s \notin ms  BY <1>11, <2>1 DEF InStage
  <2>3. mount'[u].store = s  BY <1>4, <1>8, <1>20
  <2> HIDE DEF s
  <2> QED BY <1>1, <1>6, <1>7, <1>10, <1>20, <2>1, <2>2, <2>3 DEF s
<1>22. ASSUME NEW u \in ok PROVE Good(u) /\ mount'[u].store = u
  BY <1>1, <1>4, <1>6, <1>8, <1>10, <1>11
<1>23. Owners'
  <2>1. \A u \in Users' : Good(u)  BY <1>18, <1>21, <1>22
  <2>2. \A u, v \in Users' : mount'[u].store = mount'[v].store => u = v
    <3> SUFFICES ASSUME NEW u \in Users', NEW v \in Users', mount'[u].store = mount'[v].store
                 PROVE  u = v
      OBVIOUS
    <3>1. CASE u \in InStage("held") /\ v \in InStage("held")
      BY <1>0, <1>20, <1>21, <3>1 DEF Owners
    <3>2. CASE u \in ok /\ v \in ok  BY <1>22, <3>2
    <3>3. CASE u \in ok /\ v \in InStage("held")  BY <1>4, <1>21, <1>22, <3>3
    <3>4. CASE v \in ok /\ u \in InStage("held")  BY <1>4, <1>21, <1>22, <3>4
    <3> QED BY <1>18, <3>1, <3>2, <3>3, <3>4
  <2>3. \A m \in InStage("held") : mount'[m].store \in DOMAIN sink' /\ sink'[mount'[m].store] = m
    BY <1>0, <1>1, <1>21 DEF Owners
  <2> QED BY <1>12, <2>1, <2>2, <2>3 DEF Owners
<1>24. Uses'
  <2> SUFFICES ASSUME NEW s \in bound' \ {primary'}
               PROVE  \/ \E u \in Users' : mount'[u].store = s
                      \/ s \notin Issued' \ Pages' /\ \E t \in Range(runs)' : mount'[t].path = PathOf(s)'
    BY DEF Uses
  <2>1. CASE s \in ok  BY <1>18, <1>22, <2>1
  <2>2. CASE s \in bound
    <3>1. s \in bound \ {primary} /\ (s = 0 \/ s \in Issued) /\ 0 \notin Issued  BY <1>0, <1>1, <2>2, MountIs DEF Types
    <3>2. CASE \E u \in Users : mount[u].store = s  BY <1>18, <1>21, <3>2
    <3>3. CASE s \notin Issued \ Pages /\ \E t \in Range(runs) : mount[t].path = PathOf(s)
      <4>1. PathOf(s)' = PathOf(s)  BY <1>8, <3>1 DEF PathOf
      <4>2. \A t \in Range(runs) : t \in Issued  BY <1>0 DEF Tickets, Pages, Owned
      <4> QED BY <1>1, <1>6, <1>8, <1>10, <3>3, <4>1, <4>2
    <3> QED BY <1>0, <3>1, <3>2, <3>3 DEF Uses
  <2> QED BY <1>1, <2>1, <2>2
<1> QED BY <1>13, <1>14, <1>15, <1>17, <1>19, <1>23, <1>24 DEF IInv

-----------------------------------------------------------------------------
(* The microtask *)

(* Which of the queued mounts of its path it is, and what it may cancel.   *)
Peers(m) == {k \in Queued : k <= m /\ mount[k].path = mount[m].path}
Cancels(m) == SamePath(releases, mount[m].path)

LEMMA RelOfIs ==
    ASSUME IInv, NEW m \in Queued, NEW r \in RelOf(m)
    PROVE  /\ r \in Range(releases) /\ mount[r].path = mount[m].path /\ mount[r].store \in bound
           /\ Cardinality(Peers(m)) \in 1 .. Len(Cancels(m))
           /\ r = Cancels(m)[Cardinality(Peers(m))]
<1> DEFINE nth == Cardinality(Peers(m))
           rels == Cancels(m)
<1>0. Types /\ Released  BY DEF IInv
<1>1. RelOf(m) = IF nth <= Len(rels) /\ mount[rels[nth]].store \in bound THEN {rels[nth]} ELSE {}
  BY DEF RelOf, Peers, Cancels
<1>2. nth \in Nat \ {0}
  <2>1. Len(mount) \in Nat /\ Issued = 1 .. Len(mount) /\ m \in Peers(m)
    BY <1>0, MountIs DEF Peers, Queued, InStage
  <2>2. Peers(m) \in SUBSET (1 .. Len(mount))  BY <2>1 DEF Peers, Queued, InStage
  <2>3. IsFiniteSet(1 .. Len(mount))  BY <2>1, FS_Interval
  <2>4. IsFiniteSet(Peers(m))  BY <2>2, <2>3, FS_Subset
  <2>5. Cardinality(Peers(m)) \in Nat  BY <2>4, FS_CardinalityType
  <2>6. Cardinality(Peers(m)) # 0  BY <2>1, <2>4, FS_EmptySet
  <2> QED BY <2>5, <2>6
<1>3. /\ rels \in Seq(Nat) /\ Len(rels) \in Nat
      /\ Range(rels) = Range(releases) \cap {k \in Issued : mount[k].path = mount[m].path}
  <2>1. releases \in Seq(Nat)  BY <1>0 DEF Types
  <2> DEFINE es == {k \in Issued : mount[k].path = mount[m].path}
  <2>2. rels = Only(releases, es)  BY DEF Cancels, SamePath
  <2> HIDE DEF es, rels
  <2>3. rels \in Seq(Nat) /\ Range(rels) = Range(releases) \cap es  BY <2>1, <2>2, OnlyPicks
  <2>4. Len(rels) \in Nat  BY <2>3, LenProperties
  <2> QED BY <2>3, <2>4 DEF es
<1> HIDE DEF nth, rels
<1>4. nth <= Len(rels) /\ r = rels[nth] /\ mount[r].store \in bound  BY <1>1
<1>5. nth \in 1 .. Len(rels)  BY <1>2, <1>3, <1>4
<1>6. r \in Range(rels)
  <2>1. DOMAIN rels = 1 .. Len(rels)  BY <1>3, LenProperties
  <2> QED BY <1>4, <1>5, <2>1 DEF Range
<1> QED BY <1>3, <1>4, <1>5, <1>6 DEF nth, rels

LEMMA RelOfOne == ASSUME IInv, NEW m \in Queued, NEW r \in RelOf(m) PROVE RelOf(m) = {r}
<1>1. \A s \in RelOf(m) : s = r  BY RelOfIs
<1> QED BY <1>1

(* No two mounts cancel one release.                                       *)
LEMMA RelOfOwn ==
    ASSUME IInv, NEW m \in Queued, NEW k \in Queued, NEW r, r \in RelOf(m), r \in RelOf(k)
    PROVE  m = k
<1>0. Types /\ Released  BY DEF IInv
<1>1. /\ mount[m].path = mount[k].path
      /\ Cardinality(Peers(m)) \in 1 .. Len(Cancels(m)) /\ r = Cancels(m)[Cardinality(Peers(m))]
      /\ Cardinality(Peers(k)) \in 1 .. Len(Cancels(k)) /\ r = Cancels(k)[Cardinality(Peers(k))]
  BY RelOfIs
<1>2. Cancels(m) = Cancels(k)  BY <1>1 DEF Cancels
<1>3. Cancels(m) \in Seq(Nat) /\ IsInjective(Cancels(m))
  <2>1. releases \in Seq(Nat) /\ IsInjective(releases)  BY <1>0 DEF Types, Released
  <2> DEFINE es == {n \in Issued : mount[n].path = mount[m].path}
  <2>2. Cancels(m) = Only(releases, es)  BY DEF Cancels, SamePath
  <2> HIDE DEF es
  <2> QED BY <2>1, <2>2, OnlyPicks, OnlyInjective
<1>4. Cardinality(Peers(m)) = Cardinality(Peers(k))
  <2>1. DOMAIN Cancels(m) = 1 .. Len(Cancels(m))  BY <1>3, LenProperties
  <2> QED BY <1>1, <1>2, <1>3, <2>1 DEF IsInjective
<1>5. Len(mount) \in Nat /\ Issued = 1 .. Len(mount) /\ Queued \subseteq Issued
  BY <1>0, MountIs DEF Queued, InStage
<1>6. \A n \in Queued : IsFiniteSet(Peers(n)) /\ n \in Peers(n)
  <2> SUFFICES ASSUME NEW n \in Queued PROVE IsFiniteSet(Peers(n)) /\ n \in Peers(n)
    OBVIOUS
  <2>1. Peers(n) \in SUBSET (1 .. Len(mount))  BY <1>5 DEF Peers
  <2>2. IsFiniteSet(1 .. Len(mount))  BY <1>5, FS_Interval
  <2>3. IsFiniteSet(Peers(n))  BY <2>1, <2>2, FS_Subset
  <2> QED BY <1>5, <2>3 DEF Peers
<1>7. Peers(m) \in SUBSET Peers(k) \/ Peers(k) \in SUBSET Peers(m)
  <2>1. \A n \in Queued : n \in Nat  BY <1>5
  <2>2. CASE m <= k
    <3>1. \A n \in Queued : n <= m => n <= k  BY <2>1, <2>2
    <3> QED BY <1>1, <3>1 DEF Peers
  <2>3. CASE k <= m
    <3>1. \A n \in Queued : n <= k => n <= m  BY <2>1, <2>3
    <3> QED BY <1>1, <3>1 DEF Peers
  <2> QED BY <2>1, <2>2, <2>3
<1>8. Peers(m) = Peers(k)
  <2>1. CASE Peers(m) \in SUBSET Peers(k)  BY <1>4, <1>6, <2>1, FS_Subset
  <2>2. CASE Peers(k) \in SUBSET Peers(m)  BY <1>4, <1>6, <2>2, FS_Subset
  <2> QED BY <1>7, <2>1, <2>2
<1>9. m <= k /\ k <= m  BY <1>6, <1>8 DEF Peers
<1> QED BY <1>5, <1>9

LEMMA FiniteImage ==
    ASSUME NEW S, IsFiniteSet(S), NEW f
    PROVE  IsFiniteSet({f[x] : x \in S})
<1> DEFINE T == {f[x] : x \in S}
           g == [x \in S |-> f[x]]
<1>1. g \in Surjection(S, T)
  <2>1. g \in [S -> T]  OBVIOUS
  <2>2. \A t \in T : \E x \in S : g[x] = t  OBVIOUS
  <2> HIDE DEF g, T
  <2> QED BY <2>1, <2>2, Zenon DEF Surjection
<1> HIDE DEF g, T
<1>2. IsFiniteSet(T)  BY <1>1, FS_Surjection
<1> QED BY <1>2 DEF T

LEMMA TellsReleases ==
    ASSUME NEW ps, IsFiniteSet(ps)
    PROVE  Tells(Releases(ps))
<1> DEFINE f == Releases(ps)
           n == Cardinality(ps)
<1>1. n \in Nat  BY FS_CardinalityType
<1>2. f = [i \in 1 .. n |-> f[i]] /\ \A i \in 1 .. n : f[i].kind # "mount"
  BY DEF Releases, ReleaseMsg, Msg
<1> HIDE DEF f, n
<1>3. Tells(f)  BY <1>1, <1>2, TellsMap
<1> QED BY <1>3 DEF f

(* A request for mounts that have not been asked for yet.                  *)
LEMMA AskedMore ==
    ASSUME IInv, Same, NEW ms \in SUBSET Issued, ms # {}, ms \cap InStage("posted") = {},
           InStage("posted") \cup ms \subseteq InStage("posted")',
           (\E m \in Pages : ms = {m}) \/ ms \cap Pages = {},
           Requested' = Requested \cup {MountPost(ms)}, posts'[MountPost(ms)] = 1,
           \A x \in Requested : posts'[x] = posts[x], Answered' = Answered
    PROVE  AskedOnce'
<1> DEFINE ask == MountPost(ms)
<1>0. AskedOnce  BY DEF IInv
<1>1. ask.ms = ms  BY DEF MountPost
<1> HIDE DEF ask
<1>2. Asking' = Asking \cup {ask} /\ Requested' = Requested \cup {ask} /\ posts'[ask] = 1
  BY DEF Asking, ask
<1>3. \A x \in Asking : x.ms \subseteq InStage("posted") /\ x.ms \subseteq Issued
  BY <1>0 DEF AskedOnce, InStage
<1>4. \A m \in Issued : m \in Pages' <=> m \in Pages  BY DEF Same, Pages, Owned
<1>5. ASSUME NEW x \in Asking'
      PROVE  /\ x.ms # {} /\ x.ms \subseteq InStage("posted")'
             /\ (\E m \in Pages' : x.ms = {m}) \/ x.ms \cap Pages' = {}
  <2>1. x.ms \subseteq Issued  BY <1>1, <1>2, <1>3
  <2>2. x.ms \cap Pages' = x.ms \cap Pages  BY <1>4, <2>1
  <2>3. x.ms # {} /\ x.ms \subseteq InStage("posted")'
        /\ ((\E m \in Pages : x.ms = {m}) \/ x.ms \cap Pages = {})
    <3>1. CASE x = ask  BY <1>1, <3>1
    <3>2. CASE x \in Asking
      <4>1. x.ms # {} /\ x.ms \subseteq InStage("posted")
            /\ ((\E m \in Pages : x.ms = {m}) \/ x.ms \cap Pages = {})
        BY <1>0, <3>2 DEF AskedOnce
      <4> QED BY <4>1
    <3> QED BY <1>2, <3>1, <3>2
  <2>4. \A m \in Pages : m \in Pages'  BY <1>4 DEF Pages, Owned
  <2> QED BY <2>2, <2>3, <2>4
<1>6. ASSUME NEW b \in Answered'
      PROVE  b.ok \subseteq b.ms /\ b.kind = IF b.ms \cap Pages' = {} THEN "slots" ELSE "page"
  <2>1. b \in Answered /\ b \in Asking  BY DEF Asking
  <2>2. b.ms \cap Pages' = b.ms \cap Pages  BY <1>3, <1>4, <2>1
  <2> QED BY <1>0, <2>1, <2>2 DEF AskedOnce
<1>7. ASSUME NEW x \in Asking', NEW y \in Asking', x # y PROVE x.ms \cap y.ms = {}
  <2>1. CASE x = ask  BY <1>1, <1>2, <1>3, <1>7, <2>1
  <2>2. CASE y = ask  BY <1>1, <1>2, <1>3, <1>7, <2>2
  <2>3. CASE x \in Asking /\ y \in Asking  BY <1>0, <1>7, <2>3 DEF AskedOnce
  <2> QED BY <1>2, <2>1, <2>2, <2>3
<1>8. \A x \in Requested' : posts'[x] = 1  BY <1>0, <1>2 DEF AskedOnce
<1> QED BY <1>5, <1>6, <1>7, <1>8 DEF AskedOnce

LEMMA NotAskedYet ==
    ASSUME IInv, NEW ms, ms # {}, ms \cap InStage("posted") = {}
    PROVE  MountPost(ms) \notin Requested /\ MountPost(ms).kind = "mount"
<1>1. MountPost(ms).ms = ms /\ MountPost(ms).kind = "mount"  BY DEF MountPost
<1>2. \A x \in Requested : x.ms \subseteq InStage("posted")  BY DEF IInv, AskedOnce, Asking
<1> QED BY <1>1, <1>2

LEMMA FlushKeeps ==
    ASSUME SlotConstantsOK, IInv, FlushSlots
    PROVE  IInv'
<1>0. Types /\ Ways /\ AskedOnce /\ Tickets /\ Released /\ Owners /\ Uses  BY DEF IInv
<1> DEFINE gone == {mount[r].store : r \in Range(releases) \ Cancelled}
           kept == {mount[r].store : r \in Cancelled}
           freed == Freed(gone)
           asked == Queued \ Rebound
           urls == RebindUrls
           tells == urls \o Releases(freed)
           ask == IF asked = {} THEN <<>> ELSE <<MountPost(asked)>>
<1>1. /\ InStage("settled") = {} /\ bound' = bound \ gone /\ sink' = Drop(sink, gone \cup kept)
      /\ mount' = [m \in Issued |->
             IF m \in Rebound
             THEN [mount[m] EXCEPT !.stage = "settled", !.store = StoreKept(m)]
             ELSE IF m \in asked THEN [mount[m] EXCEPT !.stage = "posted"] ELSE mount[m]]
      /\ releases' = <<>> /\ Send(tells \o ask)
      /\ UNCHANGED <<ticket, runs, primary, screen, back>>
  BY DEF FlushSlots, pageVars
<1>2. /\ Queued \subseteq Issued \ Pages /\ \A m \in Queued : mount[m].stage = "queued"
  BY <1>0 DEF Queued, InStage, Ways
<1>3. Rebound \subseteq Queued /\ asked \subseteq Queued /\ asked \cap Rebound = {} /\ Queued = asked \cup Rebound
  BY DEF Rebound
<1>4. \A m \in Queued : \A r \in RelOf(m) :
         r \in Range(releases) /\ mount[r].path = mount[m].path /\ RelOf(m) = {r} /\ r \in Cancelled
  BY RelOfIs, RelOfOne DEF Cancelled
<1>5. \A m \in Rebound : \E r \in RelOf(m) : StoreKept(m) = mount[r].store
  BY <1>3, <1>4 DEF Rebound, StoreKept
<1>6. Range(releases) \subseteq Users /\ InStage("held") \subseteq Users /\ Users \subseteq Issued
      /\ Users = InStage("held") \cup Range(releases)
  BY <1>0, <1>1, UsersIn DEF Users
<1>7. Cancelled \subseteq Range(releases) /\ Range(releases) \subseteq InStage("over")
  BY <1>0, <1>4 DEF Cancelled, Released
<1>8. \A u \in Users :
         LET s == mount[u].store IN
         /\ s \in bound /\ s \in Issued \ Pages /\ mount[s].path = mount[u].path
         /\ mount[s].stage \in {"settled", "held", "over"}
  BY <1>0 DEF Owners
<1>9. \A u, v \in Users : mount[u].store = mount[v].store => u = v  BY <1>0 DEF Owners
<1>10. Tells(tells)
  <2>1. Tells(urls)
    <3> DEFINE stale == InOrder(Stale)
               n == Len(stale)
    <3>1. urls = [i \in 1 .. n |-> Url(mount[stale[i]].path, mount[stale[i]].props)]
      BY DEF RebindUrls
    <3>2. stale \in Seq(Nat)  BY <1>0, InOrderIs
    <3> HIDE DEF stale, urls
    <3>3. n \in Nat  BY <3>2, LenProperties
    <3> HIDE DEF n
    <3>4. urls = [i \in 1 .. n |-> urls[i]] /\ \A i \in 1 .. n : urls[i].kind # "mount"
      BY <3>1 DEF Url, Msg
    <3> QED BY <3>3, <3>4, TellsMap
  <2>2. IsFiniteSet(freed)
    <3> DEFINE S == Range(releases) \ Cancelled
               f == [r \in S |-> mount[r].store]
               h == [s \in gone |-> PathOf(s)]
    <3>1. IsFiniteSet(Issued)  BY <1>0, MountIs, FS_Interval
    <3>2. S \in SUBSET Issued  BY <1>6
    <3>3. IsFiniteSet(S)  BY <3>1, <3>2, FS_Subset
    <3>4. gone = {f[r] : r \in S}  OBVIOUS
    <3> HIDE DEF gone, f, S
    <3>5. IsFiniteSet(gone)  BY <3>3, <3>4, FiniteImage
    <3>6. freed \in SUBSET {h[s] : s \in gone}  BY DEF Freed
    <3> HIDE DEF h, freed
    <3>7. IsFiniteSet({h[s] : s \in gone})  BY <3>5, FiniteImage
    <3> QED BY <3>6, <3>7, FS_Subset
  <2> HIDE DEF urls, freed
  <2>3. Tells(Releases(freed))  BY <2>2, TellsReleases
  <2> QED BY <2>1, <2>3, TellsBoth
<1> HIDE DEF tells, urls, freed
<1>11. asked \in SUBSET Issued /\ asked \cap InStage("posted") = {}
  BY <1>2, <1>3 DEF InStage
<1>12. /\ Tells(frames') /\ posts' = [x \in DOMAIN posts' |-> posts'[x]]
       /\ \A x \in Requested : posts'[x] = posts[x]
       /\ asked = {} => Requested' = Requested
       /\ asked # {} => /\ Requested' = Requested \cup {MountPost(asked)}
                        /\ posts'[MountPost(asked)] = 1
  <2>1. CASE asked = {}
    <3>1. Tells(tells \o ask)  BY <1>10, <2>1, TellsNone, TellsBoth
    <3> HIDE DEF asked, ask
    <3> QED BY <1>0, <1>1, <2>1, <3>1, SendTells
  <2>2. CASE asked # {}
    <3> DEFINE post == MountPost(asked)
    <3>1. post \notin Requested /\ post.kind = "mount"  BY <1>11, <2>2, NotAskedYet
    <3>2. Send(tells \o <<post>>)  BY <1>1, <2>2
    <3> HIDE DEF asked, post
    <3>3. /\ Tells(frames') /\ posts' = [x \in DOMAIN posts' |-> posts'[x]]
          /\ Requested' = Requested \cup {post} /\ posts'[post] = 1
          /\ \A x \in Requested : posts'[x] = posts[x]
      BY <1>0, <1>10, <3>1, <3>2, SendAsks
    <3> QED BY <2>2, <3>3 DEF post
  <2> QED BY <2>1, <2>2
<1> HIDE DEF asked, ask
<1>13. Issued' = Issued /\ mount' = [m \in Issued |-> mount'[m]] /\ DOMAIN mount' = Issued
  BY <1>1 DEF Issued
<1>14. \A m \in Issued :
        /\ mount[m] \in Mounted /\ mount'[m] \in Mounted /\ mount'[m].by = mount[m].by
        /\ mount'[m].path = mount[m].path /\ mount'[m].my = mount[m].my
        /\ m \notin Rebound => mount'[m].store = mount[m].store
        /\ m \in Rebound => mount'[m].store = StoreKept(m)
        /\ m \notin Queued => mount'[m] = mount[m]
        /\ mount'[m].stage = IF m \in Rebound THEN "settled"
                             ELSE IF m \in asked THEN "posted" ELSE mount[m].stage
  <2> SUFFICES ASSUME NEW m \in Issued
               PROVE  /\ mount[m] \in Mounted /\ mount'[m] \in Mounted /\ mount'[m].by = mount[m].by
                      /\ mount'[m].path = mount[m].path /\ mount'[m].my = mount[m].my
                      /\ m \notin Rebound => mount'[m].store = mount[m].store
                      /\ m \in Rebound => mount'[m].store = StoreKept(m)
                      /\ m \notin Queued => mount'[m] = mount[m]
                      /\ mount'[m].stage = IF m \in Rebound THEN "settled"
                                           ELSE IF m \in asked THEN "posted" ELSE mount[m].stage
    OBVIOUS
  <2>1. mount[m] \in Mounted  BY <1>0, MountIs
  <2>2. CASE m \in Rebound
    <3> DEFINE st == "settled"
               s == StoreKept(m)
               q == mount'[m]
               r == mount[m]
               d == [r EXCEPT !.stage = st]
    <3>1. q = [r EXCEPT !.stage = st, !.store = s]  BY <1>1, <2>2
    <3>2. d = [r EXCEPT !.stage = st] /\ q = [d EXCEPT !.store = s]  BY <3>1
    <3>3. st \in Stages /\ st = "settled"  BY DEF Stages
    <3>4. r \in Mounted /\ s \in Nat
      <4>1. PICK c \in RelOf(m) : s = mount[c].store  BY <1>5, <2>2
      <4>2. c \in Issued  BY <1>3, <1>4, <1>6, <2>2, <4>1
      <4>3. mount[c].store \in Nat  BY <1>0, <4>2, MountIs DEF Mounted
      <4> QED BY <2>1, <4>1, <4>3
    <3> HIDE DEF st, s, q, r, d
    <3>5. d \in Mounted /\ d.stage = st /\ d.by = r.by /\ d.path = r.path /\ d.my = r.my
      BY <3>2, <3>3, <3>4 DEF Mounted
    <3>6. /\ q \in Mounted /\ q.stage = st /\ q.store = s
          /\ q.by = r.by /\ q.path = r.path /\ q.my = r.my
      BY <3>2, <3>4, <3>5 DEF Mounted
    <3> HIDE DEF Mounted
    <3> QED BY <1>3, <2>1, <2>2, <3>3, <3>6 DEF q, r, s
  <2>3. CASE m \in asked
    <3>1. mount'[m] = [mount[m] EXCEPT !.stage = "posted"] /\ m \notin Rebound /\ m \in Queued
      BY <1>1, <1>3, <2>3
    <3> QED BY <2>1, <2>3, <3>1 DEF Mounted, Stages
  <2>4. CASE m \notin Queued  BY <1>1, <1>3, <2>1, <2>4
  <2> QED BY <1>3, <2>2, <2>3, <2>4
<1> HIDE DEF Mounted
<1>15. mount' \in Seq(Mounted)
  <2> DEFINE f == mount'
  <2>1. DOMAIN f = Issued /\ f = [m \in Issued |-> f[m]] /\ \A m \in Issued : f[m] \in Mounted
    BY <1>13, <1>14
  <2> HIDE DEF f
  <2>2. f \in Seq(Mounted)  BY <1>0, <2>1, Remounted
  <2> QED BY <2>2 DEF f
<1>16. Same /\ Pages' = Pages  BY <1>13, <1>14 DEF Same, Pages, Owned
<1>17. \A m \in Issued : mount[m].stage # "queued" => m \notin Queued /\ mount'[m] = mount[m]
  BY <1>2, <1>14
<1>18. InStage("held")' = InStage("held") /\ InStage("settled")' = Rebound
       /\ InStage("posted")' = InStage("posted") \cup asked
  <2>1. \A m \in Issued : mount[m].stage = "held" <=> mount'[m].stage = "held"
    BY <1>2, <1>3, <1>14, <1>17
  <2>2. \A m \in Issued : mount'[m].stage = "settled" <=> m \in Rebound
    <3>1. \A m \in Issued : mount[m].stage # "settled"  BY <1>1 DEF InStage
    <3> QED BY <1>14, <3>1
  <2>3. \A m \in Issued : mount'[m].stage = "posted" <=> mount[m].stage = "posted" \/ m \in asked
    BY <1>2, <1>3, <1>14
  <2> QED BY <1>2, <1>3, <1>13, <2>1, <2>2, <2>3 DEF InStage
<1>19. Types'
  <2>1. <<>> \in Seq(Nat)  OBVIOUS
  <2> QED BY <1>0, <1>1, <1>12, <1>13, <1>15, <1>16, <2>1 DEF Types
<1>20. Ways'
  <2>1. \A m \in Queued : mount'[m].stage \in {"settled", "posted"}  BY <1>2, <1>3, <1>14
  <2> QED BY <1>0, <1>2, <1>13, <1>14, <1>16, <2>1 DEF Ways
<1>21. AskedOnce'
  <2>1. Answered' = Answered  BY <1>1 DEF Answered
  <2>2. CASE asked = {}  BY <1>12, <1>16, <1>18, <2>1, <2>2, AskedStays
  <2>3. CASE asked # {}
    <3>1. asked \cap Pages = {}  BY <1>2, <1>3
    <3> QED BY <1>11, <1>12, <1>16, <1>18, <2>1, <2>3, <3>1, AskedMore
  <2> QED BY <2>2, <2>3
<1>22. Tickets'
  <2>1. \A m \in Pages : mount'[m] = mount[m]  BY <1>2, <1>14 DEF Pages, Owned
  <2> QED BY <1>0, <1>1, <1>16, <1>20, <2>1, TicketsKept
<1>23. Released' /\ Users' = InStage("held") \cup Rebound
  <2>1. Range(<<>>) = {} /\ IsInjective(<<>>)  BY DEF Range, IsInjective
  <2> QED BY <1>1, <1>18, <2>1 DEF Released, Users
<1> DEFINE From(u, c) ==
             /\ c \in Users /\ mount'[u].store = mount[c].store /\ mount[c].path = mount[u].path
             /\ u \in Issued
             /\ (u \in InStage("held") /\ c = u) \/ (u \in Rebound /\ c \in RelOf(u))
<1>24. \A u \in Users' : \E c : From(u, c)
  <2> SUFFICES ASSUME NEW u \in Users' PROVE \E c : From(u, c)
    OBVIOUS
  <2>1. CASE u \in InStage("held")
    <3>1. u \in Issued /\ u \notin Queued  BY <1>2, <2>1 DEF InStage
    <3>2. From(u, u)  BY <1>6, <1>14, <2>1, <3>1
    <3> QED BY <3>2
  <2>2. CASE u \in Rebound
    <3>1. PICK r \in RelOf(u) : StoreKept(u) = mount[r].store  BY <1>5, <2>2
    <3>2. From(u, r)  BY <1>2, <1>3, <1>4, <1>6, <1>14, <2>2, <3>1
    <3> QED BY <3>2
  <2> QED BY <1>23, <2>1, <2>2
<1>25. ASSUME NEW u \in Users', NEW c, From(u, c)
       PROVE  mount[c].store \notin gone /\ (c \in InStage("held") \/ c \in Cancelled)
  <2>1. CASE u \in InStage("held") /\ c = u
    <3>1. c \notin Range(releases)  BY <1>7, <2>1 DEF InStage
    <3> QED BY <1>6, <1>9, <1>25, <2>1, <3>1
  <2>2. CASE u \in Rebound /\ c \in RelOf(u)
    <3>1. c \in Cancelled  BY <1>3, <1>4, <2>2
    <3> QED BY <1>6, <1>9, <1>25, <3>1
  <2> QED BY <1>25, <2>1, <2>2
<1>26. Owners'
  <2>1. ASSUME NEW u \in Users'
        PROVE  LET s == mount'[u].store IN
               /\ s \in bound' /\ s \in Issued' \ Pages' /\ mount'[s].path = mount'[u].path
               /\ mount'[s].stage \in {"settled", "held", "over"}
    <3>1. PICK c : From(u, c)  BY <1>24
    <3> DEFINE s == mount[c].store
    <3>2. /\ s \in bound /\ s \in Issued \ Pages /\ mount[s].path = mount[c].path
          /\ mount[s].stage \in {"settled", "held", "over"}
      BY <1>8, <3>1
    <3>3. s \notin gone /\ mount'[s] = mount[s]  BY <1>17, <1>25, <3>1, <3>2
    <3>4. mount'[u].store = s /\ mount[c].path = mount'[u].path  BY <1>14, <3>1
    <3>5. s \in bound'  BY <1>1, <3>2, <3>3
    <3> HIDE DEF s
    <3> QED BY <1>13, <1>16, <3>2, <3>3, <3>4, <3>5
  <2>2. \A u, v \in Users' : mount'[u].store = mount'[v].store => u = v
    <3> SUFFICES ASSUME NEW u \in Users', NEW v \in Users', mount'[u].store = mount'[v].store
                 PROVE  u = v
      OBVIOUS
    <3>1. PICK c : From(u, c)  BY <1>24
    <3>2. PICK e : From(v, e)  BY <1>24
    <3>3. c = e  BY <1>9, <3>1, <3>2
    <3>4. InStage("held") \cap InStage("over") = {}  BY DEF InStage
    <3>5. \A m \in Rebound : RelOf(m) \subseteq InStage("over")  BY <1>3, <1>4, <1>7
    <3>6. CASE c \in InStage("held")  BY <3>1, <3>2, <3>3, <3>4, <3>5, <3>6
    <3>7. CASE c \notin InStage("held")
      <4>1. u \in Queued /\ v \in Queued /\ c \in RelOf(u) /\ c \in RelOf(v)
        BY <1>3, <3>1, <3>2, <3>3, <3>7
      <4> QED BY <4>1, RelOfOwn
    <3> QED BY <3>6, <3>7
  <2>3. ASSUME NEW m \in InStage("held")
        PROVE  mount'[m].store \in DOMAIN sink' /\ sink'[mount'[m].store] = m
    <3>1. m \in Users /\ m \in Issued /\ mount'[m] = mount[m]
      BY <1>6, <1>17 DEF InStage
    <3>2. mount[m].store \in DOMAIN sink /\ sink[mount[m].store] = m  BY <1>0 DEF Owners
    <3>3. m \notin Range(releases)  BY <1>7 DEF InStage
    <3>4. mount[m].store \notin gone /\ mount[m].store \notin kept
      BY <1>6, <1>7, <1>9, <3>1, <3>3
    <3>5. sink' = Drop(sink, gone \cup kept)  BY <1>1
    <3> HIDE DEF gone, kept
    <3> QED BY <3>1, <3>2, <3>4, <3>5 DEF Drop
  <2> QED BY <1>18, <2>1, <2>2, <2>3 DEF Owners
<1>27. Uses'
  <2> SUFFICES ASSUME NEW s \in bound' \ {primary'}
               PROVE  \/ \E u \in Users' : mount'[u].store = s
                      \/ s \notin Issued' \ Pages' /\ \E t \in Range(runs)' : mount'[t].path = PathOf(s)'
    BY DEF Uses
  <2>1. /\ s \in bound \ {primary} /\ (s = 0 \/ s \in Issued) /\ 0 \notin Issued /\ s \notin gone
    BY <1>0, <1>1, MountIs DEF Types
  <2>2. CASE \E u \in Users : mount[u].store = s
    <3>1. PICK c \in Users : mount[c].store = s  BY <2>2
    <3>2. CASE c \in InStage("held")
      <4>1. mount'[c] = mount[c]  BY <1>6, <1>17, <3>2 DEF InStage
      <4> QED BY <1>23, <3>1, <3>2, <4>1
    <3>3. CASE c \in Range(releases)
      <4>1. c \in Cancelled  BY <2>1, <3>1, <3>3
      <4>2. PICK m \in Queued : c \in RelOf(m)  BY <4>1 DEF Cancelled
      <4>3. m \in Rebound /\ m \in Issued  BY <1>2, <4>2 DEF Rebound
      <4>4. mount'[m].store = s  BY <1>4, <1>5, <1>14, <3>1, <4>2, <4>3
      <4> QED BY <1>23, <4>3, <4>4
    <3> QED BY <1>6, <3>2, <3>3
  <2>3. CASE s \notin Issued \ Pages /\ \E t \in Range(runs) : mount[t].path = PathOf(s)
    <3>1. PathOf(s)' = PathOf(s)  BY <1>14, <2>1 DEF PathOf
    <3>2. \A t \in Range(runs) : t \in Issued  BY <1>0 DEF Tickets, Pages, Owned
    <3> QED BY <1>1, <1>13, <1>14, <1>16, <2>3, <3>1, <3>2
  <2> QED BY <1>0, <2>1, <2>2, <2>3 DEF Uses
<1> QED BY <1>19, <1>20, <1>21, <1>22, <1>23, <1>26, <1>27 DEF IInv

-----------------------------------------------------------------------------
(* The page *)

(* A navigation keeps its hands off the slots and their stores.            *)
LEMMA PageStep ==
    ASSUME IInv, Same, Ways', \A m \in Issued \ Pages : mount'[m] = mount[m],
           Issued' \subseteq Issued \cup Pages', bound \ Pages \subseteq bound' \cup {0},
           UNCHANGED <<releases, sink>>
    PROVE  /\ Released' /\ Owners' /\ Users' = Users
           /\ \A u \in Users : mount'[u] = mount[u]
<1>0. Types /\ Ways /\ Released /\ Owners  BY DEF IInv
<1>1. \A m \in Issued : m \in Issued' /\ (m \in Pages' <=> m \in Pages)  BY DEF Same, Pages, Owned
<1>2. ASSUME NEW st \in {"held", "settled"}
      PROVE  InStage(st)' = InStage(st) /\ InStage(st) \subseteq Issued \ Pages
  <2>1. \A m \in InStage(st) : m \in Issued \ Pages  BY <1>0 DEF InStage, Ways
  <2>2. \A m \in InStage(st)' : m \in Issued' \ Pages' /\ mount'[m].stage = st  BY DEF InStage, Ways
  <2>3. \A m \in InStage(st)' : m \in Issued \ Pages  BY <1>1, <2>2
  <2>4. \A m \in InStage(st) : m \in InStage(st)'  BY <1>1, <2>1 DEF InStage
  <2>5. \A m \in InStage(st)' : m \in InStage(st)  BY <2>2, <2>3 DEF InStage
  <2> QED BY <2>1, <2>4, <2>5
<1>3. InStage("over") \ Pages \subseteq InStage("over")' \ Pages'  BY <1>1 DEF InStage
<1>4. Range(releases)' = Range(releases) /\ Range(releases) \subseteq InStage("over") \ Pages
  BY <1>0 DEF Released
<1>5. Released'  BY <1>0, <1>3, <1>4 DEF Released
<1>6. InStage("held")' = InStage("held") /\ InStage("settled")' = InStage("settled")  BY <1>2
<1>7. Users' = Users  BY <1>4, <1>6 DEF Users
<1>8. Users \subseteq Issued \ Pages  BY <1>2, <1>4 DEF Users, InStage
<1>9. \A u \in Users : mount'[u] = mount[u]  BY <1>8
<1>10. Owners'
  <2>1. 0 \notin Issued  BY <1>0, MountIs
  <2>2. ASSUME NEW u \in Users'
        PROVE  LET s == mount'[u].store IN
               /\ s \in bound' /\ s \in Issued' \ Pages' /\ mount'[s].path = mount'[u].path
               /\ mount'[s].stage \in {"settled", "held", "over"}
    <3> DEFINE s == mount[u].store
    <3>1. /\ s \in bound /\ s \in Issued \ Pages /\ mount[s].path = mount[u].path
          /\ mount[s].stage \in {"settled", "held", "over"}
      BY <1>0, <1>7 DEF Owners
    <3>2. s \in bound' /\ s \in Issued' \ Pages' /\ mount'[s] = mount[s]  BY <1>1, <2>1, <3>1
    <3>3. mount'[u] = mount[u]  BY <1>7, <1>9
    <3> HIDE DEF s
    <3> QED BY <3>1, <3>2, <3>3 DEF s
  <2>3. \A u, v \in Users' : mount'[u].store = mount'[v].store => u = v
    BY <1>0, <1>7, <1>9 DEF Owners
  <2>4. \A m \in InStage("held") : m \in Users  BY DEF Users
  <2>5. \A m \in InStage("held") : mount'[m].store \in DOMAIN sink' /\ sink'[mount'[m].store] = m
    BY <1>0, <1>9, <2>4 DEF Owners
  <2> QED BY <1>6, <2>2, <2>3, <2>5 DEF Owners
<1> QED BY <1>5, <1>7, <1>9, <1>10

LEMMA NavigateKeeps ==
    ASSUME SlotConstantsOK, IInv, NEW p \in Paths, Navigate(p)
    PROVE  IInv'
<1>0. Types /\ Ways /\ AskedOnce /\ Tickets /\ Released /\ Owners /\ Uses  BY DEF IInv
<1> DEFINE pr == CHOOSE x \in Props : TRUE
           new == NewMount(Page, p, pr, "loading")
<1>1. /\ mount' = (IF p = screen THEN mount ELSE Append(mount, new)) /\ ticket' = ticket + 1
      /\ UNCHANGED <<runs, releases, bound, primary, sink, screen, posts, frames, back>>
  BY DEF Navigate, ClaimTicket, table, wire
<1>2. Requested' = Requested /\ Answered' = Answered /\ \A x \in Requested : posts'[x] = posts[x]
  BY <1>1 DEF Requested, Answered
<1>3. runs # <<>> => Last(runs) \in Range(runs)  BY <1>0, LastIn
<1>4. Range(runs) \subseteq Pages /\ Pages \subseteq Issued  BY <1>0 DEF Tickets, Pages, Owned
<1>5. \A m \in Pages : mount[m].my \in Nat /\ mount[m].my <= ticket /\ mount[m].my # ticket + 1
                       /\ mount[m].my <= ticket + 1
  <2>1. \A m \in Pages : mount[m].my \in Nat /\ ticket \in Nat /\ mount[m].my <= ticket
    BY <1>0, <1>4, MountIs DEF Mounted, Types, Tickets
  <2> QED BY <2>1
<1>6. CASE p = screen
  <2>1. mount' = mount  BY <1>1, <1>6
  <2>2. Same /\ Issued' = Issued /\ Pages' = Pages /\ \A st : InStage(st)' = InStage(st)
    BY <2>1 DEF Same, Issued, Pages, Owned, InStage
  <2>3. Types'  BY <1>0, <1>1, <2>1, <2>2 DEF Types
  <2>4. Ways'  BY <1>0, <2>1, <2>2 DEF Ways
  <2>5. InStage("posted")' = InStage("posted") /\ InStage("loading")' = InStage("loading")  BY <2>2
  <2>6. AskedOnce'  BY <1>2, <2>2, <2>5, AskedStays
  <2>7. Tickets'
    <3> HIDE DEF Last
    <3>1. Last(runs)' = Last(runs) /\ Range(runs)' = Range(runs) /\ Range(runs) = Pages \ InStage("loading")
      BY <1>0, <1>1 DEF Tickets
    <3> QED BY <1>0, <1>1, <1>3, <1>4, <1>5, <2>1, <2>2, <2>5, <3>1 DEF Tickets
  <2>8. Released' /\ Owners' /\ Users' = Users /\ \A u \in Users : mount'[u] = mount[u]
    BY <1>1, <2>1, <2>2, <2>4, PageStep
  <2>9. Uses'  BY <1>0, <1>1, <1>4, <2>2, <2>3, <2>8, UsesKept
  <2> QED BY <2>3, <2>4, <2>6, <2>7, <2>8, <2>9 DEF IInv
<1>7. CASE p # screen
  <2>1. mount' = Append(mount, new)  BY <1>1, <1>7
  <2>2. new \in Mounted /\ new.by = Page /\ new.stage = "loading" /\ new.my = ticket + 1 /\ new.store = 0
    <3>1. pr \in Props /\ ticket + 1 \in Nat  BY <1>0 DEF SlotConstantsOK, Types
    <3> HIDE DEF pr
    <3> QED BY <1>1, <3>1 DEF NewMount, Mounted, Stages
  <2> HIDE DEF new, Mounted
  <2>3. /\ mount' \in Seq(Mounted) /\ Same
        /\ \A m \in Issued : mount'[m] = mount[m]
        /\ \E n \in Nat \ Issued : n # 0 /\ Issued' = Issued \cup {n} /\ mount'[n] = new
    BY <1>0, <2>1, <2>2, Appended
  <2>4. PICK n \in Nat \ Issued : Issued' = Issued \cup {n} /\ mount'[n] = new  BY <2>3
  <2>5. /\ Pages' = Pages \cup {n} /\ InStage("posted")' = InStage("posted")
        /\ InStage("loading")' = InStage("loading") \cup {n}
    BY <2>2, <2>3, <2>4 DEF Pages, Owned, InStage
  <2>6. Types'
    <3>1. ticket' \in Nat  BY <1>0, <1>1 DEF Types
    <3> QED BY <1>0, <1>1, <2>3, <2>4, <2>5, <3>1 DEF Types
  <2>7. Ways'  BY <1>0, <1>4, <2>2, <2>3, <2>4, <2>5 DEF Ways
  <2>8. AskedOnce'  BY <1>2, <2>3, <2>5, AskedStays
  <2>9. Tickets'
    <3> HIDE DEF Last
    <3>1. Last(runs)' = Last(runs) /\ Range(runs)' = Range(runs) /\ Range(runs) = Pages \ InStage("loading")
          /\ (runs' # <<>> => runs # <<>>)
      BY <1>0, <1>1 DEF Tickets
    <3>2. \A m \in Pages : m # n /\ mount'[m] = mount[m]  BY <1>4, <2>3
    <3>3. mount'[n].my = ticket + 1 /\ mount'[n].store = 0  BY <2>2, <2>4
    <3>4. \A m \in Pages' : mount'[m].my <= ticket'
      <4>1. ticket + 1 <= ticket + 1  BY <1>0 DEF Types
      <4> QED BY <1>1, <1>5, <2>5, <3>2, <3>3, <4>1
    <3>5. \A m, k \in Pages' : mount'[m].my = mount'[k].my => m = k
      BY <1>0, <1>5, <2>5, <3>2, <3>3 DEF Tickets
    <3>6. Range(runs)' = Pages' \ InStage("loading")'  BY <1>4, <2>4, <2>5, <3>1
    <3>7. \A m \in InStage("loading")' : mount'[m].store = 0
      <4>1. \A m \in InStage("loading") : m \in Issued /\ mount[m].store = 0  BY <1>0 DEF Tickets, InStage
      <4> QED BY <2>3, <2>5, <3>3, <4>1
    <3>8. runs' # <<>> =>
         LET m == Last(runs)' IN
         /\ mount'[m].store # 0 => mount'[m].store = m /\ primary' = m /\ mount'[m].stage # "posted"
         /\ mount'[m].stage = "over" /\ mount'[m].store # 0 /\ mount'[m].my = ticket' =>
                screen' = mount'[m].path
      BY <1>0, <1>1, <1>3, <1>4, <1>5, <3>1, <3>2 DEF Tickets
    <3> QED BY <3>4, <3>5, <3>6, <3>7, <3>8 DEF Tickets
  <2>10. Released' /\ Owners' /\ Users' = Users /\ \A u \in Users : mount'[u] = mount[u]
    BY <1>1, <2>3, <2>4, <2>5, <2>7, PageStep
  <2>11. Uses'  BY <1>0, <1>1, <1>4, <2>3, <2>6, <2>10, UsesKept
  <2> QED BY <2>6, <2>7, <2>8, <2>9, <2>10, <2>11 DEF IInv
<1> QED BY <1>6, <1>7

(* A navigation goes on.                                                   *)
LEMMA OnePage ==
    ASSUME IInv, NEW m \in Pages, NEW new \in Mounted, Changed(m, new),
           new.by = mount[m].by, new.path = mount[m].path, new.my = mount[m].my,
           new.stage \in {"loading", "posted", "waiting", "over"},
           UNCHANGED <<ticket, releases, sink>>,
           runs' \in Seq(Nat), Range(runs) \subseteq Range(runs)', Range(runs)' \subseteq Issued,
           bound' \subseteq {0} \cup Issued, primary' \in {0} \cup Pages,
           bound \ Pages \subseteq bound' \cup {0},
           Tells(frames'), posts' = [x \in DOMAIN posts' |-> posts'[x]], AskedOnce', Tickets',
           \A s \in bound' \ {primary'} :
               \/ s \in bound \ {primary}
               \/ s \notin Issued \ Pages /\ \E t \in Range(runs)' : mount[t].path = PathOf(s)
    PROVE  IInv'
<1>0. Types /\ Ways /\ Uses /\ Pages \subseteq Issued  BY DEF IInv, Pages, Owned
<1>1. /\ mount' \in Seq(Mounted) /\ Same /\ Issued' = Issued /\ Pages' = Pages
  BY <1>0, ChangedOne
<1>2. Types'  BY <1>0, <1>1 DEF Types
<1>3. Ways'  BY <1>0, <1>1 DEF Ways, Changed
<1>4. Released' /\ Owners' /\ Users' = Users /\ \A u \in Users : mount'[u] = mount[u]
  BY <1>0, <1>1, <1>3, PageStep DEF Changed
<1>5. Uses'
  <2> SUFFICES ASSUME NEW s \in bound' \ {primary'}
               PROVE  \/ \E u \in Users' : mount'[u].store = s
                      \/ s \notin Issued' \ Pages' /\ \E t \in Range(runs)' : mount'[t].path = PathOf(s)'
    BY DEF Uses
  <2>1. (s = 0 \/ s \in Issued) /\ 0 \notin Issued  BY <1>0, MountIs
  <2>2. PathOf(s)' = PathOf(s)  BY <1>1, <2>1 DEF PathOf, Same
  <2>3. \A t \in Range(runs)' : mount'[t].path = mount[t].path  BY <1>1 DEF Same
  <2>4. CASE s \in bound \ {primary}  BY <1>0, <1>1, <1>4, <2>2, <2>3, <2>4 DEF Uses
  <2>5. CASE s \notin Issued \ Pages /\ \E t \in Range(runs)' : mount[t].path = PathOf(s)
    BY <1>1, <2>2, <2>3, <2>5
  <2> QED BY <2>4, <2>5
<1> QED BY <1>2, <1>3, <1>4, <1>5 DEF IInv

LEMMA LoadedKeeps ==
    ASSUME IInv, NEW m \in Issued, Loaded(m)
    PROVE  IInv'
<1>0. Types /\ Ways /\ AskedOnce /\ Tickets  BY DEF IInv
<1> DEFINE new == [mount[m] EXCEPT !.stage = "posted"]
           post == MountPost({m})
<1>1. /\ mount[m].stage = "loading" /\ mount' = [mount EXCEPT ![m].stage = "posted"]
      /\ runs' = Append(runs, m) /\ Send(<<post>>)
      /\ UNCHANGED <<ticket, releases, bound, sink, primary, screen, back>>
  BY DEF Loaded, table
<1>2. m \in Pages /\ m \in InStage("loading") /\ m \in Nat /\ Pages \subseteq Issued
  BY <1>0, <1>1, MountIs DEF Ways, InStage, Pages, Owned
<1>3. mount[m].store = 0  BY <1>0, <1>2 DEF Tickets
<1>4. Changed(m, new)  BY <1>1 DEF Issued, Changed
<1>5. /\ new \in Mounted /\ new.stage = "posted" /\ new.by = mount[m].by /\ new.path = mount[m].path
      /\ new.my = mount[m].my /\ new.store = 0
  <2>1. mount[m] \in Mounted  BY <1>0, MountIs
  <2> QED BY <1>3, <2>1 DEF Mounted, Stages
<1> HIDE DEF new, Mounted
<1>6. /\ mount' \in Seq(Mounted) /\ Same /\ Issued' = Issued /\ Pages' = Pages
      /\ \A s : InStage(s)' = IF new.stage = s THEN InStage(s) \cup {m} ELSE InStage(s) \ {m}
  BY <1>0, <1>4, <1>5, ChangedOne
<1>7. InStage("posted")' = InStage("posted") \cup {m} /\ InStage("loading")' = InStage("loading") \ {m}
  BY <1>5, <1>6
<1>8. runs \in Seq(Nat) /\ Range(runs) = Pages \ InStage("loading")  BY <1>0 DEF Types, Tickets
<1>9. /\ runs' \in Seq(Nat) /\ Range(runs') = Range(runs) \cup {m} /\ Last(runs') = m /\ runs' # <<>>
  <2>1. /\ runs' \in Seq(Nat) /\ Range(runs') = Range(runs) \cup {m} /\ Len(runs') = Len(runs) + 1
        /\ Len(runs) \in Nat
    BY <1>1, <1>2, <1>8, AppendOne
  <2>2. runs'[Len(runs) + 1] = m  BY <1>1, <1>2, <1>8, AppendProperties
  <2> QED BY <2>1, <2>2 DEF Last
<1>10. {m} # {} /\ {m} \cap InStage("posted") = {}  BY <1>1 DEF InStage
<1>11. /\ Tells(frames') /\ posts' = [x \in DOMAIN posts' |-> posts'[x]]
       /\ Requested' = Requested \cup {post} /\ posts'[post] = 1
       /\ \A x \in Requested : posts'[x] = posts[x]
  <2> DEFINE none == <<>>
  <2>1. post \notin Requested /\ post.kind = "mount"  BY <1>10, NotAskedYet
  <2> HIDE DEF post
  <2>2. none \o <<post>> = <<post>> /\ Tells(none)  BY TellsNone
  <2>3. Send(none \o <<post>>)  BY <1>1, <2>2
  <2> HIDE DEF none
  <2> QED BY <1>0, <2>1, <2>2, <2>3, SendAsks
<1>12. AskedOnce'
  <2>1. Answered' = Answered  BY <1>1 DEF Answered
  <2>2. {m} \in SUBSET Issued  OBVIOUS
  <2> QED BY <1>2, <1>6, <1>7, <1>10, <1>11, <2>1, <2>2, AskedMore
<1>13. Tickets'
  <2> HIDE DEF Last
  <2>1. \A n \in Issued : n # m => mount'[n] = mount[n]  BY <1>4 DEF Changed
  <2>2. mount'[m].my = mount[m].my /\ mount'[m].store = 0  BY <1>4, <1>5 DEF Changed
  <2>3. \A n \in Pages' : n \in Pages /\ mount'[n].my = mount[n].my  BY <1>2, <1>6, <2>1, <2>2
  <2>4. \A n \in Pages' : mount'[n].my <= ticket'  BY <1>0, <1>1, <2>3 DEF Tickets
  <2>5. \A n, k \in Pages' : mount'[n].my = mount'[k].my => n = k  BY <1>0, <2>3 DEF Tickets
  <2>6. Range(runs)' = Pages' \ InStage("loading")'  BY <1>2, <1>6, <1>7, <1>8, <1>9
  <2>7. \A n \in InStage("loading")' : mount'[n].store = 0
    <3>1. \A n \in InStage("loading") : n \in Issued /\ mount[n].store = 0  BY <1>0 DEF Tickets, InStage
    <3> QED BY <1>7, <2>1, <3>1
  <2>8. runs' # <<>> =>
         LET l == Last(runs)' IN
         /\ mount'[l].store # 0 => mount'[l].store = l /\ primary' = l /\ mount'[l].stage # "posted"
         /\ mount'[l].stage = "over" /\ mount'[l].store # 0 /\ mount'[l].my = ticket' =>
                screen' = mount'[l].path
    BY <1>9, <2>2
  <2> QED BY <2>4, <2>5, <2>6, <2>7, <2>8 DEF Tickets
<1>14. \A s \in bound' \ {primary'} : s \in bound \ {primary}  BY <1>1
<1>15. /\ bound' \subseteq {0} \cup Issued /\ primary' \in {0} \cup Pages
       /\ bound \ Pages \subseteq bound' \cup {0}
  BY <1>0, <1>1 DEF Types
<1>16. Range(runs) \subseteq Range(runs)' /\ Range(runs)' \subseteq Issued  BY <1>2, <1>8, <1>9
<1> QED BY <1>1, <1>2, <1>4, <1>5, <1>9, <1>11, <1>12, <1>13, <1>14, <1>15, <1>16, OnePage

LEMMA TicketsOne ==
    ASSUME Types, Ways, Tickets, NEW m \in Pages \ InStage("loading"), NEW new \in Mounted,
           Changed(m, new), new.by = mount[m].by, new.path = mount[m].path, new.my = mount[m].my,
           new.stage # "loading", UNCHANGED <<ticket, runs>>,
           m = Last(runs) =>
              /\ new.store # 0 => new.store = m /\ primary' = m /\ new.stage # "posted"
              /\ new.stage = "over" /\ new.store # 0 /\ new.my = ticket => screen' = new.path,
           m # Last(runs) =>
              primary' = primary /\ (screen' = screen \/ mount[m].my = ticket)
    PROVE  Tickets'
<1> HIDE DEF Last, Mounted
<1>0. Pages \subseteq Issued /\ (runs # <<>> => Last(runs) \in Pages)
  BY LastIn DEF Pages, Owned, Tickets
<1>1. /\ mount' \in Seq(Mounted) /\ Same /\ Issued' = Issued /\ Pages' = Pages
      /\ \A s : InStage(s)' = IF new.stage = s THEN InStage(s) \cup {m} ELSE InStage(s) \ {m}
  BY <1>0, ChangedOne
<1>2. InStage("loading")' = InStage("loading")  BY <1>1
<1>3. \A n \in Pages : mount'[n].my = mount[n].my /\ (n # m => mount'[n] = mount[n])
  BY <1>0 DEF Changed
<1>4. \A n \in Pages' : mount'[n].my <= ticket'  BY <1>1, <1>3 DEF Tickets
<1>5. \A n, k \in Pages' : mount'[n].my = mount'[k].my => n = k  BY <1>1, <1>3 DEF Tickets
<1>6. Last(runs)' = Last(runs) /\ Range(runs)' = Range(runs)  OBVIOUS
<1>7. Range(runs)' = Pages' \ InStage("loading")'  BY <1>1, <1>2, <1>6 DEF Tickets
<1>8. \A n \in InStage("loading")' : mount'[n].store = 0
  <2>1. \A n \in InStage("loading") : n \in Issued /\ n # m /\ mount[n].store = 0  BY DEF Tickets, InStage
  <2> QED BY <1>2, <2>1 DEF Changed
<1>9. runs' # <<>> =>
         LET l == Last(runs)' IN
         /\ mount'[l].store # 0 => mount'[l].store = l /\ primary' = l /\ mount'[l].stage # "posted"
         /\ mount'[l].stage = "over" /\ mount'[l].store # 0 /\ mount'[l].my = ticket' =>
                screen' = mount'[l].path
  <2> SUFFICES ASSUME runs # <<>>
               PROVE  LET l == Last(runs) IN
         /\ mount'[l].store # 0 => mount'[l].store = l /\ primary' = l /\ mount'[l].stage # "posted"
         /\ mount'[l].stage = "over" /\ mount'[l].store # 0 /\ mount'[l].my = ticket' =>
                screen' = mount'[l].path
    BY <1>6
  <2> DEFINE l == Last(runs)
  <2>1. l \in Pages  BY <1>0
  <2>2. CASE m = l  BY <2>2 DEF Changed
  <2>3. CASE m # l
    <3>1. mount'[l] = mount[l] /\ primary' = primary /\ (screen' = screen \/ mount[m].my = ticket)
      BY <1>3, <2>1, <2>3
    <3>2. mount[l].my # mount[m].my  BY <2>1, <2>3 DEF Tickets
    <3>3. /\ mount[l].store # 0 => mount[l].store = l /\ primary = l /\ mount[l].stage # "posted"
          /\ mount[l].stage = "over" /\ mount[l].store # 0 /\ mount[l].my = ticket => screen = mount[l].path
      BY DEF Tickets
    <3> HIDE DEF l
    <3> QED BY <3>1, <3>2, <3>3 DEF l
  <2> QED BY <2>2, <2>3
<1> QED BY <1>4, <1>5, <1>7, <1>8, <1>9 DEF Tickets

LEMMA CommitKeeps ==
    ASSUME IInv, NEW m \in Issued, Commit(m)
    PROVE  IInv'
<1>0. Types /\ Ways /\ AskedOnce /\ Tickets  BY DEF IInv
<1> DEFINE new == [mount[m] EXCEPT !.stage = "over"]
<1>1. /\ mount[m].stage = "waiting" /\ mount' = [mount EXCEPT ![m].stage = "over"]
      /\ screen' = IF mount[m].my = ticket THEN mount[m].path ELSE screen
      /\ UNCHANGED <<ticket, runs, releases, bound, sink, primary, posts, frames, back>>
  BY DEF Commit, table, wire
<1>2. m \in Pages /\ m \notin InStage("loading") /\ Pages \subseteq Issued
  BY <1>0, <1>1 DEF Ways, InStage, Pages, Owned
<1>3. Changed(m, new)  BY <1>1 DEF Issued, Changed
<1>4. /\ new \in Mounted /\ new.stage = "over" /\ new.by = mount[m].by /\ new.path = mount[m].path
      /\ new.my = mount[m].my /\ new.store = mount[m].store
  <2>1. mount[m] \in Mounted  BY <1>0, MountIs
  <2> QED BY <2>1 DEF Mounted, Stages
<1> HIDE DEF new, Mounted
<1>5. /\ Same /\ \A s : InStage(s)' = IF new.stage = s THEN InStage(s) \cup {m} ELSE InStage(s) \ {m}
  BY <1>0, <1>3, <1>4, ChangedOne
<1>6. AskedOnce'
  <2>1. m \notin InStage("posted") /\ InStage("posted")' = InStage("posted") \ {m}
    BY <1>1, <1>4, <1>5 DEF InStage
  <2>2. Requested' = Requested /\ Answered' = Answered /\ \A x \in Requested : posts'[x] = posts[x]
    BY <1>1 DEF Requested, Answered
  <2> QED BY <1>5, <2>1, <2>2, AskedStays
<1>7. Tickets'
  <2> HIDE DEF Last
  <2>1. m = Last(runs) => runs # <<>> /\ (mount[m].store # 0 => mount[m].store = m /\ primary = m)
    <3>1. Range(<<>>) = {}  BY DEF Range
    <3>2. m \in Range(runs)  BY <1>0, <1>2 DEF Tickets
    <3> QED BY <1>0, <3>1, <3>2 DEF Tickets
  <2> QED BY <1>0, <1>1, <1>2, <1>3, <1>4, <2>1, TicketsOne
<1>8. \A s \in bound' \ {primary'} : s \in bound \ {primary}  BY <1>1
<1>9. /\ bound' \subseteq {0} \cup Issued /\ primary' \in {0} \cup Pages
      /\ bound \ Pages \subseteq bound' \cup {0} /\ runs' \in Seq(Nat)
      /\ Tells(frames') /\ posts' = [x \in DOMAIN posts' |-> posts'[x]]
  BY <1>0, <1>1 DEF Types
<1>10. Range(runs) \subseteq Range(runs)' /\ Range(runs)' \subseteq Issued
  BY <1>0, <1>1, <1>2 DEF Tickets
<1> QED BY <1>1, <1>2, <1>3, <1>4, <1>6, <1>7, <1>8, <1>9, <1>10, OnePage

LEMMA JoinTells == \A m : Tells(<<JoinMsg(m)>>)
<1> SUFFICES ASSUME NEW m PROVE Tells(<<JoinMsg(m)>>)  OBVIOUS
<1> DEFINE x == JoinMsg(m)
<1>1. x.kind # "mount"  BY DEF JoinMsg, Msg
<1> HIDE DEF x
<1>2. Tells(<<x>>)  BY <1>1, TellsOne
<1> QED BY <1>2 DEF x

LEMMA SettlePageKeeps ==
    ASSUME IInv, NEW b \in back, Receive(b), b.kind = "page"
    PROVE  IInv'
<1>0. Types /\ Ways /\ AskedOnce /\ Tickets  BY DEF IInv
<1>1. PICK m \in b.ms : SettlePage(m, b.ok # {}) /\ back' = back \ {b}  BY DEF Receive
<1> DEFINE ok == b.ok # {}
<1>2. b \in Answered /\ b \in Asking  BY DEF Answered, Asking
<1>3. b.ms = {m} /\ m \in Pages /\ m \in InStage("posted")
  <2>1. b.ms \cap Pages # {} /\ b.ms \subseteq InStage("posted")
        /\ ((\E n \in Pages : b.ms = {n}) \/ b.ms \cap Pages = {})
    BY <1>0, <1>2 DEF AskedOnce
  <2> QED BY <2>1
<1>4. /\ mount[m].stage = "posted" /\ m \notin InStage("loading") /\ Pages \subseteq Issued
      /\ m \in Issued /\ mount[m] \in Mounted /\ m \in Nat /\ m # 0
  BY <1>0, <1>3, MountIs DEF InStage, Pages, Owned
<1>5. m \in Range(runs) /\ Range(runs) \subseteq Issued /\ runs # <<>>
  <2>1. Range(<<>>) = {}  BY DEF Range
  <2> QED BY <1>0, <1>3, <1>4, <2>1 DEF Tickets
<1>6. UNCHANGED <<releases, sink, screen, ticket, runs>> /\ (Overtaken(m, ok) \/ Denied(m, ok) \/ Swap(m, ok))
  BY <1>1 DEF SettlePage
<1>7. m = Last(runs) => mount[m].store = 0
  <2> HIDE DEF Last
  <2> QED BY <1>0, <1>4, <1>5 DEF Tickets
<1> HIDE DEF ok, Last
(* What the three have in common.                                          *)
<1>8. ASSUME NEW new \in Mounted, Changed(m, new), new.by = mount[m].by,
             new.path = mount[m].path, new.my = mount[m].my, new.stage \in {"waiting", "over"},
             m = Last(runs) => (new.store = 0 \/ (new.store = m /\ primary' = m /\ new.stage = "waiting")),
             m # Last(runs) => primary' = primary,
             bound' \subseteq {0} \cup Issued, primary' \in {0} \cup Pages,
             bound \ Pages \subseteq bound' \cup {0},
             Tells(frames'), posts' = [x \in DOMAIN posts' |-> posts'[x]],
             Requested' = Requested, \A x \in Requested : posts'[x] = posts[x],
             \A s \in bound' \ {primary'} :
               \/ s \in bound \ {primary}
               \/ s \notin Issued \ Pages /\ \E t \in Range(runs) : mount[t].path = PathOf(s)
      PROVE  IInv'
  <2> HIDE DEF Mounted
  <2>2. /\ Same /\ \A s : InStage(s)' = IF new.stage = s THEN InStage(s) \cup {m} ELSE InStage(s) \ {m}
    BY <1>0, <1>4, <1>8, ChangedOne
  <2>3. InStage("posted") \ b.ms \subseteq InStage("posted")'  BY <1>3, <1>8, <2>2
  <2>4. AskedOnce'  BY <1>1, <1>2, <1>8, <2>2, <2>3, AnswerTaken
  <2>5. Tickets'  BY <1>0, <1>3, <1>4, <1>6, <1>8, TicketsOne
  <2>6. runs' \in Seq(Nat) /\ Range(runs) \subseteq Range(runs)' /\ Range(runs)' \subseteq Issued
        /\ Range(runs)' = Range(runs)
    BY <1>0, <1>5, <1>6 DEF Types
  <2> QED BY <1>3, <1>6, <1>8, <2>4, <2>5, <2>6, OnePage
<1>9. CASE Overtaken(m, ok)
  <2> DEFINE r == mount[m]
             st == "waiting"
             d == [r EXCEPT !.stage = st]
             new == [d EXCEPT !.store = primary]
             tell == IF ok /\ StoresOf(mount[m].path) = {} THEN <<ReleaseMsg(mount[m].path)>> ELSE <<>>
  <2>1. /\ Last(runs) # m /\ mount' = Awaits(m, primary) /\ Send(tell)
        /\ bound' = bound /\ primary' = primary
    BY <1>9 DEF Overtaken
  <2>2. Changed(m, new)  BY <1>4, <2>1 DEF Awaits, Issued, Changed
  <2>3. primary \in {0} \cup Pages /\ primary \in Nat /\ bound \subseteq {0} \cup Issued
    BY <1>0, <1>4, MountIs DEF Types
  <2>4. d \in Mounted /\ d.stage = st /\ d.by = r.by /\ d.path = r.path /\ d.my = r.my
    BY <1>4 DEF Mounted, Stages
  <2> HIDE DEF d, r
  <2>5. /\ new \in Mounted /\ new.stage = "waiting" /\ new.store = primary
        /\ new.by = r.by /\ new.path = r.path /\ new.my = r.my
    BY <2>3, <2>4 DEF Mounted
  <2> HIDE DEF new, Mounted
  <2>6. Tells(tell)
    <3> DEFINE x == ReleaseMsg(mount[m].path)
    <3>1. x.kind # "mount"  BY DEF ReleaseMsg, Msg
    <3> HIDE DEF x
    <3>2. Tells(<<x>>)  BY <3>1, TellsOne
    <3> QED BY <3>2, TellsNone DEF x
  <2> HIDE DEF tell
  <2>7. /\ Tells(frames') /\ posts' = [x \in DOMAIN posts' |-> posts'[x]]
        /\ Requested' = Requested /\ \A x \in Requested : posts'[x] = posts[x]
    BY <1>0, <2>1, <2>6, SendTells
  <2> QED BY <1>8, <2>1, <2>2, <2>3, <2>5, <2>7 DEF r
<1>10. CASE Denied(m, ok)
  <2> DEFINE new == [mount[m] EXCEPT !.stage = "over"]
  <2>1. /\ Last(runs) = m /\ mount' = [mount EXCEPT ![m].stage = "over"]
        /\ UNCHANGED <<bound, primary, frames, posts>>
    BY <1>10 DEF Denied, sent
  <2>2. Changed(m, new)  BY <1>4, <2>1 DEF Issued, Changed
  <2>3. /\ new \in Mounted /\ new.stage = "over" /\ new.store = 0
        /\ new.by = mount[m].by /\ new.path = mount[m].path /\ new.my = mount[m].my
    BY <1>4, <1>7, <2>1 DEF Mounted, Stages
  <2> HIDE DEF new, Mounted
  <2>4. /\ Tells(frames') /\ posts' = [x \in DOMAIN posts' |-> posts'[x]]
        /\ Requested' = Requested /\ \A x \in Requested : posts'[x] = posts[x]
    BY <1>0, <2>1 DEF Types, Requested
  <2>5. /\ bound' \subseteq {0} \cup Issued /\ primary' \in {0} \cup Pages
        /\ bound \ Pages \subseteq bound' \cup {0}
    BY <1>0, <2>1 DEF Types
  <2>6. \A s \in bound' \ {primary'} : s \in bound \ {primary}  BY <2>1
  <2> QED BY <1>8, <2>1, <2>2, <2>3, <2>4, <2>5, <2>6
<1>11. CASE Swap(m, ok)
  <2> DEFINE r == mount[m]
             st == "waiting"
             d == [r EXCEPT !.stage = st]
             new == [d EXCEPT !.store = m]
             gone == IF PathOf(primary) = mount[m].path THEN {} ELSE {primary}
             free == {p \in {PathOf(s) : s \in gone} : StoresOf(p) \ gone = {}}
  <2>1. /\ Last(runs) = m /\ mount' = Awaits(m, m) /\ Send(<<JoinMsg(m)>> \o Releases(free))
        /\ bound' = (bound \cup {m}) \ gone /\ primary' = m
    BY <1>11 DEF Swap
  <2>2. Changed(m, new)  BY <1>4, <2>1 DEF Awaits, Issued, Changed
  <2>3. primary \in {0} \cup Pages /\ bound \subseteq {0} \cup Issued  BY <1>0 DEF Types
  <2>4. d \in Mounted /\ d.stage = st /\ d.by = r.by /\ d.path = r.path /\ d.my = r.my
    BY <1>4 DEF Mounted, Stages
  <2> HIDE DEF d, r
  <2>5. /\ new \in Mounted /\ new.stage = "waiting" /\ new.store = m
        /\ new.by = r.by /\ new.path = r.path /\ new.my = r.my
    BY <1>4, <2>4 DEF Mounted
  <2> HIDE DEF new, Mounted
  <2>6. Tells(<<JoinMsg(m)>> \o Releases(free))
    <3>1. free \in SUBSET {PathOf(primary)}  OBVIOUS
    <3>2. IsFiniteSet({PathOf(primary)})  BY FS_Singleton
    <3> HIDE DEF free
    <3>3. IsFiniteSet(free)  BY <3>1, <3>2, FS_Subset
    <3> QED BY <3>3, TellsReleases, JoinTells, TellsBoth
  <2> HIDE DEF free
  <2>7. /\ Tells(frames') /\ posts' = [x \in DOMAIN posts' |-> posts'[x]]
        /\ Requested' = Requested /\ \A x \in Requested : posts'[x] = posts[x]
    BY <1>0, <2>1, <2>6, SendTells
  <2>8. /\ bound' \subseteq {0} \cup Issued /\ primary' \in {0} \cup Pages
        /\ bound \ Pages \subseteq bound' \cup {0}
    BY <1>3, <1>4, <2>1, <2>3
  <2>9. ASSUME NEW s \in bound' \ {primary'}
        PROVE  \/ s \in bound \ {primary}
               \/ s \notin Issued \ Pages /\ \E t \in Range(runs) : mount[t].path = PathOf(s)
    <3>1. s \in bound /\ s \notin gone  BY <2>1
    <3>2. CASE s = primary
      <4>1. PathOf(s) = mount[m].path  BY <3>1, <3>2
      <4>2. s \notin Issued \ Pages  BY <1>0, <2>3, <3>2, MountIs
      <4> QED BY <1>5, <4>1, <4>2
    <3> QED BY <3>1, <3>2
  <2> QED BY <1>8, <2>1, <2>2, <2>5, <2>7, <2>8, <2>9 DEF r
<1> QED BY <1>6, <1>9, <1>10, <1>11

-----------------------------------------------------------------------------
(* The server and the stream *)

LEMMA TellsRest ==
    ASSUME Types, frames # <<>>
    PROVE  Tells(Tail(frames)) /\ Head(frames).kind # "mount"
<1> DEFINE S == Range(frames)
           t == Tail(frames)
<1>1. frames \in Seq(S) /\ \A x \in S : x.kind # "mount"  BY DEF Types, Tells
<1> HIDE DEF S
<1>2. Head(frames) \in S /\ t \in Seq(S)  BY <1>1, HeadTailProperties
<1> HIDE DEF t
<1>3. t \in Seq(Range(t)) /\ Range(t) \subseteq S  BY <1>2, SeqOfRange, RangeWithin
<1> QED BY <1>1, <1>2, <1>3 DEF Tells, t

(* Whatever does not ask for a mount gets no answer about one.             *)
LEMMA ServeOther ==
    ASSUME NEW msg, NEW socket, Serve(msg, socket), msg.kind # "mount"
    PROVE  Answered' = Answered
<1>1. back' = back \/ \E x : back' = back \cup {x} /\ x.kind = "deny"
  BY DEF Serve, ServeUrl
<1> QED BY <1>1 DEF Answered

LEMMA ServeMounts ==
    ASSUME IInv, NEW msg \in Requested, NEW socket, Serve(msg, socket), UNCHANGED mount,
           posts' = OneLess(posts, msg)
    PROVE  AskedOnce'
<1>0. Types /\ AskedOnce /\ msg \in Asking /\ msg.kind = "mount" /\ msg \in DOMAIN posts
  BY DEF IInv, Asking, Requested
<1>1. PICK ok \in SUBSET msg.ms : back' = back \cup {MountAnswer(msg.ms, ok)}  BY <1>0 DEF Serve
<1> DEFINE ans == MountAnswer(msg.ms, ok)
<1>2. /\ ans.ms = msg.ms /\ ans.ok = ok
      /\ ans.kind = IF msg.ms \cap Pages = {} THEN "slots" ELSE "page"
  <2>1. msg.ms \subseteq Issued  BY <1>0 DEF AskedOnce, InStage
  <2> QED BY <2>1 DEF MountAnswer, Pages, Owned
<1>3. back' = back \cup {ans}  BY <1>1
<1> HIDE DEF ans
<1>4. Requested' = Requested \ {msg} /\ \A x \in Requested' : posts'[x] = posts[x]
  <2>1. posts[msg] = 1  BY <1>0 DEF AskedOnce
  <2>2. DOMAIN posts' = {y \in DOMAIN posts : y # msg \/ posts[y] > 1}
        /\ \A x \in DOMAIN posts' : x # msg => posts'[x] = posts[x]
    BY DEF OneLess
  <2>3. \A x \in Requested : posts[x] = 1  BY <1>0 DEF AskedOnce
  <2>4. msg \notin DOMAIN posts'  BY <2>1, <2>2
  <2> QED BY <2>2, <2>4 DEF Requested
<1>5. Answered' = Answered \cup {ans}  BY <1>2, <1>3 DEF Answered
<1>6. Pages' = Pages /\ InStage("posted")' = InStage("posted")  BY DEF Pages, Owned, InStage, Issued
<1>7. \A x \in Asking' : x = ans \/ (x \in Asking /\ x # msg)
  <2>1. \A x \in Answered : x # msg  BY <1>0 DEF AskedOnce, Answered
  <2> QED BY <1>4, <1>5, <2>1 DEF Asking
<1>8. \A x \in Requested' : posts'[x] = 1  BY <1>0, <1>4 DEF AskedOnce
<1>9. \A c \in Answered' : c.ok \subseteq c.ms /\ c.kind = IF c.ms \cap Pages' = {} THEN "slots" ELSE "page"
  BY <1>0, <1>2, <1>5, <1>6 DEF AskedOnce
<1>10. \A x \in Asking' :
          /\ x.ms # {} /\ x.ms \subseteq InStage("posted")'
          /\ (\E m \in Pages' : x.ms = {m}) \/ x.ms \cap Pages' = {}
  <2> SUFFICES ASSUME NEW x \in Asking'
               PROVE  /\ x.ms # {} /\ x.ms \subseteq InStage("posted")
                      /\ (\E m \in Pages : x.ms = {m}) \/ x.ms \cap Pages = {}
    BY <1>6
  <2>1. PICK y \in Asking : x.ms = y.ms  BY <1>0, <1>2, <1>7
  <2>2. /\ y.ms # {} /\ y.ms \subseteq InStage("posted")
        /\ (\E m \in Pages : y.ms = {m}) \/ y.ms \cap Pages = {}
    BY <1>0, <2>1 DEF AskedOnce
  <2> QED BY <2>1, <2>2
<1>11. \A x, y \in Asking' : x # y => x.ms \cap y.ms = {}
  <2> SUFFICES ASSUME NEW x \in Asking', NEW y \in Asking', x # y PROVE x.ms \cap y.ms = {}
    OBVIOUS
  <2>1. CASE x = ans  BY <1>0, <1>2, <1>7, <2>1 DEF AskedOnce
  <2>2. CASE y = ans  BY <1>0, <1>2, <1>7, <2>2 DEF AskedOnce
  <2>3. CASE x # ans /\ y # ans  BY <1>0, <1>7, <2>3 DEF AskedOnce
  <2> QED BY <2>1, <2>2, <2>3
<1> QED BY <1>8, <1>9, <1>10, <1>11 DEF AskedOnce

LEMMA ArriveKeeps ==
    ASSUME IInv, Arrive
    PROVE  IInv'
<1>0. Types /\ AskedOnce  BY DEF IInv
<1>1. UNCHANGED <<mount, ticket, runs, releases, bound, primary, sink, screen>>
  BY DEF Arrive, table, pageVars
<1>2. Same /\ InStage("posted")' = InStage("posted")
  BY <1>1 DEF Same, InStage, Issued
<1>3. CASE frames # <<>> /\ Serve(Head(frames), TRUE) /\ frames' = Tail(frames) /\ UNCHANGED posts
  <2>1. Tells(frames') /\ Head(frames).kind # "mount"  BY <1>0, <1>3, TellsRest
  <2>2. Answered' = Answered
    <3> DEFINE msg == Head(frames)
               socket == TRUE
    <3>1. Serve(msg, socket) /\ msg.kind # "mount"  BY <1>3, <2>1
    <3> HIDE DEF msg, socket
    <3> QED BY <3>1, ServeOther
  <2>3. Requested' = Requested /\ posts' = [x \in DOMAIN posts' |-> posts'[x]]
        /\ \A x \in Requested : posts'[x] = posts[x]
    BY <1>0, <1>3 DEF Types, Requested
  <2>4. AskedOnce'  BY <1>2, <2>2, <2>3, AskedStays
  <2> QED BY <1>1, <2>1, <2>3, <2>4, RestKept
<1>4. ASSUME NEW msg \in BagToSet(posts), Serve(msg, FALSE), posts' = OneLess(posts, msg), UNCHANGED frames
      PROVE  IInv'
  <2>1. Tells(frames') /\ posts' = [x \in DOMAIN posts' |-> posts'[x]]
    BY <1>0, <1>4 DEF Types, OneLess
  <2> DEFINE socket == FALSE
  <2>2. Serve(msg, socket)  BY <1>4
  <2> HIDE DEF socket
  <2>3. CASE msg.kind = "mount"
    <3>1. msg \in Requested  BY <1>4, <2>3 DEF BagToSet, Requested
    <3>2. AskedOnce'  BY <1>1, <1>4, <2>2, <3>1, ServeMounts
    <3> QED BY <1>1, <2>1, <3>2, RestKept
  <2>4. CASE msg.kind # "mount"
    <3>1. Answered' = Answered  BY <2>2, <2>4, ServeOther
    <3>2. /\ DOMAIN posts' = {y \in DOMAIN posts : y # msg \/ posts[y] > 1}
          /\ \A x \in DOMAIN posts' : x # msg => posts'[x] = posts[x]
      BY <1>4 DEF OneLess
    <3>3. Requested' = Requested /\ \A x \in Requested : posts'[x] = posts[x]
      BY <2>4, <3>2 DEF Requested
    <3>4. AskedOnce'  BY <1>2, <3>1, <3>3, AskedStays
    <3> QED BY <1>1, <2>1, <3>4, RestKept
  <2> QED BY <2>3, <2>4
<1> QED BY <1>3, <1>4 DEF Arrive

LEMMA StreamKeeps ==
    ASSUME IInv, (\E m \in Issued : JoinFrame(m)) \/ Connect \/ Opened \/ Break \/ Abort
    PROVE  IInv'
<1>0. Types /\ AskedOnce  BY DEF IInv
<1>1. UNCHANGED <<mount, ticket, runs, releases, bound, primary, sink, screen, posts>>
  BY DEF JoinFrame, Connect, Opened, Break, Abort, table, pageVars, wire, sent
<1>2. UNCHANGED <<frames, back>> \/ (frames' = <<>> /\ back' \subseteq back)
  BY DEF JoinFrame, Connect, Opened, Break, Abort, wire, sent
<1>3. Tells(frames') /\ posts' = [x \in DOMAIN posts' |-> posts'[x]]
  BY <1>0, <1>1, <1>2, TellsNone DEF Types
<1>4. Requested' = Requested /\ Answered' \subseteq Answered /\ \A x \in Requested : posts'[x] = posts[x]
  BY <1>1, <1>2 DEF Requested, Answered
<1>5. Same /\ InStage("posted")' = InStage("posted")
  BY <1>1 DEF Same, InStage, Issued
<1>6. AskedOnce'  BY <1>4, <1>5, AskedStays
<1> QED BY <1>1, <1>3, <1>6, RestKept

-----------------------------------------------------------------------------
(* Theorems *)

LEMMA NextKeeps ==
    ASSUME SlotConstantsOK, IInv, [SlotNext]_slotVars
    PROVE  IInv'
<1>1. CASE UNCHANGED slotVars
  <2>1. UNCHANGED <<mount, ticket, runs, releases, bound, primary, sink, screen, posts, frames, back>>
    BY <1>1 DEF slotVars, table, pageVars, wire
  <2>2. Same /\ InStage("posted")' = InStage("posted")  BY <2>1 DEF Same, InStage, Issued
  <2>3. Requested' = Requested /\ Answered' = Answered /\ \A x \in Requested : posts'[x] = posts[x]
    BY <2>1 DEF Requested, Answered
  <2>4. AskedOnce'  BY <2>2, <2>3, AskedStays
  <2> QED BY <2>1, <2>4, RestKept DEF IInv, Types
<1>2. ASSUME NEW c \in Slots, NEW p \in Paths, NEW pr \in Props, MountSlot(c, p, pr) PROVE IInv'
  BY <1>2, MountSlotKeeps
<1>3. ASSUME NEW p \in Paths, Navigate(p) PROVE IInv'  BY <1>3, NavigateKeeps
<1>4. ASSUME NEW m \in Issued,
             \/ Unmount(m) \/ Resume(m) \/ Loaded(m) \/ Commit(m) \/ JoinFrame(m)
             \/ \E pr \in Props : Patch(m, pr)
      PROVE  IInv'
  <2>1. CASE Unmount(m)  BY <2>1, UnmountKeeps
  <2>2. CASE Resume(m)  BY <2>2, ResumeKeeps
  <2>3. CASE Loaded(m)  BY <2>3, LoadedKeeps
  <2>4. CASE Commit(m)  BY <2>4, CommitKeeps
  <2>5. CASE JoinFrame(m)  BY <2>5, StreamKeeps
  <2>6. ASSUME NEW pr \in Props, Patch(m, pr) PROVE IInv'  BY <2>6, PatchKeeps
  <2> QED BY <1>4, <2>1, <2>2, <2>3, <2>4, <2>5, <2>6
<1>5. ASSUME NEW b \in back, Receive(b) PROVE IInv'
  <2>1. b.kind \in {"slots", "page", "deny"}  BY <1>5 DEF Receive
  <2> QED BY <1>5, <2>1, SettleSlotsKeeps, SettlePageKeeps, DenyKeeps
<1>6. CASE FlushSlots  BY <1>6, FlushKeeps
<1>7. CASE Arrive  BY <1>7, ArriveKeeps
<1>8. CASE Connect \/ Opened \/ Break \/ Abort  BY <1>8, StreamKeeps
<1> QED BY <1>1, <1>2, <1>3, <1>4, <1>5, <1>6, <1>7, <1>8 DEF SlotNext

(* The tables of slots, stores and requests agree, always: the invariant   *)
(* the two theorems below rest on.                                         *)
THEOREM IInvAlways == ASSUME SlotConstantsOK PROVE SlotSpec => []IInv
<1>1. SlotInit => IInv  BY StartsRight
<1>2. IInv /\ [SlotNext]_slotVars => IInv'  BY NextKeeps
<1> QED BY <1>1, <1>2, PTL DEF SlotSpec

LEMMA HandlesMatch == ASSUME IInv PROVE StoresMatchHandles
<1>0. Types /\ Owners /\ Uses /\ Tickets  BY DEF IInv
<1>1. 0 \notin Issued  BY <1>0, MountIs
<1>2. HandleOwned
  <2> SUFFICES ASSUME NEW m \in InStage("held")
               PROVE  /\ mount[m].store \in bound /\ PathOf(mount[m].store) = mount[m].path
                      /\ mount[m].store \in DOMAIN sink /\ sink[mount[m].store] = m
    BY DEF HandleOwned
  <2> DEFINE s == mount[m].store
  <2>1. m \in Users  BY DEF Users
  <2>2. s \in bound /\ s \in Issued /\ mount[s].path = mount[m].path  BY <1>0, <2>1 DEF Owners
  <2>3. s \in DOMAIN sink /\ sink[s] = m  BY <1>0 DEF Owners
  <2>4. PathOf(s) = mount[s].path  BY <1>1, <2>2 DEF PathOf
  <2> QED BY <2>2, <2>3, <2>4
<1>3. StoresUsed
  <2> SUFFICES ASSUME Idle, NEW s \in bound \ {primary}
               PROVE  \/ \E m \in InStage("held") : mount[m].store = s
                      \/ (s = 0 \/ mount[s].by = Page) /\ \E t \in Range(runs) : PathOf(t) = PathOf(s)
    BY DEF StoresUsed
  <2>1. Users = InStage("held")
    <3>1. Range(<<>>) = {}  BY DEF Range
    <3> QED BY <3>1 DEF Users, Idle
  <2>2. \A t \in Range(runs) : t \in Issued /\ PathOf(t) = mount[t].path
    BY <1>0, <1>1 DEF Tickets, Pages, Owned, PathOf
  <2>3. s = 0 \/ s \in Issued  BY <1>0 DEF Types
  <2>4. s \notin Issued \ Pages => (s = 0 \/ mount[s].by = Page)  BY <2>3 DEF Pages, Owned
  <2> QED BY <1>0, <2>1, <2>2, <2>4 DEF Uses
<1> QED BY <1>2, <1>3 DEF StoresMatchHandles

(* Handles and stores match, both ways: a slot on screen has a store of    *)
(* its own, registered, with its deny sink; and what is registered is used.*)
THEOREM StoresMatchHandlesAlways ==
    ASSUME SlotConstantsOK PROVE SlotSpec => []StoresMatchHandles
<1>1. IInv => StoresMatchHandles  BY HandlesMatch
<1> QED BY <1>1, IInvAlways, PTL

LEMMA NewestIs == ASSUME IInv PROVE NewestWins
<1>0. Types /\ Tickets  BY DEF IInv
<1> SUFFICES ASSUME Settled, runs # <<>>
             PROVE  LET m == Last(runs) IN
                    mount[m].my = ticket /\ mount[m].store # 0 =>
                        primary = m /\ screen = mount[m].path
  BY DEF NewestWins
<1>1. Last(runs) \in Pages  BY <1>0, LastIn DEF Tickets
<1>2. mount[Last(runs)].stage = "over"  BY <1>1 DEF Settled, Pages
<1> HIDE DEF Last
<1> QED BY <1>0, <1>2 DEF Tickets

(* The newest navigation wins, however late older answers come.            *)
THEOREM NewestWinsAlways ==
    ASSUME SlotConstantsOK PROVE SlotSpec => []NewestWins
<1>1. IInv => NewestWins  BY NewestIs
<1> QED BY <1>1, IInvAlways, PTL
=============================================================================
