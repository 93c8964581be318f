-------------------------- MODULE SlotWiresProofs --------------------------
(***************************************************************************)
(* Proofs, for all values of its constants, of what SlotMounts says of the *)
(* messages between the page and the server: over a socket every store the *)
(* page keeps is on an instance the socket has joined (JoinedOnSockets),   *)
(* and the page knows what the server was told (GivenIsTold).  Both speak  *)
(* of a quiet wire and are not inductive.  WInv says what they come to     *)
(* while messages are on their way: the last message on the socket that    *)
(* matters to a store, or to the props of an instance, leaves it right.    *)
(* It is a predicate of sequences (Ends, Clear), so that most of the proof *)
(* is about what sending and taking a message does to those.               *)
(***************************************************************************)
EXTENDS SlotMountsProofs

Message == [kind : {"mount", "frame", "release", "url", "resync"}, path : Paths,
            props : SUBSET Props, ms : SUBSET Nat]

-----------------------------------------------------------------------------
(* Sequences *)

(* None of the messages is in es; or the last that is, if any, is no later *)
(* than one in gs.                                                         *)
Clear(seq, es) == \A i \in 1 .. Len(seq) : seq[i] \notin es
Ends(seq, es, gs) ==
    \E i \in 1 .. Len(seq) : seq[i] \in gs /\ \A j \in i + 1 .. Len(seq) : seq[j] \notin es

LEMMA ClearNone == \A es : Clear(<<>>, es)
BY DEF Clear

LEMMA EndsNone == \A es, gs : ~Ends(<<>>, es, gs)
BY DEF Ends

LEMMA ClearMore ==
    ASSUME NEW S, NEW s \in Seq(S), NEW t \in Seq(S), NEW es, Clear(s, es), Clear(t, es)
    PROVE  Clear(s \o t, es)
<1>1. /\ Len(s) \in Nat /\ Len(t) \in Nat /\ Len(s \o t) = Len(s) + Len(t)
      /\ \A i \in 1 .. Len(s) + Len(t) :
            (s \o t)[i] = IF i <= Len(s) THEN s[i] ELSE t[i - Len(s)]
  BY ConcatProperties, LenProperties
<1> DEFINE st == s \o t
<1> HIDE DEF st
<1>2. \A i \in 1 .. Len(s) + Len(t) : IF i <= Len(s) THEN i \in 1 .. Len(s) ELSE i - Len(s) \in 1 .. Len(t)
  BY <1>1
<1> QED BY <1>1, <1>2 DEF Clear, st

LEMMA EndsMore ==
    ASSUME NEW S, NEW s \in Seq(S), NEW t \in Seq(S), NEW es, NEW gs, Ends(s, es, gs), Clear(t, es)
    PROVE  Ends(s \o t, es, gs)
<1>1. /\ Len(s) \in Nat /\ Len(t) \in Nat /\ Len(s \o t) = Len(s) + Len(t)
      /\ \A i \in 1 .. Len(s) + Len(t) :
            (s \o t)[i] = IF i <= Len(s) THEN s[i] ELSE t[i - Len(s)]
  BY ConcatProperties, LenProperties
<1>2. PICK i \in 1 .. Len(s) : s[i] \in gs /\ \A j \in i + 1 .. Len(s) : s[j] \notin es
  BY DEF Ends
<1> DEFINE st == s \o t
<1>3. i \in 1 .. Len(st) /\ st[i] \in gs  BY <1>1, <1>2
<1>4. ASSUME NEW j \in i + 1 .. Len(st) PROVE st[j] \notin es
  <2>1. CASE j <= Len(s)
    <3>1. st[j] = s[j] /\ j \in i + 1 .. Len(s)  BY <1>1, <2>1
    <3> QED BY <1>2, <3>1
  <2>2. CASE ~(j <= Len(s))
    <3>1. st[j] = t[j - Len(s)] /\ j - Len(s) \in 1 .. Len(t)  BY <1>1, <2>2
    <3> QED BY <3>1 DEF Clear
  <2> QED BY <2>1, <2>2
<1> QED BY <1>3, <1>4 DEF Ends

LEMMA EndsNew ==
    ASSUME NEW S, NEW s \in Seq(S), NEW t \in Seq(S), NEW es, NEW gs, Ends(t, es, gs)
    PROVE  Ends(s \o t, es, gs)
<1>1. /\ Len(s) \in Nat /\ Len(t) \in Nat /\ Len(s \o t) = Len(s) + Len(t)
      /\ \A i \in 1 .. Len(s) + Len(t) :
            (s \o t)[i] = IF i <= Len(s) THEN s[i] ELSE t[i - Len(s)]
  BY ConcatProperties, LenProperties
<1>2. PICK i \in 1 .. Len(t) : t[i] \in gs /\ \A j \in i + 1 .. Len(t) : t[j] \notin es
  BY DEF Ends
<1> DEFINE st == s \o t
           k == Len(s) + i
<1>3. k \in 1 .. Len(st) /\ st[k] \in gs
  <2>1. k \in 1 .. Len(s) + Len(t) /\ ~(k <= Len(s)) /\ k - Len(s) = i  BY <1>1, <1>2
  <2> HIDE DEF k
  <2>2. st[k] = t[i]  BY <1>1, <2>1
  <2> QED BY <1>1, <1>2, <2>1, <2>2
<1>4. ASSUME NEW j \in k + 1 .. Len(st) PROVE st[j] \notin es
  <2>1. j \in 1 .. Len(s) + Len(t) /\ ~(j <= Len(s)) /\ j - Len(s) \in i + 1 .. Len(t)
    BY <1>1, <1>2
  <2>2. st[j] = t[j - Len(s)]  BY <1>1, <2>1
  <2> QED BY <1>2, <2>1, <2>2
<1> QED BY <1>3, <1>4 DEF Ends

LEMMA ClearRest ==
    ASSUME NEW S, NEW s \in Seq(S), s # <<>>, NEW es, Clear(s, es)
    PROVE  Head(s) \notin es /\ Clear(Tail(s), es)
<1>1. /\ Len(s) \in Nat /\ Len(s) # 0 /\ Len(Tail(s)) = Len(s) - 1
      /\ \A i \in 1 .. Len(Tail(s)) : Tail(s)[i] = s[i + 1]
  BY HeadTailProperties, LenProperties, EmptySeq
<1>2. Head(s) = s[1]  OBVIOUS
<1> DEFINE t == Tail(s)
<1> HIDE DEF t
<1>3. \A i \in 1 .. Len(t) : i + 1 \in 1 .. Len(s) /\ t[i] = s[i + 1]  BY <1>1 DEF t
<1>4. Head(s) \notin es  BY <1>1, <1>2 DEF Clear
<1> QED BY <1>3, <1>4 DEF Clear, t

LEMMA EndsRest ==
    ASSUME NEW S, NEW s \in Seq(S), s # <<>>, NEW es, NEW gs, Ends(s, es, gs)
    PROVE  Ends(Tail(s), es, gs) \/ (Head(s) \in gs /\ Clear(Tail(s), es))
<1>1. /\ Len(s) \in Nat /\ Len(s) # 0 /\ Len(Tail(s)) = Len(s) - 1
      /\ \A i \in 1 .. Len(Tail(s)) : Tail(s)[i] = s[i + 1]
  BY HeadTailProperties, LenProperties, EmptySeq
<1>2. Head(s) = s[1]  OBVIOUS
<1> DEFINE t == Tail(s)
<1> HIDE DEF t
<1>3. Len(t) = Len(s) - 1 /\ \A i \in 1 .. Len(t) : i + 1 \in 1 .. Len(s) /\ t[i] = s[i + 1]
  BY <1>1 DEF t
<1>4. PICK i \in 1 .. Len(s) : s[i] \in gs /\ \A j \in i + 1 .. Len(s) : s[j] \notin es
  BY DEF Ends
<1>5. CASE i = 1
  <2>1. \A j \in 1 .. Len(t) : j + 1 \in i + 1 .. Len(s)  BY <1>1, <1>3, <1>5
  <2>2. Clear(t, es)  BY <1>3, <1>4, <2>1 DEF Clear
  <2> QED BY <1>2, <1>4, <1>5, <2>2 DEF t
<1>6. CASE i # 1
  <2> DEFINE k == i - 1
  <2>1. k \in 1 .. Len(t) /\ k + 1 = i /\ \A j \in k + 1 .. Len(t) : j + 1 \in i + 1 .. Len(s) /\ j \in 1 .. Len(t)
    BY <1>1, <1>3, <1>6
  <2> HIDE DEF k
  <2>2. t[k] \in gs  BY <1>3, <1>4, <2>1
  <2>3. \A j \in k + 1 .. Len(t) : t[j] \notin es  BY <1>3, <1>4, <2>1
  <2>4. Ends(t, es, gs)  BY <2>1, <2>2, <2>3 DEF Ends
  <2> QED BY <2>4 DEF t
<1> QED BY <1>5, <1>6

LEMMA OnlyClear ==
    ASSUME NEW S, NEW s \in Seq(S), NEW some, NEW es, Clear(s, es)
    PROVE  Clear(Only(s, some), es)
<1> DEFINE o == Only(s, some)
<1>1. \E h \in [1 .. Len(o) -> 1 .. Len(s)] : \A i \in 1 .. Len(o) : o[i] = s[h[i]]
  <2>1. \E h \in [1 .. Len(o) -> 1 .. Len(s)] :
           /\ \A i, j \in 1 .. Len(o) : i < j => h[i] < h[j]
           /\ \A i \in 1 .. Len(o) : o[i] = s[h[i]]
           /\ \A k \in 1 .. Len(s) : s[k] \in some => \E i \in 1 .. Len(o) : h[i] = k
    BY OnlyPicks
  <2> HIDE DEF o
  <2> QED BY <2>1
<1> HIDE DEF o
<1>2. PICK h \in [1 .. Len(o) -> 1 .. Len(s)] : \A i \in 1 .. Len(o) : o[i] = s[h[i]]  BY <1>1
<1>3. \A i \in 1 .. Len(o) : h[i] \in 1 .. Len(s)  OBVIOUS
<1>4. Clear(o, es)  BY <1>2, <1>3 DEF Clear
<1> QED BY <1>4 DEF o

LEMMA OnlyEnds ==
    ASSUME NEW S, NEW s \in Seq(S), NEW some, NEW es, NEW gs, Ends(s, es, gs),
           \A i \in 1 .. Len(s) : s[i] \in gs => s[i] \in some
    PROVE  Ends(Only(s, some), es, gs)
<1> DEFINE o == Only(s, some)
<1>1. o \in Seq(S) /\ \E h \in [1 .. Len(o) -> 1 .. Len(s)] :
           /\ \A i, j \in 1 .. Len(o) : i < j => h[i] < h[j]
           /\ \A i \in 1 .. Len(o) : o[i] = s[h[i]]
           /\ \A k \in 1 .. Len(s) : s[k] \in some => \E i \in 1 .. Len(o) : h[i] = k
  BY OnlyPicks
<1> HIDE DEF o
<1>2. PICK h \in [1 .. Len(o) -> 1 .. Len(s)] :
           /\ \A i, j \in 1 .. Len(o) : i < j => h[i] < h[j]
           /\ \A i \in 1 .. Len(o) : o[i] = s[h[i]]
           /\ \A k \in 1 .. Len(s) : s[k] \in some => \E i \in 1 .. Len(o) : h[i] = k
  BY <1>1
<1>3. PICK k \in 1 .. Len(s) : s[k] \in gs /\ \A j \in k + 1 .. Len(s) : s[j] \notin es
  BY DEF Ends
<1>4. PICK i \in 1 .. Len(o) : h[i] = k  BY <1>2, <1>3
<1>5. Len(o) \in Nat /\ Len(s) \in Nat  BY <1>1, LenProperties
<1>6. ASSUME NEW j \in i + 1 .. Len(o) PROVE o[j] \notin es
  <2>1. j \in 1 .. Len(o) /\ i < j  BY <1>5
  <2>2. h[j] \in 1 .. Len(s) /\ h[i] < h[j]  BY <1>2, <2>1
  <2>3. h[j] \in k + 1 .. Len(s)  BY <1>4, <1>5, <2>2
  <2> QED BY <1>2, <1>3, <2>1, <2>3
<1>7. o[i] \in gs  BY <1>2, <1>3, <1>4
<1>8. Ends(o, es, gs)  BY <1>6, <1>7 DEF Ends
<1> QED BY <1>8 DEF o

LEMMA MaxIs ==
    ASSUME NEW n \in Nat, NEW S \in SUBSET (1 .. n), S # {}
    PROVE  Max(S) \in S /\ \A x \in S : x <= Max(S)
<1> DEFINE T == {k \in 0 .. n : S \cap 1 .. k # {} =>
                      \E x \in S : \A y \in S \cap 1 .. k : x >= y}
<1>1. 0 \in T  OBVIOUS
<1>2. ASSUME NEW k \in 0 .. n - 1, k \in T PROVE k + 1 \in T
  <2>1. CASE k + 1 \in S
    <3>1. \A y \in S \cap 1 .. k + 1 : k + 1 >= y  OBVIOUS
    <3> QED BY <2>1, <3>1
  <2>2. CASE k + 1 \notin S
    <3>1. S \cap 1 .. k + 1 = S \cap 1 .. k  BY <2>2
    <3> QED BY <1>2, <3>1
  <2> QED BY <2>1, <2>2
<1> HIDE DEF T
<1>3. n \in T
  <2>1. \A k \in 0 .. n : k \in T  BY <1>1, <1>2, UpToInduction
  <2> QED BY <2>1
<1>4. \E x \in S : \A y \in S : x >= y  BY <1>3 DEF T
<1>5. Max(S) \in S /\ \A y \in S : Max(S) >= y  BY <1>4 DEF Max
<1> QED BY <1>5

(* Mounts in their order: the greatest of some of them comes last.         *)
LEMMA InOrderEnds ==
    ASSUME Types, NEW ms, NEW of \in SUBSET (ms \cap Issued), of # {}
    PROVE  /\ Max(of) \in of
           /\ \E k \in 1 .. Len(InOrder(ms)) :
                 /\ InOrder(ms)[k] = Max(of)
                 /\ \A j \in k + 1 .. Len(InOrder(ms)) : InOrder(ms)[j] \notin of
<1> DEFINE all == [n \in 1 .. Len(mount) |-> n]
           o == Only(all, ms)
<1>1. Len(mount) \in Nat /\ Issued = 1 .. Len(mount)  BY MountIs
<1>2. all \in Seq(Nat) /\ Len(all) = Len(mount) /\ \A n \in 1 .. Len(mount) : all[n] = n
  BY <1>1, IsASeq
<1>3. InOrder(ms) = o  BY DEF InOrder
<1> HIDE DEF all
<1>4. o \in Seq(Nat) /\ \E h \in [1 .. Len(o) -> 1 .. Len(all)] :
           /\ \A i, j \in 1 .. Len(o) : i < j => h[i] < h[j]
           /\ \A i \in 1 .. Len(o) : o[i] = all[h[i]]
           /\ \A k \in 1 .. Len(all) : all[k] \in ms => \E i \in 1 .. Len(o) : h[i] = k
  <2>1. all \in Seq(Nat)  BY <1>2
  <2> DEFINE S == Nat
  <2>2. all \in Seq(S)  BY <2>1
  <2> HIDE DEF S, all
  <2>3. o \in Seq(S) /\ \E h \in [1 .. Len(o) -> 1 .. Len(all)] :
           /\ \A i, j \in 1 .. Len(o) : i < j => h[i] < h[j]
           /\ \A i \in 1 .. Len(o) : o[i] = all[h[i]]
           /\ \A k \in 1 .. Len(all) : all[k] \in ms => \E i \in 1 .. Len(o) : h[i] = k
    BY <2>2, OnlyPicks
  <2> QED BY <2>3 DEF S
<1> HIDE DEF o
<1>5. PICK h \in [1 .. Len(o) -> 1 .. Len(all)] :
           /\ \A i, j \in 1 .. Len(o) : i < j => h[i] < h[j]
           /\ \A i \in 1 .. Len(o) : o[i] = all[h[i]]
           /\ \A k \in 1 .. Len(all) : all[k] \in ms => \E i \in 1 .. Len(o) : h[i] = k
  BY <1>4
<1>6. Max(of) \in of /\ \A x \in of : x <= Max(of)
  <2>1. of \in SUBSET (1 .. Len(mount))  BY <1>1
  <2> QED BY <1>1, <2>1, MaxIs
<1>7. Max(of) \in 1 .. Len(mount) /\ Max(of) \in ms  BY <1>1, <1>6
<1> DEFINE m == Max(of)
<1> HIDE DEF m
<1>8. PICK k \in 1 .. Len(o) : h[k] = m  BY <1>2, <1>5, <1>7 DEF m
<1>9. \A i \in 1 .. Len(o) : o[i] = h[i] /\ h[i] \in 1 .. Len(mount)  BY <1>2, <1>5
<1>10. ASSUME NEW j \in k + 1 .. Len(o) PROVE o[j] \notin of
  <2>1. Len(o) \in Nat /\ j \in 1 .. Len(o) /\ k < j  BY <1>4, LenProperties
  <2>2. o[j] > m /\ o[j] \in Nat /\ m \in Nat  BY <1>5, <1>7, <1>8, <1>9, <2>1 DEF m
  <2>3. \A x \in of : x \in Nat /\ x <= m  BY <1>1, <1>6 DEF m
  <2> QED BY <2>2, <2>3
<1> QED BY <1>3, <1>6, <1>8, <1>9, <1>10 DEF m

-----------------------------------------------------------------------------
(* What matters to whom *)

Freeing(p) == {x \in Message : x.kind = "release" /\ x.path = p}
Joins(s) == {x \in Message : x.kind = "frame" /\ x.ms = {s}}
Telling(p) == {x \in Message : x.kind \in {"frame", "url"} /\ x.path = p}
Tellings(p, pr) == {x \in Telling(p) : x.props = {pr}}

(* Messages wait on an open socket only, and none of the requests on their *)
(* way but those for mounts is of an instance GivenIsTold speaks of.       *)
Wires ==
    /\ link \in {"down", "opening", "open"}
    /\ frames \in Seq(Message) /\ (OnSocket \/ frames = <<>>)
    /\ \A x \in DOMAIN posts : x.kind = "mount" \/ x.path \in loose

(* The instance of every store, bound or about to be, has been built.      *)
AllBuilt ==
    /\ \A s \in bound : PathOf(s) \in built
    /\ \A b \in Answered : \A m \in b.ok : mount[m].path \in built

(* The instance of a store is joined, or joining, and is not released by   *)
(* what is on the socket; or a frame on it joins it, and none after        *)
(* releases it.                                                            *)
Covered(s) ==
    LET p == PathOf(s) IN
    \/ Ends(frames, Freeing(p), Joins(s))
    \/ Clear(frames, Freeing(p)) /\ (p \in joined \/ s \in joining)
WillBeJoined == transport = "ws" /\ link # "down" => \A s \in bound \ missed : Covered(s)

(* Instances whose props are told out of order, or by a mount the page     *)
(* does not note, or has not noted yet.                                    *)
Exempt ==
    loose \cup {mount[m].path : m \in Pages}
          \cup UNION {{mount[m].path : m \in b.ok} : b \in Answered}

(* The last of the messages about the props of an instance says what the   *)
(* page noted; without any the server heard it.                            *)
Fits(p) ==
    \/ Ends(frames, Telling(p), Tellings(p, told[p]))
    \/ Clear(frames, Telling(p)) /\ p \in DOMAIN heard /\ heard[p] = told[p]
WillBeTold == transport = "ws" => \A p \in DOMAIN told \ Exempt : Fits(p)

WInv == Wires /\ AllBuilt /\ WillBeJoined /\ WillBeTold

-----------------------------------------------------------------------------
(* Sending *)

(* What is sent goes on the socket, if that is open; or as requests.       *)
LEMMA SendGoes ==
    ASSUME NEW msgs \in Seq(Message), Wires, Send(msgs)
    PROVE  /\ OnSocket => \E some : /\ frames' = frames \o Only(msgs, some)
                                    /\ \A i \in 1 .. Len(msgs) : msgs[i].kind # "mount" => msgs[i] \in some
           /\ ~OnSocket => /\ frames' = frames
                           /\ \A i \in 1 .. Len(msgs) : msgs[i].kind # "mount" => msgs[i].path \in loose'
           /\ frames' \in Seq(Message) /\ loose \subseteq loose'
           /\ \A x \in DOMAIN posts' : x.kind = "mount" \/ x.path \in loose'
<1> DEFINE framed == {x \in Range(msgs) : OnSocket /\ x.kind # "mount"}
           asked == {i \in DOMAIN msgs : msgs[i] \notin framed}
           kept == {i \in asked : msgs[i].kind # "resync"}
           o == Only(msgs, framed)
<1>1. frames' = frames \o o  BY DEF Send
<1>2. posts' = [x \in DOMAIN posts \cup {msgs[i] : i \in kept} |->
                  (IF BagIn(x, posts) THEN posts[x] ELSE 0)
                      + Cardinality({i \in kept : msgs[i] = x})]
  BY DEF Send
<1>3. loose' = loose \cup {msgs[i].path : i \in {k \in asked : msgs[k].kind # "mount"}}
  BY DEF Send
<1>4. DOMAIN msgs = 1 .. Len(msgs) /\ \A i \in 1 .. Len(msgs) : msgs[i] \in Range(msgs)
  <2>1. DOMAIN msgs = 1 .. Len(msgs)  BY LenProperties
  <2> QED BY <2>1 DEF Range
<1>5. frames \in Seq(Message) /\ o \in Seq(Message) /\ Range(o) = Range(msgs) \cap framed
  BY OnlyPicks DEF Wires
<1>6. DOMAIN posts' = DOMAIN posts \cup {msgs[i] : i \in kept}
  <2> HIDE DEF kept
  <2> QED BY <1>2
<1>7. \A i \in kept : msgs[i].kind = "mount" \/ msgs[i].path \in loose'  BY <1>3
<1>8. \A i \in 1 .. Len(msgs) : msgs[i] \in framed <=> OnSocket /\ msgs[i].kind # "mount"  BY <1>4
<1>9. ASSUME OnSocket
      PROVE  \E some : /\ frames' = frames \o Only(msgs, some)
                       /\ \A i \in 1 .. Len(msgs) : msgs[i].kind # "mount" => msgs[i] \in some
  <2> HIDE DEF framed
  <2> QED BY <1>1, <1>8, <1>9
<1>10. ASSUME ~OnSocket
       PROVE  /\ frames' = frames
              /\ \A i \in 1 .. Len(msgs) : msgs[i].kind # "mount" => msgs[i].path \in loose'
  <2>1. framed = {}  BY <1>10
  <2> HIDE DEF framed
  <2>2. Range(o) = {}  BY <1>5, <2>1
  <2>3. o = <<>>
    <3>1. Len(o) \in Nat /\ DOMAIN o = 1 .. Len(o)  BY <1>5, LenProperties
    <3> HIDE DEF o
    <3>2. \A i \in 1 .. Len(o) : o[i] \in Range(o)  BY <3>1 DEF Range
    <3>3. 1 \notin 1 .. Len(o)  BY <2>2, <3>2
    <3>4. Len(o) = 0  BY <3>1, <3>3
    <3> QED BY <1>5, <3>4, EmptySeq
  <2>4. frames' = frames  BY <1>1, <1>5, <2>3, ConcatEmptySeq
  <2>5. \A i \in 1 .. Len(msgs) : i \in asked  BY <1>4, <2>1
  <2>6. \A i \in 1 .. Len(msgs) : msgs[i].kind # "mount" => msgs[i].path \in loose'
    <3> HIDE DEF asked
    <3> QED BY <1>3, <2>5
  <2> QED BY <2>4, <2>6
<1>11. frames' \in Seq(Message)  BY <1>1, <1>5, ConcatProperties
<1>12. \A x \in DOMAIN posts' : x.kind = "mount" \/ x.path \in loose'
  <2> HIDE DEF kept
  <2>1. \A x \in DOMAIN posts' : x \in DOMAIN posts \/ \E i \in kept : x = msgs[i]  BY <1>6
  <2>2. loose \subseteq loose'  BY <1>3
  <2> QED BY <1>7, <2>1, <2>2 DEF Wires
<1>13. loose \subseteq loose'  BY <1>3
<1> QED BY <1>9, <1>10, <1>11, <1>12, <1>13

(* Sending keeps what is clear of what is sent, and what is sent counts.   *)
LEMMA SendClear ==
    ASSUME NEW msgs \in Seq(Message), Wires, Send(msgs), NEW es, Clear(msgs, es)
    PROVE  /\ Clear(frames, es) => Clear(frames', es)
           /\ \A gs : Ends(frames, es, gs) => Ends(frames', es, gs)
<1>1. CASE OnSocket
  <2>1. PICK some : frames' = frames \o Only(msgs, some)  BY <1>1, SendGoes
  <2>2. Only(msgs, some) \in Seq(Message) /\ frames \in Seq(Message) /\ Clear(Only(msgs, some), es)
    BY OnlyPicks, OnlyClear DEF Wires
  <2> DEFINE o == Only(msgs, some)
  <2> HIDE DEF o
  <2>3. frames' = frames \o o /\ o \in Seq(Message) /\ Clear(o, es)  BY <2>1, <2>2 DEF o
  <2>4. Clear(frames, es) => Clear(frames', es)  BY <2>2, <2>3, ClearMore
  <2>5. ASSUME NEW gs, Ends(frames, es, gs) PROVE Ends(frames', es, gs)
    BY <2>2, <2>3, <2>5, EndsMore
  <2> QED BY <2>4, <2>5
<1>2. CASE ~OnSocket
  <2>1. frames' = frames  BY <1>2, SendGoes
  <2> QED BY <2>1
<1> QED BY <1>1, <1>2

LEMMA SendEnds ==
    ASSUME NEW msgs \in Seq(Message), Wires, Send(msgs), OnSocket, NEW es, NEW gs, Ends(msgs, es, gs),
           \A x \in gs : x.kind # "mount"
    PROVE  Ends(frames', es, gs)
<1>1. PICK some : /\ frames' = frames \o Only(msgs, some)
                  /\ \A i \in 1 .. Len(msgs) : msgs[i].kind # "mount" => msgs[i] \in some
  BY SendGoes
<1>2. Only(msgs, some) \in Seq(Message) /\ frames \in Seq(Message)  BY OnlyPicks DEF Wires
<1>3. \A i \in 1 .. Len(msgs) : msgs[i] \in gs => msgs[i] \in some  BY <1>1
<1>4. Ends(Only(msgs, some), es, gs)  BY <1>3, OnlyEnds
<1> QED BY <1>1, <1>2, <1>4, EndsNew

-----------------------------------------------------------------------------
(* What a step keeps *)

LEMMA PathStays ==
    ASSUME Types, Same
    PROVE  \A s \in {0} \cup Issued : PathOf(s)' = PathOf(s)
<1>1. 0 \notin Issued  BY MountIs
<1> QED BY <1>1 DEF PathOf, Same

(* The mounts an answer is about are made.                                 *)
LEMMA OkIssued == ASSUME IInv, NEW b \in Answered PROVE b.ok \subseteq Issued
BY DEF IInv, AskedOnce, Asking, InStage

LEMMA BuiltKept ==
    ASSUME IInv, Same, AllBuilt, built \subseteq built', Answered' \subseteq Answered,
           \A s \in bound' : s \in bound \/ \E b \in Answered : s \in b.ok
    PROVE  AllBuilt'
<1>0. Types  BY DEF IInv
<1>1. \A s \in {0} \cup Issued : PathOf(s)' = PathOf(s)  BY <1>0, PathStays
<1>2. \A b \in Answered : \A m \in b.ok : m \in Issued /\ m # 0  BY <1>0, OkIssued, MountIs
<1>3. ASSUME NEW b \in Answered, NEW m \in b.ok
      PROVE  mount'[m].path \in built' /\ PathOf(m) = mount[m].path
  BY <1>2, <1>3 DEF AllBuilt, Same, PathOf
<1>4. ASSUME NEW s \in bound' PROVE PathOf(s)' \in built'
  <2>1. CASE s \in bound  BY <1>0, <1>1, <2>1 DEF AllBuilt, Types
  <2>2. CASE \E b \in Answered : s \in b.ok  BY <1>1, <1>2, <1>3, <2>2 DEF AllBuilt
  <2> QED BY <2>1, <2>2
<1>5. \A b \in Answered' : \A m \in b.ok : mount'[m].path \in built'  BY <1>3
<1> QED BY <1>4, <1>5 DEF AllBuilt

(* A step that sends, and leaves the server alone.                         *)
LEMMA SendKeeps ==
    ASSUME IInv, Same, WInv, NEW msgs \in Seq(Message), Send(msgs),
           UNCHANGED <<transport, link, built, joined, joining, heard>>, Answered' \subseteq Answered,
           \A s \in bound' : s \in bound \/ \E b \in Answered : s \in b.ok,
           \A s \in bound' \ missed' : transport = "ws" /\ link # "down" =>
               \/ OnSocket /\ Ends(msgs, Freeing(PathOf(s)), Joins(s))
               \/ s \in bound \ missed /\ Clear(msgs, Freeing(PathOf(s))),
           \A p \in DOMAIN told' \ Exempt' : transport = "ws" =>
               \/ OnSocket /\ Ends(msgs, Telling(p), Tellings(p, told'[p]))
               \/ /\ p \in DOMAIN told \ Exempt /\ told'[p] = told[p]
                  /\ Clear(msgs, Telling(p))
    PROVE  WInv'
<1>0. Types /\ Wires /\ AllBuilt /\ WillBeJoined /\ WillBeTold  BY DEF WInv, IInv
<1>1. Wires'
  <2>1. OnSocket' = OnSocket  BY DEF OnSocket
  <2>2. frames' \in Seq(Message) /\ (~OnSocket => frames' = frames)
        /\ \A x \in DOMAIN posts' : x.kind = "mount" \/ x.path \in loose'
    BY <1>0, SendGoes
  <2> QED BY <1>0, <2>1, <2>2 DEF Wires
<1>2. AllBuilt'  BY <1>0, BuiltKept
<1>3. WillBeJoined'
  <2> SUFFICES ASSUME transport = "ws", link # "down", NEW s \in bound' \ missed'
               PROVE  Covered(s)'
    BY DEF WillBeJoined
  <2> DEFINE p == PathOf(s)
             es == Freeing(p)
             gs == Joins(s)
  <2>1. PathOf(s)' = p
    <3>1. s \in {0} \cup Issued  BY <1>0, OkIssued DEF Types
    <3> QED BY <1>0, <3>1, PathStays
  <2>2. SUFFICES Ends(frames', es, gs) \/ (Clear(frames', es) /\ (p \in joined \/ s \in joining))
    BY <2>1 DEF Covered, Freeing, Joins
  <2>3. CASE OnSocket /\ Ends(msgs, es, gs)
    <3>1. \A x \in gs : x.kind # "mount"  BY DEF Joins
    <3> HIDE DEF es, gs
    <3> QED BY <1>0, <2>3, <3>1, SendEnds
  <2>4. CASE s \in bound \ missed /\ Clear(msgs, es)
    <3>1. Ends(frames, es, gs) \/ (Clear(frames, es) /\ (p \in joined \/ s \in joining))
      BY <1>0, <2>4 DEF WillBeJoined, Covered
    <3> HIDE DEF es, gs
    <3> QED BY <1>0, <2>4, <3>1, SendClear
  <2> QED BY <2>3, <2>4
<1>4. WillBeTold'
  <2> SUFFICES ASSUME transport = "ws", NEW p \in DOMAIN told' \ Exempt'
               PROVE  Fits(p)'
    BY DEF WillBeTold
  <2> DEFINE es == Telling(p)
             gs == Tellings(p, told'[p])
  <2>1. SUFFICES Ends(frames', es, gs)
                 \/ (Clear(frames', es) /\ p \in DOMAIN heard /\ heard[p] = told'[p])
    BY DEF Fits, Telling, Tellings
  <2>2. CASE OnSocket /\ Ends(msgs, es, gs)
    <3>1. \A x \in gs : x.kind # "mount"  BY DEF Tellings, Telling
    <3> HIDE DEF es, gs
    <3> QED BY <1>0, <2>2, <3>1, SendEnds
  <2>3. CASE p \in DOMAIN told \ Exempt /\ told'[p] = told[p] /\ Clear(msgs, es)
    <3>1. Ends(frames, es, gs) \/ (Clear(frames, es) /\ p \in DOMAIN heard /\ heard[p] = told'[p])
      BY <1>0, <2>3 DEF WillBeTold, Fits
    <3> HIDE DEF es, gs
    <3> QED BY <1>0, <2>3, <3>1, SendClear
  <2> QED BY <2>2, <2>3
<1> QED BY <1>1, <1>2, <1>3, <1>4 DEF WInv

LEMMA ExemptStays ==
    ASSUME IInv, Same, loose \subseteq loose', Answered \subseteq Answered'
    PROVE  Exempt \subseteq Exempt'
<1>1. \A m \in Pages : m \in Pages' /\ mount'[m].path = mount[m].path
  BY DEF Same, Pages, Owned
<1>2. \A b \in Answered : \A m \in b.ok : mount'[m].path = mount[m].path
  BY OkIssued DEF Same
<1> QED BY <1>1, <1>2 DEF Exempt

(* A step that leaves the messages alone, and takes nothing back.          *)
LEMMA QuietKeeps ==
    ASSUME IInv, Same, WInv, UNCHANGED <<transport, frames, loose, told, heard>>,
           link' = link \/ (link = "opening" /\ link' = "open"), DOMAIN posts' \subseteq DOMAIN posts,
           built \subseteq built', Answered' \subseteq Answered, Exempt \subseteq Exempt',
           bound' \subseteq bound,
           bound' \ missed' \subseteq bound \ missed,
           transport = "ws" /\ link # "down" => 
               \A s \in bound' \ missed' : PathOf(s) \in joined \/ s \in joining =>
                                           PathOf(s) \in joined' \/ s \in joining'
    PROVE  WInv'
<1>0. Types /\ Wires /\ AllBuilt /\ WillBeJoined /\ WillBeTold  BY DEF WInv, IInv
<1>1. Wires'
  <2>1. OnSocket => OnSocket'  BY DEF OnSocket
  <2> QED BY <1>0, <2>1 DEF Wires
<1>2. AllBuilt'  BY <1>0, BuiltKept
<1>3. WillBeJoined'
  <2> SUFFICES ASSUME transport = "ws", link' # "down", NEW s \in bound' \ missed'
               PROVE  Covered(s)'
    BY DEF WillBeJoined
  <2>1. PathOf(s)' = PathOf(s)  BY <1>0, PathStays DEF Types
  <2>2. Covered(s)  BY <1>0 DEF WillBeJoined
  <2> QED BY <2>1, <2>2 DEF Covered, Freeing, Joins
<1>4. WillBeTold'
  <2> SUFFICES ASSUME transport = "ws", NEW p \in DOMAIN told \ Exempt
               PROVE  Fits(p)'
    BY DEF WillBeTold
  <2>1. Fits(p)  BY <1>0 DEF WillBeTold
  <2> QED BY <2>1 DEF Fits, Telling, Tellings
<1> QED BY <1>1, <1>2, <1>3, <1>4 DEF WInv

-----------------------------------------------------------------------------
(* The steps of the page *)

LEMMA AppendSame ==
    ASSUME Types, NEW x, mount' = Append(mount, x)
    PROVE  Same
<1> DEFINE S == Mounted \cup {x}
<1>1. mount \in Seq(S) /\ x \in S /\ Len(mount) \in Nat /\ Issued = 1 .. Len(mount)
  <2>1. mount \in Seq(S)  BY SeqMonotonic DEF Types
  <2> QED BY <2>1, MountIs
<1> HIDE DEF S
<1>2. /\ mount' \in Seq(S) /\ Len(mount') = Len(mount) + 1
      /\ \A m \in 1 .. Len(mount) : mount'[m] = mount[m]
  BY <1>1, AppendProperties
<1>3. Issued' = 1 .. Len(mount) + 1  BY <1>2, LenProperties DEF Issued
<1> QED BY <1>1, <1>2, <1>3 DEF Same

(* What a step may change of a mount.                                      *)
Piece(r, q) ==
    \/ q = r
    \/ \E v : q = [r EXCEPT !.stage = v]
    \/ \E v : q = [r EXCEPT !.sent = v]
    \/ \E v, w : q = [r EXCEPT !.live = v, !.stage = w]
    \/ \E v, w : q = [r EXCEPT !.stage = v, !.store = w]

LEMMA PieceSame ==
    ASSUME Types, DOMAIN mount' = Issued, \A m \in Issued : Piece(mount[m], mount'[m])
    PROVE  Same
<1>1. Issued' = Issued  BY DEF Issued
<1>2. ASSUME NEW m \in Issued
      PROVE  mount'[m].by = mount[m].by /\ mount'[m].path = mount[m].path /\ mount'[m].my = mount[m].my
  <2> DEFINE r == mount[m]
             q == mount'[m]
  <2>1. r = [x \in DOMAIN r |-> r[x]] /\ {"by", "path", "my"} \subseteq DOMAIN r
    <3>1. r \in Mounted  BY MountIs
    <3> HIDE DEF r
    <3> QED BY <3>1 DEF Mounted
  <2>2. Piece(r, q)  OBVIOUS
  <2> HIDE DEF r, q
  <2>3. q.by = r.by /\ q.path = r.path /\ q.my = r.my  BY <2>1, <2>2 DEF Piece
  <2> QED BY <2>3 DEF r, q
<1> QED BY <1>1, <1>2 DEF Same

LEMMA StepSame ==
    ASSUME IInv, [SlotNext]_slotVars
    PROVE  Same
<1>0. Types  BY DEF IInv
<1>1. CASE mount' = mount  BY <1>1 DEF Same, Issued
<1>2. ASSUME NEW c \in Slots, NEW p \in Paths, NEW pr \in Props, MountSlot(c, p, pr) PROVE Same
  BY <1>0, <1>2, AppendSame DEF MountSlot
<1>3. ASSUME NEW p \in Paths, Navigate(p) PROVE Same
  BY <1>0, <1>1, <1>3, AppendSame DEF Navigate
<1>4. ASSUME NEW m \in Issued, Unmount(m) \/ Resume(m) \/ Loaded(m) \/ Commit(m) \/ JoinFrame(m)
                               \/ \E pr \in Props : Patch(m, pr)
      PROVE  Same
  <2>1. CASE Unmount(m)
    <3> DEFINE r == mount[m]
               q == mount'[m]
               v == FALSE
               w == IF r.stage = "held" THEN "over" ELSE r.stage
    <3>1. /\ DOMAIN mount' = Issued /\ \A n \in Issued \ {m} : mount'[n] = mount[n]
          /\ q = [r EXCEPT !.live = v, !.stage = w]
      BY <2>1 DEF Unmount, Issued
    <3> HIDE DEF v, w
    <3>2. Piece(r, q)  BY <3>1 DEF Piece
    <3>3. \A n \in Issued \ {m} : Piece(mount[n], mount'[n])  BY <3>1 DEF Piece
    <3> QED BY <1>0, <3>1, <3>2, <3>3, PieceSame
  <2>2. CASE Resume(m) \/ Loaded(m) \/ Commit(m)
    <3>1. PICK v : mount' = [mount EXCEPT ![m].stage = v]
      BY <2>2 DEF Resume, Loaded, Commit
    <3>2. /\ DOMAIN mount' = Issued /\ \A n \in Issued \ {m} : mount'[n] = mount[n]
          /\ mount'[m] = [mount[m] EXCEPT !.stage = v]
      BY <3>1 DEF Issued
    <3> QED BY <1>0, <3>2, PieceSame DEF Piece
  <2>3. CASE JoinFrame(m)  BY <1>1, <2>3 DEF JoinFrame
  <2>4. CASE \E pr \in Props : Patch(m, pr)
    <3>1. PICK v : mount' = [mount EXCEPT ![m].sent = v]  BY <2>4 DEF Patch
    <3>2. /\ DOMAIN mount' = Issued /\ \A n \in Issued \ {m} : mount'[n] = mount[n]
          /\ mount'[m] = [mount[m] EXCEPT !.sent = v]
      BY <3>1 DEF Issued
    <3> QED BY <1>0, <3>2, PieceSame DEF Piece
  <2> QED BY <1>4, <2>1, <2>2, <2>3, <2>4
<1>5. ASSUME NEW b \in back, Receive(b) PROVE Same
  <2>1. CASE b.kind = "slots"
    <3>1. mount' = [m \in Issued |-> IF m \in b.ms THEN SettleSlotMount(m, b.ok) ELSE mount[m]]
      BY <1>5, <2>1 DEF Receive, SettleSlots
    <3> QED BY <1>0, <3>1, PieceSame DEF SettleSlotMount, Piece
  <2>2. CASE b.kind = "page"
    <3>0. PICK m \in b.ms : SettlePage(m, b.ok # {})  BY <1>5, <2>2 DEF Receive
    <3>1. m \in Issued
      <4>1. b \in Asking  BY <2>2 DEF Asking, Answered
      <4> QED BY <3>0, <4>1 DEF IInv, AskedOnce, InStage
    <3>2. (\E s : mount' = Awaits(m, s)) \/ mount' = [mount EXCEPT ![m].stage = "over"]
      BY <3>0 DEF SettlePage, Overtaken, Denied, Swap
    <3>3. CASE \E s : mount' = Awaits(m, s)
      <4>1. PICK s : mount' = [mount EXCEPT ![m].stage = "waiting", ![m].store = s]
        BY <3>3 DEF Awaits
      <4> DEFINE r == mount[m]
                 q == mount'[m]
                 v == "waiting"
      <4>2. /\ DOMAIN mount' = Issued /\ \A n \in Issued \ {m} : mount'[n] = mount[n]
            /\ q = [r EXCEPT !.stage = v, !.store = s]
        BY <3>1, <4>1 DEF Issued
      <4> HIDE DEF v
      <4>3. Piece(r, q)  BY <4>2 DEF Piece
      <4>4. \A n \in Issued \ {m} : Piece(mount[n], mount'[n])  BY <4>2 DEF Piece
      <4> QED BY <1>0, <4>2, <4>3, <4>4, PieceSame
    <3>4. CASE mount' = [mount EXCEPT ![m].stage = "over"]
      <4>1. /\ DOMAIN mount' = Issued /\ \A n \in Issued \ {m} : mount'[n] = mount[n]
            /\ mount'[m] = [mount[m] EXCEPT !.stage = "over"]
        BY <3>1, <3>4 DEF Issued
      <4> QED BY <1>0, <4>1, PieceSame DEF Piece
    <3> QED BY <3>2, <3>3, <3>4
  <2>3. CASE b.kind = "deny"
    <3>1. PICK hit : mount' = [m \in Issued |-> IF m \in hit THEN [mount[m] EXCEPT !.stage = "over"]
                                                ELSE mount[m]]
      BY <1>5, <2>3 DEF Receive, RouteRedirect
    <3> QED BY <1>0, <3>1, PieceSame DEF Piece
  <2> QED BY <1>5, <2>1, <2>2, <2>3 DEF Receive
<1>6. ASSUME FlushSlots PROVE Same
  <2>1. mount' = [m \in Issued |->
                 IF m \in Rebound
                 THEN [mount[m] EXCEPT !.stage = "settled", !.store = StoreKept(m)]
                 ELSE IF m \in Queued \ Rebound THEN [mount[m] EXCEPT !.stage = "posted"]
                 ELSE mount[m]]
    BY <1>6 DEF FlushSlots
  <2>2. DOMAIN mount' = Issued  BY <2>1
  <2>3. \A m \in Issued :
          \/ mount'[m] = mount[m]
          \/ mount'[m] = [mount[m] EXCEPT !.stage = "posted"]
          \/ mount'[m] = [mount[m] EXCEPT !.stage = "settled", !.store = StoreKept(m)]
    BY <2>1
  <2> QED BY <1>0, <2>2, <2>3, PieceSame DEF Piece
<1>7. ASSUME Arrive \/ Connect \/ Opened \/ Break \/ Abort \/ UNCHANGED slotVars PROVE Same
  BY <1>1, <1>7 DEF Arrive, Connect, Opened, Break, Abort, slotVars
<1> QED BY <1>2, <1>3, <1>4, <1>5, <1>6, <1>7 DEF SlotNext

(* What happens in the page and is not told to anybody.                    *)
LEMMA PageKeeps ==
    ASSUME IInv, WInv, Same,
           \/ \E c \in Slots, p \in Paths, pr \in Props : MountSlot(c, p, pr)
           \/ \E p \in Paths : Navigate(p)
           \/ \E m \in Issued : Unmount(m) \/ Resume(m) \/ Commit(m)
           \/ \E b \in back : Receive(b) /\ b.kind = "deny"
           \/ Opened \/ Abort \/ UNCHANGED slotVars
    PROVE  WInv'
<1>1. /\ UNCHANGED <<transport, frames, loose, told, heard, posts, built, bound, missed, joined, joining>>
      /\ Answered' = Answered /\ (UNCHANGED link \/ (link = "opening" /\ link' = "open"))
  <2>1. CASE \/ \E c \in Slots, p \in Paths, pr \in Props : MountSlot(c, p, pr)
             \/ \E p \in Paths : Navigate(p)
             \/ \E m \in Issued : Unmount(m) \/ Resume(m) \/ Commit(m)
    BY <2>1 DEF MountSlot, Navigate, Unmount, Resume, Commit, wire, server, table, Answered
  <2>2. ASSUME NEW b \in back, Receive(b), b.kind = "deny" PROVE <1>1
    <3>1. back' = back \ {b} /\ UNCHANGED <<transport, link, server, left, table, sent, missed>>
      BY <2>2 DEF Receive
    <3>2. Answered' = Answered  BY <2>2, <3>1 DEF Answered
    <3> QED BY <3>1, <3>2 DEF server, table, sent
  <2>3. CASE Opened \/ Abort \/ UNCHANGED slotVars
    BY <2>3 DEF Opened, Abort, slotVars, wire, server, table, sent, Answered
  <2> QED BY <2>1, <2>2, <2>3
<1>2. Exempt \subseteq Exempt'  BY <1>1, ExemptStays
<1> QED BY <1>1, <1>2, QuietKeeps

(* The messages, and to whom they matter.                                  *)
LEMMA MessagesAre ==
    ASSUME SlotConstantsOK, Types
    PROVE  /\ \A p \in Paths, pr \in Props :
                 Url(p, pr) \in Tellings(p, pr) /\ Url(p, pr).kind = "url"
           /\ \A p \in Paths : ReleaseMsg(p) \in Freeing(p) /\ ReleaseMsg(p).kind = "release"
           /\ \A m \in Issued :
                 LET x == JoinMsg(m)
                     p == mount[m].path IN
                 /\ p \in Paths /\ x \in Message /\ x.path = p /\ x.kind \in {"frame", "resync"}
                 /\ OnSocket => x \in Joins(m) \cap Tellings(p, mount[m].props)
           /\ \A ms \in SUBSET Issued : MountPost(ms) \in Message /\ MountPost(ms).kind = "mount"
<1>1. \A m \in Issued : m \in Nat /\ mount[m].path \in Paths /\ mount[m].props \in Props
  <2>1. \A m \in Issued : mount[m] \in Mounted /\ m \in Nat  BY MountIs
  <2> QED BY <2>1 DEF Mounted
<1>2. \A p \in Paths, pr \in Props : Url(p, pr) \in Tellings(p, pr) /\ Url(p, pr).kind = "url"
  BY DEF Url, Msg, Tellings, Telling, Message
<1>3. \A p \in Paths : ReleaseMsg(p) \in Freeing(p) /\ ReleaseMsg(p).kind = "release"
  BY DEF ReleaseMsg, Msg, Freeing, Message
<1>4. ASSUME NEW m \in Issued
      PROVE  LET x == JoinMsg(m)
                 p == mount[m].path IN
             /\ p \in Paths /\ x \in Message /\ x.path = p /\ x.kind \in {"frame", "resync"}
             /\ OnSocket => x \in Joins(m) \cap Tellings(p, mount[m].props)
  <2> DEFINE x == JoinMsg(m)
             p == mount[m].path
             pr == mount[m].props
  <2>1. m \in Nat /\ p \in Paths /\ pr \in Props  BY <1>1
  <2>2. CASE OnSocket
    <3>1. x = [kind |-> "frame", path |-> p, props |-> {pr}, ms |-> {m}]  BY <2>2 DEF JoinMsg
    <3> HIDE DEF x, p, pr
    <3>2. x \in Message /\ x.path = p /\ x.kind = "frame" /\ x \in Joins(m) \cap Tellings(p, pr)
      BY <2>1, <3>1 DEF Joins, Tellings, Telling, Message
    <3> QED BY <2>1, <3>2 DEF x, p, pr
  <2>3. CASE ~OnSocket
    <3>1. x = [kind |-> "resync", path |-> p, props |-> {}, ms |-> {}]  BY <2>3 DEF JoinMsg, Msg
    <3> HIDE DEF x, p, pr
    <3>2. x \in Message /\ x.path = p /\ x.kind = "resync"  BY <2>1, <3>1 DEF Message
    <3> QED BY <2>1, <2>3, <3>2 DEF x, p, pr
  <2> QED BY <2>2, <2>3
<1>5. ASSUME NEW ms \in SUBSET Issued
      PROVE  MountPost(ms) \in Message /\ MountPost(ms).kind = "mount"
  <2>1. ms \in SUBSET Nat  BY <1>1
  <2> QED BY <2>1 DEF MountPost, Message, SlotConstantsOK
<1> QED BY <1>2, <1>3, <1>4, <1>5

(* Messages of other kinds, or of other instances, do not matter.          *)
LEMMA ClearOne ==
    ASSUME NEW x \in Message, NEW es, x \notin es
    PROVE  <<x>> \in Seq(Message) /\ Clear(<<x>>, es)
BY DEF Clear

LEMMA EndsOne ==
    ASSUME NEW x \in Message, NEW es, NEW gs, x \in gs
    PROVE  <<x>> \in Seq(Message) /\ Ends(<<x>>, es, gs)
<1>1. Len(<<x>>) = 1 /\ <<x>>[1] = x  OBVIOUS
<1> DEFINE s == <<x>>
<1> HIDE DEF s
<1>2. 1 \in 1 .. Len(s) /\ s[1] \in gs /\ \A j \in 1 + 1 .. Len(s) : s[j] \notin es
  BY <1>1 DEF s
<1>3. Ends(s, es, gs)  BY <1>2 DEF Ends
<1> QED BY <1>3 DEF s

LEMMA ReleasesAre ==
    ASSUME SlotConstantsOK, Types, NEW ps \in SUBSET Paths, IsFiniteSet(ps)
    PROVE  /\ Releases(ps) \in Seq(Message)
           /\ \A i \in 1 .. Len(Releases(ps)) :
                 Releases(ps)[i].kind = "release" /\ Releases(ps)[i].path \in ps
           /\ \A p : Clear(Releases(ps), Telling(p))
           /\ \A p : p \notin ps => Clear(Releases(ps), Freeing(p))
<1> DEFINE n == Cardinality(ps)
           f == SetToSeq(ps)
           rs == Releases(ps)
<1>1. n \in Nat /\ ExistsBijection(1 .. n, ps)  BY FS_CardinalityType
<1>2. \E g \in [1 .. n -> ps] : IsInjective(g)
  <2>1. PICK g : g \in Bijection(1 .. n, ps)  BY <1>1, Zenon DEF ExistsBijection
  <2>2. g \in Injection(1 .. n, ps)  BY <2>1, Zenon DEF Bijection
  <2> QED BY <2>2, Zenon DEF Injection
<1>3. f \in [1 .. n -> ps]
  <2>1. f = CHOOSE g \in [1 .. n -> ps] : IsInjective(g)  BY Zenon DEF SetToSeq
  <2> HIDE DEF f, n
  <2> QED BY <1>2, <2>1, Zenon
<1>4. rs = [i \in 1 .. n |-> ReleaseMsg(f[i])]  BY DEF Releases
<1> HIDE DEF n, f, rs
<1>5. \A i \in 1 .. n : rs[i] = ReleaseMsg(f[i]) /\ f[i] \in ps /\ f[i] \in Paths  BY <1>3, <1>4
<1>6. \A i \in 1 .. n : rs[i] \in Freeing(f[i])  BY <1>5, MessagesAre
<1>7. \A i \in 1 .. n : rs[i] \in Message /\ rs[i].kind = "release" /\ rs[i].path = f[i]
  BY <1>6 DEF Freeing
<1>8. rs \in Seq(Message) /\ Len(rs) = n
  <2>1. rs \in [1 .. n -> Message]  BY <1>4, <1>7
  <2> HIDE DEF Message
  <2>2. rs \in UNION {[1 .. k -> Message] : k \in Nat}  BY <1>1, <2>1, Zenon
  <2>3. rs \in Seq(Message)  BY <2>2, SeqDef, Zenon
  <2>4. DOMAIN rs = 1 .. Len(rs) /\ DOMAIN rs = 1 .. n /\ Len(rs) \in Nat  BY <2>1, <2>3, LenProperties
  <2>5. n \in Nat  BY <1>1
  <2>6. Len(rs) = n
    <3> DEFINE l == Len(rs)
    <3>1. 1 .. l = 1 .. n /\ l \in Nat /\ n \in Nat  BY <2>4, <2>5
    <3> HIDE DEF l
    <3>2. (l # 0 => l \in 1 .. n) /\ (n # 0 => n \in 1 .. l)  BY <3>1
    <3>3. l = n  BY <3>1, <3>2
    <3> QED BY <3>3 DEF l
  <2> QED BY <2>3, <2>6
<1>9. \A p : Clear(rs, Telling(p))  BY <1>7, <1>8 DEF Clear, Telling
<1>10. \A p : p \notin ps => Clear(rs, Freeing(p))  BY <1>5, <1>7, <1>8 DEF Clear, Freeing
<1> QED BY <1>5, <1>7, <1>8, <1>9, <1>10 DEF rs

(* One message about each of some mounts, in their order: the last of an   *)
(* instance is of the greatest.                                            *)
LEMMA EachTells ==
    ASSUME SlotConstantsOK, Types, NEW ms \in SUBSET Issued, NEW f,
           f = [i \in 1 .. Len(InOrder(ms)) |-> f[i]],
           \A i \in 1 .. Len(InOrder(ms)) :
               f[i] \in Message /\ f[i].path = mount[InOrder(ms)[i]].path
    PROVE  /\ f \in Seq(Message) /\ Len(f) = Len(InOrder(ms))
           /\ \A i \in 1 .. Len(f) : InOrder(ms)[i] \in ms
           /\ \A m \in ms : \E i \in 1 .. Len(f) : InOrder(ms)[i] = m
           /\ \A p : (\A m \in ms : mount[m].path # p) => Clear(f, Telling(p))
           /\ \A p, gs :
                LET of == {m \in ms : mount[m].path = p} IN
                of # {} /\ (\A i \in 1 .. Len(f) : InOrder(ms)[i] = Max(of) => f[i] \in gs) =>
                    Max(of) \in of /\ Ends(f, Telling(p), gs)
<1> DEFINE o == InOrder(ms)
           n == Len(o)
<1>1. o \in Seq(Nat) /\ Range(o) = ms  BY InOrderIs
<1>2. n \in Nat /\ DOMAIN o = 1 .. n  BY <1>1, LenProperties
<1>3. f \in Seq(Message) /\ Len(f) = n
  <2> HIDE DEF o, n
  <2>1. f \in [1 .. n -> Message]  BY DEF o, n
  <2> HIDE DEF Message
  <2>2. f \in UNION {[1 .. k -> Message] : k \in Nat}  BY <1>2, <2>1, Zenon
  <2>3. f \in Seq(Message)  BY <2>2, SeqDef, Zenon
  <2>4. DOMAIN f = 1 .. Len(f) /\ DOMAIN f = 1 .. n /\ Len(f) \in Nat  BY <2>1, <2>3, LenProperties
  <2> QED BY <1>2, <2>3, <2>4
<1>4. /\ \A i \in 1 .. n : o[i] \in ms
      /\ \A m \in ms : \E i \in 1 .. n : o[i] = m
  <2> HIDE DEF o, n
  <2> QED BY <1>1, <1>2 DEF Range
<1>5. \A i \in 1 .. n : f[i].path = mount[o[i]].path  OBVIOUS
<1>6. ASSUME NEW p, \A m \in ms : mount[m].path # p PROVE Clear(f, Telling(p))
  <2> HIDE DEF o, n
  <2>1. \A i \in 1 .. n : f[i].path # p  BY <1>4, <1>5, <1>6
  <2>2. \A i \in 1 .. n : f[i] \notin Telling(p)  BY <2>1 DEF Telling
  <2> QED BY <1>3, <2>2 DEF Clear
<1>7. ASSUME NEW p, NEW gs, {m \in ms : mount[m].path = p} # {},
             \A i \in 1 .. n : o[i] = Max({m \in ms : mount[m].path = p}) => f[i] \in gs
      PROVE  /\ Max({m \in ms : mount[m].path = p}) \in {m \in ms : mount[m].path = p}
             /\ Ends(f, Telling(p), gs)
  <2> DEFINE of == {m \in ms : mount[m].path = p}
             top == Max(of)
  <2>1. of \in SUBSET (ms \cap Issued) /\ of # {}  BY <1>7
  <2>2. top \in of /\ \E k \in 1 .. n : o[k] = top /\ \A j \in k + 1 .. n : o[j] \notin of
    <3> HIDE DEF of
    <3> QED BY <2>1, InOrderEnds
  <2>3. \A i \in 1 .. n : o[i] = top => f[i] \in gs  BY <1>7
  <2> HIDE DEF o, n, top
  <2>4. PICK k \in 1 .. n : o[k] = top /\ \A j \in k + 1 .. n : o[j] \notin of  BY <2>2
  <2>5. ASSUME NEW j \in k + 1 .. Len(f) PROVE f[j] \notin Telling(p)
    <3>1. j \in 1 .. n /\ j \in k + 1 .. n  BY <1>2, <1>3
    <3>2. o[j] \in ms /\ o[j] \notin of  BY <1>4, <2>4, <3>1
    <3>3. f[j].path # p  BY <1>5, <3>1, <3>2
    <3> QED BY <3>3 DEF Telling
  <2>6. k \in 1 .. Len(f) /\ f[k] \in gs  BY <1>3, <2>3, <2>4
  <2>7. Ends(f, Telling(p), gs)  BY <2>5, <2>6 DEF Ends
  <2> QED BY <2>2, <2>7 DEF top
<1> QED BY <1>3, <1>4, <1>6, <1>7

LEMMA PatchWires ==
    ASSUME SlotConstantsOK, IInv, WInv, Same, NEW m \in Issued, NEW pr \in Props, Patch(m, pr)
    PROVE  WInv'
<1> DEFINE q == mount[m].path
           u == Url(q, pr)
           msgs == <<u>>
<1>0. Types /\ Wires  BY DEF WInv, IInv
<1>1. /\ told' = Put(told, q, pr) /\ Send(msgs)
      /\ UNCHANGED <<transport, bound, link, back, built, joined, joining, heard, missed>>
  BY DEF Patch, server
<1>2. u \in Tellings(q, pr) /\ u.kind = "url"  BY <1>0, MessagesAre
<1>3. u \in Message /\ u.path = q /\ u \notin {x \in Message : x.kind = "release"}
  BY <1>2 DEF Tellings, Telling
<1> HIDE DEF u, q
<1>4. msgs \in Seq(Message) /\ Len(msgs) = 1 /\ msgs[1] = u  BY <1>3
<1>5. Answered' = Answered  BY <1>1 DEF Answered
<1>6. \A s \in bound' \ missed' : s \in bound \ missed /\ Clear(msgs, Freeing(PathOf(s)))
  <2>1. \A p : u \notin Freeing(p)  BY <1>2 DEF Freeing
  <2> QED BY <1>1, <1>3, <2>1, ClearOne
<1>7. loose \subseteq loose' /\ (~OnSocket => q \in loose')
  <2>1. 1 \in 1 .. Len(msgs) /\ msgs[1].kind # "mount" /\ msgs[1].path = q
    BY <1>2, <1>3, <1>4
  <2> HIDE DEF msgs
  <2> QED BY <1>0, <1>1, <1>4, <2>1, SendGoes
<1>8. Exempt \subseteq Exempt'  BY <1>5, <1>7, ExemptStays
<1>9. ASSUME NEW p \in DOMAIN told' \ Exempt'
      PROVE  \/ OnSocket /\ Ends(msgs, Telling(p), Tellings(p, told'[p]))
             \/ /\ p \in DOMAIN told \ Exempt /\ told'[p] = told[p]
                /\ Clear(msgs, Telling(p))
  <2>1. CASE p = q
    <3>1. told'[p] = pr  BY <1>1, <2>1 DEF Put
    <3>2. OnSocket  BY <1>7, <2>1 DEF Exempt
    <3>3. Ends(msgs, Telling(p), Tellings(p, told'[p]))  BY <1>2, <1>3, <2>1, <3>1, EndsOne
    <3> QED BY <3>2, <3>3
  <2>2. CASE p # q
    <3>1. p \in DOMAIN told \ Exempt /\ told'[p] = told[p]  BY <1>1, <1>8, <2>2 DEF Put
    <3>2. u \notin Telling(p)  BY <1>3, <2>2 DEF Telling
    <3> QED BY <1>3, <3>1, <3>2, ClearOne
  <2> QED BY <2>1, <2>2
<1> HIDE DEF msgs
<1> QED BY <1>1, <1>4, <1>5, <1>6, <1>9, SendKeeps

LEMMA LoadedWires ==
    ASSUME SlotConstantsOK, IInv, WInv, Same, NEW m \in Issued, Loaded(m)
    PROVE  WInv'
<1> DEFINE x == MountPost({m})
           msgs == <<x>>
<1>0. Types /\ Wires  BY DEF WInv, IInv
<1>1. /\ Send(msgs)
      /\ UNCHANGED <<transport, bound, told, link, back, built, joined, joining, heard, missed>>
  BY DEF Loaded, server, table
<1>2. x \in Message /\ x.kind = "mount"
  <2>1. {m} \in SUBSET Issued  OBVIOUS
  <2> QED BY <1>0, <2>1, MessagesAre
<1> HIDE DEF x
<1>3. msgs \in Seq(Message)  BY <1>2
<1>4. Answered' = Answered  BY <1>1 DEF Answered
<1>5. \A p : Clear(msgs, Freeing(p)) /\ Clear(msgs, Telling(p))
  <2>1. \A p : x \notin Freeing(p) /\ x \notin Telling(p)  BY <1>2 DEF Freeing, Telling
  <2> QED BY <1>2, <2>1, ClearOne
<1> HIDE DEF msgs
<1>6. loose \subseteq loose'  BY <1>0, <1>1, <1>3, SendGoes
<1>7. Exempt \subseteq Exempt'  BY <1>4, <1>6, ExemptStays
<1> QED BY <1>1, <1>3, <1>4, <1>5, <1>7, SendKeeps

LEMMA SettleSlotsWires ==
    ASSUME SlotConstantsOK, IInv, WInv, Same, NEW b \in back, Receive(b), b.kind = "slots"
    PROVE  WInv'
<1> DEFINE ok == b.ok
           msgs == [i \in 1 .. Len(InOrder(ok)) |-> JoinMsg(InOrder(ok)[i])]
           of(p) == {m \in ok : mount[m].path = p}
<1>0. Types /\ Wires  BY DEF WInv, IInv
<1>1. /\ told' = Noted(told, ok) /\ Send(msgs) /\ bound' = bound \cup ok /\ back' = back \ {b}
      /\ missed' = missed \cup UNION {Missing(m) : m \in ok}
      /\ UNCHANGED <<transport, link, built, joined, joining, heard>>
  BY DEF Receive, SettleSlots, server
<1>2. b \in Answered /\ Answered' = Answered \ {b}  BY <1>1 DEF Answered
<1>3. ok \in SUBSET Issued  BY <1>2, OkIssued
<1>4. \A i \in 1 .. Len(InOrder(ok)) : InOrder(ok)[i] \in ok
  <2>1. InOrder(ok) \in Seq(Nat) /\ Range(InOrder(ok)) = ok  BY <1>0, <1>3, InOrderIs
  <2>2. DOMAIN InOrder(ok) = 1 .. Len(InOrder(ok))  BY <2>1, LenProperties
  <2> QED BY <2>1, <2>2 DEF Range
<1>5. \A i \in 1 .. Len(InOrder(ok)) :
        LET m == InOrder(ok)[i] IN
        /\ msgs[i] = JoinMsg(m) /\ m \in ok /\ msgs[i] \in Message /\ msgs[i].path = mount[m].path
        /\ msgs[i].kind \in {"frame", "resync"}
        /\ OnSocket => msgs[i] \in Joins(m) \cap Tellings(mount[m].path, mount[m].props)
  <2>1. \A m \in ok :
                 LET x == JoinMsg(m)
                     p == mount[m].path IN
                 /\ x \in Message /\ x.path = p /\ x.kind \in {"frame", "resync"}
                 /\ OnSocket => x \in Joins(m) \cap Tellings(p, mount[m].props)
    BY <1>0, <1>3, MessagesAre
  <2> QED BY <1>4, <2>1
<1>6. msgs = [i \in 1 .. Len(InOrder(ok)) |-> msgs[i]]  OBVIOUS
<1> HIDE DEF ok, msgs, of
<1>7. /\ msgs \in Seq(Message) /\ Len(msgs) = Len(InOrder(ok))
      /\ \A i \in 1 .. Len(msgs) : InOrder(ok)[i] \in ok
      /\ \A m \in ok : \E i \in 1 .. Len(msgs) : InOrder(ok)[i] = m
      /\ \A p : (\A m \in ok : mount[m].path # p) => Clear(msgs, Telling(p))
      /\ \A p, gs :
             LET os == {m \in ok : mount[m].path = p} IN
             os # {} /\ (\A i \in 1 .. Len(msgs) : InOrder(ok)[i] = Max(os) => msgs[i] \in gs) =>
                 Max(os) \in os /\ Ends(msgs, Telling(p), gs)
  <2>1. \A i \in 1 .. Len(InOrder(ok)) :
            msgs[i] \in Message /\ msgs[i].path = mount[InOrder(ok)[i]].path
    BY <1>5
  <2> HIDE DEF Message
  <2> QED BY <1>0, <1>3, <1>6, <2>1, EachTells, Zenon
<1>8. \A p : Clear(msgs, Freeing(p))  BY <1>5, <1>7 DEF Clear, Freeing
<1>9. loose \subseteq loose' /\ (~OnSocket => \A m \in ok : mount[m].path \in loose')
  <2>1. \A i \in 1 .. Len(msgs) : msgs[i].kind # "mount"  BY <1>5, <1>7
  <2>2. loose \subseteq loose' /\ (~OnSocket => \A i \in 1 .. Len(msgs) : msgs[i].path \in loose')
    BY <1>0, <1>1, <1>7, <2>1, SendGoes
  <2> QED BY <1>5, <1>7, <2>2
<1>10. ASSUME NEW s \in bound' \ missed', transport = "ws", link # "down"
       PROVE  \/ OnSocket /\ Ends(msgs, Freeing(PathOf(s)), Joins(s))
              \/ s \in bound \ missed /\ Clear(msgs, Freeing(PathOf(s)))
  <2>1. CASE s \in ok
    <3>1. OnSocket
      <4>1. s \notin Missing(s)  BY <1>1, <1>10, <2>1
      <4>2. link # "opening"  BY <1>10, <4>1 DEF Missing
      <4> QED BY <1>0, <1>10, <4>2 DEF Wires, OnSocket
    <3>2. PICK i \in 1 .. Len(msgs) : InOrder(ok)[i] = s  BY <1>7, <2>1
    <3>3. msgs[i] \in Joins(s)  BY <1>5, <1>7, <3>1, <3>2
    <3>4. \A j \in i + 1 .. Len(msgs) : msgs[j] \notin Freeing(PathOf(s))
      <4>1. Len(msgs) \in Nat  BY <1>7, LenProperties
      <4>2. \A j \in i + 1 .. Len(msgs) : j \in 1 .. Len(msgs)  BY <4>1
      <4> QED BY <1>8, <4>2 DEF Clear
    <3> QED BY <3>1, <3>3, <3>4 DEF Ends
  <2>2. CASE s \notin ok  BY <1>1, <1>8, <2>2
  <2> QED BY <2>1, <2>2
<1>11. ASSUME NEW p \in DOMAIN told' \ Exempt'
       PROVE  \/ OnSocket /\ Ends(msgs, Telling(p), Tellings(p, told'[p]))
              \/ /\ p \in DOMAIN told \ Exempt /\ told'[p] = told[p]
                 /\ Clear(msgs, Telling(p))
  <2>1. CASE of(p) = {}
    <3>1. \A m \in ok : mount[m].path # p  BY <2>1 DEF of
    <3>2. p \in DOMAIN told /\ told'[p] = told[p]  BY <1>1, <2>1, <3>1 DEF Noted, of
    <3>3. p \notin Exempt
      <4>1. \A m \in Pages : m \in Pages' /\ mount'[m].path = mount[m].path
        BY DEF Same, Pages, Owned
      <4>2. \A c \in Answered : \A m \in c.ok : mount'[m].path = mount[m].path
        BY OkIssued DEF Same
      <4>3. \A c \in Answered : c = b \/ c \in Answered'  BY <1>2
      <4> QED BY <1>9, <3>1, <4>1, <4>2, <4>3 DEF Exempt, ok
    <3> QED BY <1>7, <3>1, <3>2, <3>3
  <2>2. CASE of(p) # {}
    <3> DEFINE top == Max(of(p))
               pr == mount[top].props
    <3>1. told'[p] = pr
      <4>1. p \in DOMAIN Noted(told, ok)  BY <1>1
      <4>2. Noted(told, ok)[p] = pr  BY <2>2, <4>1 DEF Noted, of
      <4> QED BY <1>1, <4>2
    <3>2. OnSocket
      <4>1. PICK m \in ok : mount[m].path = p  BY <2>2 DEF of
      <4> QED BY <1>9, <4>1 DEF Exempt
    <3>3. top \in of(p)
      <4>1. of(p) \in SUBSET (ok \cap Issued)  BY <1>3 DEF of
      <4> QED BY <1>0, <2>2, <4>1, InOrderEnds
    <3>4. mount[top].path = p  BY <3>3 DEF of
    <3> DEFINE gs == Tellings(p, told'[p])
    <3>5. \A i \in 1 .. Len(msgs) : InOrder(ok)[i] = top => msgs[i] \in gs
      <4> HIDE DEF top
      <4> QED BY <1>5, <1>7, <3>1, <3>2, <3>4
    <3> HIDE DEF gs
    <3>6. Ends(msgs, Telling(p), gs)  BY <1>7, <2>2, <3>5 DEF of
    <3> QED BY <3>2, <3>6 DEF gs
  <2> QED BY <2>1, <2>2
<1>12. \A s \in bound' : s \in bound \/ \E c \in Answered : s \in c.ok  BY <1>1, <1>2 DEF ok
<1> QED BY <1>1, <1>2, <1>7, <1>10, <1>11, <1>12, SendKeeps

LEMMA SettlePageWires ==
    ASSUME SlotConstantsOK, IInv, WInv, Same, NEW b \in back, Receive(b), b.kind = "page"
    PROVE  WInv'
<1>0. Types /\ Wires /\ AskedOnce  BY DEF WInv, IInv
<1>1. PICK m \in b.ms : SettlePage(m, b.ok # {}) /\ back' = back \ {b}
                        /\ UNCHANGED <<transport, link, server>>
  BY DEF Receive
<1> DEFINE ok == b.ok # {}
           q == mount[m].path
<1>2. b \in Answered /\ Answered' = Answered \ {b}  BY <1>1 DEF Answered
<1>3. b.ms = {m} /\ m \in Pages /\ b.ok \subseteq {m} /\ m \in Issued
  <2>1. b \in Asking  BY <1>2 DEF Asking
  <2>2. b.ms \cap Pages # {} /\ b.ok \subseteq b.ms
        /\ ((\E n \in Pages : b.ms = {n}) \/ b.ms \cap Pages = {})
    BY <1>0, <1>2, <2>1 DEF AskedOnce
  <2> QED BY <2>2 DEF Pages, Owned
<1>4. /\ UNCHANGED <<told, built, joined, joining, heard>>
      /\ Overtaken(m, ok) \/ Denied(m, ok) \/ Swap(m, ok)
  BY <1>1 DEF SettlePage, server
<1>5. /\ q \in Exempt' /\ q \in Paths
      /\ loose \subseteq loose' => Exempt \subseteq Exempt'
  <2>1. \A n \in Pages : n \in Pages' /\ mount'[n].path = mount[n].path
    BY DEF Same, Pages, Owned
  <2>2. \A c \in Answered : \A n \in c.ok : mount'[n].path = mount[n].path
    BY OkIssued DEF Same
  <2>3. \A c \in Answered : c \in Answered' \/ \A n \in c.ok : n = m  BY <1>2, <1>3
  <2>4. q \in Exempt'  BY <1>3, <2>1 DEF Exempt
  <2>5. q \in Paths  BY <1>0, <1>3, MessagesAre
  <2> HIDE DEF q
  <2>6. ASSUME loose \subseteq loose', NEW p \in Exempt PROVE p \in Exempt'
    <3>1. CASE p \in loose  BY <2>6, <3>1 DEF Exempt
    <3>2. CASE \E n \in Pages : p = mount[n].path  BY <2>1, <3>2 DEF Exempt
    <3>3. CASE \E c \in Answered : \E n \in c.ok : p = mount[n].path
      <4>1. PICK c \in Answered : \E n \in c.ok : p = mount[n].path  BY <3>3
      <4>2. PICK n \in c.ok : p = mount[n].path  BY <4>1
      <4>3. CASE c \in Answered'  BY <2>2, <4>2, <4>3 DEF Exempt
      <4>4. CASE n = m  BY <2>4, <4>2, <4>4 DEF q
      <4> QED BY <2>3, <4>3, <4>4
    <3> QED BY <3>1, <3>2, <3>3 DEF Exempt
  <2> QED BY <2>4, <2>5, <2>6
<1> HIDE DEF ok
<1>6. CASE Overtaken(m, ok)
  <2> DEFINE x == ReleaseMsg(q)
             msgs == IF ok /\ StoresOf(q) = {} THEN <<x>> ELSE <<>>
  <2>1. Send(msgs) /\ bound' = bound /\ missed' = missed  BY <1>6 DEF Overtaken
  <2>2. x \in Freeing(q)  BY <1>0, <1>5, MessagesAre
  <2>3. x \in Message /\ x.path = q /\ x.kind = "release"  BY <2>2 DEF Freeing
  <2> HIDE DEF x
  <2>4. msgs \in Seq(Message)  BY <2>3
  <2>5. \A p : Clear(msgs, Telling(p))
    <3>1. \A p : x \notin Telling(p)  BY <2>3 DEF Telling
    <3> QED BY <2>3, <3>1, ClearOne, ClearNone
  <2>6. ASSUME NEW s \in bound PROVE Clear(msgs, Freeing(PathOf(s)))
    <3>1. CASE msgs = <<>>  BY <3>1, ClearNone
    <3>2. CASE StoresOf(q) = {}
      <4>1. PathOf(s) # q  BY <3>2 DEF StoresOf
      <4>2. x \notin Freeing(PathOf(s))  BY <2>3, <4>1 DEF Freeing
      <4>3. Clear(<<x>>, Freeing(PathOf(s)))  BY <2>3, <4>2, ClearOne
      <4> QED BY <4>3, ClearNone
    <3> QED BY <3>1, <3>2
  <2> HIDE DEF msgs
  <2>7. loose \subseteq loose'  BY <1>0, <2>1, <2>4, SendGoes
  <2> QED BY <1>1, <1>2, <1>4, <1>5, <2>1, <2>4, <2>5, <2>6, <2>7, SendKeeps
<1>7. CASE Denied(m, ok)
  <2>1. UNCHANGED <<bound, missed, frames, posts, loose>>  BY <1>7 DEF Denied, sent
  <2> QED BY <1>1, <1>2, <1>4, <1>5, <2>1, QuietKeeps
<1>8. CASE Swap(m, ok)
  <2> DEFINE gone == IF PathOf(primary) = mount[m].path THEN {} ELSE {primary}
             free == {p \in {PathOf(s) : s \in gone} : StoresOf(p) \ gone = {}}
             x == JoinMsg(m)
             msgs == <<x>> \o Releases(free)
  <2>1. /\ Send(msgs) /\ bound' = (bound \cup {m}) \ gone /\ missed' = missed \cup Missing(m)
    BY <1>8 DEF Swap
  <2>2. free \subseteq Paths /\ IsFiniteSet(free) /\ q \notin free
    <3>1. free \in SUBSET {PathOf(primary)}  OBVIOUS
    <3>2. IsFiniteSet({PathOf(primary)})  BY FS_Singleton
    <3>3. PathOf(primary) \in Paths
      <4>1. primary \in {0} \cup Issued  BY <1>0 DEF Types, Pages, Owned
      <4> QED BY <1>0, <4>1, MessagesAre DEF PathOf, SlotConstantsOK
    <3>4. q \notin free  OBVIOUS
    <3> HIDE DEF free
    <3>5. IsFiniteSet(free)  BY <3>1, <3>2, FS_Subset
    <3> QED BY <3>1, <3>3, <3>4, <3>5
  <2>3. \A s \in bound' : s = m \/ (s \in bound /\ PathOf(s) \notin free)
    BY <2>1 DEF StoresOf
  <2> HIDE DEF free, gone
  <2>4. /\ x \in Message /\ x.path = q /\ x.kind \in {"frame", "resync"}
        /\ OnSocket => x \in Joins(m) \cap Tellings(q, mount[m].props)
    BY <1>0, <1>3, MessagesAre
  <2> HIDE DEF x, q
  <2>5. /\ Releases(free) \in Seq(Message)
        /\ \A p : Clear(Releases(free), Telling(p))
        /\ \A p : p \notin free => Clear(Releases(free), Freeing(p))
    BY <1>0, <2>2, ReleasesAre
  <2> DEFINE rs == Releases(free)
  <2> HIDE DEF rs
  <2>6. rs \in Seq(Message) /\ <<x>> \in Seq(Message)  BY <2>4, <2>5 DEF rs
  <2>7. msgs \in Seq(Message) /\ msgs = <<x>> \o rs
    <3>1. msgs = <<x>> \o rs  BY DEF rs
    <3> HIDE DEF msgs
    <3> QED BY <2>6, <3>1, ConcatProperties
  <2>8. PathOf(m) = q
    <3>1. m # 0  BY <1>0, <1>3, MountIs
    <3> QED BY <3>1 DEF PathOf, q
  <2> HIDE DEF msgs
  <2>9. ASSUME NEW s \in bound' \ missed', transport = "ws", link # "down"
        PROVE  \/ OnSocket /\ Ends(msgs, Freeing(PathOf(s)), Joins(s))
               \/ s \in bound \ missed /\ Clear(msgs, Freeing(PathOf(s)))
    <3>1. CASE s = m
      <4>1. OnSocket
        <5>1. s \notin Missing(s)  BY <2>1, <2>9, <3>1
        <5>2. link # "opening"  BY <2>9, <5>1 DEF Missing
        <5> QED BY <1>0, <2>9, <5>2 DEF Wires, OnSocket
      <4> DEFINE es == Freeing(q)
                 gs == Joins(m)
      <4>2. x \in gs /\ Clear(rs, es)  BY <2>2, <2>4, <2>5, <4>1 DEF rs
      <4> HIDE DEF es, gs
      <4>3. Ends(<<x>>, es, gs)  BY <2>4, <4>2, EndsOne
      <4>4. Ends(msgs, es, gs)  BY <2>6, <2>7, <4>2, <4>3, EndsMore
      <4> QED BY <2>8, <3>1, <4>1, <4>4 DEF es, gs
    <3>2. CASE s # m
      <4>1. s \in bound \ missed /\ PathOf(s) \notin free  BY <2>1, <2>3, <3>2
      <4> DEFINE es == Freeing(PathOf(s))
      <4>2. x \notin es /\ Clear(rs, es)  BY <2>4, <2>5, <4>1 DEF Freeing, rs
      <4> HIDE DEF es
      <4>3. Clear(<<x>>, es)  BY <2>4, <4>2, ClearOne
      <4>4. Clear(msgs, es)  BY <2>6, <2>7, <4>2, <4>3, ClearMore
      <4> QED BY <4>1, <4>4 DEF es
    <3> QED BY <3>1, <3>2
  <2>10. loose \subseteq loose'  BY <1>0, <2>1, <2>7, SendGoes
  <2>11. ASSUME NEW p \in DOMAIN told' \ Exempt'
         PROVE  p \in DOMAIN told \ Exempt /\ told'[p] = told[p] /\ Clear(msgs, Telling(p))
    <3> DEFINE es == Telling(p)
    <3>1. p # q  BY <1>5 DEF q
    <3>2. x \notin es /\ Clear(rs, es)  BY <2>4, <2>5, <3>1 DEF Telling, rs
    <3> HIDE DEF es
    <3>3. Clear(<<x>>, es)  BY <2>4, <3>2, ClearOne
    <3>4. Clear(msgs, es)  BY <2>6, <2>7, <3>2, <3>3, ClearMore
    <3> QED BY <1>4, <1>5, <2>10, <3>4 DEF es
  <2>12. \A s \in bound' : s \in bound \/ \E c \in Answered : s \in c.ok
    <3>1. m \in b.ok
      <4>1. ok  BY <1>8 DEF Swap
      <4> QED BY <1>3, <4>1 DEF ok
    <3> QED BY <1>2, <2>3, <3>1
  <2> QED BY <1>1, <1>2, <1>4, <2>1, <2>7, <2>9, <2>11, <2>12, SendKeeps
<1> QED BY <1>4, <1>6, <1>7, <1>8

LEMMA FlushWires ==
    ASSUME SlotConstantsOK, IInv, WInv, Same, FlushSlots
    PROVE  WInv'
<1> DEFINE gone == {mount[r].store : r \in Range(releases) \ Cancelled}
           freed == Freed(gone)
           asked == Queued \ Rebound
           urls == RebindUrls
           rs == Releases(freed)
           ask == IF asked = {} THEN <<>> ELSE <<MountPost(asked)>>
           two == urls \o rs
           msgs == two \o ask
           of(p) == {m \in Stale : mount[m].path = p}
<1>0. Types /\ Wires /\ Released /\ Owners  BY DEF WInv, IInv
<1>1. /\ bound' = bound \ gone /\ told' = Drop(ToldAfter(Stale), freed) /\ Send(msgs)
      /\ UNCHANGED <<transport, link, back, built, joined, joining, heard, missed>>
  BY DEF FlushSlots, server
<1>2. Stale \in SUBSET Issued /\ asked \in SUBSET Issued
  BY DEF Stale, Rebound, Queued, InStage
<1>3. /\ \A i \in 1 .. Len(InOrder(Stale)) :
             LET m == InOrder(Stale)[i] IN
             urls[i] \in Tellings(mount[m].path, mount[m].props) /\ urls[i].kind = "url"
      /\ urls = [i \in 1 .. Len(InOrder(Stale)) |-> urls[i]]
  <2>1. InOrder(Stale) \in Seq(Nat) /\ Range(InOrder(Stale)) = Stale  BY <1>0, <1>2, InOrderIs
  <2>2. DOMAIN InOrder(Stale) = 1 .. Len(InOrder(Stale))  BY <2>1, LenProperties
  <2>3. \A i \in 1 .. Len(InOrder(Stale)) : InOrder(Stale)[i] \in Stale
    BY <2>1, <2>2 DEF Range
  <2>4. \A m \in Stale : mount[m].path \in Paths /\ mount[m].props \in Props
    <3>1. \A m \in Stale : mount[m] \in Mounted  BY <1>0, <1>2, MountIs
    <3> QED BY <3>1 DEF Mounted
  <2>5. urls = [i \in 1 .. Len(InOrder(Stale)) |->
                  Url(mount[InOrder(Stale)[i]].path, mount[InOrder(Stale)[i]].props)]
    BY DEF RebindUrls
  <2> HIDE DEF urls
  <2>6. \A m \in Stale :
          LET u == Url(mount[m].path, mount[m].props) IN
          u \in Tellings(mount[m].path, mount[m].props) /\ u.kind = "url"
    BY <1>0, <2>4, MessagesAre
  <2> QED BY <2>3, <2>5, <2>6
<1>4. freed \in SUBSET Paths /\ IsFiniteSet(freed) /\ \A s \in bound \ gone : PathOf(s) \notin freed
  <2> DEFINE S == Range(releases) \ Cancelled
             f == [r \in S |-> mount[r].store]
             h == [s \in gone |-> PathOf(s)]
  <2>1. IsFiniteSet(Issued)  BY <1>0, MountIs, FS_Interval
  <2>2. S \in SUBSET Issued /\ S \subseteq Users  BY <1>0, UsersIn DEF Users
  <2>3. IsFiniteSet(S)  BY <2>1, <2>2, FS_Subset
  <2>4. gone = {f[r] : r \in S}  OBVIOUS
  <2>5. gone \subseteq Issued  BY <1>0, <2>2 DEF Owners
  <2> HIDE DEF gone, f, S
  <2>6. IsFiniteSet(gone)  BY <2>3, <2>4, FiniteImage
  <2>7. freed \in SUBSET {h[s] : s \in gone} /\ \A s \in bound \ gone : PathOf(s) \notin freed
    BY DEF Freed
  <2>8. \A s \in gone : h[s] \in Paths  BY <1>0, <2>5, MountIs, MessagesAre DEF PathOf
  <2> HIDE DEF h, freed
  <2>9. IsFiniteSet({h[s] : s \in gone})  BY <2>6, FiniteImage
  <2>10. IsFiniteSet(freed)  BY <2>7, <2>9, FS_Subset
  <2> QED BY <2>7, <2>8, <2>10
<1> HIDE DEF gone, freed, asked, urls, rs
<1>5. /\ urls \in Seq(Message) /\ Len(urls) = Len(InOrder(Stale))
      /\ \A i \in 1 .. Len(urls) : InOrder(Stale)[i] \in Stale
      /\ \A m \in Stale : \E i \in 1 .. Len(urls) : InOrder(Stale)[i] = m
      /\ \A p : (\A m \in Stale : mount[m].path # p) => Clear(urls, Telling(p))
      /\ \A p, gs :
             LET os == {m \in Stale : mount[m].path = p} IN
             os # {} /\ (\A i \in 1 .. Len(urls) : InOrder(Stale)[i] = Max(os) => urls[i] \in gs) =>
                 Max(os) \in os /\ Ends(urls, Telling(p), gs)
  <2>1. \A i \in 1 .. Len(InOrder(Stale)) :
            urls[i] \in Message /\ urls[i].path = mount[InOrder(Stale)[i]].path
    BY <1>3 DEF Tellings, Telling
  <2> HIDE DEF Message
  <2> QED BY <1>0, <1>2, <1>3, <2>1, EachTells, Zenon
<1>6. /\ rs \in Seq(Message)
      /\ \A p : Clear(rs, Telling(p))
      /\ \A p : p \notin freed => Clear(rs, Freeing(p))
  BY <1>0, <1>4, ReleasesAre DEF rs
<1>7. ask \in Seq(Message) /\ \A p : Clear(ask, Telling(p)) /\ Clear(ask, Freeing(p))
  <2> DEFINE x == MountPost(asked)
  <2>1. x \in Message /\ x.kind = "mount"  BY <1>0, <1>2, MessagesAre
  <2> HIDE DEF x
  <2>2. \A p : x \notin Freeing(p) /\ x \notin Telling(p)  BY <2>1 DEF Freeing, Telling
  <2>3. <<x>> \in Seq(Message) /\ \A p : Clear(<<x>>, Telling(p)) /\ Clear(<<x>>, Freeing(p))
    BY <2>1, <2>2, ClearOne
  <2>4. ask = <<>> \/ ask = <<x>>  BY DEF x
  <2> HIDE DEF ask
  <2>5. CASE ask = <<>>
    <3>1. <<>> \in Seq(Message)  OBVIOUS
    <3> QED BY <2>5, <3>1, ClearNone
  <2>6. CASE ask = <<x>>  BY <2>3, <2>6
  <2> QED BY <2>4, <2>5, <2>6
<1> HIDE DEF ask
<1>8. two \in Seq(Message) /\ msgs \in Seq(Message)
  <2>1. two \in Seq(Message)  BY <1>5, <1>6, ConcatProperties
  <2> HIDE DEF two
  <2> QED BY <1>7, <2>1, ConcatProperties
<1>9. /\ loose \subseteq loose'
      /\ ~OnSocket => \A m \in Stale : mount[m].path \in loose'
  <2>1. ASSUME ~OnSocket, NEW m \in Stale PROVE mount[m].path \in loose'
    <3>1. PICK i \in 1 .. Len(urls) : InOrder(Stale)[i] = m  BY <1>5
    <3>2. urls[i].kind = "url" /\ urls[i].path = mount[m].path
      BY <1>3, <1>5, <3>1 DEF Tellings, Telling
    <3>3. i \in 1 .. Len(msgs) /\ msgs[i] = urls[i]
      <4>1. /\ Len(urls) \in Nat /\ Len(rs) \in Nat /\ Len(two) = Len(urls) + Len(rs)
            /\ \A k \in 1 .. Len(urls) + Len(rs) :
                  two[k] = IF k <= Len(urls) THEN urls[k] ELSE rs[k - Len(urls)]
        BY <1>5, <1>6, ConcatProperties, LenProperties
      <4>2. i \in 1 .. Len(two) /\ two[i] = urls[i]  BY <4>1
      <4> HIDE DEF two
      <4>3. /\ Len(two) \in Nat /\ Len(ask) \in Nat /\ Len(msgs) = Len(two) + Len(ask)
            /\ \A k \in 1 .. Len(two) + Len(ask) :
                  msgs[k] = IF k <= Len(two) THEN two[k] ELSE ask[k - Len(two)]
        BY <1>7, <1>8, ConcatProperties, LenProperties
      <4>4. i \in 1 .. Len(msgs) /\ msgs[i] = two[i]  BY <4>2, <4>3
      <4> QED BY <4>2, <4>4
    <3> HIDE DEF msgs
    <3>4. \A k \in 1 .. Len(msgs) : msgs[k].kind # "mount" => msgs[k].path \in loose'
      BY <1>0, <1>1, <1>8, <2>1, SendGoes
    <3> QED BY <3>2, <3>3, <3>4
  <2> HIDE DEF msgs
  <2>2. loose \subseteq loose'  BY <1>0, <1>1, <1>8, SendGoes
  <2> QED BY <2>1, <2>2
<1>10. ASSUME NEW es, Clear(urls, es), Clear(rs, es), Clear(ask, es)
       PROVE  Clear(msgs, es)
  <2>1. Clear(two, es)  BY <1>5, <1>6, <1>10, ClearMore
  <2> HIDE DEF two
  <2> QED BY <1>7, <1>8, <1>10, <2>1, ClearMore
<1>11. ASSUME NEW es, NEW gs, Ends(urls, es, gs), Clear(rs, es), Clear(ask, es)
       PROVE  Ends(msgs, es, gs)
  <2>1. Ends(two, es, gs)  BY <1>5, <1>6, <1>11, EndsMore
  <2> HIDE DEF two
  <2> QED BY <1>7, <1>8, <1>11, <2>1, EndsMore
<1> HIDE DEF msgs, two
<1>12. Answered' = Answered  BY <1>1 DEF Answered
<1>13. Exempt \subseteq Exempt'  BY <1>9, <1>12, ExemptStays
<1>14. ASSUME NEW s \in bound' \ missed'
       PROVE  s \in bound \ missed /\ Clear(msgs, Freeing(PathOf(s)))
  <2>1. s \in bound \ missed /\ PathOf(s) \notin freed  BY <1>1, <1>4
  <2>2. Clear(urls, Freeing(PathOf(s)))
    BY <1>3, <1>5 DEF Clear, Freeing
  <2> QED BY <1>6, <1>7, <1>10, <2>1, <2>2
<1>15. ASSUME NEW p \in DOMAIN told' \ Exempt'
       PROVE  \/ OnSocket /\ Ends(msgs, Telling(p), Tellings(p, told'[p]))
              \/ /\ p \in DOMAIN told \ Exempt /\ told'[p] = told[p]
                 /\ Clear(msgs, Telling(p))
  <2>0. p \in DOMAIN Noted(told, Stale) /\ told'[p] = Noted(told, Stale)[p]
    BY <1>1 DEF Drop, ToldAfter
  <2>1. CASE of(p) = {}
    <3>1. \A m \in Stale : mount[m].path # p  BY <2>1
    <3>2. p \in DOMAIN told /\ told'[p] = told[p]  BY <2>0, <2>1, <3>1 DEF Noted
    <3>3. Clear(msgs, Telling(p))  BY <1>5, <1>6, <1>7, <1>10, <3>1
    <3> QED BY <1>13, <3>2, <3>3
  <2>2. CASE of(p) # {}
    <3> DEFINE top == Max(of(p))
               pr == mount[top].props
    <3>1. told'[p] = pr
      <4>1. Noted(told, Stale)[p] = pr  BY <2>0, <2>2 DEF Noted
      <4> QED BY <2>0, <4>1
    <3>2. OnSocket
      <4>1. PICK m \in Stale : mount[m].path = p  BY <2>2
      <4> QED BY <1>9, <4>1 DEF Exempt
    <3>3. top \in of(p)
      <4>1. of(p) \in SUBSET (Stale \cap Issued)  BY <1>2
      <4> HIDE DEF of
      <4> QED BY <1>0, <2>2, <4>1, InOrderEnds
    <3>4. mount[top].path = p  BY <3>3
    <3> DEFINE gs == Tellings(p, told'[p])
    <3>5. \A i \in 1 .. Len(urls) : InOrder(Stale)[i] = top => urls[i] \in gs
      <4> HIDE DEF top
      <4> QED BY <1>3, <1>5, <3>1, <3>4
    <3> HIDE DEF gs
    <3>6. Ends(urls, Telling(p), gs)  BY <1>5, <2>2, <3>5
    <3> HIDE DEF of
    <3>7. Ends(msgs, Telling(p), gs)  BY <1>6, <1>7, <1>11, <3>6
    <3> QED BY <3>2, <3>7 DEF gs
  <2> QED BY <2>1, <2>2
<1> QED BY <1>1, <1>8, <1>12, <1>14, <1>15, SendKeeps

-----------------------------------------------------------------------------
(* The steps of the server and of the stream *)

(* A step that leaves the page and the socket alone.                       *)
LEMMA ServerKeeps ==
    ASSUME IInv, WInv, UNCHANGED <<transport, mount, bound, told, link, frames, loose>>,
           DOMAIN posts' \subseteq DOMAIN posts, missed \subseteq missed',
           AllBuilt', Exempt \subseteq Exempt',
           transport = "ws" => \A s \in bound \ missed' :
               PathOf(s) \in joined \/ s \in joining => PathOf(s) \in joined' \/ s \in joining',
           transport = "ws" => \A p \in DOMAIN told \ Exempt' :
               p \in DOMAIN heard => p \in DOMAIN heard' /\ heard'[p] = heard[p]
    PROVE  WInv'
<1>0. Types /\ Wires /\ WillBeJoined /\ WillBeTold  BY DEF WInv, IInv
<1>1. Wires'
  <2>1. OnSocket' = OnSocket  BY DEF OnSocket
  <2> QED BY <1>0, <2>1 DEF Wires
<1>2. WillBeJoined'
  <2> SUFFICES ASSUME transport = "ws", link # "down", NEW s \in bound \ missed'
               PROVE  Covered(s)'
    BY DEF WillBeJoined
  <2>1. PathOf(s)' = PathOf(s)  BY DEF PathOf
  <2>2. Covered(s)  BY <1>0 DEF WillBeJoined
  <2> QED BY <2>1, <2>2 DEF Covered, Freeing, Joins
<1>3. WillBeTold'
  <2> SUFFICES ASSUME transport = "ws", NEW p \in DOMAIN told \ Exempt'
               PROVE  Fits(p)'
    BY DEF WillBeTold
  <2>1. Fits(p)  BY <1>0 DEF WillBeTold
  <2> QED BY <2>1 DEF Fits, Telling, Tellings
<1> QED BY <1>1, <1>2, <1>3 DEF WInv

(* What becomes of a message that asks for no mount.                       *)
LEMMA ServeIs ==
    ASSUME NEW x, NEW socket, Serve(x, socket), x.kind # "mount"
    PROVE  /\ Answered' = Answered /\ built' = built
           /\ joining' = IF x.kind = "frame" THEN joining \cup x.ms ELSE joining
           /\ \/ joined' = joined
              \/ x.kind = "release" /\ joined' = joined \ {x.path} /\ (socket \/ transport = "sse")
           /\ \/ x.kind = "release" /\ heard' = heard
              \/ /\ x.kind \in {"frame", "url"}
                 /\ heard' = Put(heard, x.path, CHOOSE pr \in x.props : TRUE)
<1>1. Answered' = Answered  BY ServeOther
<1>2. CASE x.kind = "frame"  BY <1>1, <1>2 DEF Serve
<1>3. CASE x.kind = "release"  BY <1>1, <1>3 DEF Serve, ServeRelease
<1>4. CASE x.kind = "url"  BY <1>1, <1>4 DEF Serve, ServeUrl
<1> QED BY <1>2, <1>3, <1>4 DEF Serve

(* The server takes the next message of the socket.                        *)
LEMMA FrameWires ==
    ASSUME IInv, WInv, frames # <<>>, Serve(Head(frames), TRUE), frames' = Tail(frames),
           UNCHANGED <<transport, mount, bound, told, link, posts, loose, missed>>
    PROVE  WInv'
<1> DEFINE x == Head(frames)
           rest == Tail(frames)
           socket == TRUE
<1>0. Types /\ Wires /\ AllBuilt /\ WillBeJoined /\ WillBeTold  BY DEF WInv, IInv
<1>1. x \in Message /\ x.kind # "mount" /\ rest \in Seq(Message) /\ frames \in Seq(Message)
  <2>1. frames \in Seq(Message) /\ x.kind # "mount"  BY <1>0, TellsRest DEF Wires
  <2> HIDE DEF Message
  <2> QED BY <2>1, HeadTailProperties
<1>2. Serve(x, socket)  OBVIOUS
<1> HIDE DEF socket
<1> DEFINE r == rest
<1>3. ASSUME NEW es, Clear(frames, es) PROVE x \notin es /\ Clear(r, es)
  <2> HIDE DEF Message
  <2> QED BY <1>1, <1>3, ClearRest
<1>4. ASSUME NEW es, NEW gs, Ends(frames, es, gs)
      PROVE  Ends(r, es, gs) \/ (x \in gs /\ Clear(r, es))
  <2> HIDE DEF Message
  <2> QED BY <1>1, <1>4, EndsRest
<1>5. frames' = r /\ r \in Seq(Message)  BY <1>1
<1> HIDE DEF x, rest, r
<1>6. /\ Answered' = Answered /\ built' = built
      /\ joining' = IF x.kind = "frame" THEN joining \cup x.ms ELSE joining
      /\ \/ joined' = joined
         \/ x.kind = "release" /\ joined' = joined \ {x.path}
      /\ \/ x.kind = "release" /\ heard' = heard
         \/ /\ x.kind \in {"frame", "url"}
            /\ heard' = Put(heard, x.path, CHOOSE pr \in x.props : TRUE)
  BY <1>1, <1>2, ServeIs
<1>7. Same /\ \A s : PathOf(s)' = PathOf(s)  BY DEF Same, Issued, PathOf
<1>8. Wires'
  <2>1. OnSocket' = OnSocket  BY DEF OnSocket
  <2> QED BY <1>0, <1>5, <2>1 DEF Wires
<1>9. AllBuilt'  BY <1>0, <1>6, <1>7, BuiltKept
<1>10. WillBeJoined'
  <2> SUFFICES ASSUME transport = "ws", link # "down", NEW s \in bound \ missed
               PROVE  Covered(s)'
    BY DEF WillBeJoined
  <2> DEFINE p == PathOf(s)
             es == Freeing(p)
             gs == Joins(s)
  <2>1. SUFFICES Ends(r, es, gs) \/ (Clear(r, es) /\ (p \in joined' \/ s \in joining'))
    BY <1>5, <1>7 DEF Covered, Freeing, Joins
  <2>2. Ends(frames, es, gs) \/ (Clear(frames, es) /\ (p \in joined \/ s \in joining))
    BY <1>0 DEF WillBeJoined, Covered
  <2>3. CASE Ends(frames, es, gs)
    <3>1. Ends(r, es, gs) \/ (x \in gs /\ Clear(r, es))
      <4> HIDE DEF es, gs
      <4> QED BY <1>4, <2>3
    <3>2. x \in gs => s \in joining'  BY <1>6 DEF Joins
    <3> QED BY <3>1, <3>2
  <2>4. CASE Clear(frames, es) /\ (p \in joined \/ s \in joining)
    <3>1. x \notin es /\ Clear(r, es)
      <4> HIDE DEF es
      <4> QED BY <1>3, <2>4
    <3>2. x.kind = "release" => x.path # p  BY <1>1, <3>1 DEF Freeing
    <3>3. p \in joined' \/ s \in joining'
      <4> HIDE DEF p
      <4> QED BY <1>6, <2>4, <3>2
    <3> QED BY <3>1, <3>3
  <2> QED BY <2>2, <2>3, <2>4
<1>11. Exempt \subseteq Exempt'
  <2>1. loose \subseteq loose' /\ Answered \subseteq Answered'  BY <1>6
  <2> QED BY <1>7, <2>1, ExemptStays
<1>12. WillBeTold'
  <2> SUFFICES ASSUME transport = "ws", NEW p \in DOMAIN told \ Exempt
               PROVE  Fits(p)'
    BY <1>11 DEF WillBeTold
  <2> DEFINE es == Telling(p)
             gs == Tellings(p, told[p])
  <2>1. SUFFICES Ends(r, es, gs) \/ (Clear(r, es) /\ p \in DOMAIN heard' /\ heard'[p] = told[p])
    BY <1>5 DEF Fits, Telling, Tellings
  <2>2. Ends(frames, es, gs) \/ (Clear(frames, es) /\ p \in DOMAIN heard /\ heard[p] = told[p])
    BY <1>0 DEF WillBeTold, Fits
  <2>3. CASE Ends(frames, es, gs)
    <3>1. Ends(r, es, gs) \/ (x \in gs /\ Clear(r, es))
      <4> HIDE DEF es, gs
      <4> QED BY <1>4, <2>3
    <3>2. ASSUME x \in gs PROVE p \in DOMAIN heard' /\ heard'[p] = told[p]
      <4>1. x.kind \in {"frame", "url"} /\ x.path = p /\ x.props = {told[p]}
        BY <3>2 DEF Tellings, Telling
      <4>2. heard' = Put(heard, p, told[p])  BY <1>6, <4>1
      <4> QED BY <4>2 DEF Put
    <3> QED BY <3>1, <3>2
  <2>4. CASE Clear(frames, es) /\ p \in DOMAIN heard /\ heard[p] = told[p]
    <3>1. x \notin es /\ Clear(r, es)
      <4> HIDE DEF es
      <4> QED BY <1>3, <2>4
    <3>2. x.kind \in {"frame", "url"} => x.path # p  BY <1>1, <3>1 DEF Telling
    <3>3. p \in DOMAIN heard' /\ heard'[p] = told[p]  BY <1>6, <2>4, <3>2 DEF Put
    <3> QED BY <3>1, <3>3
  <2> QED BY <2>2, <2>3, <2>4
<1> QED BY <1>8, <1>9, <1>10, <1>12 DEF WInv

(* The server takes a request.                                             *)
LEMMA PostWires ==
    ASSUME IInv, WInv, NEW x \in DOMAIN posts, Serve(x, FALSE), posts' = OneLess(posts, x),
           UNCHANGED <<transport, mount, bound, told, link, frames, loose, missed>>
    PROVE  WInv'
<1> DEFINE socket == FALSE
<1>0. Types /\ Wires /\ AllBuilt /\ AskedOnce  BY DEF WInv, IInv
<1>1. Serve(x, socket) /\ ~socket  OBVIOUS
<1> HIDE DEF socket
<1>2. DOMAIN posts' \subseteq DOMAIN posts  BY DEF OneLess
<1>3. Same /\ \A s : PathOf(s)' = PathOf(s)  BY DEF Same, Issued, PathOf
<1>4. CASE x.kind # "mount"
  <2>1. /\ Answered' = Answered /\ built' = built
        /\ joining' = IF x.kind = "frame" THEN joining \cup x.ms ELSE joining
        /\ joined' = joined \/ transport = "sse"
        /\ heard' = heard \/ heard' = Put(heard, x.path, CHOOSE pr \in x.props : TRUE)
    BY <1>1, <1>4, ServeIs
  <2>2. Exempt \subseteq Exempt'
    <3>1. loose \subseteq loose' /\ Answered \subseteq Answered'  BY <2>1
    <3> QED BY <1>3, <3>1, ExemptStays
  <2>3. AllBuilt'  BY <1>0, <1>3, <2>1, BuiltKept
  <2>4. x.path \in Exempt'  BY <1>0, <1>4, <2>2 DEF Wires, Exempt
  <2>5. \A p \in DOMAIN told \ Exempt' :
           p \in DOMAIN heard => p \in DOMAIN heard' /\ heard'[p] = heard[p]
    BY <2>1, <2>4 DEF Put
  <2>6. transport = "ws" => joined' = joined  BY <2>1
  <2> QED BY <1>2, <2>1, <2>2, <2>3, <2>5, <2>6, ServerKeeps
<1>5. CASE x.kind = "mount"
  <2>1. PICK ok \in SUBSET x.ms : ServeMount(ok) /\ back' = back \cup {MountAnswer(x.ms, ok)}
                                  /\ joining' = joining
    BY <1>1, <1>5 DEF Serve
  <2>2. /\ built' = built \cup {mount[m].path : m \in ok} /\ heard' = Noted(heard, ok)
        /\ joined \subseteq joined'
    BY <2>1 DEF ServeMount
  <2> DEFINE ans == MountAnswer(x.ms, ok)
  <2>3. ans.kind # "deny" /\ ans.ok = ok  BY DEF MountAnswer
  <2> HIDE DEF ans
  <2>4. Answered' = Answered \cup {ans}  BY <2>1, <2>3 DEF Answered, ans
  <2>5. Exempt \subseteq Exempt'
    <3>1. loose \subseteq loose' /\ Answered \subseteq Answered'  BY <2>4
    <3> QED BY <1>3, <3>1, ExemptStays
  <2>6. AllBuilt'
    <3>1. \A s \in bound' : PathOf(s)' \in built'  BY <1>0, <1>3, <2>2 DEF AllBuilt
    <3>2. \A b \in Answered' : b = ans \/ b \in Answered  BY <2>4
    <3>3. \A b \in Answered' : \A m \in b.ok : mount'[m].path \in built'
      BY <1>0, <2>2, <2>3, <3>2 DEF AllBuilt
    <3> QED BY <3>1, <3>3 DEF AllBuilt
  <2>7. \A m \in ok : mount[m].path \in Exempt'
    <3>1. ans \in Answered' /\ ans.ok = ok  BY <2>3, <2>4
    <3> QED BY <3>1 DEF Exempt
  <2>8. \A p \in DOMAIN told \ Exempt' :
           p \in DOMAIN heard => p \in DOMAIN heard' /\ heard'[p] = heard[p]
    <3> SUFFICES ASSUME NEW p \in DOMAIN told \ Exempt', p \in DOMAIN heard
                 PROVE  p \in DOMAIN heard' /\ heard'[p] = heard[p]
      OBVIOUS
    <3>1. \A m \in ok : mount[m].path # p  BY <2>7
    <3>2. {m \in ok : mount[m].path = p} = {}  BY <3>1
    <3> QED BY <2>2, <3>2 DEF Noted
  <2> QED BY <1>2, <2>1, <2>2, <2>5, <2>6, <2>8, ServerKeeps
<1> QED BY <1>4, <1>5

LEMMA StreamWires ==
    ASSUME IInv, WInv, (\E m \in Issued : JoinFrame(m)) \/ Connect \/ Break
    PROVE  WInv'
<1>0. Types /\ Wires /\ AllBuilt /\ WillBeJoined /\ WillBeTold  BY DEF WInv, IInv
<1>1. /\ UNCHANGED <<transport, mount, bound, told, heard, built, posts>>
      /\ Same /\ \A s : PathOf(s)' = PathOf(s)
  <2>1. UNCHANGED <<transport, mount, bound, told, heard, built, posts>>
    BY DEF JoinFrame, Connect, Break, table, wire, sent
  <2> QED BY <2>1 DEF Same, Issued, PathOf
<1>2. Answered' = Answered /\ loose \subseteq loose'
  BY DEF JoinFrame, Connect, Break, wire, sent, Answered
<1>3. Exempt \subseteq Exempt'  BY <1>1, <1>2, ExemptStays
<1>4. AllBuilt'  BY <1>0, <1>1, <1>2, BuiltKept
<1>5. ASSUME NEW m \in Issued, JoinFrame(m) PROVE WInv'
  <2>1. /\ joining' = joining \ {m} /\ UNCHANGED <<link, frames, loose>>
        /\ \/ joined' = joined \cup {mount[m].path} /\ missed' = missed
           \/ joined' = joined /\ missed' = missed \cup {m}
    BY <1>5 DEF JoinFrame, wire
  <2>2. m # 0 /\ PathOf(m) = mount[m].path
    <3>1. m # 0  BY <1>0, MountIs
    <3> QED BY <3>1 DEF PathOf
  <2>3. \A s \in bound \ missed' :
           PathOf(s) \in joined \/ s \in joining => PathOf(s) \in joined' \/ s \in joining'
    BY <2>1, <2>2
  <2>4. DOMAIN posts' \subseteq DOMAIN posts /\ missed \subseteq missed'  BY <1>1, <2>1
  <2> QED BY <1>1, <1>3, <1>4, <2>1, <2>3, <2>4, ServerKeeps
<1>6. ASSUME Connect PROVE WInv'
  <2>1. link = "down" /\ link' = "opening" /\ joined' = built /\ frames' = frames /\ loose' = loose
    BY <1>6 DEF Connect, sent
  <2>2. frames = <<>>  BY <1>0, <2>1 DEF Wires, OnSocket
  <2>3. Wires'  BY <1>0, <1>1, <2>1, <2>2 DEF Wires
  <2>4. WillBeJoined'
    <3>1. \A s \in bound' \ missed' : PathOf(s)' \in joined'  BY <1>0, <1>1, <2>1 DEF AllBuilt
    <3>2. \A es : Clear(frames', es)  BY <2>1, <2>2, ClearNone
    <3> QED BY <3>1, <3>2 DEF WillBeJoined, Covered
  <2>5. WillBeTold'
    <3> SUFFICES ASSUME transport = "ws", NEW p \in DOMAIN told \ Exempt
                 PROVE  Fits(p)'
      BY <1>1, <1>3 DEF WillBeTold
    <3>1. Fits(p)  BY <1>0 DEF WillBeTold
    <3> QED BY <1>1, <2>1, <3>1 DEF Fits, Telling, Tellings
  <2> QED BY <1>4, <2>3, <2>4, <2>5 DEF WInv
<1>7. ASSUME Break PROVE WInv'
  <2>1. link' = "down" /\ frames' = <<>> /\ loose' = loose \cup {x.path : x \in Range(frames)}
    BY <1>7 DEF Break
  <2>2. Wires'
    <3>1. <<>> \in Seq(Message)  OBVIOUS
    <3>2. \A x \in DOMAIN posts' : x.kind = "mount" \/ x.path \in loose'
      BY <1>0, <1>1, <2>1 DEF Wires
    <3> HIDE DEF Message
    <3> QED BY <2>1, <3>1, <3>2 DEF Wires
  <2>3. WillBeJoined'  BY <2>1 DEF WillBeJoined
  <2>4. WillBeTold'
    <3> SUFFICES ASSUME transport = "ws", NEW p \in DOMAIN told \ Exempt, p \notin loose'
                 PROVE  Fits(p)'
      BY <1>1, <1>3 DEF WillBeTold, Exempt
    <3>1. Fits(p)  BY <1>0 DEF WillBeTold
    <3>2. \A i \in 1 .. Len(frames) : frames[i].path # p
      <4>1. frames \in Seq(Message)  BY <1>0 DEF Wires
      <4>2. DOMAIN frames = 1 .. Len(frames)  BY <4>1, LenProperties
      <4>3. \A i \in 1 .. Len(frames) : frames[i] \in Range(frames)  BY <4>2 DEF Range
      <4> QED BY <2>1, <4>3
    <3>3. ~Ends(frames, Telling(p), Tellings(p, told[p]))
      BY <3>2 DEF Ends, Tellings, Telling
    <3>4. p \in DOMAIN heard /\ heard[p] = told[p]  BY <3>1, <3>3 DEF Fits
    <3>5. Clear(frames', Telling(p))  BY <2>1, ClearNone
    <3> QED BY <1>1, <3>4, <3>5 DEF Fits, Telling
  <2> QED BY <1>4, <2>2, <2>3, <2>4 DEF WInv
<1> QED BY <1>5, <1>6, <1>7

LEMMA WiresStart == ASSUME SlotConstantsOK, SlotInit PROVE WInv
<1>1. /\ mount = <<>> /\ bound = {0} /\ told = <<>> /\ link = "down" /\ frames = <<>>
      /\ posts = EmptyBag /\ back = {} /\ built = {Home}
  BY DEF SlotInit
<1>2. DOMAIN posts = {} /\ DOMAIN told = {}
  <2>1. posts = [x \in {} |-> 1]  BY <1>1 DEF EmptyBag, SetToBag
  <2> QED BY <1>1, <2>1
<1>3. Wires
  <2>1. <<>> \in Seq(Message)  OBVIOUS
  <2> HIDE DEF Message
  <2> QED BY <1>1, <1>2, <2>1 DEF Wires
<1>4. AllBuilt  BY <1>1 DEF AllBuilt, PathOf, Answered
<1>5. WillBeJoined /\ WillBeTold  BY <1>1, <1>2 DEF WillBeJoined, WillBeTold
<1> QED BY <1>3, <1>4, <1>5 DEF WInv

LEMMA WiresKeep ==
    ASSUME SlotConstantsOK, IInv, WInv, [SlotNext]_slotVars
    PROVE  WInv'
<1>0. Same  BY StepSame
<1>1. ASSUME NEW b \in back, Receive(b) PROVE WInv'
  <2>1. CASE b.kind = "slots"  BY <1>0, <1>1, <2>1, SettleSlotsWires
  <2>2. CASE b.kind = "page"  BY <1>0, <1>1, <2>2, SettlePageWires
  <2>3. CASE b.kind = "deny"  BY <1>0, <1>1, <2>3, PageKeeps
  <2> QED BY <1>1, <2>1, <2>2, <2>3 DEF Receive
<1>2. ASSUME Arrive PROVE WInv'
  <2>1. UNCHANGED <<transport, mount, bound, told, link, loose, missed>>
    BY <1>2 DEF Arrive, table
  <2>2. CASE frames # <<>> /\ Serve(Head(frames), TRUE) /\ frames' = Tail(frames) /\ UNCHANGED posts
    BY <2>1, <2>2, FrameWires
  <2>3. CASE \E x \in BagToSet(posts) :
               Serve(x, FALSE) /\ posts' = OneLess(posts, x) /\ UNCHANGED frames
    <3>1. PICK x \in DOMAIN posts :
             Serve(x, FALSE) /\ posts' = OneLess(posts, x) /\ UNCHANGED frames
      BY <2>3 DEF BagToSet
    <3> QED BY <2>1, <3>1, PostWires
  <2> QED BY <1>2, <2>2, <2>3 DEF Arrive
<1>3. ASSUME NEW m \in Issued,
             Unmount(m) \/ Resume(m) \/ Loaded(m) \/ Commit(m) \/ JoinFrame(m)
               \/ \E pr \in Props : Patch(m, pr)
      PROVE  WInv'
  <2>1. CASE Unmount(m) \/ Resume(m) \/ Commit(m)  BY <1>0, <2>1, PageKeeps
  <2>2. CASE Loaded(m)  BY <1>0, <2>2, LoadedWires
  <2>3. CASE JoinFrame(m)  BY <2>3, StreamWires
  <2>4. CASE \E pr \in Props : Patch(m, pr)  BY <1>0, <2>4, PatchWires
  <2> QED BY <1>3, <2>1, <2>2, <2>3, <2>4
<1>4. CASE FlushSlots  BY <1>0, <1>4, FlushWires
<1>5. CASE \/ \E c \in Slots, p \in Paths, pr \in Props : MountSlot(c, p, pr)
           \/ \E p \in Paths : Navigate(p)
           \/ Opened \/ Abort \/ UNCHANGED slotVars
  BY <1>0, <1>5, PageKeeps
<1>6. CASE Connect \/ Break  BY <1>6, StreamWires
<1> QED BY <1>1, <1>2, <1>3, <1>4, <1>5, <1>6 DEF SlotNext

LEMMA WInvAlways == ASSUME SlotConstantsOK PROVE SlotSpec => []WInv
<1>1. SlotInit => WInv  BY WiresStart
<1>2. IInv /\ WInv /\ [SlotNext]_slotVars => WInv'  BY WiresKeep
<1>3. SlotSpec => []IInv  BY IInvAlways
<1> QED BY <1>1, <1>2, <1>3, PTL DEF SlotSpec

(* Over a socket every store the page keeps is on an instance the socket   *)
(* has joined once the wire is quiet, in whatever order the releases and   *)
(* the joins were sent (#flushRelease, #buildSlotHandle, remount): unless  *)
(* the store was bound while the socket was opening or its frame refused.  *)
THEOREM JoinedOnSocketsAlways ==
    ASSUME SlotConstantsOK PROVE SlotSpec => []JoinedOnSockets
<1>1. ASSUME WInv PROVE JoinedOnSockets
  <2> SUFFICES ASSUME transport = "ws", WireQuiet, NEW s \in bound \ missed
               PROVE  PathOf(s) \in joined
    BY DEF JoinedOnSockets
  <2>1. link = "open" /\ frames = <<>> /\ joining = {}  BY DEF WireQuiet
  <2>2. Covered(s)  BY <1>1, <2>1 DEF WInv, WillBeJoined
  <2> QED BY <2>1, <2>2, EndsNone DEF Covered
<1> QED BY <1>1, WInvAlways, PTL

(* What the page takes for the props the server last heard of an instance  *)
(* is that, once the wire is quiet: a remount that takes over a store      *)
(* patches exactly when it must (#slotProps, #rebindCancelledPair).        *)
THEOREM GivenIsToldAlways ==
    ASSUME SlotConstantsOK PROVE SlotSpec => []GivenIsTold
<1>1. ASSUME WInv PROVE GivenIsTold
  <2> SUFFICES ASSUME transport = "ws", WireQuiet,
                      NEW p \in DOMAIN told \ (loose \cup {mount[m].path : m \in Owned(Page)})
               PROVE  heard[p] = told[p]
    BY DEF GivenIsTold
  <2>1. frames = <<>> /\ back = {}  BY DEF WireQuiet
  <2>2. p \notin Exempt  BY <2>1 DEF Exempt, Answered, Pages
  <2>3. Fits(p)  BY <1>1, <2>2 DEF WInv, WillBeTold
  <2> QED BY <2>1, <2>3, EndsNone DEF Fits
<1> QED BY <1>1, WInvAlways, PTL
=============================================================================
