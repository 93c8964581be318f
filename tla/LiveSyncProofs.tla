--------------------------- MODULE LiveSyncProofs ---------------------------
(***************************************************************************)
(* What LiveSync promises, for any pages, bounds and dedupe window.        *)
(*                                                                         *)
(* ConfirmedExact and AckedShows are not inductive: they do not say what   *)
(* the envelopes on a stream, or kept in the dedupe window, hold.  IInv    *)
(* does, against a history H of the states the instance announced (Trace): *)
(* a store has the state its seq names, a full holds that state, patches   *)
(* hold the difference from the one before.  A stream keeps its order      *)
(* (Order), a call that succeeded was told of by a state no later than the *)
(* page's (Told), and a pending call has its batch somewhere (Calls).      *)
(*                                                                         *)
(* The actions differ for these in five ways only (Effect): the instance   *)
(* announces its next state, repeats an ack, or a page reads, loads, or    *)
(* neither.                                                                *)
(***************************************************************************)
EXTENDS LiveSync, FilterProofs

-----------------------------------------------------------------------------
(* Prefixes *)

LEMMA PrefixIs ==
    ASSUME NEW S, NEW s \in Seq(S), NEW t \in Seq(S)
    PROVE  IsPrefix(s, t) <=> (Len(s) <= Len(t) /\ \A i \in 1 .. Len(s) : s[i] = t[i])
<1>1. /\ Len(s) \in Nat /\ Len(t) \in Nat
      /\ \A i \in 1 .. Len(s) : s[i] \in S
      /\ \A j \in 1 .. Len(t) : t[j] \in S
  BY LenProperties
<1>2. SubSeq(s, 1, Len(s)) = s  BY SubSeqFull
<1>3. ASSUME Len(s) <= Len(t)
      PROVE  (SubSeq(t, 1, Len(s)) = s) <=> (\A i \in 1 .. Len(s) : s[i] = t[i])
  <2> DEFINE u == SubSeq(t, 1, Len(s))
  <2>1. \A i \in 1 .. Len(s) : t[i] \in S
    <3>1. \A i \in 1 .. Len(t) : t[i] \in S  BY ElementOfSeq
    <3> QED BY <1>1, <1>3, <3>1
  <2>2. /\ u \in Seq(S) /\ Len(u) = (IF 1 <= Len(s) THEN Len(s) - 1 + 1 ELSE 0)
        /\ \A i \in 1 .. Len(s) - 1 + 1 : u[i] = t[1 + i - 1]
    BY <1>1, <2>1, SubSeqProperties
  <2> HIDE DEF u
  <2>3. Len(u) = Len(s) /\ \A i \in 1 .. Len(s) : u[i] = t[i]  BY <1>1, <2>2
  <2>4. ASSUME \A i \in 1 .. Len(s) : s[i] = t[i] PROVE u = s
    BY <2>2, <2>3, <2>4, SeqEqual
  <2> QED BY <2>3, <2>4 DEF u
<1> QED BY <1>2, <1>3 DEF IsPrefix

LEMMA PrefixTrans ==
    ASSUME NEW S, NEW s \in Seq(S), NEW t \in Seq(S), NEW u \in Seq(S),
           IsPrefix(s, t), IsPrefix(t, u)
    PROVE  IsPrefix(s, u)
<1>1. Len(s) \in Nat /\ Len(t) \in Nat /\ Len(u) \in Nat  BY LenProperties
<1>2. Len(s) <= Len(t) /\ \A i \in 1 .. Len(s) : s[i] = t[i]  BY PrefixIs
<1>3. Len(t) <= Len(u) /\ \A i \in 1 .. Len(t) : t[i] = u[i]  BY PrefixIs
<1>4. Len(s) <= Len(u) /\ \A i \in 1 .. Len(s) : s[i] = u[i]  BY <1>1, <1>2, <1>3
<1> QED BY <1>4, PrefixIs

LEMMA PrefixAppended ==
    ASSUME NEW S, NEW s \in Seq(S), NEW t \in Seq(S)
    PROVE  IsPrefix(s, s \o t) /\ s \o t \in Seq(S) /\ IsPrefix(s, s) /\ IsPrefix(<<>>, s)
<1>1. Len(s) \in Nat /\ Len(t) \in Nat  BY LenProperties
<1>2. /\ s \o t \in Seq(S) /\ Len(s \o t) = Len(s) + Len(t)
      /\ \A i \in 1 .. Len(s) + Len(t) :
            (s \o t)[i] = IF i <= Len(s) THEN s[i] ELSE t[i - Len(s)]
  BY ConcatProperties
<1>3. Len(s) <= Len(s \o t) /\ \A i \in 1 .. Len(s) : s[i] = (s \o t)[i]  BY <1>1, <1>2
<1>4. <<>> \in Seq(S) /\ Len(<<>>) = 0  BY EmptySeq
<1>5. IsPrefix(<<>>, s)
  <2>1. Len(<<>>) <= Len(s) /\ \A i \in 1 .. Len(<<>>) : <<>>[i] = s[i]  BY <1>1, <1>4
  <2> DEFINE e == <<>>
  <2>2. e \in Seq(S) /\ Len(e) <= Len(s) /\ \A i \in 1 .. Len(e) : e[i] = s[i]  BY <1>4, <2>1
  <2> HIDE DEF e
  <2>3. IsPrefix(e, s)  BY <2>2, PrefixIs
  <2> QED BY <2>3 DEF e
<1>6. IsPrefix(s, s)  BY <1>1, PrefixIs
<1> QED BY <1>2, <1>3, <1>5, <1>6, PrefixIs

LEMMA PrefixRange ==
    ASSUME NEW S, NEW s \in Seq(S), NEW t \in Seq(S), IsPrefix(s, t)
    PROVE  Range(s) \subseteq Range(t)
<1>1. /\ Len(s) \in Nat /\ Len(t) \in Nat
      /\ DOMAIN s = 1 .. Len(s) /\ DOMAIN t = 1 .. Len(t)
  BY LenProperties
<1>2. Len(s) <= Len(t) /\ \A i \in 1 .. Len(s) : s[i] = t[i]  BY PrefixIs
<1> QED BY <1>1, <1>2 DEF Range

-----------------------------------------------------------------------------
(* Streams *)

LEMMA Appended ==
    ASSUME NEW S, NEW s \in Seq(S), NEW e \in S
    PROVE  /\ Append(s, e) \in Seq(S) /\ Append(s, e) # <<>>
           /\ Len(s) \in Nat /\ DOMAIN s = 1 .. Len(s) /\ DOMAIN Append(s, e) = 1 .. Len(s) + 1
           /\ \A i \in 1 .. Len(s) : Append(s, e)[i] = s[i] /\ s[i] \in S
           /\ Append(s, e)[Len(s) + 1] = e
           /\ Range(Append(s, e)) = Range(s) \cup {e}
<1>1. /\ Append(s, e) \in Seq(S) /\ Append(s, e) # <<>>
      /\ Len(Append(s, e)) = Len(s) + 1
      /\ \A i \in 1 .. Len(s) : Append(s, e)[i] = s[i]
      /\ Append(s, e)[Len(s) + 1] = e
  BY AppendProperties
<1>2. /\ Len(s) \in Nat /\ DOMAIN s = 1 .. Len(s)
      /\ \A i \in 1 .. Len(s) : s[i] \in S
  BY LenProperties
<1>3. DOMAIN Append(s, e) = 1 .. Len(s) + 1  BY <1>1, LenProperties
<1>4. Range(Append(s, e)) = Range(s) \cup {e}
  <2> DEFINE a == Append(s, e)
  <2>1. /\ DOMAIN a = 1 .. Len(s) + 1 /\ \A i \in 1 .. Len(s) : a[i] = s[i]
        /\ a[Len(s) + 1] = e
    BY <1>1, <1>3
  <2> HIDE DEF a
  <2>2. ASSUME NEW i \in DOMAIN a PROVE a[i] \in Range(s) \cup {e}
    BY <1>2, <2>1 DEF Range
  <2>3. ASSUME NEW i \in DOMAIN s PROVE s[i] \in Range(a)
    <3>1. i \in DOMAIN a /\ a[i] = s[i]  BY <1>2, <2>1
    <3> QED BY <3>1 DEF Range
  <2>4. e \in Range(a)
    <3>1. Len(s) + 1 \in DOMAIN a  BY <1>2, <2>1
    <3> QED BY <2>1, <3>1 DEF Range
  <2>5. Range(a) = Range(s) \cup {e}  BY <2>2, <2>3, <2>4 DEF Range
  <2> QED BY <2>5 DEF a
<1> QED BY <1>1, <1>2, <1>3, <1>4

LEMMA Dropped ==
    ASSUME NEW S, NEW s \in Seq(S), s # <<>>
    PROVE  /\ Tail(s) \in Seq(S) /\ Head(s) \in S /\ Head(s) = s[1] /\ Len(s) \in Nat \ {0}
           /\ DOMAIN s = 1 .. Len(s) /\ DOMAIN Tail(s) = 1 .. Len(s) - 1
           /\ \A i \in 1 .. Len(s) - 1 : Tail(s)[i] = s[i + 1]
           /\ \A i \in 1 .. Len(s) : s[i] \in S
           /\ Range(s) = Range(Tail(s)) \cup {Head(s)}
<1>1. /\ Tail(s) \in Seq(S) /\ Head(s) \in S /\ Len(Tail(s)) = Len(s) - 1
      /\ \A i \in 1 .. Len(Tail(s)) : Tail(s)[i] = s[i + 1]
  BY HeadTailProperties
<1>2. Len(s) \in Nat \ {0}  BY EmptySeq
<1>3. DOMAIN s = 1 .. Len(s) /\ \A i \in 1 .. Len(s) : s[i] \in S  BY LenProperties
<1>4. DOMAIN Tail(s) = 1 .. Len(s) - 1  BY <1>1, LenProperties
<1>5. Head(s) = s[1]  OBVIOUS
<1>6. Range(s) = Range(Tail(s)) \cup {Head(s)}
  <2> DEFINE t == Tail(s)
             h == Head(s)
  <2>1. DOMAIN t = 1 .. Len(s) - 1 /\ h = s[1] /\ \A i \in 1 .. Len(s) - 1 : t[i] = s[i + 1]
    BY <1>1, <1>4, <1>5
  <2> HIDE DEF t, h
  <2>2. ASSUME NEW i \in DOMAIN s PROVE s[i] \in Range(t) \cup {h}
    <3>1. CASE i = 1  BY <2>1, <3>1
    <3>2. CASE i # 1
      <4>1. i - 1 \in DOMAIN t /\ t[i - 1] = s[i]  BY <1>2, <1>3, <2>1, <3>2
      <4> QED BY <4>1 DEF Range
    <3> QED BY <3>1, <3>2
  <2>3. ASSUME NEW i \in DOMAIN t PROVE t[i] \in Range(s)
    <3>1. i + 1 \in DOMAIN s /\ t[i] = s[i + 1]  BY <1>2, <1>3, <2>1
    <3> QED BY <3>1 DEF Range
  <2>4. h \in Range(s)
    <3>1. 1 \in DOMAIN s  BY <1>2, <1>3
    <3> QED BY <2>1, <3>1 DEF Range
  <2>5. Range(s) = Range(t) \cup {h}  BY <2>2, <2>3, <2>4 DEF Range
  <2> QED BY <2>5 DEF t, h
<1> QED BY <1>1, <1>2, <1>3, <1>4, <1>5, <1>6

LEMMA Removed ==
    ASSUME NEW S, NEW s \in Seq(S), NEW i \in DOMAIN s
    PROVE  /\ RemoveAt(s, i) \in Seq(S) /\ s[i] \in S
           /\ Range(RemoveAt(s, i)) \subseteq Range(s)
           /\ Range(s) \subseteq Range(RemoveAt(s, i)) \cup {s[i]}
<1> DEFINE a == SubSeq(s, 1, i - 1)
           b == SubSeq(s, i + 1, Len(s))
<1>1. /\ Len(s) \in Nat /\ DOMAIN s = 1 .. Len(s)
      /\ \A j \in 1 .. Len(s) : s[j] \in S
  BY LenProperties
<1>2. /\ a \in Seq(S) /\ Len(a) = (IF 1 <= i - 1 THEN i - 1 - 1 + 1 ELSE 0)
      /\ \A j \in 1 .. i - 1 - 1 + 1 : a[j] = s[1 + j - 1]
  BY <1>1, SubSeqProperties
<1>3. /\ b \in Seq(S) /\ Len(b) = (IF i + 1 <= Len(s) THEN Len(s) - (i + 1) + 1 ELSE 0)
      /\ \A j \in 1 .. Len(s) - (i + 1) + 1 : b[j] = s[i + 1 + j - 1]
  BY <1>1, SubSeqProperties
<1>4. a \o b \in Seq(S) /\ Range(a \o b) = Range(a) \cup Range(b)
  BY <1>2, <1>3, ConcatProperties, RangeConcatenation
<1>5. DOMAIN a = 1 .. i - 1 /\ DOMAIN b = 1 .. Len(s) - i
  <2>1. Len(a) = i - 1 /\ Len(b) = Len(s) - i  BY <1>1, <1>2, <1>3
  <2> QED BY <1>2, <1>3, <2>1, LenProperties
<1> HIDE DEF a, b
<1>6. ASSUME NEW j \in DOMAIN a PROVE a[j] \in Range(s)
  <2>1. j \in DOMAIN s /\ a[j] = s[j]  BY <1>1, <1>2, <1>5
  <2> QED BY <2>1 DEF Range
<1>7. ASSUME NEW j \in DOMAIN b PROVE b[j] \in Range(s)
  <2>1. i + j \in DOMAIN s /\ b[j] = s[i + j]  BY <1>1, <1>3, <1>5
  <2> QED BY <2>1 DEF Range
<1>8. ASSUME NEW j \in DOMAIN s PROVE s[j] \in Range(a) \cup Range(b) \cup {s[i]}
  <2>1. CASE j < i
    <3>1. j \in DOMAIN a /\ a[j] = s[j]  BY <1>1, <1>2, <1>5, <2>1
    <3> QED BY <3>1 DEF Range
  <2>2. CASE j > i
    <3> DEFINE k == j - i
    <3>1. k \in 1 .. Len(s) - (i + 1) + 1 /\ i + 1 + k - 1 = j /\ k \in DOMAIN b
      BY <1>1, <1>5, <2>2
    <3>2. b[k] = s[j]
      <4> HIDE DEF k
      <4> QED BY <1>3, <3>1
    <3> QED BY <3>1, <3>2 DEF Range
  <2>3. CASE j = i  BY <2>3
  <2> QED BY <1>1, <2>1, <2>2, <2>3
<1>9. /\ Range(a) \subseteq Range(s) /\ Range(b) \subseteq Range(s)
      /\ Range(s) \subseteq Range(a) \cup Range(b) \cup {s[i]}
  BY <1>6, <1>7, <1>8 DEF Range
<1>10. RemoveAt(s, i) = a \o b  BY DEF RemoveAt, a, b
<1> QED BY <1>1, <1>4, <1>9, <1>10

LEMMA One ==
    ASSUME NEW S, NEW e \in S
    PROVE  <<e>> \in Seq(S) /\ Range(<<e>>) = {e}
BY DEF Range

LEMMA ElementIn ==
    ASSUME NEW s, NEW i \in DOMAIN s
    PROVE  s[i] \in Range(s)
BY DEF Range

LEMMA InRange ==
    ASSUME NEW s, NEW e \in Range(s)
    PROVE  \E i \in DOMAIN s : s[i] = e
BY DEF Range

-----------------------------------------------------------------------------
(* Types *)

Env == [full : BOOLEAN, seq : Nat, writes : Seq(Write), ack : 0 .. MaxCalls, ok : BOOLEAN]
Msg == {Resync} \cup {BatchMsg(n) : n \in RpcNo}
Stores == [confirmed : Seq(Write), seq : Nat, awaiting : BOOLEAN, ops : Seq(RpcNo)]

ServerTypes ==
    /\ log \in Seq(Write) /\ seq \in Nat /\ acks \in Seq(Env)
    /\ running \in [Pages -> [RpcNo -> Nat]] /\ astray \subseteq Write

PageTypes ==
    /\ document \in [Pages -> {"new", "ssr", "bare", "held", "closed"}]
    /\ store \in [Pages -> Stores]
    /\ used \in [Pages -> 0 .. MaxCalls]
    /\ outcome \in [Pages -> [RpcNo -> {"none", "ok", "error"}]]

WireTypes ==
    /\ link \in [Pages -> {"down", "opening", "open"}]
    /\ opened \in [Pages -> BOOLEAN]
    /\ down \in [Pages -> Seq(Env)] /\ up \in [Pages -> Seq(Msg)]
    /\ unsure \in [Pages -> SUBSET RpcNo]
    /\ count \in [{"write", "drop", "lost", "corrupt"} -> Nat]

Types == ServerTypes /\ PageTypes /\ WireTypes

(* What an envelope does to a store: it replaces it, adds to it, or leaves *)
(* it as it was, perhaps to wait for a full.                               *)
Replaces(s, env, t) ==
    /\ env.full /\ t.confirmed = env.writes /\ t.seq = env.seq /\ ~t.awaiting

Adds(s, env, t) ==
    /\ ~env.full /\ env.seq = s.seq + 1 /\ ~s.awaiting
    /\ t.confirmed = s.confirmed \o env.writes /\ t.seq = env.seq /\ ~t.awaiting

Leaves(s, env, t) ==
    /\ ~env.full /\ t.confirmed = s.confirmed /\ t.seq = s.seq
    /\ ~t.awaiting => ~s.awaiting /\ env.seq <= s.seq

LEMMA ApplyParts ==
    ASSUME NEW s \in Stores, NEW env \in Env, NEW corrupt \in BOOLEAN,
           corrupt => InOrder(s, env)
    PROVE  LET t == ApplyEnvelope(s, env, corrupt) IN
           /\ t \in Stores /\ Range(t.ops) = Range(s.ops) \ {env.ack}
           /\ Replaces(s, env, t) \/ Adds(s, env, t) \/ Leaves(s, env, t)
           /\ t.awaiting => ~env.full /\ (s.awaiting \/ AsksResync(s, env, corrupt))
<1> DEFINE c == Confirm(s, env, corrupt)
           t == ApplyEnvelope(s, env, corrupt)
<1>0. /\ s.confirmed \in Seq(Write) /\ s.seq \in Nat /\ s.awaiting \in BOOLEAN
      /\ s.ops \in Seq(RpcNo) /\ env.seq \in Nat /\ env.writes \in Seq(Write)
      /\ env.full \in BOOLEAN
  BY DEF Stores, Env
<1>1. /\ c \in Stores /\ c.ops = s.ops
      /\ Replaces(s, env, c) \/ Adds(s, env, c) \/ Leaves(s, env, c)
      /\ c.awaiting => ~env.full /\ (s.awaiting \/ AsksResync(s, env, corrupt))
  <2>1. CASE env.full
    <3>1. c = [s EXCEPT !.confirmed = env.writes, !.seq = env.seq, !.awaiting = FALSE]
      BY <2>1 DEF Confirm, Stale, Gap, InOrder
    <3>2. /\ c \in Stores /\ c.ops = s.ops /\ c.confirmed = env.writes /\ c.seq = env.seq
          /\ c.awaiting = FALSE
      BY <1>0, <3>1 DEF Stores
    <3> QED BY <2>1, <3>2 DEF Replaces
  <2>2. CASE Stale(s, env)
    <3>1. c = s  BY <2>2 DEF Confirm, Stale, Gap, InOrder
    <3> QED BY <2>2, <3>1 DEF Stale, Leaves
  <2>3. CASE Gap(s, env) \/ (InOrder(s, env) /\ corrupt)
    <3>1. c = [s EXCEPT !.awaiting = TRUE]  BY <2>3 DEF Confirm, Gap, InOrder, Stale
    <3>2. /\ c \in Stores /\ c.ops = s.ops /\ c.confirmed = s.confirmed /\ c.seq = s.seq
          /\ c.awaiting = TRUE
      BY <1>0, <3>1 DEF Stores
    <3>3. s.awaiting \/ AsksResync(s, env, corrupt)  BY <2>3 DEF AsksResync
    <3>4. ~env.full  BY <2>3 DEF Gap, InOrder
    <3> QED BY <3>2, <3>3, <3>4, Zenon DEF Leaves
  <2>4. CASE InOrder(s, env) /\ ~corrupt
    <3>1. c = [s EXCEPT !.confirmed = @ \o env.writes, !.seq = env.seq]
      BY <2>4 DEF Confirm, InOrder, Stale, Gap
    <3>2. s.confirmed \o env.writes \in Seq(Write)  BY <1>0, ConcatProperties
    <3>3. /\ c \in Stores /\ c.ops = s.ops /\ c.confirmed = s.confirmed \o env.writes
          /\ c.seq = env.seq /\ c.awaiting = s.awaiting
      BY <1>0, <3>1, <3>2 DEF Stores
    <3>4. ~s.awaiting /\ ~env.full /\ env.seq = s.seq + 1
      BY <1>0, <2>4 DEF Gap, Stale, InOrder
    <3> QED BY <3>3, <3>4, Zenon DEF Adds
  <2>5. env.full \/ Stale(s, env) \/ Gap(s, env) \/ InOrder(s, env)  BY DEF InOrder
  <2> QED BY <2>1, <2>2, <2>3, <2>4, <2>5, Zenon
<1>2. t = [c EXCEPT !.ops = Only(@, Range(@) \ {env.ack})]
  BY DEF ApplyEnvelope, SettleOp
<1> HIDE DEF c, t
<1>3. c.ops \in Seq(RpcNo)  BY <1>1 DEF Stores
<1>4. /\ Only(c.ops, Range(c.ops) \ {env.ack}) \in Seq(RpcNo)
      /\ Range(Only(c.ops, Range(c.ops) \ {env.ack})) = Range(c.ops) \cap (Range(c.ops) \ {env.ack})
  BY <1>3, OnlyPicks
<1>5. /\ t \in Stores /\ t.ops = Only(c.ops, Range(c.ops) \ {env.ack})
      /\ t.confirmed = c.confirmed /\ t.seq = c.seq /\ t.awaiting = c.awaiting
  BY <1>1, <1>2, <1>4 DEF Stores
<1>6. Range(t.ops) = Range(s.ops) \ {env.ack}  BY <1>1, <1>4, <1>5
<1>7. Replaces(s, env, t) \/ Adds(s, env, t) \/ Leaves(s, env, t)
  BY <1>1, <1>5, Zenon DEF Replaces, Adds, Leaves
<1>8. t.awaiting => ~env.full /\ (s.awaiting \/ AsksResync(s, env, corrupt))
  BY <1>1, <1>5, Zenon
<1> QED BY <1>5, <1>6, <1>7, <1>8 DEF t

-----------------------------------------------------------------------------
(* The instance *)

LEMMA CachedPicks ==
    ASSUME Types, NEW n, CachedAck(n) # <<>>
    PROVE  CachedAck(n)[1] \in Range(acks) /\ CachedAck(n)[1].ack = n /\ CachedAck(n)[1] \in Env
<1> DEFINE c == CachedAck(n)
           es == {env \in Range(acks) : env.ack = n}
<1>1. acks \in Seq(Env)  BY DEF Types, ServerTypes
<1>2. c \in Seq(Env) /\ Range(c) = Range(acks) \cap es
  <2>1. c = Only(acks, es)  BY DEF CachedAck
  <2> QED BY <1>1, <2>1, OnlyPicks
<1>3. c[1] \in Range(c) /\ c[1] \in Env
  <2>1. c # <<>>  OBVIOUS
  <2> HIDE DEF c
  <2>2. DOMAIN c = 1 .. Len(c) /\ Len(c) \in Nat \ {0} /\ \A i \in 1 .. Len(c) : c[i] \in Env
    BY <1>2, <2>1, Dropped
  <2>3. 1 \in DOMAIN c  BY <2>2
  <2> QED BY <2>2, <2>3, ElementIn
<1> HIDE DEF c
<1>4. c[1] \in Range(acks) /\ c[1].ack = n  BY <1>2, <1>3
<1> QED BY <1>3, <1>4 DEF c

LEMMA Remembers ==
    ASSUME Types, NEW env \in Env, Remember(env)
    PROVE  acks' \in Seq(Env) /\ Range(acks') \subseteq Range(acks) \cup {env}
<1>1. acks \in Seq(Env)  BY DEF Types, ServerTypes
<1>2. /\ Len(acks) \in Nat /\ DOMAIN acks = 1 .. Len(acks)
      /\ \A i \in 1 .. Len(acks) : acks[i] \in Env
  BY <1>1, LenProperties
<1>3. CASE CachedAck(env.ack) # <<>>
  <2> DEFINE E(i) == IF acks[i].ack = env.ack THEN env ELSE acks[i]
  <2>1. acks' = [i \in 1 .. Len(acks) |-> E(i)]  BY <1>2, <1>3 DEF Remember
  <2>2. \A i \in 1 .. Len(acks) : E(i) \in Env /\ E(i) \in Range(acks) \cup {env}
    BY <1>2 DEF Range
  <2> HIDE DEF E
  <2>3. acks' \in [1 .. Len(acks) -> Env]  BY <2>1, <2>2
  <2>4. acks' \in Seq(Env)  BY <1>2, <2>3, SeqDef
  <2>5. Range(acks') \subseteq Range(acks) \cup {env}  BY <2>1, <2>2 DEF Range
  <2> QED BY <2>4, <2>5
<1>4. CASE CachedAck(env.ack) = <<>>
  <2> DEFINE k == Append(acks, env)
  <2>1. k \in Seq(Env) /\ k # <<>> /\ Range(k) = Range(acks) \cup {env}  BY <1>1, Appended
  <2>2. acks' = k \/ acks' = Tail(k)  BY <1>4 DEF Remember
  <2> HIDE DEF k
  <2>3. Tail(k) \in Seq(Env) /\ Range(Tail(k)) \subseteq Range(k)  BY <2>1, Dropped
  <2> QED BY <2>1, <2>2, <2>3
<1> QED BY <1>3, <1>4

LEMMA SentToParts ==
    ASSUME Types, NEW env \in Env, NEW J
    PROVE  LET dn == SentTo(down, env, J) IN
           /\ dn \in [Pages -> Seq(Env)]
           /\ \A p \in Pages : /\ link[p] # "down" \/ p \in J => dn[p] = Append(down[p], env)
                               /\ link[p] = "down" /\ p \notin J => dn[p] = down[p]
<1>1. down \in [Pages -> Seq(Env)]  BY DEF Types, WireTypes
<1>2. \A p \in Pages : Append(down[p], env) \in Seq(Env) /\ down[p] \in Seq(Env)
  BY <1>1, Appended
<1> QED BY <1>2 DEF SentTo

-----------------------------------------------------------------------------
(* Types are kept *)

LEMMA ConstantTypes ==
    /\ MaxCalls \in Nat /\ RpcNo \subseteq 0 .. MaxCalls /\ 0 \in 0 .. MaxCalls
    /\ \A m \in {MaxCalls, MaxWrites, MaxDrops, MaxLost, MaxCorrupt} : m \in Nat
BY SyncConstantsOK DEF RpcNo

LEMMA UsedStep ==
    ASSUME Types, NEW what \in {"write", "drop", "lost", "corrupt"}, NEW most, Use(what, most)
    PROVE  count' \in [{"write", "drop", "lost", "corrupt"} -> Nat]
BY DEF Types, WireTypes, Use

LEMMA FullIs ==
    ASSUME Types
    PROVE  /\ Full(seq + 1, log) \in Env /\ Full(seq + 1, log).full
           /\ Full(seq + 1, log).writes = log /\ Full(seq + 1, log).seq = seq + 1
           /\ Full(seq + 1, log).ack = 0
           /\ Full(seq, log) \in Env /\ Full(seq, log).full
           /\ Full(seq, log).writes = log /\ Full(seq, log).seq = seq
           /\ Full(seq, log).ack = 0
BY ConstantTypes DEF Types, ServerTypes, Env, Full, NoAck

LEMMA FullToParts ==
    ASSUME Types, NEW J, FullTo(J)
    PROVE  /\ seq' = seq + 1 /\ seq' \in Nat
           /\ down' = SentTo(down, Full(seq + 1, log), J)
           /\ down' \in [Pages -> Seq(Env)]
<1>1. Full(seq + 1, log) \in Env  BY FullIs
<1>2. seq \in Nat  BY DEF Types, ServerTypes
<1> QED BY <1>1, <1>2, SentToParts DEF FullTo

LEMMA PatchesIs ==
    ASSUME Types, NEW writes \in Seq(Write), NEW ack \in 0 .. MaxCalls, NEW ok \in BOOLEAN
    PROVE  LET env == Patches(seq + 1, writes, ack, ok) IN
           /\ env \in Env /\ ~env.full /\ env.writes = writes /\ env.seq = seq + 1
           /\ env.ack = ack /\ env.ok = ok /\ log \o writes \in Seq(Write) /\ seq + 1 \in Nat
<1>1. log \in Seq(Write) /\ seq \in Nat  BY DEF Types, ServerTypes
<1>2. log \o writes \in Seq(Write)  BY <1>1, ConcatProperties
<1> QED BY <1>1, <1>2 DEF Env, Patches

LEMMA OneWrite ==
    ASSUME NEW p \in Pages \cup {Other}, NEW n \in Nat
    PROVE  [by |-> p, n |-> n] \in Write /\ <<[by |-> p, n |-> n]>> \in Seq(Write)
BY DEF Write

LEMMA BatchIs ==
    ASSUME NEW n \in RpcNo
    PROVE  BatchMsg(n) \in Msg /\ Resync \in Msg /\ BatchMsg(n) # Resync /\ BatchMsg(n).n = n
           /\ BatchMsg(n).kind = "batch" /\ Resync.kind = "resync"
BY DEF Msg, BatchMsg, Resync

LEMMA ResyncIs == Resync \in Msg /\ Resync.kind = "resync"
BY DEF Msg, Resync

LEMMA MsgIs ==
    ASSUME NEW msg \in Msg
    PROVE  IF msg.kind = "resync" THEN msg = Resync ELSE msg.n \in RpcNo /\ msg = BatchMsg(msg.n)
BY DEF Msg, BatchMsg, Resync

(* Somebody's call of that number is in a state h, or its writes are among *)
(* those gone astray, a set A.                                             *)
Shows(h, A, n) == \E q \in Pages : [by |-> q, n |-> n] \in Range(h) \cup A

LEMMA LateIs ==
    ASSUME Types, NEW late \in Late
    PROVE  late \in Seq(Write)
<1>1. late \in SeqOf(astray \ Range(log), MaxCalls)  BY DEF Late
<1>2. PICK m \in 0 .. MaxCalls : late \in [1 .. m -> astray \ Range(log)]  BY <1>1 DEF SeqOf
<1>3. m \in Nat /\ astray \subseteq Write  BY <1>2, ConstantTypes DEF Types, ServerTypes
<1>4. late \in [1 .. m -> Write]  BY <1>2, <1>3
<1> QED BY <1>3, <1>4, SeqDef

(* What Finish announces.                                                  *)
LEMMA FinishParts ==
    ASSUME Types, NEW p \in Pages, NEW n \in RpcNo, Finish(p, n)
    PROVE  /\ running[p][n] > 0 /\ running' = [running EXCEPT ![p][n] = @ - 1]
           /\ seq' = seq + 1 /\ UNCHANGED <<client, link, opened, up, unsure, count>>
           /\ astray \subseteq astray' /\ astray' \subseteq Write
           /\ \A w \in astray' : w \in astray \/ w \notin Range(log)
           /\ \E env \in Env :
                 /\ ~env.full /\ env.seq = seq + 1 /\ env.ack = n
                 /\ log' = log \o env.writes /\ log' \in Seq(Write)
                 /\ env.ok => Shows(log', astray', n)
                 /\ acks' \in Seq(Env) /\ Range(acks') \subseteq Range(acks) \cup {env}
                 /\ down' = SentTo(down, env, {}) /\ down' \in [Pages -> Seq(Env)]
<1> DEFINE own == [by |-> p, n |-> n]
<1>1. PICK ok \in BOOLEAN, written \in BOOLEAN, late \in Late :
         LET writes == late \o (IF written THEN <<own>> ELSE <<>>)
             env == Patches(seq + 1, writes, n, ok)
         IN /\ astray' = IF ok /\ ~written THEN astray \cup ({own} \ Range(log)) ELSE astray
            /\ log' = log \o writes
            /\ seq' = seq + 1
            /\ Remember(env)
            /\ down' = SentTo(down, env, {})
  BY DEF Finish
<1> DEFINE mine == IF written THEN <<own>> ELSE <<>>
           writes == late \o mine
           env == Patches(seq + 1, writes, n, ok)
<1>2. n \in Nat /\ n \in 0 .. MaxCalls  BY ConstantTypes DEF RpcNo
<1>3. /\ own \in Write /\ <<own>> \in Seq(Write) /\ <<>> \in Seq(Write)
      /\ Range(<<own>>) = {own}
  BY <1>2, OneWrite, One
<1>4. /\ astray' = IF ok /\ ~written THEN astray \cup ({own} \ Range(log)) ELSE astray
      /\ log' = log \o writes /\ seq' = seq + 1
      /\ Remember(env) /\ down' = SentTo(down, env, {})
  BY <1>1
<1>5. astray \subseteq Write /\ log \in Seq(Write)  BY DEF Types, ServerTypes
<1>6. /\ astray \subseteq astray' /\ astray' \subseteq Write
      /\ \A w \in astray' : w \in astray \/ w \notin Range(log)
      /\ ok /\ ~written => own \in astray' \cup Range(log)
  <2> HIDE DEF own
  <2> QED BY <1>3, <1>4, <1>5
<1>7. mine \in Seq(Write) /\ (written => own \in Range(mine))  BY <1>3
<1>8. late \in Seq(Write)  BY LateIs
<1> HIDE DEF mine
<1>9. writes \in Seq(Write) /\ Range(writes) = Range(late) \cup Range(mine)
  BY <1>7, <1>8, ConcatProperties, RangeConcatenation
<1> HIDE DEF writes
<1>10. /\ env \in Env /\ ~env.full /\ env.writes = writes /\ env.seq = seq + 1
       /\ env.ack = n /\ env.ok = ok /\ log \o writes \in Seq(Write)
  BY <1>2, <1>9, PatchesIs
<1> HIDE DEF env
<1>11. Range(log \o writes) = Range(log) \cup Range(writes)
  BY <1>5, <1>9, RangeConcatenation
<1>12. ok => own \in Range(log') \cup astray'  BY <1>4, <1>6, <1>7, <1>9, <1>11
<1>13. env.ok => Shows(log', astray', n)  BY <1>10, <1>12 DEF Shows
<1>14. acks' \in Seq(Env) /\ Range(acks') \subseteq Range(acks) \cup {env}
  BY <1>4, <1>10, Remembers
<1>15. down' \in [Pages -> Seq(Env)]  BY <1>4, <1>10, SentToParts
<1>16. running[p][n] > 0 /\ running' = [running EXCEPT ![p][n] = @ - 1]
      /\ UNCHANGED <<client, link, opened, up, unsure, count>>
  BY DEF Finish
<1> QED BY <1>4, <1>6, <1>10, <1>13, <1>14, <1>15, <1>16

(* What Arrive does, by the message.                                       *)
LEMMA ArriveParts ==
    ASSUME Types, NEW p \in Pages, Arrive(p)
    PROVE  /\ UNCHANGED <<log, acks, astray, client, link, opened, unsure, count>>
           /\ \E msg \in Range(up[p]) :
                 /\ msg \in Msg
                 /\ up' \in [Pages -> Seq(Msg)]
                 /\ \A q \in Pages \ {p} : up'[q] = up[q]
                 /\ Range(up[p]) \subseteq Range(up'[p]) \cup {msg}
                 /\ \/ /\ msg = Resync /\ FullTo({}) /\ UNCHANGED running
                    \/ /\ \E env \in Range(acks) :
                             env \in Env /\ env.ack = msg.n /\ down' = SentTo(down, env, {})
                       /\ msg.n \in RpcNo /\ msg = BatchMsg(msg.n) /\ UNCHANGED <<seq, running>>
                    \/ /\ running' = [running EXCEPT ![p][msg.n] = @ + 1]
                       /\ msg.n \in RpcNo /\ msg = BatchMsg(msg.n) /\ UNCHANGED <<seq, down>>
<1>1. PICK i \in DOMAIN up[p] :
         /\ Receive(p, up[p][i]) /\ up' = [up EXCEPT ![p] = RemoveAt(@, i)]
  BY DEF Arrive
<1> DEFINE msg == up[p][i]
<1>2. up \in [Pages -> Seq(Msg)]  BY DEF Types, WireTypes
<1>3. /\ RemoveAt(up[p], i) \in Seq(Msg) /\ msg \in Msg
      /\ Range(up[p]) \subseteq Range(RemoveAt(up[p], i)) \cup {msg}
  BY <1>2, Removed
<1>4. msg \in Range(up[p])  BY ElementIn
<1>5. Receive(p, msg)  BY <1>1
<1>6. /\ up' \in [Pages -> Seq(Msg)] /\ up'[p] = RemoveAt(up[p], i)
      /\ \A q \in Pages \ {p} : up'[q] = up[q]
  BY <1>1, <1>2, <1>3
<1> HIDE DEF msg
<1>7. /\ UNCHANGED <<log, acks, astray>>
      /\ \/ /\ msg = Resync /\ FullTo({}) /\ UNCHANGED running
         \/ /\ \E env \in Range(acks) :
                  env \in Env /\ env.ack = msg.n /\ down' = SentTo(down, env, {})
            /\ msg.n \in RpcNo /\ msg = BatchMsg(msg.n) /\ UNCHANGED <<seq, running>>
         \/ /\ running' = [running EXCEPT ![p][msg.n] = @ + 1]
            /\ msg.n \in RpcNo /\ msg = BatchMsg(msg.n) /\ UNCHANGED <<seq, down>>
  <2>1. CASE msg.kind = "resync"
    <3>1. msg = Resync  BY <1>3, <2>1, MsgIs
    <3> QED BY <1>5, <2>1, <3>1 DEF Receive
  <2>2. CASE msg.kind # "resync" /\ CachedAck(msg.n) # <<>>
    <3>1. msg.n \in RpcNo /\ msg = BatchMsg(msg.n)  BY <1>3, <2>2, MsgIs
    <3>2. /\ UNCHANGED <<log, seq, acks, running, astray>>
          /\ down' = SentTo(down, CachedAck(msg.n)[1], {})
      BY <1>5, <2>2 DEF Receive
    <3>3. /\ CachedAck(msg.n)[1] \in Range(acks) /\ CachedAck(msg.n)[1].ack = msg.n
          /\ CachedAck(msg.n)[1] \in Env
      BY <2>2, CachedPicks
    <3> QED BY <3>1, <3>2, <3>3
  <2>3. CASE msg.kind # "resync" /\ CachedAck(msg.n) = <<>>
    <3>1. msg.n \in RpcNo /\ msg = BatchMsg(msg.n)  BY <1>3, <2>3, MsgIs
    <3> QED BY <1>5, <2>3, <3>1 DEF Receive
  <2> QED BY <2>1, <2>2, <2>3
<1>8. UNCHANGED <<client, link, opened, unsure, count>>  BY DEF Arrive
<1> QED BY <1>3, <1>4, <1>6, <1>7, <1>8

(* What Deliver does to the store of its page.                             *)
LEMMA DeliverParts ==
    ASSUME Types, NEW p \in Pages, Deliver(p)
    PROVE  LET env == Head(down[p])
               s == store[p]
               t == store'[p]
           IN
           /\ UNCHANGED <<server, document, used, link, opened, unsure>>
           /\ link[p] = "open" /\ down[p] # <<>> /\ down' = [down EXCEPT ![p] = Tail(@)]
           /\ env \in Env /\ s \in Stores /\ store' = [store EXCEPT ![p] = t] /\ t \in Stores
           /\ count' \in [{"write", "drop", "lost", "corrupt"} -> Nat]
           /\ \/ document[p] = "bare" /\ UNCHANGED <<store, outcome, up>>
              \/ /\ document[p] = "held" /\ Range(t.ops) = Range(s.ops) \ {env.ack}
                 /\ Replaces(s, env, t) \/ Adds(s, env, t) \/ Leaves(s, env, t)
                 /\ up' = up \/ up' = [up EXCEPT ![p] = Append(@, Resync)]
                 /\ t.awaiting => ~env.full /\ (s.awaiting \/ Resync \in Range(up'[p]))
                 /\ outcome' = IF env.ack # 0 /\ env.ack \in Range(s.ops)
                               THEN [outcome EXCEPT ![p][env.ack] = IF env.ok THEN "ok" ELSE "error"]
                               ELSE outcome
<1> DEFINE env == Head(down[p])
           s == store[p]
<1>1. /\ UNCHANGED <<server, document, used, link, opened, unsure>>
      /\ link[p] = "open" /\ down[p] # <<>> /\ down' = [down EXCEPT ![p] = Tail(@)]
  BY DEF Deliver
<1>2. down[p] \in Seq(Env) /\ s \in Stores /\ store \in [Pages -> Stores]
      /\ up \in [Pages -> Seq(Msg)]
      /\ count \in [{"write", "drop", "lost", "corrupt"} -> Nat]
  BY DEF Types, WireTypes, PageTypes
<1>3. env \in Env  BY <1>1, <1>2, Dropped
<1>4. CASE document[p] = "bare" /\ UNCHANGED <<store, outcome, up, count>>
  <2>1. store' = [store EXCEPT ![p] = store'[p]] /\ store'[p] \in Stores  BY <1>2, <1>4
  <2> QED BY <1>1, <1>2, <1>3, <1>4, <2>1
<1>5. ASSUME document[p] = "held", NEW corrupt \in BOOLEAN,
             IF corrupt THEN InOrder(s, env) /\ env.writes # <<>> /\ Use("corrupt", MaxCorrupt)
                        ELSE UNCHANGED count,
             store' = [store EXCEPT ![p] = ApplyEnvelope(s, env, corrupt)],
             up' = [up EXCEPT ![p] = IF AsksResync(s, env, corrupt)
                                     THEN Append(@, Resync) ELSE @],
             outcome' = IF Settles(s, env)
                        THEN [outcome EXCEPT ![p][env.ack] = IF env.ok THEN "ok" ELSE "error"]
                        ELSE outcome
      PROVE  LET t == store'[p] IN
             /\ store' = [store EXCEPT ![p] = t] /\ t \in Stores
             /\ count' \in [{"write", "drop", "lost", "corrupt"} -> Nat]
             /\ Range(t.ops) = Range(s.ops) \ {env.ack}
             /\ Replaces(s, env, t) \/ Adds(s, env, t) \/ Leaves(s, env, t)
             /\ up' = up \/ up' = [up EXCEPT ![p] = Append(@, Resync)]
             /\ t.awaiting => ~env.full /\ (s.awaiting \/ Resync \in Range(up'[p]))
             /\ outcome' = IF env.ack # 0 /\ env.ack \in Range(s.ops)
                           THEN [outcome EXCEPT ![p][env.ack] = IF env.ok THEN "ok" ELSE "error"]
                           ELSE outcome
  <2> DEFINE t == ApplyEnvelope(s, env, corrupt)
  <2>1. corrupt => InOrder(s, env)  BY <1>5
  <2>2. /\ t \in Stores /\ Range(t.ops) = Range(s.ops) \ {env.ack}
        /\ Replaces(s, env, t) \/ Adds(s, env, t) \/ Leaves(s, env, t)
        /\ t.awaiting => ~env.full /\ (s.awaiting \/ AsksResync(s, env, corrupt))
    <3> HIDE DEF env, s
    <3> QED BY <1>2, <1>3, <2>1, ApplyParts
  <2>3. store'[p] = t /\ store' = [store EXCEPT ![p] = t]  BY <1>2, <1>5
  <2> HIDE DEF t
  <2>4. count' \in [{"write", "drop", "lost", "corrupt"} -> Nat]
    BY <1>2, <1>5, UsedStep
  <2>5. AsksResync(s, env, corrupt) => Resync \in Range(up'[p])
    <3>1. Range(Append(up[p], Resync)) = Range(up[p]) \cup {Resync}
      BY <1>2, ResyncIs, Appended
    <3>2. AsksResync(s, env, corrupt) => up'[p] = Append(up[p], Resync)  BY <1>2, <1>5
    <3> QED BY <3>1, <3>2
  <2>6. up' = up \/ up' = [up EXCEPT ![p] = Append(@, Resync)]  BY <1>2, <1>5
  <2>7. Settles(s, env) <=> env.ack # 0 /\ env.ack \in Range(s.ops)
    BY DEF Settles, NoAck, Range
  <2>8. outcome' = IF env.ack # 0 /\ env.ack \in Range(s.ops)
                   THEN [outcome EXCEPT ![p][env.ack] = IF env.ok THEN "ok" ELSE "error"]
                   ELSE outcome
    BY <1>5, <2>7
  <2> QED BY <2>2, <2>3, <2>4, <2>5, <2>6, <2>8
<1>6. \/ document[p] = "bare" /\ UNCHANGED <<store, outcome, up, count>>
      \/ /\ document[p] = "held"
         /\ \E corrupt \in BOOLEAN :
              /\ IF corrupt THEN InOrder(s, env) /\ env.writes # <<>> /\ Use("corrupt", MaxCorrupt)
                            ELSE UNCHANGED count
              /\ store' = [store EXCEPT ![p] = ApplyEnvelope(s, env, corrupt)]
              /\ up' = [up EXCEPT ![p] = IF AsksResync(s, env, corrupt)
                                         THEN Append(@, Resync) ELSE @]
         /\ outcome' = IF Settles(s, env)
                       THEN [outcome EXCEPT ![p][env.ack] = IF env.ok THEN "ok" ELSE "error"]
                       ELSE outcome
  BY DEF Deliver
<1>7. CASE document[p] = "held"
  <2> HIDE DEF env, s
  <2>1. PICK corrupt \in BOOLEAN :
          /\ IF corrupt THEN InOrder(s, env) /\ env.writes # <<>> /\ Use("corrupt", MaxCorrupt)
                        ELSE UNCHANGED count
          /\ store' = [store EXCEPT ![p] = ApplyEnvelope(s, env, corrupt)]
          /\ up' = [up EXCEPT ![p] = IF AsksResync(s, env, corrupt)
                                     THEN Append(@, Resync) ELSE @]
    BY <1>6, <1>7
  <2>2. outcome' = IF Settles(s, env)
                   THEN [outcome EXCEPT ![p][env.ack] = IF env.ok THEN "ok" ELSE "error"]
                   ELSE outcome
    BY <1>6, <1>7
  <2>3. LET t == store'[p] IN
        /\ store' = [store EXCEPT ![p] = t] /\ t \in Stores
        /\ count' \in [{"write", "drop", "lost", "corrupt"} -> Nat]
        /\ Range(t.ops) = Range(s.ops) \ {env.ack}
        /\ Replaces(s, env, t) \/ Adds(s, env, t) \/ Leaves(s, env, t)
        /\ up' = up \/ up' = [up EXCEPT ![p] = Append(@, Resync)]
        /\ t.awaiting => ~env.full /\ (s.awaiting \/ Resync \in Range(up'[p]))
        /\ outcome' = IF env.ack # 0 /\ env.ack \in Range(s.ops)
                      THEN [outcome EXCEPT ![p][env.ack] = IF env.ok THEN "ok" ELSE "error"]
                      ELSE outcome
    BY <1>5, <1>7, <2>1, <2>2
  <2> QED BY <1>1, <1>2, <1>3, <1>7, <2>3 DEF env, s
<1> QED BY <1>4, <1>6, <1>7

(* The document: rendered with the present state, or with nothing yet.     *)
LEMMA LoadParts ==
    ASSUME Types, NEW p \in Pages, Load(p)
    PROVE  /\ document[p] = "new" /\ UNCHANGED <<server, used, outcome, link, opened, down, up, unsure, count>>
           /\ \/ /\ document' = [document EXCEPT ![p] = "ssr"]
                 /\ store' = [store EXCEPT ![p] = store'[p]] /\ store'[p] \in Stores
                 /\ store'[p].confirmed = log /\ store'[p].seq = seq
                 /\ ~store'[p].awaiting /\ Range(store'[p].ops) = {}
              \/ document' = [document EXCEPT ![p] = "held"] /\ UNCHANGED store
              \/ document' = [document EXCEPT ![p] = "bare"] /\ UNCHANGED store
<1>1. document[p] = "new" /\ UNCHANGED <<server, used, outcome, link, opened, down, up, unsure, count>>
  BY DEF Load
<1>2. /\ FreshStore \in Stores /\ FreshStore.ops = <<>>
  BY EmptySeq DEF FreshStore, Stores
<1>3. Range(FreshStore.ops) = {}  BY <1>2 DEF Range
<1> DEFINE t == ApplyEnvelope(FreshStore, Full(seq, log), FALSE)
<1>4. /\ t \in Stores /\ Range(t.ops) = {}
      /\ t.confirmed = log /\ t.seq = seq /\ ~t.awaiting
  <2> DEFINE env == Full(seq, log)
             f == FreshStore
  <2>1. env \in Env /\ env.full /\ env.writes = log /\ env.seq = seq  BY FullIs
  <2>2. f \in Stores /\ Range(f.ops) = {}  BY <1>2, <1>3
  <2>3. t = ApplyEnvelope(f, env, FALSE)  OBVIOUS
  <2> HIDE DEF env, f, t
  <2>4. /\ t \in Stores /\ Range(t.ops) = Range(f.ops) \ {env.ack}
        /\ Replaces(f, env, t) \/ Adds(f, env, t) \/ Leaves(f, env, t)
    <3> FALSE => InOrder(f, env)  OBVIOUS
    <3> QED BY <2>1, <2>2, <2>3, ApplyParts
  <2> QED BY <2>1, <2>2, <2>4 DEF Replaces, Adds, Leaves
<1> HIDE DEF t
<1>5. store \in [Pages -> Stores]  BY DEF Types, PageTypes
<1>6. \/ document' = [document EXCEPT ![p] = "ssr"] /\ store' = [store EXCEPT ![p] = t]
      \/ document' = [document EXCEPT ![p] = "held"] /\ UNCHANGED store
      \/ document' = [document EXCEPT ![p] = "bare"] /\ UNCHANGED store
  BY DEF Load, t
<1>7. CASE document' = [document EXCEPT ![p] = "ssr"] /\ store' = [store EXCEPT ![p] = t]
  <2>1. store'[p] = t /\ store' = [store EXCEPT ![p] = store'[p]]  BY <1>5, <1>7
  <2> QED BY <1>1, <1>4, <1>7, <2>1
<1> QED BY <1>1, <1>6, <1>7

(* The stream is subscribed: an adoption, or a full for everyone.          *)
LEMMA ConnectParts ==
    ASSUME Types, NEW p \in Pages, Connect(p)
    PROVE  /\ document[p] \notin {"new", "closed"} /\ link[p] = "down"
           /\ link' = [link EXCEPT ![p] = "opening"]
           /\ document' = [document EXCEPT ![p] = IF @ = "ssr" THEN "held" ELSE @]
           /\ UNCHANGED <<log, acks, running, astray, store, used, outcome, opened, up, unsure,
                          count>>
           /\ \/ document[p] = "ssr" /\ store[p].seq = seq /\ UNCHANGED <<seq, down>>
              \/ FullTo({p})
BY DEF Connect

LEMMA OtherWriteParts ==
    ASSUME Types, OtherWrite
    PROVE  /\ seq' = seq + 1 /\ UNCHANGED <<acks, running, astray, client, link, opened, up, unsure>>
           /\ count' \in [{"write", "drop", "lost", "corrupt"} -> Nat]
           /\ \E env \in Env :
                 /\ ~env.full /\ env.seq = seq + 1 /\ env.ack = 0
                 /\ env.writes = <<[by |-> Other, n |-> count.write]>>
                 /\ log' = log \o env.writes /\ log' \in Seq(Write)
                 /\ down' = SentTo(down, env, {}) /\ down' \in [Pages -> Seq(Env)]
<1> DEFINE writes == <<[by |-> Other, n |-> count.write]>>
           env == Patches(seq + 1, writes, NoAck, TRUE)
<1>1. count.write \in Nat  BY DEF Types, WireTypes
<1>2. writes \in Seq(Write)  BY <1>1, OneWrite
<1>3. /\ seq' = seq + 1 /\ log' = log \o writes /\ down' = SentTo(down, env, {})
      /\ Use("write", MaxWrites)
      /\ UNCHANGED <<acks, running, astray, client, link, opened, up, unsure>>
  BY DEF OtherWrite
<1>4. 0 \in 0 .. MaxCalls  BY ConstantTypes
<1>5. writes = <<[by |-> Other, n |-> count.write]>>  OBVIOUS
<1> HIDE DEF writes
<1>6. /\ env \in Env /\ ~env.full /\ env.writes = writes /\ env.seq = seq + 1
      /\ env.ack = 0 /\ log \o writes \in Seq(Write)
  <2>1. env = Patches(seq + 1, writes, 0, TRUE)  BY DEF NoAck
  <2> HIDE DEF env
  <2> QED BY <1>2, <1>4, <2>1, PatchesIs
<1> HIDE DEF env
<1>7. down' \in [Pages -> Seq(Env)]  BY <1>3, <1>6, SentToParts
<1>8. count' \in [{"write", "drop", "lost", "corrupt"} -> Nat]  BY <1>3, UsedStep
<1> QED BY <1>3, <1>5, <1>6, <1>7, <1>8

LEMMA CallParts ==
    ASSUME Types, NEW p \in Pages, Call(p)
    PROVE  LET n == used[p] + 1 IN
           /\ document[p] \in {"ssr", "held"} /\ n \in RpcNo /\ used' = [used EXCEPT ![p] = n]
           /\ UNCHANGED <<server, document, outcome, link, opened, down, unsure, count>>
           /\ store' = [store EXCEPT ![p] = store'[p]] /\ store'[p] \in Stores
           /\ store'[p].confirmed = store[p].confirmed /\ store'[p].seq = store[p].seq
           /\ store'[p].awaiting = store[p].awaiting
           /\ Range(store'[p].ops) = Range(store[p].ops) \cup {n}
           /\ up' \in [Pages -> Seq(Msg)] /\ \A q \in Pages \ {p} : up'[q] = up[q]
           /\ Range(up[p]) \subseteq Range(up'[p])
           /\ link[p] = "open" => BatchMsg(n) \in Range(up'[p])
<1> DEFINE n == used[p] + 1
           s == store[p]
           t == store'[p]
           msgs == <<BatchMsg(n)>>
<1>1. /\ document[p] \in {"ssr", "held"} /\ used[p] < MaxCalls
      /\ used' = [used EXCEPT ![p] = n]
      /\ store' = [store EXCEPT ![p] = Submit(s, n)]
      /\ up' = [up EXCEPT ![p] = IF Transport = "sse" \/ link[p] = "open" THEN @ \o msgs ELSE @]
      /\ UNCHANGED <<server, document, outcome, link, opened, down, unsure, count>>
  BY DEF Call, Send
<1>2. used[p] \in 0 .. MaxCalls /\ store \in [Pages -> Stores] /\ up \in [Pages -> Seq(Msg)]
  BY DEF Types, PageTypes, WireTypes
<1>3. n \in RpcNo /\ n \in Nat  BY <1>1, <1>2, ConstantTypes DEF RpcNo
<1> HIDE DEF n
<1>4. s \in Stores /\ s.ops \in Seq(RpcNo)  BY <1>2 DEF Stores
<1>5. t = [s EXCEPT !.ops = Append(@, n)]  BY <1>1, <1>2 DEF Submit
<1>6. Append(s.ops, n) \in Seq(RpcNo) /\ Range(Append(s.ops, n)) = Range(s.ops) \cup {n}
  BY <1>3, <1>4, Appended
<1>7. /\ t \in Stores /\ t.confirmed = s.confirmed /\ t.seq = s.seq /\ t.awaiting = s.awaiting
      /\ t.ops = Append(s.ops, n)
  BY <1>4, <1>5, <1>6 DEF Stores
<1>8. store' = [store EXCEPT ![p] = t]  BY <1>1, <1>2
<1>9. msgs \in Seq(Msg) /\ Range(msgs) = {BatchMsg(n)}
  <2>1. BatchMsg(n) \in Msg  BY <1>3, BatchIs
  <2> QED BY <2>1, One
<1> HIDE DEF msgs
<1>10. up[p] \o msgs \in Seq(Msg) /\ Range(up[p] \o msgs) = Range(up[p]) \cup {BatchMsg(n)}
  BY <1>2, <1>9, ConcatProperties, RangeConcatenation
<1>11. /\ up' \in [Pages -> Seq(Msg)] /\ \A q \in Pages \ {p} : up'[q] = up[q]
       /\ up'[p] = up[p] \/ up'[p] = up[p] \o msgs
       /\ link[p] = "open" => up'[p] = up[p] \o msgs
  BY <1>1, <1>2, <1>10
<1>12. /\ Range(up[p]) \subseteq Range(up'[p])
       /\ link[p] = "open" => BatchMsg(n) \in Range(up'[p])
  BY <1>10, <1>11
<1>13. Range(t.ops) = Range(s.ops) \cup {n}  BY <1>6, <1>7
<1> HIDE DEF s, t
<1> QED BY <1>1, <1>3, <1>7, <1>8, <1>11, <1>12, <1>13 DEF n, s, t

LEMMA OpenedParts ==
    ASSUME Types, NEW p \in Pages, Opened(p)
    PROVE  /\ link[p] = "opening" /\ link' = [link EXCEPT ![p] = "open"]
           /\ opened' = [opened EXCEPT ![p] = TRUE]
           /\ UNCHANGED <<server, client, down, count>>
           /\ up' \in [Pages -> Seq(Msg)] /\ \A q \in Pages \ {p} : up'[q] = up[q]
           /\ Range(up[p]) \subseteq Range(up'[p])
           /\ unsure' \in [Pages -> SUBSET RpcNo] /\ \A q \in Pages \ {p} : unsure'[q] = unsure[q]
           /\ \A n \in Range(store[p].ops) : n \in unsure'[p] \/ BatchMsg(n) \in Range(up'[p])
<1> DEFINE ops == store[p].ops
           resend == [i \in DOMAIN ops |-> BatchMsg(ops[i])]
<1>1. /\ link[p] = "opening" /\ link' = [link EXCEPT ![p] = "open"]
      /\ opened' = [opened EXCEPT ![p] = TRUE]
      /\ up' = [up EXCEPT ![p] = IF opened[p] THEN @ \o resend ELSE @]
      /\ unsure' = [unsure EXCEPT ![p] = IF opened[p] THEN {} ELSE Range(ops)]
      /\ UNCHANGED <<server, client, down, count>>
  BY DEF Opened, Unacked
<1>2. /\ up \in [Pages -> Seq(Msg)] /\ unsure \in [Pages -> SUBSET RpcNo]
      /\ ops \in Seq(RpcNo) /\ opened[p] \in BOOLEAN
  BY DEF Types, PageTypes, WireTypes, Stores
<1> HIDE DEF ops
<1>3. Len(ops) \in Nat /\ DOMAIN ops = 1 .. Len(ops) /\ \A i \in 1 .. Len(ops) : ops[i] \in RpcNo
  BY <1>2, LenProperties
<1>4. resend \in Seq(Msg) /\ \A n \in Range(ops) : BatchMsg(n) \in Range(resend)
  <2>1. \A i \in 1 .. Len(ops) : BatchMsg(ops[i]) \in Msg  BY <1>3, BatchIs
  <2>2. resend \in [1 .. Len(ops) -> Msg]  BY <1>3, <2>1
  <2>3. resend \in Seq(Msg)
    <3> HIDE DEF resend
    <3> QED BY <1>3, <2>2, SeqDef
  <2> QED BY <2>3 DEF Range
<1>5. Range(ops) \subseteq RpcNo  BY <1>3 DEF Range
<1> HIDE DEF resend
<1>6. up[p] \o resend \in Seq(Msg) /\ Range(up[p] \o resend) = Range(up[p]) \cup Range(resend)
  BY <1>2, <1>4, ConcatProperties, RangeConcatenation
<1>7. /\ up' \in [Pages -> Seq(Msg)] /\ \A q \in Pages \ {p} : up'[q] = up[q]
      /\ up'[p] = IF opened[p] THEN up[p] \o resend ELSE up[p]
  BY <1>1, <1>2, <1>6
<1>8. /\ unsure' \in [Pages -> SUBSET RpcNo] /\ \A q \in Pages \ {p} : unsure'[q] = unsure[q]
      /\ unsure'[p] = IF opened[p] THEN {} ELSE Range(ops)
  BY <1>1, <1>2, <1>5
<1>9. Range(up[p]) \subseteq Range(up'[p])  BY <1>6, <1>7
<1>10. \A n \in Range(ops) : n \in unsure'[p] \/ BatchMsg(n) \in Range(up'[p])
  BY <1>4, <1>6, <1>7, <1>8
<1> QED BY <1>1, <1>7, <1>8, <1>9, <1>10 DEF ops

LEMMA LosePostParts ==
    ASSUME Types, NEW p \in Pages, LosePost(p)
    PROVE  /\ Transport = "sse" /\ MaxLost # 0
           /\ UNCHANGED <<server, client, link, opened, down>>
           /\ count' \in [{"write", "drop", "lost", "corrupt"} -> Nat]
           /\ up' \in [Pages -> Seq(Msg)] /\ \A q \in Pages \ {p} : up'[q] = up[q]
           /\ unsure' \in [Pages -> SUBSET RpcNo] /\ \A q \in Pages \ {p} : unsure'[q] = unsure[q]
           /\ unsure[p] \subseteq unsure'[p]
           /\ \A n \in RpcNo : BatchMsg(n) \in Range(up[p]) =>
                                  n \in unsure'[p] \/ BatchMsg(n) \in Range(up'[p])
<1>1. /\ Transport = "sse" /\ Use("lost", MaxLost)
      /\ UNCHANGED <<server, client, link, opened, down>>
  BY DEF LosePost
<1>2. PICK i \in DOMAIN up[p] :
         /\ up' = [up EXCEPT ![p] = RemoveAt(@, i)]
         /\ unsure' = [unsure EXCEPT ![p] =
                         IF up[p][i].kind = "batch" THEN @ \cup {up[p][i].n} ELSE @]
  BY DEF LosePost
<1>3. /\ up \in [Pages -> Seq(Msg)] /\ unsure \in [Pages -> SUBSET RpcNo]
      /\ count["lost"] \in Nat
  BY DEF Types, WireTypes
<1>4. MaxLost # 0 /\ count' \in [{"write", "drop", "lost", "corrupt"} -> Nat]
  <2>1. count["lost"] < MaxLost  BY <1>1 DEF Use
  <2> QED BY <1>1, <1>3, <2>1, UsedStep
<1>5. /\ RemoveAt(up[p], i) \in Seq(Msg) /\ up[p][i] \in Msg
      /\ Range(up[p]) \subseteq Range(RemoveAt(up[p], i)) \cup {up[p][i]}
  BY <1>3, Removed
<1> DEFINE msg == up[p][i]
<1>6. msg \in Msg  BY <1>5
<1>7. /\ up' \in [Pages -> Seq(Msg)] /\ \A q \in Pages \ {p} : up'[q] = up[q]
      /\ Range(up[p]) \subseteq Range(up'[p]) \cup {msg}
  BY <1>2, <1>3, <1>5
<1>8. unsure' = [unsure EXCEPT ![p] = IF msg.kind = "batch" THEN @ \cup {msg.n} ELSE @]
  BY <1>2
<1> HIDE DEF msg
<1>9. msg.kind = "batch" => msg.n \in RpcNo
  BY <1>6, MsgIs, ResyncIs
<1>10. /\ unsure' \in [Pages -> SUBSET RpcNo] /\ \A q \in Pages \ {p} : unsure'[q] = unsure[q]
       /\ unsure[p] \subseteq unsure'[p]
       /\ msg.kind = "batch" => msg.n \in unsure'[p]
  BY <1>3, <1>8, <1>9
<1>11. ASSUME NEW n \in RpcNo, BatchMsg(n) \in Range(up[p])
       PROVE  n \in unsure'[p] \/ BatchMsg(n) \in Range(up'[p])
  BY <1>7, <1>10, <1>11, BatchIs
<1> QED BY <1>1, <1>4, <1>7, <1>10, <1>11

LEMMA NestedExcept ==
    ASSUME NEW A, NEW B, NEW C, NEW f \in [A -> [B -> C]], NEW a \in A, NEW b \in B, NEW c \in C
    PROVE  /\ [f EXCEPT ![a][b] = c] \in [A -> [B -> C]]
           /\ [f EXCEPT ![a][b] = c][a][b] = c
           /\ \A x \in A, y \in B : x # a \/ y # b => [f EXCEPT ![a][b] = c][x][y] = f[x][y]
OBVIOUS

LEMMA TypesStep ==
    ASSUME Types, [SyncNext]_syncVars
    PROVE  Types'
<1>0. /\ log \in Seq(Write) /\ seq \in Nat /\ acks \in Seq(Env)
      /\ running \in [Pages -> [RpcNo -> Nat]] /\ astray \subseteq Write
      /\ document \in [Pages -> {"new", "ssr", "bare", "held", "closed"}]
      /\ store \in [Pages -> Stores] /\ used \in [Pages -> 0 .. MaxCalls]
      /\ outcome \in [Pages -> [RpcNo -> {"none", "ok", "error"}]]
      /\ link \in [Pages -> {"down", "opening", "open"}] /\ opened \in [Pages -> BOOLEAN]
      /\ down \in [Pages -> Seq(Env)] /\ up \in [Pages -> Seq(Msg)]
      /\ unsure \in [Pages -> SUBSET RpcNo]
      /\ count \in [{"write", "drop", "lost", "corrupt"} -> Nat]
  BY DEF Types, ServerTypes, PageTypes, WireTypes
<1> USE DEF server, client
<1>1. CASE OtherWrite
  <2>1. seq + 1 \in Nat  BY <1>0
  <2> QED BY <1>0, <1>1, <2>1, OtherWriteParts DEF Types, ServerTypes, PageTypes, WireTypes
<1>2. ASSUME NEW p \in Pages, Arrive(p) PROVE Types'
  <2>1. PICK msg \in Msg :
          /\ up' \in [Pages -> Seq(Msg)]
          /\ \/ /\ msg = Resync /\ FullTo({}) /\ UNCHANGED running
             \/ /\ \E env \in Range(acks) :
                      env \in Env /\ env.ack = msg.n /\ down' = SentTo(down, env, {})
                /\ UNCHANGED <<seq, running>>
             \/ /\ running' = [running EXCEPT ![p][msg.n] = @ + 1]
                /\ msg.n \in RpcNo /\ UNCHANGED <<seq, down>>
    BY <1>2, ArriveParts
  <2>2. UNCHANGED <<log, acks, astray, client, link, opened, unsure, count>>  BY <1>2, ArriveParts
  <2>3. seq' \in Nat /\ down' \in [Pages -> Seq(Env)]
    BY <1>0, <2>1, FullToParts, SentToParts
  <2>4. running' \in [Pages -> [RpcNo -> Nat]]
    <3>1. ASSUME msg.n \in RpcNo, running' = [running EXCEPT ![p][msg.n] = @ + 1]
          PROVE  running' \in [Pages -> [RpcNo -> Nat]]
      BY <1>0, <3>1
    <3> QED BY <1>0, <2>1, <3>1
  <2> QED BY <1>0, <2>1, <2>2, <2>3, <2>4 DEF Types, ServerTypes, PageTypes, WireTypes
<1>3. ASSUME NEW p \in Pages, NEW n \in RpcNo, Finish(p, n) PROVE Types'
  <2>1. /\ running[p][n] > 0 /\ running' = [running EXCEPT ![p][n] = @ - 1]
        /\ seq' = seq + 1 /\ UNCHANGED <<client, link, opened, up, unsure, count>>
        /\ log' \in Seq(Write) /\ acks' \in Seq(Env) /\ down' \in [Pages -> Seq(Env)]
        /\ astray' \subseteq Write
    BY <1>3, FinishParts
  <2>2. running' \in [Pages -> [RpcNo -> Nat]]  BY <1>0, <2>1
  <2>3. seq' \in Nat  BY <1>0, <2>1
  <2> QED BY <1>0, <2>1, <2>2, <2>3 DEF Types, ServerTypes, PageTypes, WireTypes
<1>4. ASSUME NEW p \in Pages, Connect(p) PROVE Types'
  <2>1. seq' \in Nat /\ down' \in [Pages -> Seq(Env)]  BY <1>0, <1>4, ConnectParts, FullToParts
  <2>2. /\ link' = [link EXCEPT ![p] = "opening"]
        /\ document' = [document EXCEPT ![p] = IF @ = "ssr" THEN "held" ELSE @]
        /\ UNCHANGED <<log, acks, running, astray, store, used, outcome, opened, up, unsure, count>>
    BY <1>4, ConnectParts
  <2> QED BY <1>0, <2>1, <2>2 DEF Types, ServerTypes, PageTypes, WireTypes
<1>5. ASSUME NEW p \in Pages, Opened(p) PROVE Types'
  <2>1. /\ link' = [link EXCEPT ![p] = "open"] /\ opened' = [opened EXCEPT ![p] = TRUE]
        /\ UNCHANGED <<server, client, down, count>>
        /\ up' \in [Pages -> Seq(Msg)] /\ unsure' \in [Pages -> SUBSET RpcNo]
    BY <1>5, OpenedParts
  <2> QED BY <1>0, <2>1 DEF Types, ServerTypes, PageTypes, WireTypes
<1>6. ASSUME NEW p \in Pages, Deliver(p) PROVE Types'
  <2> DEFINE env == Head(down[p])
             t == store'[p]
  <2>1. /\ UNCHANGED <<server, document, used, link, opened, unsure>>
        /\ down[p] # <<>> /\ down' = [down EXCEPT ![p] = Tail(@)]
        /\ env \in Env /\ store' = [store EXCEPT ![p] = t] /\ t \in Stores
        /\ count' \in [{"write", "drop", "lost", "corrupt"} -> Nat]
        /\ up' = up \/ up' = [up EXCEPT ![p] = Append(@, Resync)]
        /\ \/ UNCHANGED outcome
           \/ /\ env.ack # 0
              /\ outcome' = [outcome EXCEPT ![p][env.ack] = IF env.ok THEN "ok" ELSE "error"]
    BY <1>6, DeliverParts
  <2> HIDE DEF t, env
  <2>2. Tail(down[p]) \in Seq(Env)  BY <1>0, <2>1, Dropped
  <2>3. down' \in [Pages -> Seq(Env)]  BY <1>0, <2>1, <2>2
  <2>4. Append(up[p], Resync) \in Seq(Msg)  BY <1>0, ResyncIs, Appended
  <2>5. up' \in [Pages -> Seq(Msg)]  BY <1>0, <2>1, <2>4
  <2>6. env.ack # 0 => env.ack \in RpcNo  BY <2>1, ConstantTypes DEF Env, RpcNo
  <2>7. outcome' \in [Pages -> [RpcNo -> {"none", "ok", "error"}]]
    <3> DEFINE v == IF env.ok THEN "ok" ELSE "error"
    <3>1. v \in {"none", "ok", "error"}  OBVIOUS
    <3>2. \/ UNCHANGED outcome
          \/ env.ack \in RpcNo /\ outcome' = [outcome EXCEPT ![p][env.ack] = v]
      BY <2>1, <2>6
    <3> HIDE DEF v
    <3>3. CASE UNCHANGED outcome  BY <1>0, <3>3
    <3>4. CASE env.ack \in RpcNo /\ outcome' = [outcome EXCEPT ![p][env.ack] = v]
      BY <1>0, <3>1, <3>4, NestedExcept
    <3> QED BY <3>2, <3>3, <3>4
  <2>8. store' \in [Pages -> Stores]  BY <1>0, <2>1
  <2> QED BY <1>0, <2>1, <2>3, <2>5, <2>7, <2>8 DEF Types, ServerTypes, PageTypes, WireTypes
<1>7. ASSUME NEW p \in Pages, Load(p) PROVE Types'
  <2>1. /\ UNCHANGED <<server, used, outcome, link, opened, down, up, unsure, count>>
        /\ \E v \in {"ssr", "held", "bare"} : document' = [document EXCEPT ![p] = v]
        /\ UNCHANGED store \/ (store' = [store EXCEPT ![p] = store'[p]] /\ store'[p] \in Stores)
    BY <1>7, LoadParts
  <2>2. store' \in [Pages -> Stores]
    <3> DEFINE t == store'[p]
    <3>1. UNCHANGED store \/ (store' = [store EXCEPT ![p] = t] /\ t \in Stores)  BY <2>1
    <3> HIDE DEF t
    <3> QED BY <1>0, <3>1
  <2>3. document' \in [Pages -> {"new", "ssr", "bare", "held", "closed"}]  BY <1>0, <2>1
  <2> QED BY <1>0, <2>1, <2>2, <2>3 DEF Types, ServerTypes, PageTypes, WireTypes
<1>8. ASSUME NEW p \in Pages, Bind(p) PROVE Types'
  <2>1. Append(up[p], Resync) \in Seq(Msg)  BY <1>0, ResyncIs, Appended
  <2> QED BY <1>0, <1>8, <2>1 DEF Types, ServerTypes, PageTypes, WireTypes, Bind
<1>9. ASSUME NEW p \in Pages, Call(p) PROVE Types'
  <2> DEFINE t == store'[p]
  <2>1. /\ used[p] + 1 \in RpcNo /\ used' = [used EXCEPT ![p] = used[p] + 1]
        /\ UNCHANGED <<server, document, outcome, link, opened, down, unsure, count>>
        /\ store' = [store EXCEPT ![p] = t] /\ t \in Stores
        /\ up' \in [Pages -> Seq(Msg)]
    BY <1>9, CallParts
  <2> HIDE DEF t
  <2>2. store' \in [Pages -> Stores] /\ used' \in [Pages -> 0 .. MaxCalls]
    BY <1>0, <2>1, ConstantTypes
  <2> QED BY <1>0, <2>1, <2>2 DEF Types, ServerTypes, PageTypes, WireTypes
<1>10. ASSUME NEW p \in Pages, CutOff(p), UNCHANGED <<server, store, used, outcome, opened, unsure>>,
              document' \in [Pages -> {"new", "ssr", "bare", "held", "closed"}],
              count' \in [{"write", "drop", "lost", "corrupt"} -> Nat]
       PROVE  Types'
  <2>1. <<>> \in Seq(Env) /\ <<>> \in Seq(Msg)  OBVIOUS
  <2> QED BY <1>0, <1>10, <2>1 DEF Types, ServerTypes, PageTypes, WireTypes, CutOff
<1>11. ASSUME NEW p \in Pages, Drop(p) PROVE Types'
  <2>1. count' \in [{"write", "drop", "lost", "corrupt"} -> Nat]  BY <1>0, <1>11, UsedStep DEF Drop
  <2>2. CutOff(p) /\ UNCHANGED <<server, store, used, outcome, opened, unsure, document>>
    BY <1>11 DEF Drop
  <2> QED BY <1>0, <1>10, <2>1, <2>2
<1>12. ASSUME NEW p \in Pages, LosePost(p) PROVE Types'
  <2>1. /\ UNCHANGED <<server, client, link, opened, down>>
        /\ count' \in [{"write", "drop", "lost", "corrupt"} -> Nat]
        /\ up' \in [Pages -> Seq(Msg)] /\ unsure' \in [Pages -> SUBSET RpcNo]
    BY <1>12, LosePostParts
  <2> QED BY <1>0, <2>1 DEF Types, ServerTypes, PageTypes, WireTypes
<1>13. ASSUME NEW p \in Pages, Close(p) PROVE Types'
  <2>1. document' \in [Pages -> {"new", "ssr", "bare", "held", "closed"}]  BY <1>0, <1>13 DEF Close
  <2>2. CutOff(p) /\ UNCHANGED <<server, store, used, outcome, opened, unsure, count>>
    BY <1>13 DEF Close
  <2> QED BY <1>0, <1>10, <2>1, <2>2
<1>14. CASE UNCHANGED syncVars  BY <1>0, <1>14 DEF Types, ServerTypes, PageTypes, WireTypes, syncVars
<1> QED BY <1>1, <1>2, <1>3, <1>4, <1>5, <1>6, <1>7, <1>8, <1>9, <1>11, <1>12, <1>13, <1>14
        DEF SyncNext, Serve, Stream

-----------------------------------------------------------------------------
(* The life of a page                                                      *)

Lives ==
    \A p \in Pages :
        /\ link[p] = "down" => down[p] = <<>>
        /\ document[p] \in {"new", "closed", "ssr"} => link[p] = "down"
        /\ document[p] \in {"new", "bare"} => store[p].awaiting /\ Range(store[p].ops) = {}
        /\ document[p] = "ssr" => ~store[p].awaiting

LEMMA LivesStep ==
    ASSUME Types, Lives, [SyncNext]_syncVars
    PROVE  Lives'
<1>0. /\ store \in [Pages -> Stores] /\ link \in [Pages -> {"down", "opening", "open"}]
      /\ document \in [Pages -> {"new", "ssr", "bare", "held", "closed"}]
      /\ down \in [Pages -> Seq(Env)]
  BY DEF Types, PageTypes, WireTypes
<1> USE DEF client
<1>1. CASE OtherWrite
  <2>1. PICK env \in Env : down' = SentTo(down, env, {})  BY <1>1, OtherWriteParts
  <2>2. UNCHANGED <<client, link>>  BY <1>1, OtherWriteParts
  <2> QED BY <2>1, <2>2, SentToParts DEF Lives
<1>2. ASSUME NEW p \in Pages, Arrive(p) PROVE Lives'
  <2>1. \/ \E env \in Env : down' = SentTo(down, env, {})
        \/ UNCHANGED down
    BY <1>2, ArriveParts, FullToParts, FullIs
  <2>2. UNCHANGED <<client, link>>  BY <1>2, ArriveParts
  <2> QED BY <2>1, <2>2, SentToParts DEF Lives
<1>3. ASSUME NEW p \in Pages, NEW n \in RpcNo, Finish(p, n) PROVE Lives'
  <2>1. PICK env \in Env : down' = SentTo(down, env, {})  BY <1>3, FinishParts
  <2>2. UNCHANGED <<client, link>>  BY <1>3, FinishParts
  <2>3. \A q \in Pages : link[q] = "down" => down'[q] = down[q]  BY <2>1, SentToParts
  <2> QED BY <2>2, <2>3 DEF Lives
<1>4. ASSUME NEW p \in Pages, Connect(p) PROVE Lives'
  <2>1. /\ document[p] \notin {"new", "closed"} /\ link' = [link EXCEPT ![p] = "opening"]
        /\ document' = [document EXCEPT ![p] = IF @ = "ssr" THEN "held" ELSE @] /\ UNCHANGED store
        /\ UNCHANGED down \/ down' = SentTo(down, Full(seq + 1, log), {p})
    BY <1>4, ConnectParts, FullToParts
  <2>2. Full(seq + 1, log) \in Env  BY FullIs
  <2>3. \A q \in Pages : link'[q] = "down" => q # p /\ link[q] = "down" /\ down'[q] = down[q]
    BY <1>0, <2>1, <2>2, SentToParts
  <2>4. \A q \in Pages : /\ document'[q] # "ssr" \/ document[q] = "ssr"
                         /\ document'[q] \in {"new", "bare"} => document[q] \in {"new", "bare"}
                         /\ document'[q] \in {"new", "closed", "ssr"} =>
                              q # p /\ document'[q] = document[q] /\ link'[q] = link[q]
    BY <1>0, <2>1
  <2> QED BY <2>1, <2>3, <2>4 DEF Lives
<1>5. ASSUME NEW p \in Pages, Opened(p) PROVE Lives'
  <2>1. /\ link[p] = "opening" /\ link' = [link EXCEPT ![p] = "open"]
        /\ UNCHANGED <<document, store, down>>
    BY <1>5, OpenedParts
  <2> QED BY <1>0, <2>1 DEF Lives
<1>6. ASSUME NEW p \in Pages, Deliver(p) PROVE Lives'
  <2> DEFINE t == store'[p]
  <2>1. /\ UNCHANGED <<document, link>> /\ link[p] = "open"
        /\ down' = [down EXCEPT ![p] = Tail(@)] /\ store' = [store EXCEPT ![p] = t]
        /\ UNCHANGED store \/ document[p] = "held"
    BY <1>6, DeliverParts
  <2> HIDE DEF t
  <2>2. \A q \in Pages : q # p => down'[q] = down[q] /\ store'[q] = store[q]  BY <1>0, <2>1
  <2>3. \A q \in Pages : document[q] # "held" => store'[q] = store[q]  BY <1>0, <2>1
  <2> QED BY <2>1, <2>2, <2>3 DEF Lives
<1>7. ASSUME NEW p \in Pages, Load(p) PROVE Lives'
  <2>1. document[p] = "new" /\ UNCHANGED <<link, down>>  BY <1>7, LoadParts
  <2>2. link[p] = "down" /\ store[p].awaiting /\ Range(store[p].ops) = {}
    BY <2>1 DEF Lives
  <2>3. \A q \in Pages : q # p => store'[q] = store[q] /\ document'[q] = document[q]
    <3> DEFINE t == store'[p]
    <3>1. /\ UNCHANGED store \/ store' = [store EXCEPT ![p] = t]
          /\ \E v : document' = [document EXCEPT ![p] = v]
      BY <1>7, LoadParts
    <3> HIDE DEF t
    <3> QED BY <1>0, <3>1
  <2>4. \/ document'[p] = "ssr" /\ ~store'[p].awaiting
        \/ document'[p] \in {"held", "bare"} /\ UNCHANGED store
    BY <1>0, <1>7, LoadParts
  <2> QED BY <2>1, <2>2, <2>3, <2>4 DEF Lives
<1>8. ASSUME NEW p \in Pages, Bind(p) PROVE Lives'
  BY <1>0, <1>8 DEF Bind, Lives
<1>9. ASSUME NEW p \in Pages, Call(p) PROVE Lives'
  <2> DEFINE t == store'[p]
  <2>1. /\ document[p] \in {"ssr", "held"} /\ UNCHANGED <<document, link, down>>
        /\ store' = [store EXCEPT ![p] = t] /\ t.awaiting = store[p].awaiting
    BY <1>9, CallParts
  <2> HIDE DEF t
  <2>2. \A q \in Pages : q # p => store'[q] = store[q]  BY <1>0, <2>1
  <2>3. store'[p].awaiting = store[p].awaiting  BY <1>0, <2>1
  <2> QED BY <2>1, <2>2, <2>3 DEF Lives
<1>10. ASSUME NEW p \in Pages, CutOff(p), UNCHANGED store,
              UNCHANGED document \/ document' = [document EXCEPT ![p] = "closed"]
       PROVE  Lives'
  <2>1. link'[p] = "down" /\ down'[p] = <<>>  BY <1>0, <1>10 DEF CutOff
  <2>2. \A q \in Pages : q # p => link'[q] = link[q] /\ down'[q] = down[q] /\ document'[q] = document[q]
    BY <1>0, <1>10 DEF CutOff
  <2>3. document'[p] \in {document[p], "closed"}  BY <1>0, <1>10
  <2> QED BY <1>10, <2>1, <2>2, <2>3 DEF Lives
<1>11. ASSUME NEW p \in Pages, Drop(p) PROVE Lives'  BY <1>10, <1>11 DEF Drop
<1>12. ASSUME NEW p \in Pages, LosePost(p) PROVE Lives'
  BY <1>12 DEF LosePost, Lives
<1>13. ASSUME NEW p \in Pages, Close(p) PROVE Lives'  BY <1>10, <1>13 DEF Close
<1>14. CASE UNCHANGED syncVars  BY <1>14 DEF syncVars, Lives
<1> QED BY <1>1, <1>2, <1>3, <1>4, <1>5, <1>6, <1>7, <1>8, <1>9, <1>11, <1>12, <1>13, <1>14
        DEF SyncNext, Serve, Stream

-----------------------------------------------------------------------------
(* The calls of a page *)

(* What is pending has been called, and has not settled.                   *)
Pending ==
    \A p \in Pages : \A n \in RpcNo :
        /\ n \in Range(store[p].ops) => n <= used[p]
        /\ n \in Range(store[p].ops) \/ n > used[p] => outcome[p][n] = "none"

LEMMA LoadOps ==
    ASSUME Types, Lives, NEW p \in Pages, Load(p)
    PROVE  \A q \in Pages : Range(store'[q].ops) = Range(store[q].ops)
<1> DEFINE t == store'[p]
<1>1. /\ document[p] = "new"
      /\ UNCHANGED store \/ (store' = [store EXCEPT ![p] = t] /\ Range(t.ops) = {})
  BY LoadParts
<1>2. Range(store[p].ops) = {}  BY <1>1 DEF Lives
<1>3. store \in [Pages -> Stores]  BY DEF Types, PageTypes
<1> HIDE DEF t
<1> QED BY <1>1, <1>2, <1>3

(* Only a call and a delivery touch what is pending.                       *)
LEMMA OpsStay ==
    ASSUME Types, Lives, [SyncNext]_syncVars,
           ~ \E p \in Pages : Call(p) \/ Deliver(p)
    PROVE  /\ UNCHANGED <<used, outcome>>
           /\ \A p \in Pages : Range(store'[p].ops) = Range(store[p].ops)
<1>1. CASE OtherWrite  BY <1>1 DEF OtherWrite, client
<1>2. ASSUME NEW p \in Pages, Serve(p) PROVE UNCHANGED client
  BY <1>2 DEF Serve, Arrive, Finish
<1>3. ASSUME NEW p \in Pages, Load(p)
      PROVE  /\ UNCHANGED <<used, outcome>>
             /\ \A q \in Pages : Range(store'[q].ops) = Range(store[q].ops)
  BY <1>3, LoadParts, LoadOps
<1>4. ASSUME NEW p \in Pages, Connect(p) \/ Opened(p) \/ Bind(p) \/ Drop(p) \/ LosePost(p) \/ Close(p)
      PROVE  UNCHANGED <<store, used, outcome>>
  BY <1>4 DEF Connect, Opened, Bind, Drop, LosePost, Close, client
<1>5. CASE UNCHANGED syncVars  BY <1>5 DEF syncVars, client
<1>6. CASE UNCHANGED <<store, used, outcome>>  BY <1>6
<1> QED BY <1>1, <1>2, <1>3, <1>4, <1>5, <1>6 DEF SyncNext, Stream, client

LEMMA PendingStep ==
    ASSUME Types, Lives, Pending, [SyncNext]_syncVars
    PROVE  Pending'
<1>0. /\ store \in [Pages -> Stores] /\ used \in [Pages -> 0 .. MaxCalls]
      /\ outcome \in [Pages -> [RpcNo -> {"none", "ok", "error"}]]
  BY DEF Types, PageTypes
<1>1. CASE ~ \E p \in Pages : Call(p) \/ Deliver(p)
  <2>1. /\ UNCHANGED <<used, outcome>>
        /\ \A p \in Pages : Range(store'[p].ops) = Range(store[p].ops)
    BY <1>1, OpsStay
  <2> QED BY <2>1 DEF Pending
<1>2. ASSUME NEW p \in Pages, Call(p) PROVE Pending'
  <2> DEFINE t == store'[p]
             n == used[p] + 1
  <2>1. /\ n \in RpcNo /\ used' = [used EXCEPT ![p] = n] /\ UNCHANGED outcome
        /\ store' = [store EXCEPT ![p] = t] /\ Range(t.ops) = Range(store[p].ops) \cup {n}
    BY <1>2, CallParts
  <2>2. used[p] \in Nat /\ n > used[p] /\ \A m \in RpcNo : m > n => m > used[p]
    BY <1>0, ConstantTypes DEF RpcNo
  <2>3. \A m \in RpcNo : m <= used[p] => m <= n  BY <1>0, ConstantTypes DEF RpcNo
  <2> HIDE DEF t
  <2>4. /\ Range(store'[p].ops) = Range(store[p].ops) \cup {n} /\ used'[p] = n
        /\ \A q \in Pages \ {p} : store'[q] = store[q] /\ used'[q] = used[q]
    BY <1>0, <2>1
  <2>5. outcome[p][n] = "none"  BY <2>1, <2>2 DEF Pending
  <2>6. n \in Nat /\ n <= n  BY <2>2
  <2> HIDE DEF n
  <2>7. ASSUME NEW m \in RpcNo
        PROVE  /\ m \in Range(store'[p].ops) => m <= used'[p]
               /\ m \in Range(store'[p].ops) \/ m > used'[p] => outcome'[p][m] = "none"
    <3>1. CASE m \in Range(store[p].ops)  BY <2>1, <2>3, <2>4, <3>1 DEF Pending
    <3>2. CASE m = n  BY <2>1, <2>4, <2>5, <2>6, <3>2
    <3>3. CASE m \notin Range(store[p].ops) /\ m # n
      BY <2>1, <2>2, <2>4, <3>3 DEF Pending
    <3> QED BY <3>1, <3>2, <3>3
  <2> QED BY <2>1, <2>4, <2>7 DEF Pending
<1>3. ASSUME NEW p \in Pages, Deliver(p) PROVE Pending'
  <2> DEFINE t == store'[p]
             env == Head(down[p])
  <2>1. /\ UNCHANGED used /\ store' = [store EXCEPT ![p] = t] /\ env \in Env
        /\ \/ UNCHANGED <<store, outcome>>
           \/ /\ Range(t.ops) = Range(store[p].ops) \ {env.ack}
              /\ outcome' = IF env.ack # 0 /\ env.ack \in Range(store[p].ops)
                            THEN [outcome EXCEPT ![p][env.ack] = IF env.ok THEN "ok" ELSE "error"]
                            ELSE outcome
    BY <1>3, DeliverParts
  <2> DEFINE v == IF env.ok THEN "ok" ELSE "error"
  <2>2. v \in {"none", "ok", "error"}  OBVIOUS
  <2> HIDE DEF t, v, env
  <2>3. env.ack # 0 => env.ack \in RpcNo  BY <2>1, ConstantTypes DEF Env, RpcNo
  <2>4. /\ \A q \in Pages \ {p} : store'[q] = store[q]
        /\ UNCHANGED <<store, outcome>> \/ Range(store'[p].ops) = Range(store[p].ops) \ {env.ack}
    BY <1>0, <2>1
  <2>5. CASE UNCHANGED <<store, outcome>>  BY <2>1, <2>5 DEF Pending
  <2>6. CASE ~UNCHANGED <<store, outcome>> /\ UNCHANGED outcome
    BY <2>1, <2>4, <2>6 DEF Pending
  <2>7. CASE /\ ~UNCHANGED <<store, outcome>>
             /\ env.ack # 0 /\ env.ack \in Range(store[p].ops)
             /\ outcome' = [outcome EXCEPT ![p][env.ack] = v]
    <3>1. env.ack \in RpcNo  BY <2>3, <2>7
    <3>2. \A q \in Pages, m \in RpcNo :
            q # p \/ m # env.ack => outcome'[q][m] = outcome[q][m]
      BY <1>0, <2>2, <2>7, <3>1, NestedExcept
    <3>3. env.ack <= used[p]  BY <2>7, <3>1 DEF Pending
    <3>4. ~ (env.ack > used[p])  BY <1>0, <3>1, <3>3, ConstantTypes DEF RpcNo
    <3> QED BY <2>1, <2>4, <2>7, <3>1, <3>2, <3>4 DEF Pending
  <2> QED BY <2>1, <2>5, <2>6, <2>7 DEF v
<1> QED BY <1>1, <1>2, <1>3

-----------------------------------------------------------------------------
(* No call is forgotten *)

LEMMA CoveredIs ==
    ASSUME NEW p \in Pages, NEW n
    PROVE  /\ Covered(p, n) <=> \/ BatchMsg(n) \in Range(up[p])
                                \/ running[p][n] > 0
                                \/ \E env \in Range(down[p]) : env.ack = n
           /\ Covered(p, n)' <=> \/ BatchMsg(n) \in Range(up'[p])
                                 \/ running'[p][n] > 0
                                 \/ \E env \in Range(down'[p]) : env.ack = n
BY DEF Covered, Range, BatchMsg

LEMMA SentToRange ==
    ASSUME Types, NEW env \in Env, NEW J
    PROVE  \A p \in Pages :
              /\ Range(down[p]) \subseteq Range(SentTo(down, env, J)[p])
              /\ link[p] # "down" \/ p \in J => env \in Range(SentTo(down, env, J)[p])
<1>1. down \in [Pages -> Seq(Env)]  BY DEF Types, WireTypes
<1>2. \A p \in Pages : Range(Append(down[p], env)) = Range(down[p]) \cup {env}
  BY <1>1, Appended
<1> QED BY <1>2, SentToParts

Calls(p) ==
    link[p] = "open" => \A n \in Range(store[p].ops) \ unsure[p] : Covered(p, n)

(* The calls of a page whose stream, requests and runs keep what they have.*)
LEMMA CallsKept ==
    ASSUME Types, NEW p \in Pages, Calls(p), link'[p] = "open" => link[p] = "open",
           Range(store'[p].ops) \subseteq Range(store[p].ops), unsure[p] \subseteq unsure'[p],
           \A n \in RpcNo \ unsure'[p] : Covered(p, n) => Covered(p, n)'
    PROVE  Calls(p)'
<1>1. store[p].ops \in Seq(RpcNo)  BY DEF Types, PageTypes, Stores
<1>2. Range(store[p].ops) \subseteq RpcNo  BY <1>1, RangeOfSeq
<1> QED BY <1>2 DEF Calls

LEMMA CallsStep ==
    ASSUME Types, Lives, [SyncNext]_syncVars, NEW q \in Pages, Calls(q)
    PROVE  Calls(q)'
<1>0. /\ store \in [Pages -> Stores] /\ link \in [Pages -> {"down", "opening", "open"}]
      /\ unsure \in [Pages -> SUBSET RpcNo] /\ running \in [Pages -> [RpcNo -> Nat]]
      /\ up \in [Pages -> Seq(Msg)] /\ down \in [Pages -> Seq(Env)]
      /\ Range(store[q].ops) \subseteq RpcNo
  <2>1. store[q].ops \in Seq(RpcNo)  BY DEF Types, PageTypes, Stores
  <2> QED BY <2>1, RangeOfSeq DEF Types, ServerTypes, PageTypes, WireTypes
<1> USE DEF server, client
<1>1. CASE OtherWrite
  <2>1. PICK env \in Env : down' = SentTo(down, env, {})  BY <1>1, OtherWriteParts
  <2>2. UNCHANGED <<store, link, unsure, running, up>>  BY <1>1, OtherWriteParts
  <2>3. Range(down[q]) \subseteq Range(down'[q])  BY <2>1, SentToRange
  <2> QED BY <2>2, <2>3, CallsKept, CoveredIs
<1>2. ASSUME NEW p \in Pages, Arrive(p) PROVE Calls(q)'
  <2>1. UNCHANGED <<store, link, unsure>>  BY <1>2, ArriveParts
  <2>2. PICK msg \in Range(up[p]) :
          /\ \A r \in Pages \ {p} : up'[r] = up[r]
          /\ Range(up[p]) \subseteq Range(up'[p]) \cup {msg}
          /\ \/ /\ msg = Resync /\ FullTo({}) /\ UNCHANGED running
             \/ /\ \E env \in Range(acks) :
                      env \in Env /\ env.ack = msg.n /\ down' = SentTo(down, env, {})
                /\ msg.n \in RpcNo /\ msg = BatchMsg(msg.n) /\ UNCHANGED running
             \/ /\ running' = [running EXCEPT ![p][msg.n] = @ + 1]
                /\ msg.n \in RpcNo /\ msg = BatchMsg(msg.n) /\ UNCHANGED down
    BY <1>2, ArriveParts
  <2>3. /\ \A n \in RpcNo : running[q][n] > 0 => running'[q][n] > 0
        /\ Range(down[q]) \subseteq Range(down'[q])
    <3>1. CASE UNCHANGED running /\ \E env \in Env : down' = SentTo(down, env, {})
      BY <3>1, SentToRange
    <3>2. CASE /\ running' = [running EXCEPT ![p][msg.n] = @ + 1]
               /\ msg.n \in RpcNo /\ UNCHANGED down
      <4>1. running[p][msg.n] + 1 \in Nat /\ running[p][msg.n] + 1 > 0  BY <1>0, <3>2
      <4>2. \A n \in RpcNo :
              running'[q][n] = IF q = p /\ n = msg.n THEN running[p][msg.n] + 1 ELSE running[q][n]
        BY <1>0, <3>2
      <4> QED BY <3>2, <4>1, <4>2
    <3>3. FullTo({}) => \E env \in Env : down' = SentTo(down, env, {})
      BY FullToParts, FullIs
    <3> QED BY <2>2, <3>1, <3>2, <3>3
  <2>4. ASSUME NEW n \in RpcNo, link[q] = "open", Covered(q, n) PROVE Covered(q, n)'
    <3>1. CASE BatchMsg(n) \in Range(up'[q])  BY <3>1, CoveredIs
    <3>2. CASE running[q][n] > 0  BY <2>3, <3>2, CoveredIs
    <3>3. CASE \E env \in Range(down[q]) : env.ack = n  BY <2>3, <3>3, CoveredIs
    <3>4. CASE q = p /\ msg = BatchMsg(n)
      <4>1. msg # Resync /\ msg.n = n  BY <3>4, BatchIs
      <4>2. CASE \E env \in Range(acks) :
                    env \in Env /\ env.ack = n /\ down' = SentTo(down, env, {})
        <5>1. PICK env \in Env : env.ack = n /\ down' = SentTo(down, env, {})  BY <4>2
        <5>2. env \in Range(down'[q])  BY <2>4, <5>1, SentToRange
        <5> QED BY <5>1, <5>2, CoveredIs
      <4>3. CASE running' = [running EXCEPT ![p][n] = @ + 1]
        <5>1. running'[p][n] = running[p][n] + 1 /\ running[p][n] \in Nat  BY <1>0, <4>3
        <5>2. running'[q][n] > 0  BY <3>4, <5>1
        <5> QED BY <5>2, CoveredIs
      <4> QED BY <2>2, <4>1, <4>2, <4>3
    <3>5. BatchMsg(n) \in Range(up[q]) => BatchMsg(n) \in Range(up'[q]) \/ (q = p /\ msg = BatchMsg(n))
      BY <2>2
    <3> QED BY <2>4, <3>1, <3>2, <3>3, <3>4, <3>5, CoveredIs
  <2> QED BY <1>0, <2>1, <2>4 DEF Calls
<1>3. ASSUME NEW p \in Pages, NEW n \in RpcNo, Finish(p, n) PROVE Calls(q)'
  <2>1. PICK env \in Env :
          /\ ~env.full /\ env.seq = seq + 1 /\ env.ack = n
          /\ log' = log \o env.writes /\ log' \in Seq(Write)
          /\ down' = SentTo(down, env, {}) /\ down' \in [Pages -> Seq(Env)]
    BY <1>3, FinishParts
  <2>2. /\ UNCHANGED <<store, link, unsure, up>>
        /\ running' = [running EXCEPT ![p][n] = @ - 1]
    BY <1>3, FinishParts
  <2>3. \A m \in RpcNo : (q # p \/ m # n) => running'[q][m] = running[q][m]
    BY <1>0, <2>2
  <2>4. ASSUME NEW m \in RpcNo, link[q] = "open", Covered(q, m) PROVE Covered(q, m)'
    <3>1. CASE q = p /\ m = n
      <4>1. env \in Range(down'[q])  BY <2>1, <2>4, SentToRange
      <4> QED BY <2>1, <3>1, <4>1, CoveredIs
    <3>2. CASE ~ (q = p /\ m = n)
      <4>1. Range(down[q]) \subseteq Range(down'[q])  BY <2>1, SentToRange
      <4>2. running'[q][m] = running[q][m] /\ UNCHANGED up  BY <2>2, <2>3, <3>2
      <4> QED BY <2>4, <4>1, <4>2, CoveredIs
    <3> QED BY <3>1, <3>2
  <2> QED BY <1>0, <2>2, <2>4 DEF Calls
<1>4. ASSUME NEW p \in Pages, Connect(p) PROVE Calls(q)'
  <2>1. /\ link' = [link EXCEPT ![p] = "opening"] /\ UNCHANGED <<running, store, up, unsure>>
        /\ UNCHANGED down \/ down' = SentTo(down, Full(seq + 1, log), {p})
    BY <1>4, ConnectParts, FullToParts
  <2>2. Range(down[q]) \subseteq Range(down'[q])  BY <2>1, SentToRange, FullIs
  <2>3. link'[q] = "open" => link[q] = "open"  BY <1>0, <2>1
  <2> QED BY <2>1, <2>2, <2>3, CallsKept, CoveredIs
<1>5. ASSUME NEW p \in Pages, Opened(p) PROVE Calls(q)'
  <2>1. /\ link' = [link EXCEPT ![p] = "open"] /\ UNCHANGED <<server, client, down, count>>
        /\ \A r \in Pages \ {p} : up'[r] = up[r]
        /\ \A r \in Pages \ {p} : unsure'[r] = unsure[r]
        /\ \A n \in Range(store[p].ops) : n \in unsure'[p] \/ BatchMsg(n) \in Range(up'[p])
    BY <1>5, OpenedParts
  <2>2. CASE q = p
    <3>1. \A n \in Range(store'[q].ops) \ unsure'[q] : BatchMsg(n) \in Range(up'[q])
      BY <2>1, <2>2
    <3> QED BY <3>1, CoveredIs DEF Calls
  <2>3. CASE q # p
    <3>1. link'[q] = link[q] /\ up'[q] = up[q] /\ unsure'[q] = unsure[q]  BY <1>0, <2>1, <2>3
    <3> QED BY <2>1, <3>1, CallsKept, CoveredIs
  <2> QED BY <2>2, <2>3
<1>6. ASSUME NEW p \in Pages, Deliver(p) PROVE Calls(q)'
  <2> DEFINE t == store'[p]
             env == Head(down[p])
  <2>1. /\ UNCHANGED <<running, link, unsure>> /\ down[p] # <<>>
        /\ down' = [down EXCEPT ![p] = Tail(@)] /\ store' = [store EXCEPT ![p] = t]
        /\ up' = up \/ up' = [up EXCEPT ![p] = Append(@, Resync)]
        /\ \/ document[p] = "bare" /\ UNCHANGED <<store, outcome, up>>
           \/ Range(t.ops) = Range(store[p].ops) \ {env.ack}
    BY <1>6, DeliverParts
  <2> HIDE DEF t, env
  <2>2. Range(up[q]) \subseteq Range(up'[q])
    <3>1. Range(Append(up[p], Resync)) = Range(up[p]) \cup {Resync}
      BY <1>0, ResyncIs, Appended
    <3> QED BY <1>0, <2>1, <3>1
  <2>3. CASE q # p
    <3>1. down'[q] = down[q] /\ store'[q] = store[q]  BY <1>0, <2>1, <2>3
    <3> QED BY <2>1, <2>2, <3>1, CallsKept, CoveredIs
  <2>4. CASE q = p
    <3>1. Range(down[p]) = Range(down'[p]) \cup {env}
      BY <1>0, <2>1, Dropped DEF env
    <3>2. Range(store'[p].ops) \subseteq Range(store[p].ops) \ {env.ack}
      <4>1. CASE document[p] = "bare" /\ UNCHANGED store  BY <4>1 DEF Lives
      <4>2. CASE Range(t.ops) = Range(store[p].ops) \ {env.ack}  BY <1>0, <2>1, <4>2
      <4> QED BY <2>1, <4>1, <4>2
    <3>3. \A n \in Range(store'[p].ops) : Covered(p, n) => Covered(p, n)'
      BY <2>1, <2>2, <2>4, <3>1, <3>2, CoveredIs
    <3> QED BY <2>1, <2>4, <3>2, <3>3 DEF Calls
  <2> QED BY <2>3, <2>4
<1>7. ASSUME NEW p \in Pages, Load(p) PROVE Calls(q)'
  <2>1. UNCHANGED <<running, link, up, down, unsure>>  BY <1>7, LoadParts
  <2>2. Range(store'[q].ops) = Range(store[q].ops)
    BY <1>7, LoadOps
  <2> QED BY <2>1, <2>2, CallsKept, CoveredIs
<1>8. ASSUME NEW p \in Pages, Bind(p) PROVE Calls(q)'
  <2>1. up' = [up EXCEPT ![p] = Append(@, Resync)] /\ UNCHANGED <<running, store, link, down, unsure>>
    BY <1>8 DEF Bind
  <2>2. Range(Append(up[p], Resync)) = Range(up[p]) \cup {Resync}
    BY <1>0, ResyncIs, Appended
  <2>3. Range(up[q]) \subseteq Range(up'[q])  BY <1>0, <2>1, <2>2
  <2> QED BY <2>1, <2>3, CallsKept, CoveredIs
<1>9. ASSUME NEW p \in Pages, Call(p) PROVE Calls(q)'
  <2> DEFINE t == store'[p]
  <2>1. PICK n \in RpcNo :
        /\ UNCHANGED <<running, link, down, unsure>> /\ store' = [store EXCEPT ![p] = t]
        /\ Range(t.ops) = Range(store[p].ops) \cup {n}
        /\ \A r \in Pages \ {p} : up'[r] = up[r]
        /\ Range(up[p]) \subseteq Range(up'[p])
        /\ link[p] = "open" => BatchMsg(n) \in Range(up'[p])
    BY <1>9, CallParts
  <2> HIDE DEF t
  <2>2. Range(up[q]) \subseteq Range(up'[q])  BY <2>1
  <2>3. CASE q # p
    <3>1. store'[q] = store[q]  BY <1>0, <2>1, <2>3
    <3> QED BY <2>1, <2>2, <3>1, CallsKept, CoveredIs
  <2>4. CASE q = p
    <3>1. Range(store'[q].ops) = Range(store[q].ops) \cup {n}  BY <1>0, <2>1, <2>4
    <3>2. \A m \in RpcNo : Covered(q, m) => Covered(q, m)'  BY <2>1, <2>2, CoveredIs
    <3>3. link[q] = "open" => Covered(q, n)'  BY <2>1, <2>4, CoveredIs
    <3> QED BY <1>0, <2>1, <2>4, <3>1, <3>2, <3>3 DEF Calls
  <2> QED BY <2>3, <2>4
<1>10. ASSUME NEW p \in Pages, CutOff(p), UNCHANGED <<running, store, unsure>> PROVE Calls(q)'
  <2>1. CASE q = p
    <3>1. link'[q] = "down"  BY <1>0, <1>10, <2>1 DEF CutOff
    <3> QED BY <3>1 DEF Calls
  <2>2. CASE q # p
    <3>1. link'[q] = link[q] /\ up'[q] = up[q] /\ down'[q] = down[q]
      BY <1>0, <1>10, <2>2 DEF CutOff
    <3> QED BY <1>10, <3>1, CallsKept, CoveredIs
  <2> QED BY <2>1, <2>2
<1>11. ASSUME NEW p \in Pages, Drop(p) PROVE Calls(q)'  BY <1>10, <1>11 DEF Drop
<1>12. ASSUME NEW p \in Pages, LosePost(p) PROVE Calls(q)'
  <2>1. /\ UNCHANGED <<running, store, link, down>>
        /\ \A r \in Pages \ {p} : up'[r] = up[r]
        /\ \A r \in Pages \ {p} : unsure'[r] = unsure[r]
        /\ unsure[p] \subseteq unsure'[p]
        /\ \A n \in RpcNo : BatchMsg(n) \in Range(up[p]) =>
                               n \in unsure'[p] \/ BatchMsg(n) \in Range(up'[p])
    BY <1>12, LosePostParts
  <2>2. /\ unsure[q] \subseteq unsure'[q]
        /\ \A n \in RpcNo \ unsure'[q] :
              BatchMsg(n) \in Range(up[q]) => BatchMsg(n) \in Range(up'[q])
    BY <2>1
  <2>3. \A n \in RpcNo \ unsure'[q] : Covered(q, n) => Covered(q, n)'
    BY <2>1, <2>2, CoveredIs
  <2> QED BY <2>1, <2>2, <2>3, CallsKept
<1>13. ASSUME NEW p \in Pages, Close(p) PROVE Calls(q)'  BY <1>10, <1>13 DEF Close
<1>14. CASE UNCHANGED syncVars
  <2>1. UNCHANGED <<running, store, link, down, unsure, up>>  BY <1>14 DEF syncVars
  <2> QED BY <2>1, CallsKept, CoveredIs
<1> QED BY <1>1, <1>2, <1>3, <1>4, <1>5, <1>6, <1>7, <1>8, <1>9, <1>11, <1>12, <1>13, <1>14
        DEF SyncNext, Serve, Stream

(* A page that waits for a snapshot on its stream has one coming.          *)
Recovers(p) ==
    link[p] # "down" /\ document[p] = "held" /\ store[p].awaiting =>
        Resync \in Range(up[p]) \/ \E env \in Range(down[p]) : env.full

LEMMA RecoversStep ==
    ASSUME Types, Lives, [SyncNext]_syncVars, Transport = "ws" \/ MaxLost = 0,
           NEW q \in Pages, Recovers(q)
    PROVE  Recovers(q)'
<1>0. /\ store \in [Pages -> Stores] /\ link \in [Pages -> {"down", "opening", "open"}]
      /\ document \in [Pages -> {"new", "ssr", "bare", "held", "closed"}]
      /\ up \in [Pages -> Seq(Msg)] /\ down \in [Pages -> Seq(Env)]
  BY DEF Types, PageTypes, WireTypes
<1> USE DEF server, client
<1>1. CASE OtherWrite
  <2>1. PICK env \in Env : down' = SentTo(down, env, {})  BY <1>1, OtherWriteParts
  <2>2. UNCHANGED <<document, store, link, up>>  BY <1>1, OtherWriteParts
  <2>3. Range(down[q]) \subseteq Range(down'[q])  BY <2>1, SentToRange
  <2> QED BY <2>2, <2>3 DEF Recovers
<1>2. ASSUME NEW p \in Pages, Arrive(p) PROVE Recovers(q)'
  <2>1. UNCHANGED <<document, store, link>>  BY <1>2, ArriveParts
  <2>2. PICK msg \in Range(up[p]) :
          /\ \A r \in Pages \ {p} : up'[r] = up[r]
          /\ Range(up[p]) \subseteq Range(up'[p]) \cup {msg}
          /\ \/ msg = Resync /\ FullTo({})
             \/ /\ msg.n \in RpcNo /\ msg = BatchMsg(msg.n)
                /\ UNCHANGED down \/ \E env \in Env : down' = SentTo(down, env, {})
    BY <1>2, ArriveParts
  <2>3. CASE msg = Resync /\ FullTo({})
    <3> DEFINE env == Full(seq + 1, log)
    <3>1. env \in Env /\ env.full /\ down' = SentTo(down, env, {})
      BY <2>3, FullToParts, FullIs
    <3> HIDE DEF env
    <3>2. link[q] # "down" => env \in Range(down'[q])  BY <3>1, SentToRange
    <3> QED BY <2>1, <3>1, <3>2 DEF Recovers
  <2>4. CASE /\ msg.n \in RpcNo /\ msg = BatchMsg(msg.n)
             /\ UNCHANGED down \/ \E env \in Env : down' = SentTo(down, env, {})
    <3>1. msg # Resync  BY <2>4, BatchIs
    <3>2. Range(down[q]) \subseteq Range(down'[q])  BY <2>4, SentToRange
    <3>3. Resync \in Range(up[q]) => Resync \in Range(up'[q])  BY <2>2, <3>1
    <3> QED BY <2>1, <3>2, <3>3 DEF Recovers
  <2> QED BY <2>2, <2>3, <2>4
<1>3. ASSUME NEW p \in Pages, NEW n \in RpcNo, Finish(p, n) PROVE Recovers(q)'
  <2>1. PICK env \in Env : down' = SentTo(down, env, {})  BY <1>3, FinishParts
  <2>2. UNCHANGED <<document, store, link, up>>  BY <1>3, FinishParts
  <2>3. Range(down[q]) \subseteq Range(down'[q])  BY <2>1, SentToRange
  <2> QED BY <2>2, <2>3 DEF Recovers
<1>4. ASSUME NEW p \in Pages, Connect(p) PROVE Recovers(q)'
  <2>1. /\ link' = [link EXCEPT ![p] = "opening"] /\ UNCHANGED <<store, up>>
        /\ document' = [document EXCEPT ![p] = IF @ = "ssr" THEN "held" ELSE @]
        /\ \/ document[p] = "ssr" /\ UNCHANGED down
           \/ FullTo({p})
    BY <1>4, ConnectParts
  <2> DEFINE env == Full(seq + 1, log)
  <2>2. env \in Env /\ env.full /\ (FullTo({p}) => down' = SentTo(down, env, {p}))
    BY FullToParts, FullIs
  <2> HIDE DEF env
  <2>3. /\ Range(down[q]) \subseteq Range(down'[q])
        /\ FullTo({p}) => env \in Range(down'[p])
    BY <2>1, <2>2, SentToRange
  <2>4. document[p] = "ssr" => ~store[p].awaiting  BY DEF Lives
  <2>5. q # p => link'[q] = link[q] /\ document'[q] = document[q]  BY <1>0, <2>1
  <2> QED BY <2>1, <2>2, <2>3, <2>4, <2>5 DEF Recovers
<1>5. ASSUME NEW p \in Pages, Opened(p) PROVE Recovers(q)'
  <2>1. /\ link[p] = "opening" /\ link' = [link EXCEPT ![p] = "open"]
        /\ UNCHANGED <<document, store, down>>
        /\ \A r \in Pages \ {p} : up'[r] = up[r]
        /\ Range(up[p]) \subseteq Range(up'[p])
    BY <1>5, OpenedParts
  <2>2. Range(up[q]) \subseteq Range(up'[q]) /\ (link'[q] # "down" => link[q] # "down")
    BY <1>0, <2>1
  <2> QED BY <2>1, <2>2 DEF Recovers
<1>6. ASSUME NEW p \in Pages, Deliver(p) PROVE Recovers(q)'
  <2> DEFINE t == store'[p]
             env == Head(down[p])
  <2>1. /\ UNCHANGED <<document, link>> /\ down[p] # <<>> /\ link[p] = "open"
        /\ down' = [down EXCEPT ![p] = Tail(@)] /\ store' = [store EXCEPT ![p] = t]
        /\ up' = up \/ up' = [up EXCEPT ![p] = Append(@, Resync)]
        /\ \/ document[p] = "bare"
           \/ t.awaiting => ~env.full /\ (store[p].awaiting \/ Resync \in Range(up'[p]))
    BY <1>6, DeliverParts
  <2> HIDE DEF t, env
  <2>2. Range(up[q]) \subseteq Range(up'[q])
    <3>1. Range(Append(up[p], Resync)) = Range(up[p]) \cup {Resync}
      BY <1>0, ResyncIs, Appended
    <3> QED BY <1>0, <2>1, <3>1
  <2>3. CASE q # p
    <3>1. down'[q] = down[q] /\ store'[q] = store[q]  BY <1>0, <2>1, <2>3
    <3> QED BY <2>1, <2>2, <3>1 DEF Recovers
  <2>4. CASE q = p
    <3>1. Range(down[p]) = Range(down'[p]) \cup {env}  BY <1>0, <2>1, Dropped DEF env
    <3>2. store'[p] = t  BY DEF t
    <3> QED BY <2>1, <2>2, <2>4, <3>1, <3>2 DEF Recovers
  <2> QED BY <2>3, <2>4
<1>7. ASSUME NEW p \in Pages, Load(p) PROVE Recovers(q)'
  <2> DEFINE t == store'[p]
  <2>1. document[p] = "new" /\ UNCHANGED <<link, up, down>>  BY <1>7, LoadParts
  <2>2. link[p] = "down"  BY <2>1 DEF Lives
  <2>3. q # p => store'[q] = store[q] /\ document'[q] = document[q]
    <3>1. /\ UNCHANGED store \/ store' = [store EXCEPT ![p] = t]
          /\ \E v : document' = [document EXCEPT ![p] = v]
      BY <1>7, LoadParts
    <3> HIDE DEF t
    <3> QED BY <1>0, <3>1
  <2> QED BY <2>1, <2>2, <2>3 DEF Recovers
<1>8. ASSUME NEW p \in Pages, Bind(p) PROVE Recovers(q)'
  <2>1. /\ up' = [up EXCEPT ![p] = Append(@, Resync)] /\ UNCHANGED <<store, link, down>>
        /\ document' = [document EXCEPT ![p] = "held"]
    BY <1>8 DEF Bind
  <2>2. Range(Append(up[p], Resync)) = Range(up[p]) \cup {Resync}
    BY <1>0, ResyncIs, Appended
  <2>3. Range(up[q]) \subseteq Range(up'[q]) /\ (q = p => Resync \in Range(up'[q]))
    BY <1>0, <2>1, <2>2
  <2>4. q # p => document'[q] = document[q]  BY <1>0, <2>1
  <2> QED BY <2>1, <2>3, <2>4 DEF Recovers
<1>9. ASSUME NEW p \in Pages, Call(p) PROVE Recovers(q)'
  <2> DEFINE t == store'[p]
  <2>1. /\ UNCHANGED <<document, link, down>> /\ store' = [store EXCEPT ![p] = t]
        /\ t.awaiting = store[p].awaiting
        /\ \A r \in Pages \ {p} : up'[r] = up[r]
        /\ Range(up[p]) \subseteq Range(up'[p])
    BY <1>9, CallParts
  <2> HIDE DEF t
  <2>2. Range(up[q]) \subseteq Range(up'[q])  BY <2>1
  <2>3. store'[q].awaiting = store[q].awaiting  BY <1>0, <2>1
  <2> QED BY <2>1, <2>2, <2>3 DEF Recovers
<1>10. ASSUME NEW p \in Pages, CutOff(p), UNCHANGED store,
              UNCHANGED document \/ document' = [document EXCEPT ![p] = "closed"]
       PROVE  Recovers(q)'
  <2>1. CASE q = p
    <3>1. link'[q] = "down"  BY <1>0, <1>10, <2>1 DEF CutOff
    <3> QED BY <3>1 DEF Recovers
  <2>2. CASE q # p
    <3>1. link'[q] = link[q] /\ up'[q] = up[q] /\ down'[q] = down[q] /\ document'[q] = document[q]
      BY <1>0, <1>10, <2>2 DEF CutOff
    <3> QED BY <1>10, <3>1 DEF Recovers
  <2> QED BY <2>1, <2>2
<1>11. ASSUME NEW p \in Pages, Drop(p) PROVE Recovers(q)'  BY <1>10, <1>11 DEF Drop
<1>12. ASSUME NEW p \in Pages, LosePost(p) PROVE FALSE
  BY <1>12, LosePostParts
<1>13. ASSUME NEW p \in Pages, Close(p) PROVE Recovers(q)'  BY <1>10, <1>13 DEF Close
<1>14. CASE UNCHANGED syncVars  BY <1>14 DEF syncVars, Recovers
<1> QED BY <1>1, <1>2, <1>3, <1>4, <1>5, <1>6, <1>7, <1>8, <1>9, <1>11, <1>12, <1>13, <1>14
        DEF SyncNext, Serve, Stream

-----------------------------------------------------------------------------
(* What a step does to the log, the streams and the stores                 *)

(* The instance announces its next state to who listens, and to J.         *)
Announces(env, J) ==
    /\ env \in Env /\ env.seq = seq + 1 /\ seq' = seq + 1 /\ log' \in Seq(Write)
    /\ env.full => env.writes = log /\ log' = log
    /\ ~env.full => log' = log \o env.writes
    /\ env.ack # 0 /\ env.ok => Shows(log', astray', env.ack)
    /\ \A e \in Range(acks') : e \in Range(acks) \/ (e = env /\ ~env.full)
    /\ UNCHANGED <<store, outcome>>
    /\ J = {} \/ (env.full /\ \A q \in J : link[q] = "down")
    /\ \A q \in Pages : link'[q] = "down" <=> (link[q] = "down" /\ q \notin J)
    /\ down' = SentTo(down, env, J)

(* A cached ack is sent again.                                             *)
Repeats(env) ==
    /\ env \in Range(acks) /\ env \in Env /\ UNCHANGED <<log, seq, acks, store, outcome, link>>
    /\ down' = SentTo(down, env, {})

(* A page reads the next envelope.                                         *)
Reads(p) ==
    LET env == Head(down[p])
        s == store[p]
        t == store'[p]
    IN
    /\ UNCHANGED <<log, seq, acks, link>>
    /\ down[p] # <<>> /\ down' = [down EXCEPT ![p] = Tail(@)] /\ env \in Env
    /\ \A q \in Pages \ {p} : store'[q] = store[q]
    /\ \/ s.awaiting /\ UNCHANGED <<store, outcome>>
       \/ /\ Replaces(s, env, t) \/ Adds(s, env, t) \/ Leaves(s, env, t)
          /\ \/ UNCHANGED outcome
             \/ /\ env.ack \in RpcNo /\ env.ack \in Range(s.ops)
                /\ outcome' = [outcome EXCEPT ![p][env.ack] = IF env.ok THEN "ok" ELSE "error"]

(* A document brings the present state.                                    *)
Loads(p) ==
    /\ UNCHANGED <<log, seq, acks, link, down, outcome>> /\ link[p] = "down"
    /\ store'[p].confirmed = log /\ store'[p].seq = seq /\ ~store'[p].awaiting
    /\ \A q \in Pages \ {p} : store'[q] = store[q]

(* Streams end, or are joined by who is up to date.                        *)
Rests ==
    /\ UNCHANGED <<log, seq, acks, outcome>>
    /\ \A q \in Pages :
         /\ store'[q].confirmed = store[q].confirmed /\ store'[q].seq = store[q].seq
         /\ store'[q].awaiting = store[q].awaiting
         /\ down'[q] = down[q] \/ down'[q] = <<>>
         /\ link'[q] # "down" => /\ down'[q] = down[q]
                                 /\ link[q] # "down" \/ store[q].seq = seq

Effect ==
    \/ \E env \in Env, J \in SUBSET Pages : Announces(env, J)
    \/ \E env \in Env : Repeats(env)
    \/ \E p \in Pages : Reads(p) \/ Loads(p)
    \/ Rests

LEMMA StepEffect ==
    ASSUME Types, Lives, [SyncNext]_syncVars
    PROVE  Effect
<1>0. /\ store \in [Pages -> Stores] /\ link \in [Pages -> {"down", "opening", "open"}]
      /\ document \in [Pages -> {"new", "ssr", "bare", "held", "closed"}]
      /\ up \in [Pages -> Seq(Msg)] /\ down \in [Pages -> Seq(Env)]
      /\ outcome \in [Pages -> [RpcNo -> {"none", "ok", "error"}]]
      /\ log \in Seq(Write)
  BY DEF Types, ServerTypes, PageTypes, WireTypes
<1> USE DEF server, client
<1>1. CASE OtherWrite
  <2>1. PICK env \in Env :
          /\ ~env.full /\ env.seq = seq + 1 /\ env.ack = 0
          /\ log' = log \o env.writes /\ log' \in Seq(Write)
          /\ down' = SentTo(down, env, {}) /\ down' \in [Pages -> Seq(Env)]
    BY <1>1, OtherWriteParts
  <2>2. seq' = seq + 1 /\ UNCHANGED <<acks, link, store, outcome>>  BY <1>1, OtherWriteParts
  <2>3. Announces(env, {})  BY <2>1, <2>2 DEF Announces
  <2> QED BY <2>3 DEF Effect
<1>2. ASSUME FullTo({}), UNCHANGED <<log, acks, store, outcome, link>> PROVE Effect
  <2> DEFINE env == Full(seq + 1, log)
  <2>1. /\ env \in Env /\ env.full /\ env.writes = log /\ env.seq = seq + 1 /\ env.ack = 0
        /\ seq' = seq + 1 /\ down' = SentTo(down, env, {})
    BY <1>2, FullIs, FullToParts
  <2> HIDE DEF env
  <2>2. Announces(env, {})  BY <1>0, <1>2, <2>1 DEF Announces
  <2> QED BY <2>1, <2>2 DEF Effect
<1>3. ASSUME NEW p \in Pages, Arrive(p) PROVE Effect
  <2>1. UNCHANGED <<log, acks, store, outcome, link>>  BY <1>3, ArriveParts
  <2>2. \/ FullTo({})
        \/ (\E env \in Range(acks) : env \in Env /\ down' = SentTo(down, env, {})) /\ UNCHANGED seq
        \/ UNCHANGED <<seq, down>>
    BY <1>3, ArriveParts
  <2>3. CASE (\E env \in Range(acks) : env \in Env /\ down' = SentTo(down, env, {})) /\ UNCHANGED seq
    <3>1. PICK env \in Range(acks) : env \in Env /\ down' = SentTo(down, env, {})  BY <2>3
    <3>2. Repeats(env)  BY <2>1, <2>3, <3>1 DEF Repeats
    <3> QED BY <3>1, <3>2 DEF Effect
  <2>4. CASE UNCHANGED <<seq, down>>  BY <2>1, <2>4 DEF Effect, Rests
  <2> QED BY <1>2, <2>1, <2>2, <2>3, <2>4
<1>4. ASSUME NEW p \in Pages, NEW n \in RpcNo, Finish(p, n) PROVE Effect
  <2>1. PICK env \in Env :
          /\ ~env.full /\ env.seq = seq + 1 /\ env.ack = n
          /\ log' = log \o env.writes /\ log' \in Seq(Write)
          /\ env.ok => Shows(log', astray', n)
          /\ acks' \in Seq(Env) /\ Range(acks') \subseteq Range(acks) \cup {env}
          /\ down' = SentTo(down, env, {}) /\ down' \in [Pages -> Seq(Env)]
    BY <1>4, FinishParts
  <2>2. seq' = seq + 1 /\ UNCHANGED <<link, store, outcome>>  BY <1>4, FinishParts
  <2>3. Announces(env, {})  BY <2>1, <2>2 DEF Announces
  <2> QED BY <2>3 DEF Effect
<1>5. ASSUME NEW p \in Pages, Connect(p) PROVE Effect
  <2>1. /\ link[p] = "down" /\ link' = [link EXCEPT ![p] = "opening"]
        /\ UNCHANGED <<log, acks, store, outcome>>
        /\ \/ store[p].seq = seq /\ UNCHANGED <<seq, down>>
           \/ FullTo({p})
    BY <1>5, ConnectParts
  <2>2. \A q \in Pages : link'[q] = "down" <=> (link[q] = "down" /\ q \notin {p})
    BY <1>0, <2>1
  <2>3. CASE FullTo({p})
    <3> DEFINE env == Full(seq + 1, log)
    <3>1. /\ env \in Env /\ env.full /\ env.writes = log /\ env.seq = seq + 1 /\ env.ack = 0
          /\ seq' = seq + 1 /\ down' = SentTo(down, env, {p})
      BY <2>3, FullIs, FullToParts
    <3> HIDE DEF env
    <3>2. Announces(env, {p})  BY <1>0, <2>1, <2>2, <3>1 DEF Announces
    <3> QED BY <3>1, <3>2 DEF Effect
  <2>4. CASE store[p].seq = seq /\ UNCHANGED <<seq, down>>
    BY <2>1, <2>2, <2>4 DEF Effect, Rests
  <2> QED BY <2>1, <2>3, <2>4
<1>6. ASSUME NEW p \in Pages, Opened(p) PROVE Effect
  <2>1. /\ link[p] = "opening" /\ link' = [link EXCEPT ![p] = "open"]
        /\ UNCHANGED <<log, seq, acks, outcome, store, down>>
    BY <1>6, OpenedParts
  <2>2. \A q \in Pages : link'[q] # "down" => link[q] # "down"  BY <1>0, <2>1
  <2> QED BY <2>1, <2>2 DEF Effect, Rests
<1>7. ASSUME NEW p \in Pages, Deliver(p) PROVE Effect
  <2> DEFINE env == Head(down[p])
             s == store[p]
             t == store'[p]
  <2>1. /\ UNCHANGED <<log, seq, acks, link>> /\ down[p] # <<>>
        /\ down' = [down EXCEPT ![p] = Tail(@)] /\ env \in Env /\ store' = [store EXCEPT ![p] = t]
        /\ \/ document[p] = "bare" /\ UNCHANGED <<store, outcome>>
           \/ /\ Replaces(s, env, t) \/ Adds(s, env, t) \/ Leaves(s, env, t)
              /\ outcome' = IF env.ack # 0 /\ env.ack \in Range(s.ops)
                            THEN [outcome EXCEPT ![p][env.ack] = IF env.ok THEN "ok" ELSE "error"]
                            ELSE outcome
    BY <1>7, DeliverParts
  <2>2. \A q \in Pages \ {p} : store'[q] = store[q]
    <3> HIDE DEF t
    <3> QED BY <1>0, <2>1
  <2>3. document[p] = "bare" => s.awaiting  BY DEF Lives
  <2>4. env.ack # 0 => env.ack \in RpcNo
    <3> HIDE DEF env
    <3> QED BY <2>1, ConstantTypes DEF Env, RpcNo
  <2>5. Reads(p)
    <3> HIDE DEF env, s, t
    <3>1. \/ s.awaiting /\ UNCHANGED <<store, outcome>>
          \/ /\ Replaces(s, env, t) \/ Adds(s, env, t) \/ Leaves(s, env, t)
             /\ \/ UNCHANGED outcome
                \/ /\ env.ack \in RpcNo /\ env.ack \in Range(s.ops)
                   /\ outcome' = [outcome EXCEPT ![p][env.ack] = IF env.ok THEN "ok" ELSE "error"]
      BY <2>1, <2>3, <2>4
    <3> QED BY <2>1, <2>2, <3>1 DEF Reads, env, s, t
  <2> QED BY <2>5 DEF Effect
<1>8. ASSUME NEW p \in Pages, Load(p) PROVE Effect
  <2> DEFINE t == store'[p]
  <2>1. /\ document[p] = "new" /\ UNCHANGED <<log, seq, acks, outcome, link, down>>
        /\ \/ /\ store' = [store EXCEPT ![p] = t]
              /\ t.confirmed = log /\ t.seq = seq /\ ~t.awaiting
           \/ UNCHANGED store
    BY <1>8, LoadParts
  <2>2. link[p] = "down"  BY <2>1 DEF Lives
  <2>3. CASE UNCHANGED store  BY <2>1, <2>3 DEF Effect, Rests
  <2>4. CASE store' = [store EXCEPT ![p] = t] /\ t.confirmed = log /\ t.seq = seq /\ ~t.awaiting
    <3>1. \A q \in Pages \ {p} : store'[q] = store[q]
      <4> HIDE DEF t
      <4> QED BY <1>0, <2>4
    <3>2. Loads(p)  BY <2>1, <2>2, <2>4, <3>1 DEF Loads
    <3> QED BY <3>2 DEF Effect
  <2> QED BY <2>1, <2>3, <2>4
<1>9. ASSUME NEW p \in Pages, Bind(p) PROVE Effect
  <2>1. UNCHANGED <<log, seq, acks, outcome, store, down, link>>  BY <1>9 DEF Bind
  <2> QED BY <2>1 DEF Effect, Rests
<1>10. ASSUME NEW p \in Pages, Call(p) PROVE Effect
  <2> DEFINE s == store[p]
             t == store'[p]
  <2>1. /\ UNCHANGED <<log, seq, acks, outcome, link, down>> /\ store' = [store EXCEPT ![p] = t]
        /\ t.confirmed = s.confirmed /\ t.seq = s.seq /\ t.awaiting = s.awaiting
    BY <1>10, CallParts
  <2>2. \A q \in Pages \ {p} : store'[q] = store[q]
    <3> HIDE DEF t
    <3> QED BY <1>0, <2>1
  <2> QED BY <2>1, <2>2 DEF Effect, Rests
<1>11. ASSUME NEW p \in Pages, CutOff(p), UNCHANGED <<log, seq, acks, outcome, store>>
       PROVE  Effect
  <2>1. \A q \in Pages : IF q = p THEN link'[q] = "down" /\ down'[q] = <<>>
                                  ELSE link'[q] = link[q] /\ down'[q] = down[q]
    BY <1>0, <1>11 DEF CutOff
  <2> QED BY <1>11, <2>1 DEF Effect, Rests
<1>12. ASSUME NEW p \in Pages, Drop(p) PROVE Effect  BY <1>11, <1>12 DEF Drop
<1>13. ASSUME NEW p \in Pages, LosePost(p) PROVE Effect
  <2>1. UNCHANGED <<log, seq, acks, outcome, store, down, link>>  BY <1>13 DEF LosePost
  <2> QED BY <2>1 DEF Effect, Rests
<1>14. ASSUME NEW p \in Pages, Close(p) PROVE Effect  BY <1>11, <1>14 DEF Close
<1>15. CASE UNCHANGED syncVars
  <2>1. UNCHANGED <<log, seq, acks, outcome, store, down, link>>  BY <1>15 DEF syncVars
  <2> QED BY <2>1 DEF Effect, Rests
<1> QED BY <1>1, <1>3, <1>4, <1>5, <1>6, <1>7, <1>8, <1>9, <1>10, <1>12, <1>13, <1>14, <1>15
        DEF SyncNext, Serve, Stream

(* Writes go astray before they are in the log, and stay on that account.  *)
LEMMA AstrayGrows ==
    ASSUME Types, [SyncNext]_syncVars
    PROVE  astray \subseteq astray' /\ \A w \in astray' : w \in astray \/ w \notin Range(log)
<1>1. ASSUME NEW p \in Pages, NEW n \in RpcNo, Finish(p, n)
      PROVE  astray \subseteq astray' /\ \A w \in astray' : w \in astray \/ w \notin Range(log)
  BY <1>1, FinishParts
<1>2. OtherWrite => astray' = astray  BY DEF OtherWrite
<1>3. ASSUME NEW p \in Pages, Arrive(p) PROVE astray' = astray  BY <1>3, ArriveParts
<1>4. ASSUME NEW p \in Pages, Connect(p) \/ Opened(p) \/ Deliver(p) \/ Load(p) \/ Bind(p)
             \/ Call(p) \/ Drop(p) \/ LosePost(p) \/ Close(p)
      PROVE  astray' = astray
  BY <1>4 DEF Connect, Opened, Deliver, Load, Bind, Call, Drop, LosePost, Close, server
<1>5. UNCHANGED syncVars => astray' = astray  BY DEF syncVars, server
<1> QED BY <1>1, <1>2, <1>3, <1>4, <1>5 DEF SyncNext, Serve, Stream

-----------------------------------------------------------------------------
(* What the pages know, against the history of the log: H[i] is the state  *)
(* the instance announced with sequence number i.                          *)

Fits(e, H, n, A) ==
    /\ e.seq \in 1 .. n
    /\ e.full => e.writes = H[e.seq]
    /\ ~e.full => H[e.seq] = H[e.seq - 1] \o e.writes
    /\ e.ack # 0 /\ e.ok => Shows(H[e.seq], A, e.ack)

History(H) ==
    /\ H \in [Nat -> Seq(Write)] /\ H[0] = <<>> /\ H[seq] = log
    /\ \A i, j \in 0 .. seq : i <= j => IsPrefix(H[i], H[j])

Trace(H) ==
    /\ History(H)
    /\ \A p \in Pages : store[p].seq \in 0 .. seq /\ store[p].confirmed = H[store[p].seq]
    /\ \A p \in Pages : \A e \in Range(down[p]) : Fits(e, H, seq, astray)
    /\ \A e \in Range(acks) : ~e.full /\ Fits(e, H, seq, astray)

(* The next state of the log prolongs the history.                         *)
LEMMA HistoryGrows ==
    ASSUME Types, NEW H, History(H), NEW new \in Seq(Write), IsPrefix(log, new)
    PROVE  LET G == [H EXCEPT ![seq + 1] = new] IN
           /\ G \in [Nat -> Seq(Write)] /\ \A i \in 0 .. seq : G[i] = H[i]
           /\ G[seq + 1] = new
           /\ \A i, j \in 0 .. seq + 1 : i <= j => IsPrefix(G[i], G[j])
<1> DEFINE G == [H EXCEPT ![seq + 1] = new]
<1>1. seq \in Nat /\ log \in Seq(Write) /\ H \in [Nat -> Seq(Write)] /\ H[seq] = log
  BY DEF Types, ServerTypes, History
<1>2. G \in [Nat -> Seq(Write)] /\ G[seq + 1] = new /\ \A i \in 0 .. seq : G[i] = H[i]
  BY <1>1
<1> HIDE DEF G
<1>3. ASSUME NEW i \in 0 .. seq + 1, NEW j \in 0 .. seq + 1, i <= j PROVE IsPrefix(G[i], G[j])
  <2>1. CASE j <= seq
    <3>1. i \in 0 .. seq /\ j \in 0 .. seq  BY <1>1, <1>3, <2>1
    <3>2. IsPrefix(H[i], H[j])  BY <1>3, <3>1 DEF History
    <3> QED BY <1>2, <3>1, <3>2
  <2>2. CASE i = seq + 1 /\ j = seq + 1
    <3>1. IsPrefix(new, new)  BY PrefixAppended
    <3> QED BY <1>2, <2>2, <3>1
  <2>3. CASE i <= seq /\ j = seq + 1
    <3>1. i \in 0 .. seq /\ seq \in 0 .. seq  BY <1>1, <2>3
    <3>2. IsPrefix(H[i], log)  BY <1>1, <3>1 DEF History
    <3>3. H[i] \in Seq(Write)  BY <1>1, <3>1
    <3>4. IsPrefix(H[i], new)  BY <1>1, <3>2, <3>3, PrefixTrans
    <3> QED BY <1>2, <2>3, <3>1, <3>4
  <2> QED BY <1>1, <1>3, <2>1, <2>2, <2>3
<1> QED BY <1>2, <1>3 DEF G

LEMMA FitsStays ==
    ASSUME NEW n \in Nat, NEW H, NEW G, \A i \in 0 .. n : G[i] = H[i],
           NEW A, NEW B, A \subseteq B, NEW e \in Env, Fits(e, H, n, A)
    PROVE  Fits(e, G, n, B) /\ Fits(e, G, n + 1, B)
<1>1. e.seq \in 1 .. n /\ e.seq \in 1 .. n + 1 /\ e.seq \in 0 .. n /\ e.seq - 1 \in 0 .. n
  BY DEF Fits
<1>2. G[e.seq] = H[e.seq] /\ G[e.seq - 1] = H[e.seq - 1]  BY <1>1
<1>3. e.ack # 0 /\ e.ok => Shows(G[e.seq], B, e.ack)  BY <1>2 DEF Fits, Shows
<1> QED BY <1>1, <1>2, <1>3 DEF Fits

(* Envelopes only move or leave, and stores hold states of the history.    *)
LEMMA TraceKept ==
    ASSUME Types, NEW H, Trace(H), UNCHANGED <<log, seq, acks>>, astray \subseteq astray',
           \A p \in Pages : store'[p].seq \in 0 .. seq /\ store'[p].confirmed = H[store'[p].seq],
           \A p \in Pages : Range(down'[p]) \subseteq Range(down[p]) \cup Range(acks)
    PROVE  Trace(H)'
<1>0. seq \in Nat /\ down \in [Pages -> Seq(Env)] /\ acks \in Seq(Env)
  BY DEF Types, ServerTypes, WireTypes
<1>1. History(H)'  BY DEF Trace, History
<1>2. ASSUME NEW e \in Env, Fits(e, H, seq, astray) PROVE Fits(e, H, seq', astray')
  <2>1. Fits(e, H, seq, astray')  BY <1>0, <1>2, FitsStays
  <2> QED BY <2>1
<1>3. ASSUME NEW p \in Pages, NEW e \in Range(down'[p]) PROVE Fits(e, H, seq', astray')
  <2>1. e \in Range(down[p]) \/ e \in Range(acks)  BY <1>3
  <2>2. Fits(e, H, seq, astray)  BY <2>1 DEF Trace
  <2>3. down[p] \in Seq(Env)  BY <1>0
  <2>4. e \in Env  BY <1>0, <2>1, <2>3, RangeOfSeq
  <2> QED BY <1>2, <2>2, <2>4
<1>4. \A p \in Pages : \A e \in Range(down'[p]) : Fits(e, H, seq', astray')  BY <1>3
<1>5. ASSUME NEW e \in Range(acks') PROVE ~e.full /\ Fits(e, H, seq', astray')
  <2>1. e \in Range(acks) /\ ~e.full /\ Fits(e, H, seq, astray)  BY <1>5 DEF Trace
  <2>2. e \in Env  BY <1>0, <2>1, RangeOfSeq
  <2> QED BY <1>2, <2>1, <2>2
<1>6. \A p \in Pages : store'[p].seq \in 0 .. seq' /\ store'[p].confirmed = H[store'[p].seq]
  OBVIOUS
<1> QED BY <1>1, <1>4, <1>5, <1>6 DEF Trace

LEMMA TraceStep ==
    ASSUME Types, Effect, astray \subseteq astray', NEW H, Trace(H)
    PROVE  \E G : Trace(G)' /\ \A i \in 0 .. seq : G[i] = H[i]
<1>0. /\ seq \in Nat /\ log \in Seq(Write) /\ H \in [Nat -> Seq(Write)] /\ H[seq] = log
      /\ acks \in Seq(Env) /\ down \in [Pages -> Seq(Env)] /\ H[0] = <<>>
      /\ store \in [Pages -> Stores]
  BY DEF Types, ServerTypes, PageTypes, WireTypes, Trace, History
<1>1. ASSUME NEW env \in Env, NEW J \in SUBSET Pages, Announces(env, J)
      PROVE  \E G : Trace(G)' /\ \A i \in 0 .. seq : G[i] = H[i]
  <2> DEFINE G == [H EXCEPT ![seq + 1] = log']
  <2>1. /\ env.seq = seq + 1 /\ seq' = seq + 1 /\ log' \in Seq(Write)
        /\ env.full => env.writes = log /\ log' = log
        /\ ~env.full => log' = log \o env.writes
        /\ env.ack # 0 /\ env.ok => Shows(log', astray', env.ack)
        /\ \A e \in Range(acks') : e \in Range(acks) \/ (e = env /\ ~env.full)
        /\ UNCHANGED <<store, outcome>> /\ down' = SentTo(down, env, J)
    BY <1>1 DEF Announces
  <2>2. env.writes \in Seq(Write)  BY DEF Env
  <2>3. IsPrefix(log, log')
    <3>1. CASE env.full  BY <1>0, <2>1, <3>1, PrefixAppended
    <3>2. CASE ~env.full  BY <1>0, <2>1, <2>2, <3>2, PrefixAppended
    <3> QED BY <3>1, <3>2
  <2>4. History(H)  BY DEF Trace
  <2>5. PICK new \in Seq(Write) : new = log'  BY <2>1
  <2>6. /\ G \in [Nat -> Seq(Write)] /\ \A i \in 0 .. seq : G[i] = H[i]
        /\ G[seq + 1] = new
        /\ \A i, j \in 0 .. seq + 1 : i <= j => IsPrefix(G[i], G[j])
    BY <2>3, <2>4, <2>5, HistoryGrows
  <2>7. PICK F : /\ F \in [Nat -> Seq(Write)] /\ \A i \in 0 .. seq : F[i] = H[i]
                 /\ F[seq + 1] = log'
                 /\ \A i, j \in 0 .. seq + 1 : i <= j => IsPrefix(F[i], F[j])
    BY <2>5, <2>6
  <2> HIDE DEF G
  <2>8. 0 \in 0 .. seq /\ seq \in 0 .. seq  BY <1>0
  <2>9. History(F)'
    <3>1. F[0] = <<>>  BY <1>0, <2>7, <2>8
    <3> QED BY <2>1, <2>7, <3>1 DEF History
  <2>10. Fits(env, F, seq + 1, astray')
    <3>1. F[seq] = log  BY <1>0, <2>7, <2>8
    <3>2. env.seq \in 1 .. seq + 1 /\ env.seq - 1 = seq  BY <1>0, <2>1
    <3>3. env.ack # 0 /\ env.ok => Shows(F[env.seq], astray', env.ack)  BY <2>1, <2>7
    <3>4. env.full => env.writes = F[env.seq]  BY <2>1, <2>7
    <3>5. ~env.full => F[env.seq] = F[env.seq - 1] \o env.writes  BY <2>1, <2>7, <3>1, <3>2
    <3> QED BY <3>2, <3>3, <3>4, <3>5 DEF Fits
  <2>11. \A e \in Range(acks') : ~e.full /\ Fits(e, F, seq', astray')
    <3> SUFFICES ASSUME NEW e \in Range(acks') PROVE ~e.full /\ Fits(e, F, seq', astray')  OBVIOUS
    <3>1. CASE e = env /\ ~env.full  BY <2>1, <2>10, <3>1
    <3>2. CASE e \in Range(acks)
      <4>1. e \in Env  BY <1>0, <3>2, RangeOfSeq
      <4>2. ~e.full /\ Fits(e, H, seq, astray)  BY <3>2 DEF Trace
      <4> QED BY <1>0, <2>1, <2>7, <4>1, <4>2, FitsStays
    <3> QED BY <2>1, <3>1, <3>2
  <2>12. ASSUME NEW p \in Pages, NEW e \in Range(down'[p]) PROVE Fits(e, F, seq', astray')
    <3>1. e = env \/ e \in Range(down[p])
      <4>1. down'[p] = down[p] \/ down'[p] = Append(down[p], env)  BY <2>1 DEF SentTo
      <4>2. down[p] \in Seq(Env)  BY <1>0
      <4>3. Range(Append(down[p], env)) = Range(down[p]) \cup {env}  BY <4>2, Appended
      <4> QED BY <2>12, <4>1, <4>3
    <3>2. CASE e \in Range(down[p])
      <4>1. down[p] \in Seq(Env)  BY <1>0
      <4>2. e \in Env  BY <3>2, <4>1, RangeOfSeq
      <4>3. Fits(e, H, seq, astray)  BY <3>2 DEF Trace
      <4> QED BY <1>0, <2>1, <2>7, <4>2, <4>3, FitsStays
    <3> QED BY <2>1, <2>10, <3>1, <3>2
  <2>13. \A p \in Pages : store'[p].seq \in 0 .. seq' /\ store'[p].confirmed = F[store'[p].seq]
    <3> SUFFICES ASSUME NEW p \in Pages
                 PROVE  store'[p].seq \in 0 .. seq' /\ store'[p].confirmed = F[store'[p].seq]
      OBVIOUS
    <3>1. store[p].seq \in 0 .. seq /\ store[p].confirmed = H[store[p].seq]  BY DEF Trace
    <3>2. \A k \in 0 .. seq : k \in 0 .. seq + 1  BY <1>0
    <3> QED BY <2>1, <2>7, <3>1, <3>2
  <2>14. \A p \in Pages : \A e \in Range(down'[p]) : Fits(e, F, seq', astray')  BY <2>12
  <2>15. Trace(F)'  BY <2>9, <2>11, <2>13, <2>14 DEF Trace
  <2> QED BY <2>7, <2>15
<1>2. ASSUME NEW env \in Env, Repeats(env) PROVE Trace(H)'
  <2>1. /\ env \in Range(acks) /\ UNCHANGED <<log, seq, acks, store>>
        /\ down' = SentTo(down, env, {})
    BY <1>2 DEF Repeats
  <2>2. ASSUME NEW p \in Pages PROVE Range(down'[p]) \subseteq Range(down[p]) \cup Range(acks)
    <3>1. down'[p] = down[p] \/ down'[p] = Append(down[p], env)  BY <2>1 DEF SentTo
    <3>2. down[p] \in Seq(Env)  BY <1>0
    <3>3. Range(Append(down[p], env)) = Range(down[p]) \cup {env}  BY <3>2, Appended
    <3> QED BY <2>1, <3>1, <3>3
  <2>3. \A p \in Pages : store'[p].seq \in 0 .. seq /\ store'[p].confirmed = H[store'[p].seq]
    BY <2>1 DEF Trace
  <2> QED BY <2>1, <2>2, <2>3, TraceKept
<1>3. ASSUME NEW p \in Pages, Reads(p) PROVE Trace(H)'
  <2> DEFINE env == Head(down[p])
             s == store[p]
             t == store'[p]
  <2>1. /\ UNCHANGED <<log, seq, acks, link>>
        /\ down[p] # <<>> /\ down' = [down EXCEPT ![p] = Tail(@)] /\ env \in Env
        /\ \A q \in Pages \ {p} : store'[q] = store[q]
        /\ \/ UNCHANGED store
           \/ Replaces(s, env, t) \/ Adds(s, env, t) \/ Leaves(s, env, t)
    BY <1>3 DEF Reads
  <2>2. env \in Range(down[p]) /\ Range(Tail(down[p])) \subseteq Range(down[p])
    <3>1. down[p] \in Seq(Env) /\ down[p] # <<>>  BY <1>0, <2>1
    <3>2. Range(down[p]) = Range(Tail(down[p])) \cup {Head(down[p])}  BY <3>1, Dropped
    <3> QED BY <3>2
  <2>3. \A q \in Pages : Range(down'[q]) \subseteq Range(down[q])  BY <1>0, <2>1, <2>2
  <2>4. Fits(env, H, seq, astray)  BY <2>2 DEF Trace
  <2>5. s.seq \in 0 .. seq /\ s.confirmed = H[s.seq]  BY DEF Trace
  <2>6. t.seq \in 0 .. seq /\ t.confirmed = H[t.seq]
    <3> HIDE DEF env, s, t
    <3>1. CASE t = s  BY <2>5, <3>1
    <3>2. CASE Replaces(s, env, t)  BY <1>0, <2>4, <3>2 DEF Replaces, Fits
    <3>3. CASE Leaves(s, env, t)  BY <2>5, <3>3 DEF Leaves
    <3>4. CASE Adds(s, env, t)
      <4>1. /\ ~env.full /\ env.seq = s.seq + 1
            /\ t.confirmed = s.confirmed \o env.writes /\ t.seq = env.seq
        BY <3>4 DEF Adds
      <4>2. env.seq \in 0 .. seq /\ env.seq - 1 = s.seq
        <5>1. env.seq \in 1 .. seq  BY <2>4 DEF Fits
        <5>2. \A k \in 0 .. seq : k + 1 - 1 = k  BY <1>0
        <5>3. \A k \in 1 .. seq : k \in 0 .. seq  BY <1>0
        <5> QED BY <2>5, <4>1, <5>1, <5>2, <5>3
      <4>3. H[env.seq] = H[s.seq] \o env.writes  BY <2>4, <4>1, <4>2 DEF Fits
      <4> QED BY <2>5, <4>1, <4>2, <4>3
    <3>5. UNCHANGED store => t = s  BY DEF s, t
    <3> QED BY <2>1, <3>1, <3>2, <3>3, <3>4, <3>5
  <2>7. \A q \in Pages : store'[q].seq \in 0 .. seq /\ store'[q].confirmed = H[store'[q].seq]
    BY <2>1, <2>6 DEF Trace
  <2> QED BY <2>1, <2>3, <2>7, TraceKept
<1>4. ASSUME NEW p \in Pages, Loads(p) PROVE Trace(H)'
  <2>1. /\ UNCHANGED <<log, seq, acks, down>> /\ \A q \in Pages \ {p} : store'[q] = store[q]
        /\ store'[p].confirmed = log /\ store'[p].seq = seq
    BY <1>4 DEF Loads
  <2>2. ASSUME NEW q \in Pages
        PROVE  store'[q].seq \in 0 .. seq /\ store'[q].confirmed = H[store'[q].seq]
    <3>1. seq \in 0 .. seq  BY <1>0
    <3>2. store[q].seq \in 0 .. seq /\ store[q].confirmed = H[store[q].seq]  BY DEF Trace
    <3> QED BY <1>0, <2>1, <3>1, <3>2
  <2> QED BY <2>1, <2>2, TraceKept
<1>5. CASE Rests
  <2>1. UNCHANGED <<log, seq, acks>>  BY <1>5 DEF Rests
  <2>2. \A q \in Pages : store'[q].seq \in 0 .. seq /\ store'[q].confirmed = H[store'[q].seq]
    BY <1>5 DEF Rests, Trace
  <2>3. ASSUME NEW q \in Pages PROVE Range(down'[q]) \subseteq Range(down[q])
    <3>1. Range(<<>>) = {}  BY DEF Range
    <3> QED BY <1>5, <3>1 DEF Rests
  <2> QED BY <2>1, <2>2, <2>3, TraceKept
<1>6. Trace(H)' => \E G : Trace(G)' /\ \A i \in 0 .. seq : G[i] = H[i]  OBVIOUS
<1> QED BY <1>1, <1>2, <1>3, <1>4, <1>5, <1>6 DEF Effect

-----------------------------------------------------------------------------
(* The order of a stream: a full is as recent as what precedes it and as   *)
(* the store, and what was announced since it was sent follows it.         *)

Ordered(d, k, n) ==
    \A i \in DOMAIN d : d[i].full =>
        /\ k <= d[i].seq
        /\ \A j \in DOMAIN d : j < i => d[j].seq <= d[i].seq
        /\ d[i].seq = n \/ \E j \in DOMAIN d : i < j /\ d[j].seq = n

Reaches(d, n) == \E i \in DOMAIN d : d[i].seq = n

LEMMA OrderedEmpty ==
    ASSUME NEW k, NEW n
    PROVE  Ordered(<<>>, k, n)
BY DEF Ordered

LEMMA OrderedAnnounced ==
    ASSUME NEW d \in Seq(Env), NEW e \in Env, NEW n \in Nat, NEW k \in Nat, k <= n,
           \A i \in DOMAIN d : d[i].seq <= n, Ordered(d, k, n), e.seq = n + 1
    PROVE  Ordered(Append(d, e), k, n + 1) /\ Reaches(Append(d, e), n + 1)
<1> DEFINE a == Append(d, e)
           l == Len(d)
<1>1. /\ l \in Nat /\ DOMAIN d = 1 .. l /\ DOMAIN a = 1 .. l + 1
      /\ \A i \in 1 .. l : a[i] = d[i] /\ d[i] \in Env
      /\ a[l + 1] = e
  BY Appended
<1> HIDE DEF a, l
<1>2. \A x \in Env : x.seq \in Nat  BY DEF Env
<1>3. ASSUME NEW i \in 1 .. l + 1, a[i].full
      PROVE  /\ k <= a[i].seq
             /\ \A j \in 1 .. l + 1 : j < i => a[j].seq <= a[i].seq
             /\ a[i].seq = n + 1 \/ \E j \in 1 .. l + 1 : i < j /\ a[j].seq = n + 1
  <2>1. CASE i = l + 1
    <3>1. a[i].seq = n + 1  BY <1>1, <2>1
    <3>2. ASSUME NEW j \in 1 .. l + 1, j < i PROVE a[j].seq <= a[i].seq
      <4>1. j \in 1 .. l  BY <1>1, <2>1, <3>2
      <4>2. a[j] = d[j] /\ d[j].seq <= n /\ d[j].seq \in Nat  BY <1>1, <1>2, <4>1
      <4> QED BY <3>1, <4>2
    <3> QED BY <3>1, <3>2
  <2>2. CASE i \in 1 .. l
    <3>1. a[i] = d[i] /\ i \in DOMAIN d  BY <1>1, <2>2
    <3>2. k <= a[i].seq /\ \A j \in DOMAIN d : j < i => d[j].seq <= d[i].seq
      BY <1>3, <3>1 DEF Ordered
    <3>3. ASSUME NEW j \in 1 .. l + 1, j < i PROVE a[j].seq <= a[i].seq
      <4>1. j \in 1 .. l  BY <1>1, <2>2, <3>3
      <4>2. a[j] = d[j] /\ j \in DOMAIN d  BY <1>1, <4>1
      <4> QED BY <3>1, <3>2, <3>3, <4>2
    <3>4. l + 1 \in 1 .. l + 1 /\ i < l + 1  BY <1>1, <2>2
    <3> QED BY <1>1, <3>2, <3>3, <3>4
  <2> QED BY <1>1, <2>1, <2>2
<1>4. Ordered(a, k, n + 1)  BY <1>1, <1>3 DEF Ordered
<1>5. Reaches(a, n + 1)
  <2>1. l + 1 \in 1 .. l + 1  BY <1>1
  <2> QED BY <1>1, <2>1 DEF Reaches
<1> QED BY <1>4, <1>5 DEF a

LEMMA OrderedRepeated ==
    ASSUME NEW d \in Seq(Env), NEW e \in Env, NEW n \in Nat, NEW k \in Nat,
           Ordered(d, k, n), ~e.full
    PROVE  Ordered(Append(d, e), k, n) /\ (Reaches(d, n) => Reaches(Append(d, e), n))
<1> DEFINE a == Append(d, e)
           l == Len(d)
<1>1. /\ l \in Nat /\ DOMAIN d = 1 .. l /\ DOMAIN a = 1 .. l + 1
      /\ \A i \in 1 .. l : a[i] = d[i] /\ d[i] \in Env
      /\ a[l + 1] = e
  BY Appended
<1> HIDE DEF a, l
<1>2. \A i \in 1 .. l : i \in 1 .. l + 1 /\ i < l + 1  BY <1>1
<1>3. ASSUME NEW i \in 1 .. l + 1, a[i].full
      PROVE  /\ k <= a[i].seq
             /\ \A j \in 1 .. l + 1 : j < i => a[j].seq <= a[i].seq
             /\ a[i].seq = n \/ \E j \in 1 .. l + 1 : i < j /\ a[j].seq = n
  <2>1. i # l + 1  BY <1>1, <1>3
  <2>2. i \in 1 .. l  BY <1>1, <2>1
  <2>3. a[i] = d[i] /\ i \in DOMAIN d  BY <1>1, <2>2
  <2>4. /\ k <= d[i].seq /\ \A j \in DOMAIN d : j < i => d[j].seq <= d[i].seq
        /\ d[i].seq = n \/ \E j \in DOMAIN d : i < j /\ d[j].seq = n
    BY <1>3, <2>3 DEF Ordered
  <2>5. ASSUME NEW j \in 1 .. l + 1, j < i PROVE a[j].seq <= a[i].seq
    <3>1. j \in 1 .. l  BY <1>1, <2>2, <2>5
    <3>2. a[j] = d[j] /\ j \in DOMAIN d  BY <1>1, <3>1
    <3> QED BY <2>3, <2>4, <2>5, <3>2
  <2>6. a[i].seq = n \/ \E j \in 1 .. l + 1 : i < j /\ a[j].seq = n
    BY <1>1, <1>2, <2>3, <2>4
  <2> QED BY <2>3, <2>4, <2>5, <2>6
<1>4. Ordered(a, k, n)  BY <1>1, <1>3 DEF Ordered
<1>5. Reaches(d, n) => Reaches(a, n)  BY <1>1, <1>2 DEF Reaches
<1> QED BY <1>4, <1>5 DEF a

LEMMA OrderedRead ==
    ASSUME NEW d \in Seq(Env), d # <<>>, NEW n \in Nat, NEW k \in Nat, Ordered(d, k, n)
    PROVE  /\ Ordered(Tail(d), k, n) /\ Ordered(Tail(d), Head(d).seq, n)
           /\ Head(d).full => k <= Head(d).seq /\ (Head(d).seq = n \/ Reaches(Tail(d), n))
           /\ Reaches(d, n) => Head(d).seq = n \/ Reaches(Tail(d), n)
<1> DEFINE a == Tail(d)
           l == Len(d)
<1>1. /\ l \in Nat \ {0} /\ DOMAIN d = 1 .. l /\ DOMAIN a = 1 .. l - 1
      /\ \A i \in 1 .. l - 1 : a[i] = d[i + 1]
      /\ Head(d) = d[1]
  BY Dropped
<1> HIDE DEF a, l
<1>2. /\ \A i \in 1 .. l - 1 : i + 1 \in 1 .. l /\ 1 < i + 1
      /\ \A i \in 1 .. l : i = 1 \/ (i - 1 \in 1 .. l - 1 /\ i - 1 + 1 = i)
      /\ 1 \in 1 .. l
  BY <1>1
<1>3. ASSUME NEW i \in 1 .. l - 1, a[i].full
      PROVE  /\ k <= a[i].seq /\ d[1].seq <= a[i].seq
             /\ \A j \in 1 .. l - 1 : j < i => a[j].seq <= a[i].seq
             /\ a[i].seq = n \/ \E j \in 1 .. l - 1 : i < j /\ a[j].seq = n
  <2>1. a[i] = d[i + 1] /\ i + 1 \in DOMAIN d  BY <1>1, <1>2
  <2>2. /\ k <= d[i + 1].seq /\ \A j \in DOMAIN d : j < i + 1 => d[j].seq <= d[i + 1].seq
        /\ d[i + 1].seq = n \/ \E j \in DOMAIN d : i + 1 < j /\ d[j].seq = n
    BY <1>3, <2>1 DEF Ordered
  <2>3. d[1].seq <= a[i].seq  BY <1>1, <1>2, <2>1, <2>2
  <2>4. ASSUME NEW j \in 1 .. l - 1, j < i PROVE a[j].seq <= a[i].seq
    <3>1. j + 1 < i + 1 /\ j + 1 \in DOMAIN d /\ a[j] = d[j + 1]  BY <1>1, <1>2, <2>4
    <3> QED BY <2>1, <2>2, <3>1
  <2>5. ASSUME NEW j \in DOMAIN d, i + 1 < j, d[j].seq = n
        PROVE  \E h \in 1 .. l - 1 : i < h /\ a[h].seq = n
    <3>1. j - 1 \in 1 .. l - 1 /\ j - 1 + 1 = j /\ i < j - 1  BY <1>1, <2>5
    <3>2. a[j - 1] = d[j]  BY <1>1, <3>1
    <3> QED BY <2>5, <3>1, <3>2
  <2> QED BY <2>1, <2>2, <2>3, <2>4, <2>5
<1>4. Ordered(a, k, n) /\ Ordered(a, d[1].seq, n)  BY <1>1, <1>3 DEF Ordered
<1>5. ASSUME NEW j \in DOMAIN d, d[j].seq = n, j # 1 PROVE Reaches(a, n)
  <2>1. j - 1 \in 1 .. l - 1 /\ j - 1 + 1 = j  BY <1>1, <1>2, <1>5
  <2>2. a[j - 1] = d[j]  BY <1>1, <2>1
  <2> QED BY <1>1, <1>5, <2>1, <2>2 DEF Reaches
<1>6. ASSUME d[1].full PROVE k <= d[1].seq /\ (d[1].seq = n \/ Reaches(a, n))
  <2>1. 1 \in DOMAIN d  BY <1>1, <1>2
  <2>2. k <= d[1].seq /\ (d[1].seq = n \/ \E j \in DOMAIN d : 1 < j /\ d[j].seq = n)
    BY <1>6, <2>1 DEF Ordered
  <2> QED BY <1>5, <2>2
<1>7. Reaches(d, n) => d[1].seq = n \/ Reaches(a, n)  BY <1>5 DEF Reaches
<1> QED BY <1>1, <1>4, <1>6, <1>7 DEF a

Order(p) ==
    /\ Ordered(down[p], store[p].seq, seq)
    /\ link[p] # "down" =>
          store[p].awaiting \/ store[p].seq = seq \/ Reaches(down[p], seq)

LEMMA StreamSeqs ==
    ASSUME Types, NEW H, Trace(H), NEW p \in Pages
    PROVE  /\ store[p].seq \in Nat /\ store[p].seq <= seq /\ seq \in Nat
           /\ down[p] \in Seq(Env)
           /\ \A i \in DOMAIN down[p] : down[p][i].seq \in Nat /\ down[p][i].seq <= seq
<1>1. seq \in Nat /\ down[p] \in Seq(Env)  BY DEF Types, ServerTypes, WireTypes
<1>2. store[p].seq \in 0 .. seq  BY DEF Trace
<1>3. ASSUME NEW i \in DOMAIN down[p] PROVE down[p][i].seq \in 1 .. seq
  <2>1. down[p][i] \in Range(down[p])  BY ElementIn
  <2> QED BY <2>1 DEF Trace, Fits
<1> QED BY <1>1, <1>2, <1>3

(* Streams stay in order, and a store never goes back.                     *)
LEMMA OrderStep ==
    ASSUME Types, Lives, Effect, NEW H, Trace(H), NEW q \in Pages, Order(q)
    PROVE  Order(q)' /\ store[q].seq <= store'[q].seq
<1>0. /\ store[q].seq \in Nat /\ store[q].seq <= seq /\ seq \in Nat
      /\ down[q] \in Seq(Env)
      /\ \A i \in DOMAIN down[q] : down[q][i].seq \in Nat /\ down[q][i].seq <= seq
  BY StreamSeqs
<1>1. down \in [Pages -> Seq(Env)] /\ store \in [Pages -> Stores]
  BY DEF Types, WireTypes, PageTypes
<1>2. /\ Ordered(down[q], store[q].seq, seq)
      /\ link[q] # "down" =>
            store[q].awaiting \/ store[q].seq = seq \/ Reaches(down[q], seq)
      /\ link[q] = "down" => down[q] = <<>>
  BY DEF Order, Lives
<1>3. ASSUME /\ store'[q].seq = store[q].seq /\ store'[q].awaiting = store[q].awaiting
             /\ seq' = seq /\ down'[q] = down[q]
             /\ link'[q] # "down" => link[q] # "down" \/ store[q].seq = seq
      PROVE  Order(q)' /\ store[q].seq <= store'[q].seq
  BY <1>0, <1>2, <1>3 DEF Order
<1>4. ASSUME store'[q].seq \in Nat, store[q].seq <= store'[q].seq,
             down'[q] = <<>>, link'[q] = "down"
      PROVE  Order(q)' /\ store[q].seq <= store'[q].seq
  BY <1>4, OrderedEmpty DEF Order
<1>5. ASSUME NEW env \in Env, NEW J \in SUBSET Pages, Announces(env, J)
      PROVE  Order(q)' /\ store[q].seq <= store'[q].seq
  <2>1. /\ env.seq = seq + 1 /\ seq' = seq + 1 /\ UNCHANGED store
        /\ link'[q] = "down" <=> (link[q] = "down" /\ q \notin J)
        /\ down' = SentTo(down, env, J)
    BY <1>5 DEF Announces
  <2>2. CASE link[q] = "down" /\ q \notin J
    <3>1. down'[q] = <<>>  BY <1>2, <2>1, <2>2 DEF SentTo
    <3> QED BY <1>0, <1>4, <2>1, <2>2, <3>1
  <2>3. CASE link[q] # "down" \/ q \in J
    <3>1. down'[q] = Append(down[q], env)  BY <2>1, <2>3 DEF SentTo
    <3>2. /\ Ordered(Append(down[q], env), store[q].seq, seq + 1)
          /\ Reaches(Append(down[q], env), seq + 1)
      BY <1>0, <1>2, <2>1, OrderedAnnounced
    <3> QED BY <1>0, <2>1, <3>1, <3>2 DEF Order
  <2> QED BY <2>2, <2>3
<1>6. ASSUME NEW env \in Env, Repeats(env)
      PROVE  Order(q)' /\ store[q].seq <= store'[q].seq
  <2>1. /\ env \in Range(acks) /\ UNCHANGED <<seq, store, link>>
        /\ down' = SentTo(down, env, {})
    BY <1>6 DEF Repeats
  <2>2. ~env.full  BY <2>1 DEF Trace
  <2>3. CASE link[q] = "down"
    <3>1. down'[q] = down[q]  BY <2>1, <2>3 DEF SentTo
    <3> QED BY <1>3, <2>1, <3>1
  <2>4. CASE link[q] # "down"
    <3>1. down'[q] = Append(down[q], env)  BY <2>1, <2>4 DEF SentTo
    <3>2. /\ Ordered(Append(down[q], env), store[q].seq, seq)
          /\ Reaches(down[q], seq) => Reaches(Append(down[q], env), seq)
      BY <1>0, <1>2, <2>2, OrderedRepeated
    <3>3. store'[q].awaiting \/ store'[q].seq = seq' \/ Reaches(down'[q], seq')
      BY <1>2, <2>1, <2>4, <3>1, <3>2
    <3>4. Ordered(down'[q], store'[q].seq, seq')  BY <2>1, <3>1, <3>2
    <3> QED BY <1>0, <2>1, <3>3, <3>4 DEF Order
  <2> QED BY <2>3, <2>4
<1>7. ASSUME Reads(q) PROVE Order(q)' /\ store[q].seq <= store'[q].seq
  <2> DEFINE env == Head(down[q])
             s == store[q]
             t == store'[q]
             d == Tail(down[q])
  <2>1. /\ UNCHANGED <<seq, link>> /\ down[q] # <<>> /\ down' = [down EXCEPT ![q] = d]
        /\ \/ s.awaiting /\ UNCHANGED store
           \/ Replaces(s, env, t) \/ Adds(s, env, t) \/ Leaves(s, env, t)
    BY <1>7 DEF Reads
  <2>2. down'[q] = d  BY <1>1, <2>1
  <2>3. /\ Ordered(d, s.seq, seq) /\ Ordered(d, env.seq, seq)
        /\ env.full => s.seq <= env.seq /\ (env.seq = seq \/ Reaches(d, seq))
        /\ Reaches(down[q], seq) => env.seq = seq \/ Reaches(d, seq)
    BY <1>0, <1>2, <2>1, OrderedRead
  <2>4. env.seq \in Nat /\ env.seq <= seq
    <3>1. down[q][1] = env /\ 1 \in DOMAIN down[q]  BY <1>0, <2>1, Dropped
    <3> QED BY <1>0, <3>1
  <2>5. link[q] # "down" => s.awaiting \/ s.seq = seq \/ env.seq = seq \/ Reaches(d, seq)
    BY <1>2, <2>3
  <2>6. s.seq \in Nat /\ s.seq <= seq  BY <1>0
  <2>7. SUFFICES /\ Ordered(d, t.seq, seq) /\ s.seq <= t.seq
                 /\ link[q] # "down" => t.awaiting \/ t.seq = seq \/ Reaches(d, seq)
    BY <2>1, <2>2 DEF Order
  <2>8. t = s <=> store'[q] = store[q]  OBVIOUS
  <2> HIDE DEF env, s, t, d
  <2>9. CASE s.awaiting /\ t = s  BY <2>3, <2>6, <2>9
  <2>10. CASE Replaces(s, env, t)  BY <2>3, <2>10 DEF Replaces
  <2>11. CASE Adds(s, env, t)
    <3>1. env.seq = s.seq + 1 /\ ~s.awaiting /\ t.seq = env.seq  BY <2>11 DEF Adds
    <3>2. s.seq # seq /\ s.seq <= t.seq  BY <1>0, <2>4, <2>6, <3>1
    <3> QED BY <2>3, <2>5, <3>1, <3>2
  <2>12. CASE Leaves(s, env, t)
    <3>1. t.seq = s.seq /\ (~t.awaiting => ~s.awaiting /\ env.seq <= s.seq)
      BY <2>12 DEF Leaves
    <3>2. env.seq = seq /\ env.seq <= s.seq => s.seq = seq  BY <1>0, <2>6
    <3> QED BY <2>3, <2>5, <2>6, <3>1, <3>2
  <2> QED BY <2>1, <2>8, <2>9, <2>10, <2>11, <2>12
<1>8. ASSUME NEW p \in Pages, p # q, Reads(p)
      PROVE  Order(q)' /\ store[q].seq <= store'[q].seq
  <2>1. /\ UNCHANGED <<seq, link>> /\ down' = [down EXCEPT ![p] = Tail(@)]
        /\ store'[q] = store[q]
    BY <1>8 DEF Reads
  <2>2. down'[q] = down[q]  BY <1>1, <1>8, <2>1
  <2> QED BY <1>3, <2>1, <2>2
<1>9. ASSUME NEW p \in Pages, Loads(p)
      PROVE  Order(q)' /\ store[q].seq <= store'[q].seq
  <2>1. /\ UNCHANGED <<seq, link, down>> /\ link[p] = "down" /\ store'[p].seq = seq
        /\ \A r \in Pages \ {p} : store'[r] = store[r]
    BY <1>9 DEF Loads
  <2>2. CASE p = q  BY <1>0, <1>2, <1>4, <2>1, <2>2
  <2>3. CASE p # q  BY <1>3, <2>1, <2>3
  <2> QED BY <2>2, <2>3
<1>10. CASE Rests
  <2>1. /\ seq' = seq /\ store'[q].seq = store[q].seq
        /\ store'[q].awaiting = store[q].awaiting
        /\ down'[q] = down[q] \/ down'[q] = <<>>
        /\ link'[q] # "down" => /\ down'[q] = down[q]
                                /\ link[q] # "down" \/ store[q].seq = seq
    BY <1>10 DEF Rests
  <2>2. CASE down'[q] = down[q]  BY <1>3, <2>1, <2>2
  <2>3. CASE down'[q] = <<>> /\ link'[q] = "down"  BY <1>0, <1>4, <2>1, <2>3
  <2> QED BY <2>1, <2>2, <2>3
<1> QED BY <1>5, <1>6, <1>7, <1>8, <1>9, <1>10 DEF Effect

-----------------------------------------------------------------------------
(* A call that succeeded was told of by a state of the history no later    *)
(* than what the page has, or will have.                                   *)

Past(p, k) ==
    /\ ~store[p].awaiting => k <= store[p].seq
    /\ \A e \in Range(down[p]) : e.full => k <= e.seq

Told(H, p, n) ==
    outcome[p][n] = "ok" => \E k \in 0 .. seq : Shows(H[k], astray, n) /\ Past(p, k)

LEMMA SeqGrows ==
    ASSUME Types, Effect
    PROVE  /\ seq \in Nat /\ seq' \in Nat /\ seq <= seq'
           /\ \A k \in 0 .. seq : k \in Nat /\ k \in 0 .. seq'
<1>1. seq \in Nat  BY DEF Types, ServerTypes
<1>2. seq' = seq \/ seq' = seq + 1  BY DEF Effect, Announces, Repeats, Reads, Loads, Rests
<1> QED BY <1>1, <1>2

LEMMA PastStep ==
    ASSUME Types, Effect, NEW H, Trace(H), NEW p \in Pages, NEW k \in 0 .. seq, Past(p, k)
    PROVE  Past(p, k)'
<1>0. /\ store[p].seq \in Nat /\ store[p].seq <= seq /\ seq \in Nat /\ k \in Nat /\ k <= seq
      /\ down[p] \in Seq(Env)
  BY StreamSeqs
<1>1. down \in [Pages -> Seq(Env)]  BY DEF Types, WireTypes
<1>2. /\ ~store[p].awaiting => k <= store[p].seq
      /\ \A e \in Range(down[p]) : e.full => k <= e.seq
  BY DEF Past
<1>3. ASSUME NEW env, NEW J, env \in Env, down' = SentTo(down, env, J), UNCHANGED store,
             env.full => k <= env.seq
      PROVE  Past(p, k)'
  <2>1. down'[p] = down[p] \/ down'[p] = Append(down[p], env)  BY <1>3 DEF SentTo
  <2>2. Range(Append(down[p], env)) = Range(down[p]) \cup {env}  BY <1>0, <1>3, Appended
  <2>3. \A e \in Range(down'[p]) : e \in Range(down[p]) \/ e = env  BY <2>1, <2>2
  <2> QED BY <1>2, <1>3, <2>3 DEF Past
<1>4. ASSUME NEW env \in Env, NEW J \in SUBSET Pages, Announces(env, J) PROVE Past(p, k)'
  <2>1. env.seq = seq + 1 /\ UNCHANGED store /\ down' = SentTo(down, env, J)
    BY <1>4 DEF Announces
  <2>2. k <= env.seq  BY <1>0, <2>1
  <2> QED BY <1>3, <2>1, <2>2
<1>5. ASSUME NEW env \in Env, Repeats(env) PROVE Past(p, k)'
  <2>1. env \in Range(acks) /\ UNCHANGED store /\ down' = SentTo(down, env, {})
    BY <1>5 DEF Repeats
  <2>2. ~env.full  BY <2>1 DEF Trace
  <2> QED BY <1>3, <2>1, <2>2
<1>6. ASSUME Reads(p) PROVE Past(p, k)'
  <2> DEFINE env == Head(down[p])
             s == store[p]
             t == store'[p]
  <2>1. /\ down[p] # <<>> /\ down' = [down EXCEPT ![p] = Tail(@)]
        /\ \/ UNCHANGED store
           \/ Replaces(s, env, t) \/ Adds(s, env, t) \/ Leaves(s, env, t)
    BY <1>6 DEF Reads
  <2>2. down'[p] = Tail(down[p])  BY <1>1, <2>1
  <2>3. Range(down[p]) = Range(Tail(down[p])) \cup {env}  BY <1>0, <2>1, Dropped
  <2>4. /\ \A e \in Range(down'[p]) : e.full => k <= e.seq
        /\ env.full => k <= env.seq
    BY <1>2, <2>2, <2>3
  <2>5. s.seq \in Nat /\ (~s.awaiting => k <= s.seq) /\ k \in Nat  BY <1>0, <1>2
  <2>6. UNCHANGED store => t = s  OBVIOUS
  <2> HIDE DEF env, s, t
  <2>7. ~t.awaiting => k <= t.seq
    <3>1. CASE t = s  BY <2>5, <3>1
    <3>2. CASE Replaces(s, env, t)  BY <2>4, <3>2 DEF Replaces
    <3>3. CASE Adds(s, env, t)
      <4>1. ~s.awaiting /\ t.seq = s.seq + 1  BY <3>3 DEF Adds
      <4> QED BY <2>5, <4>1
    <3>4. CASE Leaves(s, env, t)  BY <2>5, <3>4 DEF Leaves
    <3> QED BY <2>1, <2>6, <3>1, <3>2, <3>3, <3>4
  <2> QED BY <2>4, <2>7 DEF Past, t
<1>7. ASSUME store'[p].seq = store[p].seq, store'[p].awaiting = store[p].awaiting,
             down'[p] = down[p] \/ down'[p] = <<>>
      PROVE  Past(p, k)'
  <2>1. Range(<<>>) = {}  BY DEF Range
  <2> QED BY <1>2, <1>7, <2>1 DEF Past
<1>8. ASSUME NEW q \in Pages, q # p, Reads(q) PROVE Past(p, k)'
  <2>1. down'[p] = down[p] /\ store'[p] = store[p]  BY <1>1, <1>8 DEF Reads
  <2> QED BY <1>7, <2>1
<1>9. ASSUME NEW q \in Pages, Loads(q) PROVE Past(p, k)'
  <2>1. /\ down' = down /\ store'[q].seq = seq
        /\ \A r \in Pages \ {q} : store'[r] = store[r]
    BY <1>9 DEF Loads
  <2>2. CASE p = q  BY <1>0, <1>2, <2>1, <2>2 DEF Past
  <2>3. CASE p # q  BY <1>7, <2>1, <2>3
  <2> QED BY <2>2, <2>3
<1>10. CASE Rests  BY <1>7, <1>10 DEF Rests
<1> QED BY <1>4, <1>5, <1>6, <1>8, <1>9, <1>10 DEF Effect

LEMMA ToldStep ==
    ASSUME Types, Effect, astray \subseteq astray', NEW H, Trace(H), NEW p \in Pages, NEW n \in RpcNo,
           Order(p), Told(H, p, n),
           NEW G, \A i \in 0 .. seq : G[i] = H[i]
    PROVE  Told(G, p, n)'
<1>0. /\ outcome \in [Pages -> [RpcNo -> {"none", "ok", "error"}]]
      /\ down \in [Pages -> Seq(Env)]
  BY DEF Types, PageTypes, WireTypes
<1>1. ASSUME outcome'[p][n] = outcome[p][n] PROVE Told(G, p, n)'
  <2>1. SUFFICES ASSUME outcome[p][n] = "ok"
                 PROVE  \E k \in 0 .. seq' : Shows(G[k], astray', n) /\ Past(p, k)'
    BY <1>1 DEF Told, Shows
  <2>2. PICK k \in 0 .. seq : Shows(H[k], astray, n) /\ Past(p, k)  BY <2>1 DEF Told
  <2>3. Past(p, k)'  BY <2>2, PastStep
  <2>4. k \in 0 .. seq'  BY SeqGrows
  <2>5. Shows(G[k], astray', n)  BY <2>2 DEF Shows
  <2> QED BY <2>3, <2>4, <2>5
<1>2. ASSUME outcome'[p][n] # outcome[p][n], outcome'[p][n] = "ok" PROVE Told(G, p, n)'
  <2> DEFINE env == Head(down[p])
             s == store[p]
             t == store'[p]
  <2>1. PICK q \in Pages : Reads(q) /\ ~UNCHANGED outcome
    BY <1>2 DEF Effect, Announces, Repeats, Loads, Rests
  <2>2. q = p
    <3>1. SUFFICES ASSUME q # p PROVE outcome'[p] = outcome[p]  BY <1>2
    <3> QED BY <1>0, <2>1, <3>1 DEF Reads
  <2>3. /\ down[p] # <<>> /\ down' = [down EXCEPT ![p] = Tail(@)] /\ env \in Env
        /\ Replaces(s, env, t) \/ Adds(s, env, t) \/ Leaves(s, env, t)
        /\ env.ack \in RpcNo
        /\ outcome' = [outcome EXCEPT ![p][env.ack] = IF env.ok THEN "ok" ELSE "error"]
        /\ seq' = seq
    BY <2>1, <2>2 DEF Reads
  <2>4. env.ack = n /\ env.ok
    <3> HIDE DEF env
    <3> DEFINE c == IF env.ok THEN "ok" ELSE "error"
    <3>1. c \in {"none", "ok", "error"}  OBVIOUS
    <3> HIDE DEF c
    <3>2. /\ outcome' = [outcome EXCEPT ![p][env.ack] = c]  BY <2>3 DEF c
    <3>3. /\ outcome'[p][env.ack] = c
          /\ \A y \in RpcNo : y # env.ack => outcome'[p][y] = outcome[p][y]
      BY <1>0, <2>3, <3>1, <3>2
    <3>4. env.ack = n  BY <1>2, <3>3
    <3>5. c = "ok"  BY <1>2, <3>3, <3>4
    <3> QED BY <3>4, <3>5 DEF c
  <2>5. down[p] \in Seq(Env) /\ seq \in Nat  BY <1>0, SeqGrows
  <2>6. env \in Range(down[p])
    <3>1. Range(down[p]) = Range(Tail(down[p])) \cup {Head(down[p])}  BY <2>3, <2>5, Dropped
    <3> QED BY <3>1
  <2>7. Fits(env, H, seq, astray)  BY <2>6 DEF Trace
  <2>8. env.seq \in 0 .. seq /\ Shows(H[env.seq], astray, n)
    <3>1. env.seq \in 1 .. seq /\ (env.ack # 0 /\ env.ok => Shows(H[env.seq], astray, env.ack))
      BY <2>7 DEF Fits
    <3>2. env.ack # 0  BY <2>3 DEF RpcNo
    <3>3. \A i \in 1 .. seq : i \in 0 .. seq  BY <2>5
    <3> QED BY <2>4, <3>1, <3>2, <3>3
  <2>9. down'[p] = Tail(down[p])  BY <1>0, <2>3
  <2>10. \A e \in Range(down'[p]) : e.full => env.seq <= e.seq
    <3>1. Ordered(down[p], store[p].seq, seq) /\ store[p].seq \in Nat
      BY StreamSeqs DEF Order
    <3>2. Ordered(Tail(down[p]), Head(down[p]).seq, seq)  BY <2>3, <2>5, <3>1, OrderedRead
    <3>3. SUFFICES ASSUME NEW e \in Range(Tail(down[p])), e.full PROVE env.seq <= e.seq
      BY <2>9
    <3>4. PICK i \in DOMAIN Tail(down[p]) : Tail(down[p])[i] = e  BY <3>3, InRange
    <3> QED BY <3>2, <3>3, <3>4 DEF Ordered
  <2>11. ~t.awaiting => env.seq <= t.seq
    <3>1. env.seq \in Nat /\ s.seq \in Nat
      <4>1. \A i \in 0 .. seq : i \in Nat  BY <2>5
      <4> QED BY <2>8, <4>1, StreamSeqs
    <3> HIDE DEF env, s, t
    <3>2. CASE Replaces(s, env, t)  BY <3>1, <3>2 DEF Replaces
    <3>3. CASE Adds(s, env, t)  BY <3>1, <3>3 DEF Adds
    <3>4. CASE Leaves(s, env, t)  BY <3>1, <3>4 DEF Leaves
    <3> QED BY <2>3, <3>2, <3>3, <3>4
  <2>12. PICK k \in 0 .. seq : k = env.seq  BY <2>8
  <2>13. Past(p, k)'  BY <2>10, <2>11, <2>12 DEF Past
  <2>14. G[k] = H[k] /\ Shows(G[k], astray', n)  BY <2>8, <2>12 DEF Shows
  <2> QED BY <2>3, <2>12, <2>13, <2>14 DEF Told, Shows
<1>3. CASE outcome'[p][n] # "ok"  BY <1>3 DEF Told
<1> QED BY <1>1, <1>2, <1>3

-----------------------------------------------------------------------------
(* The inductive invariant.                                                *)

Knows(H) == Trace(H) /\ \A p \in Pages, n \in RpcNo : Told(H, p, n)

IInv ==
    /\ Types /\ Lives /\ Pending
    /\ \A p \in Pages : Calls(p) /\ Order(p)
    /\ \E H : Knows(H)

LEMMA Starts ==
    ASSUME SyncInit
    PROVE  IInv /\ \A p \in Pages : Recovers(p)
<1>0. <<>> \in Seq(Write) /\ <<>> \in Seq(Env) /\ <<>> \in Seq(Msg) /\ <<>> \in Seq(RpcNo)
      /\ Range(<<>>) = {}
  BY DEF Range
<1>1. FreshStore \in Stores /\ FreshStore.awaiting /\ FreshStore.ops = <<>>
      /\ FreshStore.seq = 0 /\ FreshStore.confirmed = <<>>
  BY <1>0 DEF FreshStore, Stores
<1>2. /\ log = <<>> /\ seq = 1 /\ acks = <<>> /\ astray = {}
      /\ running = [p \in Pages |-> [n \in RpcNo |-> 0]]
      /\ document = [p \in Pages |-> "new"] /\ store = [p \in Pages |-> FreshStore]
      /\ used = [p \in Pages |-> 0]
      /\ outcome = [p \in Pages |-> [n \in RpcNo |-> "none"]]
      /\ link = [p \in Pages |-> "down"] /\ opened = [p \in Pages |-> FALSE]
      /\ down = [p \in Pages |-> <<>>] /\ up = [p \in Pages |-> <<>>]
      /\ unsure = [p \in Pages |-> {}]
      /\ count = [write |-> 0, drop |-> 0, lost |-> 0, corrupt |-> 0]
  BY DEF SyncInit
<1> HIDE DEF FreshStore
<1>3. ServerTypes  BY <1>0, <1>2 DEF ServerTypes
<1>4. PageTypes
  <2>1. 0 \in 0 .. MaxCalls  BY ConstantTypes
  <2> QED BY <1>1, <1>2, <2>1 DEF PageTypes
<1>5. WireTypes
  <2>1. count \in [{"write", "drop", "lost", "corrupt"} -> Nat]  BY <1>2
  <2> QED BY <1>0, <1>2, <2>1 DEF WireTypes
<1>6. Lives  BY <1>0, <1>1, <1>2 DEF Lives
<1>7. Pending  BY <1>0, <1>1, <1>2 DEF Pending
<1>8. \A p \in Pages : Calls(p) /\ Recovers(p)  BY <1>2 DEF Calls, Recovers
<1>9. ASSUME NEW p \in Pages PROVE Order(p)
  <2>1. link[p] = "down" /\ down[p] = <<>>  BY <1>2
  <2> QED BY <2>1, OrderedEmpty DEF Order
<1>10. \E H : Knows(H)
  <2> DEFINE H == [i \in Nat |-> <<>>]
  <2>1. H \in [Nat -> Seq(Write)] /\ \A i \in Nat : H[i] = <<>>  BY <1>0
  <2> HIDE DEF H
  <2>2. IsPrefix(<<>>, <<>>)  BY <1>0, PrefixAppended
  <2>3. 0 \in 0 .. 1 /\ \A i \in 0 .. 1 : i \in Nat  OBVIOUS
  <2>4. History(H)  BY <1>2, <2>1, <2>2, <2>3 DEF History
  <2>5. Trace(H)  BY <1>0, <1>1, <1>2, <2>1, <2>3, <2>4 DEF Trace
  <2>6. \A p \in Pages, n \in RpcNo : Told(H, p, n)  BY <1>2 DEF Told
  <2> QED BY <2>5, <2>6 DEF Knows
<1> QED BY <1>3, <1>4, <1>5, <1>6, <1>7, <1>8, <1>9, <1>10 DEF IInv, Types

LEMMA Goes ==
    ASSUME IInv, [SyncNext]_syncVars
    PROVE  IInv' /\ Effect
<1>1. Types /\ Lives /\ Pending  BY DEF IInv
<1>2. Types' /\ Lives' /\ Pending'  BY <1>1, TypesStep, LivesStep, PendingStep
<1>3. Effect  BY <1>1, StepEffect
<1>4. PICK H : Knows(H)  BY DEF IInv
<1>5. Trace(H) /\ astray \subseteq astray'  BY <1>1, <1>4, AstrayGrows DEF Knows
<1>6. PICK G : Trace(G)' /\ \A i \in 0 .. seq : G[i] = H[i]
  BY <1>1, <1>3, <1>5, TraceStep
<1>7. ASSUME NEW p \in Pages PROVE Calls(p)' /\ Order(p)'
  <2>1. Calls(p) /\ Order(p)  BY DEF IInv
  <2>2. Calls(p)'  BY <1>1, <2>1, CallsStep
  <2>3. Order(p)'  BY <1>1, <1>3, <1>5, <2>1, OrderStep
  <2> QED BY <2>2, <2>3
<1>8. ASSUME NEW p \in Pages, NEW n \in RpcNo PROVE Told(G, p, n)'
  <2>1. Order(p) /\ Told(H, p, n)  BY <1>4 DEF IInv, Knows
  <2> QED BY <1>1, <1>3, <1>5, <1>6, <2>1, ToldStep
<1>9. Knows(G)'  BY <1>6, <1>8 DEF Knows
<1>10. \E F : Knows(F)'  BY <1>9
<1> QED BY <1>2, <1>3, <1>7, <1>10 DEF IInv

(* The inductive invariant holds of every reachable state: what has the    *)
(* types of the model, how a page's life, its store and its stream go      *)
(* together, and a history that every store and every envelope agrees with.*)
THEOREM InvariantHolds == SyncSpec => []IInv
<1>1. SyncInit => IInv  BY Starts
<1>2. IInv /\ [SyncNext]_syncVars => IInv'  BY Goes
<1> QED BY <1>1, <1>2, PTL DEF SyncSpec

(* What the stores have confirmed are states of the log, in its order.     *)
LEMMA Confirmed ==
    ASSUME Types, NEW H, Trace(H), NEW p \in Pages
    PROVE  /\ IsPrefix(store[p].confirmed, log) /\ store[p].confirmed \in Seq(Write)
           /\ \A k \in 0 .. seq : H[k] \in Seq(Write) /\ IsPrefix(H[k], log)
           /\ \A k \in 0 .. store[p].seq :
                H[k] \in Seq(Write) /\ IsPrefix(H[k], store[p].confirmed)
<1>1. seq \in Nat /\ H \in [Nat -> Seq(Write)] /\ H[seq] = log
  BY DEF Types, ServerTypes, Trace, History
<1>2. store[p].seq \in 0 .. seq /\ store[p].confirmed = H[store[p].seq]  BY DEF Trace
<1>3. \A i, j \in 0 .. seq : i <= j => IsPrefix(H[i], H[j])  BY DEF Trace, History
<1>4. ASSUME NEW k \in 0 .. seq PROVE H[k] \in Seq(Write) /\ IsPrefix(H[k], log)
  <2>1. k \in Nat /\ k <= seq /\ seq \in 0 .. seq  BY <1>1
  <2> QED BY <1>1, <1>3, <2>1
<1>5. ASSUME NEW k \in 0 .. store[p].seq
      PROVE  H[k] \in Seq(Write) /\ IsPrefix(H[k], store[p].confirmed)
  <2>1. \A h \in 0 .. seq : \A i \in 0 .. h : i \in 0 .. seq /\ i <= h  BY <1>1
  <2>2. k \in 0 .. seq /\ k <= store[p].seq  BY <1>2, <2>1
  <2> QED BY <1>2, <1>3, <1>4, <2>2
<1> QED BY <1>2, <1>4, <1>5

LEMMA InvExact ==
    ASSUME IInv
    PROVE  ConfirmedExact
<1>1. Types  BY DEF IInv
<1>2. PICK H : Trace(H)  BY DEF IInv, Knows
<1>3. ASSUME NEW p \in Pages, Live(p), ~store[p].awaiting, down[p] = <<>>
      PROVE  store[p].confirmed = log /\ store[p].seq = seq
  <2>1. link[p] # "down"  BY <1>3 DEF Live
  <2>2. ~Reaches(down[p], seq)  BY <1>3 DEF Reaches
  <2>3. Order(p)  BY DEF IInv
  <2>4. store[p].seq = seq  BY <1>3, <2>1, <2>2, <2>3 DEF Order
  <2>5. store[p].confirmed = H[seq]  BY <1>2, <2>4 DEF Trace
  <2> QED BY <1>2, <2>4, <2>5 DEF Trace, History
<1>4. \A p \in Pages : IsPrefix(store[p].confirmed, log)  BY <1>1, <1>2, Confirmed
<1> QED BY <1>3, <1>4 DEF ConfirmedExact

(* What a store has confirmed is a state the instance was in, and a store  *)
(* that trusts it and has read its open stream to the end has the present  *)
(* one, with its number: for every number of pages, over both transports,  *)
(* whatever is dropped, lost, repeated or cannot be applied (store.ts).    *)
THEOREM ConfirmedExactAlways == SyncSpec => []ConfirmedExact
<1>1. IInv => ConfirmedExact  BY InvExact
<1> QED BY <1>1, InvariantHolds, PTL

(* The batch of a pending call of an open page is on its way, running or   *)
(* answered on the stream, unless the call is one `unsure` names: #send,   *)
(* resendUnacked and the dedupe window leave no call behind.               *)
THEOREM CallsCoveredAlways == SyncSpec => []CallCovered
<1>1. IInv => CallCovered  BY DEF IInv, CallCovered, Calls, Live
<1> QED BY <1>1, InvariantHolds, PTL

(* When no request is lost, neither a pending call nor a store that waits  *)
(* is forgotten while the stream is open (resendUnacked, requestResync).   *)
(* The hypothesis is needed: a resync whose POST fails is not sent again.  *)
THEOREM NothingForgottenAlways ==
    ASSUME Transport = "ws" \/ MaxLost = 0
    PROVE  SyncSpec => []NothingForgotten
<1> DEFINE R == \A p \in Pages : Recovers(p)
<1>1. SyncInit => R  BY Starts
<1>2. IInv /\ R /\ [SyncNext]_syncVars => R'
  <2> SUFFICES ASSUME IInv, R, [SyncNext]_syncVars, NEW p \in Pages PROVE Recovers(p)'  OBVIOUS
  <2> QED BY RecoversStep DEF IInv
<1>3. IInv /\ R => NothingForgotten
  <2> SUFFICES ASSUME IInv, R PROVE NothingForgotten  OBVIOUS
  <2>1. CallCovered  BY DEF IInv, CallCovered, Calls, Live
  <2>2. ASSUME NEW p \in Pages, Live(p), store[p].awaiting
        PROVE  Resync \in Range(up[p]) \/ \E i \in DOMAIN down[p] : down[p][i].full
    <3>1. link[p] # "down" /\ document[p] = "held"  BY <2>2 DEF Live
    <3>2. Resync \in Range(up[p]) \/ \E env \in Range(down[p]) : env.full
      BY <2>2, <3>1 DEF Recovers
    <3> QED BY <3>2, InRange
  <2> QED BY <2>1, <2>2 DEF NothingForgotten, RecoveryUnderWay
<1> HIDE DEF R
<1> QED BY <1>1, <1>2, <1>3, InvariantHolds, PTL DEF SyncSpec

Logged ==
    \A p \in Pages, n \in RpcNo :
        outcome[p][n] = "ok" => [by |-> p, n |-> n] \in Range(log) \cup astray

LEMMA InvAcked ==
    ASSUME IInv, \A p, q \in Pages : p = q
    PROVE  AckedShows /\ Logged
<1>1. Types /\ log \in Seq(Write)  BY DEF IInv, Types, ServerTypes
<1>2. PICK H : Trace(H) /\ \A p \in Pages, n \in RpcNo : Told(H, p, n)
  BY DEF IInv, Knows
<1>3. ASSUME NEW p \in Pages, NEW n \in RpcNo, outcome[p][n] = "ok",
             [by |-> p, n |-> n] \notin astray
      PROVE  /\ ~store[p].awaiting => [by |-> p, n |-> n] \in Range(store[p].confirmed)
             /\ [by |-> p, n |-> n] \in Range(log)
  <2>1. PICK k \in 0 .. seq : Shows(H[k], astray, n) /\ Past(p, k)  BY <1>2, <1>3 DEF Told
  <2>2. [by |-> p, n |-> n] \in Range(H[k])  BY <1>3, <2>1 DEF Shows
  <2>3. /\ H[k] \in Seq(Write) /\ IsPrefix(H[k], log)
        /\ k \in 0 .. store[p].seq => IsPrefix(H[k], store[p].confirmed)
        /\ store[p].confirmed \in Seq(Write)
    BY <1>1, <1>2, Confirmed
  <2>4. Range(H[k]) \subseteq Range(log)  BY <1>1, <2>3, PrefixRange
  <2>5. ~store[p].awaiting => k \in 0 .. store[p].seq
    <3>1. store[p].seq \in Nat /\ seq \in Nat  BY <1>1, <1>2, StreamSeqs
    <3> QED BY <2>1, <3>1 DEF Past
  <2>6. ~store[p].awaiting => Range(H[k]) \subseteq Range(store[p].confirmed)
    BY <2>3, <2>5, PrefixRange
  <2> QED BY <2>2, <2>4, <2>6
<1> QED BY <1>3 DEF AckedShows, Logged

(* A call that succeeded shows in what the page has confirmed, unless the  *)
(* store waits for a snapshot, as long as the session has one page:        *)
(* another one counts its rpc ids from the same start, and the dedupe      *)
(* window answers its calls with the first one's acks (instance.ts).  The  *)
(* successes acked while their writes were astray are excepted.            *)
THEOREM AckedShowsAlways ==
    ASSUME \A p, q \in Pages : p = q
    PROVE  SyncSpec => []AckedShows
<1>1. IInv => AckedShows  BY InvAcked
<1> QED BY <1>1, InvariantHolds, PTL

(* The log grows by the writes of an envelope.                             *)
LEMMA LogStep ==
    ASSUME Types, [SyncNext]_syncVars
    PROVE  log' = log \/ (/\ UNCHANGED <<store, outcome>>
                          /\ \E ws \in Seq(Write) : ws # <<>> /\ log' = log \o ws)
<1>0. log \in Seq(Write)  BY DEF Types, ServerTypes
<1>1. ASSUME NEW env \in Env, log' = log \o env.writes, UNCHANGED <<store, outcome>>
      PROVE  log' = log \/ (/\ UNCHANGED <<store, outcome>>
                            /\ \E ws \in Seq(Write) : ws # <<>> /\ log' = log \o ws)
  <2>1. env.writes \in Seq(Write)  BY DEF Env
  <2>2. log \o <<>> = log  BY <1>0
  <2> QED BY <1>1, <2>1, <2>2
<1>2. CASE OtherWrite
  <2>1. PICK env \in Env : log' = log \o env.writes  BY <1>2, OtherWriteParts
  <2>2. UNCHANGED <<store, outcome>>  BY <1>2 DEF OtherWrite, client
  <2> QED BY <1>1, <2>1, <2>2
<1>3. ASSUME NEW p \in Pages, NEW n \in RpcNo, Finish(p, n)
      PROVE  log' = log \/ (/\ UNCHANGED <<store, outcome>>
                            /\ \E ws \in Seq(Write) : ws # <<>> /\ log' = log \o ws)
  <2>1. PICK env \in Env : log' = log \o env.writes  BY <1>3, FinishParts
  <2>2. UNCHANGED <<store, outcome>>  BY <1>3 DEF Finish, client
  <2> QED BY <1>1, <2>1, <2>2
<1>4. ASSUME NEW p \in Pages, Arrive(p) PROVE log' = log  BY <1>4, ArriveParts
<1>5. ASSUME NEW p \in Pages, Connect(p) \/ Opened(p) \/ Deliver(p) \/ Load(p) \/ Bind(p)
             \/ Call(p) \/ Drop(p) \/ LosePost(p) \/ Close(p)
      PROVE  log' = log
  BY <1>5 DEF Connect, Opened, Deliver, Load, Bind, Call, Drop, LosePost, Close, server
<1>6. CASE UNCHANGED syncVars  BY <1>6 DEF syncVars, server
<1> QED BY <1>2, <1>3, <1>4, <1>5, <1>6 DEF SyncNext, Serve, Stream

LEMMA ConfirmedGrows ==
    ASSUME IInv, [SyncNext]_syncVars, NEW p \in Pages
    PROVE  IsPrefix(store[p].confirmed, store'[p].confirmed)
<1>1. Types /\ Lives /\ Order(p) /\ Effect /\ astray \subseteq astray'
  BY Goes, AstrayGrows DEF IInv
<1>2. PICK H : Trace(H)  BY DEF IInv, Knows
<1>3. PICK G : Trace(G)' /\ \A i \in 0 .. seq : G[i] = H[i]  BY <1>1, <1>2, TraceStep
<1>4. store[p].seq <= store'[p].seq  BY <1>1, <1>2, OrderStep
<1>5. /\ store[p].confirmed = H[store[p].seq] /\ store[p].seq \in 0 .. seq
      /\ store'[p].confirmed = G[store'[p].seq] /\ store'[p].seq \in 0 .. seq'
      /\ \A i, j \in 0 .. seq' : i <= j => IsPrefix(G[i], G[j])
  BY <1>2, <1>3 DEF Trace, History
<1>6. store[p].seq \in 0 .. seq'  BY <1>1, <1>5, SeqGrows
<1>7. G[store[p].seq] = H[store[p].seq]  BY <1>3, <1>5
<1> QED BY <1>4, <1>5, <1>6, <1>7

(* At no step does a page give up what it has confirmed: no gap, no stale  *)
(* or repeated ack, no frame it cannot apply and no reconnection takes a   *)
(* write away again, or puts another in its place (applyEnvelope).         *)
THEOREM PagesNeverGoBack ==
    SyncSpec => [][\A p \in Pages : IsPrefix(store[p].confirmed, store'[p].confirmed)]_syncVars
<1>1. IInv /\ [SyncNext]_syncVars => [\A p \in Pages :
                                IsPrefix(store[p].confirmed, store'[p].confirmed)]_syncVars
  BY ConfirmedGrows
<1> QED BY <1>1, InvariantHolds, PTL DEF SyncSpec

(* A step settles at most one call of a page as done, and undoes none.     *)
LEMMA OutcomeStep ==
    ASSUME IInv, [SyncNext]_syncVars, NEW p \in Pages
    PROVE  \E n \in {0} \cup RpcNo : \A m \in RpcNo :
              outcome'[p][m] = "ok" <=> (outcome[p][m] = "ok" \/ m = n)
<1>0. outcome \in [Pages -> [RpcNo -> {"none", "ok", "error"}]]
  BY DEF IInv, Types, PageTypes
<1>1. Effect  BY Goes
<1>2. CASE outcome'[p] = outcome[p]
  <2>1. \A m \in RpcNo : m # 0  BY DEF RpcNo
  <2> QED BY <1>2, <2>1
<1>3. CASE outcome'[p] # outcome[p]
  <2> DEFINE env == Head(down[p])
  <2>1. PICK q \in Pages : Reads(q) /\ ~UNCHANGED outcome
    BY <1>1, <1>3 DEF Effect, Announces, Repeats, Loads, Rests
  <2>2. q = p
    <3>1. SUFFICES ASSUME q # p PROVE outcome'[p] = outcome[p]  BY <1>3
    <3> QED BY <1>0, <2>1, <3>1 DEF Reads
  <2>3. /\ env.ack \in RpcNo /\ env.ack \in Range(store[p].ops)
        /\ outcome' = [outcome EXCEPT ![p][env.ack] = IF env.ok THEN "ok" ELSE "error"]
    BY <2>1, <2>2 DEF Reads
  <2>4. outcome[p][env.ack] = "none"
    <3> HIDE DEF env
    <3> QED BY <2>3 DEF IInv, Pending
  <2> DEFINE c == IF env.ok THEN "ok" ELSE "error"
  <2>5. c \in {"ok", "error"}  OBVIOUS
  <2>6. outcome' = [outcome EXCEPT ![p][env.ack] = c]  BY <2>3
  <2> HIDE DEF c, env
  <2>7. /\ outcome'[p][env.ack] = c
        /\ \A m \in RpcNo : m # env.ack => outcome'[p][m] = outcome[p][m]
    BY <1>0, <2>3, <2>5, <2>6
  <2>8. CASE c = "ok"  BY <2>3, <2>7, <2>8
  <2>9. CASE c = "error"
    <3>1. \A m \in RpcNo : m # 0  BY DEF RpcNo
    <3> QED BY <2>4, <2>7, <2>9, <3>1
  <2> QED BY <2>5, <2>8, <2>9
<1> QED BY <1>2, <1>3

-----------------------------------------------------------------------------
(* The pages keep the promise of SyncPromise.                              *)

LEMMA PrefixCut ==
    ASSUME NEW S, NEW s \in Seq(S), NEW t \in Seq(S), IsPrefix(s, t)
    PROVE  SubSeq(t, 1, Len(s)) = s /\ Len(s) \in Nat /\ Len(s) <= Len(t) /\ Len(t) \in Nat
<1>1. Len(s) <= Len(t) /\ \A i \in 1 .. Len(s) : s[i] = t[i]  BY PrefixIs
<1>2. Len(s) \in Nat /\ Len(t) \in Nat  BY LenProperties
<1> QED BY <1>1, <1>2 DEF IsPrefix

LEMMA InvNext ==
    ASSUME \A p, q \in Pages : p = q
    PROVE  IInv' => ConfirmedExact' /\ Logged'
<1>1. IInv => ConfirmedExact /\ Logged  BY InvExact, InvAcked
<1> QED BY <1>1, PTL

LEMMA PromiseStep ==
    ASSUME IInv, [SyncNext]_syncVars, \A p, q \in Pages : p = q
    PROVE  [Promise!Next]_Promise!vars
<1> DEFINE own(p, n) == [by |-> p, n |-> n]
           done(p) == {n \in RpcNo : outcome[p][n] = "ok" /\ own(p, n) \notin astray}
           donePrime(p) == {n \in RpcNo : outcome'[p][n] = "ok" /\ own(p, n) \notin astray'}
<1>1. Types /\ log \in Seq(Write)  BY DEF IInv, Types, ServerTypes
<1>2. IInv' /\ ConfirmedExact' /\ Logged'  BY Goes, InvNext
<1>5. \A p \in Pages, n \in RpcNo :
         outcome[p][n] = "ok" => (own(p, n) \in astray' <=> own(p, n) \in astray)
  <2>1. Logged  BY InvAcked
  <2>2. astray \subseteq astray' /\ \A w \in astray' : w \in astray \/ w \notin Range(log)
    BY <1>1, AstrayGrows
  <2> QED BY <2>1, <2>2 DEF Logged
<1>3. CASE log' = log
  <2>1. CASE Pages = {}
    <3>1. /\ [p \in Pages |-> store'[p].confirmed] = [p \in Pages |-> store[p].confirmed]
          /\ [p \in Pages |-> donePrime(p)] = [p \in Pages |-> done(p)]
      BY <2>1
    <3> QED BY <1>3, <3>1 DEF Promise!vars
  <2>2. ASSUME NEW p \in Pages PROVE Promise!Learn(p)
    <3>1. \A q \in Pages : q = p  OBVIOUS
    <3> DEFINE old == store[p].confirmed
               new == store'[p].confirmed
               l == Len(new)
    <3>2. old \in Seq(Write) /\ IsPrefix(old, new)
      <4>1. PICK H : Trace(H)  BY DEF IInv, Knows
      <4> QED BY <1>1, <4>1, Confirmed, ConfirmedGrows
    <3>3. new \in Seq(Write) /\ IsPrefix(new, log)
      <4>1. store' \in [Pages -> Stores]  BY <1>2 DEF IInv, Types, PageTypes
      <4>2. store'[p] \in Stores  BY <4>1
      <4>3. store'[p].confirmed \in Seq(Write)  BY <4>2 DEF Stores
      <4> QED BY <1>2, <1>3, <4>3 DEF ConfirmedExact
    <3>4. Len(old) <= l /\ Len(old) \in Nat /\ l \in Nat
      BY <3>2, <3>3, PrefixCut
    <3>5. SubSeq(log, 1, l) = new /\ l <= Len(log) /\ Len(log) \in Nat
      BY <1>1, <3>3, PrefixCut
    <3>6. l \in Len(old) .. Len(log)  BY <3>4, <3>5
    <3>7. [q \in Pages |-> store'[q].confirmed]
            = [[q \in Pages |-> store[q].confirmed] EXCEPT ![p] = SubSeq(log, 1, l)]
      <4> HIDE DEF l
      <4> QED BY <3>1, <3>5
    <3>8. \E n \in {0} \cup {w.n : w \in {v \in Range(log) : v.by = p}} :
             [q \in Pages |-> donePrime(q)]
               = [[q \in Pages |-> done(q)] EXCEPT ![p] = @ \cup ({n} \ {0})]
      <4>1. PICK n \in {0} \cup RpcNo : \A m \in RpcNo :
                    outcome'[p][m] = "ok" <=> (outcome[p][m] = "ok" \/ m = n)
        BY OutcomeStep
      <4> DEFINE k == IF n # 0 /\ own(p, n) \in astray' THEN 0 ELSE n
      <4>2. donePrime(p) = done(p) \cup ({k} \ {0})
        <5>1. \A m \in RpcNo : m # 0  BY DEF RpcNo
        <5> HIDE DEF own
        <5> QED BY <1>5, <4>1, <5>1
      <4>3. k \in {0} \cup {w.n : w \in {v \in Range(log) : v.by = p}}
        <5>1. SUFFICES ASSUME n # 0, own(p, n) \notin astray'
                       PROVE  \E w \in {v \in Range(log) : v.by = p} : w.n = n
          OBVIOUS
        <5>2. outcome'[p][n] = "ok"  BY <4>1, <5>1
        <5>3. own(p, n) \in Range(log)  BY <1>2, <1>3, <4>1, <5>1, <5>2 DEF Logged
        <5> QED BY <5>3
      <4> HIDE DEF k
      <4> HIDE DEF done, donePrime
      <4>4. [q \in Pages |-> donePrime(q)]
              = [[q \in Pages |-> done(q)] EXCEPT ![p] = @ \cup ({k} \ {0})]
        BY <3>1, <4>2
      <4> QED BY <4>3, <4>4
    <3>9. [q \in Pages |-> store[q].confirmed][p] = old  OBVIOUS
    <3>10. \E k \in Len([q \in Pages |-> store[q].confirmed][p]) .. Len(log) :
             [q \in Pages |-> store'[q].confirmed]
               = [[q \in Pages |-> store[q].confirmed] EXCEPT ![p] = SubSeq(log, 1, k)]
      <4> HIDE DEF old, l
      <4> QED BY <3>6, <3>7, <3>9
    <3>11. Promise!Range(log) = Range(log)  BY DEF Promise!Range, Range
    <3> HIDE DEF old, new, l
    <3> QED BY <1>3, <3>8, <3>10, <3>11, Zenon DEF Promise!Learn
  <2> QED BY <2>1, <2>2 DEF Promise!Next
<1>4. CASE /\ UNCHANGED <<store, outcome>>
           /\ \E ws \in Seq(Write) : ws # <<>> /\ log' = log \o ws
  <2>1. PICK ws \in Seq(Write) : ws # <<>> /\ log' = log \o ws  BY <1>4
  <2>2. /\ Len(log) \in Nat /\ Len(ws) \in Nat /\ Len(ws) > 0 /\ Len(log') = Len(log) + Len(ws)
        /\ \A i \in Len(log) + 1 .. Len(log') : log'[i] \in Write
    <3>1. Len(log) \in Nat /\ Len(ws) \in Nat \ {0} /\ \A i \in 1 .. Len(ws) : ws[i] \in Write
      BY <1>1, <2>1, LenProperties, Dropped
    <3>2. /\ Len(log \o ws) = Len(log) + Len(ws)
          /\ \A i \in 1 .. Len(log) + Len(ws) :
                (log \o ws)[i] = IF i <= Len(log) THEN log[i] ELSE ws[i - Len(log)]
      BY <1>1, ConcatProperties
    <3>3. ASSUME NEW i \in Len(log) + 1 .. Len(log) + Len(ws) PROVE (log \o ws)[i] \in Write
      <4>1. i \in 1 .. Len(log) + Len(ws) /\ ~(i <= Len(log)) /\ i - Len(log) \in 1 .. Len(ws)
        BY <3>1
      <4> QED BY <3>1, <3>2, <4>1
    <3> QED BY <2>1, <3>1, <3>2, <3>3
  <2>3. SubSeq(log', 1, Len(log)) = log
    <3>1. IsPrefix(log, log') /\ log' \in Seq(Write)
      BY <1>1, <2>1, PrefixAppended, ConcatProperties
    <3> QED BY <1>1, <3>1, PrefixCut
  <2>4. Len(log') > Len(log)  BY <2>2
  <2>5. \A i \in Len(log) + 1 .. Len(log') : log'[i].by \in Pages \cup {Other}
    BY <2>2 DEF Write
  <2>6. /\ [p \in Pages |-> store'[p].confirmed] = [p \in Pages |-> store[p].confirmed]
        /\ [p \in Pages |-> donePrime(p)] = [p \in Pages |-> done(p)]
    <3>1. \A p \in Pages : donePrime(p) = done(p)
      <4> HIDE DEF own
      <4> QED BY <1>4, <1>5
    <3> HIDE DEF done, donePrime
    <3> QED BY <1>4, <3>1
  <2>7. Promise!Extend  BY <2>3, <2>4, <2>5, <2>6 DEF Promise!Extend, Promise!Author
  <2> QED BY <2>7 DEF Promise!Next
<1> QED BY <1>1, <1>3, <1>4, LogStep

(* The pages of the live object keep what SyncPromise promises them, as    *)
(* long as the session has one page: it reads an append-only log in order, *)
(* and a call of it succeeds only once its write is in that log, unless it *)
(* went astray: an error ack or a draft that threw had taken it.           *)
THEOREM SyncImplementsPromise ==
    ASSUME \A p, q \in Pages : p = q
    PROVE  SyncSpec => KeepsPromise
<1>1. SyncInit => Promise!Init
  <2> SUFFICES ASSUME SyncInit PROVE Promise!Init  OBVIOUS
  <2>1. /\ log = <<>> /\ store = [p \in Pages |-> FreshStore] /\ astray = {}
        /\ outcome = [p \in Pages |-> [n \in RpcNo |-> "none"]]
    BY DEF SyncInit
  <2>2. FreshStore.confirmed = <<>>  BY DEF FreshStore
  <2>3. /\ [p \in Pages |-> store[p].confirmed] = [p \in Pages |-> <<>>]
        /\ [p \in Pages |->
              {n \in RpcNo : outcome[p][n] = "ok" /\ [by |-> p, n |-> n] \notin astray}]
           = [p \in Pages |-> {}]
    BY <2>1, <2>2
  <2> QED BY <2>1, <2>3 DEF Promise!Init
<1>2. IInv /\ [SyncNext]_syncVars => [Promise!Next]_Promise!vars  BY PromiseStep
<1> QED BY <1>1, <1>2, InvariantHolds, PTL DEF SyncSpec, KeepsPromise, Promise!Spec
=============================================================================
