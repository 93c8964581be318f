---------------------------- MODULE FilterProofs ----------------------------
(***************************************************************************)
(* What Filter!Only and Filter!Total return, for every sequence.  The      *)
(* induction theorems of the library take a predicate, which the provers   *)
(* cannot instantiate; these take the set of the numbers that have it.     *)
(***************************************************************************)
EXTENDS Filter, Functions, FiniteSetTheorems, SequenceTheorems, WellFoundedInduction, TLAPS

(* Induction over the naturals, for a set instead of a predicate.          *)
LEMMA NatSetInduction ==
    ASSUME NEW T, 0 \in T, \A n \in Nat : n \in T => n + 1 \in T
    PROVE  Nat \subseteq T
<1> DEFINE R == OpToRel(<, Nat)
           U == Nat \ T
<1>1. SUFFICES ASSUME U # {} PROVE FALSE
  OBVIOUS
<1>2. \A x, y \in Nat : y < x => <<y, x>> \in R  BY DEF OpToRel
<1>3. PICK x \in U : \A y \in U : ~ (<<y, x>> \in R)
  <2>1. IsWellFoundedOn(R, Nat)  BY NatLessThanWellFounded
  <2>2. U \subseteq Nat  OBVIOUS
  <2> HIDE DEF R, U
  <2> QED BY <1>1, <2>1, <2>2, WFMin
<1>4. x \in Nat /\ x # 0  OBVIOUS
<1>5. x - 1 \in Nat /\ x - 1 < x /\ (x - 1) + 1 = x  BY <1>4
<1>6. x - 1 \in U  BY <1>5
<1> QED BY <1>2, <1>3, <1>4, <1>5, <1>6

(* The same up to a bound.                                                 *)
LEMMA UpToInduction ==
    ASSUME NEW N \in Nat, NEW T, 0 \in T, \A n \in 0 .. N - 1 : n \in T => n + 1 \in T
    PROVE  \A n \in 0 .. N : n \in T
<1> DEFINE U == {n \in Nat : n <= N => n \in T}
<1>1. 0 \in U  OBVIOUS
<1>2. \A n \in Nat : n \in U => n + 1 \in U  OBVIOUS
<1> HIDE DEF U
<1>3. Nat \subseteq U  BY <1>1, <1>2, NatSetInduction
<1> QED BY <1>3 DEF U

(* A function may be defined by recursion over 0 .. N.                     *)
IsRecursion(f, N, S, c, step) ==
    f \in [0 .. N -> S] /\ f[0] = c /\ \A i \in 1 .. N : f[i] = step[i][f[i - 1]]

(* There is such a function, so that CHOOSE finds one.                     *)
LEMMA RecursionExists ==
    ASSUME NEW N \in Nat, NEW S, NEW c \in S, NEW step \in [1 .. N -> [S -> S]]
    PROVE  \E f : IsRecursion(f, N, S, c, step)
<1> DEFINE Good(n, f) == f[0] = c /\ \A i \in 1 .. n : f[i] = step[i][f[i - 1]]
           T == {n \in 0 .. N : \E f \in [0 .. N -> S] : Good(n, f)}
<1>1. 0 \in T
  <2>1. [i \in 0 .. N |-> c] \in [0 .. N -> S]  OBVIOUS
  <2>2. Good(0, [i \in 0 .. N |-> c])  OBVIOUS
  <2>3. 0 \in 0 .. N  OBVIOUS
  <2> QED BY <2>1, <2>2, <2>3, Zenon
<1>2. ASSUME NEW n \in 0 .. N - 1, n \in T PROVE n + 1 \in T
  <2>1. PICK f \in [0 .. N -> S] : Good(n, f)  BY <1>2
  <2>2. f[n] \in S /\ n + 1 \in 1 .. N  OBVIOUS
  <2>3. step[n + 1][f[n]] \in S  BY <2>2
  <2> DEFINE g == [f EXCEPT ![n + 1] = step[n + 1][f[n]]]
  <2>4. g \in [0 .. N -> S]  BY <2>3
  <2>5. g[n + 1] = step[n + 1][f[n]] /\ \A i \in 0 .. n : g[i] = f[i]  BY <2>2
  <2>6. Good(n + 1, g)
    <3>1. g[0] = c  BY <2>1, <2>5
    <3>2. ASSUME NEW i \in 1 .. n + 1 PROVE g[i] = step[i][g[i - 1]]
      <4>1. CASE i = n + 1  BY <2>5, <4>1
      <4>2. CASE i \in 1 .. n
        <5>1. i - 1 \in 0 .. n /\ i \in 0 .. n  BY <4>2
        <5> QED BY <2>1, <2>5, <4>2, <5>1
      <4> QED BY <4>1, <4>2
    <3> QED BY <3>1, <3>2
  <2> HIDE DEF g
  <2> QED BY <2>2, <2>4, <2>6
<1> HIDE DEF T, Good
<1>3. \A n \in 0 .. N - 1 : n \in T => n + 1 \in T  BY <1>2
<1>4. \A n \in 0 .. N : n \in T  BY <1>1, <1>3, UpToInduction
<1>5. N \in T  BY <1>4
<1> QED BY <1>5 DEF T, Good, IsRecursion

-----------------------------------------------------------------------------
(* Only *)

(* What has been kept of the first i elements of seq, for each i.          *)
IsFilter(kept, S, seq, es) ==
    /\ kept \in [0 .. Len(seq) -> Seq(S)]
    /\ kept[0] = <<>> /\ Only(seq, es) = kept[Len(seq)]
    /\ \A i \in 1 .. Len(seq) :
          kept[i] = IF seq[i] \in es THEN Append(kept[i - 1], seq[i]) ELSE kept[i - 1]

(* Only is what the last step of its recursion kept.                       *)
LEMMA OnlyFilters ==
    ASSUME NEW S, NEW seq \in Seq(S), NEW es
    PROVE  \E kept : IsFilter(kept, S, seq, es)
<1> DEFINE Body(g) == [i \in 0 .. Len(seq) |->
                         IF i = 0 THEN <<>>
                         ELSE IF seq[i] \in es THEN Append(g[i - 1], seq[i]) ELSE g[i - 1]]
           kept == CHOOSE g : g = Body(g)
           step == [i \in 1 .. Len(seq) |->
                      [s \in Seq(S) |-> IF seq[i] \in es THEN Append(s, seq[i]) ELSE s]]
<1>1. Len(seq) \in Nat /\ \A i \in 1 .. Len(seq) : seq[i] \in S  BY ElementOfSeq
<1>2. <<>> \in Seq(S)  OBVIOUS
<1>3. step \in [1 .. Len(seq) -> [Seq(S) -> Seq(S)]]
  <2>1. \A i \in 1 .. Len(seq), s \in Seq(S) : Append(s, seq[i]) \in Seq(S)
    BY <1>1, AppendProperties
  <2> QED BY <2>1
<1>4. PICK f \in [0 .. Len(seq) -> Seq(S)] :
        f[0] = <<>> /\ \A i \in 1 .. Len(seq) : f[i] = step[i][f[i - 1]]
  <2> HIDE DEF step
  <2>1. PICK f : IsRecursion(f, Len(seq), Seq(S), <<>>, step)
    BY <1>1, <1>2, <1>3, RecursionExists, Zenon
  <2> QED BY <2>1 DEF IsRecursion
<1>5. f = Body(f)
  <2>1. ASSUME NEW i \in 0 .. Len(seq) PROVE f[i] = Body(f)[i]
    <3>1. CASE i = 0  BY <1>4, <3>1
    <3>2. CASE i # 0
      <4>1. i \in 1 .. Len(seq) /\ f[i - 1] \in Seq(S)  BY <1>1, <3>2
      <4>2. f[i] = IF seq[i] \in es THEN Append(f[i - 1], seq[i]) ELSE f[i - 1]
        BY <1>4, <4>1
      <4> QED BY <3>2, <4>2
    <3> QED BY <3>1, <3>2
  <2>2. DOMAIN Body(f) = 0 .. Len(seq) /\ Body(f) = [i \in 0 .. Len(seq) |-> Body(f)[i]]
    OBVIOUS
  <2> HIDE DEF Body
  <2> QED BY <2>1, <2>2
<1>6. kept = Body(kept)
  <2> HIDE DEF Body
  <2> QED BY <1>5
<1>7. Only(seq, es) = kept[Len(seq)]  BY DEF Only
<1> HIDE DEF kept
<1>8. kept[0] = <<>> /\ \A i \in 1 .. Len(seq) :
         kept[i] = IF seq[i] \in es THEN Append(kept[i - 1], seq[i]) ELSE kept[i - 1]
  <2> DEFINE Next(i) == IF seq[i] \in es THEN Append(kept[i - 1], seq[i]) ELSE kept[i - 1]
  <2>1. \A i \in 0 .. Len(seq) : kept[i] = Body(kept)[i]  BY <1>6, Zenon
  <2>2. \A i \in 0 .. Len(seq) : Body(kept)[i] = IF i = 0 THEN <<>> ELSE Next(i)
    BY Zenon
  <2> HIDE DEF Body, Next
  <2>3. 0 \in 0 .. Len(seq) /\ \A i \in 1 .. Len(seq) : i \in 0 .. Len(seq) /\ i # 0
    BY <1>1
  <2>4. kept[0] = <<>>  BY <2>1, <2>2, <2>3, Zenon
  <2>5. \A i \in 1 .. Len(seq) : kept[i] = Next(i)  BY <2>1, <2>2, <2>3, Zenon
  <2> QED BY <2>4, <2>5 DEF Next
<1>9. kept \in [0 .. Len(seq) -> Seq(S)]
  <2> DEFINE T == {i \in 0 .. Len(seq) : kept[i] \in Seq(S)}
  <2>1. 0 \in T
    <3>1. 0 \in 0 .. Len(seq)  BY <1>1
    <3> QED BY <1>2, <1>8, <3>1, Zenon
  <2>2. ASSUME NEW n \in 0 .. Len(seq) - 1, n \in T PROVE n + 1 \in T
    <3>1. n + 1 \in 1 .. Len(seq) /\ (n + 1) - 1 = n  BY <1>1
    <3>2. kept[n + 1] = IF seq[n + 1] \in es THEN Append(kept[n], seq[n + 1]) ELSE kept[n]
      BY <1>8, <3>1
    <3>3. kept[n] \in Seq(S) /\ seq[n + 1] \in S  BY <1>1, <2>2, <3>1
    <3>4. kept[n + 1] \in Seq(S)  BY <3>2, <3>3, AppendProperties
    <3> QED BY <3>1, <3>4
  <2>3. \A n \in 0 .. Len(seq) - 1 : n \in T => n + 1 \in T  BY <2>2
  <2> HIDE DEF T
  <2>4. \A n \in 0 .. Len(seq) : n \in T  BY <1>1, <2>1, <2>3, UpToInduction
  <2>5. \A n \in 0 .. Len(seq) : kept[n] \in Seq(S)  BY <2>4 DEF T
  <2>6. kept = [i \in 0 .. Len(seq) |-> kept[i]]  BY <1>6
  <2> QED BY <2>5, <2>6
<1> QED BY <1>7, <1>8, <1>9 DEF IsFilter

LEMMA OneMore ==
    ASSUME NEW L \in Nat, NEW n \in Nat, NEW h \in [1 .. L -> 1 .. n],
           \A i, j \in 1 .. L : i < j => h[i] < h[j]
    PROVE  \E g \in [1 .. L + 1 -> 1 .. n + 1] :
              /\ \A i, j \in 1 .. L + 1 : i < j => g[i] < g[j]
              /\ g[L + 1] = n + 1 /\ \A i \in 1 .. L : g[i] = h[i]
<1> DEFINE g == [i \in 1 .. L + 1 |-> IF i <= L THEN h[i] ELSE n + 1]
<1>1. \A i \in 1 .. L : g[i] = h[i] /\ h[i] \in 1 .. n  OBVIOUS
<1>2. g[L + 1] = n + 1  OBVIOUS
<1>3. g \in [1 .. L + 1 -> 1 .. n + 1]  BY <1>1
<1> HIDE DEF g
<1>4. ASSUME NEW i \in 1 .. L + 1, NEW j \in 1 .. L + 1, i < j PROVE g[i] < g[j]
  <2>1. i \in 1 .. L /\ g[i] = h[i] /\ h[i] \in 1 .. n  BY <1>1, <1>4
  <2>2. CASE j = L + 1
    <3>1. h[i] < n + 1  BY <2>1
    <3> QED BY <1>2, <2>1, <2>2, <3>1
  <2>3. CASE j \in 1 .. L
    <3>1. g[j] = h[j] /\ h[i] < h[j]  BY <1>1, <1>4, <2>1, <2>3
    <3> QED BY <2>1, <3>1
  <2> QED BY <2>2, <2>3
<1> QED BY <1>1, <1>2, <1>3, <1>4

(* Only keeps the elements that are in es, in their order and all of them: *)
(* h tells where each of them comes from.                                  *)
LEMMA OnlyPicks ==
    ASSUME NEW S, NEW seq \in Seq(S), NEW es
    PROVE  /\ Only(seq, es) \in Seq(S) /\ Range(Only(seq, es)) = Range(seq) \cap es
           /\ \E h \in [1 .. Len(Only(seq, es)) -> 1 .. Len(seq)] :
                 /\ \A i, j \in 1 .. Len(Only(seq, es)) : i < j => h[i] < h[j]
                 /\ \A i \in 1 .. Len(Only(seq, es)) : Only(seq, es)[i] = seq[h[i]]
                 /\ \A k \in 1 .. Len(seq) :
                       seq[k] \in es => \E i \in 1 .. Len(Only(seq, es)) : h[i] = k
<1>0. PICK kept : IsFilter(kept, S, seq, es)  BY OnlyFilters, Zenon
<1>1. /\ kept \in [0 .. Len(seq) -> Seq(S)]
      /\ kept[0] = <<>> /\ Only(seq, es) = kept[Len(seq)]
      /\ \A i \in 1 .. Len(seq) :
            kept[i] = IF seq[i] \in es THEN Append(kept[i - 1], seq[i]) ELSE kept[i - 1]
  BY <1>0 DEF IsFilter
<1>2. Len(seq) \in Nat /\ DOMAIN seq = 1 .. Len(seq) /\ \A i \in 1 .. Len(seq) : seq[i] \in S
  BY ElementOfSeq, LenProperties
<1> DEFINE Picks(n, h) ==
             /\ h \in [1 .. Len(kept[n]) -> 1 .. n]
             /\ \A i, j \in 1 .. Len(kept[n]) : i < j => h[i] < h[j]
             /\ \A i \in 1 .. Len(kept[n]) : kept[n][i] = seq[h[i]]
             /\ \A k \in 1 .. n : seq[k] \in es => \E i \in 1 .. Len(kept[n]) : h[i] = k
           T == {n \in 0 .. Len(seq) : /\ Range(kept[n]) = {seq[i] : i \in 1 .. n} \cap es
                                       /\ \E h : Picks(n, h)}
<1>3. 0 \in T
  <2>0. Range(<<>>) = {} /\ Len(<<>>) = 0  BY DEF Range
  <2>1. 0 \in 0 .. Len(seq) /\ Len(kept[0]) = 0 /\ Range(kept[0]) = {}
    BY <1>1, <1>2, <2>0
  <2> DEFINE h == [i \in 1 .. 0 |-> 1]
  <2>2. Picks(0, h)  BY <2>1
  <2>3. {seq[i] : i \in 1 .. 0} = {}  OBVIOUS
  <2> HIDE DEF Picks, h
  <2> QED BY <2>1, <2>2, <2>3, Zenon
<1>4. ASSUME NEW n \in 0 .. Len(seq) - 1, n \in T PROVE n + 1 \in T
  <2>1. n + 1 \in 1 .. Len(seq) /\ n \in 0 .. Len(seq) /\ (n + 1) - 1 = n  BY <1>2
  <2>2. kept[n] \in Seq(S) /\ seq[n + 1] \in S /\ Len(kept[n]) \in Nat  BY <1>1, <1>2, <2>1
  <2>3. PICK h : Picks(n, h)  BY <1>4
  <2>4. {seq[i] : i \in 1 .. n + 1} = {seq[i] : i \in 1 .. n} \cup {seq[n + 1]}  BY <2>1
  <2>5. kept[n + 1] = IF seq[n + 1] \in es THEN Append(kept[n], seq[n + 1]) ELSE kept[n]
    BY <1>1, <2>1
  <2>6. CASE seq[n + 1] \in es
    <3>1. /\ kept[n + 1] = Append(kept[n], seq[n + 1])
          /\ Len(kept[n + 1]) = Len(kept[n]) + 1 /\ DOMAIN kept[n + 1] = 1 .. Len(kept[n]) + 1
          /\ DOMAIN kept[n] = 1 .. Len(kept[n])
          /\ \A i \in 1 .. Len(kept[n]) : kept[n + 1][i] = kept[n][i]
          /\ kept[n + 1][Len(kept[n]) + 1] = seq[n + 1]
      BY <2>2, <2>5, <2>6, AppendProperties, LenProperties
    <3>2. Range(kept[n + 1]) = Range(kept[n]) \cup {seq[n + 1]}  BY <2>2, <3>1 DEF Range
    <3>3. Range(kept[n + 1]) = {seq[i] : i \in 1 .. n + 1} \cap es
      <4>1. Range(kept[n]) = {seq[i] : i \in 1 .. n} \cap es  BY <1>4
      <4> QED BY <2>4, <2>6, <3>2, <4>1
    <3>4. PICK g \in [1 .. Len(kept[n]) + 1 -> 1 .. n + 1] :
            /\ \A i, j \in 1 .. Len(kept[n]) + 1 : i < j => g[i] < g[j]
            /\ g[Len(kept[n]) + 1] = n + 1 /\ \A i \in 1 .. Len(kept[n]) : g[i] = h[i]
      <4>1. n \in Nat /\ h \in [1 .. Len(kept[n]) -> 1 .. n]  BY <2>3
      <4>2. \A i, j \in 1 .. Len(kept[n]) : i < j => h[i] < h[j]  BY <2>3
      <4> HIDE DEF Picks
      <4> QED BY <2>2, <4>1, <4>2, OneMore
    <3>5. \A i \in 1 .. Len(kept[n]) + 1 : kept[n + 1][i] = seq[g[i]]
      <4> SUFFICES ASSUME NEW i \in 1 .. Len(kept[n]) + 1 PROVE kept[n + 1][i] = seq[g[i]]
        OBVIOUS
      <4>1. CASE i = Len(kept[n]) + 1  BY <3>1, <3>4, <4>1
      <4>2. CASE i \in 1 .. Len(kept[n])  BY <2>3, <3>1, <3>4, <4>2
      <4> QED BY <2>2, <4>1, <4>2
    <3>6. \A k \in 1 .. n + 1 : seq[k] \in es => \E i \in 1 .. Len(kept[n]) + 1 : g[i] = k
      <4>1. ASSUME NEW k \in 1 .. n, seq[k] \in es
            PROVE  \E i \in 1 .. Len(kept[n]) + 1 : g[i] = k
        <5>1. PICK i \in 1 .. Len(kept[n]) : h[i] = k  BY <2>3, <4>1
        <5>2. i \in 1 .. Len(kept[n]) + 1  BY <2>2
        <5>3. g[i] = k  BY <3>4, <5>1
        <5> QED BY <5>2, <5>3
      <4>2. \A k \in 1 .. n + 1 : k \in 1 .. n \/ k = n + 1  BY <2>1
      <4>3. Len(kept[n]) + 1 \in 1 .. Len(kept[n]) + 1 /\ g[Len(kept[n]) + 1] = n + 1
        BY <2>2, <3>4
      <4> QED BY <4>1, <4>2, <4>3
    <3>7. Picks(n + 1, g)  BY <3>1, <3>4, <3>5, <3>6, Zenon
    <3> HIDE DEF Picks
    <3> QED BY <2>1, <3>3, <3>7
  <2>7. CASE seq[n + 1] \notin es
    <3>1. kept[n + 1] = kept[n]  BY <2>5, <2>7
    <3>2. Range(kept[n + 1]) = {seq[i] : i \in 1 .. n + 1} \cap es  BY <1>4, <2>4, <2>7, <3>1
    <3>3. Picks(n + 1, h)
      <4>1. h \in [1 .. Len(kept[n]) -> 1 .. n + 1]  BY <2>1, <2>2, <2>3
      <4>2. \A k \in 1 .. n + 1 : k \in 1 .. n \/ k = n + 1  BY <2>1
      <4>3. \A k \in 1 .. n + 1 : seq[k] \in es => \E i \in 1 .. Len(kept[n]) : h[i] = k
        BY <2>3, <2>7, <4>2
      <4> QED BY <2>3, <3>1, <4>1, <4>3, Zenon
    <3> HIDE DEF Picks
    <3> QED BY <2>1, <3>2, <3>3
  <2> QED BY <2>6, <2>7
<1>5. \A n \in 0 .. Len(seq) - 1 : n \in T => n + 1 \in T  BY <1>4
<1>6. Len(seq) \in T
  <2> HIDE DEF T
  <2>1. \A n \in 0 .. Len(seq) : n \in T  BY <1>2, <1>3, <1>5, UpToInduction
  <2> QED BY <1>2, <2>1
<1>7. PICK h : Picks(Len(seq), h)  BY <1>6
<1>8. Range(Only(seq, es)) = Range(seq) \cap es
  <2>1. Range(seq) = {seq[i] : i \in 1 .. Len(seq)}  BY <1>2 DEF Range
  <2> QED BY <1>1, <1>6, <2>1
<1>9. Only(seq, es) \in Seq(S)  BY <1>1, <1>2
<1>10. \E g \in [1 .. Len(Only(seq, es)) -> 1 .. Len(seq)] :
          /\ \A i, j \in 1 .. Len(Only(seq, es)) : i < j => g[i] < g[j]
          /\ \A i \in 1 .. Len(Only(seq, es)) : Only(seq, es)[i] = seq[g[i]]
          /\ \A k \in 1 .. Len(seq) :
                seq[k] \in es => \E i \in 1 .. Len(Only(seq, es)) : g[i] = k
  <2>1. Only(seq, es) = kept[Len(seq)]  BY <1>1
  <2>2. /\ h \in [1 .. Len(Only(seq, es)) -> 1 .. Len(seq)]
        /\ \A i, j \in 1 .. Len(Only(seq, es)) : i < j => h[i] < h[j]
        /\ \A i \in 1 .. Len(Only(seq, es)) : Only(seq, es)[i] = seq[h[i]]
        /\ \A k \in 1 .. Len(seq) :
              seq[k] \in es => \E i \in 1 .. Len(Only(seq, es)) : h[i] = k
    BY <1>7, <2>1, Zenon
  <2> QED BY <2>2, Zenon
<1> QED BY <1>8, <1>9, <1>10

LEMMA OnlyInjective ==
    ASSUME NEW S, NEW seq \in Seq(S), NEW es, IsInjective(seq)
    PROVE  IsInjective(Only(seq, es))
<1> DEFINE s == Only(seq, es)
<1>1. s \in Seq(S) /\ \E h \in [1 .. Len(s) -> 1 .. Len(seq)] :
         /\ \A i, j \in 1 .. Len(s) : i < j => h[i] < h[j]
         /\ \A i \in 1 .. Len(s) : s[i] = seq[h[i]]
  BY OnlyPicks
<1> HIDE DEF s
<1>2. PICK h \in [1 .. Len(s) -> 1 .. Len(seq)] :
         /\ \A i, j \in 1 .. Len(s) : i < j => h[i] < h[j]
         /\ \A i \in 1 .. Len(s) : s[i] = seq[h[i]]
  BY <1>1
<1>3. /\ DOMAIN s = 1 .. Len(s) /\ DOMAIN seq = 1 .. Len(seq)
      /\ Len(s) \in Nat /\ Len(seq) \in Nat
  BY <1>1, LenProperties
<1>4. SUFFICES ASSUME NEW i \in 1 .. Len(s), NEW j \in 1 .. Len(s), s[i] = s[j], i # j
               PROVE  FALSE
  BY <1>3 DEF IsInjective, s
<1>5. h[i] \in 1 .. Len(seq) /\ h[j] \in 1 .. Len(seq)  OBVIOUS
<1>6. h[i] = h[j]  BY <1>2, <1>3, <1>4, <1>5 DEF IsInjective
<1>7. i < j \/ j < i  BY <1>3, <1>4
<1> QED BY <1>2, <1>3, <1>5, <1>6, <1>7

-----------------------------------------------------------------------------
(* Sequences *)

LEMMA AppendOne ==
    ASSUME NEW S, NEW seq \in Seq(S), NEW x \in S
    PROVE  /\ Append(seq, x) \in Seq(S) /\ Range(Append(seq, x)) = Range(seq) \cup {x}
           /\ Len(Append(seq, x)) = Len(seq) + 1 /\ Len(seq) \in Nat
           /\ IsInjective(seq) /\ x \notin Range(seq) => IsInjective(Append(seq, x))
<1>1. /\ Append(seq, x) \in Seq(S) /\ Len(Append(seq, x)) = Len(seq) + 1
      /\ Len(seq) \in Nat /\ DOMAIN seq = 1 .. Len(seq)
      /\ \A i \in 1 .. Len(seq) : Append(seq, x)[i] = seq[i]
      /\ Append(seq, x)[Len(seq) + 1] = x
  BY AppendProperties, LenProperties
<1>2. DOMAIN Append(seq, x) = 1 .. Len(seq) + 1  BY <1>1, LenProperties
<1>3. 1 .. Len(seq) + 1 = 1 .. Len(seq) \cup {Len(seq) + 1}  BY <1>1
<1>4. Range(Append(seq, x)) = Range(seq) \cup {x}  BY <1>1, <1>2, <1>3 DEF Range
<1>5. ASSUME IsInjective(seq), x \notin Range(seq) PROVE IsInjective(Append(seq, x))
  <2>1. \A i \in 1 .. Len(seq) : Append(seq, x)[i] \in Range(seq)  BY <1>1 DEF Range
  <2> QED BY <1>1, <1>2, <1>3, <1>5, <2>1 DEF IsInjective
<1> QED BY <1>1, <1>4, <1>5

LEMMA RangeWithin ==
    ASSUME NEW S, NEW seq \in Seq(S)
    PROVE  Range(seq) \subseteq S
<1>1. DOMAIN seq = 1 .. Len(seq) /\ seq \in [1 .. Len(seq) -> S]  BY LenProperties
<1>2. \A i \in DOMAIN seq : seq[i] \in S  BY <1>1
<1> QED BY <1>2, Zenon DEF Range

-----------------------------------------------------------------------------
(* Total *)

(* What the first n elements of q come to, for each n.                     *)
IsTotal(total, q) ==
    /\ total \in [0 .. Len(q) -> Nat] /\ total[0] = 0
    /\ \A n \in 1 .. Len(q) : total[n] = total[n - 1] + q[n]

LEMMA TotalAdds ==
    ASSUME NEW q \in Seq(Nat)
    PROVE  \E total : IsTotal(total, q) /\ Total(q) = total[Len(q)]
<1> DEFINE Body(g) == [n \in 0 .. Len(q) |-> IF n = 0 THEN 0 ELSE g[n - 1] + q[n]]
           total == CHOOSE g : g = Body(g)
           step == [n \in 1 .. Len(q) |-> [x \in Nat |-> x + q[n]]]
<1>1. Len(q) \in Nat /\ \A n \in 1 .. Len(q) : q[n] \in Nat  BY ElementOfSeq
<1>2. step \in [1 .. Len(q) -> [Nat -> Nat]]  BY <1>1
<1>3. PICK f \in [0 .. Len(q) -> Nat] :
        f[0] = 0 /\ \A n \in 1 .. Len(q) : f[n] = step[n][f[n - 1]]
  <2> HIDE DEF step
  <2>1. 0 \in Nat  OBVIOUS
  <2>2. PICK f : IsRecursion(f, Len(q), Nat, 0, step)
    BY <1>1, <1>2, <2>1, RecursionExists, Zenon
  <2> QED BY <2>2 DEF IsRecursion
<1>4. f = Body(f)
  <2>1. ASSUME NEW n \in 0 .. Len(q) PROVE f[n] = Body(f)[n]
    <3>1. CASE n = 0  BY <1>3, <3>1
    <3>2. CASE n # 0
      <4>1. n \in 1 .. Len(q) /\ n - 1 \in 0 .. Len(q)  BY <1>1, <3>2
      <4>2. f[n] = f[n - 1] + q[n]
        <5>1. f[n - 1] \in Nat  BY <4>1
        <5> QED BY <1>3, <4>1, <5>1
      <4> QED BY <3>2, <4>2
    <3> QED BY <3>1, <3>2
  <2>2. DOMAIN Body(f) = 0 .. Len(q) /\ Body(f) = [n \in 0 .. Len(q) |-> Body(f)[n]]
    OBVIOUS
  <2> HIDE DEF Body
  <2> QED BY <2>1, <2>2
<1>5. total = Body(total)
  <2> HIDE DEF Body
  <2> QED BY <1>4
<1>6. Total(q) = total[Len(q)]  BY DEF Total
<1> HIDE DEF total
<1>7. total[0] = 0 /\ \A n \in 1 .. Len(q) : total[n] = total[n - 1] + q[n]
  <2>1. \A n \in 0 .. Len(q) : total[n] = Body(total)[n]  BY <1>5, Zenon
  <2>2. \A n \in 0 .. Len(q) : Body(total)[n] = IF n = 0 THEN 0 ELSE total[n - 1] + q[n]
    BY Zenon
  <2> HIDE DEF Body
  <2>3. 0 \in 0 .. Len(q) /\ \A n \in 1 .. Len(q) : n \in 0 .. Len(q) /\ n # 0
    BY <1>1
  <2> QED BY <2>1, <2>2, <2>3
<1>8. total \in [0 .. Len(q) -> Nat]
  <2> DEFINE T == {n \in 0 .. Len(q) : total[n] \in Nat}
  <2>1. 0 \in T  BY <1>1, <1>7
  <2>2. \A n \in 0 .. Len(q) - 1 : n \in T => n + 1 \in T
    <3> SUFFICES ASSUME NEW n \in 0 .. Len(q) - 1, n \in T PROVE n + 1 \in T
      OBVIOUS
    <3>1. n + 1 \in 1 .. Len(q) /\ (n + 1) - 1 = n  BY <1>1
    <3>2. total[n + 1] = total[n] + q[n + 1]  BY <1>7, <3>1
    <3> QED BY <1>1, <3>1, <3>2
  <2> HIDE DEF T
  <2>3. \A n \in 0 .. Len(q) : n \in T  BY <1>1, <2>1, <2>2, UpToInduction
  <2>4. \A n \in 0 .. Len(q) : total[n] \in Nat  BY <2>3 DEF T
  <2>5. total = [n \in 0 .. Len(q) |-> total[n]]  BY <1>5
  <2> QED BY <2>4, <2>5
<1> QED BY <1>6, <1>7, <1>8 DEF IsTotal

LEMMA TotalEmpty == Total(<<>>) = 0
<1>1. <<>> \in Seq(Nat) /\ Len(<<>>) = 0  OBVIOUS
<1>2. PICK total : IsTotal(total, <<>>) /\ Total(<<>>) = total[Len(<<>>)]
  BY <1>1, TotalAdds
<1> QED BY <1>1, <1>2 DEF IsTotal

LEMMA TotalNat == ASSUME NEW q \in Seq(Nat) PROVE Total(q) \in Nat
<1>1. PICK total : IsTotal(total, q) /\ Total(q) = total[Len(q)]  BY TotalAdds
<1>2. Len(q) \in Nat /\ Len(q) \in 0 .. Len(q)  BY LenProperties
<1> QED BY <1>1, <1>2 DEF IsTotal

LEMMA TotalMore ==
    ASSUME NEW q \in Seq(Nat), NEW x \in Nat
    PROVE  Append(q, x) \in Seq(Nat) /\ Total(Append(q, x)) = Total(q) + x
<1> DEFINE r == Append(q, x)
           l == Len(q)
<1>1. /\ r \in Seq(Nat) /\ l \in Nat /\ Len(r) = l + 1 /\ r[l + 1] = x
      /\ \A i \in 1 .. l : r[i] = q[i] /\ q[i] \in Nat
  BY AppendProperties, LenProperties, ElementOfSeq
<1> HIDE DEF r
<1>2. PICK t : IsTotal(t, q) /\ Total(q) = t[l]  BY TotalAdds
<1>3. PICK u : IsTotal(u, r) /\ Total(r) = u[l + 1]  BY <1>1, TotalAdds
<1> HIDE DEF l
<1>4. /\ t \in [0 .. l -> Nat] /\ t[0] = 0 /\ \A n \in 1 .. l : t[n] = t[n - 1] + q[n]
      /\ u \in [0 .. l + 1 -> Nat] /\ u[0] = 0 /\ \A n \in 1 .. l + 1 : u[n] = u[n - 1] + r[n]
  BY <1>1, <1>2, <1>3 DEF IsTotal, l
<1> DEFINE T == {n \in 0 .. l : u[n] = t[n]}
<1>5. 0 \in T  BY <1>1, <1>4
<1>6. \A n \in 0 .. l - 1 : n \in T => n + 1 \in T
  <2> SUFFICES ASSUME NEW n \in 0 .. l - 1, n \in T PROVE n + 1 \in T
    OBVIOUS
  <2>1. n + 1 \in 1 .. l /\ n + 1 \in 1 .. l + 1 /\ (n + 1) - 1 = n  BY <1>1
  <2>2. u[n + 1] = u[n] + r[n + 1] /\ t[n + 1] = t[n] + q[n + 1]  BY <1>4, <2>1
  <2>3. r[n + 1] = q[n + 1] /\ u[n] = t[n]  BY <1>1, <2>1
  <2> QED BY <2>1, <2>2, <2>3
<1> HIDE DEF T
<1>7. \A n \in 0 .. l : n \in T  BY <1>1, <1>5, <1>6, UpToInduction
<1>8. u[l] = t[l]  BY <1>1, <1>7 DEF T
<1>9. u[l + 1] = u[l] + x
  <2>1. l + 1 \in 1 .. l + 1 /\ (l + 1) - 1 = l  BY <1>1
  <2> QED BY <1>1, <1>4, <2>1
<1> QED BY <1>1, <1>2, <1>3, <1>8, <1>9 DEF r

LEMMA TotalLess ==
    ASSUME NEW q \in Seq(Nat), q # <<>>
    PROVE  Tail(q) \in Seq(Nat) /\ Total(Tail(q)) <= Total(q)
<1> DEFINE r == Tail(q)
           l == Len(r)
<1>1. /\ r \in Seq(Nat) /\ l \in Nat /\ Len(q) = l + 1
      /\ \A i \in 1 .. l + 1 : q[i] \in Nat
      /\ \A i \in 1 .. l : r[i] = q[i + 1]
  BY HeadTailProperties, LenProperties, ElementOfSeq, EmptySeq
<1> HIDE DEF r
<1>2. PICK t : IsTotal(t, q) /\ Total(q) = t[l + 1]  BY <1>1, TotalAdds
<1>3. PICK u : IsTotal(u, r) /\ Total(r) = u[l]  BY <1>1, TotalAdds
<1>4. /\ u \in [0 .. l -> Nat] /\ u[0] = 0 /\ \A n \in 1 .. l : u[n] = u[n - 1] + r[n]
      /\ t \in [0 .. l + 1 -> Nat] /\ t[0] = 0 /\ \A n \in 1 .. l + 1 : t[n] = t[n - 1] + q[n]
  BY <1>1, <1>2, <1>3 DEF IsTotal
<1> HIDE DEF l
<1> DEFINE T == {n \in 0 .. l : u[n] <= t[n + 1]}
<1>5. 0 \in T
  <2>1. t[0 + 1] = t[0] + q[1]  BY <1>1, <1>4
  <2> QED BY <1>1, <1>4, <2>1
<1>6. \A n \in 0 .. l - 1 : n \in T => n + 1 \in T
  <2> SUFFICES ASSUME NEW n \in 0 .. l - 1, n \in T PROVE n + 1 \in T
    OBVIOUS
  <2>1. /\ n + 1 \in 1 .. l /\ n + 2 \in 1 .. l + 1 /\ (n + 1) - 1 = n /\ (n + 2) - 1 = n + 1
        /\ (n + 1) + 1 = n + 2 /\ n + 1 \in 0 .. l + 1 /\ n \in 0 .. l
    BY <1>1
  <2>2. u[n + 1] = u[n] + r[n + 1] /\ t[n + 2] = t[n + 1] + q[n + 2]  BY <1>4, <2>1
  <2>3. r[n + 1] = q[n + 2] /\ q[n + 2] \in Nat  BY <1>1, <2>1
  <2>4. u[n] \in Nat /\ t[n + 1] \in Nat  BY <1>4, <2>1
  <2>5. u[n] <= t[n + 1]  OBVIOUS
  <2>6. u[n + 1] <= t[n + 2]  BY <2>2, <2>3, <2>4, <2>5
  <2> QED BY <2>1, <2>6
<1> HIDE DEF T
<1>7. \A n \in 0 .. l : n \in T  BY <1>1, <1>5, <1>6, UpToInduction
<1>8. u[l] <= t[l + 1]  BY <1>1, <1>7 DEF T
<1> QED BY <1>1, <1>2, <1>3, <1>8 DEF r

(* An element that grows makes the sum grow by as much; `grown` tells how  *)
(* much of it has been counted after n elements.                           *)
LEMMA TotalGrows ==
    ASSUME NEW l \in Nat, NEW q \in [1 .. l -> Nat], NEW k \in 1 .. l, NEW x \in Nat
    PROVE  Total([q EXCEPT ![k] = @ + x]) = Total(q) + x
<1> DEFINE r == [q EXCEPT ![k] = @ + x]
           grown(n) == IF n < k THEN 0 ELSE x
<1>1. /\ r \in [1 .. l -> Nat] /\ r[k] = q[k] + x
      /\ \A i \in 1 .. l : q[i] \in Nat /\ (i # k => r[i] = q[i])
  OBVIOUS
<1> HIDE DEF r
<1>2. q \in Seq(Nat) /\ r \in Seq(Nat) /\ Len(q) = l /\ Len(r) = l  BY <1>1
<1>3. PICK t : IsTotal(t, q) /\ Total(q) = t[l]  BY <1>2, TotalAdds
<1>4. PICK u : IsTotal(u, r) /\ Total(r) = u[l]  BY <1>2, TotalAdds
<1>5. /\ t \in [0 .. l -> Nat] /\ t[0] = 0 /\ \A n \in 1 .. l : t[n] = t[n - 1] + q[n]
      /\ u \in [0 .. l -> Nat] /\ u[0] = 0 /\ \A n \in 1 .. l : u[n] = u[n - 1] + r[n]
  BY <1>2, <1>3, <1>4 DEF IsTotal
<1> DEFINE T == {n \in 0 .. l : u[n] = t[n] + grown(n)}
<1>6. 0 \in T  BY <1>5
<1>7. \A n \in 0 .. l - 1 : n \in T => n + 1 \in T
  <2> SUFFICES ASSUME NEW n \in 0 .. l - 1, n \in T PROVE n + 1 \in T
    OBVIOUS
  <2>1. n + 1 \in 1 .. l /\ (n + 1) - 1 = n /\ n \in 0 .. l  OBVIOUS
  <2>2. u[n + 1] = u[n] + r[n + 1] /\ t[n + 1] = t[n] + q[n + 1]  BY <1>5, <2>1
  <2>3. t[n] \in Nat /\ q[n + 1] \in Nat /\ u[n] = t[n] + grown(n)  BY <1>1, <1>5, <2>1
  <2>4. CASE n + 1 = k
    <3>1. grown(n) = 0 /\ grown(n + 1) = x /\ r[n + 1] = q[n + 1] + x  BY <1>1, <2>4
    <3> HIDE DEF grown
    <3>2. u[n + 1] = t[n + 1] + grown(n + 1)  BY <2>2, <2>3, <3>1
    <3> QED BY <2>1, <3>2
  <2>5. CASE n + 1 # k
    <3>1. grown(n + 1) = grown(n) /\ grown(n) \in Nat /\ r[n + 1] = q[n + 1]
      BY <1>1, <2>1, <2>5
    <3> HIDE DEF grown
    <3>2. u[n + 1] = t[n + 1] + grown(n + 1)  BY <2>2, <2>3, <3>1
    <3> QED BY <2>1, <3>2
  <2> QED BY <2>4, <2>5
<1> HIDE DEF T
<1>8. \A n \in 0 .. l : n \in T  BY <1>6, <1>7, UpToInduction
<1>9. u[l] = t[l] + grown(l)  BY <1>8 DEF T
<1>10. grown(l) = x  OBVIOUS
<1> QED BY <1>3, <1>4, <1>9, <1>10 DEF r

LEMMA TotalZero == ASSUME NEW l \in Nat PROVE Total([n \in 1 .. l |-> 0]) = 0
<1> DEFINE q == [n \in 1 .. l |-> 0]
<1>1. q \in Seq(Nat) /\ Len(q) = l  OBVIOUS
<1>2. PICK t : IsTotal(t, q) /\ Total(q) = t[l]  BY <1>1, TotalAdds
<1>3. t[0] = 0 /\ \A n \in 1 .. l : t[n] = t[n - 1] + 0
  BY <1>1, <1>2 DEF IsTotal
<1> DEFINE T == {n \in 0 .. l : t[n] = 0}
<1>4. 0 \in T  BY <1>3
<1>5. \A n \in 0 .. l - 1 : n \in T => n + 1 \in T
  <2> SUFFICES ASSUME NEW n \in 0 .. l - 1, n \in T PROVE n + 1 \in T
    OBVIOUS
  <2>1. n + 1 \in 1 .. l /\ (n + 1) - 1 = n  OBVIOUS
  <2>2. t[n + 1] = t[n] + 0 /\ t[n] = 0  BY <1>3, <2>1
  <2> QED BY <2>1, <2>2
<1> HIDE DEF T
<1>6. \A n \in 0 .. l : n \in T  BY <1>4, <1>5, UpToInduction
<1>7. t[l] = 0  BY <1>6 DEF T
<1> QED BY <1>2, <1>7
=============================================================================
