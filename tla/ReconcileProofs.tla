-------------------------- MODULE ReconcileProofs --------------------------
(* Proofs of the invariants of Reconcile for all values of its constants.  *)
EXTENDS Reconcile, TLAPS

-----------------------------------------------------------------------------
(* Sequences *)

LEMMA LastAppend ==
    ASSUME NEW S, NEW s \in Seq(S), NEW x \in S
    PROVE  /\ Append(s, x) \in Seq(S) /\ Append(s, x) # <<>>
           /\ Last(Append(s, x)) = x
BY DEF Last

LEMMA RangeAppend ==
    ASSUME NEW S, NEW s \in Seq(S), NEW x \in S
    PROVE  Range(Append(s, x)) = Range(s) \cup {x}
<1>1. DOMAIN Append(s, x) = DOMAIN s \cup {Len(s) + 1}  OBVIOUS
<1>2. \A i \in DOMAIN s : Append(s, x)[i] = s[i]  OBVIOUS
<1>3. Append(s, x)[Len(s) + 1] = x  OBVIOUS
<1> QED BY <1>1, <1>2, <1>3, Zenon DEF Range

LEMMA RangeConcat ==
    ASSUME NEW S, NEW s \in Seq(S), NEW t \in Seq(S)
    PROVE  Range(s \o t) = Range(s) \cup Range(t)
<1>1. Range(s) \cup Range(t) \subseteq Range(s \o t)
  <2>1. \A i \in DOMAIN s : i \in DOMAIN (s \o t) /\ (s \o t)[i] = s[i]  OBVIOUS
  <2>2. \A i \in DOMAIN t : Len(s) + i \in DOMAIN (s \o t) /\ (s \o t)[Len(s) + i] = t[i]
    OBVIOUS
  <2> QED BY <2>1, <2>2 DEF Range
<1>2. Range(s \o t) \subseteq Range(s) \cup Range(t)  BY DEF Range
<1> QED BY <1>1, <1>2

LEMMA RangeEmpty == Range(<<>>) = {}
BY DEF Range

LEMMA RangeType == ASSUME NEW S, NEW s \in Seq(S) PROVE Range(s) \subseteq S
BY DEF Range

LEMMA WinnerType ==
    ASSUME TypeOK
    PROVE  /\ Winner \in Reqs /\ Winner \in Range(started)
           /\ Len(started) \in DOMAIN started /\ Winner = started[Len(started)]
BY DEF TypeOK, Winner, Last, Range

-----------------------------------------------------------------------------
(* The inductive invariant *)

(* A request has at most one loader run, and none before its guard.        *)
RunsOnce ==
    /\ \A i, j \in DOMAIN started : started[i] = started[j] => i = j
    /\ \A q \in Reqs : pc[q] \in {"idle", "guard"} => q \notin Range(started)

(* Writes are of runs; #loadWrote tells whether the winner has written.    *)
WroteKnows ==
    /\ Range(page) \cup Range(pending) \subseteq Range(started)
    /\ Winner \in Range(pending) => wrote
    /\ wrote /\ ~disposed => Winner \in Range(page) \cup Range(pending) \cup ruined

(* A decision to skip, taken before the guard, still stands after it.      *)
SkipStands == \A q \in Reqs : pc[q] = "guard" /\ skip[q] /\ ~disposed => Loaded(props[q])

IInv ==
    /\ TypeOK /\ RunsOnce /\ WroteKnows /\ SkipStands
    /\ GateOwned /\ PaintHasData /\ FirstPatchOpens /\ LoadOrder /\ KeyWasLoaded
-----------------------------------------------------------------------------

LEMMA InitInv == Init => IInv
<1> SUFFICES ASSUME Init PROVE IInv  OBVIOUS
<1> USE ReconcileConstantsOK DEF Init
<1>0. /\ started = <<First>> /\ DOMAIN started = {1} /\ started[1] = First
      /\ Range(started) = {First} /\ Winner = First
  BY DEF Range, Winner, Last
<1>1. page = <<>> \/ page = <<First>>  OBVIOUS
<1>2. page \in Seq(Reqs) /\ Range(page) \subseteq {First} /\ (page # <<>> => Range(page) = {First})
  <2>1. <<First>> \in Seq(Reqs) /\ <<>> \in Seq(Reqs) /\ <<First>> # <<>>  OBVIOUS
  <2>2. Range(<<First>>) = {First}  BY DEF Range
  <2> QED BY <1>1, <2>1, <2>2, RangeEmpty, Zenon
<1>3. pending \in Seq(Reqs) /\ Range(pending) = {}  BY RangeEmpty
<1>4. TypeOK
  <2>1. \A q \in Reqs : props[q] = NoProps <=> pc[q] = "idle"  OBVIOUS
  <2>2. /\ pc \in [Reqs -> {"idle", "guard", "gate", "served", "stale", "denied", "redirected"}]
        /\ props \in [Reqs -> Props \cup {NoProps}] /\ skip \in [Reqs -> BOOLEAN]
        /\ patches \in [Reqs -> Nat]
        /\ gate \in [Reqs -> {"none", "shut", "open", "refused"}]
    OBVIOUS
  <2>3. loader \in [Reqs -> {"none", "running", "flushing", "over"}]  OBVIOUS
  <2>4. started \in Seq(Reqs) /\ started # <<>>  OBVIOUS
  <2>5. wrote \in BOOLEAN /\ threw \in BOOLEAN /\ disposed \in BOOLEAN /\ drained \in BOOLEAN
    BY Zenon
  <2>6. last \in Props \cup {NoProps}  OBVIOUS
  <2> QED BY <1>2, <1>3, <2>1, <2>2, <2>3, <2>4, <2>5, <2>6 DEF TypeOK
<1>5. RunsOnce  BY <1>0 DEF RunsOnce
<1>6. WroteKnows  BY <1>0, <1>2, <1>3 DEF WroteKnows
<1>7. SkipStands  BY DEF SkipStands
<1>8. GateOwned  BY DEF GateOwned
<1>9. PaintHasData  BY <1>0, <1>2 DEF PaintHasData
<1>10. FirstPatchOpens  BY <1>0, <1>2 DEF FirstPatchOpens
<1>11. LoadOrder  BY <1>0, <1>1 DEF LoadOrder
<1>12. KeyWasLoaded  BY <1>0, <1>2 DEF KeyWasLoaded, Loaded
<1> QED BY <1>4, <1>5, <1>6, <1>7, <1>8, <1>9, <1>10, <1>11, <1>12 DEF IInv
-----------------------------------------------------------------------------
(* Types *)

LEMMA SettleType ==
    ASSUME TypeOK, NEW q \in Reqs, NEW how \in {"open", "refused"}, SettleGate(q, how)
    PROVE  /\ gate' \in [Reqs -> {"none", "shut", "open", "refused"}]
           /\ render' \in Reqs \cup {NoReq}
BY DEF SettleGate, TypeOK

LEMMA TypeStep == IInv /\ [Next]_vars => TypeOK'
<1> SUFFICES ASSUME IInv, [Next]_vars PROVE TypeOK'  OBVIOUS
<1> USE DEF IInv
<1>1. ASSUME NEW q \in Reqs, NEW p \in Props, Begin(q, p) PROVE TypeOK'
  <2>1. /\ props' \in [Reqs -> Props \cup {NoProps}]
        /\ pc' \in [Reqs -> {"idle", "guard", "gate", "served", "stale", "denied", "redirected"}]
    BY <1>1 DEF Begin, TypeOK
  <2>2. \A r \in Reqs : props'[r] = NoProps <=> pc'[r] = "idle"
    BY <1>1, ReconcileConstantsOK DEF Begin, TypeOK
  <2>3. (p = last /\ ~Restored) \in BOOLEAN
    OBVIOUS
  <2>4. skip' \in [Reqs -> BOOLEAN]
    BY <1>1, <2>3, Zenon DEF Begin, TypeOK
  <2>5. auth' \in Reqs \cup {NoReq} /\ last' \in Props \cup {NoProps}
    BY <1>1 DEF Begin, TypeOK
  <2> QED BY <2>1, <2>2, <2>3, <2>4, <2>5, <1>1, Zenon DEF Begin, TypeOK, runs, data
<1>2. ASSUME NEW q \in Reqs, Superseded(q) PROVE TypeOK'
  <2>1. /\ pc' \in [Reqs -> {"idle", "guard", "gate", "served", "stale", "denied", "redirected"}]
        /\ \A r \in Reqs : props'[r] = NoProps <=> pc'[r] = "idle"
    BY <1>2 DEF Superseded, TypeOK
  <2> QED BY <2>1, <1>2, Zenon DEF Superseded, TypeOK, runs, data
<1>3. ASSUME NEW q \in Reqs, Denied(q) PROVE TypeOK'
  <2>1. /\ pc' \in [Reqs -> {"idle", "guard", "gate", "served", "stale", "denied", "redirected"}]
        /\ \A r \in Reqs : props'[r] = NoProps <=> pc'[r] = "idle"
    BY <1>3 DEF Denied, TypeOK
  <2> QED BY <2>1, <1>3, Zenon DEF Denied, TypeOK, runs, data
<1>4. ASSUME NEW q \in Reqs, Skipped(q) PROVE TypeOK'
  <2>1. /\ pc' \in [Reqs -> {"idle", "guard", "gate", "served", "stale", "denied", "redirected"}]
        /\ \A r \in Reqs : props'[r] = NoProps <=> pc'[r] = "idle"
    BY <1>4 DEF Skipped, TypeOK
  <2>2. last' \in Props \cup {NoProps} /\ newest' \in Reqs
    BY <1>4 DEF Skipped, TypeOK
  <2> QED BY <2>1, <2>2, <1>4, Zenon DEF Skipped, TypeOK, runs, data
<1>5. ASSUME NEW q \in Reqs, StartLoad(q) PROVE TypeOK'
  <2>1. /\ pc' \in [Reqs -> {"idle", "guard", "gate", "served", "stale", "denied", "redirected"}]
        /\ \A r \in Reqs : props'[r] = NoProps <=> pc'[r] = "idle"
    BY <1>5 DEF StartLoad, TypeOK
  <2>2. loader' \in [Reqs -> {"none", "running", "flushing", "over"}]
    BY <1>5 DEF StartLoad, TypeOK
  <2>3. gate' \in [Reqs -> {"none", "shut", "open", "refused"}]
    BY <1>5 DEF StartLoad, TypeOK
  <2>4. started' \in Seq(Reqs) /\ started' # <<>>
    BY <1>5, LastAppend DEF StartLoad, TypeOK
  <2>5. /\ wrote' \in BOOLEAN /\ threw' \in BOOLEAN /\ drained' \in BOOLEAN
        /\ newest' \in Reqs /\ render' \in Reqs \cup {NoReq}
    BY <1>5, Zenon DEF StartLoad
  <2> QED BY <2>1, <2>2, <2>3, <2>4, <2>5, <1>5, Zenon DEF StartLoad, TypeOK
<1>6. ASSUME NEW q \in Reqs, Answer(q) PROVE TypeOK'
  <2>1. /\ pc' \in [Reqs -> {"idle", "guard", "gate", "served", "stale", "denied", "redirected"}]
        /\ \A r \in Reqs : props'[r] = NoProps <=> pc'[r] = "idle"
    BY <1>6 DEF Answer, TypeOK
  <2>2. last' \in Props \cup {NoProps}
    BY <1>6 DEF Answer, TypeOK
  <2> QED BY <2>1, <2>2, <1>6, Zenon DEF Answer, TypeOK, runs, data
<1>7. ASSUME NEW q \in Reqs, LoaderPatch(q) PROVE TypeOK'
  <2>1. patches \in [Reqs -> Nat] /\ [patches EXCEPT ![q] = patches[q] + 1] \in [Reqs -> Nat]
    BY DEF TypeOK
  <2>2. patches' \in [Reqs -> Nat]
    BY <1>7, <2>1, Zenon DEF LoaderPatch
  <2>3. Append(pending, q) \in Seq(Reqs)
    BY LastAppend DEF TypeOK
  <2>4. pending' \in Seq(Reqs) /\ wrote' \in BOOLEAN
    BY <1>7, <2>3, Zenon DEF LoaderPatch, TypeOK
  <2> QED BY <2>1, <2>2, <2>3, <2>4, <1>7, Zenon DEF LoaderPatch, TypeOK, asked
<1>8. ASSUME NEW q \in Reqs, LoaderReturns(q) PROVE TypeOK'
  <2>1. loader' \in [Reqs -> {"none", "running", "flushing", "over"}]
    BY <1>8 DEF LoaderReturns, TypeOK
  <2> QED BY <2>1, <1>8, Zenon DEF LoaderReturns, TypeOK, asked, data
<1>9. ASSUME NEW q \in Reqs, LoaderFlushed(q) PROVE TypeOK'
  <2>1. loader' \in [Reqs -> {"none", "running", "flushing", "over"}]
    BY <1>9 DEF LoaderFlushed, TypeOK
  <2>2. /\ gate' \in [Reqs -> {"none", "shut", "open", "refused"}]
        /\ render' \in Reqs \cup {NoReq}
    BY <1>9, SettleType DEF LoaderFlushed
  <2> QED BY <2>1, <2>2, <1>9, Zenon DEF LoaderFlushed, TypeOK, asked, data
<1>10. ASSUME NEW q \in Reqs, LoaderThrows(q) PROVE TypeOK'
  <2>1. loader' \in [Reqs -> {"none", "running", "flushing", "over"}]
    BY <1>10 DEF LoaderThrows, TypeOK
  <2>2. /\ gate' \in [Reqs -> {"none", "shut", "open", "refused"}]
        /\ render' \in Reqs \cup {NoReq}
    BY <1>10, SettleType DEF LoaderThrows
  <2>3. (threw \/ Winner = q) \in BOOLEAN
    OBVIOUS
  <2>4. threw' \in BOOLEAN
    BY <1>10, <2>3, Zenon DEF LoaderThrows, TypeOK
  <2> QED BY <2>1, <2>2, <2>3, <2>4, <1>10, Zenon DEF LoaderThrows, TypeOK, asked, data
<1>11. CASE Flush
  <2>1. page \o pending \in Seq(Reqs) /\ Range(pending) \subseteq Reqs
    BY RangeType DEF TypeOK
  <2>2. <<>> \in Seq(Reqs)
    OBVIOUS
  <2>3. page' \in Seq(Reqs) /\ pending' \in Seq(Reqs)
    BY <1>11, <2>1, <2>2, Zenon DEF Flush, TypeOK
  <2>4. ruined' \subseteq Reqs
    BY <1>11, <2>1 DEF Flush, TypeOK
  <2>5. /\ gate' \in [Reqs -> {"none", "shut", "open", "refused"}]
        /\ render' \in Reqs \cup {NoReq}
    BY <1>11, SettleType, WinnerType, Zenon DEF Flush, TypeOK
  <2> QED BY <2>1, <2>2, <2>3, <2>4, <2>5, <1>11, Zenon DEF Flush, TypeOK, asked
<1>12. CASE Drain
  <2>1. page \o pending \in Seq(Reqs) /\ Range(pending) \subseteq Reqs
    BY RangeType DEF TypeOK
  <2>2. <<>> \in Seq(Reqs)
    OBVIOUS
  <2>3. page' \in Seq(Reqs) /\ pending' \in Seq(Reqs)
    BY <1>12, <2>1, <2>2, Zenon DEF Drain, TypeOK
  <2>4. ruined' \subseteq Reqs
    BY <1>12, <2>1 DEF Drain, TypeOK
  <2>5. (drained \/ Winner \in Range(pending)) \in BOOLEAN
    OBVIOUS
  <2>6. drained' \in BOOLEAN
    BY <1>12, <2>5, Zenon DEF Drain, TypeOK
  <2> QED BY <2>1, <2>2, <2>3, <2>4, <2>5, <2>6, <1>12, Zenon DEF Drain, TypeOK, asked, runs
<1>13. CASE Dispose
  <2>1. disposed' \in BOOLEAN
    BY <1>13, Zenon DEF Dispose
  <2> QED BY <2>1, <1>13, Zenon DEF Dispose, TypeOK, asked, runs, data
<1>14. CASE UNCHANGED vars  BY <1>14, Zenon DEF vars, asked, runs, data, TypeOK
<1> QED BY <1>1, <1>2, <1>3, <1>4, <1>5, <1>6, <1>7, <1>8,
          <1>9, <1>10, <1>11, <1>12, <1>13, <1>14
       DEF Next, Guard, LoaderEnds, Chunk, OtherChunk
-----------------------------------------------------------------------------
(* What the actions that move runs and writes do to them *)

LEMMA StartFacts ==
    ASSUME IInv, NEW q \in Reqs, StartLoad(q)
    PROVE  /\ started' = Append(started, q) /\ started \in Seq(Reqs)
           /\ Winner' = q
           /\ q \notin Range(started) /\ Range(started') = Range(started) \cup {q}
           /\ UNCHANGED <<page, pending, ruined>>
<1>1. started' = Append(started, q) /\ started \in Seq(Reqs)  BY DEF StartLoad, IInv, TypeOK
<1>2. q \notin Range(started)  BY DEF StartLoad, IInv, RunsOnce
<1>3. Winner' = q  BY <1>1, LastAppend DEF Winner
<1> QED BY <1>1, <1>2, <1>3, RangeAppend DEF StartLoad

LEMMA FlushFacts ==
    ASSUME TypeOK, Flush
    PROVE  /\ pending' = <<>> /\ Range(pending') = {}
           /\ \/ /\ page' = page \o pending /\ Range(page') = Range(page) \cup Range(pending)
                 /\ ruined' = ruined
              \/ page' = page /\ ruined' = ruined \cup Range(pending)
           /\ UNCHANGED <<started, wrote, disposed, drained, loader>> /\ Winner' = Winner
<1>1. Range(page \o pending) = Range(page) \cup Range(pending)  BY RangeConcat DEF TypeOK
<1>2. Winner' = Winner  BY DEF Flush, Winner
<1>3. Range(pending') = {}  BY RangeEmpty DEF Flush
<1> QED BY <1>1, <1>2, <1>3, Zenon DEF Flush

LEMMA DrainFacts ==
    ASSUME TypeOK, Drain
    PROVE  /\ pending' = <<>> /\ Range(pending') = {}
           /\ \/ /\ page' = page \o pending /\ Range(page') = Range(page) \cup Range(pending)
                 /\ ruined' = ruined
                 /\ drained' = (drained \/ Winner \in Range(pending))
              \/ page' = page /\ ruined' = ruined \cup Range(pending) /\ drained' = drained
           /\ UNCHANGED <<started, wrote, disposed, loader, gate, render>> /\ Winner' = Winner
<1>1. Range(page \o pending) = Range(page) \cup Range(pending)  BY RangeConcat DEF TypeOK
<1>2. Winner' = Winner  BY DEF Drain, Winner, runs
<1>3. Range(pending') = {}  BY RangeEmpty DEF Drain
<1> QED BY <1>1, <1>2, <1>3, Zenon DEF Drain, runs

LEMMA PatchFacts ==
    ASSUME TypeOK, NEW q \in Reqs, LoaderPatch(q)
    PROVE  /\ \/ UNCHANGED <<pending, wrote>>
              \/ /\ q = Winner /\ wrote' = TRUE
                 /\ \/ disposed /\ pending' = pending
                    \/ /\ pending' = Append(pending, q)
                       /\ Range(pending') = Range(pending) \cup {q}
           /\ UNCHANGED <<page, ruined, started, disposed>> /\ Winner' = Winner
<1>1. Range(Append(pending, q)) = Range(pending) \cup {q}  BY RangeAppend DEF TypeOK
<1>2. Winner' = Winner  BY DEF LoaderPatch, Winner
<1> QED BY <1>1, <1>2, Zenon DEF LoaderPatch, TypeOK

LEMMA SettleFacts ==
    ASSUME TypeOK, GateOwned, NEW q \in Reqs, NEW how \in {"open", "refused"},
           SettleGate(q, how)
    PROVE  \A r \in Reqs : gate'[r] = "shut" =>
               gate[r] = "shut" /\ render = r /\ render' = r /\ r # q
<1> SUFFICES ASSUME NEW r \in Reqs, gate'[r] = "shut"
             PROVE  gate[r] = "shut" /\ render = r /\ render' = r /\ r # q
  OBVIOUS
<1>1. CASE render = q /\ q # NoReq
  <2>1. gate' = [gate EXCEPT ![q] = how]  BY <1>1 DEF SettleGate
  <2>2. r # q /\ gate[r] = "shut"  BY <2>1 DEF TypeOK
  <2> QED BY <1>1, <2>2 DEF GateOwned
<1>2. CASE ~(render = q /\ q # NoReq)
  <2>1. UNCHANGED <<gate, render>>  BY <1>2, Zenon DEF SettleGate
  <2> QED BY <1>2, <2>1, ReconcileConstantsOK DEF GateOwned
<1> QED BY <1>1, <1>2
-----------------------------------------------------------------------------
(* Runs *)

LEMMA RunsStep == IInv /\ [Next]_vars => RunsOnce'
<1> SUFFICES ASSUME IInv, [Next]_vars PROVE RunsOnce'  OBVIOUS
<1> USE DEF IInv
<1>1. ASSUME NEW q \in Reqs, NEW p \in Props, Begin(q, p) PROVE RunsOnce'
  BY <1>1 DEF Begin, RunsOnce, TypeOK, asked, runs, data
<1>2. ASSUME NEW q \in Reqs, Superseded(q) PROVE RunsOnce'
  BY <1>2 DEF Superseded, RunsOnce, TypeOK, asked, runs, data
<1>3. ASSUME NEW q \in Reqs, Denied(q) PROVE RunsOnce'
  BY <1>3 DEF Denied, RunsOnce, TypeOK, asked, runs, data
<1>4. ASSUME NEW q \in Reqs, Skipped(q) PROVE RunsOnce'
  BY <1>4 DEF Skipped, RunsOnce, TypeOK, asked, runs, data
<1>5. ASSUME NEW q \in Reqs, StartLoad(q) PROVE RunsOnce'
  <2>1. started' = Append(started, q) /\ started \in Seq(Reqs)  BY <1>5 DEF StartLoad, TypeOK
  <2>2. q \notin Range(started)  BY <1>5 DEF StartLoad, RunsOnce
  <2>3. Range(started') = Range(started) \cup {q}  BY <2>1, RangeAppend
  <2>4. \A i, j \in DOMAIN started' : started'[i] = started'[j] => i = j
    BY <2>1, <2>2 DEF RunsOnce, Range
  <2>5. \A r \in Reqs : pc'[r] \in {"idle", "guard"} => r # q /\ pc[r] \in {"idle", "guard"}
    BY <1>5 DEF StartLoad, TypeOK
  <2> QED BY <2>3, <2>4, <2>5, Zenon DEF RunsOnce
<1>6. ASSUME NEW q \in Reqs, Answer(q) PROVE RunsOnce'
  BY <1>6 DEF Answer, RunsOnce, TypeOK, asked, runs, data
<1>7. ASSUME NEW q \in Reqs, LoaderPatch(q) PROVE RunsOnce'
  BY <1>7 DEF LoaderPatch, RunsOnce, TypeOK, asked, runs, data
<1>8. ASSUME NEW q \in Reqs, LoaderReturns(q) PROVE RunsOnce'
  BY <1>8 DEF LoaderReturns, RunsOnce, TypeOK, asked, runs, data
<1>9. ASSUME NEW q \in Reqs, LoaderFlushed(q) PROVE RunsOnce'
  BY <1>9 DEF LoaderFlushed, RunsOnce, TypeOK, asked, runs, data
<1>10. ASSUME NEW q \in Reqs, LoaderThrows(q) PROVE RunsOnce'
  BY <1>10 DEF LoaderThrows, RunsOnce, TypeOK, asked, runs, data
<1>11. CASE Flush
  BY <1>11 DEF Flush, RunsOnce, TypeOK, asked, runs, data
<1>12. CASE Drain
  BY <1>12 DEF Drain, RunsOnce, TypeOK, asked, runs, data
<1>13. CASE Dispose
  BY <1>13 DEF Dispose, RunsOnce, TypeOK, asked, runs, data
<1>14. CASE UNCHANGED vars
  BY <1>14 DEF vars, RunsOnce, TypeOK, asked, runs, data
<1> QED BY <1>1, <1>2, <1>3, <1>4, <1>5, <1>6, <1>7, <1>8,
          <1>9, <1>10, <1>11, <1>12, <1>13, <1>14
       DEF Next, Guard, LoaderEnds, Chunk, OtherChunk

LEMMA WroteStep == IInv /\ [Next]_vars => WroteKnows'
<1> SUFFICES ASSUME IInv, [Next]_vars PROVE WroteKnows'  OBVIOUS
<1> USE DEF IInv
<1>1. ASSUME NEW q \in Reqs, NEW p \in Props, Begin(q, p) PROVE WroteKnows'
  BY <1>1 DEF Begin, WroteKnows, TypeOK, Winner, SettleGate, asked, runs, data
<1>2. ASSUME NEW q \in Reqs, Superseded(q) PROVE WroteKnows'
  BY <1>2 DEF Superseded, WroteKnows, TypeOK, Winner, SettleGate, asked, runs, data
<1>3. ASSUME NEW q \in Reqs, Denied(q) PROVE WroteKnows'
  BY <1>3 DEF Denied, WroteKnows, TypeOK, Winner, SettleGate, asked, runs, data
<1>4. ASSUME NEW q \in Reqs, Skipped(q) PROVE WroteKnows'
  BY <1>4 DEF Skipped, WroteKnows, TypeOK, Winner, SettleGate, asked, runs, data
<1>5. ASSUME NEW q \in Reqs, StartLoad(q) PROVE WroteKnows'
  <2>1. wrote' = FALSE /\ UNCHANGED <<page, pending>>  BY <1>5 DEF StartLoad
  <2>2. Range(page) \cup Range(pending) \subseteq Range(started')  BY <1>5, StartFacts DEF WroteKnows
  <2>3. Winner' \notin Range(pending)  BY <1>5, StartFacts DEF WroteKnows
  <2> QED BY <2>1, <2>2, <2>3, Zenon DEF WroteKnows
<1>6. ASSUME NEW q \in Reqs, Answer(q) PROVE WroteKnows'
  BY <1>6 DEF Answer, WroteKnows, TypeOK, Winner, SettleGate, asked, runs, data
<1>7. ASSUME NEW q \in Reqs, LoaderPatch(q) PROVE WroteKnows'
  BY <1>7, PatchFacts, WinnerType, Zenon DEF WroteKnows
<1>8. ASSUME NEW q \in Reqs, LoaderReturns(q) PROVE WroteKnows'
  BY <1>8 DEF LoaderReturns, WroteKnows, TypeOK, Winner, SettleGate, asked, runs, data
<1>9. ASSUME NEW q \in Reqs, LoaderFlushed(q) PROVE WroteKnows'
  BY <1>9 DEF LoaderFlushed, WroteKnows, TypeOK, Winner, SettleGate, asked, runs, data
<1>10. ASSUME NEW q \in Reqs, LoaderThrows(q) PROVE WroteKnows'
  BY <1>10 DEF LoaderThrows, WroteKnows, TypeOK, Winner, SettleGate, asked, runs, data
<1>11. CASE Flush
  <2>1. Range(page') \cup Range(pending') \subseteq Range(started)
    BY <1>11, FlushFacts DEF WroteKnows
  <2>2. Range(page) \cup Range(pending) \cup ruined \subseteq Range(page') \cup Range(pending') \cup ruined'
    BY <1>11, FlushFacts
  <2>3. Winner' = Winner /\ Winner' \notin Range(pending') /\ UNCHANGED <<wrote, disposed, started>>
    BY <1>11, FlushFacts
  <2> QED BY <2>1, <2>2, <2>3 DEF WroteKnows
<1>12. CASE Drain
  <2>1. Range(page') \cup Range(pending') \subseteq Range(started)
    BY <1>12, DrainFacts DEF WroteKnows
  <2>2. Range(page) \cup Range(pending) \cup ruined \subseteq Range(page') \cup Range(pending') \cup ruined'
    BY <1>12, DrainFacts
  <2>3. Winner' = Winner /\ Winner' \notin Range(pending') /\ UNCHANGED <<wrote, disposed, started>>
    BY <1>12, DrainFacts
  <2> QED BY <2>1, <2>2, <2>3 DEF WroteKnows
<1>13. CASE Dispose
  BY <1>13 DEF Dispose, WroteKnows, TypeOK, Winner, SettleGate, asked, runs, data
<1>14. CASE UNCHANGED vars
  BY <1>14 DEF vars, WroteKnows, TypeOK, Winner, SettleGate, asked, runs, data
<1> QED BY <1>1, <1>2, <1>3, <1>4, <1>5, <1>6, <1>7, <1>8,
          <1>9, <1>10, <1>11, <1>12, <1>13, <1>14
       DEF Next, Guard, LoaderEnds, Chunk, OtherChunk
-----------------------------------------------------------------------------
(* The gate *)

LEMMA GateStep == IInv /\ [Next]_vars => GateOwned'
<1> SUFFICES ASSUME IInv, [Next]_vars PROVE GateOwned'  OBVIOUS
<1> USE DEF IInv
<1>1. ASSUME NEW q \in Reqs, NEW p \in Props, Begin(q, p) PROVE GateOwned'
  BY <1>1 DEF Begin, GateOwned, TypeOK, Winner, SettleGate, asked, runs, data
<1>2. ASSUME NEW q \in Reqs, Superseded(q) PROVE GateOwned'
  BY <1>2 DEF Superseded, GateOwned, TypeOK, Winner, SettleGate, asked, runs, data
<1>3. ASSUME NEW q \in Reqs, Denied(q) PROVE GateOwned'
  BY <1>3 DEF Denied, GateOwned, TypeOK, Winner, SettleGate, asked, runs, data
<1>4. ASSUME NEW q \in Reqs, Skipped(q) PROVE GateOwned'
  BY <1>4 DEF Skipped, GateOwned, TypeOK, Winner, SettleGate, asked, runs, data
<1>5. ASSUME NEW q \in Reqs, StartLoad(q) PROVE GateOwned'
  <2>1. Winner' = q /\ render' = q /\ loader'[q] = "running"
    BY <1>5, StartFacts DEF StartLoad, TypeOK
  <2>2. \A r \in Reqs : gate'[r] = "shut" => r = q
    BY <1>5 DEF StartLoad, TypeOK, GateOwned
  <2> QED BY <2>1, <2>2 DEF GateOwned
<1>6. ASSUME NEW q \in Reqs, Answer(q) PROVE GateOwned'
  BY <1>6 DEF Answer, GateOwned, TypeOK, Winner, SettleGate, asked, runs, data
<1>7. ASSUME NEW q \in Reqs, LoaderPatch(q) PROVE GateOwned'
  BY <1>7 DEF LoaderPatch, GateOwned, TypeOK, Winner, SettleGate, asked, runs, data
<1>8. ASSUME NEW q \in Reqs, LoaderReturns(q) PROVE GateOwned'
  BY <1>8 DEF LoaderReturns, GateOwned, TypeOK, Winner, SettleGate, asked, runs, data
<1>9. ASSUME NEW q \in Reqs, LoaderFlushed(q) PROVE GateOwned'
  <2>1. \A r \in Reqs : gate'[r] = "shut" =>
            gate[r] = "shut" /\ render' = r /\ r # q
    BY <1>9, SettleFacts DEF LoaderFlushed
  <2>2. \A r \in Reqs : r # q => loader'[r] = loader[r]  BY <1>9 DEF LoaderFlushed, TypeOK
  <2>3. Winner' = Winner  BY <1>9 DEF LoaderFlushed, Winner
  <2> QED BY <2>1, <2>2, <2>3 DEF GateOwned
<1>10. ASSUME NEW q \in Reqs, LoaderThrows(q) PROVE GateOwned'
  <2>1. \A r \in Reqs : gate'[r] = "shut" =>
            gate[r] = "shut" /\ render' = r /\ r # q
    BY <1>10, SettleFacts DEF LoaderThrows
  <2>2. \A r \in Reqs : r # q => loader'[r] = loader[r]  BY <1>10 DEF LoaderThrows, TypeOK
  <2>3. Winner' = Winner  BY <1>10 DEF LoaderThrows, Winner
  <2> QED BY <2>1, <2>2, <2>3 DEF GateOwned
<1>11. CASE Flush
  BY <1>11 DEF Flush, GateOwned, TypeOK, Winner, SettleGate, asked, runs, data
<1>12. CASE Drain
  BY <1>12 DEF Drain, GateOwned, TypeOK, Winner, SettleGate, asked, runs, data
<1>13. CASE Dispose
  BY <1>13 DEF Dispose, GateOwned, TypeOK, Winner, SettleGate, asked, runs, data
<1>14. CASE UNCHANGED vars
  BY <1>14 DEF vars, GateOwned, TypeOK, Winner, SettleGate, asked, runs, data
<1> QED BY <1>1, <1>2, <1>3, <1>4, <1>5, <1>6, <1>7, <1>8,
          <1>9, <1>10, <1>11, <1>12, <1>13, <1>14
       DEF Next, Guard, LoaderEnds, Chunk, OtherChunk

LEMMA FirstPatchStep == IInv /\ [Next]_vars => FirstPatchOpens'
<1> SUFFICES ASSUME IInv, [Next]_vars PROVE FirstPatchOpens'  OBVIOUS
<1> USE DEF IInv
<1>1. ASSUME NEW q \in Reqs, NEW p \in Props, Begin(q, p) PROVE FirstPatchOpens'
  BY <1>1 DEF Begin, FirstPatchOpens, TypeOK, Winner, SettleGate, asked, runs, data
<1>2. ASSUME NEW q \in Reqs, Superseded(q) PROVE FirstPatchOpens'
  BY <1>2 DEF Superseded, FirstPatchOpens, TypeOK, Winner, SettleGate, asked, runs, data
<1>3. ASSUME NEW q \in Reqs, Denied(q) PROVE FirstPatchOpens'
  BY <1>3 DEF Denied, FirstPatchOpens, TypeOK, Winner, SettleGate, asked, runs, data
<1>4. ASSUME NEW q \in Reqs, Skipped(q) PROVE FirstPatchOpens'
  BY <1>4 DEF Skipped, FirstPatchOpens, TypeOK, Winner, SettleGate, asked, runs, data
<1>5. ASSUME NEW q \in Reqs, StartLoad(q) PROVE FirstPatchOpens'
  <2>1. \A r \in Reqs : gate'[r] = "shut" => r = q
    BY <1>5 DEF StartLoad, TypeOK, GateOwned
  <2>2. q \notin Range(page')  BY <1>5, StartFacts DEF WroteKnows
  <2> QED BY <2>1, <2>2 DEF FirstPatchOpens
<1>6. ASSUME NEW q \in Reqs, Answer(q) PROVE FirstPatchOpens'
  BY <1>6 DEF Answer, FirstPatchOpens, TypeOK, Winner, SettleGate, asked, runs, data
<1>7. ASSUME NEW q \in Reqs, LoaderPatch(q) PROVE FirstPatchOpens'
  BY <1>7 DEF LoaderPatch, FirstPatchOpens, TypeOK, Winner, SettleGate, asked, runs, data
<1>8. ASSUME NEW q \in Reqs, LoaderReturns(q) PROVE FirstPatchOpens'
  BY <1>8 DEF LoaderReturns, FirstPatchOpens, TypeOK, Winner, SettleGate, asked, runs, data
<1>9. ASSUME NEW q \in Reqs, LoaderFlushed(q) PROVE FirstPatchOpens'
  BY <1>9 DEF LoaderFlushed, FirstPatchOpens, TypeOK, Winner, SettleGate, asked, runs, data
<1>10. ASSUME NEW q \in Reqs, LoaderThrows(q) PROVE FirstPatchOpens'
  BY <1>10 DEF LoaderThrows, FirstPatchOpens, TypeOK, Winner, SettleGate, asked, runs, data
<1>11. CASE Flush
  <2>1. CASE wrote /\ SettleGate(Winner, "open")
    <3>1. \A r \in Reqs : gate'[r] # "shut"
      BY <2>1, SettleFacts, WinnerType DEF GateOwned
    <3> QED BY <3>1 DEF FirstPatchOpens
  <2>2. CASE ~wrote /\ UNCHANGED gate
    <3>1. Winner \notin Range(pending)  BY <2>2 DEF WroteKnows
    <3>2. \A r \in Reqs : gate[r] = "shut" => r = Winner  BY DEF GateOwned
    <3>3. Winner \in Range(page') => Winner \in Range(page)  BY <1>11, <3>1, FlushFacts
    <3>4. UNCHANGED <<gate, drained>>  BY <1>11, <2>2, FlushFacts
    <3> QED BY <3>2, <3>3, <3>4, WinnerType DEF FirstPatchOpens
  <2>3. CASE page' = page /\ UNCHANGED gate
    BY <1>11, <2>3, FlushFacts DEF FirstPatchOpens
  <2> QED BY <1>11, <2>1, <2>2, <2>3, Zenon DEF Flush
<1>12. CASE Drain
  <2>1. \A r \in Reqs : gate[r] = "shut" => r = Winner  BY DEF GateOwned
  <2>2. drained' \/ (~drained /\ (Winner \in Range(page') => Winner \in Range(page)))
    BY <1>12, DrainFacts
  <2>3. UNCHANGED gate  BY <1>12, DrainFacts
  <2> QED BY <2>1, <2>2, <2>3, WinnerType DEF FirstPatchOpens
<1>13. CASE Dispose
  BY <1>13 DEF Dispose, FirstPatchOpens, TypeOK, Winner, SettleGate, asked, runs, data
<1>14. CASE UNCHANGED vars
  BY <1>14 DEF vars, FirstPatchOpens, TypeOK, Winner, SettleGate, asked, runs, data
<1> QED BY <1>1, <1>2, <1>3, <1>4, <1>5, <1>6, <1>7, <1>8,
          <1>9, <1>10, <1>11, <1>12, <1>13, <1>14
       DEF Next, Guard, LoaderEnds, Chunk, OtherChunk

LEMMA PaintStep == IInv /\ [Next]_vars => PaintHasData'
<1> SUFFICES ASSUME IInv, [Next]_vars PROVE PaintHasData'  OBVIOUS
<1> USE DEF IInv
<1>1. ASSUME NEW q \in Reqs, NEW p \in Props, Begin(q, p) PROVE PaintHasData'
  BY <1>1 DEF Begin, PaintHasData, TypeOK, Winner, SettleGate, asked, runs, data
<1>2. ASSUME NEW q \in Reqs, Superseded(q) PROVE PaintHasData'
  BY <1>2 DEF Superseded, PaintHasData, TypeOK, Winner, SettleGate, asked, runs, data
<1>3. ASSUME NEW q \in Reqs, Denied(q) PROVE PaintHasData'
  BY <1>3 DEF Denied, PaintHasData, TypeOK, Winner, SettleGate, asked, runs, data
<1>4. ASSUME NEW q \in Reqs, Skipped(q) PROVE PaintHasData'
  BY <1>4 DEF Skipped, PaintHasData, TypeOK, Winner, SettleGate, asked, runs, data
<1>5. ASSUME NEW q \in Reqs, StartLoad(q) PROVE PaintHasData'
  <2>1. Winner' = q  BY <1>5, StartFacts
  <2>2. gate'[q] = "shut"  BY <1>5 DEF StartLoad, TypeOK
  <2> QED BY <2>1, <2>2 DEF PaintHasData
<1>6. ASSUME NEW q \in Reqs, Answer(q) PROVE PaintHasData'
  BY <1>6 DEF Answer, PaintHasData, TypeOK, Winner, SettleGate, asked, runs, data
<1>7. ASSUME NEW q \in Reqs, LoaderPatch(q) PROVE PaintHasData'
  BY <1>7 DEF LoaderPatch, PaintHasData, TypeOK, Winner, SettleGate, asked, runs, data
<1>8. ASSUME NEW q \in Reqs, LoaderReturns(q) PROVE PaintHasData'
  BY <1>8 DEF LoaderReturns, PaintHasData, TypeOK, Winner, SettleGate, asked, runs, data
<1>9. ASSUME NEW q \in Reqs, LoaderFlushed(q) PROVE PaintHasData'
  BY <1>9 DEF LoaderFlushed, PaintHasData, TypeOK, Winner, SettleGate, asked, runs, data
<1>10. ASSUME NEW q \in Reqs, LoaderThrows(q) PROVE PaintHasData'
  BY <1>10 DEF LoaderThrows, PaintHasData, TypeOK, Winner, SettleGate, asked, runs, data
<1>11. CASE Flush
  <2>1. Range(page) \cup ruined \subseteq Range(page') \cup ruined'
    BY <1>11, FlushFacts
  <2>2. CASE wrote /\ page' = page \o pending
    <3>1. ~disposed => Winner \in Range(page') \cup ruined'
      BY <1>11, <2>2, FlushFacts, Zenon DEF WroteKnows, Flush
    <3> QED BY <1>11, <3>1, FlushFacts DEF PaintHasData
  <2>3. CASE UNCHANGED gate
    <3>1. Winner' = Winner /\ UNCHANGED <<disposed, loader>>  BY <1>11, FlushFacts
    <3> QED BY <2>1, <2>3, <3>1 DEF PaintHasData
  <2> QED BY <1>11, <2>2, <2>3, Zenon DEF Flush
<1>12. CASE Drain
  <2>1. Range(page) \cup ruined \subseteq Range(page') \cup ruined'
    BY <1>12, DrainFacts
  <2>2. Winner' = Winner /\ UNCHANGED <<disposed, loader, gate>>  BY <1>12, DrainFacts
  <2> QED BY <2>1, <2>2 DEF PaintHasData
<1>13. CASE Dispose
  BY <1>13 DEF Dispose, PaintHasData, TypeOK, Winner, SettleGate, asked, runs, data
<1>14. CASE UNCHANGED vars
  BY <1>14 DEF vars, PaintHasData, TypeOK, Winner, SettleGate, asked, runs, data
<1> QED BY <1>1, <1>2, <1>3, <1>4, <1>5, <1>6, <1>7, <1>8,
          <1>9, <1>10, <1>11, <1>12, <1>13, <1>14
       DEF Next, Guard, LoaderEnds, Chunk, OtherChunk
-----------------------------------------------------------------------------
(* What the dedup relies on *)

(* Loaded speaks of three things, and none of them is ever taken back.     *)
LEMMA LoadedKept ==
    ASSUME NEW z,
           \A i \in DOMAIN started : i \in DOMAIN started' /\ started'[i] = started[i]
               /\ props'[started[i]] = props[started[i]]
               /\ (loader[started[i]] = "over" => loader'[started[i]] = "over"),
           Range(page) \cup ruined \subseteq Range(page') \cup ruined',
           Loaded(z)
    PROVE  Loaded(z)'
BY DEF Loaded

LEMMA LoadedStays == IInv /\ [Next]_vars => \A z \in Props : Loaded(z) => Loaded(z)'
<1> SUFFICES ASSUME IInv, [Next]_vars PROVE \A z \in Props : Loaded(z) => Loaded(z)'  OBVIOUS
<1> USE DEF IInv
<1>1. ASSUME NEW q \in Reqs, NEW p \in Props, Begin(q, p) PROVE \A z \in Props : Loaded(z) => Loaded(z)'
  <2>1. q \notin Range(started)  BY <1>1 DEF Begin, RunsOnce
  <2>2. \A i \in DOMAIN started : started[i] \in Reqs /\ started[i] # q
    BY <2>1 DEF Range, TypeOK
  <2>3. \A i \in DOMAIN started : props'[started[i]] = props[started[i]]
    BY <1>1, <2>2 DEF Begin, TypeOK
  <2> QED BY <1>1, <2>3, LoadedKept DEF Begin, runs, data
<1>2. ASSUME NEW q \in Reqs, Superseded(q) PROVE \A z \in Props : Loaded(z) => Loaded(z)'
  BY <1>2 DEF Superseded, Loaded, TypeOK, SettleGate, asked, runs, data
<1>3. ASSUME NEW q \in Reqs, Denied(q) PROVE \A z \in Props : Loaded(z) => Loaded(z)'
  BY <1>3 DEF Denied, Loaded, TypeOK, SettleGate, asked, runs, data
<1>4. ASSUME NEW q \in Reqs, Skipped(q) PROVE \A z \in Props : Loaded(z) => Loaded(z)'
  BY <1>4 DEF Skipped, Loaded, TypeOK, SettleGate, asked, runs, data
<1>5. ASSUME NEW q \in Reqs, StartLoad(q) PROVE \A z \in Props : Loaded(z) => Loaded(z)'
  <2>1. \A i \in DOMAIN started : i \in DOMAIN started' /\ started'[i] = started[i]
    BY <1>5, StartFacts
  <2>2. \A i \in DOMAIN started : started[i] \in Reqs /\ started[i] # q
    BY <1>5, StartFacts DEF Range, TypeOK
  <2>3. \A i \in DOMAIN started : loader'[started[i]] = loader[started[i]]
    BY <1>5, <2>2 DEF StartLoad, TypeOK
  <2>4. UNCHANGED <<props, page, ruined>>  BY <1>5 DEF StartLoad
  <2> QED BY <2>1, <2>3, <2>4, LoadedKept
<1>6. ASSUME NEW q \in Reqs, Answer(q) PROVE \A z \in Props : Loaded(z) => Loaded(z)'
  BY <1>6 DEF Answer, Loaded, TypeOK, SettleGate, asked, runs, data
<1>7. ASSUME NEW q \in Reqs, LoaderPatch(q) PROVE \A z \in Props : Loaded(z) => Loaded(z)'
  BY <1>7 DEF LoaderPatch, Loaded, TypeOK, SettleGate, asked, runs, data
<1>8. ASSUME NEW q \in Reqs, LoaderReturns(q) PROVE \A z \in Props : Loaded(z) => Loaded(z)'
  BY <1>8 DEF LoaderReturns, Loaded, TypeOK, SettleGate, asked, runs, data
<1>9. ASSUME NEW q \in Reqs, LoaderFlushed(q) PROVE \A z \in Props : Loaded(z) => Loaded(z)'
  BY <1>9 DEF LoaderFlushed, Loaded, TypeOK, SettleGate, asked, runs, data
<1>10. ASSUME NEW q \in Reqs, LoaderThrows(q) PROVE \A z \in Props : Loaded(z) => Loaded(z)'
  BY <1>10 DEF LoaderThrows, Loaded, TypeOK, SettleGate, asked, runs, data
<1>11. CASE Flush
  <2>1. Range(page) \cup ruined \subseteq Range(page') \cup ruined'
    BY <1>11, FlushFacts
  <2>2. UNCHANGED <<props, started, loader>>  BY <1>11 DEF Flush, asked
  <2> QED BY <2>1, <2>2, LoadedKept
<1>12. CASE Drain
  <2>1. Range(page) \cup ruined \subseteq Range(page') \cup ruined'
    BY <1>12, DrainFacts
  <2>2. UNCHANGED <<props, started, loader>>  BY <1>12 DEF Drain, asked, runs
  <2> QED BY <2>1, <2>2, LoadedKept
<1>13. CASE Dispose
  BY <1>13 DEF Dispose, Loaded, TypeOK, SettleGate, asked, runs, data
<1>14. CASE UNCHANGED vars
  BY <1>14 DEF vars, Loaded, TypeOK, SettleGate, asked, runs, data
<1> QED BY <1>1, <1>2, <1>3, <1>4, <1>5, <1>6, <1>7, <1>8,
          <1>9, <1>10, <1>11, <1>12, <1>13, <1>14
       DEF Next, Guard, LoaderEnds, Chunk, OtherChunk

LEMMA SkipStep == IInv /\ [Next]_vars => SkipStands'
<1> SUFFICES ASSUME IInv, [Next]_vars PROVE SkipStands'  OBVIOUS
<1> USE DEF IInv
<1>1. ASSUME NEW q \in Reqs, NEW p \in Props, Begin(q, p) PROVE SkipStands'
  <2>1. ~disposed /\ skip'[q] => p = last  BY <1>1 DEF Begin, TypeOK
  <2>2. ~disposed /\ p = last => Loaded(p)'
    BY <1>1, LoadedStays, ReconcileConstantsOK DEF KeyWasLoaded, Begin
  <2>3. props'[q] = p /\ \A r \in Reqs : r # q => props'[r] = props[r] /\ pc'[r] = pc[r] /\ (~disposed => skip'[r] = skip[r])
    BY <1>1 DEF Begin, TypeOK
  <2>4. \A r \in Reqs : r # q /\ pc[r] = "guard" => props[r] \in Props  BY DEF TypeOK
  <2>5. UNCHANGED disposed  BY <1>1 DEF Begin
  <2> QED BY <2>1, <2>2, <2>3, <2>4, <2>5, LoadedStays, Zenon DEF SkipStands
<1>2. ASSUME NEW q \in Reqs, Superseded(q) PROVE SkipStands'
  BY <1>2, LoadedStays DEF Superseded, SkipStands, TypeOK, asked, runs, data
<1>3. ASSUME NEW q \in Reqs, Denied(q) PROVE SkipStands'
  BY <1>3, LoadedStays DEF Denied, SkipStands, TypeOK, asked, runs, data
<1>4. ASSUME NEW q \in Reqs, Skipped(q) PROVE SkipStands'
  BY <1>4, LoadedStays DEF Skipped, SkipStands, TypeOK, asked, runs, data
<1>5. ASSUME NEW q \in Reqs, StartLoad(q) PROVE SkipStands'
  BY <1>5, LoadedStays DEF StartLoad, SkipStands, TypeOK, asked, runs, data
<1>6. ASSUME NEW q \in Reqs, Answer(q) PROVE SkipStands'
  BY <1>6, LoadedStays DEF Answer, SkipStands, TypeOK, asked, runs, data
<1>7. ASSUME NEW q \in Reqs, LoaderPatch(q) PROVE SkipStands'
  BY <1>7, LoadedStays DEF LoaderPatch, SkipStands, TypeOK, asked, runs, data
<1>8. ASSUME NEW q \in Reqs, LoaderReturns(q) PROVE SkipStands'
  BY <1>8, LoadedStays DEF LoaderReturns, SkipStands, TypeOK, asked, runs, data
<1>9. ASSUME NEW q \in Reqs, LoaderFlushed(q) PROVE SkipStands'
  BY <1>9, LoadedStays DEF LoaderFlushed, SkipStands, TypeOK, asked, runs, data
<1>10. ASSUME NEW q \in Reqs, LoaderThrows(q) PROVE SkipStands'
  BY <1>10, LoadedStays DEF LoaderThrows, SkipStands, TypeOK, asked, runs, data
<1>11. CASE Flush
  BY <1>11, LoadedStays DEF Flush, SkipStands, TypeOK, asked, runs, data
<1>12. CASE Drain
  BY <1>12, LoadedStays DEF Drain, SkipStands, TypeOK, asked, runs, data
<1>13. CASE Dispose
  BY <1>13, LoadedStays DEF Dispose, SkipStands, TypeOK, asked, runs, data
<1>14. CASE UNCHANGED vars
  BY <1>14, LoadedStays DEF vars, SkipStands, TypeOK, asked, runs, data
<1> QED BY <1>1, <1>2, <1>3, <1>4, <1>5, <1>6, <1>7, <1>8,
          <1>9, <1>10, <1>11, <1>12, <1>13, <1>14
       DEF Next, Guard, LoaderEnds, Chunk, OtherChunk

LEMMA KeyStep == IInv /\ [Next]_vars => KeyWasLoaded'
<1> SUFFICES ASSUME IInv, [Next]_vars PROVE KeyWasLoaded'  OBVIOUS
<1> USE DEF IInv
<1>1. ASSUME NEW q \in Reqs, NEW p \in Props, Begin(q, p) PROVE KeyWasLoaded'
  BY <1>1, LoadedStays DEF Begin, KeyWasLoaded, TypeOK, asked, runs, data
<1>2. ASSUME NEW q \in Reqs, Superseded(q) PROVE KeyWasLoaded'
  BY <1>2, LoadedStays DEF Superseded, KeyWasLoaded, TypeOK, asked, runs, data
<1>3. ASSUME NEW q \in Reqs, Denied(q) PROVE KeyWasLoaded'
  BY <1>3, LoadedStays DEF Denied, KeyWasLoaded, TypeOK, asked, runs, data
<1>4. ASSUME NEW q \in Reqs, Skipped(q) PROVE KeyWasLoaded'
  <2>1. last' = props[q] /\ UNCHANGED disposed /\ pc[q] = "guard" /\ (skip[q] \/ disposed)
    BY <1>4 DEF Skipped
  <2>2. props[q] \in Props  BY <2>1 DEF TypeOK
  <2> QED BY <2>1, <2>2, LoadedStays DEF KeyWasLoaded, SkipStands
<1>5. ASSUME NEW q \in Reqs, StartLoad(q) PROVE KeyWasLoaded'
  BY <1>5, LoadedStays DEF StartLoad, KeyWasLoaded, TypeOK, asked, runs, data
<1>6. ASSUME NEW q \in Reqs, Answer(q) PROVE KeyWasLoaded'
  <2>1. UNCHANGED <<disposed, started, props, page, ruined, loader>>  BY <1>6 DEF Answer, runs, data
  <2>2. CASE last' = last
    BY <2>1, <2>2, LoadedStays DEF KeyWasLoaded, TypeOK
  <2>3. CASE gate[q] = "open" /\ Winner = q /\ last' = props[q]
    <3>1. ~disposed => q \in Range(page) \cup ruined \/ loader[q] = "over"
      BY <2>3 DEF PaintHasData
    <3>2. ~disposed => Loaded(props[q])  BY <2>3, <3>1, WinnerType DEF Loaded
    <3>3. Loaded(props[q]) => Loaded(last)'  BY <2>1, <2>3 DEF Loaded
    <3> QED BY <2>1, <3>2, <3>3 DEF KeyWasLoaded
  <2> QED BY <1>6, <2>2, <2>3 DEF Answer
<1>7. ASSUME NEW q \in Reqs, LoaderPatch(q) PROVE KeyWasLoaded'
  BY <1>7, LoadedStays DEF LoaderPatch, KeyWasLoaded, TypeOK, asked, runs, data
<1>8. ASSUME NEW q \in Reqs, LoaderReturns(q) PROVE KeyWasLoaded'
  BY <1>8, LoadedStays DEF LoaderReturns, KeyWasLoaded, TypeOK, asked, runs, data
<1>9. ASSUME NEW q \in Reqs, LoaderFlushed(q) PROVE KeyWasLoaded'
  BY <1>9, LoadedStays DEF LoaderFlushed, KeyWasLoaded, TypeOK, asked, runs, data
<1>10. ASSUME NEW q \in Reqs, LoaderThrows(q) PROVE KeyWasLoaded'
  BY <1>10, LoadedStays DEF LoaderThrows, KeyWasLoaded, TypeOK, asked, runs, data
<1>11. CASE Flush
  BY <1>11, LoadedStays DEF Flush, KeyWasLoaded, TypeOK, asked, runs, data
<1>12. CASE Drain
  BY <1>12, LoadedStays DEF Drain, KeyWasLoaded, TypeOK, asked, runs, data
<1>13. CASE Dispose
  BY <1>13, LoadedStays DEF Dispose, KeyWasLoaded, TypeOK, asked, runs, data
<1>14. CASE UNCHANGED vars
  BY <1>14, LoadedStays DEF vars, KeyWasLoaded, TypeOK, asked, runs, data
<1> QED BY <1>1, <1>2, <1>3, <1>4, <1>5, <1>6, <1>7, <1>8,
          <1>9, <1>10, <1>11, <1>12, <1>13, <1>14
       DEF Next, Guard, LoaderEnds, Chunk, OtherChunk
-----------------------------------------------------------------------------
(* The order of writes *)

LEMMA OrderKept == LoadOrder /\ UNCHANGED <<page, pending, started>> => LoadOrder'
BY Zenon DEF LoadOrder

LEMMA OrderFlushed ==
    ASSUME TypeOK, LoadOrder, UNCHANGED started, pending' = <<>>,
           page' = page \/ page' = page \o pending
    PROVE  LoadOrder'
<1> DEFINE w == page \o pending
<1>1. page \in Seq(Reqs) /\ pending \in Seq(Reqs) /\ w \in Seq(Reqs)  BY DEF TypeOK
<1>2. w \o <<>> = w /\ page \o <<>> = page  BY <1>1
<1>3. page' \o pending' \in {page, w}  BY <1>2
<1>4. \A i \in DOMAIN page : i \in DOMAIN w /\ w[i] = page[i]  BY <1>1
<1>5. CASE page' \o pending' = w  BY <1>5 DEF LoadOrder
<1>6. CASE page' \o pending' = page
  <2>1. \A i, j \in DOMAIN page : \A k, n \in DOMAIN started :
            i < j /\ started[k] = page[i] /\ started[n] = page[j] => k <= n
    BY <1>4 DEF LoadOrder
  <2> HIDE DEF w
  <2> QED BY <1>6, <2>1 DEF LoadOrder
<1> QED BY <1>3, <1>5, <1>6

LEMMA OrderStep == IInv /\ [Next]_vars => LoadOrder'
<1> SUFFICES ASSUME IInv, [Next]_vars PROVE LoadOrder'  OBVIOUS
<1>1. ASSUME NEW q \in Reqs, NEW p \in Props, Begin(q, p) PROVE LoadOrder'
  <2>1. UNCHANGED <<page, pending, started>>  BY <1>1 DEF Begin, asked, runs, data
  <2> QED BY <2>1, OrderKept DEF IInv
<1>2. ASSUME NEW q \in Reqs, Superseded(q) PROVE LoadOrder'
  <2>1. UNCHANGED <<page, pending, started>>  BY <1>2 DEF Superseded, asked, runs, data
  <2> QED BY <2>1, OrderKept DEF IInv
<1>3. ASSUME NEW q \in Reqs, Denied(q) PROVE LoadOrder'
  <2>1. UNCHANGED <<page, pending, started>>  BY <1>3 DEF Denied, asked, runs, data
  <2> QED BY <2>1, OrderKept DEF IInv
<1>4. ASSUME NEW q \in Reqs, Skipped(q) PROVE LoadOrder'
  <2>1. UNCHANGED <<page, pending, started>>  BY <1>4 DEF Skipped, asked, runs, data
  <2> QED BY <2>1, OrderKept DEF IInv
<1>5. ASSUME NEW q \in Reqs, StartLoad(q) PROVE LoadOrder'
  <2> DEFINE w == page \o pending
  <2>1. page \in Seq(Reqs) /\ pending \in Seq(Reqs)  BY DEF IInv, TypeOK
  <2>2. \A i \in DOMAIN w : w[i] \in Range(started)
    <3>1. Range(w) = Range(page) \cup Range(pending)  BY <2>1, RangeConcat
    <3> QED BY <3>1 DEF IInv, WroteKnows, Range
  <2>3. \A k \in DOMAIN started' : started'[k] \in Range(started) =>
            k \in DOMAIN started /\ started'[k] = started[k]
    BY <1>5, StartFacts
  <2>4. page' \o pending' = w  BY <1>5, StartFacts
  <2> QED BY <2>2, <2>3, <2>4 DEF IInv, LoadOrder
<1>6. ASSUME NEW q \in Reqs, Answer(q) PROVE LoadOrder'
  <2>1. UNCHANGED <<page, pending, started>>  BY <1>6 DEF Answer, asked, runs, data
  <2> QED BY <2>1, OrderKept DEF IInv
<1>7. ASSUME NEW q \in Reqs, LoaderPatch(q) PROVE LoadOrder'
  <2>1. CASE UNCHANGED pending
    BY <1>7, <2>1, PatchFacts, OrderKept DEF IInv
  <2>2. CASE q = Winner /\ pending' = Append(pending, q)
    <3> DEFINE w == page \o pending
    <3>1. page \in Seq(Reqs) /\ pending \in Seq(Reqs)  BY DEF IInv, TypeOK
    <3>2. page' \o pending' = Append(w, q) /\ started' = started
      <4>1. page \o Append(pending, q) = Append(w, q)  BY <3>1
      <4> QED BY <1>7, <2>2, <4>1, PatchFacts DEF IInv
    <3>3. \A i \in DOMAIN w : Append(w, q)[i] = w[i]  BY <3>1
    <3>4. DOMAIN Append(w, q) = DOMAIN w \cup {Len(w) + 1} /\ Append(w, q)[Len(w) + 1] = q
      BY <3>1
    <3>5. \A i, j \in DOMAIN Append(w, q) : i < j => i \in DOMAIN w /\ (j \in DOMAIN w \/ j = Len(w) + 1)
      BY <3>1, <3>4
    <3>6. \A k, n \in DOMAIN started : started[n] = q => k <= n
      BY <2>2, WinnerType DEF IInv, TypeOK, RunsOnce
    <3> QED BY <3>2, <3>3, <3>4, <3>5, <3>6 DEF IInv, LoadOrder
  <2> QED BY <1>7, <2>1, <2>2, PatchFacts DEF IInv
<1>8. ASSUME NEW q \in Reqs, LoaderReturns(q) PROVE LoadOrder'
  <2>1. UNCHANGED <<page, pending, started>>  BY <1>8 DEF LoaderReturns, asked, runs, data
  <2> QED BY <2>1, OrderKept DEF IInv
<1>9. ASSUME NEW q \in Reqs, LoaderFlushed(q) PROVE LoadOrder'
  <2>1. UNCHANGED <<page, pending, started>>  BY <1>9 DEF LoaderFlushed, asked, runs, data
  <2> QED BY <2>1, OrderKept DEF IInv
<1>10. ASSUME NEW q \in Reqs, LoaderThrows(q) PROVE LoadOrder'
  <2>1. UNCHANGED <<page, pending, started>>  BY <1>10 DEF LoaderThrows, asked, runs, data
  <2> QED BY <2>1, OrderKept DEF IInv
<1>11. CASE Flush
  BY <1>11, OrderFlushed, FlushFacts DEF IInv
<1>12. CASE Drain
  BY <1>12, OrderFlushed, DrainFacts DEF IInv
<1>13. CASE Dispose
  <2>1. UNCHANGED <<page, pending, started>>  BY <1>13 DEF Dispose, asked, runs, data
  <2> QED BY <2>1, OrderKept DEF IInv
<1>14. CASE UNCHANGED vars
  <2>1. UNCHANGED <<page, pending, started>>  BY <1>14 DEF vars, asked, runs, data
  <2> QED BY <2>1, OrderKept DEF IInv
<1> QED BY <1>1, <1>2, <1>3, <1>4, <1>5, <1>6, <1>7, <1>8,
          <1>9, <1>10, <1>11, <1>12, <1>13, <1>14
       DEF Next, Guard, LoaderEnds, Chunk, OtherChunk
-----------------------------------------------------------------------------
(* The theorems *)

LEMMA StepInv == IInv /\ [Next]_vars => IInv'
BY TypeStep, RunsStep, WroteStep, GateStep, FirstPatchStep, PaintStep, SkipStep, KeyStep,
   OrderStep DEF IInv

LEMMA Inductive == Spec => []IInv
BY InitInv, StepInv, PTL DEF Spec

(* Every variable has its type in every reachable state, whatever requests *)
(* and loaders there are.                                                  *)
THEOREM TypeCorrect == Spec => []TypeOK
<1>1. IInv => TypeOK  BY DEF IInv
<1> QED BY <1>1, Inductive, PTL

(* No request ever waits on a render gate that has no run left to settle   *)
(* it: #renderGate is a single slot, and every overwrite settles it first. *)
THEOREM GateCorrect == Spec => []GateOwned
<1>1. IInv => GateOwned  BY DEF IInv
<1> QED BY <1>1, Inductive, PTL

(* The paint of the run in charge never opens on the flush of another      *)
(* writer before the run's data is in (#flushChunk).                       *)
THEOREM PaintCorrect == Spec => []PaintHasData
<1>1. IInv => PaintHasData  BY DEF IInv
<1> QED BY <1>1, Inductive, PTL

(* A loader's first flushed patch leaves no request waiting.               *)
THEOREM FirstPatchCorrect == Spec => []FirstPatchOpens
<1>1. IInv => FirstPatchOpens  BY DEF IInv
<1> QED BY <1>1, Inductive, PTL

(* The run tag alone keeps the writes of superseded loaders behind.        *)
THEOREM OrderCorrect == Spec => []LoadOrder
<1>1. IInv => LoadOrder  BY DEF IInv
<1> QED BY <1>1, Inductive, PTL

(* The dedup key never names props whose load never reached the state.     *)
THEOREM KeyCorrect == Spec => []KeyWasLoaded
<1>1. IInv => KeyWasLoaded  BY DEF IInv
<1> QED BY <1>1, Inductive, PTL
=============================================================================
