------------------------------ MODULE MCMounts ------------------------------
(***************************************************************************)
(* Mounts, for TLC: those the handler makes, which race with streams and   *)
(* timers for the registry (Registry), or those of a page, through its     *)
(* slots and navigations (SlotMounts).  The two share no variable, so a    *)
(* behaviour is of one of them: `part` says which, and the other rests in  *)
(* an initial state.                                                       *)
(***************************************************************************)
EXTENDS MCRegistry, SlotMounts, TLC

CONSTANTS m2, m3, p2, s1, s2

VARIABLE part

(* Mounts of five kinds by two principals, the last one another session's, *)
(* without a stream.                                                       *)
ThreeMounts == {m1, m2, m3}
ThreeKeys == {"k1", "k2", "k3"}
TwoSids == {"i1", "i2"}
TwoPrincipals == {p1, p2}
TwoStreams == {"ws", "sse"}
WebSockets == {"ws"}
SessionOf == [x \in ThreeKeys \cup TwoStreams |-> IF x = "k3" THEN "i2" ELSE "i1"]
Ask(k, p, s) == [key |-> k, principal |-> p, stream |-> s]
Mixed == {Ask("k1", p1, none), Ask("k1", p1, "ws"), Ask("k2", p1, "sse"),
          Ask("k1", p2, none), Ask("k3", p1, none)}

ASSUME TableConstantsOK == RegistryConstantsOK

-----------------------------------------------------------------------------
TwoSlots == {s1, s2}
Budget(slots, navs, patches, denies, drops) ==
    [mount |-> slots, nav |-> navs, patch |-> patches, deny |-> denies, drop |-> drops]
Spent == Budget(0, 0, 0, 0, 0)
Mixes == {Budget(2, 0, 1, 0, 1), Budget(2, 0, 0, 1, 0), Budget(1, 2, 0, 1, 0),
          Budget(1, 1, 1, 0, 0), Budget(0, 3, 0, 1, 1), Spent}

ASSUME PageConstantsOK == SlotConstantsOK
AnyMountOrSlot == Permutations(ThreeMounts) \cup Permutations(TwoSlots)

-----------------------------------------------------------------------------
MountsInit ==
    /\ part \in {"registry", "page"}
    /\ Init
    /\ SlotInit /\ (part # "page" => transport = "sse" /\ left = Spent)

MountsNext ==
    \/ part = "registry" /\ Next /\ UNCHANGED <<part, slotVars>>
    \/ part = "page" /\ SlotNext /\ UNCHANGED <<part, vars>>

MountsSpec == MountsInit /\ [][MountsNext]_<<part, vars, slotVars>>
=============================================================================
