---------------------------- MODULE MCSlotMounts ----------------------------
(* Instances of SlotMounts for TLC. *)
EXTENDS SlotMounts, TLC

CONSTANTS s1, s2, page, a, b

TwoSlots == {s1, s2}
AnySlot == Permutations(TwoSlots)
TwoPaths == {a, b}
Both == {"sse", "ws"}
Sse == {"sse"}

Budget(mounts, navs, patches, denies, drops) ==
    [mount |-> mounts, nav |-> navs, patch |-> patches, deny |-> denies, drop |-> drops]
Mixed == {Budget(2, 0, 1, 0, 1), Budget(2, 0, 0, 1, 0), Budget(1, 2, 0, 1, 0),
          Budget(1, 1, 1, 0, 0), Budget(0, 3, 0, 1, 1), Budget(0, 0, 0, 0, 0)}
TwoMounts == {Budget(2, 0, 0, 0, 0)}
=============================================================================
