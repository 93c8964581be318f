---------------------------- MODULE MCLiveSync ----------------------------
(* Two pages of one session, for TLC. *)
EXTENDS LiveSync

CONSTANTS p1, p2, other

TwoPages == {p1, p2}
=============================================================================
