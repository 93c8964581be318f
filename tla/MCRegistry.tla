----------------------------- MODULE MCRegistry -----------------------------
(* One mount over a socket of its session, for TLC. *)
EXTENDS Registry

CONSTANTS m1, k1, i1, p1, ws, none

OneMount == {m1}
OneKey == {k1}
OneSid == {i1}
OnePrincipal == {p1}
OneSocket == {ws}
SocketMount == {[key |-> k1, principal |-> p1, stream |-> ws]}
SidOf == [x \in {k1, ws} |-> i1]
=============================================================================
