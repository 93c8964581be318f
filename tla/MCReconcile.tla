---------------------------- MODULE MCReconcile ----------------------------
(* Values of Reconcile's constants for TLC. *)
EXTENDS Reconcile, TLC

CONSTANTS q1, q2, q3, none, a, b

Three == {q1, q2, q3}
TwoProps == {a, b}
=============================================================================
