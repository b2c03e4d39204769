--------------------------- MODULE MCEdgeServing ----------------------------
(* An instance of EdgeServing for TLC: one edge, one user's connection. *)
EXTENDS EdgeServing, MCWatcher

CONSTANT q1

=============================================================================
