-------------------------- MODULE MCNodeSessions ----------------------------
(* NodeSessions for TLC. *)
EXTENDS NodeSessions, TLC

Symmetry == Permutations(Session)
=============================================================================
