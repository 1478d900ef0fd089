-------------------------- MODULE MCNodeDispatch ----------------------------
(* NodeDispatch for TLC. *)
EXTENDS NodeDispatch, TLC

Symmetry == Permutations(Session) \cup Permutations(Job)
=============================================================================
