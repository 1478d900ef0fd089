---------------------------- MODULE MCNodeAgent -----------------------------
(* NodeAgent for TLC. *)
EXTENDS NodeAgent
=============================================================================
