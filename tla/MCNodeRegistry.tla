--------------------------- MODULE MCNodeRegistry ---------------------------
(* Small instances of NodeRegistry for TLC.                                *)
EXTENDS NodeRegistry, TLC

Symmetry == Permutations(Node) \cup Permutations(Session) \cup Permutations(Token)
                \cup Permutations(Key)
=============================================================================
