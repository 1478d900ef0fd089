------------------------ MODULE MCNodeTransactions --------------------------
(* NodeTransactions for TLC. *)
EXTENDS NodeTransactions, TLC

Symmetry == Permutations(Conn) \cup Permutations(Node) \cup Permutations(Session)
=============================================================================
