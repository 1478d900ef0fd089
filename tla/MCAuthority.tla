---------------------------- MODULE MCAuthority -----------------------------
(* Authority for TLC. *)
EXTENDS Authority, TLC

Symmetry == Permutations(Challenge) \cup Permutations(Finisher) \cup Permutations(Handler)
                \cup Permutations(Payload)
=============================================================================
