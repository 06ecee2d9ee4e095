------------------------------ MODULE MCConnPool ------------------------------
(* Small instances of ConnPool for TLC. *)
EXTENDS ConnPool, TLC

MCSymmetry == Permutations(Sessions) \cup Permutations(Conns) \cup Permutations(Pools)

=============================================================================
