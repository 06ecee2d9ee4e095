------------------------------- MODULE MCSetup -------------------------------
(* Small instances of Setup for TLC. *)
EXTENDS Setup, TLC

MCSymmetry == Permutations(Requests) \cup Permutations(Forms) \cup Permutations(Names)

=============================================================================
