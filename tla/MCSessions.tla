------------------------------ MODULE MCSessions ------------------------------
(***************************************************************************)
(* Small instances of Sessions for TLC, in one run: a browser that waits   *)
(* for each response, with time, users and lost responses, or one that     *)
(* sends two requests at once, with a process that is killed.              *)
(***************************************************************************)
EXTENDS Sessions, TLC

VARIABLE shape

InShape ==
    \/ shape = "alone" /\ ~together /\ crashes = 0
    \/ shape = "killed" /\ ~together /\ lost = 0 /\ Cardinality(users) = 1
    \/ /\ shape = "together" /\ now = 0 /\ lost = 0
       /\ Cardinality(users) = 1 /\ Cardinality(made \cap Codes) <= 1

MCInit == Init /\ shape \in {"alone", "killed", "together"}
MCNext == Next /\ UNCHANGED shape /\ InShape'
MCSpec == MCInit /\ [][MCNext]_<<vars, shape>>

MCSymmetry == Permutations(Requests) \cup Permutations(Sids)

=============================================================================
