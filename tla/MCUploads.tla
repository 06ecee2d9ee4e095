------------------------------- MODULE MCUploads -------------------------------
(***************************************************************************)
(* Small instances of Uploads for TLC, in one run: up to three chunks one  *)
(* at a time, with chunks that are sent again or from elsewhere, or two    *)
(* chunks at once.                                                         *)
(***************************************************************************)
EXTENDS Uploads, TLC

Faults == crashes + damages + strays
InBounds ==
    \/ parallel = 1 /\ chunks <= 2 /\ Faults <= 2
    \/ parallel = 1 /\ chunks = 3 /\ (strays = 0 \/ Faults = 1)
    \/ parallel = 2 /\ chunks = 2 /\ strays = 0 /\ Faults <= 1

MCInit == Init /\ InBounds
MCUploads == MCInit /\ [][Next /\ InBounds']_vars
MCFairUploads == MCUploads /\ WF_vars(AskExists) /\ WF_vars(StartAgain)
                           /\ \A r \in Requests : WF_vars(Send(r)) /\ WF_vars(Handle(r))

=============================================================================
