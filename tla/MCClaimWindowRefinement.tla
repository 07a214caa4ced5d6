---------------------- MODULE MCClaimWindowRefinement ----------------------
(* Constants of the refinement run, as in MCClaimWindow. *)
EXTENDS ClaimWindowRefinement

MCEventHlc == [l |-> 1, c |-> 0]
=============================================================================
