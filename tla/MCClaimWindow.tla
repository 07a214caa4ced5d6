--------------------------- MODULE MCClaimWindow ---------------------------
(* Constants of the ClaimWindow runs.  The event was stamped by a host whose *)
(* clock reads 1, the lowest value a physical clock has here.                *)
EXTENDS ClaimWindow

MCEventHlc == [l |-> 1, c |-> 0]
=============================================================================
