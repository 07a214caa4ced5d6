----------------------- MODULE ClaimWindowRefinement -----------------------
(* The claim window implements TaskOwnership as long as no host restarts:   *)
(* the phase of a host is the status of its own row in its own table.       *)
EXTENDS ClaimWindow

FirstClaim(h) == [host |-> h, boot |-> 1]

PhaseOf(status) ==
    CASE status = "absent" -> "idle"
      [] status = "intent" -> "contending"
      [] status = "won" -> "running"
      [] status = "lost" -> "yielded"
      [] status = "split_brain" -> "flagged"

Ownership == INSTANCE TaskOwnership WITH
    stamp <- [h \in Host |-> hlc[FirstClaim(h)]],
    phase <- [h \in Host |-> PhaseOf(row[h][FirstClaim(h)])]

\* Every step of the claim window is a step of TaskOwnership or a stutter: a
\* host contends once, and yields or is flagged only if a rival is ahead.
ImplementsOwnership == Ownership!OwnershipSpec
=============================================================================
