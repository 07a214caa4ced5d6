--------------------------- MODULE TaskOwnership ---------------------------
(***************************************************************************)
(* What the mesh promises about one claimable event, with the messages,    *)
(* the clocks and the tables left out.  Hosts contend with a stamp, at any *)
(* time; a contender may start to run at any time, even beside another     *)
(* one; but it yields, or is flagged as a duplicate, only if some rival is *)
(* ahead of it.  So the foremost contender is never argued out of the task *)
(* (src/docs/design/ARCHITECTURE.md:522-531).                              *)
(***************************************************************************)
EXTENDS HLC

CONSTANT Host

VARIABLES stamp, phase

Phase == {"idle", "contending", "running", "yielded", "flagged"}

Ahead(g, h) ==
    /\ phase[g] # "idle"
    /\ StampLess(stamp[g], stamp[h]) \/ (stamp[g] = stamp[h] /\ g < h)

OwnershipInit ==
    /\ stamp = [h \in Host |-> ZeroStamp]
    /\ phase = [h \in Host |-> "idle"]

Move(h, from, to) == phase[h] = from /\ phase' = [phase EXCEPT ![h] = to]

Contend(h) ==
    /\ Move(h, "idle", "contending")
    /\ stamp'[h] \in Stamp
    /\ stamp' = [stamp EXCEPT ![h] = stamp'[h]]

Run(h) == Move(h, "contending", "running") /\ UNCHANGED stamp

Yield(h) ==
    /\ Move(h, "contending", "yielded")
    /\ \E g \in Host : Ahead(g, h)
    /\ UNCHANGED stamp

Flag(h) ==
    /\ Move(h, "running", "flagged")
    /\ \E g \in Host : Ahead(g, h)
    /\ UNCHANGED stamp

OwnershipNext == \E h \in Host : Contend(h) \/ Run(h) \/ Yield(h) \/ Flag(h)

OwnershipSpec == OwnershipInit /\ [][OwnershipNext]_<<stamp, phase>>
=============================================================================
