-------------------------------- MODULE HLC --------------------------------
(***************************************************************************)
(* The hybrid logical clock of src/src/id/hlc.ts: a stamp is a physical    *)
(* millisecond l and a logical counter c.  Every bus event carries a stamp *)
(* and hosts arbitrate by comparing them.  The operators are pure: the     *)
(* clock of a host is a variable of the module that owns it, and pt is the *)
(* physical time the host reads at that moment (it may go backwards).      *)
(***************************************************************************)
EXTENDS Integers

Stamp == [l : Nat, c : Nat]

\* A clock that has just been created: createClock starts at l = c = 0.
ZeroStamp == [l |-> 0, c |-> 0]

\* now(): the stamp of a local event, and the new clock.
Now(clk, pt) ==
    IF pt > clk.l THEN [l |-> pt, c |-> 0]
                  ELSE [l |-> clk.l, c |-> clk.c + 1]

Later(a, b) == IF a > b THEN a ELSE b

\* Mutant: a received stamp only ticks the clock.
RecvIgnoresRemote(clk, remote, pt) == Now(clk, pt)

\* recv(remote): the clock after merging the stamp of a remote event.
Recv(clk, remote, pt) ==
    LET top == Later(Later(clk.l, remote.l), pt)
    IN  [l |-> top,
         c |-> IF top = clk.l /\ top = remote.l THEN Later(clk.c, remote.c) + 1
               ELSE IF top = clk.l THEN clk.c + 1
               ELSE IF top = remote.l THEN remote.c + 1
               ELSE 0]

\* compareStamp(a, b) < 0.  It is also the order of the encoded stamps as long
\* as the counter fits its four hexadecimal digits, which is assumed here.
StampLess(a, b) == a.l < b.l \/ (a.l = b.l /\ a.c < b.c)

StampAtMost(a, b) == a = b \/ StampLess(a, b)
=============================================================================
