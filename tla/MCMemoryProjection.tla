------------------------- MODULE MCMemoryProjection -------------------------
(* Events of the MemoryProjection run: two actors.  Actor a's "m" is         *)
(* written, forgotten, written again within the same millisecond and         *)
(* forgotten; its "n" is written; both stay display names.  Actor b's "p"    *)
(* is a display name until an update drops that role.                        *)
EXTENDS MemoryProjection

Ev(id, actor, kind, l, c, role) ==
    [id |-> id, actor |-> actor, kind |-> kind, hlc |-> [l |-> l, c |-> c], role |-> role]

MCMemEvent ==
    {Ev("m", "a", "wrote", 1, 0, "display-name"), Ev("m", "a", "forgotten", 2, 0, ""),
     Ev("m", "a", "wrote", 2, 1, "display-name"), Ev("m", "a", "forgotten", 3, 1, ""),
     Ev("n", "a", "wrote", 3, 0, "display-name"),
     Ev("p", "b", "wrote", 1, 0, "display-name"), Ev("p", "b", "wrote", 2, 0, "")}
=============================================================================
