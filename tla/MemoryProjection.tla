-------------------------- MODULE MemoryProjection --------------------------
(***************************************************************************)
(* The memory projector (src/src/memory/projector.ts) on several hosts.    *)
(* Memory is a view of the event log: every host folds the memory.wrote    *)
(* and memory.forgotten events it receives, in whatever order catchup and  *)
(* live delivery bring them, and some of them again after a restart.       *)
(*                                                                         *)
(* An event stands for its payload: what the row shows is named by the     *)
(* event that wrote it.  memory.read only appends an audit row and is left *)
(* out, and so are payloads that the projector skips as malformed.         *)
(***************************************************************************)
EXTENDS HLC

CONSTANTS
    Replica,   \* the hosts
    MemEvent   \* the events that will be published

NoRow == [id |-> "none"]

\* An event names its memory id and the actor that owns it, its kind, its stamp
\* and, when it writes, the role of the memory.  Only the owner may write or
\* forget a memory (memory/tools.ts), so that the events of one memory come
\* from one bus and carry different stamps.
ASSUME MemEventAssumption ==
    /\ \A e \in MemEvent : /\ e.kind \in {"wrote", "forgotten"}
                           /\ e.hlc \in Stamp
                           /\ e.role \in STRING
    /\ NoRow \notin MemEvent
    /\ \A e, f \in MemEvent : e.id = f.id => e.actor = f.actor
    /\ \A e, f \in MemEvent : e.id = f.id /\ e.hlc = f.hlc => e = f

MemId == {e.id : e \in MemEvent}
Actor == {e.actor : e \in MemEvent}

NoTomb == [l |-> -1, c |-> 0]
NoName == [id |-> "none"]

VARIABLES
    applied,  \* applied[r]: the events r has dispatched at least once
    row,      \* row[r][m]: the event whose write the memories row shows
    tomb,     \* tomb[r][m]: the stamp in memory_tombstones
    name      \* name[r][a]: the write that agents.display_name caches

vars == <<applied, row, tomb, name>>

TypeOK ==
    /\ applied \in [Replica -> SUBSET MemEvent]
    /\ row \in [Replica -> [MemId -> MemEvent \cup {NoRow}]]
    /\ tomb \in [Replica -> [MemId -> Stamp \cup {NoTomb}]]
    /\ name \in [Replica -> [Actor -> MemEvent \cup {NoName}]]

Init ==
    /\ applied = [r \in Replica |-> {}]
    /\ row = [r \in Replica |-> [m \in MemId |-> NoRow]]
    /\ tomb = [r \in Replica |-> [m \in MemId |-> NoTomb]]
    /\ name = [r \in Replica |-> [a \in Actor |-> NoName]]

----------------------------------------------------------------------------
(* Helpers *)

\* The display-name rows of actor a in a memories table.
NameRows(table, a) ==
    {table[m] : m \in {k \in MemId : /\ table[k] # NoRow
                                     /\ table[k].actor = a
                                     /\ table[k].role = "display-name"}}

\* Mutant: without a display-name row the cache is left alone.
RefreshedUnlessEmpty(r, a, role, table) ==
    IF role # "display-name" \/ NameRows(table, a) = {} THEN name' = name
    ELSE \E e \in NameRows(table, a) :
           /\ \A f \in NameRows(table, a) : f.hlc.l <= e.hlc.l
           /\ name' = [name EXCEPT ![r][a] = e]

\* maybeRefreshDisplayName: the newest display-name row by updated_at, which is
\* the millisecond of its event; ORDER BY leaves a tie to the database.
Refreshed(r, a, role, table) ==
    IF role # "display-name" THEN name' = name
    ELSE \/ /\ NameRows(table, a) = {}
            /\ name' = [name EXCEPT ![r][a] = NoName]
         \/ \E e \in NameRows(table, a) :
              /\ \A f \in NameRows(table, a) : f.hlc.l <= e.hlc.l
              /\ name' = [name EXCEPT ![r][a] = e]

\* Mutant: writes do not look at the tombstones.
NeverBuried(r, e) == FALSE

\* tomb && tomb.hlc >= event.hlc
Buried(r, e) ==
    IF tomb[r][e.id] = NoTomb THEN FALSE ELSE ~StampLess(tomb[r][e.id], e.hlc)

\* Mutant: the last event to arrive wins.
RowIsEarlier(r, e) == TRUE

\* There is no row of e's memory, or an older one.
RowIsOlder(r, e) ==
    IF row[r][e.id] = NoRow THEN TRUE ELSE StampLess(row[r][e.id].hlc, e.hlc)

\* Mutant: the upsert has no WHERE excluded.hlc > memory_tombstones.hlc.
TombOverwritten(r, e) == e.hlc

\* Mutant: the tombstone holds the time of the forget instead of its stamp.
TombAsTime(r, e) == [l |-> e.hlc.l]

\* The tombstone after forgetting e: the larger stamp stays.
TombAfter(r, e) ==
    IF tomb[r][e.id] = NoTomb \/ StampLess(tomb[r][e.id], e.hlc) THEN e.hlc
                                                               ELSE tomb[r][e.id]

----------------------------------------------------------------------------
(* Actions *)

\* applyWrote: dropped if a tombstone dominates it or the row is as new.
ApplyWrote(r, e) ==
    LET table == [row[r] EXCEPT ![e.id] = e] IN
    /\ e.kind = "wrote"
    /\ applied' = [applied EXCEPT ![r] = @ \cup {e}]
    /\ \/ /\ ~(RowIsOlder(r, e) /\ ~Buried(r, e))
          /\ UNCHANGED <<row, name>>
       \/ /\ RowIsOlder(r, e) /\ ~Buried(r, e)
          /\ row' = [row EXCEPT ![r] = table]
          /\ Refreshed(r, e.actor, e.role, table)
    /\ UNCHANGED tomb

\* applyForgotten: the later tombstone wins, and the row goes if it is older.
ApplyForgotten(r, e) ==
    LET old == row[r][e.id]
        table == [row[r] EXCEPT ![e.id] = NoRow]
    IN
    /\ e.kind = "forgotten"
    /\ applied' = [applied EXCEPT ![r] = @ \cup {e}]
    /\ tomb' = [tomb EXCEPT ![r][e.id] = TombAfter(r, e)]
    /\ \/ /\ ~(old # NoRow /\ RowIsOlder(r, e))
          /\ UNCHANGED <<row, name>>
       \/ /\ old # NoRow /\ RowIsOlder(r, e)
          /\ row' = [row EXCEPT ![r] = table]
          /\ Refreshed(r, old.actor, old.role, table)

Next == \E r \in Replica, e \in MemEvent : ApplyWrote(r, e) \/ ApplyForgotten(r, e)

Spec == Init /\ [][Next]_vars

----------------------------------------------------------------------------
(* Properties *)

Writes(r, m) == {e \in applied[r] : e.kind = "wrote" /\ e.id = m}
Forgets(r, m) == {e \in applied[r] : e.kind = "forgotten" /\ e.id = m}

\* The tombstone is the latest forget that was applied, in whatever order.
TombIsLatestForget ==
    \A r \in Replica : \A m \in MemId :
        /\ tomb[r][m] = NoTomb <=> Forgets(r, m) = {}
        /\ tomb[r][m] # NoTomb =>
              /\ \E e \in Forgets(r, m) : tomb[r][m] = e.hlc
              /\ \A e \in Forgets(r, m) : StampAtMost(e.hlc, tomb[r][m])

\* The row is the latest write that was applied, unless a later forget was.
RowIsLatestWrite ==
    \A r \in Replica : \A m \in MemId :
        /\ row[r][m] # NoRow =>
              /\ row[r][m] \in Writes(r, m)
              /\ \A e \in Writes(r, m) : StampAtMost(e.hlc, row[r][m].hlc)
              /\ \A f \in Forgets(r, m) : StampLess(f.hlc, row[r][m].hlc)
        /\ row[r][m] = NoRow =>
              \A e \in Writes(r, m) :
                  \E f \in Forgets(r, m) : StampLess(e.hlc, f.hlc)

\* The tables are a function of the events applied.
ViewIsLatest == TombIsLatestForget /\ RowIsLatestWrite

\* Hosts that have received the same events show the same memories and hold
\* the same tombstones, whatever the order and the repetitions.
Converged ==
    \A r, s \in Replica :
        applied[r] = applied[s] => row[r] = row[s] /\ tomb[r] = tomb[s]

\* A forgotten memory comes back only with a write that is later than the
\* forget: replaying or receiving an old write never resurrects it.
NoResurrection ==
    [][\A r \in Replica : \A m \in MemId :
         row[r][m] = NoRow /\ row'[r][m] # NoRow =>
             \A f \in Forgets(r, m) : StampLess(f.hlc, row'[r][m].hlc)]_vars

\* Every write of a memory of a's that r has applied makes it a display name,
\* or none does.
KeepsRoles(r, a) ==
    \A e, f \in applied[r] :
        e.kind = "wrote" /\ f.kind = "wrote" /\ e.id = f.id /\ e.actor = a =>
            (e.role = "display-name" <=> f.role = "display-name")

\* agents.display_name is a fast read path for the agent's memories: "always
\* re-derive from the latest `role=display-name` row owned by this actor"
\* (src/src/memory/projector.ts:149).  It is the latest one for an actor whose
\* memories have kept their role so far: an update that drops the role does not
\* refresh the name.
NameIsLatest ==
    \A r \in Replica : \A a \in Actor : KeepsRoles(r, a) =>
        IF name[r][a] = NoName THEN NameRows(row[r], a) = {}
        ELSE /\ name[r][a] \in NameRows(row[r], a)
             /\ \A f \in NameRows(row[r], a) : f.hlc.l <= name[r][a].hlc.l
=============================================================================
