---------------------------- MODULE MemoryTools ----------------------------
(***************************************************************************)
(* The memories of the agents of one host as their tools see and change     *)
(* them (src/memory/tools.ts), the principles every turn starts with        *)
(* (src/memory/principles.ts), and what a child is given when it is spawned *)
(* (passOnCulture of src/agent/manager.ts).  Each write is one event, which *)
(* the projector turns into the row before the tool returns.                *)
(***************************************************************************)
EXTENDS Naturals, FiniteSets

CONSTANTS
    Elder,         \* the agent that is there at the start
    Heirs,         \* agents that are spawned
    Teams,
    Roles,         \* roles a memory may have, "principle" among them
    NoAgent, NoRef,
    MaxMemories,   \* bound: memories, numbered as they come
    MaxEdits       \* bound: writes that update

VARIABLES
    memories,   \* id -> its row, or Absent
    made,       \* ids given out
    parentOf,   \* agent -> the agent that spawned it
    alive,      \* agents there are
    members,    \* team -> its members
    edits,      \* the bounded counter
    given       \* history: id -> <<owner, author, seed>> as it was first written

memoryVars == <<memories, made, parentOf, alive, members, edits, given>>

Agents == {Elder} \cup Heirs
Ids == 1..MaxMemories

MemoryAssumption ==
    /\ MaxMemories \in Nat /\ MaxEdits \in Nat
    /\ Elder \notin Heirs /\ NoAgent \notin Agents /\ NoRef \notin Teams

Absent == [owner |-> NoAgent]
Scopes == {"private", "team", "scratch"}

Init ==
    /\ memories = [m \in Ids |-> Absent]
    /\ made = 0
    /\ parentOf = [a \in Agents |-> NoAgent]
    /\ alive = {Elder}
    /\ members = [t \in Teams |-> {}]
    /\ edits = 0
    /\ given = [m \in Ids |-> <<NoAgent, NoAgent, 0>>]

Exists(m) == memories[m] # Absent
Owned(a, m) == memories[m].owner = a

----------------------------------------------------------------------------
(* What a tool lets its caller see. *)

\* reasonReadDenied, which memory_read asks.
Readable(a, m) ==
    /\ Exists(m)
    /\ \/ Owned(a, m)
       \/ memories[m].scope = "team" /\ memories[m].ref \in {t \in Teams : a \in members[t]}

\* Mutant: the rows of a caller's teams are found whatever their scope.
SearchHitsByRef(a) ==
    {m \in Ids : Exists(m) /\ (Owned(a, m) \/ memories[m].ref \in {t \in Teams : a \in members[t]})}

\* memory_search without further filters.
SearchHits(a) ==
    LET teamIds == {t \in Teams : a \in members[t]}
    IN {m \in Ids : /\ Exists(m)
                    /\ \/ Owned(a, m)
                       \/ memories[m].scope = "team" /\ memories[m].ref \in teamIds}

\* The parents above an agent; a spawn never makes a cycle.
Ancestors(a) ==
    LET up[k \in 0..Cardinality(Heirs)] ==
            IF k = 0 THEN {a} ELSE up[k - 1] \cup ({parentOf[b] : b \in up[k - 1]} \ {NoAgent})
    IN up[Cardinality(Heirs)] \ {a}

\* memory_lineage for one role.
LineageHits(a, role) ==
    {m \in Ids : /\ Exists(m) /\ memories[m].owner \in Ancestors(a) /\ memories[m].role = role
                 /\ memories[m].scope \notin {"private", "scratch"}
                 /\ \E t \in Teams : memories[m].ref = t /\ a \in members[t]}

\* loadPrinciples: what is rendered into every turn of an agent.
Principles(a) ==
    {m \in Ids : Owned(a, m) /\ memories[m].scope = "private" /\ memories[m].role = "principle"}

----------------------------------------------------------------------------
(* Writes. *)

Row(owner, scope, ref, role, author, seed) ==
    [owner |-> owner, scope |-> scope, ref |-> ref, role |-> role, author |-> author, seed |-> seed]

\* A team or a scratch memory needs a reference; a private one is anchored
\* at its owner.
Anchored(a, scope, ref) == IF scope = "private" /\ ref = NoRef THEN a ELSE ref

\* memory_write of a new memory.
Write(a, scope, ref, role) ==
    /\ a \in alive /\ made < MaxMemories
    /\ scope \in {"team", "scratch"} => ref # NoRef
    /\ made' = made + 1
    /\ memories' = [memories EXCEPT ![made'] = Row(a, scope, Anchored(a, scope, ref), role, NoAgent, 0)]
    /\ given' = [given EXCEPT ![made'] = <<a, NoAgent, 0>>]
    /\ UNCHANGED <<parentOf, alive, members, edits>>

\* Mutant: an update writes a row of its own, without the lineage.
UpdatedAnew(a, m, scope, ref, role) == Row(a, scope, ref, role, NoAgent, 0)

\* The row an update leaves: the reference is kept unless a new one is
\* given, the lineage always.
Updated(a, m, scope, ref, role) ==
    Row(a, scope, ref, role, memories[m].author, memories[m].seed)

\* memory_write that updates: the owner's own; a scope that is not given is
\* private.
Update(a, m, scope, ref, role) ==
    LET kept == IF ref = NoRef THEN memories[m].ref ELSE ref
    IN /\ a \in alive /\ Exists(m) /\ Owned(a, m)
       /\ edits < MaxEdits /\ edits' = edits + 1
       /\ memories' = [memories EXCEPT ![m] = Updated(a, m, scope, kept, role)]
       /\ UNCHANGED <<made, parentOf, alive, members, given>>

\* memory_promote: a private memory of the caller, to a team of the caller.
Promote(a, m, t) ==
    /\ a \in alive /\ Exists(m) /\ Owned(a, m)
    /\ memories[m].scope = "private" /\ a \in members[t]
    /\ memories' = [memories EXCEPT ![m].scope = "team", ![m].ref = t]
    /\ UNCHANGED <<made, parentOf, alive, members, edits, given>>

\* memory_forget.
Forget(a, m) ==
    /\ a \in alive /\ Exists(m) /\ Owned(a, m)
    /\ memories' = [memories EXCEPT ![m] = Absent]
    /\ UNCHANGED <<made, parentOf, alive, members, edits, given>>

\* The rows a child is given: the private principles of its parent, and
\* those of the extra ones that are the parent's own, whatever their scope.
Seeds(a, extras) ==
    Principles(a) \cup {m \in extras : Owned(a, m)}

\* The seed that is copied to id, if they are copied in order.
SeedOf(seeds, id) == CHOOSE m \in seeds : made + Cardinality({n \in seeds : n <= m}) = id

\* spawn: the child, and a copy of each seed that says whose it is and what
\* it was copied from.
Spawn(a, child, extras) ==
    LET seeds == Seeds(a, extras)
        fresh == (made + 1)..(made + Cardinality(seeds))
    IN /\ a \in alive /\ child \in Heirs \ alive
       /\ made + Cardinality(seeds) <= MaxMemories
       /\ made' = made + Cardinality(seeds)
       /\ alive' = alive \cup {child}
       /\ parentOf' = [parentOf EXCEPT ![child] = a]
       /\ memories' = [id \in Ids |->
            IF id \in fresh
            THEN LET m == SeedOf(seeds, id) IN Row(child, "private", child, memories[m].role, a, m)
            ELSE memories[id]]
       /\ given' = [id \in Ids |-> IF id \in fresh THEN <<child, a, SeedOf(seeds, id)>> ELSE given[id]]
       /\ UNCHANGED <<members, edits>>

\* An agent becomes or stops being a member of a team (TeamMesh).
Membership(a, t) ==
    /\ a \in alive
    /\ members' = [members EXCEPT ![t] = IF a \in @ THEN @ \ {a} ELSE @ \cup {a}]
    /\ UNCHANGED <<memories, made, parentOf, alive, edits, given>>

Next ==
    \E a \in Agents :
       \/ \E scope \in Scopes, ref \in Teams \cup {NoRef}, role \in Roles :
            \/ Write(a, scope, ref, role)
            \/ \E m \in Ids : Update(a, m, scope, ref, role)
       \/ \E m \in Ids :
            \/ Forget(a, m)
            \/ \E t \in Teams : Promote(a, m, t)
       \/ \E child \in Heirs, extras \in SUBSET Ids : Spawn(a, child, extras)
       \/ \E t \in Teams : Membership(a, t)

Spec == Init /\ [][Next]_memoryVars

----------------------------------------------------------------------------
MemoryRow ==
    [owner : Agents, scope : Scopes, ref : Teams \cup Agents \cup {NoRef}, role : Roles,
     author : Agents \cup {NoAgent}, seed : 0..MaxMemories]

TypeOK ==
    /\ memories \in [Ids -> MemoryRow \cup {Absent}]
    /\ made \in 0..MaxMemories /\ alive \subseteq Agents
    /\ parentOf \in [Agents -> Agents \cup {NoAgent}]
    /\ members \in [Teams -> SUBSET Agents]
    /\ given \in [Ids -> (Agents \cup {NoAgent}) \X (Agents \cup {NoAgent}) \X (0..MaxMemories)]
    /\ \A m \in Ids : Exists(m) => m <= made /\ memories[m].owner \in alive

(* The three ways to find a memory agree: search returns what a read would  *)
(* allow, whatever updates, promotions and changes of team a row has been   *)
(* through, and an ancestor's row is in the lineage only if it is among     *)
(* them, never a private one (memory/tools.ts:153-169, 360-409, 536-623).   *)
FindersAgree ==
    \A a \in alive :
        /\ SearchHits(a) = {m \in Ids : Readable(a, m)}
        /\ \A role \in Roles : LineageHits(a, role) \subseteq SearchHits(a)

(* A memory keeps the owner it was written for and says for good where it   *)
(* was copied from: the parent that spawned its owner and an older memory   *)
(* (memory/tools.ts:239-263, agent/manager.ts:340-409).                     *)
AttributionSurvives ==
    \A m \in Ids : Exists(m) =>
        /\ <<memories[m].owner, memories[m].author, memories[m].seed>> = given[m]
        /\ memories[m].seed # 0 =>
             memories[m].author = parentOf[memories[m].owner] /\ memories[m].seed < m

(* What the tool descriptions say: a promoted memory stays with the team    *)
(* until it is forgotten, for demotion is not an operation.                 *)
PromotedStays ==
    [][\A m \in Ids : Exists(m) /\ memories[m].scope = "team" /\ memories'[m] # Absent
         => memories'[m].scope = "team"]_memoryVars

(* A memory of a team was written by a member of it.                        *)
TeamWritesByMembers ==
    [][\A m \in Ids : memories'[m] # Absent /\ memories'[m] # memories[m]
                      /\ memories'[m].scope = "team"
         => \E t \in Teams : memories'[m].ref = t /\ memories'[m].owner \in members[t]]_memoryVars
=============================================================================
