--------------------------- MODULE ExtensionHost ---------------------------
(***************************************************************************)
(* The extension runtime (extensions/runtime.ts): its registries, and the   *)
(* loads, unloads and reloads that several callers (agents' tools, the      *)
(* command line, the circuit breaker) may have in flight at once.           *)
(***************************************************************************)
EXTENDS Naturals, FiniteSets

CONSTANTS
    Exts,
    ToolsOf,       \* ToolsOf[x]: names x registers
    Callers,       \* slots for operations in flight
    Kinds,         \* what is on disk: see OnDisk
    Threshold,     \* failures within the window that crash an extension
    MaxLoads       \* bound

HostAssumption == Threshold \in Nat \ {0} /\ MaxLoads \in Nat /\ "none" \notin Exts

Names == UNION {ToolsOf[x] : x \in Exts}
LoadIds == 1..MaxLoads
(* The code of an extension, as far as loading it goes: it works, its smoke *)
(* gate fails, or register() throws when it has registered something.       *)
OnDisk == {"works", "smokes", "throws"}

VARIABLES
    disk,        \* disk[x]: the files of x, by what loading them does
    row,         \* row[x]: status in the extensions table
    loaded,      \* loaded[x]: the load the map holds, 0 for none
    crashed,     \* loads whose record has status "crashed"
    current,     \* current[x]: the revocation record kept for x, by load
    revoked,     \* loads whose record says so
    subsOf,      \* subsOf[x]: the load whose subscriptions the map holds
    onBus,       \* loads with live subscriptions
    tools,       \* tools[x]: toolsByExt, pairs of a name and a load
    byName,      \* byName[n]: toolsByName, an extension and a load
    triggers,    \* triggers[x]: loads whose triggers are registered
    running,     \* loads with a trigger whose start returned, and so has its stop
    failures,    \* failures[x]: length of the failure log
    op,          \* op[p]: what a caller is in the middle of
    loads,       \* loads made so far
    \* history
    overlap,     \* extensions two operations were in flight on at once
    botched      \* extensions whose last purge a stop() ended

hostVars == <<disk, row, loaded, crashed, current, revoked, subsOf, onBus, tools, byName, triggers,
              running, failures, op, loads, overlap, botched>>
regVars == <<current, revoked, subsOf, onBus, tools, byName, triggers, running, botched>>

(* list: what startTriggers goes through, as it found it.                   *)
Idle == [pc |-> "idle", ext |-> "none", load |-> 0, kind |-> "works", again |-> FALSE, list |-> {}]
Nobody == <<"none", 0>>
Busy(x) == {p \in Callers : op[p].pc # "idle" /\ op[p].ext = x}
Noted(x) == overlap' = IF Busy(x) # {} THEN overlap \cup {x} ELSE overlap

TypeOK ==
    /\ disk \in [Exts -> OnDisk]
    /\ row \in [Exts -> {"none", "active", "inactive", "crashed"}]
    /\ loaded \in [Exts -> 0..MaxLoads] /\ current \in [Exts -> 0..MaxLoads]
    /\ subsOf \in [Exts -> 0..MaxLoads] /\ loads \in 0..MaxLoads
    /\ crashed \subseteq LoadIds /\ revoked \subseteq LoadIds /\ onBus \subseteq LoadIds
    /\ running \subseteq LoadIds /\ overlap \subseteq Exts /\ botched \subseteq Exts
    /\ tools \in [Exts -> SUBSET (Names \X LoadIds)]
    /\ byName \in [Names -> (Exts \X LoadIds) \cup {Nobody}]
    /\ triggers \in [Exts -> SUBSET LoadIds] /\ failures \in [Exts -> 0..Threshold]
    /\ \A p \in Callers : op[p].pc \in {"idle", "staged", "registering", "starting", "purging",
                                        "hook", "rollback", "undoing"}

Init ==
    /\ disk \in [Exts -> Kinds] /\ row = [x \in Exts |-> "none"]
    /\ loaded = [x \in Exts |-> 0] /\ crashed = {}
    /\ current = [x \in Exts |-> 0] /\ revoked = {}
    /\ subsOf = [x \in Exts |-> 0] /\ onBus = {}
    /\ tools = [x \in Exts |-> {}] /\ byName = [n \in Names |-> Nobody]
    /\ triggers = [x \in Exts |-> {}] /\ running = {}
    /\ failures = [x \in Exts |-> 0]
    /\ op = [p \in Callers |-> Idle] /\ loads = 0 /\ overlap = {} /\ botched = {}

Goto(p, pc) == op' = [op EXCEPT ![p].pc = pc]

----------------------------------------------------------------------------
(* write_extension, and the checkout half of revert_extension.              *)
WriteExtension(x, kind) ==
    /\ kind # disk[x]
    /\ disk' = [disk EXCEPT ![x] = kind]
    /\ UNCHANGED <<row, loaded, crashed, regVars, failures, op, loads, overlap>>

(* load: refused when the map has the name; else staged, and the smoke gate *)
(* is awaited.                                                              *)
Load(p, x) ==
    /\ op[p].pc = "idle" /\ loaded[x] = 0
    /\ op' = [op EXCEPT ![p] = [Idle EXCEPT !.pc = "staged", !.ext = x, !.kind = disk[x]]]
    /\ Noted(x)
    /\ UNCHANGED <<disk, row, loaded, crashed, regVars, failures, loads>>

(* The gate failed, or a later staging has swept the staged copy away.      *)
SmokeFails(p) ==
    /\ op[p].pc = "staged" /\ (op[p].kind = "smokes" \/ Cardinality(Busy(op[p].ext)) > 1)
    /\ op' = [op EXCEPT ![p] = Idle]
    /\ UNCHANGED <<disk, row, loaded, crashed, regVars, failures, loads, overlap>>

(* A row, a revocation record and a list of subscriptions, each in the place *)
(* of what is there.                                                        *)
SmokePasses(p) ==
    LET x == op[p].ext  l == loads + 1
    IN  /\ op[p].pc = "staged" /\ op[p].kind # "smokes" /\ loads < MaxLoads
        /\ loads' = l
        /\ row' = [row EXCEPT ![x] = IF @ = "none" THEN "active" ELSE @]
        /\ current' = [current EXCEPT ![x] = l] /\ subsOf' = [subsOf EXCEPT ![x] = l]
        /\ op' = [op EXCEPT ![p].pc = "registering", ![p].load = l]
        /\ UNCHANGED <<disk, loaded, crashed, revoked, onBus, tools, byName, triggers, running,
                       failures, overlap, botched>>

\* Mutant: the last to register a name takes it.
RegisteredOver(x, l) ==
    LET free == ToolsOf[x]
    IN  /\ tools' = [tools EXCEPT ![x] = @ \cup (free \X {l})]
        /\ byName' = [n \in Names |-> IF n \in free THEN <<x, l>> ELSE byName[n]]

(* registerTool: the first to take a name keeps it.                         *)
Registered(x, l) ==
    LET free == {n \in ToolsOf[x] : byName[n] = Nobody}
    IN  /\ tools' = [tools EXCEPT ![x] = @ \cup (free \X {l})]
        /\ byName' = [n \in Names |-> IF n \in free THEN <<x, l>> ELSE byName[n]]

(* register(api): tools, subscriptions and triggers, all of them unless the *)
(* api was revoked meanwhile.  What it has done stays when it throws.       *)
Register(p) ==
    LET x == op[p].ext  l == op[p].load
    IN  /\ op[p].pc = "registering"
        /\ IF l \in revoked THEN UNCHANGED <<tools, byName, onBus, triggers>>
           ELSE /\ Registered(x, l)
                /\ onBus' = onBus \cup {l} /\ triggers' = [triggers EXCEPT ![x] = @ \cup {l}]
        /\ op' = IF op[p].kind = "throws" \/ l \in revoked
                 THEN [op EXCEPT ![p].pc = "rollback"]
                 ELSE [op EXCEPT ![p].pc = "starting", ![p].list = triggers'[x]]
        /\ UNCHANGED <<disk, row, loaded, crashed, current, revoked, subsOf, running, failures,
                       loads, overlap, botched>>

(* startTriggers has awaited every start of the list it took, which a purge *)
(* may have dropped meanwhile, and the load is complete.                    *)
StartTriggers(p) ==
    LET x == op[p].ext
    IN  /\ op[p].pc = "starting"
        /\ running' = running \cup op[p].list
        /\ loaded' = [loaded EXCEPT ![x] = op[p].load]
        /\ row' = [row EXCEPT ![x] = "active"]
        /\ op' = [op EXCEPT ![p] = Idle]
        /\ UNCHANGED <<disk, crashed, current, revoked, subsOf, onBus, tools, byName, triggers,
                       failures, loads, overlap, botched>>

(* A trigger fails to start; of those before it some have started.          *)
TriggerFails(p) ==
    /\ op[p].pc = "starting"
    /\ \E started \in SUBSET op[p].list : running' = running \cup started
    /\ op' = [op EXCEPT ![p].pc = "rollback", ![p].list = {}]
    /\ UNCHANGED <<disk, row, loaded, crashed, current, revoked, subsOf, onBus, tools, byName,
                   triggers, failures, loads, overlap, botched>>

(* purgeRegistry, up to its await: revoke, unsubscribe, and call each stop. *)
Revoke(x) ==
    /\ revoked' = revoked \cup ({current[x]} \ {0})
    /\ current' = [current EXCEPT ![x] = 0]
    /\ onBus' = onBus \ {subsOf[x]} /\ subsOf' = [subsOf EXCEPT ![x] = 0]

Stopped(x) == running' = running \ triggers[x] /\ UNCHANGED botched

(* A stop() that throws throws out of the purge: allSettled, for which the  *)
(* list is mapped, has not been reached.  The entries keep their stops.     *)
StopThrows(x) ==
    /\ running \cap triggers[x] # {}
    /\ UNCHANGED running
    /\ botched' = botched \cup {x}

(* ... and after: tools leave the index only if they still hold the name.   *)
Evict(x) ==
    /\ byName' = [n \in Names |->
           IF \E l \in LoadIds : <<n, l>> \in tools[x] /\ byName[n] = <<x, l>> THEN Nobody ELSE byName[n]]
    /\ tools' = [tools EXCEPT ![x] = {}] /\ triggers' = [triggers EXCEPT ![x] = {}]
    /\ botched' = botched \ {x}

\* Mutant: a failed load leaves its subscriptions where they are.
RollbackQuietly(p) ==
    LET x == op[p].ext
    IN  /\ op[p].pc = "rollback"
        /\ revoked' = revoked \cup ({current[x]} \ {0})
        /\ current' = [current EXCEPT ![x] = 0]
        /\ Stopped(x) /\ Goto(p, "undoing")
        /\ UNCHANGED <<disk, row, loaded, crashed, onBus, subsOf, tools, byName, triggers, failures,
                       loads, overlap>>

(* A failed load rolls back: it purges, which may fail like any purge, and  *)
(* then the load's row stays as it was.                                     *)
Rollback(p) ==
    LET x == op[p].ext
    IN  /\ op[p].pc = "rollback"
        /\ Revoke(x)
        /\ \/ Stopped(x) /\ Goto(p, "undoing")
           \/ StopThrows(x) /\ op' = [op EXCEPT ![p] = Idle]
        /\ UNCHANGED <<disk, row, loaded, crashed, tools, byName, triggers, failures, loads,
                       overlap>>

RolledBack(p) ==
    LET x == op[p].ext
    IN  /\ op[p].pc = "undoing"
        /\ Evict(x)
        /\ row' = [row EXCEPT ![x] = "inactive"]
        /\ op' = [op EXCEPT ![p] = Idle]
        /\ UNCHANGED <<disk, loaded, crashed, current, revoked, subsOf, onBus, running, failures,
                       loads, overlap>>

----------------------------------------------------------------------------
Purging(x, again) == [Idle EXCEPT !.pc = "purging", !.ext = x, !.load = loaded[x], !.again = again]

(* unload of the record the map holds; a reload loads afterwards.  When the *)
(* purge fails the record stays in the map, and a reload goes no further.   *)
BeginUnload(p, x, again) ==
    /\ op[p].pc = "idle" /\ loaded[x] # 0
    /\ Revoke(x) /\ Noted(x)
    /\ \/ Stopped(x) /\ op' = [op EXCEPT ![p] = Purging(x, again)]
       \/ StopThrows(x) /\ UNCHANGED op
    /\ UNCHANGED <<disk, row, loaded, crashed, tools, byName, triggers, failures, loads>>

(* The triggers have stopped; the extension's own unload hook is awaited.   *)
Purged(p) ==
    /\ op[p].pc = "purging"
    /\ Evict(op[p].ext)
    /\ Goto(p, "hook")
    /\ UNCHANGED <<disk, row, loaded, crashed, current, revoked, subsOf, onBus, running, failures,
                   loads, overlap>>

(* The hook returned or threw.  A reload goes on to load, which is refused  *)
(* when the map has the name again.                                         *)
Unloaded(p) ==
    LET x == op[p].ext
    IN  /\ op[p].pc = "hook"
        /\ loaded' = [loaded EXCEPT ![x] = 0]
        /\ row' = [row EXCEPT ![x] = IF op[p].load \in crashed THEN @ ELSE "inactive"]
        /\ op' = [op EXCEPT ![p] =
               IF op[p].again THEN [Idle EXCEPT !.pc = "staged", !.ext = x, !.kind = disk[x]] ELSE Idle]
        /\ UNCHANGED <<disk, crashed, regVars, failures, loads, overlap>>

(* reportFailure: at the threshold the record is crashed and an unload goes *)
(* off by itself, whatever is in flight.  When its purge fails nobody sees  *)
(* the rejection but the process's handler, which may report it again.      *)
ReportFailure(p, x) ==
    /\ loaded[x] # 0 /\ op[p].pc = "idle"
    /\ IF failures[x] + 1 < Threshold
       THEN /\ failures' = [failures EXCEPT ![x] = @ + 1]
            /\ UNCHANGED <<row, crashed, regVars, op, overlap>>
       ELSE /\ failures' = [failures EXCEPT ![x] = Threshold]
            /\ crashed' = crashed \cup {loaded[x]}
            /\ row' = [row EXCEPT ![x] = "crashed"]
            /\ Revoke(x) /\ Noted(x)
            /\ \/ Stopped(x) /\ op' = [op EXCEPT ![p] = Purging(x, FALSE)]
               \/ StopThrows(x) /\ UNCHANGED op
            /\ UNCHANGED <<tools, byName, triggers>>
    /\ UNCHANGED <<disk, loaded, loads>>

(* The oldest failure leaves the window.                                    *)
WindowPasses(x) ==
    /\ failures[x] > 0
    /\ failures' = [failures EXCEPT ![x] = @ - 1]
    /\ UNCHANGED <<disk, row, loaded, crashed, regVars, op, loads, overlap>>

Next ==
    \/ \E x \in Exts, kind \in Kinds : WriteExtension(x, kind)
    \/ \E x \in Exts : WindowPasses(x)
    \/ \E p \in Callers :
        \/ \E x \in Exts : Load(p, x)
        \/ SmokeFails(p)
        \/ SmokePasses(p)
        \/ Register(p)
        \/ StartTriggers(p)
        \/ TriggerFails(p)
        \/ Rollback(p)
        \/ RolledBack(p)
        \/ \E x \in Exts, again \in BOOLEAN : BeginUnload(p, x, again)
        \/ Purged(p)
        \/ Unloaded(p)
        \/ \E x \in Exts : ReportFailure(p, x)

Spec == Init /\ [][Next]_hostVars

----------------------------------------------------------------------------
(* The index of tool names and the lists of the extensions agree, whatever  *)
(* is in flight: "drift between the two is what wedged the LLM tool list"   *)
(* (extensions/runtime.ts:265-268).                                         *)
RegistriesAgree ==
    /\ \A n \in Names : byName[n] # Nobody => <<n, byName[n][2]>> \in tools[byName[n][1]]
    /\ \A x \in Exts : \A e \in tools[x] : byName[e[1]] = <<x, e[2]>>

(* Loading is transactional as long as no two operations on an extension    *)
(* overlap: between them, an extension that is not in the map has no tools, *)
(* no subscription and no trigger left and every api it ever had is revoked *)
(* (extensions/runtime.ts:599-611); one that is in the map has them all.    *)
(* A stop() that throws (568-570) leaves tools and triggers behind until    *)
(* the next purge, and a record in the map whose api is dead; even then     *)
(* the api and its subscriptions go together, and never outlive the record. *)
LoadIsTransactional ==
    \A x \in Exts \ overlap :
        Busy(x) = {} =>
            /\ current[x] = subsOf[x] /\ current[x] \in {0, loaded[x]}
            /\ x \notin botched =>
                IF loaded[x] = 0
                THEN tools[x] = {} /\ triggers[x] = {} /\ current[x] = 0
                ELSE /\ current[x] = loaded[x] /\ triggers[x] = {loaded[x]}
                     /\ loaded[x] \in (onBus \cap running) \ revoked
                     /\ \A n \in ToolsOf[x] : byName[n] # <<x, loaded[x]>> => byName[n][1] # x

(* An api throws once its extension is unloaded (extensions/runtime.ts:165  *)
(* "every stale reference throws"): what is not loaded or being loaded is   *)
(* revoked and deaf.                                                        *)
StaleApisThrow ==
    (\A p \in Callers : op[p].pc = "idle") =>
        \A l \in 1..loads : l \notin {loaded[x] : x \in Exts} => l \in revoked /\ l \notin onBus
=============================================================================
