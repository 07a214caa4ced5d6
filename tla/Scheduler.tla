----------------------------- MODULE Scheduler -----------------------------
(***************************************************************************)
(* The scheduler of one host (src/src/scheduler/scheduler.ts) for one      *)
(* task: the slot with its in-flight count and queue, the claim windows    *)
(* the host is waiting for, the handlers that run, and the task_runs and   *)
(* claims tables that survive the process.  Tasks share nothing else.      *)
(*                                                                         *)
(* A slot is an object: unregistering the task takes it out of the slot    *)
(* map, but handlers, windows and queued events that refer to it live on.  *)
(* Reloading an extension unregisters its task and registers it again, so  *)
(* a slot is identified by its generation.  Which claim window is won is   *)
(* the business of ClaimWindow; here either outcome may be reported.       *)
(***************************************************************************)
EXTENDS Integers, Sequences, FiniteSets

CONSTANTS
    N,           \* this many events match the task; they arrive as 1 .. N
    Team,        \* the team-scoped claimable ones; they go through a window
    Claimable,   \* the claimable ones without a team
    UnknownTeam, \* those of Team whose team has no row in this host's store
    Limit,       \* TaskDef.concurrency
    MaxGen       \* the task is registered at most this many times

ASSUME EventAssumption == N \in Nat
Event == 1 .. N

ASSUME TeamAssumption == /\ Team \subseteq Event /\ UnknownTeam \subseteq Team
                         /\ Claimable \subseteq Event \ Team
ASSUME LimitAssumption == Limit \in Nat \ {0}
ASSUME GenAssumption == MaxGen \in Nat \ {0}

Gen == 1 .. MaxGen

VARIABLES
    phase,      \* "up" or "down"
    gen,        \* the generation of the newest slot
    registered, \* is that slot in the slot map
    arrived,    \* events 1 .. arrived have been published
    inflight,   \* inflight[g]: the counter of slot g
    queue,      \* queue[g]: the events waiting in slot g
    live,       \* the handlers that are running: event and slot
    windows,    \* team events whose claim window is open
    runs,       \* runs[e]: status of e's task_runs row; durable
    claimRow,   \* claimRow[e]: status of e's claims row; durable
    done,       \* done[e]: outcomes published for e
    unended,    \* history: the row of e was to be ended, the update was refused
    leftover    \* history: a boot was to mark the row of e, and was refused

vars == <<phase, gen, registered, arrived, inflight, queue, live, windows, runs,
          claimRow, done, unended, leftover>>

TypeOK ==
    /\ phase \in {"up", "down"}
    /\ gen \in Gen
    /\ registered \in BOOLEAN
    /\ arrived \in 0 .. N
    /\ inflight \in [Gen -> Int]
    /\ queue \in [Gen -> Seq(Event)]
    /\ live \subseteq [event : Event, gen : Gen]
    /\ windows \subseteq Team
    /\ runs \in [Event -> {"none", "running", "succeeded", "failed", "lost"}]
    /\ claimRow \in [Event -> {"none", "winner", "failed"}]
    /\ done \in [Event -> SUBSET {"completed", "failed", "lost"}]
    /\ unended \subseteq Event /\ leftover \subseteq Event

Init ==
    /\ phase = "up"
    /\ gen = 1
    /\ registered = TRUE
    /\ arrived = 0
    /\ inflight = [g \in Gen |-> 0]
    /\ queue = [g \in Gen |-> <<>>]
    /\ live = {}
    /\ windows = {}
    /\ runs = [e \in Event |-> "none"]
    /\ claimRow = [e \in Event |-> "none"]
    /\ done = [e \in Event |-> {}]
    /\ unended = {} /\ leftover = {}

----------------------------------------------------------------------------
(* Helpers *)

Elements(s) == {s[i] : i \in DOMAIN s}

\* startRun for every event of S: the insert may fail, which is only logged.
RowsStarted(S) ==
    \E inserted \in SUBSET S :
        runs' = [e \in Event |-> IF e \in inserted THEN "running" ELSE runs[e]]

\* Mutant: the query selects the rows of every host but this one.
OrphansElsewhere == {}

\* The rows that say "running"; recoverLost selects them.
Orphans == {e \in Event : runs[e] = "running"}

\* Mutant: the row is not updated when the handler returns.
EndRunSkipped(e, status) == runs[e]

\* endRun: nothing to update if the row could not be inserted.
EndRun(e, status) == IF runs[e] = "running" THEN status ELSE runs[e]

\* recordClaim: (event, task) is the key of claims, so only a first row lands.
ClaimRecorded(e, status) ==
    IF e \in Claimable /\ claimRow[e] = "none" THEN status ELSE claimRow[e]

\* route(slot, e) for every e in S, beside what the caller does to live (base)
\* and windows (open): a team event opens a window, any other event runs.
Routed(g, S, base, open) ==
    /\ live' = base \cup {[event |-> e, gen |-> g] : e \in S \ Team}
    /\ windows' = open \cup (S \cap Team)

\* Mutant: overflow is put at the front of the queue.
EnqueuedFirst(g, e) == [queue EXCEPT ![g] = <<e>> \o @]

Enqueued(g, e) == [queue EXCEPT ![g] = Append(@, e)]

\* Mutant: a released slot does not drain its queue.
DrainedNone(g) == 0

\* releaseSlot and the drainQueue loop in it: the number of events it takes.
Drained(g) ==
    LET free == Limit - (inflight[g] - 1)
    IN  IF free <= 0 THEN 0 ELSE IF free < Len(queue[g]) THEN free ELSE Len(queue[g])

DrainedEvents(g) == {queue[g][i] : i \in 1 .. Drained(g)}

\* Mutant: the drain loop does not count the events it takes.
ReleasedUncounted(g, base, open) ==
    /\ inflight' = [inflight EXCEPT ![g] = @ - 1]
    /\ queue' = [queue EXCEPT ![g] = SubSeq(@, Drained(g) + 1, Len(@))]
    /\ Routed(g, DrainedEvents(g), base, open)

Released(g, base, open) ==
    /\ inflight' = [inflight EXCEPT ![g] = @ - 1 + Drained(g)]
    /\ queue' = [queue EXCEPT ![g] = SubSeq(@, Drained(g) + 1, Len(@))]
    /\ Routed(g, DrainedEvents(g), base, open)

----------------------------------------------------------------------------
(* Actions *)

\* A matching event is published: dispatch queues it if the slot is full.
Dispatch ==
    LET e == arrived + 1 IN
    /\ phase = "up" /\ registered
    /\ e \in Event
    /\ arrived' = e
    /\ \/ /\ inflight[gen] >= Limit
          /\ queue' = Enqueued(gen, e)
          /\ UNCHANGED <<inflight, live, windows, runs, claimRow>>
       \/ /\ inflight[gen] < Limit
          /\ inflight' = [inflight EXCEPT ![gen] = @ + 1]
          /\ Routed(gen, {e}, live, windows)
          /\ RowsStarted({e} \ Team)
          /\ claimRow' = [claimRow EXCEPT ![e] = ClaimRecorded(e, "winner")]
          /\ UNCHANGED queue
    /\ UNCHANGED <<phase, gen, registered, done, unended, leftover>>

\* The handler of r.event returns or throws: endRun, the done-event, then
\* releaseSlot on the slot object it was started for.  The store may refuse
\* endRun's update, which is only logged: the outcome is published all the same.
Finish(r, status, outcome) ==
    LET e == r.event
        next == DrainedEvents(r.gen) \ Team
    IN
    /\ r \in live
    /\ \E inserted \in SUBSET next, refused \in SUBSET ({e} \cap Orphans) :
         /\ runs' = [f \in Event |-> IF f \in inserted THEN "running"
                                     ELSE IF f = e /\ e \notin refused
                                          THEN EndRun(e, status)
                                     ELSE runs[f]]
         /\ unended' = unended \cup refused
    /\ claimRow' = [f \in Event |->
                      IF f \in next THEN ClaimRecorded(f, "winner")
                      ELSE IF f = e /\ status = "failed" THEN ClaimRecorded(e, "failed")
                      ELSE claimRow[f]]
    /\ done' = [done EXCEPT ![e] = @ \cup {outcome}]
    /\ Released(r.gen, live \ {r}, windows)
    /\ UNCHANGED <<phase, gen, registered, arrived, leftover>>

\* Mutant: the name of the event ends up in the status column.
SucceedAsCompleted(r) == Finish(r, "completed", "completed")

Succeed(r) == Finish(r, "succeeded", "completed")

Fail(r) == Finish(r, "failed", "failed")

\* onWin: the task id is looked up in the slot map, and runTask is entered
\* with the slot found there; the in-flight count is not touched.
WindowWon(e) ==
    /\ e \in windows \ UnknownTeam
    /\ windows' = windows \ {e}
    /\ \/ /\ registered
          /\ live' = live \cup {[event |-> e, gen |-> gen]}
          /\ RowsStarted({e})
       \/ ~registered /\ UNCHANGED <<live, runs>>
    /\ UNCHANGED <<phase, gen, registered, arrived, inflight, queue, claimRow, done,
                   unended, leftover>>

\* onLose: the slot found in the map is released.
WindowLost(e) ==
    LET next == DrainedEvents(gen) \ Team IN
    /\ e \in windows \ UnknownTeam
    /\ \/ /\ registered
          /\ Released(gen, live, windows \ {e})
          /\ RowsStarted(next)
          /\ claimRow' = [f \in Event |->
                            IF f \in next THEN ClaimRecorded(f, "winner")
                            ELSE claimRow[f]]
       \/ /\ ~registered
          /\ windows' = windows \ {e}
          /\ UNCHANGED <<inflight, queue, live, runs, claimRow>>
    /\ UNCHANGED <<phase, gen, registered, arrived, done, unended, leftover>>

\* decideWindow without any row: the intent insert failed on the foreign key
\* to teams, and neither onWin nor onLose is called.
WindowVoid(e) ==
    /\ e \in windows \cap UnknownTeam
    /\ windows' = windows \ {e}
    /\ UNCHANGED <<phase, gen, registered, arrived, inflight, queue, live, runs,
                   claimRow, done, unended, leftover>>

\* The function register() returned: the slot leaves the map, nothing waits.
Unregister ==
    /\ phase = "up" /\ registered
    /\ gen < MaxGen
    /\ registered' = FALSE
    /\ UNCHANGED <<phase, gen, arrived, inflight, queue, live, windows, runs,
                   claimRow, done, unended, leftover>>

\* register(): a fresh slot under the same task id.
Register ==
    /\ phase = "up" /\ ~registered
    /\ gen < MaxGen
    /\ gen' = gen + 1
    /\ registered' = TRUE
    /\ UNCHANGED <<phase, arrived, inflight, queue, live, windows, runs, claimRow,
                   done, unended, leftover>>

\* The process ends, by close() or by a crash: the slots, the windows and the
\* handlers are gone, the tables stay.
Crash ==
    /\ phase = "up"
    /\ gen < MaxGen
    /\ phase' = "down"
    /\ registered' = FALSE
    /\ inflight' = [g \in Gen |-> 0]
    /\ queue' = [g \in Gen |-> <<>>]
    /\ live' = {}
    /\ windows' = {}
    /\ UNCHANGED <<gen, arrived, runs, claimRow, done, unended, leftover>>

\* recoverLost at daemon startup, before extensions register their tasks again
\* (and before anybody subscribes to the events it publishes).  It catches
\* whatever fails: the update, and then nothing is marked; or a publish, and
\* then the orphans after that one are marked and never announced.
RecoverLost ==
    /\ phase = "down"
    /\ phase' = "up"
    /\ \/ /\ leftover' = leftover \cup Orphans
          /\ UNCHANGED <<runs, done>>
       \/ \E announced \in SUBSET Orphans :
            /\ runs' = [e \in Event |-> IF e \in Orphans THEN "lost" ELSE runs[e]]
            /\ done' = [e \in Event |-> IF e \in announced THEN done[e] \cup {"lost"}
                                        ELSE done[e]]
            /\ UNCHANGED leftover
    /\ UNCHANGED <<gen, registered, arrived, inflight, queue, live, windows,
                   claimRow, unended>>

CloseWindow(e) == WindowWon(e) \/ WindowLost(e) \/ WindowVoid(e)

Next ==
    \/ Dispatch
    \/ \E r \in live : Succeed(r) \/ Fail(r)
    \/ \E e \in windows : CloseWindow(e)
    \/ Unregister \/ Register
    \/ Crash \/ RecoverLost

Spec == Init /\ [][Next]_vars

\* Handlers return, timers fire, and a daemon that went down boots.  A daemon
\* need not crash and a task need not be reloaded.
Fairness ==
    /\ \A e \in Event, g \in Gen :
          WF_vars(LET r == [event |-> e, gen |-> g] IN Succeed(r) \/ Fail(r))
    /\ \A e \in Event : WF_vars(CloseWindow(e))
    /\ WF_vars(RecoverLost)

FairSpec == Spec /\ Fairness

----------------------------------------------------------------------------
(* Properties *)

Running(g) == {r \in live : r.gen = g}

\* The places taken by windows that closed without a verdict.
Leaked == {e \in UnknownTeam : /\ e <= arrived
                               /\ e \notin windows \cup Elements(queue[1])}

\* While the task is not reloaded, the in-flight count is the number of handlers
\* and open windows, and of windows of an unknown team, whose places are never
\* given back; and it stays within the cap.
SlotAccounting ==
    phase = "up" /\ registered /\ gen = 1 =>
        /\ inflight[1] = Cardinality(live) + Cardinality(windows) + Cardinality(Leaked)
        /\ inflight[1] <= Limit

\* Events wait only while the slot is full: none is stranded behind free room.
WorkConserving ==
    registered /\ queue[gen] # <<>> => inflight[gen] = Limit

\* Events of a slot leave its queue in the order they arrived: whatever was
\* taken up arrived before whatever still waits.
NoOvertaking ==
    \A e \in windows \cup {r.event : r \in Running(gen)} :
        \A f \in Elements(queue[gen]) : e < f

\* A row says "running" only while its handler runs, or until the next boot;
\* unless the store refused to end it, or refused that boot.
RunningRowsAreLive ==
    phase # "down" =>
        \A e \in Orphans \ (unended \cup leftover) : \E r \in live : r.event = e

\* An execution completes or fails, never both.  It has one verdict, in the
\* table and on the bus alike, and a run that ended is never reported lost by
\* a later boot; unless the store refused to end its row.  Such a run may well
\* be announced twice: completed when it ends, and lost by the next boot.
OneVerdict ==
    \A e \in Event :
        /\ ~({"completed", "failed"} \subseteq done[e])
        /\ "lost" \in done[e] => runs[e] = "lost"
        /\ runs[e] = "succeeded" => done[e] = {"completed"}
        /\ runs[e] = "failed" => done[e] = {"failed"}
        /\ e \in unended \/ runs[e] # "lost" \/ done[e] \subseteq {"lost"}
        /\ e \in unended \/ runs[e] # "running" \/ done[e] = {}

\* Unless the task is reloaded or the daemon goes down (or the whole cap has
\* leaked, which the runs exclude), every event the slot accepts is executed to
\* a verdict or its window closes, even if its task_runs row was not written.
AcceptedEventsSettle ==
    \A e \in Event : (e <= arrived) ~>
        \/ gen > 1 \/ ~registered
        \/ (e \in Team \/ done[e] # {}) /\ e \notin windows /\ e \notin Elements(queue[1])

\* A run ends, or the next boot settles it if its process died first; unless
\* the store refused to end its row, or refused that boot.
OrphansSettle ==
    \A e \in Event : runs[e] = "running" ~>
        runs[e] # "running" \/ e \in unended \cup leftover

\* "Max parallel executions of this task. Defaults to 1."
\* (src/src/scheduler/scheduler.ts:45): no slot runs more handlers than that.
CapPerSlot == \A g \in Gen : Cardinality(Running(g)) <= Limit
=============================================================================
