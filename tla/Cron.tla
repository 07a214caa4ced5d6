-------------------------------- MODULE Cron --------------------------------
(***************************************************************************)
(* Standing jobs: rows that the schedule tools write (tools/schedule.ts)    *)
(* and the timers that follow them over the bus (schedule/cron.ts).  Time   *)
(* is in minutes.                                                           *)
(***************************************************************************)
EXTENDS Naturals, FiniteSetsExt

CONSTANTS
    Agents,
    MaxJobs,       \* MAX_JOBS_PER_AGENT
    Schedules,     \* schedules an agent asks for: sets of minutes
    Jobs,          \* job ids, used in order
    MaxTime, MaxTimers     \* bounds

CronAssumption ==
    /\ MaxJobs \in Nat /\ MaxTime \in Nat /\ MaxTimers \in Nat
    /\ Jobs \subseteq Nat /\ Schedules \subseteq SUBSET (0..MaxTime)

VARIABLES
    rows,      \* triggers of type "cron", by id
    used,      \* ids given out
    cronUp,    \* the scheduler of this daemon runs
    timers,    \* croner's live timers
    armed,     \* armed[j]: the timer the scheduler holds for a job, 0 for none
    made,      \* timers made so far
    minute,
    \* history
    fires      \* fires[<<j, m>>]: chat.inputs published by job j for minute m

cronVars == <<rows, used, cronUp, timers, armed, made, minute, fires>>

Minutes == 0..MaxTime
JobRows == [id : Jobs, agent : Agents, due : SUBSET Minutes, shared : BOOLEAN]
RowIds == {r.id : r \in rows}
Row(j) == CHOOSE r \in rows : r.id = j

TypeOK ==
    /\ rows \subseteq JobRows
    /\ used \subseteq Jobs /\ cronUp \in BOOLEAN /\ minute \in Minutes
    /\ timers \subseteq [id : 1..MaxTimers, job : Jobs, at : Minutes, shared : BOOLEAN]
    /\ armed \in [Jobs -> 0..MaxTimers] /\ made \in 0..MaxTimers
    /\ fires \in [Jobs \X Minutes -> 0..2]

Init ==
    /\ rows = {} /\ used = {} /\ cronUp = TRUE
    /\ timers = {} /\ armed = [j \in Jobs |-> 0] /\ made = 0
    /\ minute = 0 /\ fires = [x \in Jobs \X Minutes |-> 0]

(* croner's next run, strictly in the future.                               *)
Future(due) == {m \in due : m > minute}

Disarmed(ts, j) == {t \in ts : t.id # armed[j]}

\* Mutant: the timer that is replaced goes on.
ArmedBeside(j) ==
    LET r == Row(j)
    IN  /\ made < MaxTimers /\ made' = made + 1
        /\ timers' = timers \cup
               {[id |-> made + 1, job |-> j, at |-> m, shared |-> r.shared] :
                    m \in IF Future(r.due) = {} THEN {} ELSE {Min(Future(r.due))}}
        /\ armed' = [armed EXCEPT ![j] = made + 1]

(* arm: what was armed before is stopped first.                             *)
Arm(j) ==
    LET r == Row(j)
    IN  /\ made < MaxTimers /\ made' = made + 1
        /\ timers' = Disarmed(timers, j) \cup
               {[id |-> made + 1, job |-> j, at |-> m, shared |-> r.shared] :
                    m \in IF Future(r.due) = {} THEN {} ELSE {Min(Future(r.due))}}
        /\ armed' = [armed EXCEPT ![j] = made + 1]

(* schedule_task: a row, and the event the scheduler arms it on.            *)
ScheduleTask(a, due, shared) ==
    /\ cronUp /\ used # Jobs
    /\ Cardinality({r \in rows : r.agent = a}) < MaxJobs
    /\ LET j == Min(Jobs \ used)
       IN  /\ used' = used \cup {j}
           /\ rows' = rows \cup {[id |-> j, agent |-> a, due |-> due, shared |-> shared]}
           /\ made < MaxTimers /\ made' = made + 1
           /\ timers' = timers \cup
                  {[id |-> made + 1, job |-> j, at |-> m, shared |-> shared] :
                       m \in IF Future(due) = {} THEN {} ELSE {Min(Future(due))}}
           /\ armed' = [armed EXCEPT ![j] = made + 1]
    /\ UNCHANGED <<cronUp, minute, fires>>

(* The daemon dies after the row is written, before the event.              *)
ScheduleThenCrash(a, due, shared) ==
    /\ cronUp /\ used # Jobs
    /\ Cardinality({r \in rows : r.agent = a}) < MaxJobs
    /\ used' = used \cup {Min(Jobs \ used)}
    /\ rows' = rows \cup {[id |-> Min(Jobs \ used), agent |-> a, due |-> due, shared |-> shared]}
    /\ cronUp' = FALSE /\ timers' = {} /\ armed' = [j \in Jobs |-> 0]
    /\ UNCHANGED <<made, minute, fires>>

\* Mutant: the row goes and nothing is published.
CancelQuietly(a, j) ==
    /\ cronUp /\ j \in RowIds /\ Row(j).agent = a
    /\ rows' = {r \in rows : r.id # j}
    /\ UNCHANGED <<used, cronUp, timers, armed, made, minute, fires>>

(* schedule_cancel: of one's own jobs only.                                 *)
Cancel(a, j) ==
    /\ cronUp /\ j \in RowIds /\ Row(j).agent = a
    /\ rows' = {r \in rows : r.id # j}
    /\ timers' = Disarmed(timers, j)
    /\ armed' = [armed EXCEPT ![j] = 0]
    /\ UNCHANGED <<used, cronUp, made, minute, fires>>

(* schedule.armed is dispatched again: a row that is there is armed anew,   *)
(* one that has been cancelled is not.                                      *)
ArmedAgain(j) ==
    /\ cronUp /\ j \in used
    /\ IF j \in RowIds THEN Arm(j) ELSE UNCHANGED <<timers, armed, made>>
    /\ UNCHANGED <<rows, used, cronUp, minute, fires>>

(* fireJob, and croner computes the next run from the clock.                *)
Fire(t) ==
    /\ t \in timers /\ t.at <= minute
    /\ fires' = [fires EXCEPT ![<<t.job, t.at>>] = @ + 1]
    /\ LET later == Future(Row(t.job).due)
       IN  timers' = (timers \ {t}) \cup
                     {[t EXCEPT !.at = m] : m \in IF later = {} THEN {} ELSE {Min(later)}}
    /\ UNCHANGED <<rows, used, cronUp, armed, made, minute>>

(* close, or a crash.                                                       *)
CronStops ==
    /\ cronUp
    /\ cronUp' = FALSE /\ timers' = {} /\ armed' = [j \in Jobs |-> 0]
    /\ UNCHANGED <<rows, used, made, minute, fires>>

(* loadAndArm: every row, at its next future run.                           *)
LoadAndArm ==
    /\ ~cronUp /\ made + Cardinality(rows) <= MaxTimers
    /\ cronUp' = TRUE
    /\ made' = made + Cardinality(rows)
    /\ armed' = [j \in Jobs |->
           IF j \in RowIds THEN made + Cardinality({i \in RowIds : i <= j}) ELSE 0]
    /\ timers' = UNION {{[id |-> armed'[r.id], job |-> r.id, at |-> m, shared |-> r.shared] :
                            m \in IF Future(r.due) = {} THEN {} ELSE {Min(Future(r.due))}} : r \in rows}
    /\ UNCHANGED <<rows, used, minute, fires>>

NextMinute ==
    /\ minute < MaxTime
    /\ minute' = minute + 1
    /\ UNCHANGED <<rows, used, cronUp, timers, armed, made, fires>>

Next ==
    \/ \E a \in Agents, due \in Schedules, shared \in BOOLEAN : ScheduleTask(a, due, shared)
    \/ \E a \in Agents, due \in Schedules, shared \in BOOLEAN : ScheduleThenCrash(a, due, shared)
    \/ \E a \in Agents, j \in Jobs : Cancel(a, j)
    \/ \E j \in Jobs : ArmedAgain(j)
    \/ \E t \in timers : Fire(t)
    \/ CronStops
    \/ LoadAndArm
    \/ NextMinute

Spec == Init /\ [][Next]_cronVars

----------------------------------------------------------------------------
(* The timers follow the rows: while the scheduler runs, a job is held by   *)
(* at most one timer, only if its row is there, and every row with a run to *)
(* come has one; a job fires at most once for a minute, however often it is *)
(* armed again (schedule/cron.ts:109-117).                                  *)
TimersFollowRows ==
    /\ \A t \in timers :
           t.job \in RowIds /\ t.id = armed[t.job] /\ \A u \in timers : u.job = t.job => u = t
    /\ cronUp => \A r \in rows :
           armed[r.id] # 0 /\ (Future(r.due) # {} => \E t \in timers : t.job = r.id)
    /\ \A x \in DOMAIN fires : fires[x] <= 1
=============================================================================
