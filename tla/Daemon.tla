------------------------------- MODULE Daemon -------------------------------
(***************************************************************************)
(* The parts of the daemon that share no state, in one run: the slots of   *)
(* the scheduler, the standing jobs, how chat is brought up and torn down, *)
(* and the watchdog of failing turns.  One part runs in a behaviour, the   *)
(* others stay as they began; an invariant of a part is one of the whole.  *)
(***************************************************************************)
EXTENDS MCScheduler

CONSTANTS Agents, MaxJobs, Jobs, Schedules, MaxTime, MaxTimers,
          MaxSecretCalls, MaxModelCalls, MaxInputs, LoopMayFail,
          Threads, Threshold, WindowTicks, MaxStrikes

VARIABLES
    part,
    rows, used, cronUp, timers, armed, made, minute, fires,
    daemonPhase, brainsLeft, keysOnDisk, envKeys, defaultFile, chatLoop, delegated, router,
    bouncing, reasonKnown, cliAuthLost, resuming, brought, deadAir, calls,
    failures, proposed, pagesSince, strikes

MCSchedules == {{1, 2}, {1}}

Jobbing == INSTANCE Cron
Boot == INSTANCE Bringup
Health == INSTANCE ChatHealth

ASSUME PartsAssumption ==
    Jobbing!CronAssumption /\ Boot!BringupAssumption /\ Health!HealthAssumption

cronVars == <<rows, used, cronUp, timers, armed, made, minute, fires>>
bringupVars ==
    <<daemonPhase, brainsLeft, keysOnDisk, envKeys, defaultFile, chatLoop, delegated, router,
      bouncing, reasonKnown, cliAuthLost, resuming, brought, deadAir, calls>>
healthVars == <<failures, proposed, pagesSince, strikes>>
daemonVars == <<part, vars, cronVars, bringupVars, healthVars>>

DaemonInit ==
    /\ part \in {"scheduler", "cron", "bringup", "health"}
    /\ Init /\ Jobbing!Init /\ Boot!Init /\ Health!Init
    /\ part # "bringup" => keysOnDisk = {} /\ envKeys = {} /\ defaultFile = "claude"

SchedulerStep ==
    /\ part = "scheduler" /\ Next
    /\ UNCHANGED <<part, cronVars, bringupVars, healthVars>>

CronStep ==
    /\ part = "cron" /\ Jobbing!Next
    /\ UNCHANGED <<part, vars, bringupVars, healthVars>>

BringupStep ==
    /\ part = "bringup" /\ Boot!Next
    /\ UNCHANGED <<part, vars, cronVars, healthVars>>

HealthStep ==
    /\ part = "health" /\ Health!Next
    /\ UNCHANGED <<part, vars, cronVars, bringupVars>>

DaemonNext == SchedulerStep \/ CronStep \/ BringupStep \/ HealthStep

(* The fairness of the scheduler; in its initial state nothing of it is     *)
(* enabled, so that it asks nothing of the other parts.                     *)
DaemonSpec == DaemonInit /\ [][DaemonNext]_daemonVars /\ Fairness

----------------------------------------------------------------------------
(* The state of every part keeps its type; the count of a slot is what it   *)
(* runs and has reserved, no event waits behind free room or overtakes one  *)
(* that came before it, and a row says running only of a handler that runs, *)
(* or of one whose end or loss the store refused to write                   *)
(* (scheduler/scheduler.ts:189-307, 327-355).                               *)
SlotsAreKept ==
    /\ TypeOK /\ Jobbing!TypeOK /\ Boot!TypeOK /\ Health!TypeOK
    /\ SlotAccounting /\ WorkConserving /\ NoOvertaking /\ RunningRowsAreLive

(* Every event the scheduler accepted gets its outcome, and every row is    *)
(* settled when its run ends or by the boot after a crash, unless the store *)
(* refuses that update (scheduler.ts:189-204, 327-355).                     *)
EventsSettle == AcceptedEventsSettle /\ OrphansSettle

(* What the rows of the standing jobs say is what the timers do (Cron).     *)
TimersFollowRows == Jobbing!TimersFollowRows

(* Once the daemon is up an input finds the loop or the bouncer (Bringup).  *)
SomeoneAnswers == Boot!SomeoneAnswers

(* The router's model is the stored default whenever its key is there       *)
(* (Bringup).                                                               *)
DefaultIsHonoured == Boot!DefaultIsHonoured

(* One page per thread and outage (ChatHealth).                             *)
PagedOncePerOutage == Health!PagedOncePerOutage
=============================================================================
