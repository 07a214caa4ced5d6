--------------------------- MODULE DecisionMail ---------------------------
(***************************************************************************)
(* The decision inbox over time, and how answers come back to the agent    *)
(* that asked: rows with deadlines and a sweep (inbox/inbox.ts), the       *)
(* debounced wake of the mailbox thread, and the section of the prompt     *)
(* that shows each thread the resolutions after its own mark               *)
(* (agent/chat.ts).  One proposer; time is in milliseconds.                *)
(***************************************************************************)
EXTENDS Naturals, FiniteSetsExt

CONSTANTS Decisions,      \* ids, used in order
          Threads, Mailbox,  \* threads of the agent; Mailbox is mailbox:<id>
          Deadlines,      \* staleness windows of proposals, Never for none
          Never,
          MaxTime, MaxRestarts

MailAssumption ==
    /\ Mailbox \in Threads /\ MaxTime \in Nat
    /\ Deadlines \subseteq 0..MaxTime \cup {Never}

VARIABLES
    row,       \* decisions: status, deadline, when it was resolved
    unread,    \* decisions with messages (decision_messages) the human has not read
    running,   \* the proposer's loop
    turn,      \* turn[t]: what the running turn was shown and when
    hwm,       \* hwm[t]: mailHwm
    pending,   \* resolutions gathered for the next wake
    timer,     \* the debounce timer runs
    woken,     \* a wake waits in the mailbox thread
    now, restarts,
    \* history
    began,     \* when the loop started
    shown,     \* shown[t]: resolutions a completed turn of t was shown
    wokenFor,  \* resolutions a turn of the mailbox thread was shown
    missed     \* missed[t]: resolved in the millisecond of a rendering, after it

vars == <<row, unread, running, turn, hwm, pending, timer, woken, now, restarts,
          began, shown, wokenFor, missed>>
loopVars == <<running, turn, hwm, began, shown, wokenFor>>
wakeVars == <<pending, timer, woken>>

NoRow == [status |-> "none", deadline |-> Never, at |-> 0]
NoTurn == [on |-> FALSE, readAt |-> 0, fresh |-> {}]
Statuses == {"none", "open", "answered", "stale"}
Unused == {d \in Decisions : row[d].status = "none"}
Open == {d \in Decisions : row[d].status = "open"}
Settled == Decisions \ (Unused \cup Open)

(* listActionable: open, or answered and with replies not read. *)
Actionable == Open \cup unread

TypeOK ==
    /\ row \in [Decisions -> [status : Statuses, deadline : 0..2 * MaxTime \cup {Never},
                              at : 0..MaxTime]]
    /\ unread \subseteq Decisions \ Unused
    /\ turn \in [Threads -> [on : BOOLEAN, readAt : 0..MaxTime, fresh : SUBSET Decisions]]
    /\ hwm \in [Threads -> 0..MaxTime + 1]
    /\ pending \subseteq Decisions /\ timer \in BOOLEAN /\ woken \in BOOLEAN
    /\ running \in BOOLEAN /\ {now, began} \subseteq 0..MaxTime
    /\ shown \in [Threads -> SUBSET Decisions] /\ missed \in [Threads -> SUBSET Decisions]
    /\ wokenFor \subseteq Decisions

Fresh(t) == {d \in Settled : row[d].at >= hwm[t] /\ row[d].at <= now}

Init ==
    /\ row = [d \in Decisions |-> NoRow]
    /\ unread = {} /\ running = TRUE
    /\ turn = [t \in Threads |-> NoTurn]
    /\ hwm = [t \in Threads |-> 0]
    /\ pending = {} /\ timer = FALSE /\ woken = FALSE
    /\ now = 0 /\ restarts = 0
    /\ began = 0 /\ shown = [t \in Threads |-> {}] /\ wokenFor = {} /\ missed = [t \in Threads |-> {}]

----------------------------------------------------------------------------
(* The inbox *)

(* propose, from a turn of the agent: the deadline is counted from now. *)
Propose(window) ==
    /\ \E t \in Threads : turn[t].on
    /\ \E d \in Unused :
        /\ \A e \in Unused : d <= e
        /\ row' = [row EXCEPT ![d] =
               [status |-> "open",
                deadline |-> IF window = Never THEN Never ELSE now + window, at |-> 0]]
    /\ UNCHANGED <<unread, loopVars, wakeVars, now, restarts, missed>>

(* What hears decision.resolved: the wake of the loop that proposed.  Each  *)
(* one starts the timer over.                                               *)
Announce(S) ==
    /\ IF running THEN pending' = pending \cup S /\ timer' = TRUE
       ELSE UNCHANGED <<pending, timer>>
    /\ missed' = [t \in Threads |-> missed[t] \cup {d \in S : hwm[t] = now + 1}]

(* respond: refused unless the decision is open; approved, denied and     *)
(* modified are one status here.                                            *)
Respond(d) ==
    /\ d \in Open
    /\ row' = [row EXCEPT ![d].status = "answered", ![d].at = now]
    /\ Announce({d})
    /\ UNCHANGED <<unread, loopVars, woken, now, restarts>>

(* sweepStale: every open row past its deadline, then an event for each. *)
SweepStale ==
    LET late == {d \in Open : row[d].deadline # Never /\ row[d].deadline < now}
    IN  /\ late # {}
        /\ row' = [d \in Decisions |->
               IF d \in late THEN [row[d] EXCEPT !.status = "stale", !.at = now] ELSE row[d]]
        /\ Announce(late)
        /\ UNCHANGED <<unread, loopVars, woken, now, restarts>>

(* mail_reply, by the proposer in a turn. *)
Reply(d) ==
    /\ d \notin Unused /\ \E t \in Threads : turn[t].on
    /\ unread' = unread \cup {d}
    /\ UNCHANGED <<row, loopVars, wakeVars, now, restarts, missed>>

(* markDecisionRead, when the human looks at the decision. *)
MarkRead(d) ==
    /\ d \in unread
    /\ unread' = unread \ {d}
    /\ UNCHANGED <<row, loopVars, wakeVars, now, restarts, missed>>

----------------------------------------------------------------------------
(* The proposer *)

\* Mutant: no wake while the mailbox thread has a turn.
FlushMailWakeUnlessBusy ==
    /\ timer
    /\ timer' = FALSE /\ pending' = {} /\ woken' = (woken \/ ~turn[Mailbox].on)
    /\ UNCHANGED <<row, unread, loopVars, now, restarts, missed>>

(* flushMailWake: one input for the burst, on the mailbox thread. *)
FlushMailWake ==
    /\ timer
    /\ timer' = FALSE /\ pending' = {} /\ woken' = TRUE
    /\ UNCHANGED <<row, unread, loopVars, now, restarts, missed>>

(* A turn begins: the resolutions after the thread's mark are rendered. *)
BeginTurn(t) ==
    /\ running /\ ~turn[t].on
    /\ IF t = Mailbox THEN woken /\ woken' = FALSE /\ wokenFor' = wokenFor \cup Fresh(t)
       ELSE UNCHANGED <<woken, wokenFor>>
    /\ turn' = [turn EXCEPT ![t] = [on |-> TRUE, readAt |-> now, fresh |-> Fresh(t)]]
    /\ UNCHANGED <<row, unread, running, hwm, began, shown, pending, timer, now, restarts, missed>>

(* The turn returned: the mark goes past the millisecond of the rendering.  *)
EndTurn(t) ==
    LET u == turn[t]
        mark == IF u.fresh = {} THEN hwm[t] ELSE Max({hwm[t], u.readAt + 1})
    IN  /\ u.on
        /\ turn' = [turn EXCEPT ![t] = NoTurn]
        /\ hwm' = [hwm EXCEPT ![t] = mark]
        /\ shown' = [shown EXCEPT ![t] = @ \cup u.fresh]
        /\ missed' = [missed EXCEPT ![t] = @ \cup
               {d \in Settled \ u.fresh : row[d].at = u.readAt /\ u.readAt < mark /\ d \notin shown[t]}]
        /\ UNCHANGED <<row, unread, running, began, wokenFor, wakeVars, now, restarts>>

\* Mutant: a turn that failed has acknowledged what it was shown.
FailTurnMarks(t) ==
    /\ turn[t].on
    /\ turn' = [turn EXCEPT ![t] = NoTurn]
    /\ hwm' = [hwm EXCEPT ![t] = IF turn[t].fresh = {} THEN @ ELSE turn[t].readAt + 1]
    /\ UNCHANGED <<row, unread, running, began, shown, wokenFor, wakeVars, now, restarts, missed>>

(* The turn failed, was cancelled or met the budget wall: nothing is marked. *)
FailTurn(t) ==
    /\ turn[t].on
    /\ turn' = [turn EXCEPT ![t] = NoTurn]
    /\ UNCHANGED <<row, unread, running, hwm, began, shown, wokenFor, wakeVars, now, restarts, missed>>

(* AgentLoop.stop: deaf from now on; a running turn finishes. *)
Stop ==
    /\ running
    /\ running' = FALSE /\ timer' = FALSE
    /\ UNCHANGED <<row, unread, turn, hwm, began, shown, wokenFor, pending, woken, now, restarts, missed>>

(* The daemon restarts, which takes a millisecond: the rows stay, every     *)
(* mark is the start of the loop.                                           *)
Restart ==
    /\ restarts < MaxRestarts /\ now < MaxTime
    /\ restarts' = restarts + 1 /\ now' = now + 1
    /\ running' = TRUE /\ began' = now'
    /\ turn' = [t \in Threads |-> NoTurn] /\ hwm' = [t \in Threads |-> now']
    /\ pending' = {} /\ timer' = FALSE /\ woken' = FALSE
    /\ shown' = [t \in Threads |-> {}] /\ wokenFor' = {} /\ missed' = [t \in Threads |-> {}]
    /\ UNCHANGED <<row, unread>>

Tick ==
    /\ now < MaxTime
    /\ now' = now + 1
    /\ UNCHANGED <<row, unread, loopVars, wakeVars, restarts, missed>>

Next ==
    \/ \E window \in Deadlines : Propose(window)
    \/ \E d \in Decisions : Respond(d)
    \/ SweepStale
    \/ \E d \in Decisions : Reply(d)
    \/ \E d \in Decisions : MarkRead(d)
    \/ FlushMailWake
    \/ \E t \in Threads : BeginTurn(t)
    \/ \E t \in Threads : EndTurn(t)
    \/ \E t \in Threads : FailTurn(t)
    \/ Stop
    \/ Restart
    \/ Tick

Spec == Init /\ [][Next]_vars

----------------------------------------------------------------------------
(* A resolution since the loop started is never lost to a thread: it was    *)
(* shown there, or is ahead of the thread's mark, or it came in the very    *)
(* millisecond of a rendering, which the mark passes (agent/chat.ts:1178).  *)
(* Failed turns acknowledge nothing (agent/chat.ts:550-552).                *)
ResolutionsAreKept ==
    \A t \in Threads, d \in Settled :
        row[d].at >= began /\ running => d \in shown[t] \cup missed[t] \/ row[d].at >= hwm[t]

(* Nor is it shown again on a thread that has marked it as read. *)
ShownOnce == \A t \in Threads : turn[t].fresh \cap shown[t] = {}

(* An answer wakes its proposer: a turn of the mailbox thread was shown it, *)
(* or one is on its way: a wake waits there, or the timer that sends it     *)
(* runs (agent/chat.ts:337-366).  What came in the millisecond of an        *)
(* earlier rendering is not shown, and a loop that is stopped not woken.    *)
AnswersHaveAWake ==
    \A d \in Settled : row[d].at >= began /\ running =>
        \/ d \in wokenFor \cup missed[Mailbox]
        \/ woken
        \/ d \in pending /\ timer

(* Every resolution reaches every thread that goes on being used.  The mark *)
(* is there so "that rows we showed don't re-appear", and a resolution that *)
(* lands later "is still captured" (agent/chat.ts:1180-1184).               *)
NothingIsMissed == \A t \in Threads : missed[t] = {}
============================================================================
