------------------------------ MODULE CliTurn ------------------------------
(***************************************************************************)
(* Turns that a command-line harness (claude or codex) runs as the brain   *)
(* of a chat loop: the CLI branch of runTurn (src/agent/chat.ts), the two  *)
(* adapters and their process plumbing (src/llm/cli-brain/*.ts), the       *)
(* snapshots a restart reads back, and the tools the harness calls through *)
(* the bridge (src/mcp/*.ts).                                              *)
(*                                                                         *)
(* The harness keeps sessions of its own.  A turn either resumes one, with *)
(* nothing but the prompt, or opens one, with the transcript of the thread *)
(* in front.  A message is <<who, n>> for the n-th input; the empty answer *)
(* is left out of histories, as the transcript leaves it out.              *)
(***************************************************************************)
EXTENDS Naturals, Sequences

CONSTANTS
    CliThreads,     \* threads of the agent
    MaxCliInputs,   \* bound: inputs
    MaxSessions,    \* bound: sessions the harness opens
    MaxCliCrashes,  \* bound: restarts of the daemon
    MaxCalls        \* bound: calls of tools through the bridge

VARIABLES
    cliHistory,  \* thread -> its messages, in memory
    snapshot,    \* thread -> its messages, in the file
    cliSession,  \* thread -> the session it will resume, 0 if none
    harness,     \* session -> the messages the harness has in it, or Gone
    opened,      \* sessions opened so far
    cliTurn,     \* thread -> its running turn
    lingering,   \* threads whose killed process has not died yet
    stray,       \* threads that published text of a process they gave up
    tool,        \* thread -> the call of a tool that is executing, 0 if none
    audit,       \* [called, answered, refused]: sets of audited calls
    completed,   \* thread -> what its successful turns said, in order
    calls, cliInputs, cliCrashes   \* the bounded counters

cliVars == <<cliHistory, snapshot, cliSession, harness, opened, cliTurn, lingering,
             stray, tool, audit, completed, calls, cliInputs, cliCrashes>>

processVars == <<lingering, stray>>
toolVars == <<tool, audit, calls>>
boundVars == <<cliInputs, cliCrashes>>

CliAssumption == {MaxCliInputs, MaxSessions, MaxCliCrashes, MaxCalls} \subseteq Nat

SessionIds == 1..MaxSessions
Gone == <<<<"gone", 0>>>>
User(n) == <<"user", n>>
Reply(n) == <<"assistant", n>>
NoTurn == [phase |-> "idle", input |-> 0, context |-> <<>>, said |-> {}, reported |-> 0]

Init ==
    /\ cliHistory = [t \in CliThreads |-> <<>>]
    /\ snapshot = [t \in CliThreads |-> <<>>]
    /\ cliSession = [t \in CliThreads |-> 0]
    /\ harness = [s \in SessionIds |-> <<>>]
    /\ opened = 0
    /\ cliTurn = [t \in CliThreads |-> NoTurn]
    /\ lingering = {} /\ stray = {}
    /\ tool = [t \in CliThreads |-> 0]
    /\ audit = [called |-> {}, answered |-> {}, refused |-> {}]
    /\ completed = [t \in CliThreads |-> <<>>]
    /\ calls = 0 /\ cliInputs = 0 /\ cliCrashes = 0

\* Mutant: every turn after the first is taken to be resumed.
ContextNever(t) == IF cliSession[t] # 0 THEN harness[cliSession[t]] ELSE <<>>

\* What the model will see before the prompt: its session, or the transcript.
Context(t) == IF cliSession[t] # 0 THEN harness[cliSession[t]] ELSE cliHistory[t]

\* runTurn up to the call of the brain, which spawns the process.
StartTurn(t) ==
    /\ cliTurn[t] = NoTurn
    /\ cliInputs < MaxCliInputs
    /\ cliInputs' = cliInputs + 1
    /\ cliHistory' = [cliHistory EXCEPT ![t] = Append(@, User(cliInputs'))]
    /\ cliTurn' = [cliTurn EXCEPT ![t] =
         [phase |-> "running", input |-> cliInputs', context |-> Context(t),
          said |-> {}, reported |-> 0]]
    /\ UNCHANGED <<snapshot, cliSession, harness, opened, processVars, toolVars,
                   completed, cliCrashes>>

Says(t, line) == cliTurn' = [cliTurn EXCEPT ![t].said = @ \cup {line}]

\* The harness names its session: the one it resumed, or a new one with the
\* same content, and in it the prompt.
NamesSession(t, s) ==
    LET turn == cliTurn[t]
    IN /\ turn.phase = "running" /\ turn.said = {} /\ turn.context # Gone
       /\ \/ s = cliSession[t] /\ UNCHANGED opened
          \/ s = opened + 1 /\ opened' = s
       /\ harness' = [harness EXCEPT ![s] = Append(turn.context, User(turn.input))]
       /\ cliTurn' = [cliTurn EXCEPT ![t].said = {"init"}, ![t].reported = s]
       /\ UNCHANGED <<cliHistory, snapshot, cliSession, processVars, toolVars,
                      completed, boundVars>>

\* A line with text, which is published as a delta, or the line that closes
\* the turn and repeats the text; after either the session has the answer.
Answers(t, line) ==
    LET turn == cliTurn[t]
        s == turn.reported
    IN /\ turn.phase = "running" /\ turn.context # Gone
       /\ line \in {"text", "done"} \ turn.said /\ "done" \notin turn.said
       /\ harness' = IF s # 0 /\ turn.said \cap {"text"} = {}
                     THEN [harness EXCEPT ![s] = Append(@, Reply(turn.input))]
                     ELSE harness
       /\ Says(t, line)
       /\ UNCHANGED <<cliHistory, snapshot, cliSession, opened, processVars,
                      toolVars, completed, boundVars>>

\* The harness reports an error of its own.
ReportsError(t) ==
    /\ cliTurn[t].phase = "running" /\ "error" \notin cliTurn[t].said
    /\ Says(t, "error")
    /\ UNCHANGED <<cliHistory, snapshot, cliSession, harness, opened, processVars,
                   toolVars, completed, boundVars>>

\* A turn failed if an error was reported, or the process ended badly before
\* the closing line.
TurnFailed(said, code) == "error" \in said \/ ("done" \notin said /\ code # 0)

\* The process exits and all it wrote has been read: the turn succeeds.  The
\* answer, the session and the snapshot are one step.
Succeeds(t) ==
    LET turn == cliTurn[t]
        answer == IF turn.said \cap {"text", "done"} # {} THEN <<Reply(turn.input)>> ELSE <<>>
    IN /\ turn.phase = "running" /\ turn.context # Gone
       /\ \E code \in {0, 1} : ~TurnFailed(turn.said, code)
       /\ cliHistory' = [cliHistory EXCEPT ![t] = @ \o answer]
       /\ snapshot' = [snapshot EXCEPT ![t] = cliHistory'[t]]
       /\ cliSession' = [cliSession EXCEPT ![t] = turn.reported]
       /\ completed' = [completed EXCEPT ![t] = @ \o <<User(turn.input)>> \o answer]
       /\ cliTurn' = [cliTurn EXCEPT ![t] = NoTurn]
       /\ UNCHANGED <<harness, opened, processVars, toolVars, boundVars>>

\* classifyError matches words anywhere in what the harness wrote.
ErrorCodes == {"auth_required", "quota", "transient", "unknown"}

\* A session is given up unless the error says that the backend hiccuped.
SessionAfter(t, code) == IF code \in {"transient", "quota"} THEN cliSession[t] ELSE 0

\* The turn fails, or the binary is not there, or it could not be started.
Fails(t, code) ==
    LET turn == cliTurn[t]
    IN /\ turn.phase = "running"
       /\ \E exit \in {0, 1} : TurnFailed(turn.said, exit)
       /\ cliSession' = [cliSession EXCEPT ![t] = SessionAfter(t, code)]
       /\ snapshot' = [snapshot EXCEPT ![t] = cliHistory[t]]
       /\ cliTurn' = [cliTurn EXCEPT ![t] = NoTurn]
       /\ UNCHANGED <<cliHistory, harness, opened, processVars, toolVars, completed,
                      boundVars>>

\* The turn is cancelled: the process is sent a signal and the promise
\* rejected; the listener on its output stays.
Cancel(t) ==
    /\ cliTurn[t].phase = "running"
    /\ cliTurn' = [cliTurn EXCEPT ![t] = NoTurn]
    /\ lingering' = lingering \cup {t}
    /\ UNCHANGED <<cliHistory, snapshot, cliSession, harness, opened, stray, toolVars,
                   completed, boundVars>>

\* A killed process writes another line, or dies.
Lingers(t) ==
    /\ t \in lingering
    /\ \/ stray' = stray \cup {t} /\ UNCHANGED lingering
       \/ lingering' = lingering \ {t} /\ UNCHANGED stray
    /\ UNCHANGED <<cliHistory, snapshot, cliSession, harness, opened, cliTurn,
                   toolVars, completed, boundVars>>

\* The harness forgets a session (external).
Forgets(s) ==
    /\ s \in 1..opened /\ harness[s] # Gone
    /\ \A t \in CliThreads : s # cliTurn[t].reported
    /\ harness' = [harness EXCEPT ![s] = Gone]
    /\ UNCHANGED <<cliHistory, snapshot, cliSession, opened, cliTurn, processVars,
                   toolVars, completed, boundVars>>

\* Mutant: the audit of the call is written when it returns.
AuditedLate(t) == audit

\* The durable event that a call is about to be validated and executed.
Audited(t) == [audit EXCEPT !.called = @ \cup {calls'}]

\* tools/call through the bridge: the agent and the tool exist and the scope
\* allows it, which is read anew for each call, or the call is refused; a
\* call that is let in is audited first.  The bridge takes one line at a time.
McpCall(t, allowed) ==
    /\ cliTurn[t].phase = "running" \/ t \in lingering
    /\ tool[t] = 0 /\ calls < MaxCalls
    /\ calls' = calls + 1
    /\ IF allowed
       THEN /\ audit' = Audited(t)
            /\ tool' = [tool EXCEPT ![t] = calls']
       ELSE /\ audit' = [audit EXCEPT !.refused = @ \cup {calls'}]
            /\ UNCHANGED tool
    /\ UNCHANGED <<cliHistory, snapshot, cliSession, harness, opened, cliTurn,
                   processVars, completed, boundVars>>

\* The input is refused, or the tool returns or throws, whatever has become
\* of the turn: its signal does not reach tools called this way.
McpReturn(t) ==
    /\ tool[t] # 0
    /\ audit' = [audit EXCEPT !.answered = @ \cup {tool[t]}]
    /\ tool' = [tool EXCEPT ![t] = 0]
    /\ UNCHANGED <<cliHistory, snapshot, cliSession, harness, opened, cliTurn,
                   processVars, completed, calls, boundVars>>

\* The daemon dies and comes back: sessions were in memory, threads are read
\* from their snapshots.
Crash ==
    /\ cliCrashes < MaxCliCrashes
    /\ cliCrashes' = cliCrashes + 1
    /\ cliHistory' = snapshot
    /\ cliSession' = [t \in CliThreads |-> 0]
    /\ cliTurn' = [t \in CliThreads |-> NoTurn]
    /\ tool' = [t \in CliThreads |-> 0]
    /\ lingering' = {}
    /\ UNCHANGED <<snapshot, harness, opened, stray, audit, completed, calls, cliInputs>>

Next ==
    \/ \E t \in CliThreads :
         \/ StartTurn(t)
         \/ \E s \in SessionIds : NamesSession(t, s)
         \/ \E line \in {"text", "done"} : Answers(t, line)
         \/ ReportsError(t)
         \/ Succeeds(t)
         \/ \E code \in ErrorCodes : Fails(t, code)
         \/ Cancel(t) \/ Lingers(t)
         \/ \E allowed \in BOOLEAN : McpCall(t, allowed)
         \/ McpReturn(t)
    \/ \E s \in SessionIds : Forgets(s)
    \/ Crash

Spec == Init /\ [][Next]_cliVars

----------------------------------------------------------------------------
CliMessage == {"user", "assistant", "gone"} \X Nat

CliTurnState ==
    [phase : {"idle", "running"}, input : Nat, context : Seq(CliMessage),
     said : SUBSET {"init", "text", "done", "error"}, reported : 0..opened]

TypeOK ==
    /\ {cliHistory, snapshot, completed} \subseteq [CliThreads -> Seq(CliMessage)]
    /\ opened \in 0..MaxSessions /\ harness \in [SessionIds -> Seq(CliMessage)]
    /\ cliSession \in [CliThreads -> 0..opened]
    /\ cliTurn \in [CliThreads -> CliTurnState]
    /\ {lingering, stray} \subseteq SUBSET CliThreads
    /\ tool \in [CliThreads -> 0..calls]
    /\ audit \in [called : SUBSET (1..calls), answered : SUBSET (1..calls),
                  refused : SUBSET (1..calls)]
    /\ {calls, cliInputs, cliCrashes} \subseteq Nat

\* What xs says, ys says once and in the same order.
Within(xs, ys) ==
    /\ \A j \in DOMAIN xs : \E i \in DOMAIN ys : ys[i] = xs[j]
    /\ \A j \in DOMAIN xs, i \in DOMAIN ys : ys[i] = xs[j] =>
           \A k \in DOMAIN xs, l \in DOMAIN ys : ys[l] = xs[k] => (j < k <=> i < l)

\* Whether it resumes a session or opens one, after any failures, cancels
\* and restarts, a turn sees everything that the successful turns of its
\* thread said, once and in order (agent/chat.ts:555-705).
ContextIsWhole ==
    \A t \in CliThreads :
        cliTurn[t].phase = "running" /\ cliTurn[t].context # Gone
            => Within(completed[t], cliTurn[t].context)

\* A call of a tool has left its audit before it executes and leaves the
\* result once; a refused one never executes (mcp/dispatch.ts:136-280).
CallsAreAudited ==
    /\ audit.answered \subseteq audit.called
    /\ audit.called \cap audit.refused = {}
    /\ \A t \in CliThreads : tool[t] # 0 => tool[t] \in audit.called \ audit.answered

\* A session that the harness no longer has is dropped by the turn that
\* finds out, so that the next one does not retry it (agent/chat.ts:632-635).
DeadSessionsAreDropped ==
    [][\A t \in CliThreads :
         cliTurn[t].context = Gone /\ cliTurn'[t] = NoTurn /\ UNCHANGED lingering
            => cliSession'[t] = 0]_cliVars

\* The text of a turn is published while the turn runs.
NoStrayText == stray = {}
=============================================================================
