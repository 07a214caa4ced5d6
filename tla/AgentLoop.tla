------------------------------ MODULE AgentLoop ------------------------------
(***************************************************************************)
(* The chat loop of one agent (src/src/agent/chat.ts, with runAgent of     *)
(* src/src/agent/runtime.ts): chat.input events queue on threads, one      *)
(* worker per thread takes them up turn by turn, a turn goes back and      *)
(* forth between the model and its tools, and what the user says meanwhile *)
(* is folded in.  Threads run concurrently and share the agent's budget.   *)
(*                                                                         *)
(* A step is what runs between two awaits.  Modelled is one process on the *)
(* API path; a thread that is not in the map is Fresh.  A round is a call  *)
(* of the model, at one unit of the budget, and at most one tool call.     *)
(***************************************************************************)
EXTENDS Integers, Sequences, FiniteSets, SequencesExt, FiniteSetsExt

CONSTANTS
    Thread,
    Disposable, \* fresh-job threads, of which a few completed ones are kept
    Retention,  \* freshJobThreadRetention
    N,          \* inputs 1 .. N arrive, in this order
    Extending,  \* those published with extendTurn
    MaxRounds,  \* maxTurns of runAgent
    Cap         \* the agent's budget, in rounds

ASSUME LoopAssumption ==
    /\ IsFiniteSet(Thread) /\ Disposable \subseteq Thread
    /\ {Retention, N} \subseteq Nat /\ {MaxRounds, Cap} \subseteq Nat \ {0}
    /\ Extending \subseteq 1 .. N

Input == 1 .. N

User(i) == [kind |-> "user", input |-> i]
Text == [kind |-> "text"]
ToolUse == [kind |-> "use"]
ToolResult == [kind |-> "result"]
Message == {User(i) : i \in Input} \cup {Text, ToolUse, ToolResult}

VARIABLES
    thread,   \* thread[t]: see ThreadState
    known,    \* the threads in the map
    retained, \* completedFreshJobThreads, oldest first
    spent,    \* what the ledger has put on the budget
    arrived,  \* inputs 1 .. arrived have been published
    billed,   \* history: rounds the provider has served
    taken,    \* history: inputs that were put before the model
    late      \* history: inputs that came after their worker's last look

vars == <<thread, known, retained, spent, arrived, billed, taken, late>>

ThreadState ==
    [pending : Seq(Input),  \* inputs that wait for a turn
     inFlight : Seq(Input), \* inputs that wait for the running turn
     worker : {"none", "draining", "ending"},
     \* The turn: "calling" the model, running a "tool", or runAgent has
     \* "returned" or "threw" and runTurn has not gone on yet.  activeAbort
     \* is set unless it is "idle".
     turn : {"idle", "calling", "tool", "returned", "threw"},
     rounds : 0 .. MaxRounds,
     aborted : BOOLEAN,
     messages : Seq(Message), \* the history, between turns
     copy : Seq(Message),     \* runAgent's own
     used : 0 .. MaxRounds]   \* turnUsage

Fresh ==
    [pending |-> <<>>, inFlight |-> <<>>, worker |-> "none", turn |-> "idle",
     rounds |-> 0, aborted |-> FALSE, messages |-> <<>>, copy |-> <<>>, used |-> 0]

TypeOK ==
    /\ thread \in [Thread -> ThreadState]
    /\ known \subseteq Thread
    /\ retained \in Seq(Disposable)
    /\ spent \in Nat /\ billed \in Nat
    /\ arrived \in 0 .. N
    /\ taken \subseteq Input /\ late \subseteq Input

Init ==
    /\ thread = [t \in Thread |-> Fresh]
    /\ known = {} /\ retained = <<>>
    /\ spent = 0 /\ billed = 0 /\ arrived = 0
    /\ taken = {} /\ late = {}

----------------------------------------------------------------------------
(* Helpers: from the state of one thread to its next *)

Users(s) == [k \in DOMAIN s |-> User(s[k])]

\* Mutant: the wall stands only once the budget is overdrawn.
WalledBeyond == spent > Cap

\* paidBudgetBlock
Walled == spent >= Cap

\* drain takes the oldest pending input, and runTurn runs up to its first
\* await: the model is called, unless the budget is used up.
Taken(th) ==
    LET said == [th EXCEPT !.pending = Tail(@),
                           !.messages = Append(@, User(Head(th.pending)))]
    IN  IF Walled THEN said
        ELSE [said EXCEPT !.turn = "calling", !.rounds = 1, !.aborted = FALSE,
                          !.copy = said.messages, !.used = 0]

\* Mutant: the limit on rounds is off by one.
NextRoundOneMore(th) ==
    IF th.rounds > MaxRounds THEN [th EXCEPT !.turn = "returned"]
    ELSE IF th.aborted THEN [th EXCEPT !.turn = "threw"]
    ELSE [th EXCEPT !.turn = "calling", !.rounds = @ + 1, !.inFlight = <<>>,
                    !.copy = @ \o Users(th.inFlight)]

\* Mutant: the mailbox is read without emptying it (slice for splice).
NextRoundReplaying(th) ==
    IF th.rounds = MaxRounds THEN [th EXCEPT !.turn = "returned"]
    ELSE IF th.aborted THEN [th EXCEPT !.turn = "threw"]
    ELSE [th EXCEPT !.turn = "calling", !.rounds = @ + 1,
                    !.copy = @ \o Users(th.inFlight)]

\* The next iteration of runAgent's loop, up to the call of the model; what the
\* user has said meanwhile is folded in.
NextRound(th) ==
    IF th.rounds = MaxRounds THEN [th EXCEPT !.turn = "returned"]
    ELSE IF th.aborted THEN [th EXCEPT !.turn = "threw"]
    ELSE [th EXCEPT !.turn = "calling", !.rounds = @ + 1, !.inFlight = <<>>,
                    !.copy = @ \o Users(th.inFlight)]

\* The model answers without a tool call: the turn is over unless the user
\* has spoken meanwhile.
Answered(th) ==
    LET said == [th EXCEPT !.used = @ + 1, !.copy = Append(@, Text)]
    IN  IF th.inFlight = <<>> THEN [said EXCEPT !.turn = "returned"]
        ELSE NextRound([said EXCEPT !.inFlight = <<>>,
                                    !.copy = @ \o Users(th.inFlight)])

\* Mutant: what the closing turn did not fold in stays where it is.
ClosedUnpromoted(th) ==
    [th EXCEPT !.turn = "idle", !.rounds = 0, !.aborted = FALSE, !.copy = <<>>,
               !.used = 0]

\* The finally block of runTurn.
Closed(th) ==
    [th EXCEPT !.turn = "idle", !.rounds = 0, !.aborted = FALSE, !.copy = <<>>,
               !.used = 0, !.inFlight = <<>>, !.pending = @ \o th.inFlight]

\* The inputs in the messages of th.
HeardBy(th) ==
    {m.input : m \in {x \in ToSet(th.messages) \cup ToSet(th.copy) : x.kind = "user"}}

\* Thread t moves to th.
Becomes(t, th) ==
    /\ thread' = [thread EXCEPT ![t] = th]
    /\ taken' = taken \cup HeardBy(th)

----------------------------------------------------------------------------
(* Actions *)

\* The chat.input handler, for a thread that may be new.
Arrive(t) ==
    LET i == arrived + 1
        th == thread[t]
    IN
    /\ i \in Input
    /\ arrived' = i
    /\ known' = known \cup {t}
    /\ \/ /\ i \in Extending /\ th.turn # "idle"
          /\ Becomes(t, [th EXCEPT !.inFlight = Append(@, i)])
          /\ UNCHANGED late
       \/ /\ ~(i \in Extending /\ th.turn # "idle")
          /\ LET queued == [th EXCEPT !.pending = Append(@, i)] IN
             IF th.worker = "none"
             THEN Becomes(t, Taken([queued EXCEPT !.worker = "draining"]))
             ELSE Becomes(t, queued)
          /\ late' = IF th.worker = "ending" THEN late \cup {i} ELSE late
    /\ UNCHANGED <<retained, spent, billed>>

\* The model's answer arrives: text, or a tool call.
Answer(t) ==
    /\ thread[t].turn = "calling"
    /\ Becomes(t, Answered(thread[t]))
    /\ billed' = billed + 1
    /\ UNCHANGED <<known, retained, spent, arrived, late>>

\* Mutant: input is folded in while the tool call is still open.
CallToolFolding(t) ==
    LET th == thread[t] IN
    /\ th.turn = "calling"
    /\ Becomes(t, [th EXCEPT !.turn = "tool", !.used = @ + 1, !.inFlight = <<>>,
                             !.copy = Append(@, ToolUse) \o Users(th.inFlight)])
    /\ billed' = billed + 1
    /\ UNCHANGED <<known, retained, spent, arrived, late>>

CallTool(t) ==
    /\ thread[t].turn = "calling"
    /\ Becomes(t, [thread[t] EXCEPT !.turn = "tool", !.used = @ + 1,
                                    !.copy = Append(@, ToolUse)])
    /\ billed' = billed + 1
    /\ UNCHANGED <<known, retained, spent, arrived, late>>

\* The call fails, or a cancelled one is torn down.
CallFails(t) ==
    /\ thread[t].turn = "calling"
    /\ Becomes(t, [thread[t] EXCEPT !.turn = "threw"])
    /\ UNCHANGED <<known, retained, spent, arrived, billed, late>>

\* The tool returns, throws, is unknown or is denied: it has a result.
ToolReturns(t) ==
    /\ thread[t].turn = "tool"
    /\ Becomes(t, NextRound([thread[t] EXCEPT !.copy = Append(@, ToolResult)]))
    /\ UNCHANGED <<known, retained, spent, arrived, billed, late>>

\* cancel(threadId)
Cancel(t) ==
    /\ thread[t].turn # "idle" /\ ~thread[t].aborted
    /\ Becomes(t, [thread[t] EXCEPT !.aborted = TRUE])
    /\ UNCHANGED <<known, retained, spent, arrived, billed, late>>

\* The rest of a turn that succeeded.
EndTurn(t) ==
    /\ thread[t].turn = "returned"
    /\ Becomes(t, Closed([thread[t] EXCEPT !.messages = thread[t].copy]))
    /\ spent' = spent + thread[t].used
    /\ UNCHANGED <<known, retained, arrived, billed, late>>

\* Mutant: only a turn that succeeds records what it has used.
FailTurnUnrecorded(t) ==
    /\ thread[t].turn = "threw"
    /\ Becomes(t, Closed(thread[t]))
    /\ UNCHANGED <<known, retained, spent, arrived, billed, late>>

\* The rest of a turn that failed or was cancelled.
FailTurn(t) ==
    /\ thread[t].turn = "threw"
    /\ Becomes(t, Closed(thread[t]))
    /\ spent' = spent + thread[t].used
    /\ UNCHANGED <<known, retained, arrived, billed, late>>

\* drain goes on after a turn: another input, or its promise resolves.
TakeNext(t) ==
    /\ thread[t].worker = "draining" /\ thread[t].turn = "idle"
    /\ thread[t].pending # <<>>
    /\ Becomes(t, Taken(thread[t]))
    /\ UNCHANGED <<known, retained, spent, arrived, billed, late>>

\* Mutant: a worker takes one input only (if for while).
DrainEndsEarly(t) ==
    /\ thread[t].worker = "draining" /\ thread[t].turn = "idle"
    /\ Becomes(t, [thread[t] EXCEPT !.worker = "ending"])
    /\ UNCHANGED <<known, retained, spent, arrived, billed, late>>

DrainEnds(t) ==
    /\ thread[t].worker = "draining" /\ thread[t].turn = "idle"
    /\ thread[t].pending = <<>>
    /\ Becomes(t, [thread[t] EXCEPT !.worker = "ending"])
    /\ UNCHANGED <<known, retained, spent, arrived, billed, late>>

\* Neither queued nor running work.
Evictable(th) == th.worker = "none" /\ th.pending = <<>> /\ th.turn = "idle"

\* The order of completion after t, of which the last Retention stay.
Completed(t) == Append(RemoveFirst(retained, t), t)

\* Mutant: one thread too many is kept.
KeptOneMore == Retention + 1

Kept == Retention

\* The finally callback of the worker, in later microtasks than DrainEnds:
\* worker = undefined and retainCompletedFreshJobThread.
WorkerEnds(t) ==
    LET freed == [thread EXCEPT ![t].worker = "none"]
        excess == IF Len(Completed(t)) > Kept THEN Len(Completed(t)) - Kept ELSE 0
        gone == {u \in ToSet(SubSeq(Completed(t), 1, excess)) : Evictable(freed[u])}
    IN
    /\ thread[t].worker = "ending"
    /\ IF t \in Disposable
       THEN /\ retained' = SubSeq(Completed(t), excess + 1, Len(Completed(t)))
            /\ known' = known \ gone
            /\ thread' = [u \in Thread |-> IF u \in gone THEN Fresh ELSE freed[u]]
       ELSE thread' = freed /\ UNCHANGED <<known, retained>>
    /\ UNCHANGED <<spent, arrived, billed, taken, late>>

Progress(t) ==
    \/ Answer(t) \/ CallTool(t) \/ CallFails(t) \/ ToolReturns(t)
    \/ EndTurn(t) \/ FailTurn(t)
    \/ TakeNext(t) \/ DrainEnds(t) \/ WorkerEnds(t)

Next == \E t \in Thread : Arrive(t) \/ Cancel(t) \/ Progress(t)

Spec == Init /\ [][Next]_vars

\* Calls of the model and of tools end, and the event loop goes on.
FairSpec == Spec /\ \A t \in Thread : WF_vars(Progress(t))

----------------------------------------------------------------------------
(* Properties *)

\* What thread t has heard, is hearing and is going to hear.
Heard(t) == IF thread[t].turn = "idle" THEN thread[t].messages ELSE thread[t].copy
Transcript(t) == Heard(t) \o Users(thread[t].pending)

Waiting(t) == ToSet(thread[t].pending) \cup ToSet(thread[t].inFlight)

\* "drains each thread's pending input in order" (src/src/agent/chat.ts:5): an
\* input that asks for a turn of its own is heard after those before it, and
\* none is doubled, however turns fail, fold in others and strand them.
InOrder(s) ==
    \A j, k \in DOMAIN s :
        j < k /\ s[j].kind = "user" /\ s[k].kind = "user"
              /\ s[j].input \notin Extending /\ s[k].input \notin Extending
        => s[j].input < s[k].input
Once(s) == \A j, k \in DOMAIN s : s[j] = s[k] /\ s[j].kind = "user" => j = k
HeardOnceInOrder ==
    \A t \in Thread :
        InOrder(Transcript(t)) /\ Once(Transcript(t) \o Users(thread[t].inFlight))

\* In the history, and in whatever the model is sent, a tool call is answered
\* by the next message, whether or not the turn failed or was cut off.
Answering(s) ==
    \A k \in DOMAIN s :
        /\ s[k] = ToolUse => k < Len(s) /\ s[k + 1] = ToolResult
        /\ s[k] = ToolResult => k > 1 /\ s[k - 1] = ToolUse
ToolCallsAreAnswered ==
    \A t \in Thread :
        /\ Answering(thread[t].messages)
        /\ thread[t].turn = "calling" => Answering(thread[t].copy)

\* Every round that was served is on the budget or on the way to it, also the
\* rounds of turns that failed or were cancelled.
Outstanding == {p \in Thread \X (1 .. MaxRounds) : p[2] <= thread[p[1]].used}
SpendIsComplete == spent + Cardinality(Outstanding) = billed

\* The wall holds for every turn that begins behind it: concurrent turns
\* overdraw the budget by no more than what each of them can use.
OverspendIsBounded == billed < Cap + Cardinality(Thread) * MaxRounds

\* Completed fresh-job threads do not accumulate.
RetentionIsBounded ==
    Cardinality({t \in known \cap Disposable : Evictable(thread[t])}) <= Retention

\* Unless it came after its worker's last look, an input waits only where a
\* worker will take it, and only the running turn has inputs in flight.
WaitersHaveAWorker ==
    \A t \in Thread :
        /\ thread[t].worker = "none" => Waiting(t) \subseteq late
        /\ thread[t].turn = "idle" => thread[t].inFlight = <<>>

\* Every other input is put before the model, or before the wall.
EveryInputIsTaken == \A i \in Input : (i <= arrived) ~> (i \in taken \cup late)

\* "drains each thread's pending input in order" (src/src/agent/chat.ts:5): a
\* thread has no worker only if it has nothing to drain.
NoWorkerNoInput == \A t \in Thread : thread[t].worker = "none" => Waiting(t) = {}

\* "the post-turn assignment captures whichever messages the model actually saw"
\* (src/src/agent/chat.ts:764-768): without eviction, what was put before the
\* model stays in the history.
FoldedInputsStay ==
    Disposable = {} =>
        \A i \in taken : \E t \in Thread : User(i) \in ToSet(Transcript(t))
=============================================================================
