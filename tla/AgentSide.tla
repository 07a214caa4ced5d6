----------------------------- MODULE AgentSide -----------------------------
(***************************************************************************)
(* The agents of one host: the turns of a chat loop, on the API or through *)
(* a command-line harness, the scopes that turns are checked against and   *)
(* the asks that widen them, the decisions that come back by mail, and the *)
(* memories the agents share.  The parts share no state in the models; one *)
(* runs in a behaviour, the others stay as they began.                     *)
(***************************************************************************)
EXTENDS AgentLoop, TLC

CONSTANTS
    Tiers, Tools, TierOf, Unset,
    Human, Root, Children, NoOne, Delegable, SpawnScopes, Payloads, Asks,
    ProposeTool, RespondTool, plainTool, otherTool, bigTool,
    Decisions, Mailbox, MailThreads, Deadlines, Never, MaxTime, MaxRestarts,
    CliThreads, MaxCliInputs, MaxSessions, MaxCliCrashes, MaxCalls,
    MemoryTeams, MemoryRoles, MaxMemories, MaxEdits

VARIABLES
    part,
    parent, scope, looping, authorized, decision, granted,
    row, unread, running, turn, hwm, pending, timer, woken, now, restarts, began, shown,
    wokenFor, missed,
    cliHistory, snapshot, cliSession, harness, opened, cliTurn, lingering, stray, tool,
    audit, completed, calls, cliInputs, cliCrashes,
    memories, made, parentOf, alive, members, edits, given

MCTiers == {"operational", "strategic", "vision"}
MCTools == {plainTool, otherTool, bigTool}
MCTierOf == (plainTool :> "strategic") @@ (otherTool :> "strategic") @@ (bigTool :> "vision")
MCSpawnScopes ==
    {[tiers |-> Unset, allow |-> Unset, deny |-> {bigTool}],
     [tiers |-> {"operational"}, allow |-> {otherTool}, deny |-> {plainTool}],
     [tiers |-> {"operational", "strategic"}, allow |-> Unset, deny |-> {plainTool}]}
MCPayloads ==
    {[action |-> "other"], [action |-> "grant", for |-> Root, tool |-> bigTool, tier |-> "vision"]}
    \cup {[action |-> "grant", for |-> c, tool |-> bigTool, tier |-> "operational"] : c \in Children}
    \cup {[action |-> "grant", for |-> c, tool |-> plainTool, tier |-> "vision"] : c \in Children}

Authority == INSTANCE Delegation WITH
    Decisions <- Asks, running <- looping, turn <- authorized
Mail == INSTANCE DecisionMail WITH Threads <- MailThreads
Cli == INSTANCE CliTurn
Memory == INSTANCE MemoryTools WITH
    Elder <- Root, Heirs <- Children, Teams <- MemoryTeams, Roles <- MemoryRoles,
    NoAgent <- NoOne, NoRef <- NoOne

ASSUME PartsAssumption ==
       /\ Authority!DelegationAssumption /\ Mail!MailAssumption /\ Memory!MemoryAssumption
       /\ Cli!CliAssumption

authorityVars == <<parent, scope, looping, authorized, decision, granted>>
mailVars == <<row, unread, running, turn, hwm, pending, timer, woken, now, restarts,
              began, shown, wokenFor, missed>>
cliVars == <<cliHistory, snapshot, cliSession, harness, opened, cliTurn, lingering,
             stray, tool, audit, completed, calls, cliInputs, cliCrashes>>
memoryVars == <<memories, made, parentOf, alive, members, edits, given>>
agentVars == <<part, vars, authorityVars, mailVars, cliVars, memoryVars>>

AgentInit ==
    /\ part \in {"loop", "authority", "mail", "cli", "memory"}
    /\ Init /\ Authority!Init /\ Mail!Init /\ Cli!Init /\ Memory!Init

LoopStep ==
    /\ part = "loop" /\ Next
    /\ UNCHANGED <<part, authorityVars, mailVars, cliVars, memoryVars>>

AuthorityStep ==
    /\ part = "authority" /\ Authority!Next
    /\ UNCHANGED <<part, vars, mailVars, cliVars, memoryVars>>

MailStep ==
    /\ part = "mail" /\ Mail!Next
    /\ UNCHANGED <<part, vars, authorityVars, cliVars, memoryVars>>

CliStep ==
    /\ part = "cli" /\ Cli!Next
    /\ UNCHANGED <<part, vars, authorityVars, mailVars, memoryVars>>

MemoryStep ==
    /\ part = "memory" /\ Memory!Next
    /\ UNCHANGED <<part, vars, authorityVars, mailVars, cliVars>>

AgentNext == LoopStep \/ AuthorityStep \/ MailStep \/ CliStep \/ MemoryStep

(* The fairness of the loop; in its initial state none of it is enabled, so *)
(* that it asks nothing of the other parts.                                 *)
AgentSpec == AgentInit /\ [][AgentNext]_agentVars /\ \A t \in Thread : WF_vars(Progress(t))

----------------------------------------------------------------------------
(* What was billed is recorded or still counted by a turn, and the overrun  *)
(* of the budget is bounded by the turns that passed the wall together      *)
(* (agent/chat.ts:437-934).                                                 *)
SpendIsKept == TypeOK /\ Authority!TypeOK /\ Mail!TypeOK /\ SpendIsComplete /\ OverspendIsBounded

(* Completed fresh-job threads do not accumulate, and input that waits on a *)
(* thread that is kept has a worker (agent/chat.ts:324-422).                *)
ThreadsAreKept == RetentionIsBounded /\ WaitersHaveAWorker

(* What was granted is allowed at the tier the ask named, to the agent and   *)
(* to whoever approved it (Delegation).                                     *)
GrantedIsCallable == Authority!GrantedIsCallable

(* Nobody gains a tool but by a grant (Delegation).                         *)
NothingFromNowhere == Authority!NothingFromNowhere

(* What the loop tells the model is what happened: each input once and in   *)
(* order, each call of a tool followed by its result (agent/chat.ts:437-934,*)
(* agent/runtime.ts:133-280).                                               *)
HistoryIsSound == HeardOnceInOrder /\ ToolCallsAreAnswered

(* The answer to an ask is not lost to the thread that asked, is shown to   *)
(* it once, and is followed by a wake (DecisionMail).                       *)
AnswersArrive == Mail!ResolutionsAreKept /\ Mail!ShownOnce /\ Mail!AnswersHaveAWake

(* A turn of a command-line harness sees all its thread said, and calls of  *)
(* tools through the bridge leave their audit (CliTurn).                    *)
CliTurnsAreWhole == Cli!TypeOK /\ Cli!ContextIsWhole /\ Cli!CallsAreAudited

(* The ways to find a memory agree on who may see it, and a memory says for *)
(* good whose it is and where it was copied from (MemoryTools).             *)
MemoriesStayPrivate == Memory!TypeOK /\ Memory!FindersAgree /\ Memory!AttributionSurvives
============================================================================
