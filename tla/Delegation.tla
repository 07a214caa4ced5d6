---------------------------- MODULE Delegation ----------------------------
(***************************************************************************)
(* Delegated authority on one host: agents spawned under scopes, tool      *)
(* calls checked against the scope as it was when the turn began, asks     *)
(* that go up the chain of parents to the inbox of the human, and the      *)
(* executor that turns an answer into a wider scope (agent/manager.ts,     *)
(* agent/chat.ts, inbox/approval.ts, permissions/*.ts).                    *)
(***************************************************************************)
EXTENDS Permissions, Naturals, FiniteSetsExt

CONSTANTS Human, Root, Children,   \* the agents
          Delegable,               \* the tier an ask for a grant is made at
          SpawnScopes,             \* scopes a spawn may ask for
          Payloads,                \* payloads agents write, and voters that modify
          ProposeTool, RespondTool,\* mail_propose, mail_respond
          Decisions,               \* ids of decisions, used in order
          NoOne

Agents == {Human, Root} \cup Children
Workers == Agents \ {Human}
NoDecision == [status |-> "none"]
NoTurn == [snap |-> NoOne]

(* A payload is what its author wrote: it may name any agent, any tool and  *)
(* any tier beside it.                                                      *)
OtherAsk == [action |-> "other"]
Questions == {OtherAsk} \cup
    [action : {"grant"}, for : Agents, tool : Tools, tier : Tiers]
Grants == [agent : Agents, tool : Tools, tier : Tiers, by : {Human, Root}]

DelegationAssumption ==
    /\ PermissionsAssumption /\ NoOne \notin Agents /\ \A s \in Scope : s # NoOne
    /\ Human # Root /\ {Human, Root} \cap Children = {}
    /\ Delegable \in Tiers /\ SpawnScopes \subseteq Scope /\ Decisions \subseteq Nat
    /\ Payloads \subseteq Questions /\ {ProposeTool, RespondTool} \subseteq Tools

VARIABLES
    parent, scope,   \* rows of the agents table
    running,         \* agents with a loop
    turn,            \* the locals of the running turn of an agent
    decision,        \* rows of the decisions table
    granted          \* history: what was granted, and by whose authority

vars == <<parent, scope, running, turn, decision, granted>>

Exists(a) == scope[a] # NoOne
InTurn == {a \in Workers : turn[a] # NoTurn}
Unused == {d \in Decisions : decision[d].status = "none"}
Open == {d \in Decisions : decision[d].status = "open"}

TypeOK ==
    /\ parent \in [Agents -> Agents \cup {NoOne}]
    /\ scope \in [Agents -> Scope \cup {NoOne}]
    /\ running \subseteq Workers
    /\ turn \in [Workers -> {NoTurn} \cup [snap : Scope, asked : SUBSET Tools]]
    /\ decision \in [Decisions -> {NoDecision} \cup
           [status : {"open", "approved", "denied", "modified", "stale"}, by : Workers, ask : Questions]]
    /\ granted \subseteq Grants

(* ensureHumanAgent and ensureAiRootAgent. *)
Init ==
    /\ parent = [a \in Agents |-> IF a = Root THEN Human ELSE NoOne]
    /\ scope = [a \in Agents |-> IF a = Human THEN [Unrestricted EXCEPT !.tiers = Tiers]
                                 ELSE IF a = Root
                                 THEN [Unrestricted EXCEPT !.tiers = Tiers \ {"vision"}]
                                 ELSE NoOne]
    /\ running = {Root}
    /\ turn = [a \in Workers |-> NoTurn]
    /\ decision = [d \in Decisions |-> NoDecision]
    /\ granted = {}

----------------------------------------------------------------------------
(* Asking up *)

(* Whom an ask of a comes to: its parent, and whoever is the parent of one  *)
(* it comes to, except that nobody is above the owner of money.             *)
ClosedUpwards(S) == \A b \in S \ {Human} : parent[b] \in S \cup {NoOne}
Above(a) ==
    {b \in Agents : \A S \in SUBSET Agents : parent[a] \in S /\ ClosedUpwards(S) => b \in S}

(* Those of them that may answer for this tier. *)
Delegates(a, tier) ==
    {b \in Above(a) \ {Human} : scope[b].tiers # Unset /\ tier \in scope[b].tiers}

(* The nearest of some agents on one chain: the one that none is below. *)
Nearest(S) == CHOOSE b \in S : \A c \in S \ {b} : b \notin Above(c)

Granted(approver, ask) ==
    /\ scope' = [scope EXCEPT ![ask.for] = MergeGrant(@, ask.tool, ask.tier)]
    /\ granted' = granted \cup
           {[agent |-> ask.for, tool |-> ask.tool, tier |-> ask.tier, by |-> approver]}

\* Mutant: the executor trusts the approval and skips the gate.
ApplyGrantUngated(approver, ask) ==
    IF ask.action = "grant" /\ Exists(ask.for)
    THEN Granted(approver, ask)
    ELSE UNCHANGED <<scope, granted>>

(* applyGrant: agent, tool and tier are the payload's; gated by the         *)
(* approver's own scope, merged into the target's.                          *)
ApplyGrant(approver, ask) ==
    IF /\ ask.action = "grant"
       /\ MayGrant(scope[approver], ask.tool, ask.tier)
       /\ Exists(ask.for)
    THEN Granted(approver, ask)
    ELSE UNCHANGED <<scope, granted>>

(* askUp: the nearest ancestor whose listed tiers cover the ask approves it *)
(* on the spot, and the executor hears of it before askUp returns; without  *)
(* one the ask goes to the inbox of the human.                              *)
AskUp(a, tier, ask) ==
    IF Delegates(a, tier) # {}
    THEN ApplyGrant(Nearest(Delegates(a, tier)), ask) /\ UNCHANGED decision
    ELSE /\ Unused # {}
         /\ decision' = [decision EXCEPT ![Min(Unused)] = [status |-> "open", by |-> a, ask |-> ask]]
         /\ UNCHANGED <<scope, granted>>

----------------------------------------------------------------------------
(* Agents and their turns *)

(* manager.spawn: the tools are built once, for the root, so that the root  *)
(* is the parent whoever calls.                                             *)
Spawn(c, s) ==
    /\ ~Exists(c) /\ InTurn # {}
    /\ NarrowsScope(scope[Root], s)
    /\ parent' = [parent EXCEPT ![c] = Root]
    /\ scope' = [scope EXCEPT ![c] = s]
    /\ running' = running \cup {c}
    /\ UNCHANGED <<turn, decision, granted>>

(* manager.kill: no further turn begins; the row stays, a running turn too. *)
Kill(c) ==
    /\ c \in running /\ InTurn # {}
    /\ running' = running \ {c}
    /\ UNCHANGED <<parent, scope, turn, decision, granted>>

(* The scope of a turn is the row as it was when the turn began. *)
BeginTurn(a) ==
    /\ a \in running /\ turn[a] = NoTurn
    /\ turn' = [turn EXCEPT ![a] = [snap |-> scope[a], asked |-> {}]]
    /\ UNCHANGED <<parent, scope, running, decision, granted>>

(* authorize and onDenied: a call the scope of the turn does not allow is   *)
(* denied, and asked for once in the turn.                                  *)
DeniedCall(a, tool) ==
    /\ a \in InTurn
    /\ ~CheckTool(turn[a].snap, tool) /\ tool \notin turn[a].asked
    /\ turn' = [turn EXCEPT ![a].asked = @ \cup {tool}]
    /\ AskUp(a, Delegable,
             [action |-> "grant", for |-> a, tool |-> tool, tier |-> TierOf[tool]])
    /\ UNCHANGED <<parent, running>>

(* mail_propose: the payload goes up as it was written, at any tier. *)
MailPropose(a, tier, ask) ==
    /\ a \in InTurn /\ CheckTool(turn[a].snap, ProposeTool)
    /\ AskUp(a, tier, ask)
    /\ UNCHANGED <<parent, running, turn>>

EndTurn(a) ==
    /\ a \in InTurn
    /\ turn' = [turn EXCEPT ![a] = NoTurn]
    /\ UNCHANGED <<parent, scope, running, decision, granted>>

(* A decision is settled, and the executor hears of it.  Whoever voted, the *)
(* grant is gated by the scope of the decision's owner, the human.          *)
Settle(d, status, ask) ==
    /\ decision' = [decision EXCEPT ![d] = [@ EXCEPT !.status = status, !.ask = ask]]
    /\ IF status \in {"approved", "modified"} THEN ApplyGrant(Human, ask)
       ELSE UNCHANGED <<scope, granted>>
    /\ UNCHANGED <<parent, running, turn>>

(* respond: a vote to modify may put any payload in place of the ask. *)
Respond(d) ==
    \/ \E status \in {"approved", "denied"} : Settle(d, status, decision[d].ask)
    \/ \E ask \in {decision[d].ask} \cup Payloads : Settle(d, "modified", ask)

(* mail_respond: any agent whose turn may call it votes on any decision,    *)
(* its own included.                                                        *)
MailRespond(a, d) ==
    /\ a \in InTurn /\ CheckTool(turn[a].snap, RespondTool)
    /\ Respond(d)

SweepStale(d) == Settle(d, "stale", decision[d].ask)

(* The daemon restarts: rows stay, only the loop of the root starts again. *)
Restart ==
    /\ running # {Root} \/ InTurn # {}
    /\ running' = {Root}
    /\ turn' = [a \in Workers |-> NoTurn]
    /\ UNCHANGED <<parent, scope, decision, granted>>

Next ==
    \/ \E c \in Children : \E s \in SpawnScopes : Spawn(c, s)
    \/ \E c \in Children : Kill(c)
    \/ \E a \in Workers : BeginTurn(a)
    \/ \E a \in Workers, tool \in Tools : DeniedCall(a, tool)
    \/ \E a \in Workers, tier \in Tiers, ask \in Payloads : MailPropose(a, tier, ask)
    \/ \E a \in Workers : EndTurn(a)
    \/ \E d \in Open : Respond(d) \/ SweepStale(d)
    \/ \E a \in Workers, d \in Open : MailRespond(a, d)
    \/ Restart

Spec == Init /\ [][Next]_vars

----------------------------------------------------------------------------
(* What was granted is allowed in every later turn, at the tier the ask     *)
(* named: the executor exists so that an approved ask is not denied again   *)
(* (permissions/grant.ts:3-9).  An ask made for a denied call names the     *)
(* tool's own tier, so that the tool can then be called; one written by     *)
(* hand may name another.  And the agent by whose authority it was granted  *)
(* is allowed it too, for good.                                             *)
GrantedIsCallable ==
    \A g \in granted : \A a \in {g.agent, g.by} : Allows(scope[a], g.tool, g.tier)

(* An agent only gains a tool by a grant to it: tools of the granted tier   *)
(* (MergeGrant lifts the tier for all of them), all of which the approver   *)
(* could call; or the one granted tool, when the agent lacked only its name *)
(* and had its tier.                                                        *)
NothingFromNowhere ==
    [][\A a \in Workers : Exists(a) =>
          LET gained == Callable(scope'[a]) \ Callable(scope[a])
          IN  gained # {} => \E g \in granted' \ granted :
                  /\ g.agent = a
                  /\ \A x \in gained :
                        \/ TierOf[x] = g.tier /\ x \in Callable(scope[g.by])
                        \/ x = g.tool /\ Lists(scope[a].tiers, TierOf[x])]_vars
============================================================================
