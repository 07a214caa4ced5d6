--------------------------- MODULE DiscordBridge ---------------------------
(***************************************************************************)
(* The discord-communication starter                                       *)
(* (starters/templates/discord-communication.ts): what the bus says of the *)
(* turns of several threads is put together into one message per turn, on   *)
(* the route a message came in by or the one the thread's name tells.      *)
(***************************************************************************)
EXTENDS Naturals, SequencesExt

CONSTANTS BridgeThreads,  \* threads named discord:<channel>:...
          JobThreads,     \* ... those of standing jobs: no message comes in
          BridgeTurns,    \* bound: turns, over all threads
          BridgePieces    \* bound: texts in a turn

BridgeAssumption == JobThreads \subseteq BridgeThreads /\ BridgeTurns \in Nat

TurnIds == 1..BridgeTurns
NoRoute == [kind |-> "none", origin |-> 0]

VARIABLES
    routeOf,      \* routes and derivedRoutes; origin is the message to reply to
    accumulator,  \* accumulators: the texts by the turn that said them
    actorOf,      \* turnActors: the agent of the last text, by its turn
    explicitIn,   \* turnExplicitSend
    sends,        \* discord_send calls under way
    running,      \* running[t]: the turn of the thread, 0 for none
    begun,        \* turns so far
    inbound,      \* messages that came in so far
    \* history
    said,         \* said[n]: texts of turn n
    outcome       \* outcome[n]: what became of turn n

bridgeVars == <<routeOf, accumulator, actorOf, explicitIn, sends, running, begun, inbound, said,
                outcome>>

Routes == [kind : {"none", "stored", "derived"}, origin : 0..BridgeTurns]
BridgeSends ==
    [turn : TurnIds, thread : BridgeThreads, text : Seq(TurnIds), replyTo : 0..BridgeTurns,
     as : 0..BridgeTurns]
Outcomes == {"none", "due", "succeeded", "failed", "explicit", "dropped"}

TypeOK ==
    /\ routeOf \in [BridgeThreads -> Routes]
    /\ accumulator \in [BridgeThreads -> Seq(TurnIds)]
    /\ actorOf \in [BridgeThreads -> 0..BridgeTurns]
    /\ explicitIn \subseteq BridgeThreads /\ sends \subseteq BridgeSends
    /\ running \in [BridgeThreads -> 0..BridgeTurns]
    /\ begun \in 0..BridgeTurns /\ inbound \in 0..BridgeTurns
    /\ said \in [TurnIds -> Nat] /\ outcome \in [TurnIds -> Outcomes]

Init ==
    /\ routeOf = [t \in BridgeThreads |-> NoRoute]
    /\ accumulator = [t \in BridgeThreads |-> <<>>]
    /\ actorOf = [t \in BridgeThreads |-> 0]
    /\ explicitIn = {} /\ sends = {} /\ begun = 0 /\ inbound = 0
    /\ running = [t \in BridgeThreads |-> 0]
    /\ said = [n \in TurnIds |-> 0] /\ outcome = [n \in TurnIds |-> "none"]

GetOrDerive(t) ==
    routeOf' = IF routeOf[t].kind # "none" THEN routeOf
               ELSE [routeOf EXCEPT ![t] = [kind |-> "derived", origin |-> 0]]
EvictDerived(t) == IF routeOf[t].kind = "derived" THEN [routeOf EXCEPT ![t] = NoRoute] ELSE routeOf

(* A message that is to be answered; its input folds into a turn that runs. *)
ChannelMessage(t) ==
    /\ t \notin JobThreads /\ inbound < BridgeTurns
    /\ inbound' = inbound + 1
    /\ routeOf' = [routeOf EXCEPT ![t] = [kind |-> "stored", origin |-> inbound + 1]]
    /\ UNCHANGED <<accumulator, actorOf, explicitIn, sends, running, begun, said, outcome>>

(* The agent takes the thread up. *)
TurnBegins(t) ==
    /\ running[t] = 0 /\ begun < BridgeTurns
    /\ t \in JobThreads \/ routeOf[t].kind = "stored"
    /\ begun' = begun + 1 /\ running' = [running EXCEPT ![t] = begun + 1]
    /\ UNCHANGED <<routeOf, accumulator, actorOf, explicitIn, sends, inbound, said, outcome>>

AssistantText(t) ==
    LET n == running[t]
    IN  /\ n # 0 /\ said[n] < BridgePieces
        /\ GetOrDerive(t)
        /\ accumulator' = [accumulator EXCEPT ![t] = Append(@, n)]
        /\ actorOf' = [actorOf EXCEPT ![t] = n]
        /\ said' = [said EXCEPT ![n] = @ + 1]
        /\ UNCHANGED <<explicitIn, sends, running, begun, inbound, outcome>>

(* discord_send to the very route of the thread. *)
ExplicitSend(t) ==
    /\ running[t] # 0
    /\ GetOrDerive(t)
    /\ explicitIn' = explicitIn \cup {t}
    /\ UNCHANGED <<accumulator, actorOf, sends, running, begun, inbound, said, outcome>>

(* turn-end up to its wait for the send. *)
TurnEnd(t) ==
    LET n == running[t]
        sending == accumulator[t] # <<>> /\ t \notin explicitIn
        route == IF routeOf[t].kind = "none" THEN [kind |-> "derived", origin |-> 0] ELSE routeOf[t]
    IN  /\ n # 0
        /\ running' = [running EXCEPT ![t] = 0]
        /\ accumulator' = [accumulator EXCEPT ![t] = <<>>]
        /\ actorOf' = [actorOf EXCEPT ![t] = 0]
        /\ explicitIn' = explicitIn \ {t}
        /\ IF sending
           THEN /\ sends' = sends \cup {[turn |-> n, thread |-> t, text |-> accumulator[t],
                                         replyTo |-> route.origin, as |-> actorOf[t]]}
                /\ routeOf' = [routeOf EXCEPT ![t] = route]
           ELSE UNCHANGED sends /\ routeOf' = EvictDerived(t)
        /\ outcome' = [outcome EXCEPT ![n] = IF sending THEN "due"
                                             ELSE IF t \in explicitIn THEN "explicit" ELSE "dropped"]
        /\ UNCHANGED <<begun, inbound, said>>

(* The send came back: an audit event, and a derived route goes, whosever   *)
(* turn it serves by now.                                                   *)
SendReturns(c, ok) ==
    /\ c \in sends
    /\ sends' = sends \ {c}
    /\ outcome' = [outcome EXCEPT ![c.turn] = IF ok THEN "succeeded" ELSE "failed"]
    /\ routeOf' = EvictDerived(c.thread)
    /\ UNCHANGED <<accumulator, actorOf, explicitIn, running, begun, inbound, said>>

\* Mutant: an error leaves what was said so far.
ChatErrorKeeps(t) ==
    /\ running[t] # 0
    /\ outcome' = [outcome EXCEPT ![running[t]] = "dropped"]
    /\ running' = [running EXCEPT ![t] = 0]
    /\ routeOf' = EvictDerived(t)
    /\ UNCHANGED <<sends, begun, inbound, said, accumulator, actorOf, explicitIn>>

ChatError(t) ==
    /\ running[t] # 0
    /\ outcome' = [outcome EXCEPT ![running[t]] = "dropped"]
    /\ running' = [running EXCEPT ![t] = 0]
    /\ accumulator' = [accumulator EXCEPT ![t] = <<>>]
    /\ actorOf' = [actorOf EXCEPT ![t] = 0] /\ explicitIn' = explicitIn \ {t}
    /\ routeOf' = EvictDerived(t)
    /\ UNCHANGED <<sends, begun, inbound, said>>

Next ==
    \/ \E t \in BridgeThreads :
        ChannelMessage(t) \/ TurnBegins(t) \/ AssistantText(t) \/ ExplicitSend(t) \/ TurnEnd(t) \/ ChatError(t)
    \/ \E c \in sends, ok \in BOOLEAN : SendReturns(c, ok)

----------------------------------------------------------------------------
(* What is sent for a turn is all that turn said and nothing another turn   *)
(* did, as the agent that said it; to a message of the same thread or, on a  *)
(* standing job's thread, to none; although routes, texts and marks are     *)
(* kept by thread and the end of one turn overlaps the next                 *)
(* (starters/templates/discord-communication.ts:35-58).                     *)
TurnsDoNotMix ==
    \A c \in sends :
        /\ c.text = [i \in 1..said[c.turn] |-> c.turn]
        /\ c.as = c.turn
        /\ c.replyTo = 0 <=> c.thread \in JobThreads
============================================================================
