---------------------------- MODULE SlackSocket ----------------------------
(***************************************************************************)
(* The inbound side of the slack starter (starters/templates/slack.ts):    *)
(* one web socket, replaced by a newer one whenever Slack asks for it, and *)
(* told apart by generation; envelopes acknowledged first and events that  *)
(* come again on a later socket recognised by their id.                    *)
(***************************************************************************)
EXTENDS Naturals, SequencesExt

CONSTANTS
    SlackEvents,   \* ids of events Slack has for the bot
    SlackDials,    \* bound: generations dialed
    SeenEventCap   \* ids remembered

ASSUME SlackAssumption == SlackDials \in Nat /\ SeenEventCap \in Nat

Generations == 1..SlackDials

VARIABLES
    slackLife,     \* booting, running, unloaded
    disabled,
    socketGen,
    socket,        \* socket[g]: the dial of generation g
    ws,            \* the generation of the socket the module refers to
    timers,        \* reconnects that are due
    unacked,       \* events Slack will send (again)
    seenEventIds,
    resolving,     \* events whose author's name is awaited
    \* history
    published,     \* published[e]: times it was emitted to a subscriber
    forgotten      \* ids the memory let go

slackVars == <<slackLife, disabled, socketGen, socket, ws, timers, unacked, seenEventIds,
               resolving, published, forgotten>>
dialVars == <<disabled, socketGen, socket, ws, timers>>
eventVars == <<unacked, seenEventIds, resolving, published, forgotten>>

TypeOK ==
    /\ slackLife \in {"booting", "running", "unloaded"} /\ disabled \in BOOLEAN
    /\ socketGen \in 0..SlackDials + 1 /\ ws \in 0..SlackDials
    /\ socket \in [Generations -> {"none", "opening", "open", "closed"}]
    /\ timers \in 0..2
    /\ unacked \subseteq SlackEvents /\ resolving \subseteq SlackEvents
    /\ Range(seenEventIds) \subseteq SlackEvents /\ Len(seenEventIds) <= SeenEventCap
    /\ published \in [SlackEvents -> 0..2] /\ forgotten \subseteq SlackEvents

(* register: auth.test is awaited before the first dial. *)
Init ==
    /\ slackLife = "booting" /\ disabled = FALSE
    /\ socketGen = 0 /\ socket = [g \in Generations |-> "none"] /\ ws = 0 /\ timers = 0
    /\ unacked = SlackEvents /\ seenEventIds = <<>> /\ resolving = {}
    /\ published = [e \in SlackEvents |-> 0] /\ forgotten = {}

Idle == slackLife = "unloaded" \/ disabled
Listening == {g \in Generations : socket[g] = "open"}

----------------------------------------------------------------------------
(* The socket *)

(* dial takes the next generation and asks for a url. *)
Dial ==
    IF Idle THEN UNCHANGED <<socketGen, socket>>
    ELSE /\ socketGen < SlackDials
         /\ socketGen' = socketGen + 1
         /\ socket' = [socket EXCEPT ![socketGen + 1] = "opening"]

ScheduleReconnect == timers' = IF Idle THEN timers ELSE timers + 1

(* auth.test came back, well or not. *)
Boot ==
    /\ slackLife = "booting"
    /\ slackLife' = "running"
    /\ Dial
    /\ UNCHANGED <<disabled, ws, timers, eventVars>>

(* apps.connections.open returned a url: dropped when a newer dial has begun. *)
ConnectionsOpen(g) ==
    /\ socket[g] = "opening"
    /\ IF Idle \/ g # socketGen
       THEN socket' = [socket EXCEPT ![g] = "closed"] /\ UNCHANGED ws
       ELSE socket' = [socket EXCEPT ![g] = "open"] /\ ws' = g
    /\ UNCHANGED <<slackLife, disabled, socketGen, timers, eventVars>>

\* Mutant: a dial that fails is simply logged.
DialForgets(g) ==
    /\ socket[g] = "opening" /\ timers < 2
    /\ socket' = [socket EXCEPT ![g] = "closed"]
    /\ UNCHANGED <<slackLife, disabled, socketGen, ws, timers, eventVars>>

(* ... or failed: whatever the generation, another dial is due. *)
DialFails(g) ==
    /\ socket[g] = "opening" /\ timers < 2
    /\ socket' = [socket EXCEPT ![g] = "closed"]
    /\ ScheduleReconnect
    /\ UNCHANGED <<slackLife, disabled, socketGen, ws, eventVars>>

(* ... or failed for good. *)
TokenRefused(g) ==
    /\ socket[g] = "opening"
    /\ socket' = [socket EXCEPT ![g] = "closed"]
    /\ disabled' = TRUE
    /\ UNCHANGED <<slackLife, socketGen, ws, timers, eventVars>>

ReconnectTimer ==
    /\ timers > 0
    /\ timers' = timers - 1
    /\ Dial
    /\ UNCHANGED <<slackLife, disabled, ws, eventVars>>

(* disconnect with "warning" or "refresh_requested": a replacement is       *)
(* dialed and the socket goes on until Slack closes it.                     *)
Refresh(g) ==
    /\ socket[g] = "open"
    /\ Dial
    /\ UNCHANGED <<slackLife, disabled, ws, timers, eventVars>>

LinkDisabled(g) ==
    /\ socket[g] = "open"
    /\ disabled' = TRUE
    /\ socket' = [socket EXCEPT ![g] = "closed"]
    /\ UNCHANGED <<slackLife, socketGen, ws, timers, eventVars>>

(* By Slack, by the network, or by the timer that found no frame for too    *)
(* long.  Only the newest generation's close makes for another dial.        *)
SocketCloses(g) ==
    /\ socket[g] = "open" /\ timers < 2
    /\ socket' = [socket EXCEPT ![g] = "closed"]
    /\ IF g = socketGen THEN ScheduleReconnect ELSE UNCHANGED timers
    /\ UNCHANGED <<slackLife, disabled, socketGen, ws, eventVars>>

Unload ==
    /\ slackLife # "unloaded"
    /\ slackLife' = "unloaded"
    /\ socketGen' = socketGen + 1
    /\ socket' = IF ws = 0 THEN socket ELSE [socket EXCEPT ![ws] = "closed"]
    /\ ws' = 0 /\ seenEventIds' = <<>>
    /\ UNCHANGED <<disabled, timers, unacked, resolving, published, forgotten>>

----------------------------------------------------------------------------
(* Events *)

(* processEventCallback up to the name of the author: the id is remembered  *)
(* before the wait, the oldest makes room.                                  *)
Remembered(e) ==
    LET all == Append(seenEventIds, e)
    IN  IF Len(all) > SeenEventCap
        THEN seenEventIds' = Tail(all) /\ forgotten' = forgotten \cup {Head(all)}
        ELSE seenEventIds' = all /\ UNCHANGED forgotten

\* Mutant: the id is remembered once the message is out.
FrameUnremembered(g, e, lost) ==
    /\ socket[g] = "open" /\ e \in unacked
    /\ unacked' = IF lost THEN unacked ELSE unacked \ {e}
    /\ resolving' = resolving \cup {e}
    /\ UNCHANGED <<slackLife, dialVars, published, forgotten, seenEventIds>>

(* An envelope: acknowledged, then processed.  The acknowledgement may be    *)
(* lost with the socket.                                                    *)
HandleFrame(g, e, lost) ==
    /\ socket[g] = "open" /\ e \in unacked
    /\ unacked' = IF lost THEN unacked ELSE unacked \ {e}
    /\ IF e \in Range(seenEventIds) THEN UNCHANGED <<seenEventIds, resolving, forgotten>>
       ELSE Remembered(e) /\ resolving' = resolving \cup {e}
    /\ UNCHANGED <<slackLife, dialVars, published>>

(* The name is there: emitted to whoever subscribes, nobody after unload. *)
Publish(e) ==
    /\ e \in resolving /\ published[e] < 2
    /\ resolving' = resolving \ {e}
    /\ published' = [published EXCEPT ![e] = IF slackLife = "unloaded" THEN @ ELSE @ + 1]
    /\ UNCHANGED <<slackLife, dialVars, unacked, seenEventIds, forgotten>>

Next ==
    \/ Boot \/ ReconnectTimer \/ Unload
    \/ \E g \in Generations :
        \/ ConnectionsOpen(g)
        \/ DialFails(g)
        \/ TokenRefused(g)
        \/ Refresh(g)
        \/ LinkDisabled(g)
        \/ SocketCloses(g)
        \/ \E e \in SlackEvents, lost \in BOOLEAN : HandleFrame(g, e, lost)
    \/ \E e \in SlackEvents : Publish(e)

----------------------------------------------------------------------------
(* The adapter never just stops: unless unloaded or disabled, the newest    *)
(* generation is open or being opened, or another dial is due               *)
(* (starters/templates/slack.ts: generations, lines 338-417).               *)
NeverStranded ==
    slackLife = "running" /\ ~disabled =>
        timers > 0 \/ socket[socketGen] \in {"opening", "open"}

(* However often Slack sends an event, and on however many sockets, it is   *)
(* emitted once, unless the memory of ids has let it go.                    *)
EmittedOnce == \A e \in SlackEvents \ forgotten : published[e] <= 1

(* What was acknowledged while the adapter was running is emitted or about  *)
(* to be.                                                                   *)
AckedIsEmitted ==
    slackLife # "unloaded" =>
        \A e \in SlackEvents \ unacked : published[e] > 0 \/ e \in resolving
============================================================================
