---------------------------- MODULE ReplyStream ----------------------------
(***************************************************************************)
(* One conversation through the telegram starters: the bridge              *)
(* (starters/templates/telegram-communication.ts) that follows a turn of   *)
(* the agent on the bus, and the telegram_stream tool                      *)
(* (starters/templates/telegram.ts) that shows the reply as it grows, with *)
(* calls to Telegram that take their time.  A text is the number of its    *)
(* pieces.                                                                 *)
(***************************************************************************)
EXTENDS Naturals, SequencesExt

CONSTANTS Pieces,      \* bound: pieces of text in a turn
          Turns,       \* bound
          Messages,    \* bound: messages in the chat
          Waiting,     \* bound: calls in flight when one more is made
          Private      \* whether the chat is: a group has no drafts

StreamAssumption == Pieces \in Nat /\ Turns \in Nat /\ Messages \in Nat /\ Waiting \in Nat
                    /\ Private \in BOOLEAN

Texts == 0..Pieces
NoMessage == 0

VARIABLES
    \* the bridge, for the thread
    route,         \* none, stored, derived
    accumulated,   \* completed hops
    partial,       \* 1 when deltas of the running hop are there
    lastPushed, ticking, explicitSend,
    \* the tool
    stream,        \* the session object in the map, 0 for none
    session,       \* every session object made
    calls,         \* tool calls waiting for Telegram
    \* around them
    messages,      \* the chat: text, whether a cursor shows, the session
    turn, inTurn,  \* turns begun; whether one runs
    verdict,       \* verdict[t]: delivery.* published for the turn
    \* history
    reply,         \* reply[t]: the message that became the reply, and its text
    raced,         \* sessions that ended, or sent again, with a call in flight
    stuck          \* sessions whose last edit Telegram refused

bridgeVars == <<route, accumulated, partial, lastPushed, ticking, explicitSend>>
toolVars == <<stream, session, calls, messages, raced, stuck>>
turnVars == <<turn, inTurn, verdict, reply>>
streamVars == <<bridgeVars, toolVars, turnVars>>

NewSession(armed) == [tier |-> IF Private THEN "draft" ELSE "edit", draftOk |-> FALSE,
                      message |-> NoMessage, last |-> 0, presence |-> armed]
SessionType == [tier : {"draft", "edit"}, draftOk : BOOLEAN, message : Nat, last : Texts,
                presence : BOOLEAN]
CallType == [kind : {"start", "update", "finalize", "cancel"}, s : Nat, text : Texts,
             stage : {"api", "draft", "send", "edit", "floor"}, turn : Nat]
MessageType == [text : Texts, cursor : BOOLEAN, s : Nat]
Call(kind, s, text, stage) == [kind |-> kind, s |-> s, text |-> text, stage |-> stage, turn |-> 0]
InFlight(s) == {c \in calls : c.s = s}

TypeOK ==
    /\ route \in {"none", "stored", "derived"}
    /\ accumulated \in Texts /\ partial \in 0..1 /\ accumulated + partial \in Texts
    /\ lastPushed \in Texts
    /\ ticking \in BOOLEAN /\ explicitSend \in BOOLEAN /\ inTurn \in BOOLEAN
    /\ session \in Seq(SessionType) /\ messages \in Seq(MessageType)
    /\ stream \in 0..Len(session) /\ raced \subseteq Nat /\ stuck \subseteq Nat
    /\ calls \subseteq CallType /\ \A c \in calls : c.s \in 0..Len(session)
    /\ turn \in 0..Turns /\ verdict \in [1..Turns -> {"none", "due", "succeeded", "failed"}]
    /\ reply \in [1..Turns -> [message : Nat, text : Texts]]

Init ==
    /\ route = "none" /\ accumulated = 0 /\ partial = 0 /\ lastPushed = 0
    /\ ticking = FALSE /\ explicitSend = FALSE
    /\ stream = 0 /\ session = <<>> /\ calls = {} /\ messages = <<>>
    /\ turn = 0 /\ inTurn = FALSE /\ verdict = [t \in 1..Turns |-> "none"]
    /\ reply = [t \in 1..Turns |-> [message |-> NoMessage, text |-> 0]]
    /\ raced = {} /\ stuck = {}

----------------------------------------------------------------------------
(* The tool, up to its first wait *)

(* getStream: the session of the map, or a new one; armPresence where the   *)
(* caller does so at once.                                                  *)
Live == IF stream # 0 THEN stream ELSE Len(session) + 1
GetStream(armed) ==
    /\ stream' = Live
    /\ session' = IF stream # 0 THEN [session EXCEPT ![stream].presence = @ \/ armed]
                  ELSE Append(session, NewSession(armed))

(* What was streamed is a message already.  If nothing becomes of it, its   *)
(* cursor has to go.                                                        *)
Streamed == stream # 0 /\ session[stream].message # NoMessage
Strip == IF Streamed THEN {Call("cancel", stream, 0, "edit")} ELSE {}

(* endStream: out of the map, its presence stopped.                         *)
EndStream ==
    /\ stream' = 0
    /\ session' = IF stream = 0 THEN session ELSE [session EXCEPT ![stream].presence = FALSE]
    /\ raced' = IF stream # 0 /\ InFlight(stream) # {} THEN raced \cup {stream} ELSE raced

----------------------------------------------------------------------------
(* The agent's turn, as the bridge hears it *)

(* A message comes in: the route is stored, the input published and the     *)
(* stream started, without waiting.  The input begins a turn or is folded   *)
(* into the one that runs.                                                  *)
Inbound ==
    /\ inTurn \/ turn < Turns
    /\ Cardinality(calls) < Waiting
    /\ turn' = IF inTurn THEN turn ELSE turn + 1
    /\ inTurn' = TRUE /\ route' = "stored"
    /\ GetStream(FALSE)
    /\ calls' = calls \cup {Call("start", Live, 0, "api")}
    /\ UNCHANGED <<accumulated, partial, lastPushed, ticking, explicitSend, messages,
                   verdict, reply, raced, stuck>>

(* A standing job begins a turn of its own. *)
JobTurn ==
    /\ turn < Turns /\ ~inTurn
    /\ turn' = turn + 1 /\ inTurn' = TRUE
    /\ UNCHANGED <<bridgeVars, toolVars, verdict, reply>>

Derived == route' = IF route = "none" THEN "derived" ELSE route

Delta ==
    /\ inTurn /\ partial = 0 /\ accumulated < Pieces
    /\ Derived /\ partial' = 1 /\ ticking' = TRUE
    /\ UNCHANGED <<accumulated, lastPushed, explicitSend, toolVars, turnVars>>

AssistantText ==
    /\ inTurn /\ accumulated < Pieces
    /\ Derived /\ accumulated' = accumulated + 1 /\ partial' = 0
    /\ UNCHANGED <<lastPushed, ticking, explicitSend, toolVars, turnVars>>

(* The agent itself sends to the conversation. *)
ExplicitSend ==
    /\ inTurn
    /\ Derived /\ explicitSend' = TRUE
    /\ UNCHANGED <<accumulated, partial, lastPushed, ticking, toolVars, turnVars>>

(* pushStream, every second: the newest text, without waiting for the last  *)
(* push to return.  A text that the session has, or that comes too soon, is *)
(* skipped.                                                                 *)
Push ==
    LET text == accumulated + partial
        o == IF stream # 0 THEN session[stream] ELSE NewSession(TRUE)
        stage == IF o.tier = "draft" THEN "draft"
                 ELSE IF o.message = NoMessage THEN "send" ELSE "edit"
    IN  /\ ticking /\ route # "none" /\ text \notin {0, lastPushed}
        /\ lastPushed' = text
        /\ GetStream(TRUE)
        /\ \/ UNCHANGED <<calls, raced>>
           \/ /\ o.last # text /\ Cardinality(calls) < Waiting
              /\ calls' = calls \cup {Call("update", Live, text, stage)}
              /\ raced' = IF \E c \in InFlight(Live) : c.kind = "update"
                          THEN raced \cup {Live} ELSE raced
        /\ UNCHANGED <<route, accumulated, partial, ticking, explicitSend, messages, stuck, turnVars>>

StopStream == ticking' = FALSE /\ partial' = 0 /\ lastPushed' = 0

(* turn-end up to its wait: what there is to say is finalized, otherwise    *)
(* the stream is cancelled.                                                 *)
TurnEnd ==
    LET deliver == accumulated > 0 /\ ~explicitSend
        way == IF route = "none" THEN "derived" ELSE route
    IN  /\ inTurn /\ Cardinality(calls) < Waiting
        /\ inTurn' = FALSE /\ StopStream
        /\ accumulated' = 0 /\ explicitSend' = FALSE
        /\ EndStream
        /\ calls' = IF deliver
                    THEN calls \cup {[Call("finalize", stream, accumulated,
                                           IF Streamed THEN "edit" ELSE "send") EXCEPT !.turn = turn]}
                    ELSE calls \cup Strip
        /\ verdict' = [verdict EXCEPT ![turn] = IF deliver THEN "due" ELSE @]
        /\ route' = IF way = "derived" /\ ~deliver THEN "none" ELSE way
        /\ UNCHANGED <<messages, turn, reply, stuck>>

ChatError ==
    /\ inTurn /\ Cardinality(calls) < Waiting
    /\ inTurn' = FALSE /\ StopStream
    /\ accumulated' = 0 /\ explicitSend' = FALSE
    /\ IF route = "none" THEN UNCHANGED <<stream, session, calls, raced>>
       ELSE EndStream /\ calls' = calls \cup Strip
    /\ route' = IF route = "derived" THEN "none" ELSE route
    /\ UNCHANGED <<messages, turn, verdict, reply, stuck>>

----------------------------------------------------------------------------
(* Telegram answers *)

Sent(text, cursor, s) ==
    /\ Len(messages) < Messages
    /\ messages' = Append(messages, [text |-> text, cursor |-> cursor, s |-> s])
Edited(m, text, cursor) ==
    messages' = [messages EXCEPT ![m].text = text, ![m].cursor = cursor]

(* start came back: a draft that fails makes the session one of edits.      *)
(* Presence is armed only now.                                              *)
StartReturns(c, ok) ==
    LET o == session[c.s]
    IN  /\ c \in calls /\ c.kind = "start"
        /\ calls' = calls \ {c}
        /\ session' = [session EXCEPT ![c.s] = [o EXCEPT
               !.tier = IF ok THEN @ ELSE "edit",
               !.draftOk = @ \/ (ok /\ o.tier = "draft"), !.presence = TRUE]]
        /\ UNCHANGED <<bridgeVars, stream, messages, turnVars, raced, stuck>>

(* update came back.  A draft is not a message; a first draft that fails    *)
(* makes the session one of edits and goes on as one.                       *)
UpdateReturns(c, ok) ==
    LET o == session[c.s]
        demoted == c.stage = "draft" /\ ~ok /\ ~o.draftOk
    IN  /\ c \in calls /\ c.kind = "update"
        /\ calls' = (calls \ {c}) \cup
               (IF demoted THEN {[c EXCEPT !.stage = IF o.message = NoMessage THEN "send" ELSE "edit"]}
                ELSE {})
        /\ session' = [session EXCEPT ![c.s] = [o EXCEPT
               !.tier = IF demoted THEN "edit" ELSE @,
               !.draftOk = @ \/ (ok /\ c.stage = "draft"),
               !.last = IF ok THEN c.text ELSE @,
               !.message = IF ok /\ c.stage = "send" THEN Len(messages) + 1 ELSE @]]
        /\ IF ok /\ c.stage = "send" THEN Sent(c.text, TRUE, c.s)
           ELSE IF ok /\ c.stage = "edit" THEN Edited(o.message, c.text, TRUE)
           ELSE UNCHANGED messages
        /\ UNCHANGED <<bridgeVars, stream, turnVars, raced, stuck>>

(* Once it is over: the audit event, and a derived route goes.              *)
Delivered(c, outcome) ==
    /\ calls' = calls \ {c}
    /\ verdict' = [verdict EXCEPT ![c.turn] = outcome]
    /\ route' = IF route = "derived" THEN "none" ELSE route

ReplyIs(c, m) ==
    /\ Delivered(c, "succeeded")
    /\ reply' = [reply EXCEPT ![c.turn] = [message |-> m, text |-> c.text]]

NextStage(c) == IF c.stage = "edit" THEN "send" ELSE "floor"

\* Mutant: what cannot be edited counts as delivered.
FinalizeGivesUp(c, ok) ==
    /\ c \in calls /\ c.kind = "finalize"
    /\ \/ /\ c.stage = "edit"
          /\ ReplyIs(c, session[c.s].message) /\ UNCHANGED stuck
          /\ IF ok THEN Edited(session[c.s].message, c.text, FALSE) ELSE UNCHANGED messages
       \/ /\ ok /\ c.stage # "edit"
          /\ ReplyIs(c, Len(messages) + 1) /\ Sent(c.text, FALSE, c.s) /\ UNCHANGED stuck
       \/ /\ ~ok /\ c.stage # "edit"
          /\ Delivered(c, "failed") /\ UNCHANGED <<messages, reply, stuck>>
    /\ UNCHANGED <<accumulated, partial, lastPushed, ticking, explicitSend, stream, session, turn,
                   inTurn, raced>>

(* finalize: the streamed message becomes the reply; if that is refused the *)
(* reply is sent; if that fails too, it is tried once more as telegram_send.*)
FinalizeReturns(c, ok) ==
    /\ c \in calls /\ c.kind = "finalize"
    /\ \/ /\ ok /\ c.stage = "edit"
          /\ ReplyIs(c, session[c.s].message)
          /\ Edited(session[c.s].message, c.text, FALSE) /\ UNCHANGED stuck
       \/ /\ ok /\ c.stage # "edit"
          /\ ReplyIs(c, Len(messages) + 1) /\ Sent(c.text, FALSE, c.s) /\ UNCHANGED stuck
       \/ /\ ~ok /\ c.stage = "floor"
          /\ Delivered(c, "failed") /\ UNCHANGED <<messages, reply, stuck>>
       \/ /\ ~ok /\ c.stage # "floor"
          /\ calls' = (calls \ {c}) \cup {[c EXCEPT !.stage = NextStage(c)]}
          /\ stuck' = IF c.stage = "edit" THEN stuck \cup {c.s} ELSE stuck
          /\ UNCHANGED <<route, verdict, reply, messages>>
    /\ UNCHANGED <<accumulated, partial, lastPushed, ticking, explicitSend, stream, session, turn,
                   inTurn, raced>>

\* Mutant: a cancelled stream is dropped as it stands.
CancelForgets(c, ok) ==
    /\ c \in calls /\ c.kind = "cancel"
    /\ calls' = calls \ {c}
    /\ UNCHANGED <<bridgeVars, stream, session, turnVars, messages, raced, stuck>>

(* cancel: the cursor is taken off what was streamed, as well as it goes.   *)
CancelReturns(c, ok) ==
    /\ c \in calls /\ c.kind = "cancel"
    /\ calls' = calls \ {c}
    /\ IF ok THEN Edited(session[c.s].message, session[c.s].last, FALSE) /\ UNCHANGED stuck
       ELSE stuck' = stuck \cup {c.s} /\ UNCHANGED messages
    /\ UNCHANGED <<bridgeVars, stream, session, turnVars, raced>>

Next ==
    \/ Inbound \/ Push
    \/ JobTurn \/ Delta \/ AssistantText \/ ExplicitSend \/ TurnEnd \/ ChatError
    \/ \E c \in calls, ok \in BOOLEAN :
        StartReturns(c, ok) \/ UpdateReturns(c, ok) \/ FinalizeReturns(c, ok) \/ CancelReturns(c, ok)

----------------------------------------------------------------------------
(* A reply that was said to be delivered is in the chat, whole and without  *)
(* a cursor, unless calls raced; every turn with something to say gets one  *)
(* verdict, when its last call returns.                                     *)
RepliesLand ==
    \A t \in 1..Turns :
        /\ verdict[t] = "due" <=> \E c \in calls : c.kind = "finalize" /\ c.turn = t
        /\ verdict[t] = "succeeded" =>
               LET m == reply[t].message
               IN  /\ m \in DOMAIN messages
                   /\ messages[m].s \notin raced =>
                          messages[m].text = reply[t].text /\ ~messages[m].cursor

(* When a stream has ended and its calls have returned, nothing is left of  *)
(* it: no typing and no message that "looks mid-sentence forever"           *)
(* (starters/templates/telegram.ts:723-724), unless a call was under way    *)
(* when it ended, or Telegram refused the last edit.                        *)
NothingLingers ==
    \A s \in DOMAIN session \ (raced \cup stuck) :
        s # stream /\ InFlight(s) = {} =>
            /\ ~session[s].presence
            /\ \A m \in DOMAIN messages : messages[m].s = s => ~messages[m].cursor

(* Presence is there "for the whole session" (starters/templates/           *)
(* telegram.ts:443) and no longer.                                          *)
PresenceEnds ==
    \A s \in DOMAIN session : s # stream /\ InFlight(s) = {} => ~session[s].presence
============================================================================
