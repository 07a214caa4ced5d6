--------------------------- MODULE DiscordGateway ---------------------------
(***************************************************************************)
(* The gateway connection of the discord starter                           *)
(* (starters/templates/discord.ts): hello, identify or resume, heartbeats, *)
(* reconnects, against a gateway that keeps the events of a session and     *)
(* replays those after the sequence number a resume names.                 *)
(***************************************************************************)
EXTENDS Naturals, Sequences

CONSTANTS Sessions,      \* bound: sessions the gateway opens, 1..n
          SessionEvents, \* bound: dispatches of a session
          Connects       \* bound: connections made

DiscordAssumption == Sessions \in Nat /\ SessionEvents \in Nat \ {0} /\ Connects \in Nat \ {0}

VARIABLES
    closing,         \* unload was called
    gateway,         \* none, connecting, greeted, ready
    heartbeat,       \* the timer runs
    awaitingAck,
    sessionId,       \* 0 for null; resumeGatewayUrl comes and goes with it
    lastSeq,         \* 0 for null
    resuming,
    dueOpen,         \* a reconnect is scheduled
    connects,
    \* the gateway's side
    sessions,        \* sessions opened so far
    live,            \* sessions that can still be resumed
    log,             \* log[s]: events of session s so far
    conn,            \* what this connection is about: session and last event sent
    \* history
    handled          \* handled[s]: sequence numbers dispatched in session s

discordVars == <<closing, gateway, heartbeat, awaitingAck, sessionId, lastSeq, resuming, dueOpen,
                 connects, sessions, live, log, conn, handled>>
clientVars == <<closing, sessionId, lastSeq, resuming>>
serverVars == <<sessions, live, log>>

NoSession == [session |-> 0, sent |-> 0]
SessionIds == 1..Sessions

TypeOK ==
    /\ closing \in BOOLEAN /\ gateway \in {"none", "connecting", "greeted", "ready"}
    /\ heartbeat \in BOOLEAN /\ awaitingAck \in BOOLEAN /\ resuming \in BOOLEAN
    /\ sessionId \in 0..Sessions /\ lastSeq \in 0..SessionEvents /\ dueOpen \in 0..1
    /\ connects \in 0..Connects /\ sessions \in 0..Sessions /\ live \subseteq SessionIds
    /\ log \in [SessionIds -> 0..SessionEvents]
    /\ conn \in [session : 0..Sessions, sent : 0..SessionEvents]
    /\ handled \in [SessionIds -> Seq(1..SessionEvents)]

(* register opens the gateway. *)
Init ==
    /\ closing = FALSE /\ gateway = "connecting" /\ heartbeat = FALSE /\ awaitingAck = FALSE
    /\ sessionId = 0 /\ lastSeq = 0 /\ resuming = FALSE /\ dueOpen = 0 /\ connects = 1
    /\ sessions = 0 /\ live = {} /\ log = [s \in SessionIds |-> 0] /\ conn = NoSession
    /\ handled = [s \in SessionIds |-> <<>>]

----------------------------------------------------------------------------
(* openGateway, from the timer: nothing looks at closing. *)
OpenGateway ==
    /\ dueOpen > 0 /\ connects < Connects
    /\ dueOpen' = dueOpen - 1
    /\ IF gateway # "none" THEN UNCHANGED <<gateway, connects>>
       ELSE gateway' = "connecting" /\ connects' = connects + 1
    /\ UNCHANGED <<clientVars, heartbeat, awaitingAck, serverVars, conn, handled>>

(* HELLO: heartbeats start, and the session is resumed or a new one asked   *)
(* for.  The gateway answers with what follows.                             *)
Hello ==
    /\ gateway = "connecting"
    /\ gateway' = "greeted" /\ heartbeat' = TRUE /\ awaitingAck' = FALSE
    /\ resuming' = (resuming /\ sessionId # 0)
    /\ UNCHANGED <<closing, sessionId, lastSeq, dueOpen, connects, serverVars, conn, handled>>

Dispatched(s, n) ==
    /\ lastSeq' = n
    /\ handled' = [handled EXCEPT ![s] = Append(@, n)]

(* READY, the first event of a new session. *)
Ready ==
    /\ gateway = "greeted" /\ ~resuming /\ sessions < Sessions
    /\ sessions' = sessions + 1 /\ live' = live \cup {sessions + 1}
    /\ log' = [log EXCEPT ![sessions + 1] = 1]
    /\ conn' = [session |-> sessions + 1, sent |-> 1]
    /\ gateway' = "ready" /\ sessionId' = sessions + 1 /\ resuming' = FALSE
    /\ Dispatched(sessions + 1, 1)
    /\ UNCHANGED <<closing, heartbeat, awaitingAck, dueOpen, connects>>

\* Mutant: a resume does not say how far the session was seen.
ResumeFromStart ==
    /\ gateway = "greeted" /\ resuming /\ sessionId \in live
    /\ gateway' = "ready" /\ resuming' = FALSE
    /\ conn' = [session |-> sessionId, sent |-> 1]
    /\ UNCHANGED <<closing, sessionId, lastSeq, heartbeat, awaitingAck, dueOpen, connects,
                   serverVars, handled>>

(* The gateway takes the resume and goes on after the number it names. *)
Resumed ==
    /\ gateway = "greeted" /\ resuming /\ sessionId \in live
    /\ gateway' = "ready" /\ resuming' = FALSE
    /\ conn' = [session |-> sessionId, sent |-> lastSeq]
    /\ UNCHANGED <<closing, sessionId, lastSeq, heartbeat, awaitingAck, dueOpen, connects,
                   serverVars, handled>>

ClosedWith(code) ==
    /\ gateway' = "none" /\ heartbeat' = FALSE /\ awaitingAck' = FALSE /\ conn' = NoSession
    /\ dueOpen' = IF closing THEN dueOpen ELSE dueOpen + 1

(* scheduleReconnect, of the session: dropped after some codes, else kept.  *)
AfterClose(code) ==
    IF closing THEN UNCHANGED <<sessionId, resuming>>
    ELSE IF code = "unresumable" THEN sessionId' = 0 /\ resuming' = FALSE
    ELSE resuming' = (resuming \/ sessionId # 0) /\ UNCHANGED sessionId

(* INVALID_SESSION, with or without leave to try again, then the close.     *)
InvalidSession(again) ==
    /\ gateway \in {"greeted", "ready"}
    /\ IF again /\ sessionId # 0 THEN resuming' = TRUE /\ UNCHANGED sessionId
       ELSE resuming' = FALSE /\ sessionId' = 0
    /\ live' = IF again THEN live ELSE live \ {sessionId}
    /\ ClosedWith(4000)
    /\ UNCHANGED <<closing, lastSeq, connects, sessions, log, handled>>

(* RECONNECT, a zombie found by its missing ack, or the other side closing. *)
Closes(code) ==
    /\ gateway # "none"
    /\ ClosedWith(code) /\ AfterClose(code)
    /\ UNCHANGED <<closing, lastSeq, connects, serverVars, handled>>

(* Something happens that the bot may see, whether it is connected or not.  *)
Happens(s) ==
    /\ s \in live /\ log[s] < SessionEvents
    /\ log' = [log EXCEPT ![s] = @ + 1]
    /\ UNCHANGED <<clientVars, gateway, heartbeat, awaitingAck, dueOpen, connects, sessions,
                   live, conn, handled>>

(* A dispatch (op 0): the sequence number is kept, then the event handled.  *)
Dispatch ==
    /\ gateway = "ready" /\ conn.sent < log[conn.session]
    /\ conn' = [conn EXCEPT !.sent = @ + 1]
    /\ Dispatched(conn.session, conn.sent + 1)
    /\ UNCHANGED <<closing, gateway, heartbeat, awaitingAck, sessionId, resuming, dueOpen,
                   connects, serverVars>>

(* The heartbeat is due; a missing ack is a zombie, see Closes.             *)
Beat ==
    /\ heartbeat /\ ~awaitingAck /\ gateway \in {"greeted", "ready"}
    /\ awaitingAck' = TRUE
    /\ UNCHANGED <<clientVars, gateway, heartbeat, dueOpen, connects, serverVars, conn, handled>>

Ack ==
    /\ awaitingAck /\ gateway \in {"greeted", "ready"}
    /\ awaitingAck' = FALSE
    /\ UNCHANGED <<clientVars, gateway, heartbeat, dueOpen, connects, serverVars, conn, handled>>

(* The gateway gives a session up. *)
Expires(s) ==
    /\ s \in live /\ conn.session # s
    /\ live' = live \ {s}
    /\ UNCHANGED <<clientVars, gateway, heartbeat, awaitingAck, dueOpen, connects, sessions, log,
                   conn, handled>>

Unload ==
    /\ ~closing
    /\ closing' = TRUE /\ heartbeat' = FALSE /\ awaitingAck' = FALSE
    /\ gateway' = "none" /\ conn' = NoSession /\ sessionId' = 0 /\ resuming' = FALSE
    /\ UNCHANGED <<lastSeq, dueOpen, connects, serverVars, handled>>

Next ==
    \/ OpenGateway \/ Hello \/ Ready \/ Resumed \/ Dispatch \/ Beat \/ Ack \/ Unload
    \/ \E again \in BOOLEAN : InvalidSession(again)
    \/ \E code \in {"resumable", "unresumable"} : Closes(code)
    \/ \E s \in SessionIds : Happens(s) \/ Expires(s)

----------------------------------------------------------------------------
(* One connection at a time, and never none for good: until unload, there   *)
(* is a connection or exactly one reconnect is due.                         *)
NeverStranded == ~closing => (gateway = "none" <=> dueOpen = 1)

(* Within a session every event is handled, once and in order, across any   *)
(* number of reconnects; what was not, comes after lastSeq.                 *)
SessionInOrder ==
    /\ \A s \in SessionIds : handled[s] = [n \in 1..Len(handled[s]) |-> n]
    /\ sessionId # 0 => lastSeq = Len(handled[sessionId])

(* "unload() closes cleanly" (starters/templates/discord.ts:54): afterwards *)
(* there is no connection.                                                  *)
UnloadIsFinal == closing => gateway = "none"
=============================================================================
