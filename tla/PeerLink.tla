------------------------------ MODULE PeerLink ------------------------------
(***************************************************************************)
(* One outbound mesh link (src/src/mesh/peer.ts): a socket that is dialed, *)
(* watched for silence, closed and dialed again for as long as nobody      *)
(* closes or rejects the link, and the bounded queue of envelopes that     *)
(* could not be sent meanwhile.                                            *)
(*                                                                         *)
(* The peer's listener and the network are the environment.  Envelopes to  *)
(* be sent are numbered; what went out on the current socket is `wire`.    *)
(* Time is counted in heartbeat periods and only up to the stale limit;    *)
(* the reconnect delays are left out.                                      *)
(***************************************************************************)
EXTENDS Integers, Sequences, SequencesExt

CONSTANTS
    MaxSends,   \* envelopes 1 .. MaxSends are sent
    MaxQueue,   \* maxQueue
    StaleAfter  \* staleAfterMs, in heartbeat periods

ASSUME LinkAssumption ==
    /\ MaxSends \in Nat
    /\ {MaxQueue, StaleAfter} \subseteq Nat \ {0}

Envelope == 1 .. MaxSends
HelloEnv == 0
CatchupRequest == -1
Age == 0 .. StaleAfter + 1

VARIABLES
    status,    \* what onStatusChange was told last
    socket,    \* "none", "connecting", "open" or "closing"
    closed,    \* close() was called
    rejected,  \* an envelope of another key arrived
    reconnect, \* the reconnect timer (or the first microtask) is pending
    beating,   \* the heartbeat and staleness intervals are armed
    queue,     \* envelopes waiting for an open socket
    wire,      \* what was sent on this socket
    sends,     \* envelopes 1 .. sends were given to send()
    silence    \* periods since lastReceivedAt

flags == <<closed, rejected>>
vars == <<status, socket, closed, rejected, reconnect, beating, queue, wire, sends,
          silence>>

TypeOK ==
    /\ status \in {"connecting", "connected", "disconnected", "stale", "rejected"}
    /\ socket \in {"none", "connecting", "open", "closing"}
    /\ closed \in BOOLEAN /\ rejected \in BOOLEAN
    /\ reconnect \in BOOLEAN /\ beating \in BOOLEAN
    /\ queue \in Seq(Envelope) /\ Len(queue) <= MaxQueue
    /\ wire \in Seq(Envelope \cup {HelloEnv, CatchupRequest})
    /\ sends \in 0 .. MaxSends
    /\ silence \in Age

Init ==
    /\ status = "connecting" /\ socket = "none"
    /\ closed = FALSE /\ rejected = FALSE
    /\ reconnect = TRUE /\ beating = FALSE
    /\ queue = <<>> /\ wire = <<>> /\ sends = 0
    /\ silence = 0

----------------------------------------------------------------------------
(* Dialing *)

\* connect(): a socket is made, or its construction throws and the timer is
\* armed again.
Connect ==
    /\ reconnect /\ ~closed /\ ~rejected
    /\ status' = "connecting"
    /\ \/ socket' = "connecting" /\ reconnect' = FALSE /\ wire' = <<>>
       \/ UNCHANGED <<socket, reconnect, wire>>
    /\ UNCHANGED <<flags, beating, queue, sends, silence>>

\* Mutant: the bridge hears of the connection before the hello is out.
StatusBeforeHello == <<CatchupRequest, HelloEnv>>

\* The hello goes out before the bridge is told, whose callback sends a
\* catchup_request at once.
Greeting == <<HelloEnv, CatchupRequest>>

\* The socket opens: greeting, the queue, the intervals.  (A socket that was
\* closed while it was connecting does not open any more.)
Open ==
    /\ socket = "connecting"
    /\ socket' = "open"
    /\ status' = "connected"
    /\ wire' = Greeting \o queue
    /\ queue' = <<>>
    /\ beating' = TRUE
    /\ silence' = 0
    /\ UNCHANGED <<flags, reconnect, sends>>

\* Mutant: a link that went stale is not dialed again.
StaleStaysDown ==
    /\ socket # "none"
    /\ socket' = "none"
    /\ beating' = FALSE
    /\ IF ~closed /\ ~rejected /\ status # "stale"
       THEN status' = "connecting" /\ reconnect' = TRUE
       ELSE UNCHANGED <<status, reconnect>>
    /\ UNCHANGED <<flags, queue, wire, sends, silence>>

\* The close event, or a dial that failed: scheduleReconnect unless the link is
\* closed or rejected.
SocketCloses ==
    /\ socket # "none"
    /\ socket' = "none"
    /\ beating' = FALSE
    /\ IF ~closed /\ ~rejected
       THEN status' = "connecting" /\ reconnect' = TRUE
       ELSE UNCHANGED <<status, reconnect>>
    /\ UNCHANGED <<flags, queue, wire, sends, silence>>

----------------------------------------------------------------------------
(* Traffic *)

\* Mutant: nothing is dropped.
QueuedUnbounded(e) ==
    IF socket = "open"
    THEN wire' = Append(wire, e) /\ UNCHANGED queue
    ELSE queue' = Append(queue, e) /\ UNCHANGED wire

\* send(): on the socket if it is open, else queued, dropping the oldest.
SentOrQueued(e) ==
    IF socket = "open"
    THEN wire' = Append(wire, e) /\ UNCHANGED queue
    ELSE /\ queue' = (IF Len(queue) = MaxQueue THEN Tail(queue) ELSE queue) \o <<e>>
         /\ UNCHANGED wire

Send ==
    /\ sends < MaxSends
    /\ sends' = sends + 1
    /\ \/ (closed \/ rejected) /\ UNCHANGED <<queue, wire>>
       \/ ~closed /\ ~rejected /\ SentOrQueued(sends + 1)
    /\ UNCHANGED <<status, socket, flags, reconnect, beating, silence>>

\* An envelope of the team arrives on this socket: a welcome, a chunk or a live
\* event.  The peer's listener sends nothing of its own accord.
Receive ==
    /\ socket = "open" /\ ~closed /\ ~rejected
    /\ silence' = 0
    /\ UNCHANGED <<status, socket, flags, reconnect, beating, queue, wire, sends>>

\* An envelope whose signature does not verify ends the link for good.
ReceiveForged ==
    /\ socket = "open" /\ ~closed /\ ~rejected
    /\ rejected' = TRUE
    /\ status' = "rejected"
    /\ beating' = FALSE
    /\ socket' = "closing"
    /\ UNCHANGED <<closed, reconnect, queue, wire, sends, silence>>

Older(age) == IF age > StaleAfter THEN age ELSE age + 1

\* A heartbeat period passes.  The peer does not answer our heartbeat, and its
\* own heartbeats come to our listener, where they refresh no link.
Tick ==
    /\ silence' = Older(silence)
    /\ UNCHANGED <<status, socket, flags, reconnect, beating, queue, wire, sends>>

\* Mutant: the staleness check leaves the socket open.
StaleKeepsSocket ==
    /\ beating /\ silence > StaleAfter
    /\ status' = "stale"
    /\ UNCHANGED <<socket, flags, reconnect, beating, queue, wire, sends, silence>>

\* The staleness interval finds the socket silent for too long.
GoStale ==
    /\ beating /\ silence > StaleAfter
    /\ status' = "stale"
    /\ socket' = "closing"
    /\ UNCHANGED <<flags, reconnect, beating, queue, wire, sends, silence>>

\* Mutant: close() leaves the intervals running until the socket is gone.
CloseKeepsTimers ==
    /\ ~closed
    /\ closed' = TRUE
    /\ reconnect' = FALSE
    /\ status' = "disconnected"
    /\ socket' = IF socket = "none" THEN "none" ELSE "closing"
    /\ UNCHANGED <<rejected, beating, queue, wire, sends, silence>>

\* close()
CloseLink ==
    /\ ~closed
    /\ closed' = TRUE
    /\ reconnect' = FALSE
    /\ beating' = FALSE
    /\ status' = "disconnected"
    /\ socket' = IF socket = "none" THEN "none" ELSE "closing"
    /\ UNCHANGED <<rejected, queue, wire, sends, silence>>

Next ==
    \/ Connect \/ Open \/ SocketCloses
    \/ Send \/ Receive \/ ReceiveForged
    \/ Tick \/ GoStale \/ CloseLink

Spec == Init /\ [][Next]_vars

\* Timers fire, and a socket that is being closed is closed.
Fairness == WF_vars(Connect /\ socket' = "connecting") /\ WF_vars(SocketCloses /\ socket = "closing")
            /\ SF_vars(Open)

FairSpec == Spec /\ Fairness

----------------------------------------------------------------------------
(* Properties *)

\* The peer's listener closes a socket whose first envelope is not the hello:
\* nothing precedes it, neither the catchup request that the status callback
\* sends nor what was queued; and nothing is sent twice or out of order.
HelloThenInOrder ==
    wire # <<>> =>
        /\ Head(wire) = HelloEnv
        /\ LET sent == wire \o queue
           IN  \A i, j \in DOMAIN sent :
                  i < j /\ {sent[i], sent[j]} \subseteq Envelope => sent[i] < sent[j]

\* A link that nobody closed or rejected has a socket or is about to dial one,
\* never both; a link that was closed has no timer left.
NeverStranded ==
    /\ ~closed /\ ~rejected => (socket # "none") # reconnect
    /\ closed \/ rejected => ~beating

\* The bridge believes in a connection exactly while the socket is open, so that
\* a catchup is requested on an open socket and cancelled when it goes.
ConnectedMeansOpen == status = "connected" <=> socket = "open"

\* A link that stays wanted keeps getting its connection back.
KeepsConnecting == []<>(status = "connected" \/ closed \/ rejected)
=============================================================================
