----------------------------- MODULE IpcSession -----------------------------
(***************************************************************************)
(* One connection to the daemon's socket: the client (ipc/client.ts), the   *)
(* two directions of the stream, and the dispatcher behind it               *)
(* (ipc/server.ts).  Requests are answered by id, the slow ones out of      *)
(* order; a tail is a subscription to the bus that lasts until it is        *)
(* cancelled or the connection goes.                                        *)
(***************************************************************************)
EXTENDS Naturals, SequencesExt

CONSTANTS
    Methods,       \* the methods the client uses here
    Configs,       \* the sets of services daemons are wired with
    MaxId,         \* bound: requests of one client
    MaxEvents      \* bound: events of the bus

SessionAssumption == MaxId \in Nat /\ MaxEvents \in Nat

VARIABLES
    services,      \* what createIpcServer was given
    up,            \* the socket is connected
    sawClose,      \* didClose of the client
    nextId,
    call,          \* call[id]: "none", "pending", "ok", "error" or "closed"
    stream,        \* stream[id]: the client's side of a tail
    toServer, toClient,
    subs,          \* subscriptions of the connection: the ids they are kept by
    listening,     \* subscribers the connection has on the bus, by id
    busy,          \* requests a handler still awaits something for
    events,        \* events published so far
    \* history
    answers,       \* answers[id]: one-shot answers the server has sent
    late           \* requests made after the client has seen the close

sessionVars == <<services, up, sawClose, nextId, call, stream, toServer, toClient, subs, listening,
                 busy, events, answers, late>>

Ids == 1..MaxId
NoStream == [st |-> "none", buf |-> 0, waiting |-> FALSE, by |-> 0]

(* The methods: what of the daemon one needs, or else answers an error;      *)
(* whether it refuses a request without its parameters; whether its handler *)
(* awaits something that can fail; whether it can fail at once.             *)
Method(needs, params, slow, throws) ==
    [needs |-> needs, params |-> params, slow |-> slow, throws |-> throws]

DaemonMethods ==
    [m \in {"version", "status", "status.chat"} |-> Method({}, FALSE, FALSE, FALSE)]
    @@ [m \in {"publish", "chat.cancel"} |-> Method({}, TRUE, FALSE, FALSE)]
    @@ ("status.rootAgent" :> Method({"rootAgent"}, FALSE, FALSE, FALSE))
ExtensionMethods ==
    ("extensions.list" :> Method({}, FALSE, TRUE, FALSE))
    @@ ("extensions.reload" :> Method({"extensions"}, TRUE, TRUE, FALSE))
    @@ ("extensions.history" :> Method({"paths"}, TRUE, FALSE, TRUE))
    @@ ("starters.list" :> Method({}, FALSE, FALSE, FALSE))
    @@ ("starters.install" :> Method({"paths", "extensions"}, TRUE, TRUE, TRUE))
RevertMethods == "extensions.revert" :> Method({"paths", "extensions"}, TRUE, TRUE, TRUE)
SettingMethods ==
    ("secrets.list" :> Method({"paths"}, FALSE, FALSE, FALSE))
    @@ [m \in {"secrets.set", "secrets.remove"} |-> Method({"paths"}, TRUE, FALSE, TRUE)]
    @@ ("model.get" :> Method({}, FALSE, FALSE, FALSE))
    @@ ("model.set" :> Method({"paths"}, TRUE, FALSE, TRUE))
LedgerMethods ==
    [m \in {"observability.usage", "observability.budget", "observability.runs",
            "observability.threads", "observability.events", "observability.teams"} |->
        Method({"store"}, FALSE, FALSE, FALSE)]
    @@ ("observability.self" :> Method({"store"}, TRUE, FALSE, TRUE))
    @@ ("budget.set" :> Method({"store", "human"}, TRUE, FALSE, TRUE))
InboxMethods ==
    ("inbox.list" :> Method({"inbox", "human"}, FALSE, FALSE, FALSE))
    @@ [m \in {"inbox.get", "inbox.respond"} |-> Method({"inbox"}, TRUE, FALSE, TRUE)]
    @@ ("inbox.count" :> Method({}, FALSE, FALSE, FALSE))
TeamMethods ==
    [m \in {"team.create", "team.invite", "team.join", "team.leave", "team.status"} |->
        Method({"mesh", "human"}, FALSE, TRUE, FALSE)]
ToolMethods == [m \in {"tools.list", "tools.call"} |-> Method({"tools"}, TRUE, TRUE, FALSE)]

AllMethods ==
    DaemonMethods @@ ExtensionMethods @@ RevertMethods @@ SettingMethods @@ LedgerMethods
    @@ InboxMethods @@ TeamMethods @@ ToolMethods

(* An unknown method is refused like one whose service is missing.          *)
Refused(r) ==
    r.m \in DOMAIN AllMethods =>
        \/ ~(AllMethods[r.m].needs \subseteq services)
        \/ AllMethods[r.m].params /\ ~r.valid
Throws(r) == r.m \in DOMAIN AllMethods /\ AllMethods[r.m].throws
Awaits(r) ==
    AllMethods[r.m].slow /\ (r.m = "extensions.list" => "extensions" \in services)

TypeOK ==
    /\ up \in BOOLEAN /\ sawClose \in BOOLEAN /\ nextId \in 1..MaxId + 1
    /\ call \in [Ids -> {"none", "pending", "ok", "error", "closed"}]
    /\ stream \in [Ids -> [st : {"none", "live", "ended", "failed", "cancelled"},
                           buf : 0..MaxEvents, waiting : BOOLEAN, by : 0..MaxId]]
    /\ subs \subseteq Ids /\ listening \subseteq Ids /\ events \in 0..MaxEvents
    /\ answers \in [Ids -> 0..2]

Init ==
    /\ services \in Configs
    /\ up = TRUE /\ sawClose = FALSE /\ nextId = 1
    /\ call = [i \in Ids |-> "none"] /\ stream = [i \in Ids |-> NoStream]
    /\ toServer = <<>> /\ toClient = <<>>
    /\ subs = {} /\ listening = {} /\ busy = {} /\ events = 0
    /\ answers = [i \in Ids |-> 0] /\ late = {}

----------------------------------------------------------------------------
(* The client *)

(* A write to a socket that is gone is dropped.                             *)
Write(r) == toServer' = IF up THEN Append(toServer, r) ELSE toServer

(* call: also after the close has been seen, when nothing settles it: late. *)
Call(m, valid) ==
    /\ nextId \in Ids
    /\ call' = [call EXCEPT ![nextId] = "pending"]
    /\ nextId' = nextId + 1
    /\ Write([id |-> nextId, m |-> m, valid |-> valid, target |-> 0])
    /\ late' = IF sawClose THEN late \cup {nextId} ELSE late
    /\ UNCHANGED <<services, up, sawClose, stream, toClient, subs, listening, busy, events, answers>>

OpenTail ==
    /\ nextId \in Ids
    /\ stream' = [stream EXCEPT ![nextId].st = "live"]
    /\ nextId' = nextId + 1
    /\ Write([id |-> nextId, m |-> "tail", valid |-> TRUE, target |-> 0])
    /\ late' = IF sawClose THEN late \cup {nextId} ELSE late
    /\ UNCHANGED <<services, up, sawClose, call, toClient, subs, listening, busy, events, answers>>

(* next() of the iterator: a buffered event, or wait.                       *)
Take(i) ==
    /\ stream[i].st # "none" /\ ~stream[i].waiting
    /\ \/ stream[i].buf > 0 /\ stream' = [stream EXCEPT ![i].buf = @ - 1]
       \/ stream[i].buf = 0 /\ stream[i].st = "live" /\ stream' = [stream EXCEPT ![i].waiting = TRUE]
    /\ UNCHANGED <<services, up, sawClose, nextId, call, toServer, toClient, subs, listening, busy,
                   events, answers, late>>

(* cancel: deaf at once, and the server is told.                            *)
Cancel(i) ==
    /\ stream[i].st = "live" /\ nextId \in Ids
    /\ stream' = [stream EXCEPT ![i].st = "cancelled", ![i].by = nextId]
    /\ late' = IF sawClose THEN late \cup {nextId} ELSE late
    /\ call' = [call EXCEPT ![nextId] = "pending"]
    /\ nextId' = nextId + 1
    /\ Write([id |-> nextId, m |-> "tail.cancel", valid |-> TRUE, target |-> i])
    /\ UNCHANGED <<services, up, sawClose, toClient, subs, listening, busy, events, answers>>

(* The await of a cancel is over: a consumer that waits is told the end.    *)
CancelReturns(i) ==
    /\ stream[i].st = "cancelled" /\ stream[i].waiting
    /\ call[stream[i].by] # "pending"
    /\ stream' = [stream EXCEPT ![i].waiting = FALSE]
    /\ UNCHANGED <<services, up, sawClose, nextId, call, toServer, toClient, subs, listening, busy,
                   events, answers, late>>

(* A frame for a stream: an event wakes the waiting consumer or is          *)
(* buffered; the end releases it.  Frames of no stream are dropped.         *)
Streamed(f) ==
    LET s == stream[f.id]
    IN  IF s.st = "cancelled" \/ s.st = "none" THEN stream
        ELSE IF f.kind = "data"
             THEN [stream EXCEPT ![f.id] =
                      [s EXCEPT !.waiting = FALSE, !.buf = IF s.waiting THEN @ ELSE @ + 1]]
             ELSE [stream EXCEPT ![f.id] = [s EXCEPT !.st = "ended", !.waiting = FALSE]]

Receive ==
    /\ toClient # <<>> /\ ~sawClose
    /\ LET f == Head(toClient)
       IN  IF f.kind \in {"data", "end"}
           THEN stream' = Streamed(f) /\ UNCHANGED call
           ELSE /\ call' = [call EXCEPT ![f.id] = IF @ = "pending" THEN f.kind ELSE @]
                /\ UNCHANGED stream
    /\ toClient' = Tail(toClient)
    /\ UNCHANGED <<services, up, sawClose, nextId, toServer, subs, listening, busy, events, answers, late>>

\* Mutant: the calls that wait are forgotten rather than failed.
SeeCloseForgetful ==
    /\ ~up /\ ~sawClose
    /\ sawClose' = TRUE
    /\ stream' = [i \in Ids |-> IF stream[i].st \in {"live", "ended"}
                                THEN [stream[i] EXCEPT !.st = "failed", !.waiting = FALSE]
                                ELSE stream[i]]
    /\ toClient' = <<>>
    /\ UNCHANGED <<services, up, nextId, call, toServer, subs, listening, busy, events, answers, late>>

(* onClose: every pending call and every open stream is told.               *)
SeeClose ==
    /\ ~up /\ ~sawClose
    /\ sawClose' = TRUE
    /\ call' = [i \in Ids |-> IF call[i] = "pending" THEN "closed" ELSE call[i]]
    /\ stream' = [i \in Ids |-> IF stream[i].st \in {"live", "ended"}
                                THEN [stream[i] EXCEPT !.st = "failed", !.waiting = FALSE]
                                ELSE stream[i]]
    /\ toClient' = <<>>
    /\ UNCHANGED <<services, up, nextId, toServer, subs, listening, busy, events, answers, late>>

----------------------------------------------------------------------------
(* The server *)

Send(frames) == toClient' = IF up THEN toClient \o frames ELSE toClient
Answer(r, kind) ==
    /\ Send(<<[id |-> r.id, kind |-> kind]>>)
    /\ answers' = [answers EXCEPT ![r.id] = @ + 1]

(* dispatch, for one request: refused, answered at once, or left to a       *)
(* handler that awaits something.                                           *)
Dispatch ==
    /\ up /\ toServer # <<>>
    /\ toServer' = SubSeq(toServer, 2, Len(toServer))
    /\ LET r == Head(toServer)
       IN  \/ /\ r.m = "tail"
              /\ subs' = subs \cup {r.id} /\ listening' = listening \cup {r.id}
              /\ UNCHANGED <<toClient, answers, busy>>
           \/ /\ r.m = "tail.cancel"
              /\ subs' = subs \ {r.target} /\ listening' = listening \ (subs \cap {r.target})
              /\ Send((IF r.target \in subs THEN <<[id |-> r.target, kind |-> "end"]>> ELSE <<>>)
                       \o <<[id |-> r.id, kind |-> "ok"]>>)
              /\ answers' = [answers EXCEPT ![r.id] = @ + 1]
              /\ UNCHANGED busy
           \/ /\ r.m \notin {"tail", "tail.cancel"} /\ (Refused(r) \/ Throws(r))
              /\ Answer(r, "error") /\ UNCHANGED <<subs, listening, busy>>
           \/ /\ r.m \notin {"tail", "tail.cancel"} /\ ~Refused(r)
              /\ IF Awaits(r)
                 THEN busy' = busy \cup {r} /\ UNCHANGED <<toClient, answers>>
                 ELSE Answer(r, "ok") /\ UNCHANGED busy
              /\ UNCHANGED <<subs, listening>>
    /\ UNCHANGED <<services, up, sawClose, nextId, call, stream, events, late>>

(* What a slow handler awaited is there, or has failed.  The connection may *)
(* be gone by then.                                                         *)
Return(r, kind) ==
    /\ r \in busy
    /\ busy' = busy \ {r}
    /\ Answer(r, kind)
    /\ UNCHANGED <<services, up, sawClose, nextId, call, stream, toServer, subs, listening, events,
                   late>>

(* An event on the bus: every tail of the connection gets it.               *)
Publish ==
    /\ events < MaxEvents
    /\ events' = events + 1
    /\ LET to == SetToSeq(listening) IN Send([k \in 1..Len(to) |-> [id |-> to[k], kind |-> "data"]])
    /\ UNCHANGED <<services, up, sawClose, nextId, call, stream, toServer, subs, listening, busy,
                   answers, late>>

\* Mutant: the map is cleared without calling what it holds.
DisconnectLeaking ==
    /\ up
    /\ up' = FALSE
    /\ subs' = {} /\ toServer' = <<>>
    /\ UNCHANGED <<services, sawClose, nextId, call, stream, toClient, listening, busy, events, answers,
                   late>>

(* The socket goes, from either side: the server's cleanup unsubscribes.    *)
Disconnect ==
    /\ up
    /\ up' = FALSE
    /\ subs' = {} /\ listening' = listening \ subs
    /\ toServer' = <<>>
    /\ UNCHANGED <<services, sawClose, nextId, call, stream, toClient, busy, events, answers, late>>

Next ==
    \/ \E m \in Methods, valid \in BOOLEAN : Call(m, valid)
    \/ OpenTail
    \/ \E i \in Ids : Take(i)
    \/ \E i \in Ids : Cancel(i)
    \/ \E i \in Ids : CancelReturns(i)
    \/ Receive
    \/ SeeClose
    \/ Dispatch
    \/ \E r \in busy, kind \in {"ok", "error"} : Return(r, kind)
    \/ Publish
    \/ Disconnect

(* The sockets deliver, the event loops run, and awaited handlers return.   *)
SessionFairness ==
    /\ WF_sessionVars(Receive) /\ WF_sessionVars(SeeClose) /\ WF_sessionVars(Dispatch)
    /\ \A i \in Ids : WF_sessionVars(CancelReturns(i))
    /\ WF_sessionVars(\E r \in busy, kind \in {"ok", "error"} : Return(r, kind))

Spec == Init /\ [][Next]_sessionVars /\ SessionFairness

----------------------------------------------------------------------------
(* A request is answered once at most, and a connection that is gone leaves *)
(* no subscriber behind on the bus (ipc/server.ts:200-206): what listens is *)
(* what the connection can still cancel.                                    *)
OneAnswerNoLeak ==
    /\ \A i \in Ids : answers[i] <= 1
    /\ listening = subs
    /\ ~up => listening = {}

(* Every call that was made before the close was seen settles, whatever the *)
(* order of the answers and whenever the connection goes; and a consumer    *)
(* that waits when its tail is cancelled or the connection goes is let go   *)
(* (ipc/client.ts:45-56, 131-145).                                          *)
CallsSettle ==
    \A i \in Ids :
        /\ (call[i] = "pending" /\ i \notin late ~> call[i] # "pending")
        /\ (stream[i].waiting /\ (stream[i].st = "cancelled" \/ sawClose) /\ i \notin late
            /\ stream[i].by \notin late ~> ~stream[i].waiting)
=============================================================================
