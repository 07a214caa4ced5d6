------------------------------- MODULE Catchup -------------------------------
(***************************************************************************)
(* How a host fetches from a peer what it missed: the catchup protocol     *)
(* (src/src/mesh/catchup.ts), the watermark the bridge keeps for the peer  *)
(* (src/src/mesh/bridge.ts, saved in team_peers), and the live events that *)
(* race with it.                                                           *)
(*                                                                         *)
(* One direction between two hosts and one team: a "client" catches up     *)
(* with a "server".  Both dial each other, so that two sockets join them:  *)
(* the client's own, which carries requests, chunks and live events, and   *)
(* the server's, which pushes live events only.  An event is its id; ids   *)
(* are ULIDs, ordered numbers here, and 0 is "no watermark".  A host does  *)
(* not mint them in order (one ULID is random after the millisecond, and   *)
(* the stamp of an event may run ahead of the clock), so that an event may *)
(* be stored after one of a higher id.  Events that fail the scope check,  *)
(* and envelopes of a wrong key, are left out.                             *)
(***************************************************************************)
EXTENDS Integers, Sequences, FiniteSets, SequencesExt

CONSTANTS
    N,         \* the team's events are 1 .. N
    Relayed,   \* those the server received from a third host, at any time
    ChunkSize,
    MaxQueue,  \* envelopes the server's link keeps while it is down
    MaxCuts    \* bound on lost connections and restarts

CatchupAssumption ==
    /\ N \in Nat /\ Relayed \subseteq 1 .. N
    /\ {ChunkSize, MaxQueue} \subseteq Nat \ {0}
    /\ MaxCuts \in Nat

Event == 1 .. N
Id == 0 .. N
None == -1

VARIABLES
    log,       \* server: its events table
    backlog,   \* server: the queue of its outbound link
    dialed,    \* the client's socket: "down", "open" (hello on its way), "live"
    toServer,  \* catchup requests on that socket, after the hello
    toClient,  \* chunks and live events on that socket
    pushing,   \* is the server's socket to the client open
    pushed,    \* live events on that socket
    received,  \* client: its events table
    seen,      \* client: the bus's dispatched-id memo; in memory
    handled,   \* client: how often this process dispatched the event
    mark,      \* client: peerWatermarks; in memory
    saved,     \* client: team_peers.last_received_event_id
    request,   \* client: watermark of the catchup in flight, or None
    since,     \* the watermark that catchup started from
    atDial,    \* what the server had stored when the client last dialed it
    cuts

server == <<log, backlog>>
client == <<received, seen, handled, mark, saved>>
history == <<since, atDial>>
vars == <<log, backlog, dialed, toServer, toClient, pushing, pushed, received, seen,
          handled, mark, saved, request, since, atDial, cuts>>

Chunk == [events : SUBSET Event, hasMore : BOOLEAN]
Live == [event : Event]

TypeOK ==
    /\ log \subseteq Event /\ atDial \subseteq log
    /\ received \subseteq Event /\ seen \subseteq Event
    /\ backlog \in Seq(Event) /\ Len(backlog) <= MaxQueue
    /\ dialed \in {"down", "open", "live"} /\ pushing \in BOOLEAN
    /\ toServer \in Seq(Id) /\ toClient \in Seq(Chunk \cup Live) /\ pushed \in Seq(Event)
    /\ handled \in [Event -> Nat]
    /\ mark \in Id /\ saved \in Id /\ since \in Id /\ request \in Id \cup {None}
    /\ cuts \in 0 .. MaxCuts

Init ==
    /\ log = {} /\ received = {} /\ seen = {} /\ atDial = {}
    /\ backlog = <<>> /\ toServer = <<>> /\ toClient = <<>> /\ pushed = <<>>
    /\ dialed = "down" /\ pushing = FALSE
    /\ handled = [e \in Event |-> 0]
    /\ mark = 0 /\ saved = 0 /\ request = None /\ since = 0
    /\ cuts = 0

----------------------------------------------------------------------------
(* The server *)

\* Mutant: nothing is dropped.
QueuedUnbounded(e) == Append(backlog, e)

\* PeerLink.send while the socket is not open: beyond the cap the oldest goes.
Queued(e) ==
    LET all == Append(backlog, e)
    IN  IF Len(all) > MaxQueue THEN Tail(all) ELSE all

\* A local durable event: stored, then broadcast on its outbound link and on
\* the inbound socket of a client whose hello it has processed.
Publish(e) ==
    /\ e \in Event \ (Relayed \cup log)
    /\ log' = log \cup {e}
    /\ IF pushing THEN pushed' = Append(pushed, e) /\ UNCHANGED backlog
                  ELSE backlog' = Queued(e) /\ UNCHANGED pushed
    /\ toClient' = IF dialed = "live" THEN Append(toClient, [event |-> e]) ELSE toClient
    /\ UNCHANGED <<dialed, toServer, pushing, client, request, history, cuts>>

\* An event injected from a third host is stored and not reflected to peers.
Relay(e) ==
    /\ e \in Relayed \ log
    /\ log' = log \cup {e}
    /\ UNCHANGED <<backlog, dialed, toServer, toClient, pushing, pushed, client,
                   request, history, cuts>>

\* The server's link opens: its queue is flushed behind the hello.
PushOpens ==
    /\ ~pushing
    /\ pushing' = TRUE
    /\ pushed' = backlog
    /\ backlog' = <<>>
    /\ UNCHANGED <<log, dialed, toServer, toClient, client, request, history, cuts>>

\* onPeerHello: the client's socket becomes an inbound link.
Hello ==
    /\ dialed = "open"
    /\ dialed' = "live"
    /\ UNCHANGED <<server, toServer, toClient, pushing, pushed, client, request,
                   history, cuts>>

\* The rows of one chunk: id > since, in id order, at most ChunkSize.
Rows(from) ==
    LET newer == {e \in log : e > from}
    IN  {e \in newer : Cardinality({f \in newer : f < e}) < ChunkSize}

\* Mutant: a full chunk is taken for the last one.
HasMoreStrict(rows) == Cardinality(rows) > ChunkSize

\* Mutant: every chunk announces another one.
HasMoreAlways(rows) == Cardinality(rows) <= ChunkSize

HasMore(rows) == Cardinality(rows) = ChunkSize

\* serve()
Serve ==
    /\ dialed = "live" /\ toServer # <<>>
    /\ toServer' = Tail(toServer)
    /\ LET rows == Rows(Head(toServer)) IN
       toClient' = Append(toClient, [events |-> rows, hasMore |-> HasMore(rows)])
    /\ UNCHANGED <<server, dialed, pushing, pushed, client, request, history, cuts>>

----------------------------------------------------------------------------
(* The client *)

\* The client's link opens: hello, then a request from the current watermark.
DialOpens ==
    /\ dialed = "down"
    /\ dialed' = "open"
    /\ request' = mark
    /\ since' = mark
    /\ atDial' = log
    /\ toServer' = <<mark>>
    /\ UNCHANGED <<server, toClient, pushing, pushed, client, cuts>>

\* Mutant: inject dispatches whatever it persists.
InjectedWithoutMemo(S) ==
    /\ received' = received \cup S
    /\ seen' = seen \cup S
    /\ handled' = [e \in Event |-> IF e \in S THEN handled[e] + 1 ELSE handled[e]]

\* bus.inject of every event of S: persisted, then dispatched unless the
\* process has dispatched it before.
Injected(S) ==
    /\ received' = received \cup S
    /\ seen' = seen \cup S
    /\ handled' = [e \in Event |-> IF e \in S \ seen THEN handled[e] + 1 ELSE handled[e]]

\* dispatchEnvelope of a live event: the watermark is raised before the event
\* is handed to the bus.
Accepted(e) ==
    /\ Injected({e})
    /\ mark' = IF e > mark THEN e ELSE mark
    /\ saved' = IF e > mark THEN e ELSE saved

LiveOnDial ==
    /\ toClient # <<>> /\ Head(toClient) \in Live
    /\ toClient' = Tail(toClient)
    /\ Accepted(Head(toClient).event)
    /\ UNCHANGED <<server, dialed, toServer, pushing, pushed, request, history, cuts>>

LiveOnPush ==
    /\ pushed # <<>>
    /\ pushed' = Tail(pushed)
    /\ Accepted(Head(pushed))
    /\ UNCHANGED <<server, dialed, toServer, toClient, pushing, request, history, cuts>>

\* handleChunk: inject every event; the watermark becomes the highest id of
\* this catchup, whatever live events did to it; ask for more, or finish.
HandleChunk ==
    LET chunk == Head(toClient)
        top == CHOOSE w \in chunk.events \cup {request} :
                  \A e \in chunk.events \cup {request} : e <= w
    IN
    /\ toClient # <<>> /\ Head(toClient) \in Chunk
    /\ toClient' = Tail(toClient)
    /\ request # None
    /\ Injected(chunk.events)
    /\ IF top # request THEN mark' = top /\ saved' = top ELSE UNCHANGED <<mark, saved>>
    /\ IF chunk.hasMore THEN request' = top /\ toServer' = Append(toServer, top)
                        ELSE request' = None /\ UNCHANGED toServer
    /\ UNCHANGED <<server, dialed, pushing, pushed, history, cuts>>

----------------------------------------------------------------------------
(* Failures *)

Cut == cuts < MaxCuts /\ cuts' = cuts + 1

DialLost == dialed' = "down" /\ toServer' = <<>> /\ toClient' = <<>>

\* Mutant: the catchup of a lost link is not cancelled.
DialCutUncancelled ==
    /\ Cut /\ dialed # "down"
    /\ DialLost
    /\ UNCHANGED <<server, pushing, pushed, client, request, history>>

\* The client's socket closes with what it carried; the status change cancels
\* the catchup.  The server forgets the inbound link at the same time.
DialCut ==
    /\ Cut /\ dialed # "down"
    /\ DialLost
    /\ request' = None
    /\ UNCHANGED <<server, pushing, pushed, client, history>>

\* The server's socket closes with what it carried.
PushCut ==
    /\ Cut /\ pushing
    /\ pushing' = FALSE /\ pushed' = <<>>
    /\ UNCHANGED <<server, dialed, toServer, toClient, client, request, history>>

\* The client's daemon restarts: addPeer takes the watermark from team_peers.
ClientRestarts ==
    /\ Cut
    /\ DialLost
    /\ pushing' = FALSE /\ pushed' = <<>>
    /\ seen' = {} /\ handled' = [e \in Event |-> 0]
    /\ mark' = saved
    /\ request' = None
    /\ UNCHANGED <<server, received, saved, history>>

\* The server's daemon restarts: what its link had queued is gone.
ServerRestarts ==
    /\ Cut
    /\ DialLost
    /\ pushing' = FALSE /\ pushed' = <<>>
    /\ backlog' = <<>>
    /\ request' = None
    /\ UNCHANGED <<log, client, history>>

Deliver == Hello \/ Serve \/ LiveOnDial \/ LiveOnPush \/ HandleChunk

Next ==
    \/ \E e \in Event : Publish(e) \/ Relay(e)
    \/ PushOpens \/ DialOpens
    \/ Deliver
    \/ DialCut \/ PushCut \/ ClientRestarts \/ ServerRestarts

Spec == Init /\ [][Next]_vars

\* Sockets deliver what they carry, and a lost link is dialed again.
Fairness ==
    /\ WF_vars(Hello) /\ WF_vars(Serve)
    /\ WF_vars(LiveOnDial) /\ WF_vars(LiveOnPush) /\ WF_vars(HandleChunk)
    /\ WF_vars(PushOpens) /\ WF_vars(DialOpens)

FairSpec == Spec /\ Fairness

----------------------------------------------------------------------------
(* Properties *)

InTransit == {m.event : m \in {x \in ToSet(toClient) : x \in Live}}

\* What a catchup answers for: what the server had stored when the client
\* dialed, relayed or its own, and what it published itself since then.
Owed == atDial \cup (log \ Relayed)

\* Of that, a catchup that ends with its link up has brought every event above
\* the watermark it began with, or it follows on the same socket: paging, live
\* events in between and events stored meanwhile leave no hole.  An id at or
\* below that watermark is not asked for (CatchupGap shows one that is lost),
\* nor is an event the server relays after the last page.
CatchupCompletes ==
    [][request # None /\ request' = None /\ dialed' # "down" =>
         {e \in Owed : e > since} \subseteq received' \cup InTransit']_vars

\* While a catchup is in flight exactly one request or chunk is on its way, and
\* otherwise none: pages are neither doubled nor abandoned, and the catchup of
\* a lost link is over.
OneOutstanding ==
    Len(toServer) + Cardinality({i \in DOMAIN toClient : toClient[i] \in Chunk})
        = IF request = None THEN 0 ELSE 1

\* Chunks, live events and the second socket overlap, but a process dispatches
\* an event to its handlers once.
HandledOnce == \A e \in Event : handled[e] <= 1

\* Every catchup ends: with its last chunk, or with its link.
CatchupEnds == request # None ~> request = None

\* Nothing is on its way and both links are up.
Settled ==
    /\ dialed = "live" /\ pushing
    /\ toServer = <<>> /\ toClient = <<>> /\ pushed = <<>>
    /\ request = None

\* "an offline cell catches up on reconnect" (src/docs/design/LOG.md:978): once
\* both links are back and idle, the client has what the server had published
\* before the client dialed it.
CaughtUp == Settled => atDial \ Relayed \subseteq received
=============================================================================
