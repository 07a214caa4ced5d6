----------------------------- MODULE VmChannel -----------------------------
(***************************************************************************)
(* The line-JSON peer of a host and a guest (vm/channel.ts).  Both ends     *)
(* call and serve, each with ids of its own; a request may be answered once *)
(* or switch to a stream, which its caller can cancel.                      *)
(***************************************************************************)
EXTENDS Naturals, Sequences

CONSTANTS Ends, MaxId, MaxItems,
          Streamers,   \* ends that open streams
          Quota    \* with MaxId and MaxItems, bounds: the requests each end sends

ChannelAssumption == MaxItems \in Nat /\ MaxId \in Nat /\ Quota \in [Ends -> 0..MaxId]

VARIABLES
    open,      \* open[e]: ~isClosed
    next,      \* next[e]: nextId
    calls,     \* calls[e][id]: a call of e, as its promise stands
    taps,      \* taps[e][id]: the stream e consumes
    wire,      \* wire[e]: frames on their way to e
    work,      \* work[e][id]: the handler e runs for the other end's request
    producing, \* producing[e]: ids whose stream e can be told to abort
    items,     \* items[e][id]: items pushed
    \* history
    final      \* final[e][id]: last frames sent for a request

channelVars == <<open, next, calls, taps, wire, work, producing, items, final>>

Ids == 1..MaxId
Other(e) == CHOOSE f \in Ends : f # e
Idle == [st |-> "none", aborted |-> FALSE, streams |-> FALSE]

(* "last" ends a stream, well or with an error; "answer" is a value or one. *)
Kinds == {"call", "stream", "$cancel", "data", "last", "answer"}

TypeOK ==
    /\ open \in [Ends -> BOOLEAN] /\ next \in [Ends -> 1..MaxId + 1]
    /\ calls \in [Ends -> [Ids -> {"none", "pending", "settled"}]]
    /\ taps \in [Ends -> [Ids -> [st : {"none", "live", "ended", "cancelled"}, waiting : BOOLEAN,
                                  by : 0..MaxId]]]
    /\ \A e \in Ends : wire[e] \in Seq([kind : Kinds, id : Ids, target : 0..MaxId])
    /\ work \in [Ends -> [Ids -> [st : {"none", "queued", "plain", "streaming", "ended", "done", "answered"},
                           aborted : BOOLEAN, streams : BOOLEAN]]]
    /\ producing \in [Ends -> SUBSET Ids] /\ items \in [Ends -> [Ids -> 0..MaxItems]]
    /\ final \in [Ends -> [Ids -> 0..2]]

Init ==
    /\ open = [e \in Ends |-> TRUE] /\ next = [e \in Ends |-> 1]
    /\ calls = [e \in Ends |-> [i \in Ids |-> "none"]]
    /\ taps = [e \in Ends |-> [i \in Ids |-> [st |-> "none", waiting |-> FALSE, by |-> 0]]]
    /\ wire = [e \in Ends |-> <<>>]
    /\ work = [e \in Ends |-> [i \in Ids |-> Idle]]
    /\ producing = [e \in Ends |-> {}]
    /\ items = [e \in Ends |-> [i \in Ids |-> 0]] /\ final = [e \in Ends |-> [i \in Ids |-> 0]]

Frame(kind, id, target) == [kind |-> kind, id |-> id, target |-> target]

(* send: nothing once this end is closed; nothing arrives at a closed one.  *)
Sent(e, f) ==
    IF open[e] /\ open[Other(e)] THEN [wire EXCEPT ![Other(e)] = Append(@, f)] ELSE wire

----------------------------------------------------------------------------
(* The caller *)

Call(e) ==
    /\ next[e] <= Quota[e]
    /\ next' = [next EXCEPT ![e] = @ + 1]
    /\ calls' = [calls EXCEPT ![e][next[e]] = IF open[e] THEN "pending" ELSE "settled"]
    /\ wire' = Sent(e, Frame("call", next[e], 0))
    /\ UNCHANGED <<open, taps, work, producing, items, final>>

(* stream: one that is opened on a closed channel ends with an error.       *)
Stream(e) ==
    /\ e \in Streamers /\ next[e] <= Quota[e]
    /\ next' = [next EXCEPT ![e] = @ + 1]
    /\ taps' = [taps EXCEPT ![e][next[e]].st = IF open[e] THEN "live" ELSE "ended"]
    /\ wire' = Sent(e, Frame("stream", next[e], 0))
    /\ UNCHANGED <<open, calls, work, producing, items, final>>

(* next() with nothing buffered.                                            *)
Await(e, i) ==
    /\ taps[e][i].st = "live" /\ ~taps[e][i].waiting
    /\ taps' = [taps EXCEPT ![e][i].waiting = TRUE]
    /\ UNCHANGED <<open, next, calls, wire, work, producing, items, final>>

Cancel(e, i) ==
    /\ taps[e][i].st = "live" /\ next[e] <= Quota[e]
    /\ next' = [next EXCEPT ![e] = @ + 1]
    /\ taps' = [taps EXCEPT ![e][i].st = "cancelled", ![e][i].by = next[e]]
    /\ calls' = [calls EXCEPT ![e][next[e]] = IF open[e] THEN "pending" ELSE "settled"]
    /\ wire' = Sent(e, Frame("$cancel", next[e], i))
    /\ UNCHANGED <<open, work, producing, items, final>>

CancelReturns(e, i) ==
    /\ taps[e][i].st = "cancelled" /\ taps[e][i].waiting
    /\ calls[e][taps[e][i].by] # "pending"
    /\ taps' = [taps EXCEPT ![e][i].waiting = FALSE]
    /\ UNCHANGED <<open, next, calls, wire, work, producing, items, final>>

----------------------------------------------------------------------------
(* handleFrame *)

(* A request goes to the handler at its next turn of the event loop; a      *)
(* cancel aborts the stream it names, if there is one yet.                  *)
Inbound(e, f) ==
    IF f.kind = "$cancel"
    THEN /\ work' = [work EXCEPT ![e][f.target].aborted = @ \/ f.target \in producing[e]]
         /\ producing' = [producing EXCEPT ![e] = @ \ {f.target}]
         /\ wire' = [Sent(e, Frame("answer", f.id, 0)) EXCEPT ![e] = Tail(@)]
         /\ final' = [final EXCEPT ![e][f.id] = @ + 1]
         /\ UNCHANGED <<calls, taps>>
    ELSE /\ work' = [work EXCEPT ![e][f.id] =
                [Idle EXCEPT !.st = "queued", !.streams = f.kind = "stream"]]
         /\ wire' = [wire EXCEPT ![e] = Tail(@)]
         /\ UNCHANGED <<calls, taps, producing, final>>

(* An answer settles its call; a frame of a stream goes to its consumer.    *)
Outbound(e, f) ==
    /\ IF f.kind = "answer"
       THEN /\ calls' = [calls EXCEPT ![e][f.id] = IF @ = "pending" THEN "settled" ELSE @]
            /\ UNCHANGED taps
       ELSE /\ taps' = [taps EXCEPT ![e][f.id] =
                IF @.st # "live" THEN @
                ELSE [@ EXCEPT !.waiting = FALSE, !.st = IF f.kind = "data" THEN "live" ELSE "ended"]]
            /\ UNCHANGED calls
    /\ wire' = [wire EXCEPT ![e] = Tail(@)]
    /\ UNCHANGED <<work, producing, final>>

HandleFrame(e) ==
    /\ open[e] /\ wire[e] # <<>>
    /\ LET f == Head(wire[e])
       IN  IF f.kind \in {"call", "stream", "$cancel"} THEN Inbound(e, f) ELSE Outbound(e, f)
    /\ UNCHANGED <<open, next, items>>

----------------------------------------------------------------------------
(* The handler *)

Start(e, i) ==
    /\ work[e][i].st = "queued"
    /\ work' = [work EXCEPT ![e][i].st = "plain"]
    /\ UNCHANGED <<open, next, calls, taps, wire, producing, items, final>>

(* ctx.stream(), for a method that streams: from now on the caller's cancel *)
(* reaches the signal.                                                      *)
GoStream(e, i) ==
    /\ work[e][i].st = "plain" /\ work[e][i].streams
    /\ work' = [work EXCEPT ![e][i].st = "streaming"]
    /\ producing' = [producing EXCEPT ![e] = @ \cup {i}]
    /\ UNCHANGED <<open, next, calls, taps, wire, items, final>>

Push(e, i) ==
    /\ work[e][i].st = "streaming" /\ items[e][i] < MaxItems
    /\ items' = [items EXCEPT ![e][i] = @ + 1]
    /\ wire' = Sent(e, Frame("data", i, 0))
    /\ UNCHANGED <<open, next, calls, taps, work, producing, final>>

(* end() or error() of the controller; it may be followed by anything.      *)
End(e, i) ==
    /\ work[e][i].st = "streaming"
    /\ work' = [work EXCEPT ![e][i].st = "ended"]
    /\ producing' = [producing EXCEPT ![e] = @ \ {i}]
    /\ wire' = Sent(e, Frame("last", i, 0))
    /\ final' = [final EXCEPT ![e][i] = @ + 1]
    /\ UNCHANGED <<open, next, calls, taps, items>>

\* Mutant: a handler that throws after it has ended its stream reports again.
ReturnTwice(e, i) ==
    /\ work[e][i].st \in {"plain", "streaming", "ended"}
    /\ work' = [work EXCEPT ![e][i].st = "done"]
    /\ producing' = [producing EXCEPT ![e] = @ \ {i}]
    /\ final' = [final EXCEPT ![e][i] = @ + 1]
    /\ wire' = Sent(e, Frame(IF work[e][i].st = "plain" THEN "answer" ELSE "last", i, 0))
    /\ UNCHANGED <<open, next, calls, taps, items>>

(* The handler's promise is settled: a stream it left open is ended, and    *)
(* one that has ended says no more.                                         *)
Return(e, i) ==
    /\ work[e][i].st \in {"plain", "streaming", "ended"}
    /\ work' = [work EXCEPT ![e][i].st = IF @ = "plain" THEN "answered" ELSE "done"]
    /\ producing' = [producing EXCEPT ![e] = @ \ {i}]
    /\ IF work[e][i].st = "ended" THEN UNCHANGED <<wire, final>>
       ELSE /\ final' = [final EXCEPT ![e][i] = @ + 1]
            /\ wire' = Sent(e, Frame(IF work[e][i].st = "plain" THEN "answer" ELSE "last", i, 0))
    /\ UNCHANGED <<open, next, calls, taps, items>>

\* Mutant: the streams are cleared without being ended.
CloseQuietly(e) ==
    /\ open[e]
    /\ open' = [open EXCEPT ![e] = FALSE]
    /\ calls' = [calls EXCEPT ![e] = [i \in Ids |-> IF @[i] = "pending" THEN "settled" ELSE @[i]]]
    /\ work' = [work EXCEPT ![e] = [i \in Ids |-> [work[e][i] EXCEPT !.aborted = @ \/ i \in producing[e]]]]
    /\ producing' = [producing EXCEPT ![e] = {}]
    /\ wire' = [wire EXCEPT ![e] = <<>>]
    /\ UNCHANGED <<next, taps, items, final>>

(* close, or the end of the transport: everything that waits is told, and   *)
(* every stream that is being produced is aborted.                          *)
Close(e) ==
    /\ open[e]
    /\ open' = [open EXCEPT ![e] = FALSE]
    /\ calls' = [calls EXCEPT ![e] = [i \in Ids |-> IF @[i] = "pending" THEN "settled" ELSE @[i]]]
    /\ taps' = [taps EXCEPT ![e] = [i \in Ids |->
           IF @[i].st \in {"live", "ended"} THEN [@[i] EXCEPT !.st = "ended", !.waiting = FALSE] ELSE @[i]]]
    /\ work' = [work EXCEPT ![e] = [i \in Ids |-> [work[e][i] EXCEPT !.aborted = @ \/ i \in producing[e]]]]
    /\ producing' = [producing EXCEPT ![e] = {}]
    /\ wire' = [wire EXCEPT ![e] = <<>>]
    /\ UNCHANGED <<next, items, final>>

PeerGone(e) == ~open[Other(e)] /\ Close(e)

Next ==
    \E e \in Ends :
        \/ Call(e)
        \/ Stream(e)
        \/ HandleFrame(e)
        \/ Close(e)
        \/ \E i \in Ids :
            \/ Await(e, i)
            \/ Cancel(e, i)
            \/ CancelReturns(e, i)
            \/ Start(e, i)
            \/ GoStream(e, i)
            \/ Push(e, i)
            \/ End(e, i)
            \/ Return(e, i)

Spec == Init /\ [][Next]_channelVars

----------------------------------------------------------------------------
(* A request has one last frame, whatever its handler does after the end of *)
(* its stream (vm/channel.ts:145-187), and what can be aborted is exactly   *)
(* what still streams on an open channel.                                   *)
OneLastFrame ==
    \A e \in Ends, i \in Ids :
        /\ final[e][i] <= 1
        /\ i \in producing[e] => work[e][i].st = "streaming"

(* Whoever waits will be told, although both ends use the same ids and      *)
(* either may close at any time (vm/channel.ts:290-302): its request is on  *)
(* the way or in the hands of a handler, or the answer is coming back, or   *)
(* the transport has yet to report that the other end is gone.  The         *)
(* exception is a stream request that is answered like a call, by a handler *)
(* that fails first or does not stream: no call of that id waits, and its   *)
(* consumer is told nothing until the channel closes.                       *)
EveryoneIsTold ==
    \A e \in Ends, i \in Ids :
        LET o == Other(e)
            OnWire(end, kinds) == \E n \in 1..Len(wire[end]) :
                wire[end][n].id = i /\ wire[end][n].kind \in kinds
            Coming(kinds) == open[e] /\
                \/ ~open[o]
                \/ OnWire(o, {"call", "stream", "$cancel"})
                \/ work[o][i].st \in {"queued", "plain", "streaming"}
                \/ OnWire(e, kinds)
        IN  /\ calls[e][i] = "pending" => Coming({"answer"})
            /\ taps[e][i].waiting /\ taps[e][i].st # "cancelled"
                => Coming({"last"}) \/ work[o][i].st = "answered"

(* The signal of a request "aborts when the caller cancels the stream or    *)
(* the transport closes" (vm/channel.ts:45).                                *)
SignalFollowsClose ==
    \A e \in Ends, i \in Ids :
        ~open[e] /\ work[e][i].st \in {"plain", "streaming"} => work[e][i].aborted
=============================================================================
