---------------------------- MODULE Connections ----------------------------
(***************************************************************************)
(* The three connections of the program, in one run: the link to a peer,   *)
(* the session of a client with the daemon, and the channel between a host *)
(* and a guest.  They share no state; one is used in a behaviour, the      *)
(* others stay as they began.                                              *)
(***************************************************************************)
EXTENDS PeerLink

CONSTANTS
    Methods, Configs, MaxRequests, MaxEvents,   \* of the session
    Streamers, Quota, MaxIds, MaxItems          \* of the channel

VARIABLES
    part,
    services, up, sawClose, nextId, call, stream, toServer, toClient, subs, listening,
    busy, events, answers, late,
    open, next, calls, taps, frames, work, producing, items, final

MCConfigs == {{}, {"inbox", "tools", "human"}}
MCQuota == [e \in {"host", "guest"} |-> IF e = "host" THEN 2 ELSE 1]

Session == INSTANCE IpcSession WITH MaxId <- MaxRequests
Channel == INSTANCE VmChannel WITH
    Ends <- {"host", "guest"}, MaxId <- MaxIds, wire <- frames

ASSUME PartsAssumption == Session!SessionAssumption /\ Channel!ChannelAssumption

ipcVars == <<services, up, sawClose, nextId, call, stream, toServer, toClient, subs,
             listening, busy, events, answers, late>>
vmVars == <<open, next, calls, taps, frames, work, producing, items, final>>
connectionVars == <<part, vars, ipcVars, vmVars>>

ConnectionInit ==
    /\ part \in {"link", "session", "channel"}
    /\ Init /\ Session!Init /\ Channel!Init
    /\ part # "session" => services = {}

LinkStep ==
    /\ part = "link" /\ Next
    /\ UNCHANGED <<part, ipcVars, vmVars>>

SessionStep ==
    /\ part = "session" /\ Session!Next
    /\ UNCHANGED <<part, vars, vmVars>>

ChannelStep ==
    /\ part = "channel" /\ Channel!Next
    /\ UNCHANGED <<part, vars, ipcVars>>

ConnectionNext == LinkStep \/ SessionStep \/ ChannelStep

(* The fairness of the link and of the session; in the initial states of a  *)
(* session none of its own is enabled, so that it asks nothing of the link. *)
ConnectionSpec ==
    /\ ConnectionInit /\ [][ConnectionNext]_connectionVars
    /\ WF_vars(part = "link" /\ Connect /\ socket' = "connecting")
    /\ WF_vars(part = "link" /\ SocketCloses /\ socket = "closing")
    /\ SF_vars(part = "link" /\ Open)
    /\ Session!SessionFairness

----------------------------------------------------------------------------
(* The first envelope on a socket is the hello, then each one that was sent *)
(* goes once and in order; a wanted link always has a socket or a timer,    *)
(* and one that says connected has an open socket (mesh/peer.ts:194-325).   *)
LinkIsKept == TypeOK /\ HelloThenInOrder /\ NeverStranded /\ ConnectedMeansOpen

(* A request has one answer, one last frame on a channel, and a connection  *)
(* that is gone leaves nothing behind; whoever waits on a channel has a     *)
(* frame, a handler or a report of its end still to come (ipc/server.ts:    *)
(* 154-296, vm/channel.ts:100-321).                                         *)
OneAnswer ==
    /\ Session!TypeOK /\ Session!OneAnswerNoLeak
    /\ Channel!TypeOK /\ Channel!OneLastFrame /\ Channel!EveryoneIsTold

(* Every call of a session settles, every consumer that waits is let go,    *)
(* and a wanted link comes back (IpcSession, PeerLink).                     *)
CallsSettle ==
    /\ Session!CallsSettle
    /\ []<>(part # "link" \/ status = "connected" \/ closed \/ rejected)
=============================================================================
