----------------------------- MODULE Federation -----------------------------
(***************************************************************************)
(* What hosts of a team do for each other, in one run: they project the    *)
(* same events to the same memories, a host that was away catches up, and  *)
(* invites, joins and leaves make the mesh.  The parts share no state in   *)
(* the models; one runs in a behaviour, the others stay as they began.     *)
(***************************************************************************)
EXTENDS MCMemoryProjection

CONSTANTS Last, Relayed, ChunkSize, MaxQueue, MaxCuts,
          TeamHosts, TeamFounder, Invites, NoHost, NoInvite,
          MaxLeaves, MaxRestarts, MaxHandshakeLosses

VARIABLES
    part,
    log, backlog, dialed, toServer, toClient, pushing, pushed, received, seen,
    handled, mark, saved, request, since, atDial, cuts,
    teamRow, memberRow, secretFile, bridgeSecret, peerRow, leftRow, outbound, linkUp,
    inviteState, inviter, joining, leaving, leftMail, usedInvite, redemptions,
    lockedOut, budget

Paging == INSTANCE Catchup WITH N <- Last
Mesh == INSTANCE TeamMesh

ASSUME PartsAssumption == Paging!CatchupAssumption /\ Mesh!MeshAssumption

pagingVars == <<log, backlog, dialed, toServer, toClient, pushing, pushed, received, seen,
                handled, mark, saved, request, since, atDial, cuts>>
teamVars == <<teamRow, memberRow, secretFile, bridgeSecret, peerRow, leftRow, outbound,
              linkUp, inviteState, inviter, joining, leaving, leftMail, usedInvite,
              redemptions, lockedOut, budget>>
federationVars == <<part, vars, pagingVars, teamVars>>

FederationInit ==
    /\ part \in {"memory", "catchup", "mesh"}
    /\ Init /\ Paging!Init /\ Mesh!Init

MemoryStep ==
    /\ part = "memory" /\ Next
    /\ UNCHANGED <<part, pagingVars, teamVars>>

CatchupStep ==
    /\ part = "catchup" /\ Paging!Next
    /\ UNCHANGED <<part, vars, teamVars>>

MeshStep ==
    /\ part = "mesh" /\ Mesh!Next
    /\ UNCHANGED <<part, vars, pagingVars>>

FederationNext == MemoryStep \/ CatchupStep \/ MeshStep

(* The fairness of the catchup and of the mesh, each in its own part.       *)
FederationSpec ==
    /\ FederationInit /\ [][FederationNext]_federationVars
    /\ WF_pagingVars(part = "catchup" /\ Paging!Hello)
    /\ WF_pagingVars(part = "catchup" /\ Paging!Serve)
    /\ WF_pagingVars(part = "catchup" /\ Paging!LiveOnDial)
    /\ WF_pagingVars(part = "catchup" /\ Paging!LiveOnPush)
    /\ WF_pagingVars(part = "catchup" /\ Paging!HandleChunk)
    /\ WF_pagingVars(part = "catchup" /\ Paging!PushOpens)
    /\ WF_pagingVars(part = "catchup" /\ Paging!DialOpens)
    /\ \A h \in TeamHosts : \A p \in TeamHosts \ {h} :
           /\ WF_teamVars(part = "mesh" /\ Mesh!LinkConnects(h, p))
           /\ WF_teamVars(part = "mesh" /\ Mesh!PeerLeft(h, p))

----------------------------------------------------------------------------
(* Rows, tombstones and cached names are a function of the set of events a  *)
(* host has applied, whatever their order (memory/projector.ts:57-216), so  *)
(* that two hosts with the same events agree.                               *)
MemoriesAgree == TypeOK /\ ViewIsLatest /\ Converged /\ NameIsLatest

(* One page of a catchup is in flight at most, and no event is handled      *)
(* twice by a process, whichever socket brings it (Catchup).                *)
HandledOnce == Paging!TypeOK /\ Paging!OneOutstanding /\ Paging!HandledOnce

(* Of the ids above the watermark it began with, a catchup that ends with   *)
(* its link up has missed none that the server had when the client dialed,  *)
(* and none it published itself since then (Catchup).                       *)
CatchupCompletes == Paging!CatchupCompletes

(* An invite admits one host (TeamMesh).                                    *)
InviteAdmitsOne == Mesh!TypeOK /\ Mesh!InviteAdmitsOne

(* Who has the rows of a team has its secret in the bridge (TeamMesh).      *)
MembersCanSpeak == Mesh!MembersCanSpeak

(* A catchup ends, and where one member keeps a link to another, the other  *)
(* comes to keep one back.                                                  *)
MeshSettles == Paging!CatchupEnds /\ Mesh!LinksBecomeMutual
=============================================================================
