------------------------------ MODULE TeamMesh ------------------------------
(***************************************************************************)
(* Who belongs to a team and who is linked to whom: the team_* tools       *)
(* (src/tools/team.ts), the bridge's peer tables (src/mesh/bridge.ts), the *)
(* listener that takes hellos (src/mesh/listener.ts) and the store         *)
(* functions the daemon hands them (src/daemon/daemon.ts).  One team, a    *)
(* few hosts that may invite each other, leave, crash and come back.       *)
(*                                                                         *)
(* A host's address is the host: every host has a fixed mesh port.  A      *)
(* secret is held or not held: an envelope signed without it goes nowhere. *)
(* The rows live in the store and the secret in a file, both outlive a     *)
(* crash; the bridge's maps do not.                                        *)
(***************************************************************************)
EXTENDS FiniteSets, Naturals

CONSTANTS
    TeamHosts,      \* the hosts
    TeamFounder,    \* the one that runs team_create
    Invites,        \* invite ids that may be minted
    NoHost, NoInvite,
    MaxLeaves,      \* bound: team_leave calls
    MaxRestarts,    \* bound: crashes followed by a restart
    MaxHandshakeLosses  \* bound: join handshakes that time out or are cut

MeshAssumption ==
    TeamFounder \in TeamHosts /\ NoHost \notin TeamHosts /\ NoInvite \notin Invites

VARIABLES
    teamRow,       \* hosts with a teams row
    memberRow,     \* hosts with a team_members row
    secretFile,    \* hosts with the secret on disk
    bridgeSecret,  \* hosts whose bridge holds the secret
    peerRow,       \* host -> hosts in its team_peers table
    leftRow,       \* host -> those of them whose status is "left"
    outbound,      \* host -> hosts its bridge keeps a PeerLink to
    linkUp,        \* pairs <<h, p>>: h's link to p is connected
    inviteState,   \* invite -> "unissued", "fresh", "redeemed", "expired"
    inviter,       \* invite -> the host that minted it
    joining,       \* host -> its team_join: [phase, invite, peers]
    leaving,       \* hosts between the deletions and the unlink of team_leave
    leftMail,      \* pairs <<h, p>>: a peer_left from h on its way to p
    usedInvite,    \* host -> the invite its membership came from
    redemptions,   \* invite -> how often it was redeemed
    lockedOut,     \* hosts whose team_join was refused while no member
    budget         \* the bounded counters

meshVars == <<teamRow, memberRow, secretFile, bridgeSecret, peerRow, leftRow,
              outbound, linkUp, inviteState, inviter, joining, leaving, leftMail,
              usedInvite, redemptions, lockedOut, budget>>

storeVars == <<teamRow, memberRow, secretFile, peerRow, leftRow>>
bridgeVars == <<bridgeSecret, outbound, linkUp>>
inviteVars == <<inviteState, inviter, redemptions>>
historyVars == <<usedInvite, lockedOut>>

NotJoining == [phase |-> "idle", invite |-> NoInvite, peers |-> {}]

Init ==
    /\ teamRow = {} /\ memberRow = {} /\ secretFile = {} /\ bridgeSecret = {}
    /\ peerRow = [h \in TeamHosts |-> {}]
    /\ leftRow = [h \in TeamHosts |-> {}]
    /\ outbound = [h \in TeamHosts |-> {}]
    /\ linkUp = {}
    /\ inviteState = [i \in Invites |-> "unissued"]
    /\ inviter = [i \in Invites |-> NoHost]
    /\ joining = [h \in TeamHosts |-> NotJoining]
    /\ leaving = {}
    /\ leftMail = {}
    /\ usedInvite = [h \in TeamHosts |-> NoInvite]
    /\ redemptions = [i \in Invites |-> 0]
    /\ lockedOut = {}
    /\ budget = [leaves |-> 0, restarts |-> 0, losses |-> 0]

\* team_create: the secret is on disk before the rows say there is a team.
CreateSecret ==
    /\ TeamFounder \notin teamRow \cup secretFile
    /\ secretFile' = secretFile \cup {TeamFounder}
    /\ UNCHANGED <<teamRow, memberRow, peerRow, leftRow, bridgeVars, inviteVars,
                   historyVars, joining, leaving, leftMail, budget>>

CreateTeam ==
    /\ TeamFounder \in secretFile \ teamRow
    /\ teamRow' = teamRow \cup {TeamFounder}
    /\ memberRow' = memberRow \cup {TeamFounder}
    /\ bridgeSecret' = bridgeSecret \cup {TeamFounder}
    /\ UNCHANGED <<secretFile, peerRow, leftRow, outbound, linkUp, inviteVars,
                   historyVars, joining, leaving, leftMail, budget>>

\* team_invite: any member, with the secret read from its file.
Invite(h, i) ==
    /\ h \in memberRow \cap secretFile
    /\ inviteState[i] = "unissued"
    /\ inviteState' = [inviteState EXCEPT ![i] = "fresh"]
    /\ inviter' = [inviter EXCEPT ![i] = h]
    /\ UNCHANGED <<storeVars, bridgeVars, redemptions, historyVars, joining,
                   leaving, leftMail, budget>>

\* The ttl of an invite runs out.
Expire(i) ==
    /\ inviteState[i] = "fresh"
    /\ inviteState' = [inviteState EXCEPT ![i] = "expired"]
    /\ UNCHANGED <<storeVars, bridgeVars, inviter, redemptions, historyVars,
                   joining, leaving, leftMail, budget>>

\* team_join with the code of invite i: refused at once by a host that still
\* has a teams row, otherwise the inviter is dialled.
Join(h, i) ==
    /\ inviteState[i] # "unissued" /\ inviter[i] # h
    /\ joining[h] = NotJoining
    /\ IF h \in teamRow
       THEN /\ lockedOut' = lockedOut \cup ({h} \ memberRow)
            /\ UNCHANGED joining
       ELSE /\ joining' = [joining EXCEPT ![h] =
                             [phase |-> "dialing", invite |-> i, peers |-> {}]]
            /\ UNCHANGED lockedOut
    /\ UNCHANGED <<storeVars, bridgeVars, inviteVars, usedInvite, leaving,
                   leftMail, budget>>

\* Mutant: a redeemed invite is accepted again.
RedeemableAgain(i) == inviteState[i] \in {"fresh", "redeemed"}

\* redeemInviteInStore: known, of this team, not redeemed and not expired.
Redeemable(i) == inviteState[i] = "fresh"

\* The joiner's hello reaches the inviter, whose listener verifies it and
\* whose bridge redeems the invite and answers with the peers it dials
\* itself; an unknown team or a spent invite closes the socket.
HelloWithInvite(h) ==
    LET i == joining[h].invite
        p == inviter[i]
    IN /\ joining[h].phase = "dialing"
       /\ IF p \in bridgeSecret /\ Redeemable(i)
          THEN /\ inviteState' = [inviteState EXCEPT ![i] = "redeemed"]
               /\ redemptions' = [redemptions EXCEPT ![i] = @ + 1]
               /\ joining' = [joining EXCEPT ![h] =
                    [phase |-> "welcomed", invite |-> i, peers |-> outbound[p] \ {h}]]
          ELSE /\ joining' = [joining EXCEPT ![h] = NotJoining]
               /\ UNCHANGED <<inviteState, redemptions>>
       /\ UNCHANGED <<storeVars, bridgeVars, inviter, historyVars, leaving, leftMail,
                      budget>>

\* The handshake times out or its socket is cut, before or after the invite
\* was redeemed.
HandshakeFails(h) ==
    /\ joining[h].phase \in {"dialing", "welcomed"}
    /\ budget.losses < MaxHandshakeLosses
    /\ budget' = [budget EXCEPT !.losses = @ + 1]
    /\ joining' = [joining EXCEPT ![h] = NotJoining]
    /\ UNCHANGED <<storeVars, bridgeVars, inviteVars, historyVars, leaving, leftMail>>

\* The welcome arrives and the secret is written, which is awaited.
JoinSecret(h) ==
    /\ joining[h].phase = "welcomed"
    /\ secretFile' = secretFile \cup {h}
    /\ joining' = [joining EXCEPT ![h].phase = "written"]
    /\ UNCHANGED <<teamRow, memberRow, peerRow, leftRow, bridgeVars, inviteVars,
                   historyVars, leaving, leftMail, budget>>

\* Mutant: the rows are written before the secret.
JoinRowsPhase == {"welcomed", "written"}

\* The rows come after the secret.
JoinPhases == {"written"}

\* The rest of team_join: the rows, the secret in the bridge, and a link to
\* the inviter and to every peer of the welcome.
JoinRows(h) ==
    LET peers == (joining[h].peers \cup {inviter[joining[h].invite]}) \ {h}
    IN /\ joining[h].phase \in JoinPhases
       /\ teamRow' = teamRow \cup {h}
       /\ memberRow' = memberRow \cup {h}
       /\ peerRow' = [peerRow EXCEPT ![h] = @ \cup peers]
       /\ bridgeSecret' = bridgeSecret \cup {h}
       /\ outbound' = [outbound EXCEPT ![h] = @ \cup peers]
       /\ usedInvite' = [usedInvite EXCEPT ![h] = joining[h].invite]
       /\ joining' = [joining EXCEPT ![h] = NotJoining]
       /\ UNCHANGED <<secretFile, leftRow, linkUp, inviteVars, lockedOut, leaving,
                      leftMail, budget>>

\* Mutant: the hello's listener address is ignored.
AddBackNobody(p, h) == outbound[p]

\* addPeer of the host whose hello advertises its listener.
AddBack(p, h) == outbound[p] \cup {h}

\* A PeerLink connects: its hello, verified by the other bridge, makes that
\* bridge dial back, and the new status is recorded.
LinkConnects(h, p) ==
    /\ p \in outbound[h] /\ <<h, p>> \notin linkUp
    /\ {h, p} \subseteq bridgeSecret
    /\ linkUp' = linkUp \cup {<<h, p>>}
    /\ outbound' = [outbound EXCEPT ![p] = AddBack(p, h)]
    /\ peerRow' = [peerRow EXCEPT ![h] = @ \cup {p}]
    /\ leftRow' = [leftRow EXCEPT ![h] = @ \ {p}]
    /\ UNCHANGED <<teamRow, memberRow, secretFile, bridgeSecret, inviteVars,
                   historyVars, joining, leaving, leftMail, budget>>

Touching(h) == {l \in linkUp : h \in {l[1], l[2]}}

\* team_leave up to its await: peer_left on every open socket, the bridge's
\* maps dropped, the peer and member rows deleted.
Leave(h) ==
    /\ h \in teamRow \cap memberRow /\ h \notin leaving
    /\ budget.leaves < MaxLeaves
    /\ budget' = [budget EXCEPT !.leaves = @ + 1]
    /\ leftMail' = leftMail \cup {<<h, p>> : p \in UNION {{l[1], l[2]} : l \in Touching(h)} \ {h}}
    /\ linkUp' = linkUp \ Touching(h)
    /\ outbound' = [outbound EXCEPT ![h] = {}]
    /\ bridgeSecret' = bridgeSecret \ {h}
    /\ peerRow' = [peerRow EXCEPT ![h] = {}]
    /\ leftRow' = [leftRow EXCEPT ![h] = {}]
    /\ memberRow' = memberRow \ {h}
    /\ usedInvite' = [usedInvite EXCEPT ![h] = NoInvite]
    /\ leaving' = leaving \cup {h}
    /\ UNCHANGED <<teamRow, secretFile, inviteVars, lockedOut, joining>>

\* The unlink of the secret returns.
LeaveUnlinks(h) ==
    /\ h \in leaving
    /\ leaving' = leaving \ {h}
    /\ secretFile' = secretFile \ {h}
    /\ UNCHANGED <<teamRow, memberRow, peerRow, leftRow, bridgeVars, inviteVars,
                   historyVars, joining, leftMail, budget>>

\* peer_left arrives: removePeer, unless this bridge has left the team too.
PeerLeft(h, p) ==
    /\ <<h, p>> \in leftMail
    /\ leftMail' = leftMail \ {<<h, p>>}
    /\ IF p \in bridgeSecret
       THEN /\ outbound' = [outbound EXCEPT ![p] = @ \ {h}]
            /\ linkUp' = linkUp \ {<<p, h>>, <<h, p>>}
            /\ peerRow' = [peerRow EXCEPT ![p] = @ \cup {h}]
            /\ leftRow' = [leftRow EXCEPT ![p] = @ \cup {h}]
       ELSE UNCHANGED <<outbound, linkUp, peerRow, leftRow>>
    /\ UNCHANGED <<teamRow, memberRow, secretFile, bridgeSecret, inviteVars,
                   historyVars, joining, leaving, budget>>

\* A crash and the next start: loadTeamsFromStore finds the teams whose
\* secret is on disk, and every row of team_peers is dialled; what was on its
\* way to the sockets of the old process is lost.
Restart(h) ==
    /\ budget.restarts < MaxRestarts
    /\ budget' = [budget EXCEPT !.restarts = @ + 1]
    /\ joining' = [joining EXCEPT ![h] = NotJoining]
    /\ leaving' = leaving \ {h}
    /\ linkUp' = linkUp \ Touching(h)
    /\ IF h \in teamRow \cap secretFile
       THEN /\ bridgeSecret' = bridgeSecret \cup {h}
            /\ outbound' = [outbound EXCEPT ![h] = peerRow[h]]
       ELSE /\ bridgeSecret' = bridgeSecret \ {h}
            /\ outbound' = [outbound EXCEPT ![h] = {}]
    /\ leftMail' = {m \in leftMail : m[2] # h}
    /\ UNCHANGED <<storeVars, inviteVars, historyVars>>

Next ==
    \/ CreateSecret \/ CreateTeam
    \/ \E h \in TeamHosts :
         \/ \E i \in Invites : Invite(h, i) \/ Join(h, i)
         \/ HelloWithInvite(h) \/ HandshakeFails(h) \/ JoinSecret(h) \/ JoinRows(h)
         \/ \E p \in TeamHosts \ {h} : LinkConnects(h, p) \/ PeerLeft(h, p)
         \/ Leave(h) \/ LeaveUnlinks(h)
         \/ Restart(h)
    \/ \E i \in Invites : Expire(i)

\* A link redials for ever and a socket that is open delivers: connecting and
\* the arrival of peer_left are fair.  Joining, leaving and crashing are not.
MeshFairness ==
    \A h \in TeamHosts : \A p \in TeamHosts \ {h} :
        /\ WF_meshVars(LinkConnects(h, p))
        /\ WF_meshVars(PeerLeft(h, p))

Spec == Init /\ [][Next]_meshVars /\ MeshFairness

----------------------------------------------------------------------------
TypeOK ==
    /\ {teamRow, memberRow, secretFile, bridgeSecret, leaving, lockedOut} \subseteq SUBSET TeamHosts
    /\ {peerRow, leftRow, outbound} \subseteq [TeamHosts -> SUBSET TeamHosts]
    /\ linkUp \subseteq TeamHosts \X TeamHosts
    /\ leftMail \subseteq TeamHosts \X TeamHosts
    /\ \A h \in TeamHosts : joining[h].phase \in {"idle", "dialing", "welcomed", "written"}

\* One invite, one member: an invite is redeemed at most once, whoever else
\* holds its code and however many handshakes fail, and no two members came
\* in by the same one.
InviteAdmitsOne ==
    /\ \A i \in Invites : redemptions[i] <= 1
    /\ \A g, h \in memberRow :
          g # h /\ usedInvite[g] # NoInvite => usedInvite[g] # usedInvite[h]

\* A host that is a member can speak for itself: its secret is on disk, so
\* that a restart brings the team back, and in its bridge; and a bridge keeps
\* no link of a team whose secret it does not hold.
MembersCanSpeak ==
    /\ memberRow \subseteq teamRow \cap secretFile \cap bridgeSecret
    /\ \A h \in TeamHosts \ bridgeSecret : outbound[h] = {}

\* Links become mutual: a host that dials a member is dialled back, unless
\* one of the two leaves.
LinksBecomeMutual ==
    \A h \in TeamHosts : \A p \in TeamHosts \ {h} :
        (h \in memberRow /\ p \in memberRow /\ p \in outbound[h]) ~>
            (h \in outbound[p] \/ h \notin memberRow \/ p \notin memberRow
             \/ p \notin outbound[h])

\* The description of team_leave says "you can rejoin with a new invite": no
\* host that has left is refused as if it were a member.
LeaverCanRejoin == lockedOut = {}

\* ARCHITECTURE.md describes the mesh as fully connected: when no join, leave
\* or redial is under way, every two members keep a link.
FullyConnected ==
    (/\ \A h \in TeamHosts : joining[h] = NotJoining /\ h \notin leaving
     /\ \A h \in TeamHosts : \A p \in outbound[h] : <<h, p>> \in linkUp
     /\ leftMail = {})
    => \A g, h \in memberRow : g # h => h \in outbound[g]
=============================================================================
