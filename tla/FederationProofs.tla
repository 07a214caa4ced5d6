-------------------------- MODULE FederationProofs --------------------------
(***************************************************************************)
(* What hosts of a team do for each other, for any hosts, invites, events  *)
(* and orders of delivery.                                                 *)
(***************************************************************************)
EXTENDS Federation, FiniteSetTheorems, SequenceTheorems, WellFoundedInduction, TLAPS

----------------------------------------------------------------------------
(* The mesh *)

LEMMA FederationRunsMesh == FederationSpec => Mesh!Init /\ [][Mesh!Next]_(Mesh!meshVars)
<1>1. FederationInit => Mesh!Init
  BY DEF FederationInit
<1>2. [FederationNext]_federationVars => [Mesh!Next]_(Mesh!meshVars)
  BY DEF FederationNext, federationVars, MemoryStep, CatchupStep, MeshStep, teamVars,
         Mesh!meshVars
<1> QED BY <1>1, <1>2, PTL DEF FederationSpec

MeshTypes ==
    /\ teamRow \subseteq TeamHosts /\ memberRow \subseteq TeamHosts
    /\ secretFile \subseteq TeamHosts /\ bridgeSecret \subseteq TeamHosts
    /\ leaving \subseteq TeamHosts /\ lockedOut \subseteq TeamHosts
    /\ peerRow \in [TeamHosts -> SUBSET TeamHosts]
    /\ leftRow \in [TeamHosts -> SUBSET TeamHosts]
    /\ outbound \in [TeamHosts -> SUBSET TeamHosts]
    /\ linkUp \subseteq TeamHosts \X TeamHosts /\ leftMail \subseteq TeamHosts \X TeamHosts
    /\ inviteState \in [Invites -> {"unissued", "fresh", "redeemed", "expired"}]
    /\ inviter \in [Invites -> TeamHosts \cup {NoHost}]
    /\ joining \in [TeamHosts -> [phase : {"idle", "dialing", "welcomed", "written"},
                                  invite : Invites \cup {NoInvite},
                                  peers : SUBSET TeamHosts]]
    /\ usedInvite \in [TeamHosts -> Invites \cup {NoInvite}]
    /\ redemptions \in [Invites -> 0..1]

\* An invite is minted by a host once there is a team, and is redeemed when
\* it counts as redeemed.
InvitesAreMinted ==
    \A i \in Invites :
        /\ inviteState[i] # "unissued" => inviter[i] \in TeamHosts /\ TeamFounder \in teamRow
        /\ redemptions[i] = 1 => inviteState[i] = "redeemed"

\* A join is under way only on a host without a teams row, with an invite
\* that was minted; and the secret it has written is there.
JoinsAreOutside ==
    \A h \in TeamHosts :
        /\ joining[h].phase # "idle" =>
              /\ h \notin teamRow
              /\ joining[h].invite \in Invites
              /\ inviteState[joining[h].invite] # "unissued"
        /\ joining[h].phase = "written" => h \in secretFile

\* The host an invite has let in, or is letting in.
HoldsInvite(h, i) ==
    \/ usedInvite[h] = i
    \/ joining[h].phase \in {"welcomed", "written"} /\ joining[h].invite = i

\* An invite is held by one host, once it is redeemed.
OneHolder ==
    \A i \in Invites :
        /\ \A h \in TeamHosts : HoldsInvite(h, i) => inviteState[i] = "redeemed"
        /\ \A g, h \in TeamHosts : HoldsInvite(g, i) /\ HoldsInvite(h, i) => g = h

\* A host that is leaving was in the team and is no member any more.
LeaversAreOut ==
    /\ leaving \subseteq teamRow /\ leaving \cap memberRow = {}
    /\ memberRow # {} => TeamFounder \in teamRow

MeshIInv ==
    /\ MeshTypes /\ InvitesAreMinted /\ JoinsAreOutside /\ OneHolder /\ LeaversAreOut
    /\ Mesh!MembersCanSpeak

USE DEF Mesh!NotJoining

LEMMA MeshInit == Mesh!Init => MeshIInv
<1> SUFFICES ASSUME Mesh!Init PROVE MeshIInv
  OBVIOUS
<1> USE PartsAssumption DEF Mesh!MeshAssumption, Mesh!Init
<1>1. MeshTypes
  BY DEF MeshTypes
<1>2. InvitesAreMinted /\ JoinsAreOutside
  BY DEF InvitesAreMinted, JoinsAreOutside
<1>3. OneHolder
  BY DEF OneHolder, HoldsInvite
<1>4. LeaversAreOut /\ Mesh!MembersCanSpeak
  BY DEF LeaversAreOut, Mesh!MembersCanSpeak
<1> QED BY <1>1, <1>2, <1>3, <1>4 DEF MeshIInv

LEMMA MeshStepKeeps == MeshIInv /\ [Mesh!Next]_(Mesh!meshVars) => MeshIInv'
<1> SUFFICES ASSUME MeshIInv, [Mesh!Next]_(Mesh!meshVars)
             PROVE  MeshIInv'
  OBVIOUS
<1> USE DEF Mesh!storeVars, Mesh!bridgeVars, Mesh!inviteVars, Mesh!historyVars
<1>0. TeamFounder \in TeamHosts /\ NoHost \notin TeamHosts /\ NoInvite \notin Invites
  BY PartsAssumption DEF Mesh!MeshAssumption
<1>1. CASE Mesh!CreateSecret
  <2>1. MeshTypes' /\ InvitesAreMinted' /\ JoinsAreOutside'
    BY <1>0, <1>1 DEF MeshIInv, Mesh!CreateSecret, MeshTypes, InvitesAreMinted, JoinsAreOutside
  <2>2. OneHolder' /\ LeaversAreOut' /\ Mesh!MembersCanSpeak'
    BY <1>0, <1>1 DEF MeshIInv, Mesh!CreateSecret, OneHolder, HoldsInvite, LeaversAreOut,
                     Mesh!MembersCanSpeak
  <2> QED BY <2>1, <2>2 DEF MeshIInv
<1>2. CASE Mesh!CreateTeam
  <2>1. \A i \in Invites : inviteState[i] = "unissued"
    BY <1>2 DEF MeshIInv, MeshTypes, InvitesAreMinted, Mesh!CreateTeam
  <2>2. \A h \in TeamHosts : joining[h].phase = "idle"
    BY <2>1 DEF MeshIInv, JoinsAreOutside
  <2>3. MeshTypes' /\ InvitesAreMinted'
    BY <1>0, <1>2 DEF MeshIInv, Mesh!CreateTeam, MeshTypes, InvitesAreMinted
  <2>4. JoinsAreOutside'
    BY <1>2, <2>2 DEF Mesh!CreateTeam, JoinsAreOutside
  <2>5. OneHolder'
    BY <1>2 DEF MeshIInv, Mesh!CreateTeam, OneHolder, HoldsInvite
  <2>6. LeaversAreOut' /\ Mesh!MembersCanSpeak'
    BY <1>0, <1>2 DEF MeshIInv, Mesh!CreateTeam, LeaversAreOut, Mesh!MembersCanSpeak
  <2> QED BY <2>3, <2>4, <2>5, <2>6 DEF MeshIInv
<1>3. ASSUME NEW h \in TeamHosts, NEW i \in Invites, Mesh!Invite(h, i)
      PROVE  MeshIInv'
  <2>1. TeamFounder \in teamRow /\ inviteState[i] = "unissued"
    BY <1>3 DEF MeshIInv, LeaversAreOut, Mesh!Invite
  <2>2. MeshTypes' /\ InvitesAreMinted'
    BY <1>3, <2>1 DEF MeshIInv, Mesh!Invite, MeshTypes, InvitesAreMinted
  <2>3. JoinsAreOutside'
    BY <1>3, <2>1 DEF MeshIInv, Mesh!Invite, MeshTypes, JoinsAreOutside
  <2>4. OneHolder'
    BY <1>3, <2>1 DEF MeshIInv, Mesh!Invite, MeshTypes, OneHolder, HoldsInvite
  <2>5. LeaversAreOut' /\ Mesh!MembersCanSpeak'
    BY <1>3 DEF MeshIInv, Mesh!Invite, LeaversAreOut, Mesh!MembersCanSpeak
  <2> QED BY <2>2, <2>3, <2>4, <2>5 DEF MeshIInv
<1>4. ASSUME NEW h \in TeamHosts, NEW i \in Invites, Mesh!Join(h, i)
      PROVE  MeshIInv'
  <2> DEFINE dialing == [phase |-> "dialing", invite |-> i, peers |-> {}]
  <2>1. \/ joining' = joining
        \/ h \notin teamRow /\ joining' = [joining EXCEPT ![h] = dialing]
    BY <1>4 DEF Mesh!Join
  <2>2. inviteState[i] # "unissued" /\ joining[h].phase = "idle"
    BY <1>4 DEF Mesh!Join
  <2>3. MeshTypes'
    <3>1. joining' \in [TeamHosts -> [phase : {"idle", "dialing", "welcomed", "written"},
                                      invite : Invites \cup {NoInvite},
                                      peers : SUBSET TeamHosts]]
      BY <2>1 DEF MeshIInv, MeshTypes
    <3>2. UNCHANGED <<teamRow, memberRow, secretFile, peerRow, leftRow, bridgeSecret, outbound,
                      linkUp, inviteState, inviter, redemptions, usedInvite, leaving, leftMail>>
      BY <1>4 DEF Mesh!Join
    <3>3. lockedOut' \subseteq TeamHosts
      BY <1>4 DEF MeshIInv, MeshTypes, Mesh!Join
    <3> HIDE DEF Mesh!NotJoining
    <3> QED BY <3>1, <3>2, <3>3 DEF MeshIInv, MeshTypes
  <2>4. InvitesAreMinted'
    BY <1>4 DEF MeshIInv, Mesh!Join, InvitesAreMinted
  <2>5. JoinsAreOutside'
    BY <1>4, <2>1, <2>2 DEF MeshIInv, MeshTypes, Mesh!Join, JoinsAreOutside
  <2>6. OneHolder'
    <3>1. \A g \in TeamHosts, k \in Invites : HoldsInvite(g, k)' => HoldsInvite(g, k)
      <4>1. usedInvite' = usedInvite
        BY <1>4 DEF Mesh!Join
      <4>2. \A g \in TeamHosts : joining'[g] = joining[g] \/ joining'[g].phase = "dialing"
        BY <2>1 DEF MeshIInv, MeshTypes
      <4> QED BY <4>1, <4>2 DEF HoldsInvite
    <3> QED BY <1>4, <3>1 DEF MeshIInv, OneHolder, Mesh!Join
  <2>7. LeaversAreOut' /\ Mesh!MembersCanSpeak'
    BY <1>4 DEF MeshIInv, Mesh!Join, LeaversAreOut, Mesh!MembersCanSpeak
  <2> QED BY <2>3, <2>4, <2>5, <2>6, <2>7 DEF MeshIInv
<1>5. ASSUME NEW h \in TeamHosts, Mesh!HelloWithInvite(h)
      PROVE  MeshIInv'
  <2> DEFINE i == joining[h].invite
             p == inviter[i]
  <2>1. /\ joining[h].phase = "dialing" /\ i \in Invites /\ h \notin teamRow
        /\ p \in TeamHosts /\ inviteState[i] # "unissued"
    BY <1>5 DEF MeshIInv, JoinsAreOutside, InvitesAreMinted, Mesh!HelloWithInvite
  <2>2. /\ UNCHANGED <<teamRow, memberRow, secretFile, peerRow, leftRow, bridgeSecret, outbound,
                       linkUp, inviter, usedInvite, lockedOut, leaving, leftMail>>
    BY <1>5 DEF Mesh!HelloWithInvite
  <2>3. CASE /\ inviteState[i] = "fresh"
             /\ inviteState' = [inviteState EXCEPT ![i] = "redeemed"]
             /\ redemptions' = [redemptions EXCEPT ![i] = @ + 1]
             /\ joining' = [joining EXCEPT ![h] =
                    [phase |-> "welcomed", invite |-> i, peers |-> outbound[p] \ {h}]]
    <3>1. redemptions[i] = 0 /\ \A g \in TeamHosts : ~HoldsInvite(g, i)
      BY <2>1, <2>3 DEF MeshIInv, MeshTypes, InvitesAreMinted, OneHolder
    <3>2. outbound[p] \ {h} \in SUBSET TeamHosts
      BY <2>1 DEF MeshIInv, MeshTypes
    <3> HIDE DEF i, p
    <3>3. MeshTypes'
      <4>1. redemptions' \in [Invites -> 0..1]
        BY <2>1, <2>3, <3>1 DEF MeshIInv, MeshTypes
      <4> QED BY <2>1, <2>2, <2>3, <3>2, <4>1 DEF MeshIInv, MeshTypes
    <3>4. InvitesAreMinted'
      BY <2>1, <2>2, <2>3 DEF MeshIInv, MeshTypes, InvitesAreMinted
    <3>5. JoinsAreOutside'
      BY <2>1, <2>2, <2>3 DEF MeshIInv, MeshTypes, JoinsAreOutside
    <3>6. OneHolder'
      <4>1. \A g \in TeamHosts, k \in Invites :
               HoldsInvite(g, k)' => HoldsInvite(g, k) \/ (g = h /\ k = i)
        BY <2>1, <2>2, <2>3 DEF MeshIInv, MeshTypes, HoldsInvite
      <4>2. \A k \in Invites : inviteState'[k] = IF k = i THEN "redeemed" ELSE inviteState[k]
        BY <2>1, <2>3 DEF MeshIInv, MeshTypes
      <4> QED BY <3>1, <4>1, <4>2 DEF MeshIInv, OneHolder
    <3>7. LeaversAreOut' /\ Mesh!MembersCanSpeak'
      BY <2>2 DEF MeshIInv, LeaversAreOut, Mesh!MembersCanSpeak
    <3> QED BY <3>3, <3>4, <3>5, <3>6, <3>7 DEF MeshIInv
  <2>4. CASE UNCHANGED <<inviteState, redemptions>> /\
             joining' = [joining EXCEPT ![h] = Mesh!NotJoining]
    <3> HIDE DEF i, p
    <3>1. MeshTypes' /\ InvitesAreMinted'
      BY <2>2, <2>4 DEF MeshIInv, MeshTypes, InvitesAreMinted
    <3>2. JoinsAreOutside'
      BY <2>2, <2>4 DEF MeshIInv, MeshTypes, JoinsAreOutside
    <3>3. OneHolder'
      BY <2>2, <2>4 DEF MeshIInv, MeshTypes, OneHolder, HoldsInvite
    <3>4. LeaversAreOut' /\ Mesh!MembersCanSpeak'
      BY <2>2 DEF MeshIInv, LeaversAreOut, Mesh!MembersCanSpeak
    <3> QED BY <3>1, <3>2, <3>3, <3>4 DEF MeshIInv
  <2> QED BY <1>5, <2>3, <2>4 DEF Mesh!HelloWithInvite, Mesh!Redeemable
<1>6. ASSUME NEW h \in TeamHosts, Mesh!HandshakeFails(h)
      PROVE  MeshIInv'
  <2>1. MeshTypes' /\ InvitesAreMinted'
    BY <1>6 DEF MeshIInv, MeshTypes, InvitesAreMinted, Mesh!HandshakeFails
  <2>2. JoinsAreOutside'
    BY <1>6 DEF MeshIInv, MeshTypes, JoinsAreOutside, Mesh!HandshakeFails
  <2>3. OneHolder'
    BY <1>6 DEF MeshIInv, MeshTypes, OneHolder, HoldsInvite, Mesh!HandshakeFails
  <2>4. LeaversAreOut' /\ Mesh!MembersCanSpeak'
    BY <1>6 DEF MeshIInv, LeaversAreOut, Mesh!MembersCanSpeak, Mesh!HandshakeFails
  <2> QED BY <2>1, <2>2, <2>3, <2>4 DEF MeshIInv
<1>7. ASSUME NEW h \in TeamHosts, Mesh!JoinSecret(h)
      PROVE  MeshIInv'
  <2>1. MeshTypes' /\ InvitesAreMinted'
    <3>1. joining' \in [TeamHosts -> [phase : {"idle", "dialing", "welcomed", "written"},
                                      invite : Invites \cup {NoInvite},
                                      peers : SUBSET TeamHosts]]
      BY <1>7 DEF MeshIInv, MeshTypes, Mesh!JoinSecret
    <3>2. /\ UNCHANGED <<teamRow, memberRow, peerRow, leftRow, bridgeSecret, outbound, linkUp,
                         inviteState, inviter, redemptions, usedInvite, lockedOut, leaving,
                         leftMail>>
          /\ secretFile' = secretFile \cup {h}
      BY <1>7 DEF Mesh!JoinSecret
    <3>3. MeshTypes'
      BY <3>1, <3>2 DEF MeshIInv, MeshTypes
    <3> QED BY <3>2, <3>3 DEF MeshIInv, InvitesAreMinted
  <2>2. JoinsAreOutside'
    BY <1>7 DEF MeshIInv, MeshTypes, JoinsAreOutside, Mesh!JoinSecret
  <2>3. OneHolder'
    BY <1>7 DEF MeshIInv, MeshTypes, OneHolder, HoldsInvite, Mesh!JoinSecret
  <2>4. LeaversAreOut' /\ Mesh!MembersCanSpeak'
    BY <1>7 DEF MeshIInv, LeaversAreOut, Mesh!MembersCanSpeak, Mesh!JoinSecret
  <2> QED BY <2>1, <2>2, <2>3, <2>4 DEF MeshIInv
<1>8. ASSUME NEW h \in TeamHosts, Mesh!JoinRows(h)
      PROVE  MeshIInv'
  <2> DEFINE i == joining[h].invite
             peers == (joining[h].peers \cup {inviter[i]}) \ {h}
  <2>1. /\ joining[h].phase = "written" /\ h \notin teamRow /\ i \in Invites
        /\ inviteState[i] # "unissued" /\ h \in secretFile /\ inviter[i] \in TeamHosts
        /\ TeamFounder \in teamRow
    BY <1>8 DEF MeshIInv, JoinsAreOutside, InvitesAreMinted, Mesh!JoinRows, Mesh!JoinPhases
  <2>2. peers \in SUBSET TeamHosts
    BY <2>1 DEF MeshIInv, MeshTypes
  <2>3. /\ teamRow' = teamRow \cup {h} /\ memberRow' = memberRow \cup {h}
        /\ peerRow' = [peerRow EXCEPT ![h] = @ \cup peers]
        /\ bridgeSecret' = bridgeSecret \cup {h}
        /\ outbound' = [outbound EXCEPT ![h] = @ \cup peers]
        /\ usedInvite' = [usedInvite EXCEPT ![h] = i]
        /\ joining' = [joining EXCEPT ![h] = Mesh!NotJoining]
        /\ UNCHANGED <<secretFile, leftRow, linkUp, inviteState, inviter, redemptions,
                       lockedOut, leaving, leftMail>>
    BY <1>8 DEF Mesh!JoinRows
  <2>4. HoldsInvite(h, i)
    BY <2>1 DEF HoldsInvite
  <2> HIDE DEF i, peers
  <2>5. MeshTypes'
    BY <2>1, <2>2, <2>3 DEF MeshIInv, MeshTypes
  <2>6. InvitesAreMinted'
    BY <2>3 DEF MeshIInv, InvitesAreMinted
  <2>7. JoinsAreOutside'
    BY <2>3 DEF MeshIInv, MeshTypes, JoinsAreOutside
  <2>8. OneHolder'
    <3>1. \A g \in TeamHosts, k \in Invites : HoldsInvite(g, k)' => HoldsInvite(g, k)
      BY <2>3, <2>4 DEF MeshIInv, MeshTypes, HoldsInvite
    <3> QED BY <2>3, <3>1 DEF MeshIInv, OneHolder
  <2>9. LeaversAreOut'
    BY <2>1, <2>3 DEF MeshIInv, LeaversAreOut
  <2>10. Mesh!MembersCanSpeak'
    BY <2>1, <2>3 DEF MeshIInv, MeshTypes, Mesh!MembersCanSpeak
  <2> QED BY <2>5, <2>6, <2>7, <2>8, <2>9, <2>10 DEF MeshIInv
<1>9. ASSUME NEW h \in TeamHosts, NEW p \in TeamHosts \ {h}, Mesh!LinkConnects(h, p)
      PROVE  MeshIInv'
  <2>1. MeshTypes' /\ InvitesAreMinted' /\ JoinsAreOutside'
    BY <1>9 DEF MeshIInv, MeshTypes, InvitesAreMinted, JoinsAreOutside, Mesh!LinkConnects,
               Mesh!AddBack
  <2>2. OneHolder'
    BY <1>9 DEF MeshIInv, OneHolder, HoldsInvite, Mesh!LinkConnects
  <2>3. LeaversAreOut' /\ Mesh!MembersCanSpeak'
    BY <1>9 DEF MeshIInv, MeshTypes, LeaversAreOut, Mesh!MembersCanSpeak, Mesh!LinkConnects
  <2> QED BY <2>1, <2>2, <2>3 DEF MeshIInv
<1>10. ASSUME NEW h \in TeamHosts, NEW p \in TeamHosts \ {h}, Mesh!PeerLeft(h, p)
       PROVE  MeshIInv'
  <2>1. MeshTypes'
    <3>1. /\ leftMail' \subseteq leftMail
          /\ UNCHANGED <<teamRow, memberRow, secretFile, bridgeSecret, inviteState, inviter,
                         redemptions, usedInvite, lockedOut, joining, leaving>>
      BY <1>10 DEF Mesh!PeerLeft
    <3>2. linkUp' \subseteq linkUp
      BY <1>10 DEF Mesh!PeerLeft
    <3>3. /\ outbound' \in [TeamHosts -> SUBSET TeamHosts]
          /\ peerRow' \in [TeamHosts -> SUBSET TeamHosts]
          /\ leftRow' \in [TeamHosts -> SUBSET TeamHosts]
      <4>1. /\ outbound' = outbound \/ outbound' = [outbound EXCEPT ![p] = @ \ {h}]
            /\ peerRow' = peerRow \/ peerRow' = [peerRow EXCEPT ![p] = @ \cup {h}]
            /\ leftRow' = leftRow \/ leftRow' = [leftRow EXCEPT ![p] = @ \cup {h}]
        BY <1>10 DEF Mesh!PeerLeft
      <4>2. outbound' \in [TeamHosts -> SUBSET TeamHosts]
        BY <4>1 DEF MeshIInv, MeshTypes
      <4>3. peerRow' \in [TeamHosts -> SUBSET TeamHosts]
        BY <4>1 DEF MeshIInv, MeshTypes
      <4>4. leftRow' \in [TeamHosts -> SUBSET TeamHosts]
        BY <4>1 DEF MeshIInv, MeshTypes
      <4> QED BY <4>2, <4>3, <4>4
    <3> QED BY <3>1, <3>2, <3>3 DEF MeshIInv, MeshTypes
  <2>2. InvitesAreMinted' /\ JoinsAreOutside' /\ OneHolder'
    BY <1>10 DEF MeshIInv, InvitesAreMinted, JoinsAreOutside, OneHolder, HoldsInvite,
                Mesh!PeerLeft
  <2>3. LeaversAreOut' /\ Mesh!MembersCanSpeak'
    BY <1>10 DEF MeshIInv, MeshTypes, LeaversAreOut, Mesh!MembersCanSpeak, Mesh!PeerLeft
  <2> QED BY <2>1, <2>2, <2>3 DEF MeshIInv
<1>11. ASSUME NEW h \in TeamHosts, Mesh!Leave(h)
       PROVE  MeshIInv'
  <2>1. leftMail' \subseteq TeamHosts \X TeamHosts
    <3>1. \A l \in Mesh!Touching(h) : l[1] \in TeamHosts /\ l[2] \in TeamHosts
      BY DEF Mesh!Touching, MeshIInv, MeshTypes
    <3>2. UNION {{l[1], l[2]} : l \in Mesh!Touching(h)} \subseteq TeamHosts
      BY <3>1
    <3> QED BY <1>11, <3>2 DEF Mesh!Leave, MeshIInv, MeshTypes
  <2>2. MeshTypes'
    <3>1. /\ UNCHANGED <<teamRow, secretFile, inviteState, inviter, redemptions, lockedOut, joining>>
          /\ memberRow' \subseteq memberRow /\ bridgeSecret' \subseteq bridgeSecret
          /\ linkUp' \subseteq linkUp
          /\ leaving' = leaving \cup {h}
          /\ usedInvite' = [usedInvite EXCEPT ![h] = NoInvite]
      BY <1>11 DEF Mesh!Leave
    <3>2. /\ peerRow' = [peerRow EXCEPT ![h] = {}]
          /\ leftRow' = [leftRow EXCEPT ![h] = {}]
          /\ outbound' = [outbound EXCEPT ![h] = {}]
      BY <1>11 DEF Mesh!Leave
    <3>3. /\ peerRow' \in [TeamHosts -> SUBSET TeamHosts]
          /\ leftRow' \in [TeamHosts -> SUBSET TeamHosts]
          /\ outbound' \in [TeamHosts -> SUBSET TeamHosts]
      BY <3>2 DEF MeshIInv, MeshTypes
    <3> QED BY <2>1, <3>1, <3>3 DEF MeshIInv, MeshTypes
  <2>3. InvitesAreMinted' /\ JoinsAreOutside'
    BY <1>11 DEF MeshIInv, InvitesAreMinted, JoinsAreOutside, Mesh!Leave
  <2>4. OneHolder'
    <3>1. \A g \in TeamHosts, k \in Invites : HoldsInvite(g, k)' => HoldsInvite(g, k)
      BY <1>0, <1>11 DEF MeshIInv, MeshTypes, HoldsInvite, Mesh!Leave
    <3> QED BY <1>11, <3>1 DEF MeshIInv, OneHolder, Mesh!Leave
  <2>5. LeaversAreOut' /\ Mesh!MembersCanSpeak'
    BY <1>11 DEF MeshIInv, MeshTypes, LeaversAreOut, Mesh!MembersCanSpeak, Mesh!Leave
  <2> QED BY <2>2, <2>3, <2>4, <2>5 DEF MeshIInv
<1>12. ASSUME NEW h \in TeamHosts, Mesh!LeaveUnlinks(h)
       PROVE  MeshIInv'
  <2>1. h \in teamRow /\ h \notin memberRow
    BY <1>12 DEF MeshIInv, LeaversAreOut, Mesh!LeaveUnlinks
  <2>2. MeshTypes' /\ InvitesAreMinted'
    BY <1>12 DEF MeshIInv, MeshTypes, InvitesAreMinted, Mesh!LeaveUnlinks
  <2>3. JoinsAreOutside'
    BY <1>12, <2>1 DEF MeshIInv, MeshTypes, JoinsAreOutside, Mesh!LeaveUnlinks
  <2>4. OneHolder'
    BY <1>12 DEF MeshIInv, OneHolder, HoldsInvite, Mesh!LeaveUnlinks
  <2>5. LeaversAreOut' /\ Mesh!MembersCanSpeak'
    BY <1>12, <2>1 DEF MeshIInv, MeshTypes, LeaversAreOut, Mesh!MembersCanSpeak, Mesh!LeaveUnlinks
  <2> QED BY <2>2, <2>3, <2>4, <2>5 DEF MeshIInv
<1>13. ASSUME NEW h \in TeamHosts, Mesh!Restart(h)
       PROVE  MeshIInv'
  <2>1. MeshTypes'
    BY <1>13 DEF MeshIInv, MeshTypes, Mesh!Restart
  <2>2. InvitesAreMinted'
    BY <1>13 DEF MeshIInv, InvitesAreMinted, Mesh!Restart
  <2>3. JoinsAreOutside'
    BY <1>13 DEF MeshIInv, MeshTypes, JoinsAreOutside, Mesh!Restart
  <2>4. OneHolder'
    BY <1>13 DEF MeshIInv, MeshTypes, OneHolder, HoldsInvite, Mesh!Restart
  <2>5. LeaversAreOut'
    BY <1>13 DEF MeshIInv, LeaversAreOut, Mesh!Restart
  <2>6. Mesh!MembersCanSpeak'
    BY <1>13 DEF MeshIInv, MeshTypes, Mesh!MembersCanSpeak, Mesh!Restart
  <2> QED BY <2>1, <2>2, <2>3, <2>4, <2>5, <2>6 DEF MeshIInv
<1>14. ASSUME NEW i \in Invites, Mesh!Expire(i)
       PROVE  MeshIInv'
  <2>1. MeshTypes' /\ InvitesAreMinted'
    BY <1>14 DEF MeshIInv, MeshTypes, InvitesAreMinted, Mesh!Expire
  <2>2. JoinsAreOutside'
    BY <1>14 DEF MeshIInv, MeshTypes, JoinsAreOutside, Mesh!Expire
  <2>3. OneHolder'
    BY <1>14 DEF MeshIInv, MeshTypes, OneHolder, HoldsInvite, Mesh!Expire
  <2>4. LeaversAreOut' /\ Mesh!MembersCanSpeak'
    BY <1>14 DEF MeshIInv, LeaversAreOut, Mesh!MembersCanSpeak, Mesh!Expire
  <2> QED BY <2>1, <2>2, <2>3, <2>4 DEF MeshIInv
<1>15. CASE UNCHANGED Mesh!meshVars
  <2>1. MeshTypes' /\ InvitesAreMinted' /\ JoinsAreOutside'
    BY <1>15 DEF MeshIInv, MeshTypes, InvitesAreMinted, JoinsAreOutside, Mesh!meshVars
  <2>2. OneHolder' /\ LeaversAreOut' /\ Mesh!MembersCanSpeak'
    BY <1>15 DEF MeshIInv, OneHolder, HoldsInvite, LeaversAreOut, Mesh!MembersCanSpeak,
                Mesh!meshVars
  <2> QED BY <2>1, <2>2 DEF MeshIInv
<1>16. ASSUME NEW h \in TeamHosts,
              \/ \E i \in Invites : Mesh!Invite(h, i) \/ Mesh!Join(h, i)
              \/ \E p \in TeamHosts \ {h} : Mesh!LinkConnects(h, p) \/ Mesh!PeerLeft(h, p)
       PROVE  MeshIInv'
  BY <1>3, <1>4, <1>9, <1>10, <1>16
<1>17. ASSUME NEW h \in TeamHosts,
              \/ Mesh!HelloWithInvite(h) \/ Mesh!HandshakeFails(h) \/ Mesh!JoinSecret(h)
              \/ Mesh!JoinRows(h) \/ Mesh!Leave(h) \/ Mesh!LeaveUnlinks(h) \/ Mesh!Restart(h)
       PROVE  MeshIInv'
  BY <1>5, <1>6, <1>7, <1>8, <1>11, <1>12, <1>13, <1>17
<1> QED BY <1>1, <1>2, <1>14, <1>15, <1>16, <1>17 DEF Mesh!Next

\* An invite is redeemed at most once, whoever holds its code and however many
\* handshakes fail, and no two members came in by the same one
\* (mesh/bridge.ts, tools/team.ts).
THEOREM OneHostPerInvite == FederationSpec => []InviteAdmitsOne
<1>1. MeshIInv => InviteAdmitsOne
  <2> SUFFICES ASSUME MeshIInv PROVE Mesh!TypeOK /\ Mesh!InviteAdmitsOne
    BY DEF InviteAdmitsOne
  <2>1. Mesh!TypeOK
    BY DEF MeshIInv, MeshTypes, Mesh!TypeOK
  <2>2. \A i \in Invites : redemptions[i] <= 1
    BY DEF MeshIInv, MeshTypes
  <2>3. ASSUME NEW g \in memberRow, NEW h \in memberRow, g # h, usedInvite[g] # NoInvite
        PROVE  usedInvite[g] # usedInvite[h]
    <3>1. g \in TeamHosts /\ h \in TeamHosts /\ usedInvite[g] \in Invites
      BY <2>3 DEF MeshIInv, MeshTypes
    <3> QED BY <2>3, <3>1 DEF MeshIInv, OneHolder, HoldsInvite
  <2> QED BY <2>1, <2>2, <2>3 DEF Mesh!InviteAdmitsOne
<1> QED BY <1>1, FederationRunsMesh, MeshInit, MeshStepKeeps, PTL

\* A member has the secret on disk and in its bridge at every moment, through
\* joins that are cut, leaves and restarts; and no link outlives the secret
\* (tools/team.ts, daemon/daemon.ts).
THEOREM MembersSpeak == FederationSpec => []MembersCanSpeak
<1>1. MeshIInv => MembersCanSpeak
  BY DEF MeshIInv, MembersCanSpeak
<1> QED BY <1>1, FederationRunsMesh, MeshInit, MeshStepKeeps, PTL
----------------------------------------------------------------------------
(* The catchup *)

LEMMA FederationRunsPaging == FederationSpec => Paging!Init /\ [][Paging!Next]_(Paging!vars)
<1>1. FederationInit => Paging!Init
  BY DEF FederationInit
<1>2. [FederationNext]_federationVars => [Paging!Next]_(Paging!vars)
  BY DEF FederationNext, federationVars, MemoryStep, CatchupStep, MeshStep, pagingVars,
         Paging!vars
<1> QED BY <1>1, <1>2, PTL DEF FederationSpec

LEMMA PagingCardinality == \A S : Paging!Cardinality(S) = Cardinality(S)
BY DEF Paging!Cardinality, Cardinality, Paging!IsFiniteSet, IsFiniteSet

LEMMA SmallestId ==
    ASSUME NEW S, S \subseteq Nat, S # {}
    PROVE  \E m \in S : \A n \in S : m <= n
<1>1. PICK m \in S : \A n \in S : ~(<<n, m>> \in OpToRel(<, Nat))
  BY NatLessThanWellFounded, WFMin
<1>2. \A n \in S : ~(n < m)
  BY <1>1 DEF OpToRel
<1> QED BY <1>2

LEMMA LargestId ==
    ASSUME NEW n \in Nat, NEW S, S \subseteq 0 .. n, S # {}
    PROVE  \E m \in S : \A k \in S : k <= m
<1> DEFINE T == {n - k : k \in S}
<1>0. \A k \in S : n - k \in Nat
  OBVIOUS
<1>1. T \subseteq Nat /\ T # {}
  BY <1>0
<1>2. PICK t \in T : \A u \in T : t <= u
  BY <1>1, SmallestId
<1>3. PICK m \in S : t = n - m
  OBVIOUS
<1>4. \A k \in S : n - m <= n - k
  BY <1>2, <1>3
<1> QED BY <1>4

\* serve() sends an initial segment of the newer rows, all of them unless it
\* says that there are more.
LEMMA RowsArePages ==
    ASSUME log \subseteq Paging!Event, NEW from \in Paging!Id
    PROVE  LET rows == Paging!Rows(from) IN
           /\ rows \subseteq {e \in log : e > from}
           /\ Paging!HasMore(rows) =>
                 \A f \in rows : \A e \in log : from < e /\ e <= f => e \in rows
           /\ ~Paging!HasMore(rows) => rows = {e \in log : e > from}
<1> DEFINE newer == {e \in log : e > from}
           Below(e) == {f \in newer : f < e}
           rows == Paging!Rows(from)
<1>0. Last \in Nat /\ ChunkSize \in Nat \ {0}
  BY PartsAssumption DEF Paging!CatchupAssumption
<1>1. newer \subseteq 1 .. Last /\ IsFiniteSet(newer)
  <2>1. newer \subseteq 1 .. Last
    BY DEF Paging!Event
  <2>2. IsFiniteSet(1 .. Last)
    BY <1>0, FS_Interval
  <2> HIDE DEF newer
  <2> QED BY <2>1, <2>2, FS_Subset
<1>2. rows = {e \in newer : Cardinality(Below(e)) < ChunkSize}
  BY PagingCardinality DEF Paging!Rows
<1>3. \A e \in newer : IsFiniteSet(Below(e)) /\ Cardinality(Below(e)) \in Nat
  BY <1>1, FS_Subset, FS_CardinalityType
<1>4. ASSUME NEW f \in rows, NEW e \in newer, e <= f
      PROVE  e \in rows
  <2>1. f \in newer /\ Cardinality(Below(f)) < ChunkSize
    BY <1>2
  <2>2. e \in Int /\ f \in Int
    BY <1>1, <2>1
  <2>3. Below(e) \subseteq Below(f)
    BY <1>1, <1>4, <2>1, <2>2
  <2>4. Cardinality(Below(e)) <= Cardinality(Below(f))
    BY <1>3, <2>1, <2>3, FS_Subset
  <2>5. Cardinality(Below(e)) < ChunkSize
    BY <1>0, <1>3, <2>1, <2>4
  <2> QED BY <1>2, <2>5
<1>5. ASSUME NEW e \in newer, e \notin rows
      PROVE  Cardinality(rows) = ChunkSize
  <2> DEFINE beyond == newer \ rows
  <2>1. PICK b \in beyond : \A c \in beyond : b <= c
    <3>1. beyond \subseteq Nat /\ beyond # {}
      BY <1>0, <1>1, <1>5
    <3> HIDE DEF beyond
    <3> QED BY <3>1, SmallestId
  <2>2. b \in newer /\ b \notin rows /\ b \in 1 .. Last
    BY <1>1, <2>1
  <2>3. \A f \in newer : f \in 1 .. Last
    BY <1>1
  <2>4. \A f \in rows : f \in newer
    BY <1>2
  <2> HIDE DEF newer, rows
  <2>5. rows = {f \in newer : f < b}
    <3>1. ASSUME NEW f \in rows PROVE f \in newer /\ f < b
      <4>1. ~(b <= f)
        BY <1>4, <2>2
      <4>2. f \in newer
        BY <2>4, <3>1
      <4>3. f \in 1 .. Last /\ b \in 1 .. Last
        BY <2>2, <2>3, <4>2
      <4>4. f < b
        BY <1>0, <4>1, <4>3
      <4> QED BY <4>2, <4>4
    <3>2. ASSUME NEW f \in newer, f < b PROVE f \in rows
      <4>1. f \in 1 .. Last
        BY <2>3
      <4> QED BY <2>1, <2>2, <3>2, <4>1
    <3> QED BY <3>1, <3>2
  <2>6. ~(Cardinality(rows) < ChunkSize)
    BY <1>2, <2>2, <2>5
  <2>7. IsFiniteSet(rows) /\ Cardinality(rows) \in Nat
    BY <1>3, <2>2, <2>5
  <2>8. rows # {}
    BY <1>0, <2>6, FS_EmptySet
  <2>9. PICK t \in rows : \A f \in rows : f <= t
    <3>1. rows \subseteq 0 .. Last
      BY <2>3, <2>4
    <3> QED BY <1>0, <2>8, <3>1, LargestId
  <2>10. t \in newer /\ Cardinality({f \in newer : f < t}) < ChunkSize
    BY <1>2, <2>9
  <2>11. rows \ {t} \subseteq {f \in newer : f < t}
    <3>1. ASSUME NEW f \in rows, f # t PROVE f \in newer /\ f < t
      <4>1. f \in 1 .. Last /\ t \in 1 .. Last
        BY <2>3, <2>4
      <4> QED BY <2>4, <2>9, <3>1, <4>1
    <3> QED BY <3>1
  <2>12. Cardinality(rows \ {t}) = Cardinality(rows) - 1 /\ IsFiniteSet(rows \ {t})
    BY <2>7, <2>9, FS_RemoveElement
  <2>13. Cardinality(rows \ {t}) <= Cardinality({f \in newer : f < t})
    BY <1>3, <2>10, <2>11, FS_Subset
  <2>14. Cardinality({f \in newer : f < t}) \in Nat
    BY <1>3, <2>10
  <2> QED BY <1>0, <2>6, <2>7, <2>10, <2>12, <2>13, <2>14
<1>6. rows \subseteq newer
  BY <1>2
<1>7. Paging!HasMore(rows) <=> Cardinality(rows) = ChunkSize
  BY PagingCardinality DEF Paging!HasMore
<1>8. \A f \in rows : \A e \in log : from < e /\ e <= f => e \in rows
  BY <1>0, <1>1, <1>4 DEF Paging!Id, Paging!Event
<1>9. ~Paging!HasMore(rows) => rows = newer
  BY <1>5, <1>6, <1>7
<1> QED BY <1>6, <1>8, <1>9

Packet == Paging!Chunk \cup Paging!Live

\* The live events and the pages on a socket.
Aboard(q) == {m.event : m \in {x \in Paging!ToSet(q) : x \in Paging!Live}}
PageAt(q) == {i \in 1 .. Len(q) : q[i] \in Paging!Chunk}

LEMMA PacketsDiffer == \A x \in Paging!Live : x \notin Paging!Chunk
<1>1. \A x \in Paging!Live : DOMAIN x = {"event"}
  BY DEF Paging!Live
<1>2. \A x \in Paging!Chunk : DOMAIN x = {"events", "hasMore"}
  BY DEF Paging!Chunk
<1>3. {"event"} # {"events", "hasMore"}
  OBVIOUS
<1> QED BY <1>1, <1>2, <1>3

LEMMA AboardIs ==
    ASSUME NEW q \in Seq(Packet)
    PROVE  \A e : e \in Aboard(q) <=>
                    \E i \in 1 .. Len(q) : q[i] \in Paging!Live /\ q[i].event = e
<1>1. DOMAIN q = 1 .. Len(q)
  BY LenProperties
<1> QED BY <1>1 DEF Aboard, Paging!ToSet

LEMMA EmptySocket == Aboard(<<>>) = {} /\ PageAt(<<>>) = {}
BY EmptySeq DEF Aboard, PageAt, Paging!ToSet

LEMMA SocketAppend ==
    ASSUME NEW q \in Seq(Packet), NEW x \in Packet
    PROVE  /\ Aboard(q) \subseteq Aboard(Append(q, x))
           /\ x \in Paging!Live => /\ x.event \in Aboard(Append(q, x))
                                   /\ PageAt(Append(q, x)) = PageAt(q)
           /\ x \in Paging!Chunk => PageAt(Append(q, x)) = PageAt(q) \cup {Len(q) + 1}
           /\ \A i \in 1 .. Len(q) : Append(q, x)[i] = q[i]
           /\ Append(q, x)[Len(q) + 1] = x
           /\ Append(q, x) \in Seq(Packet)
<1> DEFINE r == Append(q, x)
<1>1. /\ r \in Seq(Packet) /\ Len(r) = Len(q) + 1
      /\ \A i \in 1 .. Len(q) : r[i] = q[i]
      /\ r[Len(q) + 1] = x
  BY AppendProperties
<1>2. Len(q) \in Nat
  BY LenProperties
<1>3. \A e : e \in Aboard(r) <=>
               \E i \in 1 .. Len(r) : r[i] \in Paging!Live /\ r[i].event = e
  BY <1>1, AboardIs
<1>4. Aboard(q) \subseteq Aboard(r)
  <2>1. ASSUME NEW e \in Aboard(q) PROVE e \in Aboard(r)
    <3>1. PICK i \in 1 .. Len(q) : q[i] \in Paging!Live /\ q[i].event = e
      BY AboardIs
    <3>2. i \in 1 .. Len(r) /\ r[i] = q[i]
      BY <1>1, <1>2
    <3> QED BY <1>3, <3>1, <3>2
  <2> QED BY <2>1
<1>5. ASSUME x \in Paging!Live PROVE x.event \in Aboard(r)
  <2>1. Len(q) + 1 \in 1 .. Len(r)
    BY <1>1, <1>2
  <2> QED BY <1>1, <1>3, <1>5, <2>1
<1>6. 1 .. Len(r) = (1 .. Len(q)) \cup {Len(q) + 1}
  BY <1>1, <1>2
<1>7. x \in Paging!Live => PageAt(r) = PageAt(q)
  BY <1>1, <1>6, PacketsDiffer DEF PageAt
<1>8. x \in Paging!Chunk => PageAt(r) = PageAt(q) \cup {Len(q) + 1}
  BY <1>1, <1>6 DEF PageAt
<1> QED BY <1>1, <1>4, <1>5, <1>7, <1>8

LEMMA SocketTail ==
    ASSUME NEW q \in Seq(Packet), q # <<>>
    PROVE  /\ Head(q) = q[1] /\ 1 \in 1 .. Len(q) /\ Tail(q) \in Seq(Packet)
           /\ Head(q) \in Paging!Live => Aboard(q) \subseteq Aboard(Tail(q)) \cup {Head(q).event}
           /\ Head(q) \in Paging!Chunk => Aboard(q) \subseteq Aboard(Tail(q))
           /\ PageAt(Tail(q)) = {i - 1 : i \in PageAt(q) \ {1}}
           /\ \A i \in PageAt(Tail(q)) : i + 1 \in PageAt(q) /\ Tail(q)[i] = q[i + 1]
<1> DEFINE r == Tail(q)
<1>1. /\ r \in Seq(Packet) /\ Len(r) = Len(q) - 1
      /\ \A i \in 1 .. Len(r) : r[i] = q[i + 1]
  BY HeadTailProperties
<1>2. Len(q) \in Nat \ {0}
  BY EmptySeq
<1>3. Head(q) = q[1] /\ 1 \in 1 .. Len(q)
  BY <1>2
<1>4. ASSUME NEW e \in Aboard(q) PROVE e \in Aboard(r) \/ (Head(q) \in Paging!Live /\ Head(q).event = e)
  <2>1. PICK i \in 1 .. Len(q) : q[i] \in Paging!Live /\ q[i].event = e
    BY AboardIs
  <2>2. CASE i = 1
    BY <1>3, <2>1, <2>2
  <2>3. CASE i # 1
    <3>1. i - 1 \in 1 .. Len(r) /\ (i - 1) + 1 = i
      BY <1>1, <1>2, <2>3
    <3>2. r[i - 1] = q[i]
      BY <1>1, <3>1
    <3> QED BY <1>1, <2>1, <3>1, <3>2, AboardIs
  <2> QED BY <2>2, <2>3
<1>5. \A i \in 1 .. Len(r) : i + 1 \in 1 .. Len(q) /\ i + 1 # 1 /\ (i + 1) - 1 = i
  BY <1>1, <1>2
<1>6. \A i \in PageAt(r) : i + 1 \in PageAt(q) /\ r[i] = q[i + 1]
  BY <1>1, <1>5 DEF PageAt
<1>7. \A i \in PageAt(q) \ {1} : i - 1 \in PageAt(r)
  <2>1. \A i \in (1 .. Len(q)) \ {1} : i - 1 \in 1 .. Len(r) /\ (i - 1) + 1 = i
    BY <1>1, <1>2
  <2> QED BY <1>1, <2>1 DEF PageAt
<1>8. PageAt(r) = {i - 1 : i \in PageAt(q) \ {1}}
  <2>1. \A i \in PageAt(r) : i \in 1 .. Len(r)
    BY DEF PageAt
  <2> QED BY <1>5, <1>6, <1>7, <2>1
<1>9. Head(q) \in Paging!Chunk => Head(q) \notin Paging!Live
  BY PacketsDiffer
<1> QED BY <1>1, <1>3, <1>4, <1>6, <1>8, <1>9

\* An event was handled by this process when its memo holds it.
HandledIsSeen == \A e \in Paging!Event : handled[e] = IF e \in seen THEN 1 ELSE 0

\* One request or page is on its way while a catchup is in flight, none
\* otherwise; a socket that is down or has not said hello carries nothing back.
OneIsOut ==
    /\ \/ request = Paging!None /\ toServer = <<>> /\ PageAt(toClient) = {}
       \/ /\ request # Paging!None /\ dialed # "down"
          /\ toServer = <<request>> /\ PageAt(toClient) = {}
       \/ /\ request # Paging!None /\ dialed = "live" /\ toServer = <<>>
          /\ \E i : PageAt(toClient) = {i}
    /\ dialed # "live" => toClient = <<>>
    /\ dialed = "down" => request = Paging!None
    /\ dialed = "open" => request = since

\* Of what the catchup answers for, the client has, or has on its way,
\* everything between the watermark the catchup began with and the one it has
\* reached: a later publication goes out live, whatever its id.
NothingSkipped ==
    request # Paging!None =>
        \A e \in Paging!Owed :
            e > since /\ e <= request => e \in received \cup Aboard(toClient)

\* The page on its way continues it: to its last event, or to the end.
PagesContinue ==
    \A i \in PageAt(toClient) : \A e \in Paging!Owed :
        /\ e > since
        /\ toClient[i].hasMore => \E f \in toClient[i].events : e <= f
        => e \in received \cup Aboard(toClient) \cup toClient[i].events

PagingIInv == Paging!TypeOK /\ HandledIsSeen /\ OneIsOut /\ NothingSkipped /\ PagesContinue

LEMMA PagingInit == Paging!Init => PagingIInv
<1> SUFFICES ASSUME Paging!Init PROVE PagingIInv
  OBVIOUS
<1> USE PartsAssumption DEF Paging!CatchupAssumption, Paging!Init
<1>1. Paging!TypeOK
  <2>0. Last \in Nat /\ MaxQueue \in Nat \ {0} /\ MaxCuts \in Nat
    OBVIOUS
  <2>1. <<>> \in Seq(Paging!Event) /\ <<>> \in Seq(Paging!Id) /\ Len(<<>>) = 0
        /\ <<>> \in Seq(Paging!Chunk \cup Paging!Live)
    BY EmptySeq
  <2>2. 0 \in Paging!Id /\ 0 \in 0 .. MaxCuts /\ 0 <= MaxQueue
    BY <2>0 DEF Paging!Id
  <2>3. handled \in [Paging!Event -> Nat]
    OBVIOUS
  <2> QED BY <2>1, <2>2, <2>3 DEF Paging!TypeOK
<1>2. HandledIsSeen
  BY DEF HandledIsSeen
<1>3. OneIsOut /\ NothingSkipped /\ PagesContinue
  BY EmptySocket DEF OneIsOut, NothingSkipped, PagesContinue
<1> QED BY <1>1, <1>2, <1>3 DEF PagingIInv

\* bus.inject of a set of events keeps the memo's account.
LEMMA InjectKeeps ==
    ASSUME PagingIInv, NEW S, S \subseteq Paging!Event, Paging!Injected(S)
    PROVE  /\ HandledIsSeen'
           /\ received' \subseteq Paging!Event /\ seen' \subseteq Paging!Event
           /\ handled' \in [Paging!Event -> Nat]
           /\ received \subseteq received' /\ S \subseteq received'
<1>1. /\ received' = received \cup S /\ seen' = seen \cup S
      /\ handled' = [e \in Paging!Event |->
                        IF e \in S \ seen THEN handled[e] + 1 ELSE handled[e]]
  BY DEF Paging!Injected
<1>2. \A e \in Paging!Event : handled[e] = IF e \in seen THEN 1 ELSE 0
  BY DEF PagingIInv, HandledIsSeen
<1>3. HandledIsSeen'
  BY <1>1, <1>2 DEF HandledIsSeen
<1>4. received \subseteq Paging!Event /\ seen \subseteq Paging!Event
  BY DEF PagingIInv, Paging!TypeOK
<1>5. handled' \in [Paging!Event -> Nat]
  BY <1>1, <1>2
<1> QED BY <1>1, <1>3, <1>4, <1>5

\* A step that leaves the client's socket alone.
LEMMA SocketUntouched ==
    ASSUME PagingIInv, UNCHANGED <<toServer, toClient, request, since>>,
           dialed' = dialed \/ (dialed = "open" /\ dialed' = "live"),
           Paging!Owed' = Paging!Owed, received \subseteq received'
    PROVE  OneIsOut' /\ NothingSkipped' /\ PagesContinue'
<1>1. OneIsOut'
  BY DEF PagingIInv, OneIsOut
<1>2. NothingSkipped'
  BY DEF PagingIInv, NothingSkipped
<1>3. PagesContinue'
  BY DEF PagingIInv, PagesContinue
<1> QED BY <1>1, <1>2, <1>3

\* A step that loses it.
LEMMA SocketLost ==
    ASSUME PagingIInv, Paging!DialLost, request' = Paging!None
    PROVE  OneIsOut' /\ NothingSkipped' /\ PagesContinue'
BY EmptySocket DEF Paging!DialLost, OneIsOut, NothingSkipped, PagesContinue

LEMMA PublishKeeps ==
    ASSUME PagingIInv, NEW e \in Paging!Event, Paging!Publish(e)
    PROVE  PagingIInv'
<1>0. Last \in Nat /\ MaxQueue \in Nat \ {0}
  BY PartsAssumption DEF Paging!CatchupAssumption
<1>1. /\ UNCHANGED <<dialed, toServer, pushing, received, seen, handled, mark, saved, request,
                     since, atDial, cuts>>
      /\ log' = log \cup {e}
      /\ toClient' = IF dialed = "live" THEN Append(toClient, [event |-> e]) ELSE toClient
      /\ pushed' = pushed \/ pushed' = Append(pushed, e)
      /\ backlog' = backlog \/ backlog' = Paging!Queued(e)
  BY DEF Paging!Publish, Paging!client, Paging!history
<1>2. toClient \in Seq(Packet) /\ Len(toClient) \in Nat
  BY LenProperties DEF PagingIInv, Paging!TypeOK, Packet
<1>3. [event |-> e] \in Paging!Live /\ [event |-> e].event = e
  BY DEF Paging!Live
<1> DEFINE live == [event |-> e]
<1> HIDE DEF live
<1>4. dialed = "live" => /\ toClient' \in Seq(Packet)
                         /\ Aboard(toClient) \cup {e} \subseteq Aboard(toClient')
                         /\ PageAt(toClient') = PageAt(toClient)
                         /\ \A i \in 1 .. Len(toClient) : toClient'[i] = toClient[i]
  BY <1>1, <1>2, <1>3, SocketAppend DEF Packet, live
<1>5. Paging!TypeOK'
  <2>1. pushed' \in Seq(Paging!Event)
    <3>1. pushed \in Seq(Paging!Event)
      BY DEF PagingIInv, Paging!TypeOK
    <3>2. Append(pushed, e) \in Seq(Paging!Event)
      BY <3>1, AppendProperties
    <3> QED BY <1>1, <3>1, <3>2
  <2>2. backlog' \in Seq(Paging!Event) /\ Len(backlog') <= MaxQueue
    <3>1. backlog \in Seq(Paging!Event) /\ Len(backlog) <= MaxQueue
      BY DEF PagingIInv, Paging!TypeOK
    <3> DEFINE all == Append(backlog, e)
    <3>2. all \in Seq(Paging!Event) /\ Len(all) = Len(backlog) + 1 /\ all # <<>>
      BY <3>1, AppendProperties
    <3>3. Len(backlog) \in Nat
      BY <3>1, LenProperties
    <3>4. Tail(all) \in Seq(Paging!Event) /\ Len(Tail(all)) = Len(backlog)
      <4> HIDE DEF all
      <4>1. Tail(all) \in Seq(Paging!Event) /\ Len(Tail(all)) = Len(all) - 1
        BY <3>2, HeadTailProperties
      <4> QED BY <3>2, <3>3, <4>1
    <3>5. Paging!Queued(e) = IF Len(all) > MaxQueue THEN Tail(all) ELSE all
      BY DEF Paging!Queued
    <3> HIDE DEF all
    <3>6. CASE backlog' = backlog
      BY <3>1, <3>6
    <3>7. CASE backlog' = Tail(all)
      BY <3>1, <3>4, <3>7
    <3>8. CASE backlog' = all /\ ~(Len(all) > MaxQueue)
      BY <1>0, <3>2, <3>3, <3>8
    <3> QED BY <1>1, <3>5, <3>6, <3>7, <3>8
  <2>3. toClient' \in Seq(Paging!Chunk \cup Paging!Live)
    BY <1>1, <1>2, <1>4 DEF Packet
  <2> QED BY <1>1, <2>1, <2>2, <2>3 DEF PagingIInv, Paging!TypeOK
<1>6. HandledIsSeen'
  BY <1>1 DEF PagingIInv, HandledIsSeen
<1>7. OneIsOut'
  BY <1>1, <1>4 DEF PagingIInv, OneIsOut
<1>8. CASE dialed = "live"
  <2>1. NothingSkipped'
    BY <1>1, <1>4, <1>8 DEF PagingIInv, NothingSkipped, Paging!Owed
  <2>2. PagesContinue'
    <3>1. \A i \in PageAt(toClient) : toClient'[i] = toClient[i]
      BY <1>4, <1>8 DEF PageAt
    <3> QED BY <1>1, <1>4, <1>8, <3>1 DEF PagingIInv, PagesContinue, Paging!Owed
  <2> QED BY <1>5, <1>6, <1>7, <2>1, <2>2 DEF PagingIInv
<1>9. CASE dialed # "live"
  <2>1. toClient' = <<>>
    BY <1>1, <1>9 DEF PagingIInv, OneIsOut
  <2>2. request = Paging!None \/ request = since
    BY <1>9 DEF PagingIInv, OneIsOut, Paging!TypeOK
  <2>3. NothingSkipped'
    BY <1>0, <1>1, <2>2
    DEF PagingIInv, Paging!TypeOK, NothingSkipped, Paging!Owed, Paging!Event, Paging!Id
  <2>4. PagesContinue'
    BY <2>1, EmptySocket DEF PagesContinue
  <2> QED BY <1>5, <1>6, <1>7, <2>3, <2>4 DEF PagingIInv
<1> QED BY <1>8, <1>9

LEMMA QuietStepsKeep ==
    ASSUME PagingIInv,
           \/ \E e \in Paging!Event : Paging!Relay(e)
           \/ Paging!PushOpens \/ Paging!Hello \/ Paging!PushCut \/ Paging!LiveOnPush
    PROVE  PagingIInv'
<1> USE DEF Paging!server, Paging!client, Paging!history
<1>1. CASE \E e \in Paging!Event : Paging!Relay(e)
  <2>1. PICK e \in Paging!Event : Paging!Relay(e)
    BY <1>1
  <2>2. Paging!TypeOK'
    BY <2>1 DEF Paging!Relay, PagingIInv, Paging!TypeOK
  <2>3. HandledIsSeen'
    BY <2>1 DEF Paging!Relay, PagingIInv, HandledIsSeen
  <2>4. OneIsOut' /\ NothingSkipped' /\ PagesContinue'
    <3>1. /\ UNCHANGED <<toServer, toClient, request, since, dialed, received>>
          /\ Paging!Owed' = Paging!Owed
      BY <2>1 DEF Paging!Relay, Paging!Owed
    <3> QED BY <3>1, SocketUntouched
  <2> QED BY <2>2, <2>3, <2>4 DEF PagingIInv
<1>2. CASE Paging!PushOpens
  <2>1. Paging!TypeOK'
    <3>1. <<>> \in Seq(Paging!Event) /\ Len(<<>>) = 0 /\ 0 <= MaxQueue
      BY EmptySeq, PartsAssumption DEF Paging!CatchupAssumption
    <3> QED BY <1>2, <3>1 DEF Paging!PushOpens, PagingIInv, Paging!TypeOK
  <2>2. HandledIsSeen'
    BY <1>2 DEF Paging!PushOpens, PagingIInv, HandledIsSeen
  <2>3. OneIsOut' /\ NothingSkipped' /\ PagesContinue'
    BY <1>2, SocketUntouched DEF Paging!PushOpens, Paging!Owed
  <2> QED BY <2>1, <2>2, <2>3 DEF PagingIInv
<1>3. CASE Paging!Hello
  <2>1. Paging!TypeOK'
    BY <1>3 DEF Paging!Hello, PagingIInv, Paging!TypeOK
  <2>2. HandledIsSeen'
    BY <1>3 DEF Paging!Hello, PagingIInv, HandledIsSeen
  <2>3. OneIsOut' /\ NothingSkipped' /\ PagesContinue'
    BY <1>3, SocketUntouched DEF Paging!Hello, Paging!Owed
  <2> QED BY <2>1, <2>2, <2>3 DEF PagingIInv
<1>4. CASE Paging!PushCut
  <2>1. Paging!TypeOK'
    <3>1. <<>> \in Seq(Paging!Event)
      BY EmptySeq
    <3>2. cuts' \in 0 .. MaxCuts
      BY <1>4, PartsAssumption
      DEF Paging!PushCut, Paging!Cut, Paging!CatchupAssumption, PagingIInv, Paging!TypeOK
    <3> QED BY <1>4, <3>1, <3>2 DEF Paging!PushCut, PagingIInv, Paging!TypeOK
  <2>2. HandledIsSeen'
    BY <1>4 DEF Paging!PushCut, PagingIInv, HandledIsSeen
  <2>3. OneIsOut' /\ NothingSkipped' /\ PagesContinue'
    BY <1>4, SocketUntouched DEF Paging!PushCut, Paging!Owed
  <2> QED BY <2>1, <2>2, <2>3 DEF PagingIInv
<1>5. CASE Paging!LiveOnPush
  <2>1. /\ pushed # <<>> /\ pushed' = Tail(pushed)
        /\ Paging!Injected({Head(pushed)})
        /\ UNCHANGED <<log, backlog, dialed, toServer, toClient, pushing, request, since, atDial,
                       cuts>>
        /\ mark' = mark \/ mark' = Head(pushed)
        /\ saved' = saved \/ saved' = Head(pushed)
    BY <1>5 DEF Paging!LiveOnPush, Paging!Accepted
  <2>2. Head(pushed) \in Paging!Event /\ Tail(pushed) \in Seq(Paging!Event)
    <3>1. pushed \in Seq(Paging!Event)
      BY DEF PagingIInv, Paging!TypeOK
    <3> QED BY <2>1, <3>1, HeadTailProperties
  <2>3. /\ HandledIsSeen'
        /\ received' \subseteq Paging!Event /\ seen' \subseteq Paging!Event
        /\ handled' \in [Paging!Event -> Nat]
        /\ received \subseteq received'
    BY <2>1, <2>2, InjectKeeps
  <2>4. \A e \in Paging!Event : e \in Paging!Id
    BY DEF Paging!Event, Paging!Id
  <2>5. Paging!TypeOK'
    BY <2>1, <2>2, <2>3, <2>4 DEF PagingIInv, Paging!TypeOK
  <2>6. OneIsOut' /\ NothingSkipped' /\ PagesContinue'
    BY <2>1, <2>3, SocketUntouched DEF Paging!Owed
  <2> QED BY <2>3, <2>5, <2>6 DEF PagingIInv
<1> QED BY <1>1, <1>2, <1>3, <1>4, <1>5

LEMMA CutsKeep ==
    ASSUME PagingIInv, Paging!DialCut \/ Paging!ClientRestarts \/ Paging!ServerRestarts
    PROVE  PagingIInv'
<1> USE DEF Paging!server, Paging!client, Paging!history
<1>0. Last \in Nat /\ MaxQueue \in Nat \ {0} /\ MaxCuts \in Nat
  BY PartsAssumption DEF Paging!CatchupAssumption
<1>1. Paging!DialLost /\ request' = Paging!None
  BY DEF Paging!DialCut, Paging!ClientRestarts, Paging!ServerRestarts
<1>2. OneIsOut' /\ NothingSkipped' /\ PagesContinue'
  BY <1>1, SocketLost
<1>3. HandledIsSeen'
  BY DEF PagingIInv, HandledIsSeen, Paging!DialCut, Paging!ClientRestarts, Paging!ServerRestarts
<1>4. Paging!TypeOK'
  <2>1. /\ <<>> \in Seq(Paging!Event) /\ <<>> \in Seq(Paging!Id) /\ Len(<<>>) = 0
        /\ <<>> \in Seq(Paging!Chunk \cup Paging!Live) /\ 0 <= MaxQueue
    BY <1>0, EmptySeq
  <2>2. cuts' \in 0 .. MaxCuts
    BY <1>0 DEF Paging!Cut, PagingIInv, Paging!TypeOK, Paging!DialCut, Paging!ClientRestarts,
                Paging!ServerRestarts
  <2>3. /\ log' = log /\ atDial' = atDial /\ received' = received /\ since' = since
        /\ saved' = saved /\ mark' \in {mark, saved}
        /\ pushing' \in {pushing, FALSE} /\ pushed' \in {pushed, <<>>}
        /\ backlog' \in {backlog, <<>>} /\ seen' \in {seen, {}}
        /\ handled' = handled \/ handled' = [e \in Paging!Event |-> 0]
    BY DEF Paging!DialCut, Paging!ClientRestarts, Paging!ServerRestarts
  <2>4. handled' \in [Paging!Event -> Nat]
    BY <2>3 DEF PagingIInv, Paging!TypeOK
  <2> QED BY <1>1, <2>1, <2>2, <2>3, <2>4 DEF PagingIInv, Paging!TypeOK, Paging!DialLost
<1> QED BY <1>2, <1>3, <1>4 DEF PagingIInv

LEMMA DialOpensKeeps ==
    ASSUME PagingIInv, Paging!DialOpens PROVE PagingIInv'
<1>1. /\ dialed = "down" /\ dialed' = "open" /\ request' = mark /\ since' = mark
      /\ atDial' = log /\ toServer' = <<mark>> /\ toClient' = <<>>
      /\ UNCHANGED <<log, backlog, pushing, pushed, received, seen, handled, mark, saved, cuts>>
  BY DEF Paging!DialOpens, Paging!server, Paging!client, PagingIInv, OneIsOut
<1>2. mark \in Paging!Id /\ mark # Paging!None
  BY PartsAssumption
  DEF PagingIInv, Paging!TypeOK, Paging!Id, Paging!None, Paging!CatchupAssumption
<1>3. Paging!TypeOK'
  <2>1. <<mark>> \in Seq(Paging!Id) /\ <<>> \in Seq(Paging!Chunk \cup Paging!Live)
    BY <1>2, EmptySeq
  <2> QED BY <1>1, <1>2, <2>1 DEF PagingIInv, Paging!TypeOK
<1>4. HandledIsSeen'
  BY <1>1 DEF PagingIInv, HandledIsSeen
<1>5. OneIsOut' /\ PagesContinue'
  BY <1>1, <1>2, EmptySocket DEF OneIsOut, PagesContinue
<1>6. NothingSkipped'
  <2>1. \A e \in Paging!Owed' : ~(e > mark /\ e <= mark)
    BY <1>1, <1>2, PartsAssumption
    DEF PagingIInv, Paging!Owed, Paging!TypeOK, Paging!Event, Paging!Id, Paging!CatchupAssumption
  <2> QED BY <1>1, <2>1 DEF NothingSkipped
<1> QED BY <1>3, <1>4, <1>5, <1>6 DEF PagingIInv

LEMMA ServeKeeps ==
    ASSUME PagingIInv, Paging!Serve PROVE PagingIInv'
<1> DEFINE rows == Paging!Rows(request)
           page == [events |-> rows, hasMore |-> Paging!HasMore(rows)]
           n == Len(toClient) + 1
<1>0. Last \in Nat
  BY PartsAssumption DEF Paging!CatchupAssumption
<1>1. /\ dialed = "live" /\ request # Paging!None /\ toServer = <<request>>
      /\ PageAt(toClient) = {}
  BY DEF PagingIInv, OneIsOut, Paging!Serve
<1>2. /\ toServer' = <<>> /\ toClient' = Append(toClient, page)
      /\ UNCHANGED <<log, backlog, dialed, pushing, pushed, received, seen, handled, mark, saved,
                     request, since, atDial, cuts>>
  BY <1>1 DEF Paging!Serve, Paging!server, Paging!client, Paging!history
<1>3. log \subseteq Paging!Event /\ request \in Paging!Id /\ since \in Paging!Id
  BY <1>1 DEF PagingIInv, Paging!TypeOK
<1>4. /\ rows \subseteq {e \in log : e > request}
      /\ Paging!HasMore(rows) =>
            \A f \in rows : \A e \in log : request < e /\ e <= f => e \in rows
      /\ ~Paging!HasMore(rows) => rows = {e \in log : e > request}
  BY <1>3, RowsArePages
<1>5. Paging!HasMore(rows) \in BOOLEAN
  BY DEF Paging!HasMore
<1>6. page \in Paging!Chunk /\ page.events = rows /\ page.hasMore = Paging!HasMore(rows)
  <2>1. rows \subseteq Paging!Event
    BY <1>3, <1>4
  <2> HIDE DEF rows
  <2> QED BY <1>5, <2>1 DEF Paging!Chunk
<1> HIDE DEF rows, page
<1>7. toClient \in Seq(Packet) /\ Len(toClient) \in Nat
  BY LenProperties DEF PagingIInv, Paging!TypeOK, Packet
<1>8. /\ toClient' \in Seq(Packet) /\ Aboard(toClient) \subseteq Aboard(toClient')
      /\ PageAt(toClient') = {n} /\ toClient'[n] = page
  BY <1>1, <1>2, <1>6, <1>7, SocketAppend DEF Packet
<1>9. Paging!TypeOK'
  <2>1. <<>> \in Seq(Paging!Id)
    BY EmptySeq
  <2> QED BY <1>2, <1>8, <2>1 DEF PagingIInv, Paging!TypeOK, Packet
<1>10. HandledIsSeen'
  BY <1>2 DEF PagingIInv, HandledIsSeen
<1>11. OneIsOut'
  BY <1>1, <1>2, <1>8 DEF OneIsOut
<1>12. Paging!Owed' = Paging!Owed /\ Paging!Owed \subseteq log
  BY <1>2 DEF PagingIInv, Paging!TypeOK, Paging!Owed
<1>13. NothingSkipped'
  BY <1>2, <1>8, <1>12 DEF PagingIInv, NothingSkipped
<1>14. PagesContinue'
  <2> SUFFICES ASSUME NEW e \in Paging!Owed, e > since,
                      Paging!HasMore(rows) => \E f \in rows : e <= f
               PROVE  e \in received \cup Aboard(toClient) \cup rows
    BY <1>2, <1>6, <1>8, <1>12 DEF PagesContinue
  <2>1. CASE e <= request
    BY <1>1, <2>1 DEF PagingIInv, NothingSkipped
  <2>2. CASE ~(e <= request)
    <3>1. e > request
      BY <1>0, <1>3, <1>12, <2>2 DEF Paging!Event, Paging!Id
    <3> QED BY <1>4, <1>12, <3>1
  <2> QED BY <2>1, <2>2
<1> QED BY <1>9, <1>10, <1>11, <1>13, <1>14 DEF PagingIInv

LEMMA LiveOnDialKeeps ==
    ASSUME PagingIInv, Paging!LiveOnDial PROVE PagingIInv'
<1> DEFINE m == Head(toClient)
<1>1. /\ toClient # <<>> /\ m \in Paging!Live /\ toClient' = Tail(toClient)
      /\ Paging!Injected({m.event})
      /\ UNCHANGED <<log, backlog, dialed, toServer, pushing, pushed, request, since, atDial, cuts>>
      /\ mark' = mark \/ mark' = m.event
      /\ saved' = saved \/ saved' = m.event
  BY DEF Paging!LiveOnDial, Paging!Accepted, Paging!server, Paging!history
<1>2. m.event \in Paging!Event /\ m.event \in Paging!Id
  BY <1>1 DEF Paging!Live, Paging!Event, Paging!Id
<1>3. /\ HandledIsSeen'
      /\ received' \subseteq Paging!Event /\ seen' \subseteq Paging!Event
      /\ handled' \in [Paging!Event -> Nat]
      /\ received \cup {m.event} \subseteq received'
  BY <1>1, <1>2, InjectKeeps
<1>4. toClient \in Seq(Packet)
  BY DEF PagingIInv, Paging!TypeOK, Packet
<1>5. /\ m = toClient[1] /\ toClient' \in Seq(Packet)
      /\ Aboard(toClient) \subseteq Aboard(toClient') \cup {m.event}
      /\ PageAt(toClient') = {i - 1 : i \in PageAt(toClient) \ {1}}
      /\ \A i \in PageAt(toClient') : i + 1 \in PageAt(toClient) /\ toClient'[i] = toClient[i + 1]
  BY <1>1, <1>4, SocketTail
<1>6. PageAt(toClient) \ {1} = PageAt(toClient)
  BY <1>1, <1>5, PacketsDiffer DEF PageAt
<1>7. Paging!TypeOK'
  BY <1>1, <1>2, <1>3, <1>5 DEF PagingIInv, Paging!TypeOK, Packet
<1>8. OneIsOut'
  <2>1. PageAt(toClient) = {} => PageAt(toClient') = {}
    BY <1>5
  <2>2. \A i : PageAt(toClient) = {i} => PageAt(toClient') = {i - 1}
    BY <1>5, <1>6
  <2>3. dialed = "live"
    BY <1>1 DEF PagingIInv, OneIsOut
  <2> QED BY <1>1, <2>1, <2>2, <2>3 DEF PagingIInv, OneIsOut
<1>9. Paging!Owed' = Paging!Owed
  BY <1>1 DEF Paging!Owed
<1>10. NothingSkipped'
  BY <1>1, <1>3, <1>5, <1>9 DEF PagingIInv, NothingSkipped
<1>11. PagesContinue'
  <2> SUFFICES ASSUME NEW i \in PageAt(toClient'), NEW e \in Paging!Owed, e > since,
                      toClient'[i].hasMore => \E f \in toClient'[i].events : e <= f
               PROVE  e \in received' \cup Aboard(toClient') \cup toClient'[i].events
    BY <1>1, <1>9 DEF PagesContinue
  <2>1. e \in received \cup Aboard(toClient) \cup toClient[i + 1].events
    BY <1>5 DEF PagingIInv, PagesContinue
  <2> QED BY <1>3, <1>5, <2>1
<1> QED BY <1>3, <1>7, <1>8, <1>10, <1>11 DEF PagingIInv

\* What HandleChunk does with the page at the head of the socket, given the
\* watermark it reaches.
LEMMA ChunkMoves ==
    ASSUME PagingIInv, Paging!HandleChunk
    PROVE  \E top \in Paging!Id :
              LET page == toClient[1] IN
              /\ page \in Paging!Chunk /\ PageAt(toClient) = {1} /\ toServer = <<>>
              /\ dialed = "live" /\ request # Paging!None
              /\ toClient' = Tail(toClient) /\ toClient' \in Seq(Packet)
              /\ Aboard(toClient) \subseteq Aboard(toClient') /\ PageAt(toClient') = {}
              /\ Paging!Injected(page.events)
              /\ top = request \/ top \in page.events
              /\ mark' \in {mark, top} /\ saved' \in {saved, top}
              /\ \/ page.hasMore /\ request' = top /\ toServer' = <<top>>
                 \/ ~page.hasMore /\ request' = Paging!None /\ toServer' = <<>>
              /\ UNCHANGED <<log, backlog, dialed, pushing, pushed, since, atDial, cuts>>
<1> DEFINE page == toClient[1]
           ids == page.events \cup {request}
           Top(w) == w \in ids /\ \A e \in ids : e <= w
           top == CHOOSE w \in ids : \A e \in ids : e <= w
<1>0. Last \in Nat
  BY PartsAssumption DEF Paging!CatchupAssumption
<1>1. toClient \in Seq(Packet) /\ toClient # <<>> /\ Head(toClient) \in Paging!Chunk
  BY DEF Paging!HandleChunk, PagingIInv, Paging!TypeOK, Packet
<1>2. /\ Head(toClient) = page /\ 1 \in 1 .. Len(toClient) /\ Tail(toClient) \in Seq(Packet)
      /\ Aboard(toClient) \subseteq Aboard(Tail(toClient))
      /\ PageAt(Tail(toClient)) = {i - 1 : i \in PageAt(toClient) \ {1}}
  BY <1>1, SocketTail
<1>3. 1 \in PageAt(toClient)
  BY <1>1, <1>2 DEF PageAt
<1>4. /\ request # Paging!None /\ dialed = "live" /\ toServer = <<>>
      /\ PageAt(toClient) = {1}
  BY <1>3 DEF PagingIInv, OneIsOut
<1>5. PageAt(Tail(toClient)) = {}
  BY <1>2, <1>4
<1>6. page.events \subseteq Paging!Event /\ page.hasMore \in BOOLEAN
  BY <1>1, <1>2 DEF Paging!Chunk
<1>7. ids \subseteq 0 .. Last /\ ids # {}
  BY <1>4, <1>6 DEF PagingIInv, Paging!TypeOK, Paging!Event, Paging!Id
<1>8. \E w \in ids : \A e \in ids : e <= w
  <2> HIDE DEF ids
  <2> QED BY <1>0, <1>7, LargestId
<1>9. top \in ids
  BY <1>8
<1>10. top \in Paging!Id /\ (top = request \/ top \in page.events)
  BY <1>7, <1>9 DEF Paging!Id
<1>11. /\ toClient' = Tail(toClient) /\ Paging!Injected(page.events)
       /\ IF top # request THEN mark' = top /\ saved' = top ELSE UNCHANGED <<mark, saved>>
       /\ IF page.hasMore THEN request' = top /\ toServer' = Append(toServer, top)
                          ELSE request' = Paging!None /\ UNCHANGED toServer
       /\ UNCHANGED <<log, backlog, dialed, pushing, pushed, since, atDial, cuts>>
  BY <1>2 DEF Paging!HandleChunk, Paging!server, Paging!history
<1>12. Append(<<>>, top) = <<top>>
  OBVIOUS
<1> HIDE DEF page, top
<1>13. mark' \in {mark, top} /\ saved' \in {saved, top}
  BY <1>11
<1>14. \/ page.hasMore /\ request' = top /\ toServer' = <<top>>
       \/ ~page.hasMore /\ request' = Paging!None /\ toServer' = <<>>
  BY <1>4, <1>11, <1>12
<1> QED BY <1>1, <1>2, <1>4, <1>5, <1>10, <1>11, <1>13, <1>14 DEF page

LEMMA HandleChunkKeeps ==
    ASSUME PagingIInv, Paging!HandleChunk PROVE PagingIInv'
<1> DEFINE page == toClient[1]
<1>1. PICK top \in Paging!Id :
              /\ page \in Paging!Chunk /\ PageAt(toClient) = {1} /\ toServer = <<>>
              /\ dialed = "live" /\ request # Paging!None
              /\ toClient' = Tail(toClient) /\ toClient' \in Seq(Packet)
              /\ Aboard(toClient) \subseteq Aboard(toClient') /\ PageAt(toClient') = {}
              /\ Paging!Injected(page.events)
              /\ top = request \/ top \in page.events
              /\ mark' \in {mark, top} /\ saved' \in {saved, top}
              /\ \/ page.hasMore /\ request' = top /\ toServer' = <<top>>
                 \/ ~page.hasMore /\ request' = Paging!None /\ toServer' = <<>>
              /\ UNCHANGED <<log, backlog, dialed, pushing, pushed, since, atDial, cuts>>
  BY ChunkMoves
<1>2. page.events \subseteq Paging!Event
  BY <1>1 DEF Paging!Chunk
<1>3. /\ HandledIsSeen'
      /\ received' \subseteq Paging!Event /\ seen' \subseteq Paging!Event
      /\ handled' \in [Paging!Event -> Nat]
      /\ received \subseteq received' /\ page.events \subseteq received'
  BY <1>1, <1>2, InjectKeeps
<1>4. top # Paging!None
  BY PartsAssumption DEF Paging!Id, Paging!None, Paging!CatchupAssumption
<1> HIDE DEF page
<1>5. Paging!TypeOK'
  <2>1. toServer' \in Seq(Paging!Id)
    <3>1. <<top>> \in Seq(Paging!Id) /\ <<>> \in Seq(Paging!Id)
      BY EmptySeq
    <3>2. toServer' \in {<<top>>, <<>>}
      BY <1>1
    <3> QED BY <3>1, <3>2
  <2> QED BY <1>1, <1>3, <2>1 DEF PagingIInv, Paging!TypeOK, Packet
<1>6. OneIsOut'
  BY <1>1, <1>4 DEF OneIsOut
<1>7. PagesContinue'
  BY <1>1 DEF PagesContinue
<1>8. NothingSkipped'
  <2> SUFFICES ASSUME page.hasMore, request' = top,
                      NEW e \in Paging!Owed, e > since, e <= top
               PROVE  e \in received' \cup Aboard(toClient')
    <3>1. Paging!Owed' = Paging!Owed
      BY <1>1 DEF Paging!Owed
    <3> QED BY <1>1, <3>1 DEF NothingSkipped
  <2>1. CASE top = request
    <3>1. e \in received \cup Aboard(toClient)
      BY <1>1, <2>1 DEF PagingIInv, NothingSkipped
    <3> QED BY <1>1, <1>3, <3>1
  <2>2. CASE top \in page.events
    <3>1. e \in received \cup Aboard(toClient) \cup page.events
      BY <1>1, <2>2 DEF PagingIInv, PagesContinue, page
    <3> QED BY <1>1, <1>3, <3>1
  <2> QED BY <1>1, <2>1, <2>2
<1> QED BY <1>3, <1>5, <1>6, <1>7, <1>8 DEF PagingIInv

LEMMA PagingStepKeeps == PagingIInv /\ [Paging!Next]_(Paging!vars) => PagingIInv'
<1> SUFFICES ASSUME PagingIInv, [Paging!Next]_(Paging!vars)
             PROVE  PagingIInv'
  OBVIOUS
<1>1. CASE UNCHANGED Paging!vars
  <2>1. Paging!TypeOK' /\ HandledIsSeen'
    BY <1>1 DEF Paging!vars, PagingIInv, Paging!TypeOK, HandledIsSeen
  <2>2. OneIsOut' /\ NothingSkipped' /\ PagesContinue'
    BY <1>1, SocketUntouched DEF Paging!vars, Paging!Owed
  <2> QED BY <2>1, <2>2 DEF PagingIInv
<1>2. CASE Paging!Next
  BY <1>2, PublishKeeps, QuietStepsKeep, CutsKeep, DialOpensKeeps, ServeKeeps, LiveOnDialKeeps,
     HandleChunkKeeps
  DEF Paging!Next, Paging!Deliver
<1> QED BY <1>1, <1>2

\* A process dispatches an event to its handlers once, whichever of pages, live
\* events and the second socket brings it first; and one request or page is in
\* flight at most (mesh/catchup.ts, bus/index.ts).
THEOREM EventsHandledOnce == FederationSpec => []HandledOnce
<1>1. PagingIInv => HandledOnce
  <2> SUFFICES ASSUME PagingIInv PROVE HandledOnce
    OBVIOUS
  <2>1. \A e \in Paging!Event : handled[e] <= 1
    BY DEF PagingIInv, HandledIsSeen
  <2>2. PageAt(toClient) = {i \in DOMAIN toClient : toClient[i] \in Paging!Chunk}
    BY LenProperties DEF PagingIInv, Paging!TypeOK, PageAt
  <2>3. Len(toServer) + Cardinality(PageAt(toClient)) = IF request = Paging!None THEN 0 ELSE 1
    <3>1. CASE request = Paging!None
      BY <3>1, EmptySeq, FS_EmptySet DEF PagingIInv, OneIsOut
    <3>2. CASE request # Paging!None /\ PageAt(toClient) = {} /\ toServer = <<request>>
      <4>1. Len(toServer) = 1 /\ Cardinality(PageAt(toClient)) = 0
        BY <3>2, FS_EmptySet
      <4> QED BY <3>2, <4>1
    <3>3. CASE request # Paging!None /\ toServer = <<>> /\ \E i : PageAt(toClient) = {i}
      <4>1. Len(toServer) = 0 /\ Cardinality(PageAt(toClient)) = 1
        BY <3>3, EmptySeq, FS_Singleton
      <4> QED BY <3>3, <4>1
    <3> QED BY <3>1, <3>2, <3>3 DEF PagingIInv, OneIsOut
  <2>4. Paging!OneOutstanding
    BY <2>2, <2>3, PagingCardinality DEF Paging!OneOutstanding
  <2> QED BY <2>1, <2>4 DEF PagingIInv, HandledOnce, Paging!HandledOnce
<1> QED BY <1>1, FederationRunsPaging, PagingInit, PagingStepKeeps, PTL

\* A catchup that ends with its socket up has brought, or left on that socket,
\* every event after its starting watermark that the server published itself,
\* whatever was published, relayed or pushed meanwhile (mesh/catchup.ts).
THEOREM CatchupMissesNothing == FederationSpec => CatchupCompletes
<1>1. PagingIInv /\ [Paging!Next]_(Paging!vars) =>
        [request # Paging!None /\ request' = Paging!None /\ dialed' # "down" =>
            {e \in Paging!Owed : e > since} \subseteq received' \cup Paging!InTransit']_(Paging!vars)
  <2> SUFFICES ASSUME PagingIInv, Paging!Next,
                      request # Paging!None, request' = Paging!None, dialed' # "down",
                      NEW e \in Paging!Owed, e > since
               PROVE  e \in received' \cup Paging!InTransit'
    OBVIOUS
  <2>1. Paging!HandleChunk
    <3>1. ~Paging!DialOpens
      BY DEF Paging!DialOpens, PagingIInv, OneIsOut
    <3> QED BY <3>1 DEF Paging!Next, Paging!Deliver, Paging!Publish, Paging!Relay,
                        Paging!PushOpens, Paging!Hello, Paging!Serve, Paging!LiveOnDial,
                        Paging!LiveOnPush, Paging!DialCut, Paging!PushCut,
                        Paging!ClientRestarts, Paging!ServerRestarts, Paging!DialLost
  <2>2. /\ 1 \in PageAt(toClient) /\ ~toClient[1].hasMore
        /\ Aboard(toClient) \subseteq Aboard(toClient')
        /\ Paging!Injected(toClient[1].events)
    <3>1. \A top \in Paging!Id : top # Paging!None
      BY PartsAssumption DEF Paging!Id, Paging!None, Paging!CatchupAssumption
    <3> QED BY <2>1, <3>1, ChunkMoves
  <2>3. e \in received \cup Aboard(toClient) \cup toClient[1].events
    BY <2>2 DEF PagingIInv, PagesContinue
  <2>4. received \cup toClient[1].events \subseteq received'
    BY <2>2 DEF Paging!Injected
  <2>5. Paging!InTransit' = Aboard(toClient')
    BY DEF Paging!InTransit, Aboard
  <2> QED BY <2>2, <2>3, <2>4, <2>5
<1> QED BY <1>1, FederationRunsPaging, PagingInit, PagingStepKeeps, PTL
        DEF CatchupCompletes, Paging!CatchupCompletes

----------------------------------------------------------------------------
(* The memories *)

LEMMA FederationProjects == FederationSpec => Init /\ [][Next]_vars
<1>1. FederationInit => Init
  BY DEF FederationInit
<1>2. [FederationNext]_federationVars => [Next]_vars
  BY DEF FederationNext, federationVars, MemoryStep, CatchupStep, MeshStep, vars
<1> QED BY <1>1, <1>2, PTL DEF FederationSpec

\* The tombstone t is the latest of the forgets F; the row e is the latest of
\* the writes W, unless a later forget is in F.
TombOf(F, t) ==
    /\ t = NoTomb <=> F = {}
    /\ t # NoTomb => /\ \E f \in F : t = f.hlc
                     /\ \A f \in F : StampAtMost(f.hlc, t)

RowOf(W, F, e) ==
    /\ e # NoRow => /\ e \in W
                    /\ \A w \in W : StampAtMost(w.hlc, e.hlc)
                    /\ \A f \in F : StampLess(f.hlc, e.hlc)
    /\ e = NoRow => \A w \in W : \E f \in F : StampLess(w.hlc, f.hlc)

ProjectionIInv ==
    /\ TypeOK
    /\ \A r \in Replica : \A m \in MemId :
          /\ TombOf(Forgets(r, m), tomb[r][m])
          /\ RowOf(Writes(r, m), Forgets(r, m), row[r][m])

\* Events of one memory, by kind.
MemWrites(m) == {e \in MemEvent : e.kind = "wrote" /\ e.id = m}
MemForgets(m) == {e \in MemEvent : e.kind = "forgotten" /\ e.id = m}

LEMMA EventFacts ==
    /\ \A e \in MemEvent : e.hlc \in Stamp /\ e # NoRow /\ e.id \in MemId /\ e.actor \in Actor
    /\ \A e, f \in MemEvent : e.id = f.id /\ e.hlc = f.hlc => e = f
    /\ NoTomb \notin Stamp
BY MemEventAssumption DEF MemId, Actor, NoTomb, Stamp

\* compareStamp is a strict total order.
LEMMA StampOrder ==
    ASSUME NEW a \in Stamp, NEW b \in Stamp, NEW d \in Stamp
    PROVE  /\ StampLess(a, b) /\ StampLess(b, d) => StampLess(a, d)
           /\ ~(StampLess(a, b) /\ StampLess(b, a))
           /\ ~StampLess(a, a)
           /\ StampLess(a, b) \/ StampLess(b, a) \/ a = b
           /\ StampLess(a, b) => b # ZeroStamp
BY DEF Stamp, StampLess, ZeroStamp

LEMMA StampMoves ==
    ASSUME NEW a \in Stamp, NEW b \in Stamp, NEW d \in Stamp
    PROVE  /\ StampAtMost(a, b) /\ StampLess(b, d) => StampLess(a, d)
           /\ StampLess(a, b) /\ StampAtMost(b, d) => StampLess(a, d)
           /\ ~StampLess(a, b) => StampAtMost(b, a)
           /\ StampAtMost(a, b) /\ StampAtMost(b, a) => a = b
           /\ ~(StampAtMost(a, b) /\ StampLess(b, a))
           /\ StampLess(a, b) => StampAtMost(a, b)
           /\ StampAtMost(a, a)
BY StampOrder DEF StampAtMost

\* A write is dropped: the row or the tombstone is as new.
LEMMA WriteDropped ==
    ASSUME NEW m, NEW W \in SUBSET MemWrites(m), NEW F \in SUBSET MemForgets(m),
           NEW t \in Stamp \cup {NoTomb}, NEW o \in MemEvent \cup {NoRow},
           TombOf(F, t), RowOf(W, F, o),
           NEW e \in MemWrites(m),
           \/ o # NoRow /\ ~StampLess(o.hlc, e.hlc)
           \/ t # NoTomb /\ ~StampLess(t, e.hlc)
    PROVE  RowOf(W \cup {e}, F, o)
<1>0. e.hlc \in Stamp /\ \A f \in W \cup F : f.hlc \in Stamp /\ f \in MemEvent
  BY EventFacts DEF MemWrites, MemForgets
<1>1. CASE o # NoRow
  <2>1. o \in W /\ o.hlc \in Stamp
    BY <1>0, <1>1 DEF RowOf
  <2>2. StampAtMost(e.hlc, o.hlc)
    <3>1. CASE ~StampLess(o.hlc, e.hlc)
      BY <1>0, <2>1, <3>1, StampMoves
    <3>2. CASE t # NoTomb /\ ~StampLess(t, e.hlc)
      <4>1. PICK f \in F : t = f.hlc
        BY <3>2 DEF TombOf
      <4>2. StampLess(t, o.hlc)
        BY <1>1, <4>1 DEF RowOf
      <4>3. t \in Stamp /\ StampAtMost(e.hlc, t)
        BY <1>0, <3>2, <4>1, StampMoves
      <4> QED BY <1>0, <2>1, <4>2, <4>3, StampMoves
    <3> QED BY <1>1, <3>1, <3>2
  <2> QED BY <1>1, <2>2 DEF RowOf
<1>2. CASE o = NoRow
  <2>1. PICK f \in F : t = f.hlc
    BY <1>2 DEF TombOf
  <2>2. t \in Stamp /\ ~StampLess(t, e.hlc)
    BY <1>0, <1>2, <2>1
  <2>3. e.hlc # f.hlc
    <3>1. e \in MemEvent /\ f \in MemEvent /\ e.id = f.id /\ e.kind # f.kind
      BY <1>0 DEF MemWrites, MemForgets
    <3> QED BY <3>1, EventFacts
  <2>4. StampLess(e.hlc, f.hlc)
    BY <1>0, <2>1, <2>2, <2>3, StampOrder
  <2> QED BY <1>2, <2>4 DEF RowOf
<1> QED BY <1>1, <1>2

\* A write becomes the row: the row is older and the tombstone too.
LEMMA WriteShown ==
    ASSUME NEW m, NEW W \in SUBSET MemWrites(m), NEW F \in SUBSET MemForgets(m),
           NEW t \in Stamp \cup {NoTomb}, NEW o \in MemEvent \cup {NoRow},
           TombOf(F, t), RowOf(W, F, o),
           NEW e \in MemWrites(m),
           o = NoRow \/ StampLess(o.hlc, e.hlc),
           t = NoTomb \/ StampLess(t, e.hlc)
    PROVE  RowOf(W \cup {e}, F, e)
<1>0. e.hlc \in Stamp /\ e # NoRow /\ \A f \in W \cup F : f.hlc \in Stamp
  BY EventFacts DEF MemWrites, MemForgets
<1>1. ASSUME NEW f \in F PROVE StampLess(f.hlc, e.hlc)
  <2>1. t # NoTomb /\ StampAtMost(f.hlc, t)
    BY <1>1 DEF TombOf
  <2> QED BY <1>0, <1>1, <2>1, StampMoves
<1>2. ASSUME NEW w \in W PROVE StampAtMost(w.hlc, e.hlc)
  <2>1. CASE o = NoRow
    <3>1. PICK f \in F : StampLess(w.hlc, f.hlc)
      BY <1>2, <2>1 DEF RowOf
    <3>2. StampLess(f.hlc, e.hlc)
      BY <1>1
    <3> QED BY <1>0, <1>2, <3>1, <3>2, StampMoves
  <2>2. CASE o # NoRow
    <3>1. o \in W /\ StampAtMost(w.hlc, o.hlc)
      BY <1>2, <2>2 DEF RowOf
    <3> QED BY <1>0, <1>2, <2>2, <3>1, StampMoves
  <2> QED BY <2>1, <2>2
<1>3. StampAtMost(e.hlc, e.hlc)
  BY <1>0, StampMoves
<1> QED BY <1>0, <1>1, <1>2, <1>3 DEF RowOf

\* A forget: the later tombstone stays and the row goes if it is older.
LEMMA Forgotten ==
    ASSUME NEW m, NEW W \in SUBSET MemWrites(m), NEW F \in SUBSET MemForgets(m),
           NEW t \in Stamp \cup {NoTomb}, NEW o \in MemEvent \cup {NoRow},
           TombOf(F, t), RowOf(W, F, o),
           NEW e \in MemForgets(m)
    PROVE  /\ TombOf(F \cup {e}, IF t = NoTomb \/ StampLess(t, e.hlc) THEN e.hlc ELSE t)
           /\ o # NoRow /\ StampLess(o.hlc, e.hlc) => RowOf(W, F \cup {e}, NoRow)
           /\ ~(o # NoRow /\ StampLess(o.hlc, e.hlc)) => RowOf(W, F \cup {e}, o)
<1>0. e.hlc \in Stamp /\ e.hlc # NoTomb /\ \A f \in W \cup F : f.hlc \in Stamp /\ f \in MemEvent
  BY EventFacts DEF MemWrites, MemForgets
<1>1. StampAtMost(e.hlc, e.hlc)
  BY <1>0, StampMoves
<1>2. ASSUME t = NoTomb PROVE TombOf(F \cup {e}, e.hlc)
  BY <1>0, <1>1, <1>2 DEF TombOf
<1>3. ASSUME t # NoTomb, StampLess(t, e.hlc) PROVE TombOf(F \cup {e}, e.hlc)
  <2>1. t \in Stamp /\ \A f \in F : StampAtMost(f.hlc, t)
    BY <1>3 DEF TombOf
  <2>2. \A f \in F : StampAtMost(f.hlc, e.hlc)
    BY <1>0, <1>3, <2>1, StampMoves
  <2> QED BY <1>0, <1>1, <2>2 DEF TombOf
<1>7. ASSUME t # NoTomb, ~StampLess(t, e.hlc) PROVE TombOf(F \cup {e}, t)
  <2>1. StampAtMost(e.hlc, t)
    BY <1>0, <1>7, StampMoves
  <2> QED BY <1>7, <2>1 DEF TombOf
<1>4. ASSUME o # NoRow, StampLess(o.hlc, e.hlc) PROVE RowOf(W, F \cup {e}, NoRow)
  <2>1. o \in W /\ \A w \in W : StampAtMost(w.hlc, o.hlc)
    BY <1>4 DEF RowOf
  <2>2. \A w \in W : StampLess(w.hlc, e.hlc)
    BY <1>0, <1>4, <2>1, StampMoves
  <2> QED BY <2>2 DEF RowOf
<1>5. ASSUME o # NoRow, ~StampLess(o.hlc, e.hlc) PROVE RowOf(W, F \cup {e}, o)
  <2>1. o \in W /\ o \in MemEvent /\ o.hlc \in Stamp
    BY <1>0, <1>5 DEF RowOf
  <2>2. o.hlc # e.hlc
    <3>1. e \in MemEvent /\ e.id = o.id /\ e.kind # o.kind
      BY <2>1 DEF MemWrites, MemForgets
    <3> QED BY <2>1, <3>1, EventFacts
  <2>3. StampLess(e.hlc, o.hlc)
    BY <1>0, <1>5, <2>1, <2>2, StampOrder
  <2> QED BY <1>5, <2>3 DEF RowOf
<1>6. ASSUME o = NoRow PROVE RowOf(W, F \cup {e}, o)
  BY <1>6 DEF RowOf
<1> QED BY <1>2, <1>3, <1>4, <1>5, <1>6, <1>7

LEMMA ProjectionInit == Init => ProjectionIInv
BY DEF Init, ProjectionIInv, TypeOK, TombOf, RowOf, Writes, Forgets

\* The events applied before and after a step of host r with event e.
LEMMA AppliedGrows ==
    ASSUME TypeOK, NEW r \in Replica, NEW e \in MemEvent,
           applied' = [applied EXCEPT ![r] = @ \cup {e}]
    PROVE  /\ applied' \in [Replica -> SUBSET MemEvent]
           /\ \A s \in Replica, m \in MemId :
                 /\ IF s = r /\ e.kind = "wrote" /\ e.id = m
                    THEN Writes(s, m)' = Writes(s, m) \cup {e}
                    ELSE Writes(s, m)' = Writes(s, m)
                 /\ IF s = r /\ e.kind = "forgotten" /\ e.id = m
                    THEN Forgets(s, m)' = Forgets(s, m) \cup {e}
                    ELSE Forgets(s, m)' = Forgets(s, m)
                 /\ Writes(s, m) \in SUBSET MemWrites(m)
                 /\ Forgets(s, m) \in SUBSET MemForgets(m)
<1>1. applied \in [Replica -> SUBSET MemEvent]
  BY DEF TypeOK
<1>2. \A s \in Replica : applied'[s] = IF s = r THEN applied[s] \cup {e} ELSE applied[s]
  BY <1>1
<1>3. applied' \in [Replica -> SUBSET MemEvent]
  BY <1>1
<1> QED BY <1>1, <1>2, <1>3 DEF Writes, Forgets, MemWrites, MemForgets

LEMMA RefreshTypes ==
    ASSUME TypeOK, NEW r \in Replica, NEW a \in Actor, NEW role,
           NEW table \in [MemId -> MemEvent \cup {NoRow}], Refreshed(r, a, role, table)
    PROVE  name' \in [Replica -> [Actor -> MemEvent \cup {NoName}]]
<1>1. NameRows(table, a) \subseteq MemEvent
  BY DEF NameRows
<1>2. \/ name' = name
      \/ \E x \in MemEvent \cup {NoName} : name' = [name EXCEPT ![r][a] = x]
  BY <1>1 DEF Refreshed
<1>3. name \in [Replica -> [Actor -> MemEvent \cup {NoName}]]
  BY DEF TypeOK
<1>4. \A x \in MemEvent \cup {NoName} :
         [name EXCEPT ![r][a] = x] \in [Replica -> [Actor -> MemEvent \cup {NoName}]]
  BY <1>3
<1> QED BY <1>2, <1>3, <1>4

LEMMA WroteKeeps ==
    ASSUME ProjectionIInv, NEW r \in Replica, NEW e \in MemEvent, ApplyWrote(r, e)
    PROVE  ProjectionIInv'
<1> DEFINE k == e.id
           table == [row[r] EXCEPT ![k] = e]
<1>0. TypeOK
  BY DEF ProjectionIInv
<1>1. /\ e.kind = "wrote" /\ applied' = [applied EXCEPT ![r] = @ \cup {e}] /\ tomb' = tomb
      /\ k \in MemId /\ e.actor \in Actor /\ e \in MemWrites(k)
  BY EventFacts DEF ApplyWrote, MemWrites
<1>2. /\ applied' \in [Replica -> SUBSET MemEvent]
      /\ \A s \in Replica, m \in MemId :
                 /\ IF s = r /\ e.kind = "wrote" /\ e.id = m
                    THEN Writes(s, m)' = Writes(s, m) \cup {e}
                    ELSE Writes(s, m)' = Writes(s, m)
                 /\ IF s = r /\ e.kind = "forgotten" /\ e.id = m
                    THEN Forgets(s, m)' = Forgets(s, m) \cup {e}
                    ELSE Forgets(s, m)' = Forgets(s, m)
                 /\ Writes(s, m) \in SUBSET MemWrites(m)
                 /\ Forgets(s, m) \in SUBSET MemForgets(m)
  BY <1>0, <1>1, AppliedGrows
<1>3. /\ Writes(r, k)' = Writes(r, k) \cup {e}
      /\ \A s \in Replica, m \in MemId : Forgets(s, m)' = Forgets(s, m)
      /\ \A s \in Replica, m \in MemId : ~(s = r /\ m = k) => Writes(s, m)' = Writes(s, m)
  BY <1>1, <1>2
<1>4. /\ tomb[r][k] \in Stamp \cup {NoTomb} /\ row[r][k] \in MemEvent \cup {NoRow}
      /\ TombOf(Forgets(r, k), tomb[r][k])
      /\ RowOf(Writes(r, k), Forgets(r, k), row[r][k])
  BY <1>1 DEF ProjectionIInv, TypeOK
<1>5. table \in [MemId -> MemEvent \cup {NoRow}]
  BY <1>0, <1>1 DEF TypeOK
<1>6. CASE ~(RowIsOlder(r, e) /\ ~Buried(r, e)) /\ UNCHANGED <<row, name>>
  <2>1. \/ row[r][k] # NoRow /\ ~StampLess(row[r][k].hlc, e.hlc)
        \/ tomb[r][k] # NoTomb /\ ~StampLess(tomb[r][k], e.hlc)
    BY <1>6 DEF RowIsOlder, Buried
  <2>2. RowOf(Writes(r, k) \cup {e}, Forgets(r, k), row[r][k])
    BY <1>1, <1>2, <1>4, <2>1, WriteDropped
  <2>3. TypeOK'
    BY <1>1, <1>2, <1>6 DEF ProjectionIInv, TypeOK
  <2> QED BY <1>1, <1>3, <1>6, <2>2, <2>3 DEF ProjectionIInv
<1>7. CASE /\ RowIsOlder(r, e) /\ ~Buried(r, e)
           /\ row' = [row EXCEPT ![r] = table] /\ Refreshed(r, e.actor, e.role, table)
  <2>1. /\ row[r][k] = NoRow \/ StampLess(row[r][k].hlc, e.hlc)
        /\ tomb[r][k] = NoTomb \/ StampLess(tomb[r][k], e.hlc)
    BY <1>7 DEF RowIsOlder, Buried
  <2>2. RowOf(Writes(r, k) \cup {e}, Forgets(r, k), e)
    BY <1>1, <1>2, <1>4, <2>1, WriteShown
  <2>3. /\ row' \in [Replica -> [MemId -> MemEvent \cup {NoRow}]]
        /\ row'[r][k] = e
        /\ \A s \in Replica, m \in MemId : ~(s = r /\ m = k) => row'[s][m] = row[s][m]
    BY <1>0, <1>1, <1>5, <1>7 DEF TypeOK
  <2>4. name' \in [Replica -> [Actor -> MemEvent \cup {NoName}]]
    <3> HIDE DEF table
    <3> QED BY <1>0, <1>1, <1>5, <1>7, RefreshTypes
  <2>5. TypeOK'
    BY <1>0, <1>1, <1>2, <2>3, <2>4 DEF TypeOK
  <2> QED BY <1>1, <1>3, <2>2, <2>3, <2>5 DEF ProjectionIInv
<1> QED BY <1>6, <1>7 DEF ApplyWrote

LEMMA ForgottenKeeps ==
    ASSUME ProjectionIInv, NEW r \in Replica, NEW e \in MemEvent, ApplyForgotten(r, e)
    PROVE  ProjectionIInv'
<1> DEFINE k == e.id
           o == row[r][k]
           table == [row[r] EXCEPT ![k] = NoRow]
<1>0. TypeOK
  BY DEF ProjectionIInv
<1>1. /\ e.kind = "forgotten" /\ applied' = [applied EXCEPT ![r] = @ \cup {e}]
      /\ tomb' = [tomb EXCEPT ![r][k] = TombAfter(r, e)]
      /\ k \in MemId /\ e.hlc \in Stamp /\ e \in MemForgets(k)
  BY EventFacts DEF ApplyForgotten, MemForgets
<1>2. /\ applied' \in [Replica -> SUBSET MemEvent]
      /\ \A s \in Replica, m \in MemId :
                 /\ IF s = r /\ e.kind = "wrote" /\ e.id = m
                    THEN Writes(s, m)' = Writes(s, m) \cup {e}
                    ELSE Writes(s, m)' = Writes(s, m)
                 /\ IF s = r /\ e.kind = "forgotten" /\ e.id = m
                    THEN Forgets(s, m)' = Forgets(s, m) \cup {e}
                    ELSE Forgets(s, m)' = Forgets(s, m)
                 /\ Writes(s, m) \in SUBSET MemWrites(m)
                 /\ Forgets(s, m) \in SUBSET MemForgets(m)
  BY <1>0, <1>1, AppliedGrows
<1>3. /\ Forgets(r, k)' = Forgets(r, k) \cup {e}
      /\ \A s \in Replica, m \in MemId : Writes(s, m)' = Writes(s, m)
      /\ \A s \in Replica, m \in MemId : ~(s = r /\ m = k) => Forgets(s, m)' = Forgets(s, m)
  BY <1>1, <1>2
<1>4. /\ tomb[r][k] \in Stamp \cup {NoTomb} /\ o \in MemEvent \cup {NoRow}
      /\ TombOf(Forgets(r, k), tomb[r][k])
      /\ RowOf(Writes(r, k), Forgets(r, k), o)
  BY <1>1 DEF ProjectionIInv, TypeOK
<1>5. table \in [MemId -> MemEvent \cup {NoRow}]
  BY <1>0, <1>1 DEF TypeOK
<1>6. TombAfter(r, e) = IF tomb[r][k] = NoTomb \/ StampLess(tomb[r][k], e.hlc)
                        THEN e.hlc ELSE tomb[r][k]
  BY DEF TombAfter
<1>7. /\ TombOf(Forgets(r, k) \cup {e}, TombAfter(r, e))
      /\ o # NoRow /\ StampLess(o.hlc, e.hlc) =>
            RowOf(Writes(r, k), Forgets(r, k) \cup {e}, NoRow)
      /\ ~(o # NoRow /\ StampLess(o.hlc, e.hlc)) =>
            RowOf(Writes(r, k), Forgets(r, k) \cup {e}, o)
  <2>1. /\ Writes(r, k) \in SUBSET MemWrites(k) /\ Forgets(r, k) \in SUBSET MemForgets(k)
        /\ e \in MemForgets(k)
    BY <1>1, <1>2
  <2> DEFINE t == tomb[r][k]
             W == Writes(r, k)
             F == Forgets(r, k)
  <2> HIDE DEF k, o, t, W, F
  <2>2. /\ TombOf(F \cup {e}, IF t = NoTomb \/ StampLess(t, e.hlc) THEN e.hlc ELSE t)
        /\ o # NoRow /\ StampLess(o.hlc, e.hlc) => RowOf(W, F \cup {e}, NoRow)
        /\ ~(o # NoRow /\ StampLess(o.hlc, e.hlc)) => RowOf(W, F \cup {e}, o)
    BY <1>4, <2>1, Forgotten DEF t, W, F
  <2> QED BY <1>6, <2>2 DEF t, W, F
<1>8. TombAfter(r, e) \in Stamp \cup {NoTomb}
  BY <1>1, <1>4, <1>6
<1>9. /\ tomb' \in [Replica -> [MemId -> Stamp \cup {NoTomb}]]
      /\ tomb'[r][k] = TombAfter(r, e)
      /\ \A s \in Replica, m \in MemId : ~(s = r /\ m = k) => tomb'[s][m] = tomb[s][m]
  BY <1>0, <1>1, <1>8 DEF TypeOK
<1>10. RowIsOlder(r, e) <=> (o = NoRow \/ StampLess(o.hlc, e.hlc))
  BY DEF RowIsOlder
<1>11. CASE ~(o # NoRow /\ RowIsOlder(r, e)) /\ UNCHANGED <<row, name>>
  <2>1. TypeOK'
    BY <1>0, <1>2, <1>9, <1>11 DEF TypeOK
  <2>2. RowOf(Writes(r, k), Forgets(r, k) \cup {e}, o)
    BY <1>7, <1>10, <1>11
  <2> QED BY <1>3, <1>7, <1>9, <1>11, <2>1, <2>2 DEF ProjectionIInv
<1>12. CASE /\ o # NoRow /\ RowIsOlder(r, e)
            /\ row' = [row EXCEPT ![r] = table] /\ Refreshed(r, o.actor, o.role, table)
  <2>1. /\ row' \in [Replica -> [MemId -> MemEvent \cup {NoRow}]]
        /\ row'[r][k] = NoRow
        /\ \A s \in Replica, m \in MemId : ~(s = r /\ m = k) => row'[s][m] = row[s][m]
    BY <1>0, <1>1, <1>5, <1>12 DEF TypeOK
  <2>2. name' \in [Replica -> [Actor -> MemEvent \cup {NoName}]]
    <3>1. o.actor \in Actor
      BY <1>4, <1>12, EventFacts
    <3> HIDE DEF table, o
    <3> QED BY <1>0, <1>5, <1>12, <3>1, RefreshTypes
  <2>3. TypeOK'
    BY <1>2, <1>9, <2>1, <2>2 DEF TypeOK
  <2>4. RowOf(Writes(r, k), Forgets(r, k) \cup {e}, NoRow)
    BY <1>7, <1>10, <1>12
  <2>5. ASSUME NEW s \in Replica, NEW m \in MemId
        PROVE  /\ TombOf(Forgets(s, m)', tomb'[s][m])
               /\ RowOf(Writes(s, m)', Forgets(s, m)', row'[s][m])
    <3>1. CASE s = r /\ m = k
      BY <1>3, <1>7, <1>9, <2>1, <2>4, <3>1
    <3>2. CASE ~(s = r /\ m = k)
      BY <1>3, <1>9, <2>1, <2>5, <3>2 DEF ProjectionIInv
    <3> QED BY <3>1, <3>2
  <2> QED BY <2>3, <2>5 DEF ProjectionIInv, TombOf, RowOf
<1> QED BY <1>11, <1>12 DEF ApplyForgotten

LEMMA ProjectionStepKeeps == ProjectionIInv /\ [Next]_vars => ProjectionIInv'
<1> SUFFICES ASSUME ProjectionIInv, [Next]_vars PROVE ProjectionIInv'
  OBVIOUS
<1>1. CASE UNCHANGED vars
  BY <1>1 DEF vars, ProjectionIInv, TypeOK, Writes, Forgets
<1>2. CASE Next
  BY <1>2, WroteKeeps, ForgottenKeeps DEF Next
<1> QED BY <1>1, <1>2

LEMMA ViewFollows == ProjectionIInv => TypeOK /\ ViewIsLatest /\ Converged
<1> SUFFICES ASSUME ProjectionIInv PROVE TypeOK /\ ViewIsLatest /\ Converged
  OBVIOUS
<1>1. TypeOK /\ ViewIsLatest
  BY DEF ProjectionIInv, ViewIsLatest, TombIsLatestForget, RowIsLatestWrite, TombOf, RowOf
<1>2. ASSUME NEW r \in Replica, NEW s \in Replica, applied[r] = applied[s], NEW m \in MemId
      PROVE  row[r][m] = row[s][m] /\ tomb[r][m] = tomb[s][m]
  <2> DEFINE W == Writes(r, m)
             F == Forgets(r, m)
  <2>1. W = Writes(s, m) /\ F = Forgets(s, m)
    BY <1>2 DEF Writes, Forgets
  <2>2. \A e \in W \cup F : e \in MemEvent /\ e.id = m /\ e.hlc \in Stamp
    BY <1>1, EventFacts DEF TypeOK, Writes, Forgets
  <2>3. TombOf(F, tomb[r][m]) /\ TombOf(F, tomb[s][m])
    BY <2>1 DEF ProjectionIInv
  <2>4. RowOf(W, F, row[r][m]) /\ RowOf(W, F, row[s][m])
    BY <2>1 DEF ProjectionIInv
  <2> HIDE DEF W, F
  <2>5. ASSUME NEW t, NEW u, TombOf(F, t), TombOf(F, u) PROVE t = u
    <3>1. CASE F = {}
      BY <2>5, <3>1 DEF TombOf
    <3>2. CASE F # {}
      <4>1. PICK e \in F, f \in F : t = e.hlc /\ u = f.hlc
        BY <2>5, <3>2 DEF TombOf
      <4>2. StampAtMost(t, u) /\ StampAtMost(u, t) /\ t \in Stamp /\ u \in Stamp
        BY <2>2, <2>5, <3>2, <4>1 DEF TombOf
      <4> QED BY <4>2, StampMoves
    <3> QED BY <3>1, <3>2
  <2>6. ASSUME NEW d, NEW e, RowOf(W, F, d), RowOf(W, F, e), d # NoRow PROVE d = e
    <3>1. d \in W /\ d.hlc \in Stamp
      BY <2>2, <2>6 DEF RowOf
    <3>2. e # NoRow
      <4> SUFFICES ASSUME e = NoRow PROVE FALSE
        OBVIOUS
      <4>1. PICK f \in F : StampLess(d.hlc, f.hlc)
        BY <2>6, <3>1 DEF RowOf
      <4>2. StampLess(f.hlc, d.hlc)
        BY <2>6 DEF RowOf
      <4> QED BY <2>2, <3>1, <4>1, <4>2, StampOrder
    <3>3. e \in W /\ StampAtMost(d.hlc, e.hlc) /\ StampAtMost(e.hlc, d.hlc)
      BY <2>6, <3>1, <3>2 DEF RowOf
    <3>4. d.hlc = e.hlc
      BY <2>2, <3>1, <3>3, StampMoves
    <3> QED BY <2>2, <3>1, <3>3, <3>4, EventFacts
  <2>7. tomb[r][m] = tomb[s][m]
    BY <2>3, <2>5
  <2>8. row[r][m] = row[s][m]
    BY <2>4, <2>6
  <2> QED BY <2>7, <2>8
<1>3. Converged
  <2> SUFFICES ASSUME NEW r \in Replica, NEW s \in Replica, applied[r] = applied[s]
               PROVE  row[r] = row[s] /\ tomb[r] = tomb[s]
    BY DEF Converged
  <2>1. row[r] \in [MemId -> MemEvent \cup {NoRow}] /\ row[s] \in [MemId -> MemEvent \cup {NoRow}]
    BY <1>1 DEF TypeOK
  <2>2. tomb[r] \in [MemId -> Stamp \cup {NoTomb}] /\ tomb[s] \in [MemId -> Stamp \cup {NoTomb}]
    BY <1>1 DEF TypeOK
  <2> QED BY <1>2, <2>1, <2>2
<1> QED BY <1>1, <1>3

NameOf(table, x, a) ==
    IF x = NoName THEN NameRows(table, a) = {}
    ELSE /\ x \in NameRows(table, a)
         /\ \A f \in NameRows(table, a) : f.hlc.l <= x.hlc.l

\* A row that is no name of a does not count for a.
LEMMA SameNames ==
    ASSUME NEW table, NEW other, NEW k, NEW a,
           \A m \in MemId \ {k} : table[m] = other[m],
           \A x \in {table[k], other[k]} :
               x = NoRow \/ x.actor # a \/ x.role # "display-name"
    PROVE  NameRows(table, a) = NameRows(other, a)
BY DEF NameRows

LEMMA RefreshFinds ==
    ASSUME TypeOK, NEW r \in Replica, NEW a \in Actor, NEW table,
           Refreshed(r, a, "display-name", table)
    PROVE  /\ NameOf(table, name'[r][a], a)
           /\ \A s \in Replica, b \in Actor : ~(s = r /\ b = a) => name'[s][b] = name[s][b]
<1>1. name \in [Replica -> [Actor -> MemEvent \cup {NoName}]]
  BY DEF TypeOK
<1>2. CASE NameRows(table, a) = {} /\ name' = [name EXCEPT ![r][a] = NoName]
  BY <1>1, <1>2 DEF NameOf
<1>3. ASSUME NEW e \in NameRows(table, a), \A f \in NameRows(table, a) : f.hlc.l <= e.hlc.l,
             name' = [name EXCEPT ![r][a] = e]
      PROVE  /\ NameOf(table, name'[r][a], a)
             /\ \A s \in Replica, b \in Actor : ~(s = r /\ b = a) => name'[s][b] = name[s][b]
  <2>1. e # NoName
    BY DEF NameRows, NoRow, NoName
  <2>2. name'[r][a] = e
    BY <1>1, <1>3
  <2>3. NameOf(table, e, a)
    BY <1>3, <2>1 DEF NameOf
  <2> QED BY <1>1, <1>3, <2>2, <2>3
<1> QED BY <1>2, <1>3 DEF Refreshed

\* The step of host r that replaces the row of memory k by another, or removes
\* it, and refreshes the name of its owner a.
RowReplaced(r, k, new, a, role) ==
    /\ row' = [row EXCEPT ![r] = [row[r] EXCEPT ![k] = new]]
    /\ Refreshed(r, a, role, [row[r] EXCEPT ![k] = new])
    /\ \A x \in {row[r][k], new} : x = NoRow \/ x.actor = a

\* It leaves the name of b on host s right, unless b's memory k changes its role.
LEMMA RefreshKeepsName ==
    ASSUME ProjectionIInv,
           NEW s \in Replica, NEW b \in Actor, NameOf(row[s], name[s][b], b),
           NEW r \in Replica, NEW k \in MemId, NEW a \in Actor, NEW role, NEW new,
           RowReplaced(r, k, new, a, role),
           s = r /\ b = a =>
               \A x \in {row[r][k], new} :
                   x = NoRow \/ (x.role = "display-name" <=> role = "display-name")
    PROVE  NameOf(row'[s], name'[s][b], b)
<1> USE DEF RowReplaced
<1> DEFINE table == [row[r] EXCEPT ![k] = new]
<1>0. TypeOK
  BY DEF ProjectionIInv
<1>1. row \in [Replica -> [MemId -> MemEvent \cup {NoRow}]]
  BY <1>0 DEF TypeOK
<1>2. /\ row'[r] = table /\ \A t \in Replica : t # r => row'[t] = row[t]
      /\ table[k] = new /\ \A m \in MemId \ {k} : row[r][m] = table[m]
  BY <1>1
<1> HIDE DEF table
<1>3. s = r /\ (b # a \/ role # "display-name") => NameRows(row[r], b) = NameRows(table, b)
  BY <1>2, SameNames
<1>4. CASE role = "display-name"
  <2>1. /\ NameOf(table, name'[r][a], a)
        /\ \A t \in Replica, d \in Actor : ~(t = r /\ d = a) => name'[t][d] = name[t][d]
    BY <1>0, <1>4, RefreshFinds DEF table
  <2>2. CASE s = r /\ b = a
    BY <1>2, <2>1, <2>2
  <2>3. CASE s = r /\ b # a
    <3>1. name'[s][b] = name[s][b] /\ row'[s] = table
      BY <1>2, <2>1, <2>3
    <3> QED BY <1>3, <2>3, <3>1 DEF NameOf
  <2>4. CASE s # r
    <3>1. name'[s][b] = name[s][b] /\ row'[s] = row[s]
      BY <1>2, <2>1, <2>4
    <3> QED BY <3>1
  <2> QED BY <2>2, <2>3, <2>4
<1>5. CASE role # "display-name"
  <2>1. name' = name
    BY <1>5 DEF Refreshed
  <2>2. CASE s = r
    BY <1>2, <1>3, <1>5, <2>1, <2>2 DEF NameOf
  <2>3. CASE s # r
    BY <1>2, <2>1, <2>3
  <2> QED BY <2>2, <2>3
<1> QED BY <1>4, <1>5

\* Roles kept after a step were kept before it.
LEMMA RolesWereKept ==
    ASSUME TypeOK, Next, NEW s \in Replica, NEW b \in Actor, KeepsRoles(s, b)'
    PROVE  KeepsRoles(s, b)
<1>1. PICK r \in Replica, e \in MemEvent : applied' = [applied EXCEPT ![r] = @ \cup {e}]
  BY DEF Next, ApplyWrote, ApplyForgotten
<1>2. applied[s] \subseteq applied'[s]
  BY <1>1 DEF TypeOK
<1> QED BY <1>2 DEF KeepsRoles

LEMMA NamesKeep ==
    ASSUME ProjectionIInv, NameIsLatest, [Next]_vars
    PROVE  NameIsLatest'
<1>0. \A r \in Replica, m \in MemId :
         row[r][m] # NoRow => /\ row[r][m] \in MemWrites(m) /\ row[r][m] \in applied[r]
                              /\ row[r][m].actor \in Actor
  BY EventFacts DEF ProjectionIInv, TypeOK, RowOf, Writes, MemWrites
<1>1. CASE UNCHANGED vars
  BY <1>1 DEF vars, NameIsLatest, KeepsRoles
<1>2. ASSUME Next, NEW s \in Replica, NEW b \in Actor, KeepsRoles(s, b)'
      PROVE  NameOf(row'[s], name'[s][b], b)
  <2>1. NameOf(row[s], name[s][b], b)
    BY <1>2, RolesWereKept DEF ProjectionIInv, NameIsLatest, NameOf
  <2>2. ASSUME NEW r \in Replica, NEW e \in MemEvent, ApplyWrote(r, e)
        PROVE  NameOf(row'[s], name'[s][b], b)
    <3> DEFINE o == row[r][e.id]
    <3>1. CASE UNCHANGED <<row, name>>
      BY <2>1, <3>1
    <3>2. CASE /\ row' = [row EXCEPT ![r] = [row[r] EXCEPT ![e.id] = e]]
               /\ Refreshed(r, e.actor, e.role, [row[r] EXCEPT ![e.id] = e])
      <4>1. e.id \in MemId /\ e.actor \in Actor /\ e \in MemWrites(e.id)
        BY <2>2, EventFacts DEF ApplyWrote, MemWrites
      <4>2. \A x \in {o, e} : x = NoRow \/ x.actor = e.actor
        BY <1>0, <4>1, MemEventAssumption DEF MemWrites
      <4>3. RowReplaced(r, e.id, e, e.actor, e.role)
        BY <3>2, <4>2 DEF RowReplaced
      <4>4. ASSUME s = r, b = e.actor, o # NoRow
            PROVE  o.role = "display-name" <=> e.role = "display-name"
        <5>1. applied' = [applied EXCEPT ![r] = @ \cup {e}]
          BY <2>2 DEF ApplyWrote
        <5>2. o \in applied'[s] /\ e \in applied'[s]
          BY <1>0, <4>1, <4>4, <5>1 DEF ProjectionIInv, TypeOK
        <5>3. o.kind = "wrote" /\ e.kind = "wrote" /\ o.id = e.id /\ o.actor = b
          BY <1>0, <4>1, <4>2, <4>4 DEF MemWrites
        <5> QED BY <1>2, <5>2, <5>3 DEF KeepsRoles
      <4> QED BY <2>1, <4>1, <4>3, <4>4, RefreshKeepsName
    <3> QED BY <2>2, <3>1, <3>2 DEF ApplyWrote
  <2>3. ASSUME NEW r \in Replica, NEW e \in MemEvent, ApplyForgotten(r, e)
        PROVE  NameOf(row'[s], name'[s][b], b)
    <3> DEFINE o == row[r][e.id]
    <3>1. CASE UNCHANGED <<row, name>>
      BY <2>1, <3>1
    <3>2. CASE /\ o # NoRow
               /\ row' = [row EXCEPT ![r] = [row[r] EXCEPT ![e.id] = NoRow]]
               /\ Refreshed(r, o.actor, o.role, [row[r] EXCEPT ![e.id] = NoRow])
      <4>1. e.id \in MemId
        BY EventFacts
      <4>2. o.actor \in Actor
        BY <1>0, <3>2, <4>1
      <4>3. PICK a \in Actor : a = o.actor
        BY <4>2
      <4>4. PICK ro : ro = o.role
        OBVIOUS
      <4>5. RowReplaced(r, e.id, NoRow, a, ro)
        BY <3>2, <4>3, <4>4 DEF RowReplaced
      <4> QED BY <2>1, <4>1, <4>4, <4>5, RefreshKeepsName
    <3> QED BY <2>3, <3>1, <3>2 DEF ApplyForgotten
  <2> QED BY <1>2, <2>2, <2>3 DEF Next
<1> QED BY <1>1, <1>2 DEF NameIsLatest, NameOf

\* Hosts that have applied the same events hold the same rows and tombstones,
\* in whatever order and however often they came: the row is the latest write
\* unless a later forget was applied (memory/projector.ts).
THEOREM MemoriesConverge == FederationSpec => [](TypeOK /\ ViewIsLatest /\ Converged)
BY ViewFollows, FederationProjects, ProjectionInit, ProjectionStepKeeps, PTL

\* The same, and the cached display name of an actor is its newest display-name
\* row as long as no write it has applied has dropped that role
\* (memory/projector.ts).
THEOREM MemoriesAgreeEverywhere == FederationSpec => []MemoriesAgree
<1>1. Init => NameIsLatest
  BY DEF Init, NameIsLatest, NameRows
<1>2. ProjectionIInv /\ NameIsLatest /\ [Next]_vars => NameIsLatest'
  BY NamesKeep
<1>3. ProjectionIInv /\ NameIsLatest => MemoriesAgree
  BY ViewFollows DEF MemoriesAgree
<1> QED BY <1>1, <1>2, <1>3, FederationProjects, ProjectionInit, ProjectionStepKeeps, PTL

\* No old write that is replayed or arrives late brings a forgotten memory back
\* (memory/projector.ts).
THEOREM ForgottenStaysForgotten == FederationSpec => NoResurrection
<1>1. ProjectionIInv /\ [Next]_vars =>
        [\A r \in Replica : \A m \in MemId :
            row[r][m] = NoRow /\ row'[r][m] # NoRow =>
                \A f \in Forgets(r, m) : StampLess(f.hlc, row'[r][m].hlc)]_vars
  <2> SUFFICES ASSUME ProjectionIInv, Next, NEW r \in Replica, NEW m \in MemId,
                      row'[r][m] # NoRow, NEW f \in Forgets(r, m)
               PROVE  StampLess(f.hlc, row'[r][m].hlc)
    OBVIOUS
  <2>1. ProjectionIInv'
    BY ProjectionStepKeeps
  <2>2. Forgets(r, m) \subseteq Forgets(r, m)'
    <3>1. PICK q \in Replica, e \in MemEvent : applied' = [applied EXCEPT ![q] = @ \cup {e}]
      BY DEF Next, ApplyWrote, ApplyForgotten
    <3>2. applied[r] \subseteq applied'[r]
      BY <3>1 DEF ProjectionIInv, TypeOK
    <3> QED BY <3>2 DEF Forgets
  <2> QED BY <2>1, <2>2 DEF ProjectionIInv, RowOf
<1> QED BY <1>1, FederationProjects, ProjectionInit, ProjectionStepKeeps, PTL DEF NoResurrection
=============================================================================
