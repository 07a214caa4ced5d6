--------------------------- MODULE AgentSideProofs ---------------------------
(***************************************************************************)
(* The side of the agents, for any agents, tiers, tools and scopes.  What   *)
(* the gates of permissions/ compute is proved of the operators; what the   *)
(* tree of agents, the inbox and the turns do with it is proved of          *)
(* Delegation and read back through AgentSpec, in which one part moves at   *)
(* a time.                                                                  *)
(***************************************************************************)
EXTENDS AgentSide, AgentLoopProofs, FiniteSetTheorems, SequenceTheorems, WellFoundedInduction, TLAPS

----------------------------------------------------------------------------
(* Scopes *)

\* The gate of a grant asks what the check of a call asks, at the tier the
\* grant names: for any tiers and tools, an approver grants a tool at its own
\* tier exactly when it may call that tool itself (permissions/check.ts,
\* permissions/grant.ts).
THEOREM GatesAreChecks == Authority!GateIsCheck
<1> SUFFICES ASSUME NEW s \in Authority!Scope, NEW t \in Tools, NEW tier \in Tiers
             PROVE  Authority!MayGrant(s, t, tier) <=> Authority!Allows(s, t, tier)
  BY DEF Authority!GateIsCheck
<1>1. Unset # {tier} /\ Unset # {t}
  BY PartsAssumption DEF Authority!DelegationAssumption, Authority!PermissionsAssumption
<1>2. Authority!MayGrant(s, t, tier) <=>
          /\ s.tiers # Unset => {tier} \subseteq s.tiers
          /\ t \notin s.deny /\ Authority!Lists(s.allow, t)
  BY <1>1 DEF Authority!MayGrant, Authority!NarrowsScope
<1> QED BY <1>2 DEF Authority!Allows, Authority!Lists

LEMMA MergedField ==
    ASSUME NEW S, NEW f \in (SUBSET S) \cup {Unset}, NEW x \in S, \A R \in SUBSET S : R # Unset
    PROVE  LET w == Authority!With(f, x)
           IN  /\ w \in (SUBSET S) \cup {Unset} /\ (w = Unset <=> f = Unset)
               /\ Authority!Lists(w, x) /\ Authority!With(w, x) = w
               /\ \A y \in S : Authority!Lists(w, y) <=> Authority!Lists(f, y) \/ y = x
BY DEF Authority!With, Authority!Lists

\* What a merged grant allows: what was allowed before, the tool at the
\* granted tier, what of that tier only the tier kept from being called, and
\* the tool itself if only its name did.
LEMMA MergedScope ==
    ASSUME NEW s \in Authority!Scope, NEW t \in Tools, NEW tier \in Tiers
    PROVE  LET g == Authority!MergeGrant(s, t, tier)
           IN  /\ g \in Authority!Scope /\ Authority!Allows(g, t, tier)
               /\ Authority!MergeGrant(g, t, tier) = g
               /\ \A x \in Tools, k \in Tiers : Authority!Allows(s, x, k) => Authority!Allows(g, x, k)
               /\ \A x \in Tools : Authority!CheckTool(g, x) /\ ~Authority!CheckTool(s, x)
                      => /\ \/ TierOf[x] = tier
                            \/ x = t /\ Authority!Lists(s.tiers, TierOf[x])
                         /\ ~Authority!Allows(s, t, tier)
               /\ (s.allow = Unset => g.allow = Unset) /\ (s.deny = {} => g.deny = {})
<1>1. TierOf \in [Tools -> Tiers] /\ \A S \in (SUBSET Tiers) \cup (SUBSET Tools) : S # Unset
  BY PartsAssumption DEF Authority!DelegationAssumption, Authority!PermissionsAssumption
<1>2. s.tiers \in (SUBSET Tiers) \cup {Unset} /\ s.allow \in (SUBSET Tools) \cup {Unset}
      /\ s.deny \in SUBSET Tools
  BY DEF Authority!Scope
<1>3. PICK g : g = Authority!MergeGrant(s, t, tier)
  OBVIOUS
<1>4. /\ g = [tiers |-> Authority!With(s.tiers, tier),
              allow |-> Authority!With(s.allow, t), deny |-> s.deny \ {t}]
      /\ g.tiers = Authority!With(s.tiers, tier) /\ g.allow = Authority!With(s.allow, t)
      /\ g.deny = s.deny \ {t}
  BY <1>3 DEF Authority!MergeGrant
<1>5. /\ g.tiers \in (SUBSET Tiers) \cup {Unset}
      /\ Authority!With(g.tiers, tier) = g.tiers
      /\ \A y \in Tiers : Authority!Lists(g.tiers, y) <=>
             Authority!Lists(s.tiers, y) \/ y = tier
  <2>1. tier \in Tiers /\ s.tiers \in (SUBSET Tiers) \cup {Unset} /\ \A R \in SUBSET Tiers : R # Unset
    BY <1>1, <1>2
  <2> QED BY <1>4, <2>1, MergedField
<1>6. /\ g.allow \in (SUBSET Tools) \cup {Unset} /\ (g.allow = Unset <=> s.allow = Unset)
      /\ Authority!With(g.allow, t) = g.allow
      /\ \A y \in Tools : Authority!Lists(g.allow, y) <=> Authority!Lists(s.allow, y) \/ y = t
  <2>1. t \in Tools /\ s.allow \in (SUBSET Tools) \cup {Unset} /\ \A R \in SUBSET Tools : R # Unset
    BY <1>1, <1>2
  <2> QED BY <1>4, <2>1, MergedField
<1>7. g \in Authority!Scope
  BY <1>2, <1>4, <1>5, <1>6 DEF Authority!Scope
<1>8. \A x \in Tools : TierOf[x] \in Tiers
  BY <1>1
<1>9. \A x \in Tools, k \in Tiers : Authority!Allows(g, x, k) <=>
          /\ x \notin s.deny \/ x = t
          /\ Authority!Lists(s.allow, x) \/ x = t
          /\ Authority!Lists(s.tiers, k) \/ k = tier
  BY <1>4, <1>5, <1>6 DEF Authority!Allows
<1>10. \A x \in Tools : Authority!CheckTool(g, x) /\ ~Authority!CheckTool(s, x)
           => /\ \/ TierOf[x] = tier
                 \/ x = t /\ Authority!Lists(s.tiers, TierOf[x])
              /\ ~Authority!Allows(s, t, tier)
  BY <1>8, <1>9 DEF Authority!CheckTool, Authority!Allows
<1>11. \A x \in Tools, k \in Tiers : Authority!Allows(s, x, k) => Authority!Allows(g, x, k)
  BY <1>9 DEF Authority!Allows
<1>12. Authority!MergeGrant(g, t, tier) = g
  BY <1>4, <1>5, <1>6 DEF Authority!MergeGrant
<1> QED BY <1>3, <1>4, <1>6, <1>7, <1>9, <1>10, <1>11, <1>12

\* A grant at the tool's tier makes the tool callable, takes nothing away, and
\* applied again changes nothing, for any tiers and tools (permissions/grant.ts).
THEOREM GrantsOnlyAdd == Authority!GrantIsMonotone
<1> SUFFICES ASSUME NEW s \in Authority!Scope, NEW t \in Tools
             PROVE  LET g == Authority!MergeGrant(s, t, TierOf[t])
                    IN  /\ Authority!Callable(s) \cup {t} \subseteq Authority!Callable(g)
                        /\ Authority!MergeGrant(g, t, TierOf[t]) = g
  BY DEF Authority!GrantIsMonotone
<1>1. \A x \in Tools : TierOf[x] \in Tiers
  BY PartsAssumption DEF Authority!DelegationAssumption, Authority!PermissionsAssumption
<1> QED BY <1>1, MergedScope DEF Authority!Callable, Authority!CheckTool

\* A child that lists its tiers and its tools can call nothing its parent
\* cannot, for any tiers and tools (permissions/check.ts).
THEOREM ListedChildren == Authority!ListedChildIsNarrower
<1> SUFFICES ASSUME NEW p \in Authority!Scope, NEW c \in Authority!Scope,
                    Authority!NarrowsScope(p, c), c.tiers # Unset, c.allow # Unset,
                    NEW t \in Tools, Authority!CheckTool(c, t)
             PROVE  Authority!CheckTool(p, t)
  BY DEF Authority!ListedChildIsNarrower, Authority!Callable
<1> QED BY DEF Authority!NarrowsScope, Authority!CheckTool, Authority!Allows, Authority!Lists

----------------------------------------------------------------------------
(* Delegated authority *)

LEMMA AgentsDelegate == AgentSpec => Authority!Init /\ [][Authority!Next]_(Authority!vars)
<1>1. AgentInit => Authority!Init
  BY DEF AgentInit
<1>2. [AgentNext]_agentVars => [Authority!Next]_(Authority!vars)
  BY DEF AgentNext, agentVars, LoopStep, AuthorityStep, MailStep, CliStep, MemoryStep,
         authorityVars, Authority!vars
<1> QED BY <1>1, <1>2, PTL DEF AgentSpec

\* Whoever is there was spawned by the root, the root by the human.
ChainsAreShort ==
    /\ parent[Human] = NoOne /\ parent[Root] = Human
    /\ \A c \in Children : Authority!Exists(c) => parent[c] = Root
    /\ Authority!Exists(Human) /\ Authority!Exists(Root)

\* Who approves is kept from tools by tiers alone.
ApproversListTiers ==
    \A a \in {Human, Root} : scope[a].allow = Unset /\ scope[a].deny = {}

\* Loops, turns and grants are of agents that are there.
ActorsExist ==
    /\ \A a \in looping : Authority!Exists(a)
    /\ \A a \in Authority!InTurn : Authority!Exists(a)
    /\ \A g \in granted : Authority!Exists(g.agent)

AuthorityIInv ==
    /\ Authority!TypeOK /\ ChainsAreShort /\ ApproversListTiers /\ ActorsExist
    /\ GrantedIsCallable

Workers == {Root} \cup Children

\* What NothingFromNowhere says of the grant behind a gain.
GainedBy(a, g, gained) ==
    /\ g.agent = a
    /\ \A x \in gained :
          \/ TierOf[x] = g.tier /\ x \in Authority!Callable(scope[g.by])
          \/ x = g.tool /\ Authority!Lists(scope[a].tiers, TierOf[x])

LEMMA AuthorityBounds ==
    /\ Human # Root /\ Human \notin Children /\ Root \notin Children
    /\ Authority!Agents = {Human, Root} \cup Children /\ Authority!Workers = Workers
    /\ NoOne \notin {Human, Root} \cup Children /\ \A s \in Authority!Scope : s # NoOne
    /\ SpawnScopes \subseteq Authority!Scope /\ Asks \subseteq Nat
    /\ Payloads \subseteq Authority!Questions
    /\ \A t \in Tools : TierOf[t] \in Tiers
BY PartsAssumption DEF Authority!DelegationAssumption, Authority!PermissionsAssumption,
                       Authority!Agents, Authority!Workers, Workers

\* Only the root answers, and not for itself.
LEMMA OnlyRootDelegates ==
    ASSUME AuthorityIInv, NEW a \in Workers, Authority!Exists(a), NEW tier,
           Authority!Delegates(a, tier) # {}
    PROVE  a # Root /\ Authority!Nearest(Authority!Delegates(a, tier)) = Root
<1>1. /\ parent[Human] = NoOne /\ parent[Root] = Human
      /\ a \in Children => parent[a] = Root
  BY DEF AuthorityIInv, ChainsAreShort
<1>2. {Human} \subseteq Authority!Agents /\ Authority!ClosedUpwards({Human})
      /\ {Human, Root} \subseteq Authority!Agents /\ Authority!ClosedUpwards({Human, Root})
  BY <1>1, AuthorityBounds DEF Authority!ClosedUpwards
<1>3. Authority!Above(Root) \subseteq {Human}
  BY <1>1, <1>2 DEF Authority!Above
<1>4. a # Root
  BY <1>3 DEF Authority!Delegates
<1>5. Authority!Above(a) \subseteq {Human, Root}
  BY <1>1, <1>2, <1>4 DEF Authority!Above, Workers
<1>6. Authority!Delegates(a, tier) = {Root}
  BY <1>5 DEF Authority!Delegates
<1>7. Authority!Nearest({Root}) = Root
  BY DEF Authority!Nearest
<1> QED BY <1>4, <1>6, <1>7

\* A payload that is no grant names no agent.
LEMMA GrantNames ==
    ASSUME NEW ask \in Authority!Questions, ask.action = "grant"
    PROVE  ask.for \in Authority!Agents /\ ask.tool \in Tools /\ ask.tier \in Tiers
BY DEF Authority!Questions, Authority!OtherAsk

\* What an answered ask leaves: a scope that only grew, and a grant that both
\* sides are allowed.
LEMMA GrantApplied ==
    ASSUME AuthorityIInv, NEW ask \in Authority!Questions, NEW by \in {Human, Root},
           Authority!ApplyGrant(by, ask)
    PROVE  /\ scope' \in [Authority!Agents -> Authority!Scope \cup {NoOne}]
           /\ granted' \subseteq Authority!Grants
           /\ ApproversListTiers' /\ GrantedIsCallable'
           /\ \A a \in Authority!Agents : Authority!Exists(a) <=> Authority!Exists(a)'
           /\ \A g \in granted' : Authority!Exists(g.agent)'
<1>1. /\ scope \in [Authority!Agents -> Authority!Scope \cup {NoOne}]
      /\ granted \subseteq Authority!Grants
      /\ \A g \in granted : Authority!Exists(g.agent)
      /\ ApproversListTiers /\ GrantedIsCallable
  BY DEF AuthorityIInv, Authority!TypeOK, ActorsExist
<1>2. CASE UNCHANGED <<scope, granted>>
  BY <1>1, <1>2 DEF ApproversListTiers, GrantedIsCallable, Authority!GrantedIsCallable,
                    Authority!Exists, Authority!Allows, Authority!Lists
<1>3. ASSUME ~UNCHANGED <<scope, granted>>
      PROVE  /\ scope' \in [Authority!Agents -> Authority!Scope \cup {NoOne}]
             /\ granted' \subseteq Authority!Grants
             /\ ApproversListTiers' /\ GrantedIsCallable'
             /\ \A a \in Authority!Agents : Authority!Exists(a) <=> Authority!Exists(a)'
             /\ \A g \in granted' : Authority!Exists(g.agent)'
  <2>0. ask.action = "grant" /\ Authority!Granted(by, ask)
    BY <1>3 DEF Authority!ApplyGrant
  <2>1. PICK x \in Authority!Agents, t \in Tools, k \in Tiers :
            x = ask.for /\ t = ask.tool /\ k = ask.tier
    BY <2>0, GrantNames
  <2>2. /\ Authority!MayGrant(scope[by], t, k) /\ Authority!Exists(x)
        /\ scope' = [scope EXCEPT ![x] = Authority!MergeGrant(scope[x], t, k)]
        /\ granted' = granted \cup {[agent |-> x, tool |-> t, tier |-> k, by |-> by]}
    BY <1>3, <2>1 DEF Authority!ApplyGrant, Authority!Granted
  <2>3. PICK g : g = Authority!MergeGrant(scope[x], t, k)
    OBVIOUS
  <2>4. x \in Authority!Agents /\ by \in Authority!Agents /\ scope[x] \in Authority!Scope
    BY <1>1, <2>2, AuthorityBounds DEF Authority!Exists
  <2>5. /\ g \in Authority!Scope /\ Authority!Allows(g, t, k)
        /\ \A y \in Tools, j \in Tiers :
               Authority!Allows(scope[x], y, j) => Authority!Allows(g, y, j)
        /\ (scope[x].allow = Unset => g.allow = Unset) /\ (scope[x].deny = {} => g.deny = {})
    BY <2>3, <2>4, MergedScope
  <2>6. scope' = [scope EXCEPT ![x] = g]
    BY <2>2, <2>3
  <2>7. scope' \in [Authority!Agents -> Authority!Scope \cup {NoOne}]
    BY <1>1, <2>5, <2>6
  <2>8. \A a \in Authority!Agents : Authority!Exists(a) <=> Authority!Exists(a)'
    BY <1>1, <2>2, <2>4, <2>5, <2>6, AuthorityBounds DEF Authority!Exists
  <2>9. \A a \in Authority!Agents, y \in Tools, j \in Tiers :
            Authority!Exists(a) /\ Authority!Allows(scope[a], y, j)
            => Authority!Allows(scope'[a], y, j)
    BY <1>1, <2>4, <2>5, <2>6
  <2>10. ApproversListTiers'
    BY <1>1, <2>4, <2>5, <2>6, AuthorityBounds DEF ApproversListTiers
  <2>11. Authority!Exists(by) /\ scope[by] \in Authority!Scope
    BY <1>1, <2>4 DEF AuthorityIInv, ChainsAreShort, Authority!Exists
  <2>12. Authority!Allows(scope[by], t, k)
    BY <2>2, <2>11, GatesAreChecks DEF Authority!GateIsCheck
  <2>13. Authority!Allows(scope'[x], t, k) /\ Authority!Allows(scope'[by], t, k)
    BY <1>1, <2>4, <2>5, <2>6, <2>9, <2>11, <2>12
  <2>14. ASSUME NEW r \in granted'
         PROVE  /\ r \in Authority!Grants /\ Authority!Exists(r.agent)'
                /\ Authority!Allows(scope'[r.agent], r.tool, r.tier)
                /\ Authority!Allows(scope'[r.by], r.tool, r.tier)
    <3>1. CASE r \in granted
      <4>1. /\ r \in Authority!Grants
            /\ Authority!Exists(r.agent) /\ (r.by \in {Human, Root} => Authority!Exists(r.by))
            /\ Authority!Allows(scope[r.agent], r.tool, r.tier)
            /\ Authority!Allows(scope[r.by], r.tool, r.tier)
        BY <1>1, <3>1 DEF GrantedIsCallable, Authority!GrantedIsCallable, AuthorityIInv,
                          ChainsAreShort
      <4>2. /\ r.agent \in Authority!Agents /\ r.by \in Authority!Agents
            /\ r.by \in {Human, Root} /\ r.tool \in Tools /\ r.tier \in Tiers
        BY <4>1, AuthorityBounds DEF Authority!Grants
      <4> QED BY <2>8, <2>9, <4>1, <4>2
    <3>2. CASE r = [agent |-> x, tool |-> t, tier |-> k, by |-> by]
      BY <2>1, <2>2, <2>4, <2>8, <2>13, <3>2 DEF Authority!Grants
    <3> QED BY <2>2, <3>1, <3>2
  <2>15. GrantedIsCallable'
    BY <2>14 DEF GrantedIsCallable, Authority!GrantedIsCallable, Authority!Allows,
                 Authority!Lists
  <2> QED BY <2>7, <2>8, <2>10, <2>14, <2>15
<1> QED BY <1>2, <1>3

\* What is left to show of a step that touches no scope.
LEMMA ScopesKept ==
    ASSUME AuthorityIInv, UNCHANGED <<parent, scope, granted>>,
           looping' \subseteq Authority!Workers, \A a \in looping' : Authority!Exists(a),
           authorized' \in [Authority!Workers ->
               {Authority!NoTurn} \cup [snap : Authority!Scope, asked : SUBSET Tools]],
           \A a \in Authority!Workers :
               authorized'[a] # Authority!NoTurn => Authority!Exists(a),
           decision' \in [Asks -> {Authority!NoDecision} \cup
               [status : {"open", "approved", "denied", "modified", "stale"},
                by : Authority!Workers, ask : Authority!Questions]]
    PROVE  AuthorityIInv'
<1>1. Authority!TypeOK'
  BY DEF AuthorityIInv, Authority!TypeOK
<1>2. ChainsAreShort' /\ ApproversListTiers'
  BY DEF AuthorityIInv, ChainsAreShort, ApproversListTiers, Authority!Exists
<1>3. ActorsExist'
  BY DEF AuthorityIInv, ActorsExist, Authority!Exists, Authority!InTurn
<1>4. GrantedIsCallable'
  BY DEF AuthorityIInv, GrantedIsCallable, Authority!GrantedIsCallable, Authority!Allows,
         Authority!Lists
<1> QED BY <1>1, <1>2, <1>3, <1>4 DEF AuthorityIInv

\* ... and of one that answers an ask.
LEMMA GrantKeeps ==
    ASSUME AuthorityIInv, NEW ask \in Authority!Questions, NEW by \in {Human, Root},
           Authority!ApplyGrant(by, ask), UNCHANGED <<parent, looping>>,
           authorized' \in [Authority!Workers ->
               {Authority!NoTurn} \cup [snap : Authority!Scope, asked : SUBSET Tools]],
           \A a \in Authority!Workers :
               authorized'[a] # Authority!NoTurn => authorized[a] # Authority!NoTurn,
           decision' \in [Asks -> {Authority!NoDecision} \cup
               [status : {"open", "approved", "denied", "modified", "stale"},
                by : Authority!Workers, ask : Authority!Questions]]
    PROVE  AuthorityIInv'
<1>1. /\ scope' \in [Authority!Agents -> Authority!Scope \cup {NoOne}]
      /\ granted' \subseteq Authority!Grants
      /\ ApproversListTiers' /\ GrantedIsCallable'
      /\ \A a \in Authority!Agents : Authority!Exists(a) <=> Authority!Exists(a)'
      /\ \A g \in granted' : Authority!Exists(g.agent)'
  BY GrantApplied
<1>2. Authority!TypeOK'
  BY <1>1 DEF AuthorityIInv, Authority!TypeOK
<1>3. Human \in Authority!Agents /\ Root \in Authority!Agents
      /\ Children \subseteq Authority!Agents /\ Authority!Workers \subseteq Authority!Agents
  BY AuthorityBounds DEF Authority!Workers
<1>4. ChainsAreShort'
  BY <1>1, <1>3 DEF AuthorityIInv, ChainsAreShort
<1>5. ActorsExist'
  <2>1. \A a \in looping' : Authority!Exists(a)'
    BY <1>1, <1>3 DEF AuthorityIInv, Authority!TypeOK, ActorsExist
  <2>2. \A a \in Authority!InTurn' : Authority!Exists(a)'
    BY <1>1, <1>3 DEF AuthorityIInv, ActorsExist, Authority!InTurn
  <2> QED BY <1>1, <2>1, <2>2 DEF ActorsExist
<1> QED BY <1>1, <1>2, <1>4, <1>5 DEF AuthorityIInv

LEMMA AuthorityInit == Authority!Init => AuthorityIInv
<1> SUFFICES ASSUME Authority!Init PROVE AuthorityIInv
  OBVIOUS
<1>1. /\ [Authority!Unrestricted EXCEPT !.tiers = Tiers] \in Authority!Scope
      /\ [Authority!Unrestricted EXCEPT !.tiers = Tiers \ {"vision"}] \in Authority!Scope
  BY DEF Authority!Scope, Authority!Unrestricted
<1>2. /\ scope[Human] = [Authority!Unrestricted EXCEPT !.tiers = Tiers]
      /\ scope[Root] = [Authority!Unrestricted EXCEPT !.tiers = Tiers \ {"vision"}]
      /\ \A c \in Children : scope[c] = NoOne
  BY AuthorityBounds DEF Authority!Init
<1>3. Authority!TypeOK
  <2>1. scope \in [Authority!Agents -> Authority!Scope \cup {NoOne}]
    BY <1>1 DEF Authority!Init
  <2>2. parent \in [Authority!Agents -> Authority!Agents \cup {NoOne}]
    BY AuthorityBounds DEF Authority!Init
  <2> QED BY <2>1, <2>2, AuthorityBounds DEF Authority!Init, Authority!TypeOK, Workers
<1>4. ChainsAreShort /\ ApproversListTiers
  BY <1>1, <1>2, AuthorityBounds
     DEF Authority!Init, ChainsAreShort, ApproversListTiers, Authority!Exists, Authority!Unrestricted
<1>5. ActorsExist
  BY <1>4 DEF Authority!Init, ActorsExist, Authority!InTurn, ChainsAreShort
<1>6. GrantedIsCallable
  BY DEF Authority!Init, GrantedIsCallable, Authority!GrantedIsCallable
<1> QED BY <1>3, <1>4, <1>5, <1>6 DEF AuthorityIInv

LEMMA AuthoritySpawn ==
    ASSUME AuthorityIInv, NEW c \in Children, NEW s \in SpawnScopes, Authority!Spawn(c, s)
    PROVE  AuthorityIInv'
<1>1. c \in Authority!Agents /\ c \in Authority!Workers /\ s \in Authority!Scope /\ s # NoOne
      /\ c # Human /\ c # Root /\ Root \in Authority!Agents
  BY AuthorityBounds DEF Workers
<1>2. /\ ~Authority!Exists(c) /\ parent' = [parent EXCEPT ![c] = Root]
      /\ scope' = [scope EXCEPT ![c] = s] /\ looping' = looping \cup {c}
      /\ UNCHANGED <<authorized, decision, granted>>
  BY DEF Authority!Spawn
<1>3. Authority!TypeOK'
  BY <1>1, <1>2 DEF AuthorityIInv, Authority!TypeOK
<1>4. scope'[c] = s /\ parent'[c] = Root
      /\ \A a \in Authority!Agents \ {c} : scope'[a] = scope[a] /\ parent'[a] = parent[a]
  BY <1>1, <1>2 DEF AuthorityIInv, Authority!TypeOK
<1>5. \A a \in Authority!Agents : Authority!Exists(a)' <=> Authority!Exists(a) \/ a = c
  BY <1>1, <1>4 DEF Authority!Exists
<1>6. ChainsAreShort' /\ ApproversListTiers'
  BY <1>1, <1>4, <1>5, AuthorityBounds DEF AuthorityIInv, ChainsAreShort, ApproversListTiers
<1>7. \A g \in granted : /\ g.agent \in Authority!Agents \ {c} /\ g.by \in Authority!Agents \ {c}
                         /\ Authority!Exists(g.agent)
  BY <1>1, <1>2, AuthorityBounds
     DEF AuthorityIInv, Authority!TypeOK, ActorsExist, Authority!Grants
<1>8. ActorsExist'
  BY <1>2, <1>5, <1>7, AuthorityBounds
     DEF AuthorityIInv, Authority!TypeOK, ActorsExist, Authority!InTurn, Authority!Workers
<1>9. GrantedIsCallable'
  BY <1>2, <1>4, <1>7 DEF AuthorityIInv, GrantedIsCallable, Authority!GrantedIsCallable,
     Authority!Allows, Authority!Lists
<1> QED BY <1>3, <1>6, <1>8, <1>9 DEF AuthorityIInv

LEMMA AuthorityTurns ==
    ASSUME AuthorityIInv,
           \/ \E c \in Children : Authority!Kill(c)
           \/ \E a \in Authority!Workers : Authority!BeginTurn(a) \/ Authority!EndTurn(a)
           \/ Authority!Restart
    PROVE  AuthorityIInv'
<1>1. Authority!TypeOK /\ ActorsExist /\ Authority!Exists(Root) /\ Root \in Authority!Workers
  BY AuthorityBounds DEF AuthorityIInv, ChainsAreShort, Workers
<1>2. CASE \E c \in Children : Authority!Kill(c)
  BY <1>1, <1>2, ScopesKept DEF Authority!Kill, Authority!TypeOK, ActorsExist, Authority!InTurn
<1>3. ASSUME NEW a \in Authority!Workers, Authority!BeginTurn(a) PROVE AuthorityIInv'
  <2>1. Authority!Exists(a) /\ scope[a] \in Authority!Scope
    BY <1>1, <1>3 DEF Authority!BeginTurn, ActorsExist, Authority!Exists, Authority!TypeOK,
                      Authority!Workers
  <2>2. [snap |-> scope[a], asked |-> {}] \in [snap : Authority!Scope, asked : SUBSET Tools]
    BY <2>1
  <2> QED BY <1>1, <1>3, <2>1, <2>2, ScopesKept
          DEF Authority!BeginTurn, Authority!TypeOK, ActorsExist, Authority!InTurn
<1>4. ASSUME NEW a \in Authority!Workers, Authority!EndTurn(a) PROVE AuthorityIInv'
  BY <1>1, <1>4, ScopesKept DEF Authority!EndTurn, Authority!TypeOK, ActorsExist, Authority!InTurn
<1>5. CASE Authority!Restart
  BY <1>1, <1>5, ScopesKept DEF Authority!Restart, Authority!TypeOK, ActorsExist, Authority!InTurn
<1> QED BY <1>2, <1>3, <1>4, <1>5

\* An ask is granted by the root, to whomever it names, or waits for the human.
LEMMA AskedUp ==
    ASSUME AuthorityIInv, NEW a \in Authority!InTurn, NEW tier, NEW ask \in Authority!Questions,
           Authority!AskUp(a, tier, ask)
    PROVE  \/ Authority!ApplyGrant(Root, ask) /\ UNCHANGED decision
           \/ /\ UNCHANGED <<scope, granted>>
              /\ decision' \in [Asks -> {Authority!NoDecision} \cup
                     [status : {"open", "approved", "denied", "modified", "stale"},
                      by : Authority!Workers, ask : Authority!Questions]]
<1>1. a \in Workers /\ a \in Authority!Workers /\ Authority!Exists(a)
  BY AuthorityBounds DEF AuthorityIInv, ActorsExist, Authority!InTurn
<1>2. CASE Authority!Delegates(a, tier) # {}
  BY <1>1, <1>2, OnlyRootDelegates DEF Authority!AskUp
<1>3. CASE Authority!Delegates(a, tier) = {}
  <2>1. PICK d : /\ decision' = [decision EXCEPT ![d] = [status |-> "open", by |-> a, ask |-> ask]]
                 /\ UNCHANGED <<scope, granted>>
    BY <1>3 DEF Authority!AskUp
  <2>2. [status |-> "open", by |-> a, ask |-> ask] \in
            [status : {"open", "approved", "denied", "modified", "stale"},
             by : Authority!Workers, ask : Authority!Questions]
    BY <1>1
  <2> QED BY <2>1, <2>2 DEF AuthorityIInv, Authority!TypeOK
<1> QED BY <1>2, <1>3

\* The turn of an agent that asked.
LEMMA AuthorityAsks ==
    ASSUME AuthorityIInv, NEW a \in Authority!Workers,
           \/ \E t \in Tools : Authority!DeniedCall(a, t)
           \/ \E tier \in Tiers, ask \in Payloads : Authority!MailPropose(a, tier, ask)
    PROVE  /\ AuthorityIInv'
           /\ \/ \E ask \in Authority!Questions : Authority!ApplyGrant(Root, ask)
              \/ UNCHANGED <<scope, granted>>
<1>0. PICK tier : \E ask \in Authority!Questions :
          /\ a \in Authority!InTurn /\ Authority!AskUp(a, tier, ask)
          /\ UNCHANGED <<parent, looping>>
  <2>1. ASSUME NEW t \in Tools, Authority!DeniedCall(a, t)
        PROVE  \E tier : \E ask \in Authority!Questions :
                   /\ a \in Authority!InTurn /\ Authority!AskUp(a, tier, ask)
                   /\ UNCHANGED <<parent, looping>>
    <3>1. [action |-> "grant", for |-> a, tool |-> t, tier |-> TierOf[t]] \in Authority!Questions
      BY AuthorityBounds DEF Authority!Questions, Workers
    <3> QED BY <2>1, <3>1 DEF Authority!DeniedCall
  <2>2. ASSUME NEW tier \in Tiers, NEW ask \in Payloads, Authority!MailPropose(a, tier, ask)
        PROVE  \E k : \E q \in Authority!Questions :
                   /\ a \in Authority!InTurn /\ Authority!AskUp(a, k, q)
                   /\ UNCHANGED <<parent, looping>>
    BY <2>2, AuthorityBounds DEF Authority!MailPropose
  <2> QED BY <2>1, <2>2
<1>1. PICK ask \in Authority!Questions :
          /\ a \in Authority!InTurn /\ Authority!AskUp(a, tier, ask)
          /\ UNCHANGED <<parent, looping>>
  BY <1>0
<1>2. /\ authorized' \in [Authority!Workers ->
             {Authority!NoTurn} \cup [snap : Authority!Scope, asked : SUBSET Tools]]
      /\ \A b \in Authority!Workers :
             authorized'[b] # Authority!NoTurn => authorized[b] # Authority!NoTurn
  <2>1. ASSUME NEW t \in Tools, Authority!DeniedCall(a, t)
        PROVE  /\ authorized' \in [Authority!Workers ->
                      {Authority!NoTurn} \cup [snap : Authority!Scope, asked : SUBSET Tools]]
               /\ \A b \in Authority!Workers \ {a} : authorized'[b] = authorized[b]
    <3>1. authorized[a] \in [snap : Authority!Scope, asked : SUBSET Tools]
      BY <1>1 DEF AuthorityIInv, Authority!TypeOK, Authority!InTurn
    <3>2. [authorized[a] EXCEPT !.asked = @ \cup {t}] \in [snap : Authority!Scope, asked : SUBSET Tools]
      BY <3>1
    <3> QED BY <2>1, <3>2 DEF AuthorityIInv, Authority!TypeOK, Authority!DeniedCall
  <2>2. ASSUME NEW k \in Tiers, NEW q \in Payloads, Authority!MailPropose(a, k, q)
        PROVE  UNCHANGED authorized
    BY <2>2 DEF Authority!MailPropose
  <2> QED BY <1>1, <2>1, <2>2 DEF AuthorityIInv, Authority!TypeOK, Authority!InTurn
<1>3. CASE Authority!ApplyGrant(Root, ask) /\ UNCHANGED decision
  BY <1>1, <1>2, <1>3, GrantKeeps DEF AuthorityIInv, Authority!TypeOK
<1>4. CASE /\ UNCHANGED <<scope, granted>>
           /\ decision' \in [Asks -> {Authority!NoDecision} \cup
                  [status : {"open", "approved", "denied", "modified", "stale"},
                   by : Authority!Workers, ask : Authority!Questions]]
  BY <1>1, <1>2, <1>4, ScopesKept
     DEF AuthorityIInv, Authority!TypeOK, ActorsExist, Authority!InTurn
<1> QED BY <1>1, <1>3, <1>4, AskedUp

\* A settled decision, whoever voted.
LEMMA AuthoritySettles ==
    ASSUME AuthorityIInv, NEW d \in Authority!Open,
           NEW status \in {"approved", "denied", "modified", "stale"},
           NEW ask \in {decision[d].ask} \cup Payloads, Authority!Settle(d, status, ask)
    PROVE  /\ AuthorityIInv'
           /\ \/ \E q \in Authority!Questions : Authority!ApplyGrant(Human, q)
              \/ UNCHANGED <<scope, granted>>
<1>1. decision[d] \in [status : {"open", "approved", "denied", "modified", "stale"},
                       by : Authority!Workers, ask : Authority!Questions]
  BY DEF Authority!Open, AuthorityIInv, Authority!TypeOK, Authority!NoDecision
<1>2. ask \in Authority!Questions
  BY <1>1, AuthorityBounds
<1>3. PICK row_ : row_ = [decision[d] EXCEPT !.status = status, !.ask = ask]
  OBVIOUS
<1>4. row_ \in [status : {"open", "approved", "denied", "modified", "stale"},
                by : Authority!Workers, ask : Authority!Questions]
  BY <1>1, <1>2, <1>3
<1>5. decision' = [decision EXCEPT ![d] = row_]
  BY <1>3 DEF Authority!Settle
<1>6. decision' \in [Asks -> {Authority!NoDecision} \cup
          [status : {"open", "approved", "denied", "modified", "stale"},
           by : Authority!Workers, ask : Authority!Questions]]
  BY <1>4, <1>5 DEF AuthorityIInv, Authority!TypeOK
<1>7. UNCHANGED <<parent, looping, authorized>>
      /\ (Authority!ApplyGrant(Human, ask) \/ UNCHANGED <<scope, granted>>)
  BY DEF Authority!Settle
<1>8. CASE Authority!ApplyGrant(Human, ask)
  BY <1>2, <1>6, <1>7, <1>8, GrantKeeps DEF AuthorityIInv, Authority!TypeOK
<1>9. CASE UNCHANGED <<scope, granted>>
  BY <1>6, <1>7, <1>9, ScopesKept
     DEF AuthorityIInv, Authority!TypeOK, ActorsExist, Authority!InTurn
<1> QED BY <1>2, <1>7, <1>8, <1>9

LEMMA AuthorityResponds ==
    ASSUME AuthorityIInv, NEW d \in Authority!Open,
           \/ Authority!Respond(d) \/ Authority!SweepStale(d)
           \/ \E a \in Authority!Workers : Authority!MailRespond(a, d)
    PROVE  /\ AuthorityIInv'
           /\ \/ \E q \in Authority!Questions : Authority!ApplyGrant(Human, q)
              \/ UNCHANGED <<scope, granted>>
<1>1. PICK status \in {"approved", "denied", "modified", "stale"},
           ask \in {decision[d].ask} \cup Payloads : Authority!Settle(d, status, ask)
  BY DEF Authority!MailRespond, Authority!Respond, Authority!SweepStale
<1> QED BY <1>1, AuthoritySettles

LEMMA AuthorityNext == AuthorityIInv /\ [Authority!Next]_(Authority!vars) => AuthorityIInv'
<1> SUFFICES ASSUME AuthorityIInv, [Authority!Next]_(Authority!vars) PROVE AuthorityIInv'
  OBVIOUS
<1>1. CASE UNCHANGED Authority!vars
  BY <1>1, ScopesKept DEF Authority!vars, AuthorityIInv, Authority!TypeOK, ActorsExist,
     Authority!InTurn
<1> QED BY <1>1, AuthoritySpawn, AuthorityTurns, AuthorityAsks, AuthorityResponds
        DEF Authority!Next

\* What was granted is allowed for good, at the tier the ask named, to the
\* agent and to whoever's authority it was granted by: whatever payload goes
\* up, naming any agent, tool and tier, whoever votes on it and whatever the
\* vote puts in its place, for any tiers, tools, agents and scopes
\* (permissions/grant.ts, inbox/approval.ts, tools/inbox.ts).
THEOREM GrantsAreCallable == AgentSpec => []GrantedIsCallable
<1>1. AuthorityIInv => GrantedIsCallable
  BY DEF AuthorityIInv
<1> QED BY <1>1, AuthorityInit, AuthorityNext, AgentsDelegate, PTL

\* What an agent gains by an answered ask.
LEMMA GainedByGrant ==
    ASSUME AuthorityIInv, NEW ask \in Authority!Questions, NEW by \in {Human, Root},
           Authority!ApplyGrant(by, ask), NEW a \in Authority!Workers, Authority!Exists(a),
           NEW gained, gained = Authority!Callable(scope'[a]) \ Authority!Callable(scope[a]),
           gained # {}
    PROVE  \E g \in granted' \ granted : GainedBy(a, g, gained)
<1>0. /\ ask.action = "grant" /\ Authority!Granted(by, ask)
      /\ Authority!MayGrant(scope[by], ask.tool, ask.tier) /\ Authority!Exists(ask.for)
  BY DEF Authority!ApplyGrant
<1>1. PICK x \in Authority!Agents, t \in Tools, k \in Tiers :
          x = ask.for /\ t = ask.tool /\ k = ask.tier
  BY <1>0, GrantNames
<1>2. /\ Authority!MayGrant(scope[by], t, k) /\ Authority!Exists(x)
      /\ scope' = [scope EXCEPT ![x] = Authority!MergeGrant(scope[x], t, k)]
      /\ granted' = granted \cup {[agent |-> x, tool |-> t, tier |-> k, by |-> by]}
  BY <1>0, <1>1 DEF Authority!Granted
<1>3. scope \in [Authority!Agents -> Authority!Scope \cup {NoOne}] /\ x \in Authority!Agents
      /\ a \in Authority!Agents /\ by \in Authority!Agents
  BY AuthorityBounds DEF AuthorityIInv, Authority!TypeOK, Workers
<1>4. a = x /\ scope'[a] = Authority!MergeGrant(scope[a], t, k)
  BY <1>2, <1>3
<1>5. scope[a] \in Authority!Scope /\ scope[by] \in Authority!Scope
  BY <1>3 DEF Authority!Exists, AuthorityIInv, ChainsAreShort
<1>6. \A y \in gained : /\ y \in Tools /\ ~Authority!Allows(scope[a], t, k)
                        /\ \/ TierOf[y] = k
                           \/ y = t /\ Authority!Lists(scope[a].tiers, TierOf[y])
  BY <1>4, <1>5, MergedScope DEF Authority!Callable
<1>7. PICK g : g = [agent |-> x, tool |-> t, tier |-> k, by |-> by]
  OBVIOUS
<1>8. g \in granted' /\ g \notin granted
  BY <1>2, <1>4, <1>6, <1>7 DEF AuthorityIInv, GrantedIsCallable, Authority!GrantedIsCallable
<1>9. Authority!Allows(scope[by], t, k)
  BY <1>2, <1>5, GatesAreChecks DEF Authority!GateIsCheck
<1>10. scope[by].allow = Unset /\ scope[by].deny = {}
  BY DEF AuthorityIInv, ApproversListTiers
<1>11. \A y \in gained : TierOf[y] = k => y \in Authority!Callable(scope[by])
  BY <1>6, <1>9, <1>10 DEF Authority!Callable, Authority!CheckTool, Authority!Allows,
                           Authority!Lists
<1> QED BY <1>4, <1>6, <1>7, <1>8, <1>11 DEF GainedBy

\* An agent only gains a tool by a grant to it: tools of the granted tier, all
\* of which its approver could call, or the one tool whose tier it had; an
\* action property, for any tiers, tools, agents, scopes, payloads and voters
\* (permissions/grant.ts, tools/inbox.ts).
THEOREM NobodyGainsUnasked == AgentSpec => NothingFromNowhere
<1>1. ASSUME AuthorityIInv, [Authority!Next]_(Authority!vars),
             NEW a \in Authority!Workers, Authority!Exists(a),
             NEW gained, gained = Authority!Callable(scope'[a]) \ Authority!Callable(scope[a]),
             gained # {}
      PROVE  \E g \in granted' \ granted : GainedBy(a, g, gained)
  <2>1. CASE scope'[a] = scope[a]
    BY <1>1, <2>1
  <2>2. CASE \E ask \in Authority!Questions, by \in {Human, Root} :
                 Authority!ApplyGrant(by, ask)
    BY <1>1, <2>2, GainedByGrant
  <2>3. ASSUME NEW c \in Children, NEW s \in SpawnScopes, Authority!Spawn(c, s)
        PROVE  scope'[a] = scope[a]
    <3>1. a # c /\ scope' = [scope EXCEPT ![c] = s]
      BY <1>1, <2>3 DEF Authority!Spawn
    <3>2. a \in DOMAIN scope
      BY <1>1 DEF AuthorityIInv, Authority!TypeOK, Authority!Workers
    <3> QED BY <3>1, <3>2
  <2>4. ASSUME NEW b \in Authority!Workers,
               \/ \E t \in Tools : Authority!DeniedCall(b, t)
               \/ \E tier \in Tiers, ask \in Payloads : Authority!MailPropose(b, tier, ask)
        PROVE  \/ scope'[a] = scope[a]
               \/ \E ask \in Authority!Questions, by \in {Human, Root} :
                      Authority!ApplyGrant(by, ask)
    BY <1>1, <2>4, AuthorityAsks
  <2>5. ASSUME NEW d \in Authority!Open,
               \/ Authority!Respond(d) \/ Authority!SweepStale(d)
               \/ \E b \in Authority!Workers : Authority!MailRespond(b, d)
        PROVE  \/ scope'[a] = scope[a]
               \/ \E ask \in Authority!Questions, by \in {Human, Root} :
                      Authority!ApplyGrant(by, ask)
    BY <1>1, <2>5, AuthorityResponds
  <2>6. CASE \/ UNCHANGED Authority!vars
             \/ \E c \in Children : Authority!Kill(c)
             \/ \E b \in Authority!Workers : Authority!BeginTurn(b) \/ Authority!EndTurn(b)
             \/ Authority!Restart
    BY <2>1, <2>6 DEF Authority!vars, Authority!Kill, Authority!BeginTurn, Authority!EndTurn,
                      Authority!Restart
  <2> QED BY <1>1, <2>1, <2>2, <2>3, <2>4, <2>5, <2>6 DEF Authority!Next
<1>2. AuthorityIInv /\ [Authority!Next]_(Authority!vars) =>
          [\A a \in Authority!Workers : Authority!Exists(a) =>
              LET gained == Authority!Callable(scope'[a]) \ Authority!Callable(scope[a])
              IN  gained # {} => \E g \in granted' \ granted :
                      /\ g.agent = a
                      /\ \A x \in gained :
                            \/ TierOf[x] = g.tier /\ x \in Authority!Callable(scope[g.by])
                            \/ x = g.tool /\ Authority!Lists(scope[a].tiers, TierOf[x])]_(Authority!vars)
  <2> SUFFICES ASSUME AuthorityIInv, [Authority!Next]_(Authority!vars),
                      NEW a \in Authority!Workers, Authority!Exists(a),
                      Authority!Callable(scope'[a]) \ Authority!Callable(scope[a]) # {}
               PROVE  LET gained == Authority!Callable(scope'[a]) \ Authority!Callable(scope[a])
                      IN  \E g \in granted' \ granted : GainedBy(a, g, gained)
    BY DEF GainedBy
  <2>1. PICK gained : gained = Authority!Callable(scope'[a]) \ Authority!Callable(scope[a])
    OBVIOUS
  <2>2. \E g \in granted' \ granted : GainedBy(a, g, gained)
    BY <1>1, <2>1
  <2> QED BY <2>1, <2>2
<1> QED BY <1>2, AuthorityInit, AuthorityNext, AgentsDelegate, PTL
        DEF NothingFromNowhere, Authority!NothingFromNowhere

----------------------------------------------------------------------------
(* Decisions by mail *)

LEMMA AgentsGetMail == AgentSpec => Mail!Init /\ [][Mail!Next]_(Mail!vars)
<1>1. AgentInit => Mail!Init
  BY DEF AgentInit
<1>2. [AgentNext]_agentVars => [Mail!Next]_(Mail!vars)
  BY DEF AgentNext, agentVars, LoopStep, AuthorityStep, MailStep, CliStep, MemoryStep,
         mailVars, Mail!vars
<1> QED BY <1>1, <1>2, PTL DEF AgentSpec

\* Nothing is dated later than now, and a mark is past now by the
\* millisecond of a rendering at most.
MarksAreBehind ==
    /\ began <= now
    /\ \A d \in Mail!Settled : row[d].at <= now
    /\ \A t \in MailThreads : hwm[t] <= now + 1 /\ turn[t].readAt <= now

\* A turn was shown what was resolved after the mark of its thread and before
\* the millisecond of its rendering, and of that millisecond what was there.
TurnsShowWhatIsNew ==
    \A t \in MailThreads :
        /\ ~turn[t].on => turn[t].fresh = {}
        /\ \A d \in turn[t].fresh :
               d \in Mail!Settled /\ hwm[t] <= row[d].at /\ row[d].at <= turn[t].readAt
        /\ turn[t].on => \A d \in Mail!Settled :
               hwm[t] <= row[d].at /\ row[d].at < turn[t].readAt => d \in turn[t].fresh

\* What a thread was shown is behind its mark.
ShownIsMarked ==
    \A t \in MailThreads : \A d \in shown[t] : d \in Mail!Settled /\ row[d].at < hwm[t]

MailboxHasWoken == shown[Mailbox] \cup turn[Mailbox].fresh \subseteq wokenFor

MailIInv ==
    /\ Mail!TypeOK /\ MarksAreBehind /\ TurnsShowWhatIsNew /\ ShownIsMarked /\ MailboxHasWoken
    /\ Mail!ResolutionsAreKept /\ Mail!AnswersHaveAWake

LEMMA MailBounds ==
    Mailbox \in MailThreads /\ MaxTime \in Nat /\ Deadlines \subseteq 0..MaxTime \cup {Never}
BY PartsAssumption DEF Mail!MailAssumption

LEMMA MailInit == Mail!Init => MailIInv
<1> SUFFICES ASSUME Mail!Init PROVE MailIInv
  OBVIOUS
<1>1. Mail!NoRow \in [status : Mail!Statuses, deadline : 0..2 * MaxTime \cup {Never}, at : 0..MaxTime]
      /\ Mail!NoTurn \in [on : BOOLEAN, readAt : 0..MaxTime, fresh : SUBSET Decisions]
  BY MailBounds DEF Mail!NoRow, Mail!NoTurn, Mail!Statuses
<1>2. Mail!TypeOK
  <2>1. 0 \in 0..MaxTime /\ 0 \in 0..(MaxTime + 1)
    BY MailBounds
  <2>2. row \in [Decisions -> [status : Mail!Statuses, deadline : 0..2 * MaxTime \cup {Never},
                              at : 0..MaxTime]]
    BY <1>1 DEF Mail!Init
  <2>3. turn \in [MailThreads -> [on : BOOLEAN, readAt : 0..MaxTime, fresh : SUBSET Decisions]]
    BY <1>1 DEF Mail!Init
  <2> QED BY <2>1, <2>2, <2>3 DEF Mail!Init, Mail!TypeOK
<1>3. Mail!Settled = {}
  BY DEF Mail!Init, Mail!Settled, Mail!Unused, Mail!NoRow
<1> QED BY <1>2, <1>3, MailBounds
        DEF Mail!Init, MailIInv, MarksAreBehind, TurnsShowWhatIsNew, ShownIsMarked,
            MailboxHasWoken, Mail!ResolutionsAreKept, Mail!AnswersHaveAWake, Mail!NoTurn

\* Rows resolved now, announced to whoever hears it.
LEMMA MailResolved ==
    ASSUME MailIInv, NEW S \in SUBSET Mail!Open, NEW status \in {"answered", "stale"},
           row' \in [Decisions -> [status : Mail!Statuses, deadline : 0..2 * MaxTime \cup {Never},
                                   at : 0..MaxTime]],
           \A d \in S : row'[d].status = status /\ row'[d].at = now,
           \A d \in Decisions \ S : row'[d] = row[d],
           Mail!Announce(S), UNCHANGED <<unread, running, turn, hwm, began, shown, wokenFor, woken,
                                         now, restarts>>
    PROVE  MailIInv'
<1>1. /\ Mail!Settled' = Mail!Settled \cup S /\ Mail!Settled \cap S = {}
      /\ Mail!Unused' = Mail!Unused
  BY DEF Mail!Settled, Mail!Unused, Mail!Open
<1>2. /\ \A d \in Mail!Settled : row'[d] = row[d]
      /\ \A d \in S : row'[d].at = now
      /\ S \subseteq Decisions
  BY DEF Mail!Settled, Mail!Open
<1>3. /\ now \in Nat /\ began \in Nat /\ \A t \in MailThreads : hwm[t] \in Nat /\ turn[t].readAt \in Nat
      /\ running \in BOOLEAN
  BY MailBounds DEF MailIInv, Mail!TypeOK
<1>4. /\ missed' = [t \in MailThreads |-> missed[t] \cup {d \in S : hwm[t] = now + 1}]
      /\ pending \subseteq pending' /\ pending' \subseteq Decisions
      /\ running => S \subseteq pending' /\ timer'
      /\ timer' \in BOOLEAN /\ (timer => timer')
  BY <1>2 DEF Mail!Announce, MailIInv, Mail!TypeOK
<1>5. Mail!TypeOK'
  BY <1>1, <1>2, <1>4 DEF MailIInv, Mail!TypeOK
<1>6. MarksAreBehind' /\ TurnsShowWhatIsNew' /\ ShownIsMarked' /\ MailboxHasWoken'
  BY <1>1, <1>2, <1>3 DEF MailIInv, MarksAreBehind, TurnsShowWhatIsNew, ShownIsMarked, MailboxHasWoken
<1>7. Mail!ResolutionsAreKept'
  <2>1. ASSUME NEW t \in MailThreads, NEW d \in S
        PROVE  d \in missed'[t] \/ row'[d].at >= hwm[t]
    BY <1>2, <1>3, <1>4 DEF MailIInv, MarksAreBehind
  <2>2. ASSUME NEW t \in MailThreads, NEW d \in Mail!Settled, row[d].at >= began, running
        PROVE  d \in shown[t] \cup missed'[t] \/ row'[d].at >= hwm[t]
    BY <1>2, <1>4, <2>2 DEF MailIInv, Mail!ResolutionsAreKept
  <2> QED BY <1>1, <1>2, <2>1, <2>2 DEF Mail!ResolutionsAreKept
<1>8. Mail!AnswersHaveAWake'
  BY <1>1, <1>2, <1>3, <1>4, MailBounds DEF MailIInv, MarksAreBehind, Mail!AnswersHaveAWake, Mail!TypeOK
<1> QED BY <1>5, <1>6, <1>7, <1>8 DEF MailIInv

LEMMA MailInbox ==
    ASSUME MailIInv,
           \/ \E window \in Deadlines : Mail!Propose(window)
           \/ \E d \in Decisions : Mail!Respond(d) \/ Mail!Reply(d) \/ Mail!MarkRead(d)
           \/ Mail!SweepStale
    PROVE  MailIInv'
<1>1. ASSUME NEW window \in Deadlines, Mail!Propose(window) PROVE MailIInv'
  <2>1. PICK d \in Mail!Unused : row' = [row EXCEPT ![d] =
            [status |-> "open", deadline |-> IF window = Never THEN Never ELSE now + window, at |-> 0]]
    BY <1>1 DEF Mail!Propose
  <2>2. [status |-> "open", deadline |-> IF window = Never THEN Never ELSE now + window, at |-> 0] \in
            [status : Mail!Statuses, deadline : 0..2 * MaxTime \cup {Never}, at : 0..MaxTime]
    BY MailBounds DEF MailIInv, Mail!TypeOK, Mail!Statuses
  <2>3. row' \in [Decisions -> [status : Mail!Statuses, deadline : 0..2 * MaxTime \cup {Never},
                                at : 0..MaxTime]]
        /\ Mail!Unused' = Mail!Unused \ {d} /\ Mail!Settled' = Mail!Settled
        /\ \A e \in Mail!Settled : row'[e] = row[e]
    BY <2>1, <2>2 DEF MailIInv, Mail!TypeOK, Mail!Settled, Mail!Unused, Mail!Open
  <2> QED BY <1>1, <2>3 DEF Mail!Propose, Mail!loopVars, Mail!wakeVars, MailIInv, Mail!TypeOK,
              MarksAreBehind, TurnsShowWhatIsNew, ShownIsMarked, MailboxHasWoken,
              Mail!ResolutionsAreKept, Mail!AnswersHaveAWake
<1>2. ASSUME NEW d \in Decisions, Mail!Respond(d) PROVE MailIInv'
  <2>1. PICK r : r = [row[d] EXCEPT !.status = "answered", !.at = now]
    OBVIOUS
  <2>2. r \in [status : Mail!Statuses, deadline : 0..2 * MaxTime \cup {Never}, at : 0..MaxTime]
        /\ r.status = "answered" /\ r.at = now
    BY <2>1 DEF MailIInv, Mail!TypeOK, Mail!Statuses
  <2>3. row' = [row EXCEPT ![d] = r]
    BY <1>2, <2>1 DEF Mail!Respond
  <2>4. row' \in [Decisions -> [status : Mail!Statuses, deadline : 0..2 * MaxTime \cup {Never},
                                at : 0..MaxTime]]
        /\ row'[d] = r /\ \A e \in Decisions \ {d} : row'[e] = row[e]
    BY <2>2, <2>3 DEF MailIInv, Mail!TypeOK
  <2> QED BY <1>2, <2>2, <2>4, MailResolved DEF Mail!Respond, Mail!loopVars
<1>3. CASE Mail!SweepStale
  <2>1. PICK S \in SUBSET Mail!Open :
            /\ row' = [d \in Decisions |->
                   IF d \in S THEN [row[d] EXCEPT !.status = "stale", !.at = now] ELSE row[d]]
            /\ Mail!Announce(S)
    BY <1>3 DEF Mail!SweepStale
  <2>2. \A d \in Decisions : [row[d] EXCEPT !.status = "stale", !.at = now] \in
            [status : Mail!Statuses, deadline : 0..2 * MaxTime \cup {Never}, at : 0..MaxTime]
    BY DEF MailIInv, Mail!TypeOK, Mail!Statuses
  <2>3. /\ row' \in [Decisions -> [status : Mail!Statuses, deadline : 0..2 * MaxTime \cup {Never},
                                   at : 0..MaxTime]]
        /\ \A d \in S : row'[d].status = "stale" /\ row'[d].at = now
        /\ \A d \in Decisions \ S : row'[d] = row[d]
    BY <2>1, <2>2 DEF MailIInv, Mail!TypeOK, Mail!Open
  <2> QED BY <1>3, <2>1, <2>3, MailResolved DEF Mail!SweepStale, Mail!loopVars
<1>4. ASSUME NEW d \in Decisions, Mail!Reply(d) \/ Mail!MarkRead(d) PROVE MailIInv'
  <2>1. unread' \subseteq Decisions \ Mail!Unused /\ Mail!Unused' = Mail!Unused
        /\ Mail!Settled' = Mail!Settled
    BY <1>4 DEF Mail!Reply, Mail!MarkRead, Mail!Unused, Mail!Settled, Mail!Open, MailIInv, Mail!TypeOK
  <2> QED BY <1>4, <2>1 DEF Mail!Reply, Mail!MarkRead, Mail!loopVars, Mail!wakeVars,
              MailIInv, Mail!TypeOK,
              MarksAreBehind, TurnsShowWhatIsNew, ShownIsMarked, MailboxHasWoken,
              Mail!ResolutionsAreKept, Mail!AnswersHaveAWake
<1> QED BY <1>1, <1>2, <1>3, <1>4

LEMMA RowsStay ==
    ASSUME UNCHANGED row
    PROVE  Mail!Settled' = Mail!Settled /\ Mail!Unused' = Mail!Unused /\ Mail!Open' = Mail!Open
BY DEF Mail!Settled, Mail!Unused, Mail!Open

LEMMA MailEndsTurn ==
    ASSUME MailIInv, NEW t \in MailThreads, Mail!EndTurn(t)
    PROVE  MailIInv'
<1>1. PICK mark : mark = IF turn[t].fresh = {} THEN hwm[t]
                         ELSE Mail!Max({hwm[t], turn[t].readAt + 1})
  OBVIOUS
<1>2. /\ turn[t].on /\ turn' = [turn EXCEPT ![t] = Mail!NoTurn]
      /\ hwm' = [hwm EXCEPT ![t] = mark]
      /\ shown' = [shown EXCEPT ![t] = @ \cup turn[t].fresh]
      /\ missed' = [missed EXCEPT ![t] = @ \cup
             {d \in Mail!Settled \ turn[t].fresh :
                 row[d].at = turn[t].readAt /\ turn[t].readAt < mark /\ d \notin shown[t]}]
      /\ UNCHANGED <<row, unread, running, began, wokenFor, pending, timer, woken, now, restarts>>
  BY <1>1 DEF Mail!EndTurn, Mail!wakeVars
<1>3. /\ now \in 0..MaxTime /\ hwm[t] \in 0..(MaxTime + 1) /\ turn[t].readAt \in 0..MaxTime
      /\ hwm[t] <= now + 1 /\ turn[t].readAt <= now
      /\ turn \in [MailThreads -> [on : BOOLEAN, readAt : 0..MaxTime, fresh : SUBSET Decisions]]
      /\ hwm \in [MailThreads -> 0..(MaxTime + 1)]
      /\ shown \in [MailThreads -> SUBSET Decisions] /\ missed \in [MailThreads -> SUBSET Decisions]
      /\ \A d \in Decisions : row[d].at \in Nat
      /\ Mail!Settled \subseteq Decisions
  BY MailBounds DEF MailIInv, Mail!TypeOK, MarksAreBehind, Mail!Settled
<1>4. /\ mark \in 0..(MaxTime + 1) /\ mark <= now + 1 /\ mark >= hwm[t]
      /\ turn[t].fresh # {} => mark >= turn[t].readAt + 1
      /\ mark = hwm[t] \/ (turn[t].fresh # {} /\ mark = turn[t].readAt + 1)
  <2>1. \A a, b \in Nat : Mail!Max({a, b}) = IF a >= b THEN a ELSE b
    BY DEF Mail!Max
  <2> QED BY <1>1, <1>3, <2>1, MailBounds
<1>5. Mail!NoTurn \in [on : BOOLEAN, readAt : 0..MaxTime, fresh : SUBSET Decisions]
      /\ ~Mail!NoTurn.on /\ Mail!NoTurn.fresh = {} /\ Mail!NoTurn.readAt = 0
  BY MailBounds DEF Mail!NoTurn
<1>6. Mail!TypeOK'
  BY <1>2, <1>3, <1>4, <1>5, RowsStay DEF MailIInv, Mail!TypeOK
<1>7. MarksAreBehind'
  BY <1>2, <1>3, <1>4, <1>5, RowsStay DEF MailIInv, MarksAreBehind
<1>8. TurnsShowWhatIsNew'
  BY <1>2, <1>3, <1>4, <1>5, RowsStay DEF MailIInv, TurnsShowWhatIsNew
<1>9. ShownIsMarked'
  BY <1>2, <1>3, <1>4, RowsStay DEF MailIInv, ShownIsMarked, TurnsShowWhatIsNew
<1>10. MailboxHasWoken'
  BY <1>2, <1>3, <1>5, MailBounds DEF MailIInv, MailboxHasWoken
<1>11. Mail!ResolutionsAreKept'
  <2>1. ASSUME NEW d \in Mail!Settled, row[d].at >= began, running, row[d].at < mark
        PROVE  d \in shown'[t] \cup missed'[t]
    <3>1. d \in shown[t] \cup missed[t] \/ row[d].at >= hwm[t]
      BY <2>1 DEF MailIInv, Mail!ResolutionsAreKept
    <3>0. row[d].at \in Nat /\ hwm[t] \in Nat /\ turn[t].readAt \in Nat /\ mark \in Nat
      BY <1>3, <1>4, MailBounds
    <3>2. CASE row[d].at >= hwm[t] /\ row[d].at < turn[t].readAt
      BY <1>2, <1>3, <3>2 DEF MailIInv, TurnsShowWhatIsNew
    <3>3. CASE row[d].at >= hwm[t] /\ row[d].at >= turn[t].readAt
      BY <1>2, <1>3, <1>4, <2>1, <3>3
    <3> QED BY <1>2, <1>3, <3>1, <3>2, <3>3
  <2> QED BY <1>2, <1>3, <1>4, <2>1, RowsStay DEF MailIInv, Mail!ResolutionsAreKept
<1>12. Mail!AnswersHaveAWake'
  BY <1>2, <1>3, RowsStay, MailBounds DEF MailIInv, Mail!AnswersHaveAWake
<1> QED BY <1>6, <1>7, <1>8, <1>9, <1>10, <1>11, <1>12 DEF MailIInv

LEMMA MailTurns ==
    ASSUME MailIInv, NEW t \in MailThreads, Mail!BeginTurn(t) \/ Mail!FailTurn(t)
    PROVE  MailIInv'
<1>1. CASE Mail!BeginTurn(t)
  <2>1. PICK u : u = [on |-> TRUE, readAt |-> now, fresh |-> Mail!Fresh(t)]
    OBVIOUS
  <2>2. turn' = [turn EXCEPT ![t] = u] /\ u.on /\ u.readAt = now /\ u.fresh = Mail!Fresh(t)
    BY <1>1, <2>1 DEF Mail!BeginTurn
  <2>3. u \in [on : BOOLEAN, readAt : 0..MaxTime, fresh : SUBSET Decisions]
    BY <2>1 DEF MailIInv, Mail!TypeOK, Mail!Fresh, Mail!Settled
  <2>4. /\ wokenFor' = wokenFor \cup (IF t = Mailbox THEN Mail!Fresh(t) ELSE {})
        /\ woken' \in BOOLEAN /\ (t # Mailbox => woken' = woken)
        /\ UNCHANGED <<row, unread, running, hwm, began, shown, pending, timer, now, restarts, missed>>
    BY <1>1 DEF Mail!BeginTurn, MailIInv, Mail!TypeOK
  <2>5. /\ now \in Nat /\ \A d \in Decisions : row[d].at \in Nat
        /\ \A s \in MailThreads : hwm[s] \in Nat
        /\ Mail!Settled \subseteq Decisions
    BY MailBounds DEF MailIInv, Mail!TypeOK, Mail!Settled
  <2>6. /\ turn' \in [MailThreads -> [on : BOOLEAN, readAt : 0..MaxTime, fresh : SUBSET Decisions]]
        /\ turn'[t] = u /\ \A s \in MailThreads \ {t} : turn'[s] = turn[s]
    BY <2>2, <2>3 DEF MailIInv, Mail!TypeOK
  <2>7. \A d \in Mail!Settled : d \in Mail!Fresh(t) <=> row[d].at >= hwm[t]
    BY DEF Mail!Fresh, MailIInv, MarksAreBehind
  <2>8. Mail!TypeOK' /\ MarksAreBehind'
    BY <2>2, <2>3, <2>4, <2>5, <2>6, RowsStay DEF MailIInv, Mail!TypeOK, MarksAreBehind, Mail!Fresh
  <2>9. TurnsShowWhatIsNew'
    BY <2>2, <2>4, <2>5, <2>6, RowsStay DEF MailIInv, TurnsShowWhatIsNew, Mail!Fresh
  <2>10. ShownIsMarked' /\ MailboxHasWoken' /\ Mail!ResolutionsAreKept'
    BY <2>2, <2>4, <2>6, RowsStay, MailBounds
       DEF MailIInv, ShownIsMarked, MailboxHasWoken, Mail!ResolutionsAreKept
  <2>11. Mail!AnswersHaveAWake'
    BY <2>4, <2>7, RowsStay, MailBounds
       DEF MailIInv, MailboxHasWoken, Mail!ResolutionsAreKept, Mail!AnswersHaveAWake
  <2> QED BY <2>8, <2>9, <2>10, <2>11 DEF MailIInv
<1>2. CASE Mail!FailTurn(t)
  <2>1. Mail!NoTurn \in [on : BOOLEAN, readAt : 0..MaxTime, fresh : SUBSET Decisions]
        /\ ~Mail!NoTurn.on /\ Mail!NoTurn.fresh = {} /\ Mail!NoTurn.readAt = 0
    BY MailBounds DEF Mail!NoTurn
  <2>2. /\ turn' \in [MailThreads -> [on : BOOLEAN, readAt : 0..MaxTime, fresh : SUBSET Decisions]]
        /\ turn'[t] = Mail!NoTurn /\ \A s \in MailThreads \ {t} : turn'[s] = turn[s]
    BY <1>2, <2>1 DEF Mail!FailTurn, MailIInv, Mail!TypeOK
  <2>3. UNCHANGED <<row, unread, running, hwm, began, shown, wokenFor, pending, timer, woken,
                    now, restarts, missed>>
    BY <1>2 DEF Mail!FailTurn, Mail!wakeVars
  <2>4. now \in Nat
    BY MailBounds DEF MailIInv, Mail!TypeOK
  <2>5. Mail!TypeOK' /\ MarksAreBehind'
    BY <2>1, <2>2, <2>3, <2>4, RowsStay DEF MailIInv, Mail!TypeOK, MarksAreBehind
  <2>6. TurnsShowWhatIsNew' /\ ShownIsMarked' /\ MailboxHasWoken'
    BY <2>1, <2>2, <2>3, RowsStay, MailBounds
       DEF MailIInv, TurnsShowWhatIsNew, ShownIsMarked, MailboxHasWoken
  <2>7. Mail!ResolutionsAreKept' /\ Mail!AnswersHaveAWake'
    BY <2>3, RowsStay DEF MailIInv, Mail!ResolutionsAreKept, Mail!AnswersHaveAWake
  <2> QED BY <2>5, <2>6, <2>7 DEF MailIInv
<1> QED BY <1>1, <1>2

LEMMA MailLoop ==
    ASSUME MailIInv, Mail!FlushMailWake \/ Mail!Stop \/ Mail!Tick \/ Mail!Restart
    PROVE  MailIInv'
<1>0. /\ now \in 0..MaxTime /\ began \in 0..MaxTime /\ \A d \in Decisions : row[d].at \in Nat
      /\ \A t \in MailThreads : hwm[t] \in Nat /\ turn[t].readAt \in Nat
      /\ Mail!Settled \subseteq Decisions
  BY MailBounds DEF MailIInv, Mail!TypeOK, Mail!Settled
<1>1. CASE Mail!FlushMailWake
  BY <1>1, RowsStay DEF Mail!FlushMailWake, Mail!loopVars, MailIInv, Mail!TypeOK, MarksAreBehind,
     TurnsShowWhatIsNew, ShownIsMarked, MailboxHasWoken, Mail!ResolutionsAreKept, Mail!AnswersHaveAWake
<1>2. CASE Mail!Stop
  BY <1>2, RowsStay DEF Mail!Stop, MailIInv, Mail!TypeOK, MarksAreBehind,
     TurnsShowWhatIsNew, ShownIsMarked, MailboxHasWoken, Mail!ResolutionsAreKept, Mail!AnswersHaveAWake
<1>3. CASE Mail!Tick
  BY <1>0, <1>3, RowsStay, MailBounds DEF Mail!Tick, Mail!loopVars, Mail!wakeVars,
     MailIInv, Mail!TypeOK, MarksAreBehind,
     TurnsShowWhatIsNew, ShownIsMarked, MailboxHasWoken, Mail!ResolutionsAreKept, Mail!AnswersHaveAWake
<1>4. CASE Mail!Restart
  <2>1. Mail!NoTurn \in [on : BOOLEAN, readAt : 0..MaxTime, fresh : SUBSET Decisions]
        /\ ~Mail!NoTurn.on /\ Mail!NoTurn.fresh = {} /\ Mail!NoTurn.readAt = 0
    BY MailBounds DEF Mail!NoTurn
  <2>2. /\ now' = now + 1 /\ now' \in 0..MaxTime /\ began' = now'
        /\ \A d \in Mail!Settled : ~(row[d].at >= began')
    BY <1>0, <1>4, MailBounds DEF Mail!Restart, MailIInv, MarksAreBehind
  <2>3. Mail!TypeOK'
    <3>1. now' \in 0..(MaxTime + 1) /\ {now', began'} \subseteq 0..MaxTime
      BY <2>2, MailBounds
    <3>2. turn' \in [MailThreads -> [on : BOOLEAN, readAt : 0..MaxTime, fresh : SUBSET Decisions]]
      BY <1>4, <2>1 DEF Mail!Restart
    <3> QED BY <1>4, <3>1, <3>2, RowsStay DEF Mail!Restart, MailIInv, Mail!TypeOK
  <2>4. MarksAreBehind'
    BY <1>0, <1>4, <2>1, <2>2, RowsStay, MailBounds DEF Mail!Restart, MailIInv, MarksAreBehind
  <2> QED BY <1>4, <2>1, <2>2, <2>3, <2>4, RowsStay, MailBounds
          DEF Mail!Restart, MailIInv, TurnsShowWhatIsNew, ShownIsMarked,
              MailboxHasWoken, Mail!ResolutionsAreKept, Mail!AnswersHaveAWake
<1> QED BY <1>1, <1>2, <1>3, <1>4

LEMMA MailNext == MailIInv /\ [Mail!Next]_(Mail!vars) => MailIInv'
<1> SUFFICES ASSUME MailIInv, [Mail!Next]_(Mail!vars) PROVE MailIInv'
  OBVIOUS
<1>1. CASE UNCHANGED Mail!vars
  BY <1>1, RowsStay DEF Mail!vars, MailIInv, Mail!TypeOK, MarksAreBehind, TurnsShowWhatIsNew,
     ShownIsMarked, MailboxHasWoken, Mail!ResolutionsAreKept, Mail!AnswersHaveAWake
<1> QED BY <1>1, MailInbox, MailEndsTurn, MailTurns, MailLoop DEF Mail!Next

\* The answer to an ask is not lost to a thread, is not shown twice to it, and
\* wakes the proposer, for any decisions, threads, deadlines, stretch of time
\* and number of restarts (agent/chat.ts:337-366, 504-552, 1178-1184).
THEOREM AnswersComeBack == AgentSpec => []AnswersArrive
<1>1. MailIInv => AnswersArrive
  <2> SUFFICES ASSUME MailIInv, NEW t \in MailThreads, NEW d \in turn[t].fresh \cap shown[t]
               PROVE  FALSE
    BY DEF MailIInv, AnswersArrive, Mail!ShownOnce
  <2>1. hwm[t] <= row[d].at /\ row[d].at < hwm[t] /\ d \in Decisions
    BY DEF MailIInv, TurnsShowWhatIsNew, ShownIsMarked, Mail!Settled
  <2>2. hwm[t] \in Int /\ row[d].at \in Int
    BY <2>1, MailBounds DEF MailIInv, Mail!TypeOK
  <2> QED BY <2>1, <2>2
<1> QED BY <1>1, MailInit, MailNext, AgentsGetMail, PTL

----------------------------------------------------------------------------
(* The chat loop *)

LEMMA LoopStays == AgentSpec => []LoopIInv
<1>1. AgentInit => LoopIInv
  BY LoopBegins DEF AgentInit
<1>2. LoopIInv /\ [AgentNext]_agentVars => LoopIInv'
  <2>1. [AgentNext]_agentVars => [Next]_vars
    BY DEF AgentNext, LoopStep, AuthorityStep, MailStep, CliStep, MemoryStep, agentVars
  <2> QED BY <2>1, LoopGoesOn
<1> QED BY <1>1, <1>2, PTL DEF AgentSpec

\* At most Retention completed fresh jobs are kept, and what waits without a
\* worker came after its worker's last look, for any threads, inputs and order
\* of completion (agent/chat.ts:324-422).
THEOREM ThreadsKept == AgentSpec => []ThreadsAreKept
<1>1. LoopIInv => ThreadsAreKept
  BY RetentionBounded, WaitersServed DEF ThreadsAreKept
<1> QED BY <1>1, LoopStays, PTL

\* Every input reaches the model's history once, those for turns of their own
\* in order, and every call of a tool is followed by its result, for any
\* interleaving of threads, folded input, failures and cancels
\* (agent/chat.ts:437-934, agent/runtime.ts:133-280).
THEOREM HistoriesSound == AgentSpec => []HistoryIsSound
<1>1. LoopIInv => HistoryIsSound
  BY HistoriesTell DEF HistoryIsSound
<1> QED BY <1>1, LoopStays, PTL

\* No round that was served is lost to the budget, and concurrent turns
\* overdraw it by less than MaxRounds each, for any budget, threads and limit;
\* with it the types of the loop, the authority and the mail
\* (agent/chat.ts:437-934).
THEOREM SpendKept == AgentSpec => []SpendIsKept
<1>1. LoopIInv /\ AuthorityIInv /\ MailIInv => SpendIsKept
  BY OverspendBounded DEF LoopIInv, AuthorityIInv, MailIInv, SpendIsKept
<1>2. AgentSpec => []AuthorityIInv
  BY AuthorityInit, AuthorityNext, AgentsDelegate, PTL
<1>3. AgentSpec => []MailIInv
  BY MailInit, MailNext, AgentsGetMail, PTL
<1> QED BY <1>1, <1>2, <1>3, LoopStays, PTL

----------------------------------------------------------------------------
(* Turns of a harness *)

LEMMA AgentsRunHarness == AgentSpec => Cli!Init /\ [][Cli!Next]_(Cli!cliVars)
<1>1. AgentInit => Cli!Init
  BY DEF AgentInit
<1>2. [AgentNext]_agentVars => [Cli!Next]_(Cli!cliVars)
  BY DEF AgentNext, agentVars, LoopStep, AuthorityStep, MailStep, CliStep, MemoryStep,
         cliVars, Cli!cliVars
<1> QED BY <1>1, <1>2, PTL DEF AgentSpec

CliSeq == Seq(Cli!CliMessage)

\* The messages are of inputs up to n.
Until(s, n) == \A k \in DOMAIN s : s[k][2] <= n

Without(s, m) == \A k \in DOMAIN s : s[k] # m

LEMMA Appended ==
    ASSUME NEW s \in CliSeq, NEW m \in Cli!CliMessage
    PROVE  /\ Append(s, m) \in CliSeq
           /\ \E n \in Nat : /\ DOMAIN s = 1..n /\ DOMAIN Append(s, m) = 1..(n + 1)
                             /\ \A k \in 1..n : Append(s, m)[k] = s[k]
                             /\ Append(s, m)[n + 1] = m
<1>1. PICK n \in Nat : n = Len(s)
  BY DEF CliSeq
<1>2. DOMAIN s = 1..n /\ DOMAIN Append(s, m) = 1..(n + 1)
  BY <1>1 DEF CliSeq
<1>3. /\ \A k \in 1..n : Append(s, m)[k] = s[k]
      /\ Append(s, m)[n + 1] = m
  BY <1>1 DEF CliSeq
<1> QED BY <1>2, <1>3 DEF CliSeq

LEMMA WithinGrows ==
    ASSUME NEW xs \in CliSeq, NEW ys \in CliSeq, NEW m \in Cli!CliMessage,
           Cli!Within(xs, ys), Without(xs, m)
    PROVE  Cli!Within(xs, Append(ys, m))
<1>1. PICK z : z = Append(ys, m)
  OBVIOUS
<1>2. PICK n \in Nat : /\ DOMAIN ys = 1..n /\ DOMAIN z = 1..(n + 1)
                       /\ \A k \in 1..n : z[k] = ys[k]
                       /\ z[n + 1] = m
  BY <1>1, Appended
<1>3. \A j \in DOMAIN xs : \E i \in DOMAIN z : z[i] = xs[j]
  BY <1>2 DEF Cli!Within
<1>4. \A i \in DOMAIN z, j \in DOMAIN xs : z[i] = xs[j] => i \in DOMAIN ys /\ ys[i] = xs[j]
  BY <1>2 DEF Without
<1>5. \A j \in DOMAIN xs, i \in DOMAIN z : z[i] = xs[j] =>
          \A k \in DOMAIN xs, l \in DOMAIN z : z[l] = xs[k] => (j < k <=> i < l)
  BY <1>4 DEF Cli!Within
<1> QED BY <1>1, <1>3, <1>5 DEF Cli!Within

LEMMA WithinBoth ==
    ASSUME NEW xs \in CliSeq, NEW ys \in CliSeq, NEW m \in Cli!CliMessage,
           Cli!Within(xs, ys), Without(ys, m)
    PROVE  Cli!Within(Append(xs, m), Append(ys, m))
<1>1. PICK x, z : x = Append(xs, m) /\ z = Append(ys, m)
  OBVIOUS
<1>2. PICK n \in Nat : /\ DOMAIN ys = 1..n /\ DOMAIN z = 1..(n + 1)
                       /\ \A k \in 1..n : z[k] = ys[k]
                       /\ z[n + 1] = m
  BY <1>1, Appended
<1>3. PICK p \in Nat : /\ DOMAIN xs = 1..p /\ DOMAIN x = 1..(p + 1)
                       /\ \A k \in 1..p : x[k] = xs[k]
                       /\ x[p + 1] = m
  BY <1>1, Appended
<1>4. \A k \in 1..n : ys[k] # m
  BY <1>2 DEF Without
<1>5. \A k \in 1..p : xs[k] # m
  BY <1>2, <1>3, <1>4 DEF Cli!Within
<1>6. ASSUME NEW j \in 1..(p + 1), NEW i \in 1..(n + 1), z[i] = x[j]
      PROVE  (j = p + 1 /\ i = n + 1) \/ (j \in 1..p /\ i \in 1..n /\ ys[i] = xs[j])
  <2>1. j = p + 1 \/ j \in 1..p
    OBVIOUS
  <2>2. i = n + 1 \/ i \in 1..n
    OBVIOUS
  <2> QED BY <1>2, <1>3, <1>4, <1>5, <1>6, <2>1, <2>2
<1>7. \A j \in DOMAIN x : \E i \in DOMAIN z : z[i] = x[j]
  <2> SUFFICES ASSUME NEW j \in 1..(p + 1) PROVE \E i \in 1..(n + 1) : z[i] = x[j]
    BY <1>2, <1>3
  <2>1. CASE j = p + 1
    <3>1. n + 1 \in 1..(n + 1)
      OBVIOUS
    <3> QED BY <1>2, <1>3, <2>1, <3>1
  <2>2. CASE j \in 1..p
    <3>1. PICK i \in 1..n : ys[i] = xs[j]
      BY <1>2, <1>3, <2>2 DEF Cli!Within
    <3>2. i \in 1..(n + 1)
      OBVIOUS
    <3> QED BY <1>2, <1>3, <2>2, <3>1, <3>2
  <2> QED BY <2>1, <2>2
<1>8. ASSUME NEW j \in 1..(p + 1), NEW i \in 1..(n + 1), z[i] = x[j],
             NEW k \in 1..(p + 1), NEW l \in 1..(n + 1), z[l] = x[k]
      PROVE  j < k <=> i < l
  <2>1. (j = p + 1 /\ i = n + 1) \/ (j \in 1..p /\ i \in 1..n /\ ys[i] = xs[j])
    BY <1>6, <1>8
  <2>2. (k = p + 1 /\ l = n + 1) \/ (k \in 1..p /\ l \in 1..n /\ ys[l] = xs[k])
    BY <1>6, <1>8
  <2>3. CASE j \in 1..p /\ i \in 1..n /\ ys[i] = xs[j] /\ k \in 1..p /\ l \in 1..n /\ ys[l] = xs[k]
    BY <1>2, <1>3, <2>3 DEF Cli!Within
  <2> QED BY <2>1, <2>2, <2>3
<1>9. \A j \in DOMAIN x, i \in DOMAIN z : z[i] = x[j] =>
          \A k \in DOMAIN x, l \in DOMAIN z : z[l] = x[k] => (j < k <=> i < l)
  BY <1>2, <1>3, <1>8
<1> QED BY <1>1, <1>7, <1>9 DEF Cli!Within

LEMMA UntilGrows ==
    ASSUME NEW s \in CliSeq, NEW m \in Cli!CliMessage, NEW n \in Nat
    PROVE  /\ Until(s, n) /\ m[2] <= n => Until(Append(s, m), n)
           /\ Until(s, n) => \A l \in Nat : n <= l => Until(s, l)
           /\ Until(s, n) /\ n < m[2] => Without(s, m)
<1>1. PICK k \in Nat : /\ DOMAIN s = 1..k /\ DOMAIN Append(s, m) = 1..(k + 1)
                       /\ \A i \in 1..k : Append(s, m)[i] = s[i]
                       /\ Append(s, m)[k + 1] = m
  BY Appended
<1>2. \A i \in 1..k : s[i][2] \in Nat
  BY <1>1 DEF CliSeq, Cli!CliMessage
<1>3. m[2] \in Nat
  BY DEF Cli!CliMessage
<1>4. Until(s, n) /\ m[2] <= n => Until(Append(s, m), n)
  BY <1>1 DEF Until
<1>5. Until(s, n) => \A l \in Nat : n <= l => Until(s, l)
  BY <1>1, <1>2 DEF Until
<1>6. Until(s, n) /\ n < m[2] => Without(s, m)
  BY <1>1, <1>2, <1>3 DEF Until, Without
<1> QED BY <1>4, <1>5, <1>6

LEMMA CliMessages ==
    /\ \A i \in Nat : /\ Cli!User(i) \in Cli!CliMessage /\ Cli!User(i)[2] = i
                      /\ Cli!Reply(i) \in Cli!CliMessage /\ Cli!Reply(i)[2] = i
                      /\ Cli!User(i) # Cli!Reply(i)
    /\ Cli!Gone \in CliSeq /\ \A n \in Nat : Until(Cli!Gone, n)
    /\ <<>> \in CliSeq /\ \A n : Until(<<>>, n)
    /\ Cli!Within(<<>>, <<>>)
BY DEF Cli!User, Cli!Reply, Cli!CliMessage, Cli!Gone, CliSeq, Until, Cli!Within

\* A session was forgotten, or has it all.
Holds(xs, ys) == ys = Cli!Gone \/ Cli!Within(xs, ys)

TurnShape ==
    [phase : {"idle", "running"}, input : Nat, context : CliSeq,
     said : SUBSET {"init", "text", "done", "error"}, reported : {0} \cup Cli!SessionIds]

\* What a session has after what its turn wrote.
SessionNow(turn2) ==
    IF turn2.said \cap {"text", "done"} = {}
    THEN Append(turn2.context, Cli!User(turn2.input))
    ELSE Append(Append(turn2.context, Cli!User(turn2.input)), Cli!Reply(turn2.input))

\* The running turn of a thread saw it all; its prompt is the last of the
\* history, and its session goes on with the prompt.
TurnKept(turn2, hist, comp, har) ==
    /\ Until(comp, turn2.input - 1) /\ Until(turn2.context, turn2.input - 1)
    /\ Holds(comp, turn2.context)
    /\ \E h \in CliSeq : /\ hist = Append(h, Cli!User(turn2.input))
                         /\ Until(h, turn2.input - 1) /\ Cli!Within(comp, h)
    /\ turn2.reported # 0 => turn2.context # Cli!Gone /\ har[turn2.reported] = SessionNow(turn2)

\* A thread whose history, snapshot and session have all its successful
\* turns, after n inputs.
ThreadKept(turn2, hist, snap, comp, sess, har, n) ==
    /\ turn2 \in TurnShape /\ {hist, snap, comp} \subseteq CliSeq /\ sess \in {0} \cup Cli!SessionIds
    /\ Until(hist, n) /\ Until(snap, n) /\ Until(comp, n)
    /\ Cli!Within(comp, hist) /\ Cli!Within(comp, snap)
    /\ sess # 0 => Holds(comp, har[sess])
    /\ turn2.phase = "idle" => turn2.reported = 0
    /\ turn2.phase = "running" => turn2.input \in 1..n /\ TurnKept(turn2, hist, comp, har)

HarnessKept(har, n) ==
    har \in [Cli!SessionIds -> CliSeq] /\ \A s \in Cli!SessionIds : Until(har[s], n)

LEMMA CliBounds == MaxSessions \in Nat /\ Cli!SessionIds = 1..MaxSessions /\ 0 \notin Cli!SessionIds
BY PartsAssumption DEF Cli!CliAssumption, Cli!SessionIds

LEMMA NoTurnShape ==
    Cli!NoTurn \in TurnShape /\ Cli!NoTurn.phase = "idle" /\ Cli!NoTurn.reported = 0
BY CliMessages DEF Cli!NoTurn, TurnShape

\* What others do to a thread.
LEMMA KeptApart ==
    ASSUME NEW turn2, NEW hist, NEW snap, NEW comp, NEW sess, NEW har, NEW n \in Nat,
           ThreadKept(turn2, hist, snap, comp, sess, har, n),
           NEW har2, NEW l \in Nat, n <= l,
           sess # 0 => har2[sess] \in {har[sess], Cli!Gone},
           turn2.reported # 0 => har2[turn2.reported] = har[turn2.reported]
    PROVE  ThreadKept(turn2, hist, snap, comp, sess, har2, l)
<1>1. Until(hist, l) /\ Until(snap, l) /\ Until(comp, l)
  <2>1. PICK m : m = Cli!User(0)
    OBVIOUS
  <2>2. m \in Cli!CliMessage
    BY <2>1, CliMessages
  <2> QED BY <2>2, UntilGrows DEF ThreadKept
<1>2. sess # 0 => Holds(comp, har2[sess])
  BY DEF ThreadKept, Holds
<1>3. turn2.phase = "running" => turn2.input \in 1..l /\ TurnKept(turn2, hist, comp, har2)
  BY DEF ThreadKept, TurnKept
<1> QED BY <1>1, <1>2, <1>3 DEF ThreadKept

\* A turn starts.
StartedTurn(turn2, hist, sess, har, n) ==
    [phase |-> "running", input |-> n + 1, context |-> IF sess # 0 THEN har[sess] ELSE hist,
     said |-> {}, reported |-> 0]

LEMMA StartKeeps ==
    ASSUME NEW turn2, NEW hist, NEW snap, NEW comp, NEW sess, NEW har, NEW n \in Nat,
           ThreadKept(turn2, hist, snap, comp, sess, har, n), HarnessKept(har, n)
    PROVE  ThreadKept(StartedTurn(turn2, hist, sess, har, n), Append(hist, Cli!User(n + 1)), snap,
                      comp, sess, har, n + 1)
<1>1. /\ {hist, snap, comp} \subseteq CliSeq /\ sess \in {0} \cup Cli!SessionIds
      /\ Until(hist, n) /\ Until(snap, n) /\ Until(comp, n)
      /\ Cli!Within(comp, hist) /\ Cli!Within(comp, snap)
      /\ sess # 0 => Holds(comp, har[sess])
  BY DEF ThreadKept
<1>2. PICK m : m = Cli!User(n + 1)
  OBVIOUS
<1>3. m \in Cli!CliMessage /\ m[2] = n + 1 /\ m = Cli!User(n + 1)
  BY <1>2, CliMessages
<1>4. PICK new : new = StartedTurn(turn2, hist, sess, har, n)
  OBVIOUS
<1>5. /\ new.context \in CliSeq /\ Until(new.context, n) /\ Holds(comp, new.context)
      /\ new \in TurnShape /\ new.input = n + 1 /\ new.reported = 0 /\ new.phase = "running"
  <2>1. new = [phase |-> "running", input |-> n + 1,
               context |-> IF sess # 0 THEN har[sess] ELSE hist, said |-> {}, reported |-> 0]
    BY <1>4 DEF StartedTurn
  <2>2. new.context = IF sess # 0 THEN har[sess] ELSE hist
    BY <2>1
  <2>3. new.context \in CliSeq /\ Until(new.context, n) /\ Holds(comp, new.context)
    BY <1>1, <2>2 DEF HarnessKept, Holds
  <2> QED BY <2>1, <2>2, <2>3 DEF TurnShape
<1>6. PICK h : h = Append(hist, m)
  OBVIOUS
<1>7. h \in CliSeq /\ Until(h, n + 1) /\ Cli!Within(comp, h)
  <2>1. Without(comp, m) /\ Until(hist, n + 1)
    BY <1>1, <1>3, UntilGrows
  <2>2. h \in CliSeq
    BY <1>1, <1>3, <1>6, Appended
  <2>3. n + 1 \in Nat /\ m[2] <= n + 1
    BY <1>3
  <2>4. Until(h, n + 1)
    BY <1>1, <1>3, <1>6, <2>1, <2>3, UntilGrows
  <2>5. Cli!Within(comp, h)
    BY <1>1, <1>3, <1>6, <2>1, WithinGrows
  <2> QED BY <2>2, <2>4, <2>5
<1>8. Until(snap, n + 1) /\ Until(comp, n + 1)
  BY <1>1, <1>3, UntilGrows
<1>9. TurnKept(new, h, comp, har)
  <2>1. new.input - 1 = n
    BY <1>5
  <2>2. \E h0 \in CliSeq : h = Append(h0, Cli!User(new.input)) /\ Until(h0, new.input - 1)
                                /\ Cli!Within(comp, h0)
    BY <1>1, <1>2, <1>5, <1>6, <2>1
  <2> QED BY <1>1, <1>5, <2>1, <2>2 DEF TurnKept
<1> QED BY <1>1, <1>2, <1>4, <1>5, <1>6, <1>7, <1>8, <1>9 DEF ThreadKept

\* What a running turn needs of its thread, with its messages.
LEMMA Running ==
    ASSUME NEW turn2, NEW hist, NEW snap, NEW comp, NEW sess, NEW har, NEW n \in Nat,
           ThreadKept(turn2, hist, snap, comp, sess, har, n), turn2.phase = "running"
    PROVE  \E i, u, r :
              /\ i \in 1..n /\ i = turn2.input /\ u = Cli!User(i) /\ r = Cli!Reply(i)
              /\ u \in Cli!CliMessage /\ r \in Cli!CliMessage /\ u[2] = i /\ r[2] = i /\ u # r
              /\ Until(comp, i - 1) /\ Until(turn2.context, i - 1)
              /\ Without(comp, u) /\ Without(comp, r)
              /\ turn2 \in TurnShape /\ turn2.context \in CliSeq /\ turn2.input \in Nat
              /\ {hist, snap, comp} \subseteq CliSeq /\ sess \in {0} \cup Cli!SessionIds
<1>1. /\ turn2 \in TurnShape /\ turn2.input \in 1..n /\ TurnKept(turn2, hist, comp, har)
      /\ {hist, snap, comp} \subseteq CliSeq /\ sess \in {0} \cup Cli!SessionIds
  BY DEF ThreadKept
<1>2. PICK i : i = turn2.input
  OBVIOUS
<1>3. i \in 1..n /\ i \in Nat /\ i - 1 \in Nat /\ i - 1 < i
  BY <1>1, <1>2
<1>4. PICK u, r : u = Cli!User(i) /\ r = Cli!Reply(i)
  OBVIOUS
<1>5. u \in Cli!CliMessage /\ r \in Cli!CliMessage /\ u[2] = i /\ r[2] = i /\ u # r
  BY <1>3, <1>4, CliMessages
<1>6. Until(comp, i - 1) /\ Until(turn2.context, i - 1)
  BY <1>1, <1>2 DEF TurnKept
<1>7. Without(comp, u) /\ Without(comp, r)
  BY <1>1, <1>3, <1>5, <1>6, UntilGrows
<1>8. turn2.context \in CliSeq
  BY <1>1 DEF TurnShape
<1> QED BY <1>1, <1>2, <1>3, <1>4, <1>5, <1>6, <1>7, <1>8

\* The harness names a session, and the prompt is in it.
Named(turn2, s) == [turn2 EXCEPT !.said = {"init"}, !.reported = s]
Asked(har, s, turn2) == [har EXCEPT ![s] = Append(turn2.context, Cli!User(turn2.input))]

LEMMA NamingKeeps ==
    ASSUME NEW turn2, NEW hist, NEW snap, NEW comp, NEW sess, NEW har, NEW n \in Nat,
           ThreadKept(turn2, hist, snap, comp, sess, har, n), HarnessKept(har, n),
           turn2.phase = "running", turn2.said = {}, turn2.context # Cli!Gone,
           NEW s \in Cli!SessionIds
    PROVE  /\ ThreadKept(Named(turn2, s), hist, snap, comp, sess, Asked(har, s, turn2), n)
           /\ HarnessKept(Asked(har, s, turn2), n)
<1>0. PICK new, har2 : /\ new = [turn2 EXCEPT !.said = {"init"}, !.reported = s]
                       /\ har2 = [har EXCEPT ![s] = Append(turn2.context, Cli!User(turn2.input))]
  OBVIOUS
<1>1. PICK i, u, r :
              /\ i \in 1..n /\ i = turn2.input /\ u = Cli!User(i) /\ r = Cli!Reply(i)
              /\ u \in Cli!CliMessage /\ r \in Cli!CliMessage /\ u[2] = i /\ r[2] = i /\ u # r
              /\ Until(comp, i - 1) /\ Until(turn2.context, i - 1)
              /\ Without(comp, u) /\ Without(comp, r)
              /\ turn2 \in TurnShape /\ turn2.context \in CliSeq /\ turn2.input \in Nat
              /\ {hist, snap, comp} \subseteq CliSeq /\ sess \in {0} \cup Cli!SessionIds
  BY Running
<1>2. PICK asked : asked = Append(turn2.context, u)
  OBVIOUS
<1>3. asked \in CliSeq /\ Until(asked, n)
  <2>1. i - 1 \in Nat /\ i - 1 <= n /\ i <= n
    BY <1>1
  <2>2. Until(turn2.context, n)
    BY <1>1, <2>1, UntilGrows
  <2> QED BY <1>1, <1>2, <2>1, <2>2, UntilGrows, Appended
<1>4. Holds(comp, turn2.context) /\ Cli!Within(comp, turn2.context)
  BY DEF ThreadKept, TurnKept, Holds
<1>5. Cli!Within(comp, asked)
  BY <1>1, <1>2, <1>4, WithinGrows
<1>6. /\ har2 \in [Cli!SessionIds -> CliSeq] /\ har2[s] = asked
      /\ \A z \in Cli!SessionIds \ {s} : har2[z] = har[z]
  BY <1>0, <1>1, <1>2, <1>3 DEF HarnessKept
<1>7. HarnessKept(har2, n)
  BY <1>3, <1>6 DEF HarnessKept
<1>8. sess # 0 => Holds(comp, har2[sess])
  BY <1>1, <1>5, <1>6 DEF ThreadKept, Holds
<1>9. /\ new \in TurnShape /\ new.said = {"init"} /\ new.reported = s /\ new.context = turn2.context
      /\ new.input = turn2.input /\ new.phase = "running"
  BY <1>0, <1>1 DEF TurnShape
<1>10. SessionNow(new) = asked
  BY <1>1, <1>2, <1>9 DEF SessionNow
<1>11. TurnKept(new, hist, comp, har2)
  BY <1>6, <1>9, <1>10 DEF TurnKept, ThreadKept
<1>12. ThreadKept(new, hist, snap, comp, sess, har2, n)
  BY <1>8, <1>9, <1>11, CliBounds DEF ThreadKept
<1> QED BY <1>0, <1>7, <1>12 DEF Named, Asked

\* The harness answers: the first line that does is in the session.
Said(turn2, line) == [turn2 EXCEPT !.said = @ \cup {line}]
Told(har, turn2) ==
    IF turn2.reported # 0 /\ turn2.said \cap {"text"} = {}
    THEN [har EXCEPT ![turn2.reported] = Append(@, Cli!Reply(turn2.input))]
    ELSE har

LEMMA AnswerKeeps ==
    ASSUME NEW turn2, NEW hist, NEW snap, NEW comp, NEW sess, NEW har, NEW n \in Nat,
           ThreadKept(turn2, hist, snap, comp, sess, har, n), HarnessKept(har, n),
           turn2.phase = "running", NEW line \in {"text", "done"},
           line \notin turn2.said, "done" \notin turn2.said
    PROVE  /\ ThreadKept(Said(turn2, line), hist, snap, comp, sess, Told(har, turn2), n)
           /\ HarnessKept(Told(har, turn2), n)
<1>0. PICK new, har2 :
          /\ new = [turn2 EXCEPT !.said = @ \cup {line}]
          /\ har2 = IF turn2.reported # 0 /\ turn2.said \cap {"text"} = {}
                    THEN [har EXCEPT ![turn2.reported] = Append(@, Cli!Reply(turn2.input))]
                    ELSE har
  OBVIOUS
<1> SUFFICES ThreadKept(new, hist, snap, comp, sess, har2, n) /\ HarnessKept(har2, n)
  BY <1>0 DEF Said, Told
<1>1. PICK i, u, r :
              /\ i \in 1..n /\ i = turn2.input /\ u = Cli!User(i) /\ r = Cli!Reply(i)
              /\ u \in Cli!CliMessage /\ r \in Cli!CliMessage /\ u[2] = i /\ r[2] = i /\ u # r
              /\ Until(comp, i - 1) /\ Until(turn2.context, i - 1)
              /\ Without(comp, u) /\ Without(comp, r)
              /\ turn2 \in TurnShape /\ turn2.context \in CliSeq /\ turn2.input \in Nat
              /\ {hist, snap, comp} \subseteq CliSeq /\ sess \in {0} \cup Cli!SessionIds
  BY Running
<1>2. /\ new \in TurnShape /\ new.said = turn2.said \cup {line} /\ new.reported = turn2.reported
      /\ new.context = turn2.context /\ new.input = turn2.input /\ new.phase = "running"
  BY <1>0, <1>1 DEF TurnShape
<1>3. PICK s : s = turn2.reported
  OBVIOUS
<1>4. s \in {0} \cup Cli!SessionIds
  BY <1>1, <1>3 DEF TurnShape
<1>5. TurnKept(turn2, hist, comp, har)
  BY DEF ThreadKept
<1>6. CASE s # 0 /\ turn2.said \cap {"text"} = {}
  <2>1. turn2.said \cap {"text", "done"} = {} /\ new.said \cap {"text", "done"} # {}
    BY <1>2, <1>6
  <2>2. PICK asked, told : asked = Append(turn2.context, u) /\ told = Append(asked, r)
    OBVIOUS
  <2>3. har[s] = asked /\ SessionNow(new) = told
    BY <1>1, <1>2, <1>3, <1>5, <1>6, <2>1, <2>2 DEF TurnKept, SessionNow
  <2>4. asked \in CliSeq /\ told \in CliSeq
    BY <1>1, <2>2, Appended
  <2>5. Until(told, n)
    <3>1. Until(asked, n) /\ i <= n
      BY <1>1, <1>4, <1>6, <2>3 DEF HarnessKept
    <3> QED BY <1>1, <2>2, <2>4, <3>1, UntilGrows
  <2>6. Cli!Within(comp, told)
    <3>1. Cli!Within(comp, turn2.context)
      BY <1>3, <1>5, <1>6 DEF TurnKept, Holds
    <3>2. Cli!Within(comp, asked)
      BY <1>1, <2>2, <3>1, WithinGrows
    <3> QED BY <1>1, <2>2, <2>4, <3>2, WithinGrows
  <2>7. /\ har2 \in [Cli!SessionIds -> CliSeq] /\ har2[s] = told
        /\ \A z \in Cli!SessionIds \ {s} : har2[z] = har[z]
    BY <1>0, <1>1, <1>3, <1>4, <1>6, <2>2, <2>3, <2>4 DEF HarnessKept
  <2>8. HarnessKept(har2, n)
    BY <2>5, <2>7 DEF HarnessKept
  <2>9. sess # 0 => Holds(comp, har2[sess])
    BY <1>1, <2>6, <2>7 DEF ThreadKept, Holds
  <2>10. TurnKept(new, hist, comp, har2)
    BY <1>2, <1>3, <1>5, <2>3, <2>7 DEF TurnKept
  <2> QED BY <1>2, <2>8, <2>9, <2>10 DEF ThreadKept
<1>7. CASE ~(s # 0 /\ turn2.said \cap {"text"} = {})
  <2>1. har2 = har
    BY <1>0, <1>3, <1>7
  <2>2. s # 0 => SessionNow(new) = SessionNow(turn2)
    BY <1>2, <1>7 DEF SessionNow
  <2>3. TurnKept(new, hist, comp, har2)
    BY <1>2, <1>3, <1>5, <2>1, <2>2 DEF TurnKept
  <2> QED BY <1>2, <2>1, <2>3 DEF ThreadKept
<1> QED BY <1>6, <1>7

LEMMA ErrorKeeps ==
    ASSUME NEW turn2, NEW hist, NEW snap, NEW comp, NEW sess, NEW har, NEW n \in Nat,
           ThreadKept(turn2, hist, snap, comp, sess, har, n), turn2.phase = "running"
    PROVE  ThreadKept(Said(turn2, "error"), hist, snap, comp, sess, har, n)
<1>0. PICK new : new = [turn2 EXCEPT !.said = @ \cup {"error"}]
  OBVIOUS
<1>1. turn2 \in TurnShape /\ TurnKept(turn2, hist, comp, har)
  BY DEF ThreadKept
<1>2. /\ new \in TurnShape /\ new.said = turn2.said \cup {"error"} /\ new.reported = turn2.reported
      /\ new.context = turn2.context /\ new.input = turn2.input /\ new.phase = "running"
  BY <1>0, <1>1 DEF TurnShape
<1>3. SessionNow(new) = SessionNow(turn2)
  BY <1>2 DEF SessionNow
<1>4. TurnKept(new, hist, comp, har)
  BY <1>1, <1>2, <1>3 DEF TurnKept
<1>5. ThreadKept(new, hist, snap, comp, sess, har, n)
  BY <1>2, <1>4 DEF ThreadKept
<1> QED BY <1>0, <1>5 DEF Said

\* A turn succeeds, with or without an answer.
AnswerOf(turn2) ==
    IF turn2.said \cap {"text", "done"} # {} THEN <<Cli!Reply(turn2.input)>> ELSE <<>>

LEMMA SuccessKeeps ==
    ASSUME NEW turn2, NEW hist, NEW snap, NEW comp, NEW sess, NEW har, NEW n \in Nat,
           ThreadKept(turn2, hist, snap, comp, sess, har, n), HarnessKept(har, n),
           turn2.phase = "running",
           NEW hist2, hist2 = hist \o AnswerOf(turn2),
           NEW comp2, comp2 = comp \o <<Cli!User(turn2.input)>> \o AnswerOf(turn2)
    PROVE  ThreadKept(Cli!NoTurn, hist2, hist2, comp2, turn2.reported, har, n)
<1>1. PICK i, u, r :
              /\ i \in 1..n /\ i = turn2.input /\ u = Cli!User(i) /\ r = Cli!Reply(i)
              /\ u \in Cli!CliMessage /\ r \in Cli!CliMessage /\ u[2] = i /\ r[2] = i /\ u # r
              /\ Until(comp, i - 1) /\ Until(turn2.context, i - 1)
              /\ Without(comp, u) /\ Without(comp, r)
              /\ turn2 \in TurnShape /\ turn2.context \in CliSeq /\ turn2.input \in Nat
              /\ {hist, snap, comp} \subseteq CliSeq /\ sess \in {0} \cup Cli!SessionIds
  BY Running
<1>2. TurnKept(turn2, hist, comp, har)
  BY DEF ThreadKept
<1>3. PICK h \in CliSeq : hist = Append(h, u) /\ Until(h, i - 1) /\ Cli!Within(comp, h)
  BY <1>1, <1>2 DEF TurnKept
<1>4. i \in Nat /\ i - 1 \in Nat /\ i - 1 < i /\ i <= n
  BY <1>1
<1>5. PICK c : c = Append(comp, u)
  OBVIOUS
<1>6. c \in CliSeq /\ hist \in CliSeq
  BY <1>1, <1>5, Appended
<1>7. Without(h, u) /\ Without(turn2.context, u)
  BY <1>1, <1>3, <1>4, UntilGrows
<1>8. Cli!Within(c, hist)
  BY <1>1, <1>3, <1>5, <1>7, WithinBoth
<1>9. turn2.reported # 0 => Cli!Within(c, Append(turn2.context, u))
  BY <1>1, <1>2, <1>5, <1>7, WithinBoth DEF TurnKept, Holds
<1>10. Without(hist, r) /\ Without(Append(turn2.context, u), r)
  <2>1. \A x \in CliSeq : Until(x, i - 1) => Without(Append(x, u), r)
    <3> SUFFICES ASSUME NEW x \in CliSeq, Until(x, i - 1) PROVE Without(Append(x, u), r)
      OBVIOUS
    <3>1. Without(x, r)
      BY <1>1, <1>4, UntilGrows
    <3>2. PICK y : y = Append(x, u)
      OBVIOUS
    <3>3. PICK k \in Nat : /\ DOMAIN x = 1..k /\ DOMAIN y = 1..(k + 1)
                           /\ \A j \in 1..k : y[j] = x[j]
                           /\ y[k + 1] = u
      <4>1. u \in Cli!CliMessage
        BY <1>1
      <4> QED BY <3>2, <4>1, Appended
    <3>4. \A j \in 1..(k + 1) : j \in 1..k \/ j = k + 1
      OBVIOUS
    <3> QED BY <1>1, <3>1, <3>2, <3>3, <3>4 DEF Without
  <2> QED BY <1>1, <1>3, <2>1
<1>11. Until(c, n) /\ Until(hist, n)
  <2>1. Until(comp, n) /\ Until(hist, n)
    BY DEF ThreadKept
  <2> QED BY <1>1, <1>4, <1>5, <2>1, UntilGrows
<1>12. CASE turn2.said \cap {"text", "done"} # {}
  <2>1. AnswerOf(turn2) = <<r>>
    BY <1>1, <1>12 DEF AnswerOf
  <2>2. hist2 = Append(hist, r) /\ comp2 = Append(c, r)
    BY <1>1, <1>5, <1>6, <2>1 DEF CliSeq
  <2>3. hist2 \in CliSeq /\ comp2 \in CliSeq
    <3>1. c \in CliSeq /\ hist \in CliSeq /\ r \in Cli!CliMessage
      BY <1>1, <1>6
    <3>2. Append(hist, r) \in CliSeq /\ Append(c, r) \in CliSeq
      BY <3>1, Appended
    <3> QED BY <2>2, <3>2
  <2>4. Cli!Within(comp2, hist2)
    BY <1>1, <1>6, <1>8, <1>10, <2>2, WithinBoth
  <2>5. Until(hist2, n) /\ Until(comp2, n)
    BY <1>1, <1>4, <1>6, <1>11, <2>2, UntilGrows
  <2>6. turn2.reported # 0 => Holds(comp2, har[turn2.reported])
    <3> SUFFICES ASSUME turn2.reported # 0 PROVE Cli!Within(comp2, har[turn2.reported])
      BY DEF Holds
    <3>1. har[turn2.reported] = Append(Append(turn2.context, u), r)
      BY <1>1, <1>2, <1>12 DEF TurnKept, SessionNow
    <3>2. Append(turn2.context, u) \in CliSeq
      BY <1>1, Appended
    <3> QED BY <1>1, <1>6, <1>9, <1>10, <2>2, <3>1, <3>2, WithinBoth
  <2>7. turn2.reported \in {0} \cup Cli!SessionIds
    BY <1>1 DEF TurnShape
  <2> QED BY <2>3, <2>4, <2>5, <2>6, <2>7, NoTurnShape DEF ThreadKept
<1>13. CASE turn2.said \cap {"text", "done"} = {}
  <2>1. AnswerOf(turn2) = <<>>
    BY <1>13 DEF AnswerOf
  <2>2. hist2 = hist /\ comp2 = c
    BY <1>1, <1>5, <1>6, <2>1 DEF CliSeq
  <2>3. turn2.reported # 0 => Holds(c, har[turn2.reported])
    BY <1>1, <1>2, <1>9, <1>13 DEF TurnKept, SessionNow, Holds
  <2>4. turn2.reported \in {0} \cup Cli!SessionIds
    BY <1>1 DEF TurnShape
  <2> QED BY <1>6, <1>8, <1>11, <2>2, <2>3, <2>4, NoTurnShape DEF ThreadKept
<1> QED BY <1>12, <1>13

\* A turn ends without success, the thread keeps its session or drops it, and
\* its snapshot is of now or before; or the thread is read back from it.
LEMMA FailureKeeps ==
    ASSUME NEW turn2, NEW hist, NEW snap, NEW comp, NEW sess, NEW har, NEW n \in Nat,
           ThreadKept(turn2, hist, snap, comp, sess, har, n),
           NEW hist2 \in {hist, snap}, NEW snap2 \in {hist, snap}, NEW sess2 \in {0, sess}
    PROVE  ThreadKept(Cli!NoTurn, hist2, snap2, comp, sess2, har, n)
BY NoTurnShape DEF ThreadKept

CliThreadsAreKept ==
    \A t \in CliThreads :
        ThreadKept(cliTurn[t], cliHistory[t], snapshot[t], completed[t], cliSession[t], harness,
                   cliInputs)

\* The sessions of a thread are its own.
Held(t) == {cliSession[t], cliTurn[t].reported}
SessionsApart ==
    \A t, u \in CliThreads : t # u => \A s \in Held(t) : s # 0 => s \notin Held(u)

ToolsApart == \A t, u \in CliThreads : t # u /\ tool[t] # 0 => tool[t] # tool[u]

CliIInv ==
    /\ Cli!TypeOK /\ HarnessKept(harness, cliInputs) /\ CliThreadsAreKept /\ SessionsApart
    /\ Cli!CallsAreAudited /\ ToolsApart

LEMMA CliInit == Cli!Init => CliIInv
<1> SUFFICES ASSUME Cli!Init PROVE CliIInv
  OBVIOUS
<1>1. <<>> \in CliSeq /\ Until(<<>>, 0) /\ Cli!Within(<<>>, <<>>) /\ 0 \in Nat /\ 0 \in 0..0
  BY CliMessages
<1>2. HarnessKept(harness, cliInputs)
  BY <1>1 DEF Cli!Init, HarnessKept
<1>3. CliThreadsAreKept
  BY <1>1, NoTurnShape DEF Cli!Init, CliThreadsAreKept, ThreadKept
<1>4. SessionsApart /\ ToolsApart /\ Cli!CallsAreAudited
  BY NoTurnShape DEF Cli!Init, SessionsApart, Held, ToolsApart, Cli!CallsAreAudited
<1>5. Cli!TypeOK
  <2>1. <<>> \in Seq(Cli!CliMessage) /\ 0 \in 0..MaxSessions
    BY <1>1, CliBounds DEF CliSeq
  <2>2. Cli!NoTurn \in Cli!CliTurnState
    BY <1>1, <2>1 DEF Cli!Init, Cli!NoTurn, Cli!CliTurnState
  <2> QED BY <1>1, <2>1, <2>2 DEF Cli!Init, Cli!TypeOK
<1> QED BY <1>2, <1>3, <1>4, <1>5 DEF CliIInv

\* A step of one thread, which touches one session of its own or a new one.
GoesTo(t, turn2, hist, snap, comp, sess, har, n, top) ==
    /\ cliTurn' = [cliTurn EXCEPT ![t] = turn2]
    /\ cliHistory' = [cliHistory EXCEPT ![t] = hist]
    /\ snapshot' = [snapshot EXCEPT ![t] = snap]
    /\ completed' = [completed EXCEPT ![t] = comp]
    /\ cliSession' = [cliSession EXCEPT ![t] = sess]
    /\ harness' = har /\ cliInputs' = n /\ opened' = top
    /\ cliInputs <= n /\ n \in Nat /\ top \in opened..MaxSessions
    /\ {lingering', stray'} \subseteq SUBSET CliThreads
    /\ UNCHANGED <<tool, audit, calls, cliCrashes>>

OwnSession(t, turn2, sess, har, top) ==
    \E s \in {0, opened + 1} \cup Held(t) :
        /\ \A x \in Cli!SessionIds \ {s} : har[x] = harness[x]
        /\ {sess, turn2.reported} \subseteq ({0, s} \cup Held(t)) \cap (0..top)

LEMMA OneThreadGoesOn ==
    ASSUME CliIInv, NEW t \in CliThreads, NEW turn2, NEW hist, NEW snap, NEW comp, NEW sess,
           NEW har, NEW n, NEW top,
           GoesTo(t, turn2, hist, snap, comp, sess, har, n, top),
           OwnSession(t, turn2, sess, har, top),
           ThreadKept(turn2, hist, snap, comp, sess, har, n), HarnessKept(har, n)
    PROVE  CliIInv'
<1>0. /\ cliTurn' = [cliTurn EXCEPT ![t] = turn2] /\ cliHistory' = [cliHistory EXCEPT ![t] = hist]
      /\ snapshot' = [snapshot EXCEPT ![t] = snap] /\ completed' = [completed EXCEPT ![t] = comp]
      /\ cliSession' = [cliSession EXCEPT ![t] = sess]
      /\ harness' = har /\ cliInputs' = n /\ opened' = top
      /\ cliInputs <= n /\ n \in Nat /\ top \in opened..MaxSessions
      /\ {lingering', stray'} \subseteq SUBSET CliThreads
      /\ UNCHANGED <<tool, audit, calls, cliCrashes>>
  BY DEF GoesTo
<1>s. PICK s \in {0, opened + 1} \cup Held(t) :
          /\ \A x \in Cli!SessionIds \ {s} : har[x] = harness[x]
          /\ {sess, turn2.reported} \subseteq ({0, s} \cup Held(t)) \cap (0..top)
  BY DEF OwnSession
<1>1. /\ Cli!TypeOK /\ HarnessKept(harness, cliInputs) /\ CliThreadsAreKept /\ SessionsApart
      /\ Cli!CallsAreAudited /\ ToolsApart
  BY DEF CliIInv
<1>2. /\ opened \in Nat /\ opened <= top /\ top \in 0..MaxSessions /\ cliInputs \in Nat
  BY <1>0, <1>1, CliBounds DEF Cli!TypeOK
<1>3. /\ cliTurn'[t] = turn2 /\ cliHistory'[t] = hist /\ snapshot'[t] = snap
      /\ completed'[t] = comp /\ cliSession'[t] = sess
      /\ \A u \in CliThreads \ {t} :
            /\ cliTurn'[u] = cliTurn[u] /\ cliHistory'[u] = cliHistory[u]
            /\ snapshot'[u] = snapshot[u] /\ completed'[u] = completed[u]
            /\ cliSession'[u] = cliSession[u]
  BY <1>0, <1>1 DEF Cli!TypeOK
<1>4. \A u \in CliThreads : cliSession[u] \in 0..opened /\ cliTurn[u].reported \in 0..opened
  BY <1>1 DEF Cli!TypeOK, Cli!CliTurnState
<1>5. \A u \in CliThreads \ {t} : s # 0 => s \notin Held(u)
  <2> SUFFICES ASSUME NEW u \in CliThreads \ {t}, s # 0 PROVE s \notin Held(u)
    OBVIOUS
  <2>1. CASE s = opened + 1
    <3>1. opened + 1 \notin 0..opened
      BY <1>2
    <3> QED BY <1>4, <2>1, <3>1 DEF Held
  <2>2. CASE s \in Held(t)
    BY <1>1, <2>2 DEF SessionsApart
  <2> QED BY <1>s, <2>1, <2>2
<1>6. CliThreadsAreKept'
  <2> SUFFICES ASSUME NEW u \in CliThreads
               PROVE  ThreadKept(cliTurn'[u], cliHistory'[u], snapshot'[u], completed'[u],
                                 cliSession'[u], har, n)
    BY <1>0 DEF CliThreadsAreKept
  <2>1. CASE u = t
    BY <1>3, <2>1
  <2>2. CASE u # t
    <3>1. ThreadKept(cliTurn[u], cliHistory[u], snapshot[u], completed[u], cliSession[u], harness,
                     cliInputs)
      BY <1>1 DEF CliThreadsAreKept
    <3>2. /\ cliSession[u] # 0 => cliSession[u] \in Cli!SessionIds /\ cliSession[u] # s
          /\ cliTurn[u].reported # 0 =>
                 cliTurn[u].reported \in Cli!SessionIds /\ cliTurn[u].reported # s
      <4>1. s \in {0} \/ s \notin Held(u)
        BY <1>5, <2>2
      <4>2. cliSession[u] \in {0} \cup Cli!SessionIds
        BY <3>1 DEF ThreadKept
      <4>3. cliTurn[u].reported \in {0} \cup Cli!SessionIds
        BY <3>1 DEF ThreadKept, TurnShape
      <4> QED BY <4>1, <4>2, <4>3 DEF Held
    <3>3. /\ cliSession[u] # 0 => har[cliSession[u]] \in {harness[cliSession[u]], Cli!Gone}
          /\ cliTurn[u].reported # 0 => har[cliTurn[u].reported] = harness[cliTurn[u].reported]
      BY <1>s, <3>2
    <3>4. ThreadKept(cliTurn[u], cliHistory[u], snapshot[u], completed[u], cliSession[u], har, n)
      BY <1>0, <1>2, <3>1, <3>3, KeptApart
    <3> QED BY <1>3, <2>2, <3>4
  <2> QED BY <2>1, <2>2
<1>7. SessionsApart'
  <2>1. \A u \in CliThreads \ {t} : Held(u)' = Held(u)
    BY <1>3 DEF Held
  <2>2. \A x \in Held(t)' : x # 0 => \A u \in CliThreads \ {t} : x \notin Held(u)
    <3> SUFFICES ASSUME NEW x \in {sess, turn2.reported}, x # 0, NEW u \in CliThreads \ {t}
                 PROVE  x \notin Held(u)
      BY <1>3 DEF Held
    <3>1. x = s \/ x \in Held(t)
      BY <1>s
    <3>2. x \in Held(t) => x \notin Held(u)
      BY <1>1 DEF SessionsApart
    <3> QED BY <1>5, <3>1, <3>2
  <2>3. ASSUME NEW u \in CliThreads, NEW v \in CliThreads, u # v,
               NEW x \in Held(u)', x # 0
        PROVE  x \notin Held(v)'
    <3>1. CASE u = t
      BY <2>1, <2>2, <2>3, <3>1
    <3>2. CASE v = t
      BY <2>1, <2>2, <2>3, <3>2
    <3>3. CASE u # t /\ v # t
      BY <1>1, <2>1, <2>3, <3>3 DEF SessionsApart
    <3> QED BY <3>1, <3>2, <3>3
  <2> QED BY <2>3 DEF SessionsApart
<1>8. Cli!TypeOK'
  <2>1. {hist, snap, comp} \subseteq Seq(Cli!CliMessage) /\ har \in [Cli!SessionIds -> Seq(Cli!CliMessage)]
    BY DEF ThreadKept, HarnessKept, CliSeq
  <2>2. {cliHistory', snapshot', completed'} \subseteq [CliThreads -> Seq(Cli!CliMessage)]
    BY <1>0, <1>1, <2>1 DEF Cli!TypeOK
  <2>3. \A x \in 0..opened : x \in 0..top
    BY <1>2
  <2>4. cliSession' \in [CliThreads -> 0..top]
    BY <1>0, <1>1, <1>s, <2>3 DEF Cli!TypeOK
  <2>5. \A u \in CliThreads :
            cliTurn'[u] \in [phase : {"idle", "running"}, input : Nat, context : Seq(Cli!CliMessage),
                             said : SUBSET {"init", "text", "done", "error"}, reported : 0..top]
    <3> SUFFICES ASSUME NEW u \in CliThreads
                 PROVE  cliTurn'[u] \in
                            [phase : {"idle", "running"}, input : Nat, context : Seq(Cli!CliMessage),
                             said : SUBSET {"init", "text", "done", "error"}, reported : 0..top]
      OBVIOUS
    <3>1. CASE u = t
      BY <1>s, <1>3, <3>1 DEF ThreadKept, TurnShape, CliSeq
    <3>2. CASE u # t
      BY <1>1, <1>3, <2>3, <3>2 DEF Cli!TypeOK, Cli!CliTurnState
    <3> QED BY <3>1, <3>2
  <2>6. cliTurn' \in [CliThreads -> Cli!CliTurnState']
    <3>1. DOMAIN cliTurn' = CliThreads /\ cliTurn' = [u \in CliThreads |-> cliTurn'[u]]
      BY <1>0, <1>1 DEF Cli!TypeOK
    <3> QED BY <1>0, <2>5, <3>1 DEF Cli!CliTurnState
  <2>7. /\ tool' \in [CliThreads -> 0..calls'] /\ {calls', cliInputs', cliCrashes'} \subseteq Nat
        /\ audit' \in [called : SUBSET (1..calls'), answered : SUBSET (1..calls'),
                       refused : SUBSET (1..calls')]
    BY <1>0, <1>1 DEF Cli!TypeOK
  <2> QED BY <1>0, <1>2, <2>1, <2>2, <2>4, <2>6, <2>7 DEF Cli!TypeOK
<1>9. Cli!CallsAreAudited' /\ ToolsApart'
  BY <1>0, <1>1 DEF Cli!CallsAreAudited, ToolsApart
<1> QED BY <1>0, <1>6, <1>7, <1>8, <1>9 DEF CliIInv

\* What an action of a thread has from the invariant.
LEMMA ThreadFacts ==
    ASSUME CliIInv, NEW t \in CliThreads
    PROVE  /\ ThreadKept(cliTurn[t], cliHistory[t], snapshot[t], completed[t], cliSession[t],
                         harness, cliInputs)
           /\ HarnessKept(harness, cliInputs) /\ cliInputs \in Nat
           /\ opened \in 0..MaxSessions /\ MaxSessions \in Nat
           /\ opened \in opened..MaxSessions /\ cliInputs <= cliInputs
           /\ cliSession[t] \in 0..opened /\ cliTurn[t].reported \in 0..opened
           /\ cliSession[t] \in Held(t) /\ cliTurn[t].reported \in Held(t)
           /\ cliTurn[t] \in TurnShape
           /\ {lingering, stray} \subseteq SUBSET CliThreads
           /\ cliTurn = [cliTurn EXCEPT ![t] = cliTurn[t]]
           /\ cliHistory = [cliHistory EXCEPT ![t] = cliHistory[t]]
           /\ snapshot = [snapshot EXCEPT ![t] = snapshot[t]]
           /\ completed = [completed EXCEPT ![t] = completed[t]]
           /\ cliSession = [cliSession EXCEPT ![t] = cliSession[t]]
<1>1. Cli!TypeOK /\ HarnessKept(harness, cliInputs) /\ CliThreadsAreKept
  BY DEF CliIInv
<1>2. ThreadKept(cliTurn[t], cliHistory[t], snapshot[t], completed[t], cliSession[t],
                         harness, cliInputs)
  BY <1>1 DEF CliThreadsAreKept
<1>3. cliTurn[t] \in Cli!CliTurnState /\ cliTurn[t] \in TurnShape
  BY <1>1, <1>2 DEF Cli!TypeOK, ThreadKept
<1>4. cliTurn[t].reported \in 0..opened
  BY <1>3 DEF Cli!CliTurnState
<1> QED BY <1>1, <1>2, <1>3, <1>4, CliBounds DEF Held, Cli!TypeOK

LEMMA CliStarts == ASSUME CliIInv, NEW t \in CliThreads, Cli!StartTurn(t) PROVE CliIInv'
<1>1. PICK turn2 : turn2 = StartedTurn(cliTurn[t], cliHistory[t], cliSession[t], harness, cliInputs)
  OBVIOUS
<1>2. PICK hist : hist = Append(cliHistory[t], Cli!User(cliInputs + 1))
  OBVIOUS
<1>3. PICK n \in Nat : n = cliInputs + 1
  BY ThreadFacts
<1>4. /\ cliTurn' = [cliTurn EXCEPT ![t] = turn2] /\ cliHistory' = [cliHistory EXCEPT ![t] = hist]
      /\ cliInputs' = n
      /\ UNCHANGED <<snapshot, cliSession, harness, opened, lingering, stray, tool, audit, calls,
                     completed, cliCrashes>>
  BY <1>1, <1>2, <1>3 DEF Cli!StartTurn, StartedTurn, Cli!Context, Cli!processVars, Cli!toolVars
<1>5. /\ ThreadKept(turn2, hist, snapshot[t], completed[t], cliSession[t], harness, n)
  BY <1>1, <1>2, <1>3, ThreadFacts, StartKeeps
<1>6. HarnessKept(harness, n)
  <2>1. \A x \in Cli!SessionIds : harness[x] \in CliSeq /\ Until(harness[x], cliInputs)
    BY ThreadFacts DEF HarnessKept
  <2>2. PICK m : m \in Cli!CliMessage
    <3>1. 0 \in Nat
      OBVIOUS
    <3> QED BY <3>1, CliMessages
  <2>3. cliInputs \in Nat /\ cliInputs <= n
    BY <1>3, ThreadFacts
  <2>4. \A x \in Cli!SessionIds : Until(harness[x], n)
    BY <2>1, <2>2, <2>3, UntilGrows
  <2> QED BY <2>4, ThreadFacts DEF HarnessKept
<1>7. turn2.reported = 0
  BY <1>1 DEF StartedTurn
<1>8. /\ opened \in opened..MaxSessions /\ cliInputs <= n
      /\ {cliSession[t], turn2.reported} \subseteq ({0, 0} \cup Held(t)) \cap (0..opened)
  BY <1>3, <1>7, ThreadFacts
<1>9. OwnSession(t, turn2, cliSession[t], harness, opened)
  BY <1>8 DEF OwnSession
<1>10. GoesTo(t, turn2, hist, snapshot[t], completed[t], cliSession[t], harness, n, opened)
  BY <1>4, <1>8, ThreadFacts DEF GoesTo
<1> QED BY <1>5, <1>6, <1>9, <1>10, OneThreadGoesOn

LEMMA CliNames ==
    ASSUME CliIInv, NEW t \in CliThreads, NEW s \in Cli!SessionIds, Cli!NamesSession(t, s)
    PROVE  CliIInv'
<1>1. PICK turn2 : turn2 = Named(cliTurn[t], s)
  OBVIOUS
<1>2. PICK har : har = Asked(harness, s, cliTurn[t])
  OBVIOUS
<1>3. PICK top : top = opened'
  OBVIOUS
<1>4. /\ cliTurn[t].phase = "running" /\ cliTurn[t].said = {} /\ cliTurn[t].context # Cli!Gone
      /\ \/ s = cliSession[t] /\ top = opened
         \/ s = opened + 1 /\ top = s
      /\ harness' = har
      /\ UNCHANGED <<cliHistory, snapshot, cliSession, lingering, stray, tool, audit, calls,
                     completed, cliInputs, cliCrashes>>
  BY <1>2, <1>3 DEF Asked, Cli!NamesSession, Cli!processVars, Cli!toolVars, Cli!boundVars
<1>5. cliTurn' = [cliTurn EXCEPT ![t] = turn2]
  <2>1. cliTurn' = [cliTurn EXCEPT ![t].said = {"init"}, ![t].reported = s]
    BY DEF Cli!NamesSession
  <2> QED BY <1>1, <2>1, ThreadFacts DEF Named, CliIInv, Cli!TypeOK
<1>6. ThreadKept(turn2, cliHistory[t], snapshot[t], completed[t], cliSession[t], har, cliInputs)
      /\ HarnessKept(har, cliInputs)
  BY <1>1, <1>2, <1>4, ThreadFacts, NamingKeeps
<1>7. turn2.reported = s
  BY <1>1, ThreadFacts DEF Named, TurnShape
<1>8. /\ top \in opened..MaxSessions /\ cliInputs <= cliInputs
      /\ s \in {0, opened + 1} \cup Held(t)
      /\ {cliSession[t], turn2.reported} \subseteq ({0, s} \cup Held(t)) \cap (0..top)
  BY <1>4, <1>7, ThreadFacts, CliBounds
<1>9. \A x \in Cli!SessionIds \ {s} : har[x] = harness[x]
  BY <1>2, ThreadFacts DEF Asked, HarnessKept
<1>10. /\ cliHistory' = [cliHistory EXCEPT ![t] = cliHistory[t]]
       /\ snapshot' = [snapshot EXCEPT ![t] = snapshot[t]]
       /\ completed' = [completed EXCEPT ![t] = completed[t]]
       /\ cliSession' = [cliSession EXCEPT ![t] = cliSession[t]]
       /\ {lingering', stray'} \subseteq SUBSET CliThreads
  BY <1>4, ThreadFacts
<1>11. OwnSession(t, turn2, cliSession[t], har, top)
  BY <1>8, <1>9 DEF OwnSession
<1>12. GoesTo(t, turn2, cliHistory[t], snapshot[t], completed[t], cliSession[t], har, cliInputs, top)
  BY <1>3, <1>4, <1>5, <1>8, <1>10, ThreadFacts DEF GoesTo
<1> QED BY <1>6, <1>11, <1>12, OneThreadGoesOn

LEMMA CliAnswers ==
    ASSUME CliIInv, NEW t \in CliThreads, NEW line \in {"text", "done"}, Cli!Answers(t, line)
    PROVE  CliIInv'
<1>1. PICK turn2 : turn2 = Said(cliTurn[t], line)
  OBVIOUS
<1>2. PICK s : s = cliTurn[t].reported
  OBVIOUS
<1>3. PICK har : har = Told(harness, cliTurn[t])
  OBVIOUS
<1>4. /\ cliTurn[t].phase = "running" /\ line \notin cliTurn[t].said /\ "done" \notin cliTurn[t].said
      /\ harness' = har
      /\ UNCHANGED <<cliHistory, snapshot, cliSession, opened, lingering, stray, tool, audit, calls,
                     completed, cliInputs, cliCrashes>>
  BY <1>2, <1>3 DEF Told, Cli!Answers, Cli!processVars, Cli!toolVars, Cli!boundVars
<1>5. cliTurn' = [cliTurn EXCEPT ![t] = turn2]
  <2>1. cliTurn' = [cliTurn EXCEPT ![t].said = @ \cup {line}]
    BY DEF Cli!Answers, Cli!Says
  <2> QED BY <1>1, <2>1 DEF Said
<1>6. ThreadKept(turn2, cliHistory[t], snapshot[t], completed[t], cliSession[t], har, cliInputs)
      /\ HarnessKept(har, cliInputs)
  BY <1>1, <1>2, <1>3, <1>4, ThreadFacts, AnswerKeeps
<1>7. turn2.reported = s
  BY <1>1, <1>2, ThreadFacts DEF Said, TurnShape
<1>8. /\ opened \in opened..MaxSessions /\ cliInputs <= cliInputs
      /\ s \in {0, opened + 1} \cup Held(t)
      /\ {cliSession[t], turn2.reported} \subseteq ({0, s} \cup Held(t)) \cap (0..opened)
  BY <1>2, <1>7, ThreadFacts
<1>9. \A x \in Cli!SessionIds \ {s} : har[x] = harness[x]
  BY <1>2, <1>3, ThreadFacts DEF Told, HarnessKept
<1>10. /\ cliHistory' = [cliHistory EXCEPT ![t] = cliHistory[t]]
       /\ snapshot' = [snapshot EXCEPT ![t] = snapshot[t]]
       /\ completed' = [completed EXCEPT ![t] = completed[t]]
       /\ cliSession' = [cliSession EXCEPT ![t] = cliSession[t]]
       /\ {lingering', stray'} \subseteq SUBSET CliThreads
  BY <1>4, ThreadFacts
<1>11. OwnSession(t, turn2, cliSession[t], har, opened)
  BY <1>8, <1>9 DEF OwnSession
<1>12. GoesTo(t, turn2, cliHistory[t], snapshot[t], completed[t], cliSession[t], har, cliInputs, opened)
  BY <1>4, <1>5, <1>8, <1>10, ThreadFacts DEF GoesTo
<1> QED BY <1>6, <1>11, <1>12, OneThreadGoesOn

\* A step of one thread that leaves the harness alone.
LEMMA OneThreadWrites ==
    ASSUME CliIInv, NEW t \in CliThreads, NEW turn2, NEW hist, NEW snap, NEW comp, NEW sess,
           GoesTo(t, turn2, hist, snap, comp, sess, harness, cliInputs, opened),
           ThreadKept(turn2, hist, snap, comp, sess, harness, cliInputs),
           {sess, turn2.reported} \subseteq {0, cliSession[t], cliTurn[t].reported}
    PROVE  CliIInv'
<1>1. {sess, turn2.reported} \subseteq ({0, 0} \cup Held(t)) \cap (0..opened)
  BY ThreadFacts DEF Held
<1>2. OwnSession(t, turn2, sess, harness, opened)
  BY <1>1 DEF OwnSession
<1> QED BY <1>2, ThreadFacts, OneThreadGoesOn

LEMMA CliErrs == ASSUME CliIInv, NEW t \in CliThreads, Cli!ReportsError(t) PROVE CliIInv'
<1>1. PICK turn2 : turn2 = Said(cliTurn[t], "error")
  OBVIOUS
<1>2. /\ cliTurn[t].phase = "running" /\ cliTurn' = [cliTurn EXCEPT ![t] = turn2]
      /\ UNCHANGED <<cliHistory, snapshot, cliSession, harness, opened, lingering, stray, tool, audit,
                     calls, completed, cliInputs, cliCrashes>>
  BY <1>1 DEF Said, Cli!ReportsError, Cli!Says, Cli!processVars, Cli!toolVars, Cli!boundVars
<1>3. ThreadKept(turn2, cliHistory[t], snapshot[t], completed[t], cliSession[t], harness, cliInputs)
  BY <1>1, <1>2, ThreadFacts, ErrorKeeps
<1>4. turn2.reported = cliTurn[t].reported
  BY <1>1, ThreadFacts DEF Said, TurnShape
<1>5. GoesTo(t, turn2, cliHistory[t], snapshot[t], completed[t], cliSession[t], harness, cliInputs,
             opened)
  BY <1>2, ThreadFacts DEF GoesTo
<1> QED BY <1>3, <1>4, <1>5, OneThreadWrites

LEMMA CliSucceeds == ASSUME CliIInv, NEW t \in CliThreads, Cli!Succeeds(t) PROVE CliIInv'
<1>1. PICK hist, comp : /\ hist = cliHistory[t] \o AnswerOf(cliTurn[t])
                        /\ comp = completed[t] \o <<Cli!User(cliTurn[t].input)>> \o AnswerOf(cliTurn[t])
  OBVIOUS
<1>2. /\ cliTurn[t].phase = "running" /\ cliTurn' = [cliTurn EXCEPT ![t] = Cli!NoTurn]
      /\ cliHistory' = [cliHistory EXCEPT ![t] = hist]
      /\ snapshot' = [snapshot EXCEPT ![t] = cliHistory'[t]]
      /\ completed' = [completed EXCEPT ![t] = comp]
      /\ cliSession' = [cliSession EXCEPT ![t] = cliTurn[t].reported]
      /\ UNCHANGED <<harness, opened, lingering, stray, tool, audit, calls, cliInputs, cliCrashes>>
  BY <1>1 DEF Cli!Succeeds, AnswerOf, Cli!processVars, Cli!toolVars, Cli!boundVars
<1>3. cliHistory'[t] = hist
  BY <1>2 DEF CliIInv, Cli!TypeOK
<1>4. ThreadKept(Cli!NoTurn, hist, hist, comp, cliTurn[t].reported, harness, cliInputs)
  BY <1>1, <1>2, ThreadFacts, SuccessKeeps
<1>5. /\ {cliTurn[t].reported, Cli!NoTurn.reported} \subseteq {0, cliSession[t], cliTurn[t].reported}
      /\ {lingering', stray'} \subseteq SUBSET CliThreads
  BY <1>2, NoTurnShape, ThreadFacts
<1>6. GoesTo(t, Cli!NoTurn, hist, hist, comp, cliTurn[t].reported, harness, cliInputs, opened)
  BY <1>2, <1>3, <1>5, ThreadFacts DEF GoesTo
<1> QED BY <1>4, <1>5, <1>6, OneThreadWrites

LEMMA CliFails ==
    ASSUME CliIInv, NEW t \in CliThreads,
           Cli!Cancel(t) \/ \E code \in Cli!ErrorCodes : Cli!Fails(t, code)
    PROVE  CliIInv'
<1>1. PICK snap \in {cliHistory[t], snapshot[t]}, sess \in {0, cliSession[t]} :
          /\ cliTurn' = [cliTurn EXCEPT ![t] = Cli!NoTurn]
          /\ snapshot' = [snapshot EXCEPT ![t] = snap]
          /\ cliSession' = [cliSession EXCEPT ![t] = sess]
          /\ lingering' \in {lingering, lingering \cup {t}}
          /\ UNCHANGED <<cliHistory, harness, opened, stray, tool, audit, calls, completed, cliInputs,
                         cliCrashes>>
  <2>1. CASE Cli!Cancel(t)
    BY <2>1, ThreadFacts DEF Cli!Cancel, Cli!toolVars, Cli!boundVars
  <2>2. ASSUME NEW code \in Cli!ErrorCodes, Cli!Fails(t, code)
        PROVE  \E snap \in {cliHistory[t], snapshot[t]}, sess \in {0, cliSession[t]} :
                  /\ cliTurn' = [cliTurn EXCEPT ![t] = Cli!NoTurn]
                  /\ snapshot' = [snapshot EXCEPT ![t] = snap]
                  /\ cliSession' = [cliSession EXCEPT ![t] = sess]
                  /\ lingering' \in {lingering, lingering \cup {t}}
                  /\ UNCHANGED <<cliHistory, harness, opened, stray, tool, audit, calls, completed,
                                 cliInputs, cliCrashes>>
    BY <2>2 DEF Cli!Fails, Cli!SessionAfter, Cli!processVars, Cli!toolVars, Cli!boundVars
  <2> QED BY <2>1, <2>2
<1>2. ThreadKept(Cli!NoTurn, cliHistory[t], snap, completed[t], sess, harness, cliInputs)
  BY ThreadFacts, FailureKeeps
<1>3. /\ {sess, Cli!NoTurn.reported} \subseteq {0, cliSession[t], cliTurn[t].reported}
      /\ {lingering', stray'} \subseteq SUBSET CliThreads
      /\ cliHistory' = [cliHistory EXCEPT ![t] = cliHistory[t]]
      /\ completed' = [completed EXCEPT ![t] = completed[t]]
  BY <1>1, NoTurnShape, ThreadFacts
<1>4. GoesTo(t, Cli!NoTurn, cliHistory[t], snap, completed[t], sess, harness, cliInputs, opened)
  BY <1>1, <1>3, ThreadFacts DEF GoesTo
<1> QED BY <1>2, <1>3, <1>4, OneThreadWrites

\* What does not concern the turns: a killed process, the harness's own
\* forgetfulness, the tools.
LEMMA CliLingers == ASSUME CliIInv, NEW t \in CliThreads, Cli!Lingers(t) PROVE CliIInv'
<1>1. /\ {lingering', stray'} \subseteq SUBSET CliThreads
      /\ UNCHANGED <<cliHistory, snapshot, cliSession, harness, opened, cliTurn, tool, audit, calls,
                     completed, cliInputs, cliCrashes>>
  BY ThreadFacts DEF Cli!Lingers, Cli!toolVars, Cli!boundVars
<1> QED BY <1>1 DEF CliIInv, Cli!TypeOK, Cli!CliTurnState, CliThreadsAreKept, SessionsApart, Held,
           Cli!CallsAreAudited, ToolsApart

LEMMA CliForgets == ASSUME CliIInv, NEW s \in Cli!SessionIds, Cli!Forgets(s) PROVE CliIInv'
<1>1. /\ \A t \in CliThreads : s # cliTurn[t].reported
      /\ harness' = [harness EXCEPT ![s] = Cli!Gone]
      /\ UNCHANGED <<cliHistory, snapshot, cliSession, opened, cliTurn, lingering, stray, tool, audit,
                     calls, completed, cliInputs, cliCrashes>>
  BY DEF Cli!Forgets, Cli!processVars, Cli!toolVars, Cli!boundVars
<1>2. Cli!TypeOK /\ HarnessKept(harness, cliInputs) /\ cliInputs \in Nat
  BY DEF CliIInv, Cli!TypeOK
<1>3. HarnessKept(harness', cliInputs)
  <2>1. \A x \in Cli!SessionIds : harness'[x] \in CliSeq /\ Until(harness'[x], cliInputs)
    BY <1>1, <1>2, CliMessages DEF HarnessKept
  <2> QED BY <1>1, <1>2, <2>1 DEF HarnessKept
<1>4. CliThreadsAreKept'
  <2> SUFFICES ASSUME NEW t \in CliThreads
               PROVE  ThreadKept(cliTurn[t], cliHistory[t], snapshot[t], completed[t], cliSession[t],
                                 harness', cliInputs)
    BY <1>1 DEF CliThreadsAreKept
  <2>1. ThreadKept(cliTurn[t], cliHistory[t], snapshot[t], completed[t], cliSession[t], harness,
                   cliInputs)
    BY ThreadFacts
  <2>2. /\ cliSession[t] \in {0} \cup Cli!SessionIds
        /\ cliTurn[t].reported \in {0} \cup Cli!SessionIds
    BY <2>1 DEF ThreadKept, TurnShape
  <2>3. /\ cliSession[t] # 0 => harness'[cliSession[t]] \in {harness[cliSession[t]], Cli!Gone}
        /\ cliTurn[t].reported # 0 => harness'[cliTurn[t].reported] = harness[cliTurn[t].reported]
    BY <1>1, <1>2, <2>2 DEF HarnessKept
  <2> QED BY <1>2, <2>1, <2>3, KeptApart
<1>5. Cli!TypeOK'
  <2>1. harness' \in [Cli!SessionIds -> Seq(Cli!CliMessage)]
    BY <1>3 DEF HarnessKept, CliSeq
  <2> QED BY <1>1, <1>2, <2>1 DEF Cli!TypeOK, Cli!CliTurnState
<1> QED BY <1>1, <1>3, <1>4, <1>5 DEF CliIInv, SessionsApart, Held, Cli!CallsAreAudited, ToolsApart

\* Turns are as they were.
LEMMA OnlyTools ==
    ASSUME CliIInv,
           UNCHANGED <<cliHistory, snapshot, cliSession, harness, opened, cliTurn, lingering, stray,
                       completed, cliInputs, cliCrashes>>,
           tool' \in [CliThreads -> 0..calls'], calls' \in Nat,
           audit' \in [called : SUBSET (1..calls'), answered : SUBSET (1..calls'),
                       refused : SUBSET (1..calls')],
           Cli!CallsAreAudited', ToolsApart'
    PROVE  CliIInv'
BY DEF CliIInv, Cli!TypeOK, Cli!CliTurnState, CliThreadsAreKept, SessionsApart, Held

LEMMA ToolFacts ==
    ASSUME CliIInv
    PROVE  /\ calls \in Nat /\ tool \in [CliThreads -> 0..calls]
           /\ audit \in [called : SUBSET (1..calls), answered : SUBSET (1..calls),
                         refused : SUBSET (1..calls)]
           /\ audit.answered \subseteq audit.called /\ audit.called \cap audit.refused = {}
           /\ \A t \in CliThreads : tool[t] # 0 => tool[t] \in audit.called \ audit.answered
           /\ ToolsApart
BY DEF CliIInv, Cli!TypeOK, Cli!CallsAreAudited

LEMMA CliCalls ==
    ASSUME CliIInv, NEW t \in CliThreads, NEW allowed \in BOOLEAN, Cli!McpCall(t, allowed)
    PROVE  CliIInv'
<1>1. PICK c : c = calls + 1
  OBVIOUS
<1>2. /\ calls' = c /\ tool[t] = 0
      /\ UNCHANGED <<cliHistory, snapshot, cliSession, harness, opened, cliTurn, lingering, stray,
                     completed, cliInputs, cliCrashes>>
      /\ \/ tool' = [tool EXCEPT ![t] = c] /\ audit' = [audit EXCEPT !.called = @ \cup {c}]
         \/ tool' = tool /\ audit' = [audit EXCEPT !.refused = @ \cup {c}]
  BY <1>1 DEF Cli!McpCall, Cli!Audited, Cli!processVars, Cli!boundVars
<1>3. /\ c \in Nat \ {0} /\ c \notin 0..calls /\ c \in 1..c
      /\ \A x \in 0..calls : x \in 0..c
      /\ \A x \in 1..calls : x \in 1..c /\ x # c
  BY <1>1, ToolFacts
<1>4. CASE tool' = [tool EXCEPT ![t] = c] /\ audit' = [audit EXCEPT !.called = @ \cup {c}]
  <2>1. /\ audit'.called = audit.called \cup {c} /\ audit'.answered = audit.answered
        /\ audit'.refused = audit.refused
        /\ audit' = [called |-> audit.called \cup {c}, answered |-> audit.answered,
                     refused |-> audit.refused]
    BY <1>4, ToolFacts
  <2>2. /\ tool' \in [CliThreads -> 0..c] /\ tool'[t] = c
        /\ \A u \in CliThreads \ {t} : tool'[u] = tool[u]
    BY <1>3, <1>4, ToolFacts
  <2>3. audit' \in [called : SUBSET (1..c), answered : SUBSET (1..c), refused : SUBSET (1..c)]
    BY <1>3, <2>1, ToolFacts
  <2>4. ToolsApart'
    BY <1>3, <2>2, ToolFacts DEF ToolsApart
  <2>5. Cli!CallsAreAudited'
    <3>1. audit'.answered \subseteq audit'.called /\ audit'.called \cap audit'.refused = {}
      BY <1>3, <2>1, ToolFacts
    <3>2. \A u \in CliThreads : tool'[u] # 0 => tool'[u] \in audit'.called \ audit'.answered
      BY <1>3, <2>1, <2>2, ToolFacts
    <3> QED BY <3>1, <3>2 DEF Cli!CallsAreAudited
  <2> QED BY <1>2, <1>3, <2>2, <2>3, <2>4, <2>5, OnlyTools
<1>5. CASE tool' = tool /\ audit' = [audit EXCEPT !.refused = @ \cup {c}]
  <2>1. /\ audit'.called = audit.called /\ audit'.answered = audit.answered
        /\ audit'.refused = audit.refused \cup {c}
        /\ audit' = [called |-> audit.called, answered |-> audit.answered,
                     refused |-> audit.refused \cup {c}]
    BY <1>5, ToolFacts
  <2>2. tool' \in [CliThreads -> 0..c]
    BY <1>3, <1>5, ToolFacts
  <2>3. audit' \in [called : SUBSET (1..c), answered : SUBSET (1..c), refused : SUBSET (1..c)]
    BY <1>3, <2>1, ToolFacts
  <2>4. ToolsApart' /\ Cli!CallsAreAudited'
    BY <1>3, <1>5, <2>1, ToolFacts DEF ToolsApart, Cli!CallsAreAudited
  <2> QED BY <1>2, <1>3, <2>2, <2>3, <2>4, OnlyTools
<1> QED BY <1>2, <1>4, <1>5

LEMMA CliReturns == ASSUME CliIInv, NEW t \in CliThreads, Cli!McpReturn(t) PROVE CliIInv'
<1>1. PICK c : c = tool[t]
  OBVIOUS
<1>2. /\ c # 0 /\ c \in audit.called \ audit.answered /\ c \in 1..calls
      /\ tool' = [tool EXCEPT ![t] = 0] /\ audit' = [audit EXCEPT !.answered = @ \cup {c}]
      /\ UNCHANGED <<cliHistory, snapshot, cliSession, harness, opened, cliTurn, lingering, stray,
                     completed, calls, cliInputs, cliCrashes>>
  BY <1>1, ToolFacts DEF Cli!McpReturn, Cli!processVars, Cli!boundVars
<1>3. /\ audit'.called = audit.called /\ audit'.answered = audit.answered \cup {c}
      /\ audit'.refused = audit.refused
      /\ audit' = [called |-> audit.called, answered |-> audit.answered \cup {c},
                   refused |-> audit.refused]
  BY <1>2, ToolFacts
<1>4. /\ tool' \in [CliThreads -> 0..calls] /\ tool'[t] = 0
      /\ \A u \in CliThreads \ {t} : tool'[u] = tool[u]
  BY <1>2, ToolFacts
<1>5. audit' \in [called : SUBSET (1..calls), answered : SUBSET (1..calls),
                  refused : SUBSET (1..calls)]
  BY <1>2, <1>3, ToolFacts
<1>6. ToolsApart'
  BY <1>4, ToolFacts DEF ToolsApart
<1>7. \A u \in CliThreads : tool'[u] # 0 => tool'[u] \in audit'.called \ audit'.answered
  BY <1>1, <1>2, <1>3, <1>4, ToolFacts DEF ToolsApart
<1>8. Cli!CallsAreAudited'
  BY <1>2, <1>3, <1>7, ToolFacts DEF Cli!CallsAreAudited
<1> QED BY <1>2, <1>4, <1>5, <1>6, <1>8, ToolFacts, OnlyTools

LEMMA CliCrashes == ASSUME CliIInv, Cli!Crash PROVE CliIInv'
<1>1. /\ cliHistory' = snapshot /\ cliSession' = [t \in CliThreads |-> 0]
      /\ cliTurn' = [t \in CliThreads |-> Cli!NoTurn] /\ tool' = [t \in CliThreads |-> 0]
      /\ lingering' = {} /\ cliCrashes' = cliCrashes + 1
      /\ UNCHANGED <<snapshot, harness, opened, stray, audit, completed, calls, cliInputs>>
  BY DEF Cli!Crash
<1>2. Cli!TypeOK /\ HarnessKept(harness, cliInputs) /\ CliThreadsAreKept
  BY DEF CliIInv
<1>3. CliThreadsAreKept'
  <2> SUFFICES ASSUME NEW t \in CliThreads
               PROVE  ThreadKept(Cli!NoTurn, snapshot[t], snapshot[t], completed[t], 0, harness,
                                 cliInputs)
    BY <1>1 DEF CliThreadsAreKept
  <2> QED BY ThreadFacts, FailureKeeps
<1>4. SessionsApart' /\ ToolsApart' /\ Cli!CallsAreAudited'
  BY <1>1, NoTurnShape DEF CliIInv, SessionsApart, Held, ToolsApart, Cli!CallsAreAudited
<1>5. Cli!TypeOK'
  <2>1. opened \in Nat /\ calls \in Nat
    BY <1>2, CliBounds DEF Cli!TypeOK
  <2>2. 0 \in 0..opened /\ 0 \in 0..calls
    BY <2>1
  <2>3. Cli!NoTurn \in [phase : {"idle", "running"}, input : Nat, context : Seq(Cli!CliMessage),
                        said : SUBSET {"init", "text", "done", "error"}, reported : 0..opened]
    BY <2>2, CliMessages DEF Cli!NoTurn, CliSeq
  <2>4. cliTurn' \in [CliThreads -> Cli!CliTurnState']
    BY <1>1, <2>3 DEF Cli!CliTurnState
  <2> QED BY <1>1, <1>2, <2>2, <2>4 DEF Cli!TypeOK
<1> QED BY <1>1, <1>2, <1>3, <1>4, <1>5 DEF CliIInv

LEMMA CliNext == CliIInv /\ [Cli!Next]_(Cli!cliVars) => CliIInv'
<1> SUFFICES ASSUME CliIInv, [Cli!Next]_(Cli!cliVars) PROVE CliIInv'
  OBVIOUS
<1>1. CASE UNCHANGED Cli!cliVars
  BY <1>1 DEF Cli!cliVars, CliIInv, Cli!TypeOK, Cli!CliTurnState, CliThreadsAreKept, SessionsApart,
              Held, Cli!CallsAreAudited, ToolsApart
<1>2. ASSUME NEW t \in CliThreads,
             \/ Cli!StartTurn(t)
             \/ \E s \in Cli!SessionIds : Cli!NamesSession(t, s)
             \/ \E line \in {"text", "done"} : Cli!Answers(t, line)
             \/ Cli!ReportsError(t)
             \/ Cli!Succeeds(t)
             \/ \E code \in Cli!ErrorCodes : Cli!Fails(t, code)
             \/ Cli!Cancel(t) \/ Cli!Lingers(t)
             \/ \E allowed \in BOOLEAN : Cli!McpCall(t, allowed)
             \/ Cli!McpReturn(t)
      PROVE  CliIInv'
  BY <1>2, CliStarts, CliNames, CliAnswers, CliErrs, CliSucceeds, CliFails, CliLingers, CliCalls,
     CliReturns
<1>3. ASSUME NEW s \in Cli!SessionIds, Cli!Forgets(s) PROVE CliIInv'
  BY <1>3, CliForgets
<1>4. CASE Cli!Crash
  BY <1>4, CliCrashes
<1>5. CASE Cli!Next
  BY <1>2, <1>3, <1>4, <1>5 DEF Cli!Next
<1> QED BY <1>1, <1>5

\* Whether a turn of a harness resumes a session or opens one, it sees what
\* the successful turns of its thread said, once and in order, and calls of
\* tools are audited before and after, for any threads, inputs, sessions,
\* failures, cancels and restarts (agent/chat.ts:555-705, mcp/dispatch.ts:136-280).
THEOREM CliTurnsWhole == AgentSpec => []CliTurnsAreWhole
<1>1. CliIInv => CliTurnsAreWhole
  <2> SUFFICES ASSUME CliIInv PROVE Cli!ContextIsWhole
    BY DEF CliTurnsAreWhole, CliIInv
  <2> SUFFICES ASSUME NEW t \in CliThreads, cliTurn[t].phase = "running",
                      cliTurn[t].context # Cli!Gone
               PROVE  Cli!Within(completed[t], cliTurn[t].context)
    BY DEF Cli!ContextIsWhole
  <2>1. TurnKept(cliTurn[t], cliHistory[t], completed[t], harness)
    BY ThreadFacts DEF ThreadKept
  <2> QED BY <2>1 DEF TurnKept, Holds
<1> QED BY <1>1, CliInit, CliNext, AgentsRunHarness, PTL

----------------------------------------------------------------------------
(* Memories *)

LEMMA AgentsRemember == AgentSpec => Memory!Init /\ [][Memory!Next]_(Memory!memoryVars)
<1>1. AgentInit => Memory!Init
  BY DEF AgentInit
<1>2. [AgentNext]_agentVars => [Memory!Next]_(Memory!memoryVars)
  BY DEF AgentNext, agentVars, LoopStep, AuthorityStep, MailStep, CliStep, MemoryStep,
         memoryVars, Memory!memoryVars
<1> QED BY <1>1, <1>2, PTL DEF AgentSpec

\* Of n numbers, some is the i-th.
LEMMA RanksAreTaken ==
    ASSUME NEW n \in Nat, NEW S \in SUBSET (1..n), NEW i \in 1..Cardinality(S)
    PROVE  \E m \in S : Cardinality({k \in S : k <= m}) = i
<1> DEFINE Below(k) == {j \in S : j <= k}
<1>1. S \subseteq Nat /\ \A j \in S : 0 < j /\ j <= n
  OBVIOUS
<1>2. IsFiniteSet(S)
  <2>1. 1 \in Int /\ n \in Int
    OBVIOUS
  <2>2. IsFiniteSet(1..n)
    BY <2>1, FS_Interval
  <2> QED BY <2>2, FS_Subset
<1>3. \A k : IsFiniteSet(Below(k)) /\ Cardinality(Below(k)) \in Nat
  <2> SUFFICES ASSUME NEW k PROVE IsFiniteSet(Below(k)) /\ Cardinality(Below(k)) \in Nat
    OBVIOUS
  <2>1. Below(k) \in SUBSET S
    OBVIOUS
  <2> HIDE DEF Below
  <2> QED BY <1>2, <2>1, FS_Subset, FS_CardinalityType
<1>4. Below(n) = S /\ Below(0) = {}
  <2>1. \A j \in S : j \in Below(n) /\ j \notin Below(0)
    BY <1>1
  <2> QED BY <2>1
<1>5. \A k \in Nat \ {0} :
          /\ k \in S => k \notin Below(k - 1) /\ Below(k) = Below(k - 1) \cup {k}
          /\ k \notin S => Below(k) = Below(k - 1)
  <2> SUFFICES ASSUME NEW k \in Nat \ {0}
               PROVE  /\ k \in S => k \notin Below(k - 1) /\ Below(k) = Below(k - 1) \cup {k}
                      /\ k \notin S => Below(k) = Below(k - 1)
    OBVIOUS
  <2>1. \A j \in Nat : j <= k <=> j <= k - 1 \/ j = k
    OBVIOUS
  <2>2. k \notin Below(k - 1)
    OBVIOUS
  <2>3. \A j : j \in Below(k) <=> j \in Below(k - 1) \/ (j = k /\ k \in S)
    BY <1>1, <2>1
  <2> HIDE DEF Below
  <2> QED BY <2>2, <2>3
<1> HIDE DEF Below
<1>6. Cardinality(Below(0)) = 0 /\ Cardinality(Below(n)) = Cardinality(S)
  BY <1>4, FS_EmptySet
<1>7. i \in Nat \ {0} /\ i <= Cardinality(Below(n))
  <2>1. Cardinality(S) \in Nat
    BY <1>2, FS_CardinalityType
  <2> QED BY <1>6, <2>1
<1>8. PICK R : R = {k \in Nat : Cardinality(Below(k)) >= i}
  OBVIOUS
<1>9. R \subseteq Nat /\ R # {}
  BY <1>3, <1>7, <1>8
<1>10. PICK k \in R : \A j \in R : ~(<<j, k>> \in OpToRel(<, Nat))
  BY <1>9, NatLessThanWellFounded, WFMin
<1>11. k \in Nat /\ Cardinality(Below(k)) >= i /\ \A j \in R : ~(j < k)
  BY <1>8, <1>9, <1>10 DEF OpToRel
<1>12. k # 0
  BY <1>6, <1>7, <1>11
<1>13. k - 1 \in Nat /\ k - 1 < k /\ k \in Nat \ {0}
  BY <1>11, <1>12
<1>14. ~(Cardinality(Below(k - 1)) >= i)
  BY <1>8, <1>11, <1>13
<1>15. k \in S
  BY <1>5, <1>11, <1>13, <1>14
<1>16. Cardinality(Below(k)) = Cardinality(Below(k - 1)) + 1
  BY <1>3, <1>5, <1>13, <1>15, FS_AddElement
<1>17. Cardinality(Below(k)) = i
  BY <1>3, <1>7, <1>11, <1>14, <1>16
<1> QED BY <1>15, <1>17 DEF Below

LEMMA MemoriesAreCounted == \A S : Memory!Cardinality(S) = Cardinality(S)
BY DEF Memory!Cardinality, Cardinality

MemoryIInv == Memory!TypeOK /\ Memory!AttributionSurvives

LEMMA MemoryBounds ==
    /\ Memory!Agents = {Root} \cup Children /\ NoOne \notin Memory!Agents
    /\ MaxMemories \in Nat /\ Memory!Ids = 1..MaxMemories
    /\ "private" \in Memory!Scopes /\ "team" \in Memory!Scopes
BY PartsAssumption DEF Memory!MemoryAssumption, Memory!Agents, Memory!Ids, Memory!Scopes

LEMMA MemoryInit == Memory!Init => MemoryIInv
<1> SUFFICES ASSUME Memory!Init PROVE MemoryIInv
  OBVIOUS
<1>1. 0 \in 0..MaxMemories
  BY MemoryBounds
<1>2. Memory!TypeOK
  BY <1>1, MemoryBounds DEF Memory!Init, Memory!TypeOK, Memory!Exists
<1>3. Memory!AttributionSurvives
  BY MemoryBounds DEF Memory!Init, Memory!AttributionSurvives, Memory!Exists
<1> QED BY <1>2, <1>3 DEF MemoryIInv

\* A write of a row that keeps what was given.
LEMMA RowIsWritten ==
    ASSUME MemoryIInv, NEW m \in Memory!Ids, NEW row2 \in Memory!MemoryRow \cup {Memory!Absent},
           NEW seen \in (Memory!Agents \cup {NoOne}) \X (Memory!Agents \cup {NoOne}) \X (0..MaxMemories),
           memories' = [memories EXCEPT ![m] = row2], given' = [given EXCEPT ![m] = seen],
           made' \in made..MaxMemories, m <= made',
           UNCHANGED <<parentOf, alive, members>>,
           row2 # Memory!Absent =>
               /\ row2.owner \in alive /\ <<row2.owner, row2.author, row2.seed>> = seen
               /\ row2.seed # 0 => row2.author = parentOf[row2.owner] /\ row2.seed < m
    PROVE  MemoryIInv'
<1>1. Memory!TypeOK /\ Memory!AttributionSurvives
  BY DEF MemoryIInv
<1>2. /\ memories' \in [Memory!Ids -> Memory!MemoryRow \cup {Memory!Absent}]
      /\ given' \in [Memory!Ids -> (Memory!Agents \cup {NoOne}) \X (Memory!Agents \cup {NoOne})
                                                             \X (0..MaxMemories)]
      /\ memories'[m] = row2 /\ given'[m] = seen
      /\ \A k \in Memory!Ids \ {m} : memories'[k] = memories[k] /\ given'[k] = given[k]
  BY <1>1 DEF Memory!TypeOK
<1>3. made \in Nat /\ made' \in 0..MaxMemories /\ made <= made'
  BY <1>1, MemoryBounds DEF Memory!TypeOK
<1>4. \A k \in Memory!Ids : Memory!Exists(k)' => k <= made' /\ memories'[k].owner \in alive'
  <2> SUFFICES ASSUME NEW k \in Memory!Ids, Memory!Exists(k)'
               PROVE  k <= made' /\ memories'[k].owner \in alive'
    OBVIOUS
  <2>1. CASE k = m
    BY <1>2, <2>1 DEF Memory!Exists
  <2>2. CASE k # m
    <3>1. k <= made /\ memories[k].owner \in alive
      BY <1>1, <1>2, <2>2 DEF Memory!Exists, Memory!TypeOK
    <3> QED BY <1>2, <1>3, <2>2, <3>1, MemoryBounds
  <2> QED BY <2>1, <2>2
<1>5. Memory!TypeOK'
  BY <1>1, <1>2, <1>3, <1>4 DEF Memory!TypeOK
<1>6. Memory!AttributionSurvives'
  <2> SUFFICES ASSUME NEW k \in Memory!Ids, Memory!Exists(k)'
               PROVE  /\ <<memories'[k].owner, memories'[k].author, memories'[k].seed>> = given'[k]
                      /\ memories'[k].seed # 0 =>
                           memories'[k].author = parentOf'[memories'[k].owner] /\ memories'[k].seed < k
    BY DEF Memory!AttributionSurvives
  <2>1. CASE k = m
    BY <1>2, <2>1 DEF Memory!Exists
  <2>2. CASE k # m
    BY <1>1, <1>2, <2>2 DEF Memory!Exists, Memory!AttributionSurvives
  <2> QED BY <2>1, <2>2
<1> QED BY <1>5, <1>6 DEF MemoryIInv

\* The owner of a memory writes it again.
LEMMA RowIsRewritten ==
    ASSUME MemoryIInv, NEW m \in Memory!Ids, Memory!Exists(m),
           NEW row2 \in Memory!MemoryRow \cup {Memory!Absent},
           memories' = [memories EXCEPT ![m] = row2],
           UNCHANGED <<made, parentOf, alive, members, given>>,
           row2 # Memory!Absent =>
               /\ row2.owner = memories[m].owner /\ row2.author = memories[m].author
               /\ row2.seed = memories[m].seed
    PROVE  MemoryIInv'
<1>1. PICK seen : seen = given[m]
  OBVIOUS
<1>2. /\ seen \in (Memory!Agents \cup {NoOne}) \X (Memory!Agents \cup {NoOne}) \X (0..MaxMemories)
      /\ given' = [given EXCEPT ![m] = seen]
      /\ made' \in made..MaxMemories /\ m <= made'
      /\ memories[m].owner \in alive
      /\ <<memories[m].owner, memories[m].author, memories[m].seed>> = seen
      /\ memories[m].seed # 0 => memories[m].author = parentOf[memories[m].owner]
                                 /\ memories[m].seed < m
  BY <1>1, MemoryBounds DEF MemoryIInv, Memory!TypeOK, Memory!AttributionSurvives
<1> QED BY <1>2, RowIsWritten

LEMMA MemoryIsWritten ==
    ASSUME MemoryIInv, NEW a \in Memory!Agents, NEW s \in Memory!Scopes,
           NEW f \in MemoryTeams \cup {NoOne}, NEW r \in MemoryRoles, Memory!Write(a, s, f, r)
    PROVE  MemoryIInv'
<1>1. PICK m : m = made + 1
  OBVIOUS
<1>2. PICK g : g = Memory!Anchored(a, s, f)
  OBVIOUS
<1>3. g \in MemoryTeams \cup Memory!Agents \cup {NoOne}
  BY <1>2 DEF Memory!Anchored
<1>4. PICK row2 : row2 = Memory!Row(a, s, g, r, NoOne, 0)
  OBVIOUS
<1>5. /\ row2 \in Memory!MemoryRow /\ row2.owner = a /\ row2.author = NoOne /\ row2.seed = 0
  <2>1. 0 \in 0..MaxMemories /\ NoOne \in Memory!Agents \cup {NoOne}
    BY MemoryBounds
  <2>2. row2 = [owner |-> a, scope |-> s, ref |-> g, role |-> r, author |-> NoOne, seed |-> 0]
    BY <1>4 DEF Memory!Row
  <2> QED BY <1>3, <2>1, <2>2 DEF Memory!MemoryRow
<1>6. PICK seen : seen = <<a, NoOne, 0>>
  OBVIOUS
<1>7. seen \in (Memory!Agents \cup {NoOne}) \X (Memory!Agents \cup {NoOne}) \X (0..MaxMemories)
  BY <1>6, MemoryBounds
<1>8. /\ memories' = [memories EXCEPT ![m] = row2] /\ given' = [given EXCEPT ![m] = seen]
      /\ UNCHANGED <<parentOf, alive, members>> /\ a \in alive
      /\ made' = m /\ made < MaxMemories
  BY <1>1, <1>2, <1>4, <1>6 DEF Memory!Write
<1>9. m \in Memory!Ids /\ made' \in made..MaxMemories /\ m <= made'
  BY <1>1, <1>8, MemoryBounds DEF MemoryIInv, Memory!TypeOK
<1> QED BY <1>5, <1>6, <1>7, <1>8, <1>9, RowIsWritten

LEMMA MemoryIsUpdated ==
    ASSUME MemoryIInv, NEW a \in Memory!Agents, NEW s \in Memory!Scopes, NEW m \in Memory!Ids,
           NEW f \in MemoryTeams \cup {NoOne}, NEW r \in MemoryRoles,
           Memory!Update(a, m, s, f, r)
    PROVE  MemoryIInv'
<1>1. memories[m] \in Memory!MemoryRow /\ Memory!Exists(m) /\ memories[m].owner = a
  BY DEF Memory!Update, Memory!Owned, Memory!Exists, MemoryIInv, Memory!TypeOK
<1>2. PICK g : g = IF f = NoOne THEN memories[m].ref ELSE f
  OBVIOUS
<1>3. /\ g \in MemoryTeams \cup Memory!Agents \cup {NoOne}
      /\ memories[m].author \in Memory!Agents \cup {NoOne}
      /\ memories[m].seed \in 0..MaxMemories
  BY <1>1, <1>2 DEF Memory!MemoryRow
<1>4. PICK row2 : row2 = Memory!Row(a, s, g, r, memories[m].author, memories[m].seed)
  OBVIOUS
<1>5. /\ row2 \in Memory!MemoryRow /\ row2.owner = memories[m].owner
      /\ row2.author = memories[m].author /\ row2.seed = memories[m].seed
  <2>1. row2 = [owner |-> a, scope |-> s, ref |-> g, role |-> r, author |-> memories[m].author,
                seed |-> memories[m].seed]
    BY <1>4 DEF Memory!Row
  <2> QED BY <1>1, <1>3, <2>1 DEF Memory!MemoryRow
<1>6. /\ memories' = [memories EXCEPT ![m] = row2]
      /\ UNCHANGED <<made, parentOf, alive, members, given>>
  BY <1>2, <1>4 DEF Memory!Update, Memory!Updated
<1> QED BY <1>1, <1>5, <1>6, RowIsRewritten

LEMMA MemoryIsPromoted ==
    ASSUME MemoryIInv, NEW a \in Memory!Agents, NEW m \in Memory!Ids, NEW t \in MemoryTeams,
           Memory!Promote(a, m, t)
    PROVE  MemoryIInv'
<1>1. Memory!Exists(m) /\ memories[m] \in Memory!MemoryRow
      /\ UNCHANGED <<made, parentOf, alive, members, given>>
  BY DEF Memory!Promote, Memory!Exists, MemoryIInv, Memory!TypeOK
<1>2. PICK row2 : row2 = [memories[m] EXCEPT !.scope = "team", !.ref = t]
  OBVIOUS
<1>3. /\ row2 \in Memory!MemoryRow /\ row2.owner = memories[m].owner
      /\ row2.author = memories[m].author /\ row2.seed = memories[m].seed
  BY <1>1, <1>2, MemoryBounds DEF Memory!MemoryRow
<1>4. memories' = [memories EXCEPT ![m] = row2]
  BY <1>1, <1>2 DEF Memory!Promote, MemoryIInv, Memory!TypeOK
<1> QED BY <1>1, <1>3, <1>4, RowIsRewritten

LEMMA MemoryIsForgotten ==
    ASSUME MemoryIInv, NEW a \in Memory!Agents, NEW m \in Memory!Ids, Memory!Forget(a, m)
    PROVE  MemoryIInv'
BY RowIsRewritten DEF Memory!Forget

\* The copies a child is given are of rows that its parent has.
LEMMA SeedsAreOlder ==
    ASSUME MemoryIInv, NEW a \in Memory!Agents, NEW extras \in SUBSET Memory!Ids,
           NEW seeds, seeds = Memory!Seeds(a, extras),
           NEW id \in (made + 1)..(made + Memory!Cardinality(seeds))
    PROVE  /\ Memory!SeedOf(seeds, id) \in seeds
           /\ Memory!Exists(Memory!SeedOf(seeds, id))
           /\ Memory!SeedOf(seeds, id) \in 1..made
<1>1. made \in Nat /\ MaxMemories \in Nat
  BY MemoryBounds DEF MemoryIInv, Memory!TypeOK
<1>2. \A m \in seeds : m \in Memory!Ids /\ Memory!Exists(m)
  <2>1. \A m \in seeds : m \in Memory!Ids /\ memories[m].owner = a
    BY DEF Memory!Seeds, Memory!Principles, Memory!Owned
  <2>2. Memory!Absent.owner = NoOne /\ a # NoOne
    BY MemoryBounds DEF Memory!Absent
  <2> QED BY <2>1, <2>2 DEF Memory!Exists
<1>3. seeds \in SUBSET (1..made)
  BY <1>1, <1>2, MemoryBounds DEF MemoryIInv, Memory!TypeOK
<1>4. Memory!Cardinality(seeds) = Cardinality(seeds) /\ Cardinality(seeds) \in Nat
  <2>1. IsFiniteSet(1..made)
    BY <1>1, FS_Interval
  <2> QED BY <1>3, <2>1, FS_Subset, FS_CardinalityType, MemoriesAreCounted
<1>5. id - made \in 1..Cardinality(seeds)
  BY <1>1, <1>4
<1>6. PICK m \in seeds : Cardinality({k \in seeds : k <= m}) = id - made
  BY <1>1, <1>3, <1>5, RanksAreTaken
<1>7. made + Memory!Cardinality({k \in seeds : k <= m}) = id
  BY <1>1, <1>4, <1>5, <1>6, MemoriesAreCounted
<1>8. Memory!SeedOf(seeds, id) \in seeds
  BY <1>7 DEF Memory!SeedOf
<1> QED BY <1>2, <1>3, <1>8

LEMMA ChildIsSpawned ==
    ASSUME MemoryIInv, NEW a \in Memory!Agents, NEW child \in Children,
           NEW extras \in SUBSET Memory!Ids, Memory!Spawn(a, child, extras)
    PROVE  MemoryIInv'
<1>1. PICK seeds : seeds = Memory!Seeds(a, extras)
  OBVIOUS
<1>2. PICK n : n = made + Memory!Cardinality(seeds)
  OBVIOUS
<1>3. /\ a \in alive /\ child \notin alive /\ child \in Memory!Agents
      /\ n <= MaxMemories /\ made' = n
      /\ alive' = alive \cup {child} /\ parentOf' = [parentOf EXCEPT ![child] = a]
      /\ members' = members
      /\ memories' = [id \in Memory!Ids |->
            IF id \in (made + 1)..n
            THEN Memory!Row(child, "private", child, memories[Memory!SeedOf(seeds, id)].role, a,
                            Memory!SeedOf(seeds, id))
            ELSE memories[id]]
      /\ given' = [id \in Memory!Ids |->
            IF id \in (made + 1)..n THEN <<child, a, Memory!SeedOf(seeds, id)>> ELSE given[id]]
  BY <1>1, <1>2, MemoryBounds DEF Memory!Spawn
<1>4. made \in Nat /\ MaxMemories \in Nat /\ Memory!TypeOK /\ Memory!AttributionSurvives
  BY MemoryBounds DEF MemoryIInv, Memory!TypeOK
<1>5. n \in made..MaxMemories
  <2>1. \A m \in seeds : m \in 1..MaxMemories
    BY <1>1, MemoryBounds DEF Memory!Seeds, Memory!Principles
  <2>2. Memory!Cardinality(seeds) \in Nat
    <3>1. IsFiniteSet(1..MaxMemories)
      BY <1>4, FS_Interval
    <3> QED BY <2>1, <3>1, FS_Subset, FS_CardinalityType, MemoriesAreCounted
  <2> QED BY <1>2, <1>3, <1>4, <2>2
<1>6. \A id \in (made + 1)..n :
          /\ Memory!SeedOf(seeds, id) \in 1..made /\ Memory!SeedOf(seeds, id) \in 0..MaxMemories
          /\ Memory!SeedOf(seeds, id) < id
          /\ memories[Memory!SeedOf(seeds, id)].role \in MemoryRoles
  <2> SUFFICES ASSUME NEW id \in (made + 1)..n
               PROVE  /\ Memory!SeedOf(seeds, id) \in 1..made
                      /\ Memory!SeedOf(seeds, id) \in 0..MaxMemories
                      /\ Memory!SeedOf(seeds, id) < id
                      /\ memories[Memory!SeedOf(seeds, id)].role \in MemoryRoles
    OBVIOUS
  <2>1. PICK m : m = Memory!SeedOf(seeds, id)
    OBVIOUS
  <2>2. m \in 1..made /\ Memory!Exists(m)
    BY <1>1, <1>2, <2>1, SeedsAreOlder
  <2>3. m \in 0..MaxMemories /\ m \in Memory!Ids /\ m < id
    BY <1>4, <1>5, <2>2, MemoryBounds DEF Memory!TypeOK
  <2>4. memories[m].role \in MemoryRoles
    BY <1>4, <2>2, <2>3 DEF Memory!TypeOK, Memory!Exists, Memory!MemoryRow
  <2> QED BY <2>1, <2>2, <2>3, <2>4
<1>7. \A id \in Memory!Ids : id \in (made + 1)..n =>
          /\ memories'[id] \in Memory!MemoryRow /\ memories'[id].owner = child
          /\ memories'[id].author = a /\ memories'[id].seed = Memory!SeedOf(seeds, id)
          /\ given'[id] = <<child, a, Memory!SeedOf(seeds, id)>>
  <2> SUFFICES ASSUME NEW id \in Memory!Ids, id \in (made + 1)..n
               PROVE  /\ memories'[id] \in Memory!MemoryRow /\ memories'[id].owner = child
                      /\ memories'[id].author = a /\ memories'[id].seed = Memory!SeedOf(seeds, id)
                      /\ given'[id] = <<child, a, Memory!SeedOf(seeds, id)>>
    OBVIOUS
  <2>1. PICK m, r : m = Memory!SeedOf(seeds, id) /\ r = memories[m].role
    OBVIOUS
  <2>2. memories'[id] = Memory!Row(child, "private", child, r, a, m) /\ given'[id] = <<child, a, m>>
    BY <1>3, <2>1
  <2>3. m \in 0..MaxMemories /\ r \in MemoryRoles
    BY <1>6, <2>1
  <2>4. child \in Memory!Agents /\ child \in MemoryTeams \cup Memory!Agents \cup {NoOne}
        /\ a \in Memory!Agents \cup {NoOne}
    BY <1>3
  <2>5. PICK new : new = memories'[id]
    OBVIOUS
  <2>6. new = [owner |-> child, scope |-> "private", ref |-> child, role |-> r, author |-> a,
               seed |-> m]
    BY <2>2, <2>5 DEF Memory!Row
  <2>7. new \in Memory!MemoryRow
    BY <2>3, <2>4, <2>6, MemoryBounds DEF Memory!MemoryRow
  <2> QED BY <2>1, <2>2, <2>5, <2>6, <2>7
<1>8. \A id \in Memory!Ids : id \notin (made + 1)..n =>
          memories'[id] = memories[id] /\ given'[id] = given[id]
  BY <1>3
<1>9. memories' \in [Memory!Ids -> Memory!MemoryRow \cup {Memory!Absent}]
  BY <1>3, <1>4, <1>7, <1>8 DEF Memory!TypeOK
<1>10. given' \in [Memory!Ids -> (Memory!Agents \cup {NoOne}) \X (Memory!Agents \cup {NoOne})
                                                             \X (0..MaxMemories)]
  <2>1. \A id \in Memory!Ids : given'[id] \in (Memory!Agents \cup {NoOne})
                                   \X (Memory!Agents \cup {NoOne}) \X (0..MaxMemories)
    BY <1>3, <1>4, <1>6, <1>7, <1>8 DEF Memory!TypeOK
  <2> QED BY <1>3, <2>1
<1>11. /\ made' \in 0..MaxMemories /\ alive' \subseteq Memory!Agents
       /\ parentOf' \in [Memory!Agents -> Memory!Agents \cup {NoOne}]
       /\ members' \in [MemoryTeams -> SUBSET Memory!Agents]
  BY <1>3, <1>4, <1>5 DEF Memory!TypeOK
<1>12. \A id \in Memory!Ids : Memory!Exists(id)' => id <= made' /\ memories'[id].owner \in alive'
  BY <1>3, <1>4, <1>5, <1>7, <1>8, MemoryBounds DEF Memory!TypeOK, Memory!Exists
<1>13. Memory!AttributionSurvives'
  <2> SUFFICES ASSUME NEW id \in Memory!Ids, Memory!Exists(id)'
               PROVE  /\ <<memories'[id].owner, memories'[id].author, memories'[id].seed>> = given'[id]
                      /\ memories'[id].seed # 0 =>
                           memories'[id].author = parentOf'[memories'[id].owner] /\ memories'[id].seed < id
    BY DEF Memory!AttributionSurvives
  <2>1. CASE id \in (made + 1)..n
    BY <1>3, <1>4, <1>6, <1>7, <2>1 DEF Memory!TypeOK
  <2>2. CASE id \notin (made + 1)..n
    <3>1. memories'[id] = memories[id] /\ given'[id] = given[id] /\ Memory!Exists(id)
      BY <1>8, <2>2 DEF Memory!Exists
    <3>2. memories[id].owner \in alive /\ memories[id].owner # child
      BY <1>3, <1>4, <3>1 DEF Memory!TypeOK
    <3>3. parentOf'[memories[id].owner] = parentOf[memories[id].owner]
      BY <1>3, <1>4, <3>2 DEF Memory!TypeOK
    <3> QED BY <1>4, <3>1, <3>3 DEF Memory!AttributionSurvives
  <2> QED BY <2>1, <2>2
<1> QED BY <1>9, <1>10, <1>11, <1>12, <1>13 DEF MemoryIInv, Memory!TypeOK

LEMMA TeamsChange ==
    ASSUME MemoryIInv, NEW a \in Memory!Agents, NEW t \in MemoryTeams, Memory!Membership(a, t)
    PROVE  MemoryIInv'
<1>1. members' \in [MemoryTeams -> SUBSET Memory!Agents]
  BY DEF Memory!Membership, MemoryIInv, Memory!TypeOK
<1> QED BY <1>1 DEF Memory!Membership, MemoryIInv, Memory!TypeOK, Memory!AttributionSurvives,
           Memory!Exists

LEMMA MemoryNext == MemoryIInv /\ [Memory!Next]_(Memory!memoryVars) => MemoryIInv'
<1> SUFFICES ASSUME MemoryIInv, [Memory!Next]_(Memory!memoryVars) PROVE MemoryIInv'
  OBVIOUS
<1>1. CASE UNCHANGED Memory!memoryVars
  BY <1>1 DEF Memory!memoryVars, MemoryIInv, Memory!TypeOK, Memory!AttributionSurvives,
              Memory!Exists
<1>2. CASE Memory!Next
  <2> PICK a \in Memory!Agents :
        \/ \E s \in Memory!Scopes, f \in MemoryTeams \cup {NoOne}, r \in MemoryRoles :
              Memory!Write(a, s, f, r) \/ \E m \in Memory!Ids : Memory!Update(a, m, s, f, r)
        \/ \E m \in Memory!Ids : Memory!Forget(a, m) \/ \E t \in MemoryTeams : Memory!Promote(a, m, t)
        \/ \E child \in Children, extras \in SUBSET Memory!Ids : Memory!Spawn(a, child, extras)
        \/ \E t \in MemoryTeams : Memory!Membership(a, t)
    BY <1>2 DEF Memory!Next
  <2>1. ASSUME NEW s \in Memory!Scopes, NEW f \in MemoryTeams \cup {NoOne}, NEW r \in MemoryRoles,
               Memory!Write(a, s, f, r) \/ \E m \in Memory!Ids : Memory!Update(a, m, s, f, r)
        PROVE  MemoryIInv'
    BY <2>1, MemoryIsWritten, MemoryIsUpdated
  <2>2. ASSUME NEW m \in Memory!Ids, Memory!Forget(a, m) \/ \E t \in MemoryTeams : Memory!Promote(a, m, t)
        PROVE  MemoryIInv'
    BY <2>2, MemoryIsForgotten, MemoryIsPromoted
  <2>3. ASSUME NEW child \in Children, NEW extras \in SUBSET Memory!Ids, Memory!Spawn(a, child, extras)
        PROVE  MemoryIInv'
    BY <2>3, ChildIsSpawned
  <2> QED BY <2>1, <2>2, <2>3, TeamsChange
<1> QED BY <1>1, <1>2

\* What a search finds can be read, and the reverse, also through lineage,
\* and a memory says for good whose it is and where it was copied from, for
\* any agents, teams, roles, memories and edits (memory/tools.ts:153-623,
\* agent/manager.ts:340-409).
THEOREM MemoriesPrivate == AgentSpec => []MemoriesStayPrivate
<1>1. MemoryIInv => MemoriesStayPrivate
  <2> SUFFICES ASSUME MemoryIInv PROVE MemoriesStayPrivate
    OBVIOUS
  <2>1. \A a \in alive : Memory!SearchHits(a) = {m \in Memory!Ids : Memory!Readable(a, m)}
    BY DEF Memory!SearchHits, Memory!Readable
  <2>2. ASSUME NEW a \in alive, NEW role \in MemoryRoles, NEW m \in Memory!LineageHits(a, role)
        PROVE  m \in Memory!SearchHits(a)
    <3>1. /\ m \in Memory!Ids /\ Memory!Exists(m)
          /\ memories[m].scope \notin {"private", "scratch"}
          /\ \E t \in MemoryTeams : memories[m].ref = t /\ a \in members[t]
      BY <2>2 DEF Memory!LineageHits
    <3>2. memories[m].scope = "team"
      BY <3>1 DEF MemoryIInv, Memory!TypeOK, Memory!Exists, Memory!MemoryRow, Memory!Scopes
    <3> QED BY <3>1, <3>2 DEF Memory!SearchHits
  <2>3. Memory!FindersAgree
    BY <2>1, <2>2 DEF Memory!FindersAgree
  <2> QED BY <2>3 DEF MemoriesStayPrivate, MemoryIInv
<1> QED BY <1>1, MemoryInit, MemoryNext, AgentsRemember, PTL
=============================================================================
