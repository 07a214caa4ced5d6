---------------------------- MODULE Permissions ----------------------------
(***************************************************************************)
(* Scopes of agents: what a scope allows (permissions/check.ts), when a    *)
(* child's scope narrows its parent's, and what a granted tool adds        *)
(* (permissions/grant.ts).  A field that is absent in the code is Unset.     *)
(***************************************************************************)
EXTENDS FiniteSets

CONSTANTS Tiers,    \* operational, strategic, vision
          Tools,    \* names of tools
          TierOf,   \* the tier a tool declares
          Unset       \* a field that is not there: no restriction

PermissionsAssumption ==
    /\ TierOf \in [Tools -> Tiers]
    /\ \A S \in (SUBSET Tiers) \cup (SUBSET Tools) : S # Unset

Scope == [tiers : (SUBSET Tiers) \cup {Unset},
          allow : (SUBSET Tools) \cup {Unset},
          deny  : SUBSET Tools]

Unrestricted == [tiers |-> Unset, allow |-> Unset, deny |-> {}]

Lists(field, x) == field # Unset => x \in field

(* checkTool: the deny list, the allow list, then the tier it is told. *)
Allows(s, tool, tier) ==
    /\ tool \notin s.deny
    /\ Lists(s.allow, tool)
    /\ Lists(s.tiers, tier)

(* Calls are checked at the tier the tool declares. *)
CheckTool(s, tool) == Allows(s, tool, TierOf[tool])

(* narrowsScope looks at what the child lists, and at nothing else. *)
NarrowsScope(p, c) ==
    /\ c.tiers # Unset /\ p.tiers # Unset => c.tiers \subseteq p.tiers
    /\ c.allow # Unset => \A t \in c.allow : t \notin p.deny /\ Lists(p.allow, t)

With(field, x) == IF field = Unset THEN Unset ELSE field \cup {x}

\* Mutant: the granted tool's tier is not added to the list, the list goes.
MergeGrantEveryTier(s, tool, tier) ==
    [tiers |-> Unset, allow |-> With(s.allow, tool), deny |-> s.deny \ {tool}]

MergeGrant(s, tool, tier) ==
    [tiers |-> With(s.tiers, tier), allow |-> With(s.allow, tool), deny |-> s.deny \ {tool}]

(* applyGrant's gate: the approver's scope against the one tool and tier. *)
MayGrant(s, tool, tier) ==
    NarrowsScope(s, [tiers |-> {tier}, allow |-> {tool}, deny |-> {}])

Callable(s) == {t \in Tools : CheckTool(s, t)}

----------------------------------------------------------------------------
(* The gate of a grant asks what the check of a call asks, at the tier the  *)
(* grant names: at the tool's own tier an approver grants exactly what it    *)
(* may call.                                                                *)
GateIsCheck == \A s \in Scope, t \in Tools, tier \in Tiers :
    MayGrant(s, t, tier) <=> Allows(s, t, tier)

(* A grant at the tool's tier makes the tool callable, takes nothing away,  *)
(* and applied again changes nothing.                                       *)
GrantIsMonotone == \A s \in Scope : \A t \in Tools :
    LET g == MergeGrant(s, t, TierOf[t])
    IN  /\ Callable(s) \cup {t} \subseteq Callable(g)
        /\ MergeGrant(g, t, TierOf[t]) = g

(* A child that lists both its tiers and its tools can call nothing its     *)
(* parent cannot.                                                           *)
ListedChildIsNarrower == \A p, c \in Scope :
    NarrowsScope(p, c) /\ c.tiers # Unset /\ c.allow # Unset => Callable(c) \subseteq Callable(p)
============================================================================
