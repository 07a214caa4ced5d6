---------------------------- MODULE ClaimWindow ----------------------------
(***************************************************************************)
(* The leaderless claim window (src/src/scheduler/claims.ts) on a mesh of  *)
(* hosts that all received one team-scoped claimable event.  Every host    *)
(* publishes a task.claim event, collects the claims of the others for a   *)
(* while, and runs the task if its own claim is the lowest it knows of.    *)
(* There is no arbiter; a claim that comes too late is answered by marking *)
(* the own row "split_brain".                                              *)
(*                                                                         *)
(* One arbitration key (event, task fingerprint) is modelled: keys do not  *)
(* interact except through the host's clock, and the physical time a clock *)
(* reads is arbitrary here.  The timer is not timed: a window may close at *)
(* any moment after it was opened, so a slow link, a partition and a late  *)
(* claim are all "the window closed before the claim arrived".             *)
(***************************************************************************)
EXTENDS HLC, FiniteSets

CONSTANTS
    Host,        \* host ids, ordered as their strings are
    MaxBoot,     \* a host is started at most this many times
    MaxPhysical, \* physical clocks read values in 1 .. MaxPhysical
    EventHlc     \* the stamp of the claimable event

ASSUME HostAssumption == Host \subseteq Nat /\ IsFiniteSet(Host)
ASSUME BootAssumption == MaxBoot \in Nat \ {0}
ASSUME PhysicalAssumption == MaxPhysical \in Nat
ASSUME EventAssumption == EventHlc \in Stamp

Boot == 1 .. MaxBoot

Physical == 1 .. MaxPhysical

\* A host claims an event once per process, so (host, boot) names the claim.
\* boot also orders the claim ids of one host, which are ULIDs.
Claim == [host : Host, boot : Boot]

NoClaim == [host |-> -1, boot |-> 0]

Status == {"absent", "intent", "won", "lost", "split_brain"}

VARIABLES
    clock,       \* clock[h]: the host's HLC; in memory
    boot,        \* boot[h]: which process of the host is running
    received,    \* received[h]: the event was dispatched on this process's bus
    pending,     \* pending[h]: the claim whose window is open; in memory
    wonLocally,  \* wonLocally[h]: this process won the key; in memory
    memo,        \* memo[h]: claims the bus already dispatched; in memory
    row,         \* row[h][k]: status of k in h's team_claims table; durable
    hlc,         \* hlc[k]: stamp of k's task.claim event, ZeroStamp before
    ran,         \* claims whose window was won, so that the task was run
    alarms       \* mesh.claim-split-brain events: own claim, late claim

volatile == <<clock, boot, received, pending, wonLocally, memo>>
vars == <<clock, boot, received, pending, wonLocally, memo, row, hlc, ran, alarms>>

----------------------------------------------------------------------------
(* Helpers *)

published == {k \in Claim : hlc[k] # ZeroStamp}

known(h) == {k \in Claim : row[h][k] # "absent"}

Own(h) == [host |-> h, boot |-> boot[h]]

\* compareTuple(a, b) < 0: stamp, then host id, then claim id.
Before(a, b) ==
    \/ StampLess(hlc[a], hlc[b])
    \/ /\ hlc[a] = hlc[b]
       /\ \/ a.host < b.host
          \/ a.host = b.host /\ a.boot < b.boot

\* Mutant: the host id decides before the stamp.
LowestByHost(k, S) == k \in S /\ \A j \in S \ {k} : k.host <= j.host

IsLowest(k, S) == k \in S /\ \A j \in S \ {k} : Before(k, j)

\* The row handleClaimEvent takes for "ours": the first one of this host.
OurRow(h) ==
    CHOOSE k \in known(h) :
        /\ k.host = h
        /\ \A j \in known(h) : j.host = h => k.boot <= j.boot

TypeOK ==
    /\ clock \in [Host -> Stamp]
    /\ boot \in [Host -> Boot]
    /\ received \in [Host -> BOOLEAN]
    /\ pending \in [Host -> Claim \cup {NoClaim}]
    /\ wonLocally \in [Host -> BOOLEAN]
    /\ memo \in [Host -> SUBSET Claim]
    /\ row \in [Host -> [Claim -> Status]]
    /\ hlc \in [Claim -> Stamp]
    /\ ran \in SUBSET Claim
    /\ alarms \in SUBSET [local : Claim, late : Claim]

Init ==
    /\ clock = [h \in Host |-> ZeroStamp]
    /\ boot = [h \in Host |-> 1]
    /\ received = [h \in Host |-> FALSE]
    /\ pending = [h \in Host |-> NoClaim]
    /\ wonLocally = [h \in Host |-> FALSE]
    /\ memo = [h \in Host |-> {}]
    /\ row = [h \in Host |-> [k \in Claim |-> "absent"]]
    /\ hlc = [k \in Claim |-> ZeroStamp]
    /\ ran = {}
    /\ alarms = {}

----------------------------------------------------------------------------
(* Actions *)

\* bus.inject of the claimable event: the clock merges its stamp.  The
\* scheduler may have to queue the event, so that claiming is a later step.
ReceiveEvent(h) ==
    /\ ~received[h]
    /\ received' = [received EXCEPT ![h] = TRUE]
    /\ \E pt \in Physical : clock' = [clock EXCEPT ![h] = Recv(@, EventHlc, pt)]
    /\ UNCHANGED <<boot, pending, wonLocally, memo, row, hlc, ran, alarms>>

\* registerIntent: publish task.claim, which the host's own subscription
\* persists as an intent row before publish returns, then open the window.
RegisterIntent(h) ==
    LET k == Own(h) IN
    /\ received[h]
    /\ hlc[k] = ZeroStamp
    /\ \E pt \in Physical :
         /\ clock' = [clock EXCEPT ![h] = Now(@, pt)]
         /\ hlc' = [hlc EXCEPT ![k] = Now(clock[h], pt)]
    /\ memo' = [memo EXCEPT ![h] = @ \cup {k}]
    /\ row' = [row EXCEPT ![h][k] = "intent"]
    /\ pending' = [pending EXCEPT ![h] = k]
    /\ UNCHANGED <<boot, received, wonLocally, ran, alarms>>

\* INSERT OR IGNORE of an intent row for k.
Persisted(h, k) ==
    IF row[h][k] = "absent" THEN [row[h] EXCEPT ![k] = "intent"] ELSE row[h]

\* Mutant: the check looks for an open window instead of a won one.
LateForOpenWindow(h, k) == pending[h] # NoClaim /\ Before(k, pending[h])

\* Mutant: the check compares stamps only and overlooks ties.
LateByStampOnly(h, k) ==
    wonLocally[h] /\ OurRow(h) # k /\ StampLess(hlc[k], hlc[OurRow(h)])

\* The split-brain check of handleClaimEvent: k arrived after this process
\* won the key, it is lower than our row, and our row is not flagged yet.
ArrivedTooLate(h, k) ==
    /\ wonLocally[h]
    /\ OurRow(h) # k
    /\ row[h][OurRow(h)] # "split_brain"
    /\ Before(k, OurRow(h))

\* bus.inject of a peer's (or, after a restart, an echoed own) task.claim and
\* handleClaimEvent on it.  Redelivery to the same process is dropped by the
\* bus.  The split-brain event is published inside the handler.
DeliverClaim(h, k) ==
    /\ k \in published \ memo[h]
    /\ memo' = [memo EXCEPT ![h] = @ \cup {k}]
    /\ \E pt \in Physical :
         LET merged == Recv(clock[h], hlc[k], pt) IN
         \/ /\ ~ArrivedTooLate(h, k)
            /\ clock' = [clock EXCEPT ![h] = merged]
            /\ row' = [row EXCEPT ![h] = Persisted(h, k)]
            /\ UNCHANGED alarms
         \/ /\ ArrivedTooLate(h, k)
            /\ clock' = [clock EXCEPT ![h] = Now(merged, pt)]
            /\ row' = [row EXCEPT ![h] =
                          [Persisted(h, k) EXCEPT ![OurRow(h)] = "split_brain"]]
            /\ alarms' = alarms \cup {[local |-> OurRow(h), late |-> k]}
    /\ UNCHANGED <<boot, received, pending, wonLocally, hlc, ran>>

\* Mutant: the own row is left at "intent" when the window is won.
WinKeepsIntent(h) ==
    LET k == pending[h] IN
    /\ k # NoClaim
    /\ IsLowest(k, known(h))
    /\ pending' = [pending EXCEPT ![h] = NoClaim]
    /\ wonLocally' = [wonLocally EXCEPT ![h] = TRUE]
    /\ ran' = ran \cup {k}
    /\ UNCHANGED <<clock, boot, received, memo, row, hlc, alarms>>

\* decideWindow, won: our claim is the lowest row, whatever the rows' status.
Win(h) ==
    LET k == pending[h] IN
    /\ k # NoClaim
    /\ IsLowest(k, known(h))
    /\ pending' = [pending EXCEPT ![h] = NoClaim]
    /\ row' = [row EXCEPT ![h] = [j \in Claim |->
                  IF j = k THEN "won"
                  ELSE IF row[h][j] = "absent" THEN "absent" ELSE "lost"]]
    /\ wonLocally' = [wonLocally EXCEPT ![h] = TRUE]
    /\ ran' = ran \cup {k}
    /\ UNCHANGED <<clock, boot, received, memo, hlc, alarms>>

\* Mutant: the status vocabulary of the single-host claims table.
LoseAsFailed(h) ==
    LET k == pending[h] IN
    /\ k # NoClaim
    /\ ~IsLowest(k, known(h))
    /\ pending' = [pending EXCEPT ![h] = NoClaim]
    /\ row' = [row EXCEPT ![h][k] = "failed"]
    /\ UNCHANGED <<clock, boot, received, wonLocally, memo, hlc, ran, alarms>>

\* decideWindow, lost: only our own row is updated.
Lose(h) ==
    LET k == pending[h] IN
    /\ k # NoClaim
    /\ ~IsLowest(k, known(h))
    /\ pending' = [pending EXCEPT ![h] = NoClaim]
    /\ row' = [row EXCEPT ![h][k] = "lost"]
    /\ UNCHANGED <<clock, boot, received, wonLocally, memo, hlc, ran, alarms>>

\* The daemon dies and is started again: the clock, the bus memo, the open
\* windows and wonLocally were in memory; the team_claims rows stay.
Restart(h) ==
    /\ boot[h] < MaxBoot
    /\ boot' = [boot EXCEPT ![h] = @ + 1]
    /\ clock' = [clock EXCEPT ![h] = ZeroStamp]
    /\ received' = [received EXCEPT ![h] = FALSE]
    /\ pending' = [pending EXCEPT ![h] = NoClaim]
    /\ wonLocally' = [wonLocally EXCEPT ![h] = FALSE]
    /\ memo' = [memo EXCEPT ![h] = {}]
    /\ UNCHANGED <<row, hlc, ran, alarms>>

Decide(h) == Win(h) \/ Lose(h)

Next == \E h \in Host :
    \/ ReceiveEvent(h)
    \/ RegisterIntent(h)
    \/ \E k \in Claim : DeliverClaim(h, k)
    \/ Decide(h)
    \/ Restart(h)

Spec == Init /\ [][Next]_vars

\* The event loop runs due timers, and the mesh delivers what was published
\* (live, or by catchup once the link is back).  Nothing forces a host to
\* receive the event, or its busy slot to become free and claim it.
Fairness == \A h \in Host :
    /\ WF_vars(Decide(h))
    /\ \A k \in Claim : WF_vars(DeliverClaim(h, k))

FairSpec == Spec /\ Fairness

----------------------------------------------------------------------------
(* Properties *)

\* The claims that still count as the task's owner: run, and not flagged.
owners == {k \in ran : row[k.host][k] = "won"}

\* h never claimed the event in an earlier process.
ClaimedOnce(h) == \A k \in known(h) : k.host = h => k = Own(h)

\* A host whose own row still says "won" knows of no lower claim: whenever one
\* arrives, before or after the window closed, the row stops saying so.
WonRowIsLowest ==
    \A h \in Host :
        wonLocally[h] /\ ClaimedOnce(h) /\ row[h][Own(h)] = "won"
            => IsLowest(Own(h), known(h))

\* Two hosts both run the task and neither is flagged only as long as the
\* claim of one of them has not reached the other.
UnflaggedWinnersHaveNotMet ==
    \A g, h \in Host :
        /\ g # h
        /\ wonLocally[g] /\ ClaimedOnce(g) /\ row[g][Own(g)] = "won"
        /\ wonLocally[h] /\ ClaimedOnce(h) /\ row[h][Own(h)] = "won"
        => Own(g) \notin known(h) \/ Own(h) \notin known(g)

\* A claim is given up or flagged only because a lower claim is known: the
\* lowest claim of the mesh is never marked lost or split_brain.
YieldsOnlyToLower ==
    \A h \in Host : \A k \in known(h) :
        row[h][k] \in {"lost", "split_brain"} => \E j \in known(h) : Before(j, k)

\* Every window is closed, and every claim reached every claimant.
Settled ==
    /\ \A h \in Host : pending[h] = NoClaim /\ boot[h] = 1
    /\ \A j, k \in published : j \in known(k.host)

\* Without restarts, once the mesh has settled the one owner of the task is
\* the host with the lowest claim, however the windows and messages raced.
LowestOwns ==
    Settled => owners = {k \in published : IsLowest(k, published)}

\* "Exactly one cell wins per tick under partition-free conditions"
\* (src/docs/design/LOG.md:1014), at its weakest and with restarts: when every
\* process claimed, every claim arrived and every window closed, somebody ran.
\* The intent row of a process that died is never withdrawn, so it may win.
SomeoneRuns ==
    /\ \A h \in Host : pending[h] = NoClaim /\ Own(h) \in published
    /\ \A h \in Host : published \subseteq memo[h]
    => ran # {}

\* A lower claim that reaches the process that won is always reported, even
\* when an earlier process of the host had claimed the event too.
LateClaimIsReported ==
    \A h \in Host : \A k \in known(h) :
        wonLocally[h] /\ Before(k, Own(h)) => \E a \in alarms : a.local.host = h

\* A claim sorts after every claim this process had received when it was
\* published: a host that knows a rival's claim cannot undercut it.
NoUndercutting ==
    [][\A k \in Claim :
         hlc[k] = ZeroStamp /\ hlc'[k] # ZeroStamp
             => \A j \in memo[k.host] : StampLess(hlc[j], hlc'[k])]_vars

\* Without restarts the mesh ends up with exactly one owner.
EventuallyOneOwner ==
    <>[](published # {} => \E k \in published : owners = {k})
=============================================================================
