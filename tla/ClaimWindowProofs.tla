------------------------- MODULE ClaimWindowProofs -------------------------
(***************************************************************************)
(* The safety of the claim window for every set of hosts, every number of  *)
(* restarts and every reading of the physical clocks.                      *)
(*                                                                         *)
(* WonRowIsLowest is not inductive alone: a step that delivers a claim     *)
(* keeps it only because the handler finds the host's own row, and a step  *)
(* that stamps a new claim keeps it only because no table can hold a claim *)
(* that was never published.  IInv adds those facts.                       *)
(***************************************************************************)
EXTENDS ClaimWindowRefinement, WellFoundedInduction, TLAPS

----------------------------------------------------------------------------
(* What hlc.ts guarantees of every stamp: local stamps increase, a merge   *)
(* dominates both the clock and the remote stamp, and the order is total.  *)

\* now() returns a stamp that is later than every earlier one of this clock,
\* even if the physical clock stands still or runs backwards.
LEMMA NowAdvances ==
    ASSUME NEW clk \in Stamp, NEW pt \in Nat \ {0}
    PROVE  /\ Now(clk, pt) \in Stamp
           /\ StampLess(clk, Now(clk, pt))
           /\ Now(clk, pt) # ZeroStamp
<1>1. CASE pt > clk.l
  BY <1>1 DEF Now, Stamp, StampLess, ZeroStamp
<1>2. CASE ~(pt > clk.l)
  BY <1>2 DEF Now, Stamp, StampLess, ZeroStamp
<1> QED BY <1>1, <1>2

\* recv() moves the clock past both its old value and the remote stamp, so
\* that whatever the host publishes next sorts after what it has received.
LEMMA RecvDominates ==
    ASSUME NEW clk \in Stamp, NEW remote \in Stamp, NEW pt \in Nat
    PROVE  /\ Recv(clk, remote, pt) \in Stamp
           /\ StampLess(clk, Recv(clk, remote, pt))
           /\ StampLess(remote, Recv(clk, remote, pt))
<1> DEFINE top == Later(Later(clk.l, remote.l), pt)
<1>1. top \in Nat /\ top >= clk.l /\ top >= remote.l
  BY DEF Later, Stamp
<1>2. CASE top = clk.l /\ top = remote.l
  BY <1>1, <1>2 DEF Recv, Later, Stamp, StampLess
<1>3. CASE top = clk.l /\ top # remote.l
  BY <1>1, <1>3 DEF Recv, Later, Stamp, StampLess
<1>4. CASE top # clk.l
  BY <1>1, <1>4 DEF Recv, Later, Stamp, StampLess
<1> QED BY <1>2, <1>3, <1>4

\* compareStamp is a strict total order, and nothing is below the zero stamp.
LEMMA StampOrder ==
    ASSUME NEW a \in Stamp, NEW b \in Stamp, NEW d \in Stamp
    PROVE  /\ StampLess(a, b) /\ StampLess(b, d) => StampLess(a, d)
           /\ ~(StampLess(a, b) /\ StampLess(b, a))
           /\ ~StampLess(a, a)
           /\ StampLess(a, b) \/ StampLess(b, a) \/ a = b
           /\ StampLess(a, b) => b # ZeroStamp
BY DEF Stamp, StampLess, ZeroStamp

----------------------------------------------------------------------------
(* The claim window *)

\* Tables and bus memos hold published claims, by processes that have started.
StoredIsPublished ==
    /\ \A h \in Host : known(h) \subseteq published
    /\ \A h \in Host : memo[h] \subseteq known(h)
    /\ \A k \in published : k.boot <= boot[k.host]
    /\ ran \subseteq published

\* An open window is the window of this process's own, undecided claim.
OpenWindow ==
    \A h \in Host : pending[h] # NoClaim =>
        /\ pending[h] = Own(h)
        /\ row[h][Own(h)] = "intent"
        /\ ~wonLocally[h]

\* The own row says what became of this process's claim.
OwnRow ==
    \A h \in Host :
        /\ wonLocally[h] => Own(h) \in known(h)
        /\ row[h][Own(h)] = "won" => wonLocally[h] /\ Own(h) \in ran
        /\ Own(h) \in published =>
              \/ pending[h] = Own(h)
              \/ row[h][Own(h)] \in {"won", "lost", "split_brain"}

\* The clock of a process is past every claim this process has dispatched.
ClockIsPast ==
    \A h \in Host : \A k \in memo[h] : StampAtMost(hlc[k], clock[h])

IInv == /\ TypeOK /\ StoredIsPublished /\ OpenWindow /\ OwnRow /\ ClockIsPast
        /\ WonRowIsLowest /\ YieldsOnlyToLower

USE HostAssumption, BootAssumption, PhysicalAssumption, EventAssumption
    DEF Boot, Physical

----------------------------------------------------------------------------
(* The order of claims *)

LEMMA OwnIsClaim ==
    ASSUME TypeOK, NEW h \in Host
    PROVE  Own(h) \in Claim /\ Own(h).host = h /\ Own(h).boot = boot[h]
           /\ Own(h) # NoClaim
BY DEF TypeOK, Own, Claim, NoClaim

\* compareTuple is a strict total order on claims.
LEMMA BeforeOrder ==
    ASSUME TypeOK, NEW a \in Claim, NEW b \in Claim
    PROVE  /\ ~Before(a, a)
           /\ ~(Before(a, b) /\ Before(b, a))
           /\ Before(a, b) \/ Before(b, a) \/ a = b
           /\ Before(a, b) /\ a \in published => b \in published
<1>1. hlc[a] \in Stamp /\ hlc[b] \in Stamp /\ ZeroStamp \in Stamp
  BY DEF TypeOK, Stamp, ZeroStamp
<1>2. /\ a.host \in Nat /\ b.host \in Nat /\ a.boot \in Nat /\ b.boot \in Nat
      /\ a.host = b.host /\ a.boot = b.boot => a = b
  <2>1. a.host \in Host /\ b.host \in Host /\ a.boot \in Boot /\ b.boot \in Boot
    BY DEF Claim
  <2>2. a.host = b.host /\ a.boot = b.boot => a = b
    BY DEF Claim
  <2>3. Host \subseteq Nat /\ Boot \subseteq Nat
    OBVIOUS
  <2>4. a.host \in Nat /\ b.host \in Nat /\ a.boot \in Nat /\ b.boot \in Nat
    BY <2>1, <2>3
  <2> QED BY <2>2, <2>4
<1> QED BY <1>1, <1>2, StampOrder DEF Before, published

LEMMA BeforeTransitive ==
    ASSUME TypeOK, NEW a \in Claim, NEW b \in Claim, NEW c \in Claim,
           Before(a, b), Before(b, c)
    PROVE  Before(a, c)
<1>1. hlc[a] \in Stamp /\ hlc[b] \in Stamp /\ hlc[c] \in Stamp
  BY DEF TypeOK
<1>2. /\ a.host \in Nat /\ b.host \in Nat /\ c.host \in Nat
      /\ a.boot \in Nat /\ b.boot \in Nat /\ c.boot \in Nat
  <2>1. /\ a.host \in Host /\ b.host \in Host /\ c.host \in Host
        /\ a.boot \in Boot /\ b.boot \in Boot /\ c.boot \in Boot
    BY DEF Claim
  <2>2. Host \subseteq Nat /\ Boot \subseteq Nat
    OBVIOUS
  <2> QED BY <2>1, <2>2
<1> QED BY <1>1, <1>2, StampOrder DEF Before

\* Stamping a claim that no table holds does not reorder the others.
LEMMA BeforeStable ==
    ASSUME NEW a, NEW b, hlc'[a] = hlc[a], hlc'[b] = hlc[b]
    PROVE  Before(a, b)' <=> Before(a, b)
BY DEF Before

\* A non-empty set of naturals has a least element.
LEMMA LeastNatural ==
    ASSUME NEW T, T \subseteq Nat, T # {}
    PROVE  \E m \in T : \A n \in T : m <= n
<1>1. PICK m \in T : \A n \in T : ~(<<n, m>> \in OpToRel(<, Nat))
  BY NatLessThanWellFounded, WFMin
<1>2. \A n \in T : ~(n < m)
  BY <1>1 DEF OpToRel
<1>3. \A n \in T : n \in Nat /\ m \in Nat
  OBVIOUS
<1>4. \A n \in T : m <= n
  BY <1>2, <1>3
<1> QED BY <1>4

\* The lookup of "our row" finds a row of this host whenever it has one.
LEMMA OurRowExists ==
    ASSUME TypeOK, NEW h \in Host, Own(h) \in known(h)
    PROVE  OurRow(h) \in known(h) /\ OurRow(h) \in Claim /\ OurRow(h).host = h
<1> DEFINE Boots == {b \in Boot : \E k \in known(h) : k.host = h /\ k.boot = b}
<1>1. Boots \subseteq Nat
  OBVIOUS
<1>2. boot[h] \in Boots
  BY OwnIsClaim DEF TypeOK
<1>3. PICK b \in Boots : \A n \in Boots : b <= n
  <2> HIDE DEF Boots
  <2> QED BY <1>1, <1>2, LeastNatural
<1>4. PICK k \in known(h) : k.host = h /\ k.boot = b
  BY <1>3
<1>5. \A j \in known(h) : j.host = h => j.boot \in Boots
  BY DEF known, Claim
<1>6. \A j \in known(h) : j.host = h => k.boot <= j.boot
  BY <1>3, <1>4, <1>5
<1>7. OurRow(h) \in known(h) /\ OurRow(h).host = h
  BY <1>4, <1>6 DEF OurRow
<1> QED BY <1>7 DEF known

\* With one own claim stored, the row the handler looks up is that claim.
LEMMA OurRowIsOwn ==
    ASSUME TypeOK, NEW h \in Host, Own(h) \in known(h), ClaimedOnce(h)
    PROVE  OurRow(h) = Own(h)
<1> DEFINE First(k) == /\ k.host = h
                       /\ \A j \in known(h) : j.host = h => k.boot <= j.boot
<1>1. First(Own(h))
  BY OwnIsClaim DEF ClaimedOnce, TypeOK
<1>2. \E k \in known(h) : First(k)
  BY <1>1
<1>3. OurRow(h) \in known(h) /\ First(OurRow(h))
  BY <1>2 DEF OurRow
<1> QED BY <1>3 DEF ClaimedOnce
----------------------------------------------------------------------------
(* Type correctness *)

LEMMA TypeInit == Init => TypeOK
BY DEF Init, TypeOK, ZeroStamp, Stamp, Status

LEMMA TypeNext == TypeOK /\ OwnRow /\ [Next]_vars => TypeOK'
<1> SUFFICES ASSUME TypeOK, OwnRow, [Next]_vars PROVE TypeOK'
  OBVIOUS
<1> USE DEF TypeOK
<1>1. ASSUME NEW h \in Host, ReceiveEvent(h) PROVE TypeOK'
  <2>1. PICK pt \in Physical : clock' = [clock EXCEPT ![h] = Recv(@, EventHlc, pt)]
    BY <1>1 DEF ReceiveEvent
  <2>2. Recv(clock[h], EventHlc, pt) \in Stamp
    BY RecvDominates
  <2> QED BY <1>1, <2>1, <2>2 DEF ReceiveEvent
<1>2. ASSUME NEW h \in Host, RegisterIntent(h) PROVE TypeOK'
  <2>1. PICK pt \in Physical :
            /\ clock' = [clock EXCEPT ![h] = Now(@, pt)]
            /\ hlc' = [hlc EXCEPT ![Own(h)] = Now(clock[h], pt)]
    BY <1>2 DEF RegisterIntent
  <2>2. Now(clock[h], pt) \in Stamp
    BY NowAdvances
  <2> QED BY <1>2, <2>1, <2>2, OwnIsClaim DEF RegisterIntent, Status
<1>3. ASSUME NEW h \in Host, NEW k \in Claim, DeliverClaim(h, k) PROVE TypeOK'
  <2> DEFINE merged(pt) == Recv(clock[h], hlc[k], pt)
  <2>1. PICK pt \in Physical :
         \/ /\ clock' = [clock EXCEPT ![h] = merged(pt)]
            /\ row' = [row EXCEPT ![h] = Persisted(h, k)]
            /\ UNCHANGED alarms
         \/ /\ ArrivedTooLate(h, k)
            /\ clock' = [clock EXCEPT ![h] = Now(merged(pt), pt)]
            /\ row' = [row EXCEPT ![h] =
                          [Persisted(h, k) EXCEPT ![OurRow(h)] = "split_brain"]]
            /\ alarms' = alarms \cup {[local |-> OurRow(h), late |-> k]}
    BY <1>3 DEF DeliverClaim
  <2>2. merged(pt) \in Stamp /\ Now(merged(pt), pt) \in Stamp
    <3>1. clock[h] \in Stamp /\ hlc[k] \in Stamp /\ pt \in Nat \ {0}
      OBVIOUS
    <3>2. merged(pt) \in Stamp
      BY <3>1, RecvDominates
    <3> HIDE DEF merged
    <3> QED BY <3>1, <3>2, NowAdvances
  <2>3. Persisted(h, k) \in [Claim -> Status]
    BY DEF Persisted, Status
  <2>4. ArrivedTooLate(h, k) => OurRow(h) \in Claim
    BY OurRowExists DEF ArrivedTooLate, OwnRow
  <2>5. clock' \in [Host -> Stamp]
    BY <2>1, <2>2
  <2>6. row' \in [Host -> [Claim -> Status]]
    BY <2>1, <2>3 DEF Status
  <2>7. alarms' \in SUBSET [local : Claim, late : Claim]
    BY <2>1, <2>4
  <2> QED BY <1>3, <2>5, <2>6, <2>7 DEF DeliverClaim
<1>4. ASSUME NEW h \in Host, Win(h) PROVE TypeOK'
  BY <1>4 DEF Win, Status
<1>5. ASSUME NEW h \in Host, Lose(h) PROVE TypeOK'
  BY <1>5 DEF Lose, Status
<1>6. ASSUME NEW h \in Host, Restart(h) PROVE TypeOK'
  BY <1>6 DEF Restart, ZeroStamp, Stamp
<1>7. CASE UNCHANGED vars
  BY <1>7 DEF vars
<1> QED BY <1>1, <1>2, <1>3, <1>4, <1>5, <1>6, <1>7 DEF Next, Decide

----------------------------------------------------------------------------
(* What the actions do to the tables and the stamps *)

\* The rows a step can change, action by action, and that no row is forgotten.
LEMMA RegisterEffect ==
    ASSUME IInv, NEW h \in Host, RegisterIntent(h)
    PROVE  /\ Own(h) \notin published /\ Own(h) \in published'
           /\ \A k \in Claim : k # Own(h) => hlc'[k] = hlc[k]
           /\ published' = published \cup {Own(h)}
           /\ known(h)' = known(h) \cup {Own(h)}
           /\ \A g \in Host : g # h => known(g)' = known(g)
           /\ \A g \in Host : Own(g)' = Own(g)
           /\ ~wonLocally[h]
           /\ \A j \in memo[h] : StampLess(hlc[j], hlc'[Own(h)])
           /\ StampAtMost(hlc'[Own(h)], clock'[h])
           /\ \A j \in memo[h] : StampAtMost(hlc[j], clock'[h])
<1> USE DEF IInv, TypeOK
<1>1. PICK pt \in Physical :
          /\ clock' = [clock EXCEPT ![h] = Now(@, pt)]
          /\ hlc' = [hlc EXCEPT ![Own(h)] = Now(clock[h], pt)]
  BY DEF RegisterIntent
<1> DEFINE stamp == Now(clock[h], pt)
<1>2. pt \in Nat \ {0} /\ clock[h] \in Stamp /\ Own(h) \in Claim
  BY OwnIsClaim
<1>3. stamp \in Stamp /\ StampLess(clock[h], stamp) /\ stamp # ZeroStamp
  BY <1>2, NowAdvances
<1>4. hlc' = [hlc EXCEPT ![Own(h)] = stamp] /\ clock' = [clock EXCEPT ![h] = stamp]
  BY <1>1
<1> HIDE DEF stamp
<1>5. row' = [row EXCEPT ![h][Own(h)] = "intent"] /\ boot' = boot /\ hlc[Own(h)] = ZeroStamp
  BY DEF RegisterIntent
<1>6. published' = published \cup {Own(h)} /\ Own(h) \notin published
  BY <1>2, <1>3, <1>4, <1>5 DEF published
<1>7. /\ known(h)' = known(h) \cup {Own(h)}
      /\ \A g \in Host : g # h => known(g)' = known(g)
  BY <1>2, <1>5 DEF known
<1>8. ~wonLocally[h]
  BY <1>6 DEF OwnRow, StoredIsPublished
<1>9. ASSUME NEW j \in memo[h] PROVE StampLess(hlc[j], stamp)
  <2>1. hlc[j] \in Stamp /\ StampAtMost(hlc[j], clock[h])
    BY DEF ClockIsPast
  <2> QED BY <1>2, <1>3, <2>1, StampOrder DEF StampAtMost
<1>10. hlc'[Own(h)] = stamp /\ clock'[h] = stamp
  BY <1>2, <1>4
<1>11. \A k \in Claim : k # Own(h) => hlc'[k] = hlc[k]
  BY <1>4
<1>12. \A g \in Host : Own(g)' = Own(g)
  BY <1>5 DEF Own
<1> QED BY <1>6, <1>7, <1>8, <1>9, <1>10, <1>11, <1>12 DEF StampAtMost

LEMMA DeliverEffect ==
    ASSUME IInv, NEW h \in Host, NEW k \in Claim, DeliverClaim(h, k)
    PROVE  /\ k \in published /\ hlc' = hlc /\ published' = published
           /\ known(h)' = known(h) \cup {k}
           /\ \A g \in Host : g # h => row'[g] = row[g] /\ known(g)' = known(g)
           /\ \A g \in Host : Own(g)' = Own(g)
           /\ \A j \in Claim :
                 \/ row'[h][j] = row[h][j]
                 \/ j = k /\ row[h][j] = "absent" /\ row'[h][j] = "intent"
                 \/ /\ ArrivedTooLate(h, k) /\ j = OurRow(h) /\ j \in known(h)
                    /\ row'[h][j] = "split_brain"
           /\ ArrivedTooLate(h, k) => row'[h][OurRow(h)] = "split_brain"
           /\ StampAtMost(hlc[k], clock'[h])
           /\ \A j \in memo[h] : StampAtMost(hlc[j], clock'[h])
<1> USE DEF IInv, TypeOK
<1> DEFINE merged(pt) == Recv(clock[h], hlc[k], pt)
           flagged == [Persisted(h, k) EXCEPT ![OurRow(h)] = "split_brain"]
<1>1. PICK pt \in Physical :
       \/ /\ ~ArrivedTooLate(h, k)
          /\ clock' = [clock EXCEPT ![h] = merged(pt)]
          /\ row' = [row EXCEPT ![h] = Persisted(h, k)]
       \/ /\ ArrivedTooLate(h, k)
          /\ clock' = [clock EXCEPT ![h] = Now(merged(pt), pt)]
          /\ row' = [row EXCEPT ![h] = flagged]
  BY DEF DeliverClaim
<1>2. k \in published /\ hlc' = hlc /\ boot' = boot
  BY DEF DeliverClaim
<1>3. pt \in Nat \ {0} /\ clock[h] \in Stamp /\ hlc[k] \in Stamp
  OBVIOUS
<1>4. /\ merged(pt) \in Stamp
      /\ StampLess(clock[h], merged(pt)) /\ StampLess(hlc[k], merged(pt))
  BY <1>3, RecvDominates
<1>5. /\ clock'[h] \in Stamp
      /\ clock'[h] = merged(pt) \/ StampLess(merged(pt), clock'[h])
  <2> HIDE DEF merged
  <2> QED BY <1>1, <1>3, <1>4, NowAdvances
<1>6. StampLess(clock[h], clock'[h]) /\ StampLess(hlc[k], clock'[h])
  <2> HIDE DEF merged
  <2> QED BY <1>3, <1>4, <1>5, StampOrder
<1>7. \A j \in memo[h] : StampAtMost(hlc[j], clock'[h])
  BY <1>3, <1>5, <1>6, StampOrder DEF ClockIsPast, StampAtMost
<1>8. ArrivedTooLate(h, k) => OurRow(h) \in known(h) /\ OurRow(h) \in Claim
                                /\ OurRow(h) # k
  BY OurRowExists DEF ArrivedTooLate, OwnRow
<1>9. /\ Persisted(h, k) \in [Claim -> Status]
      /\ \A j \in Claim : \/ Persisted(h, k)[j] = row[h][j]
                          \/ /\ j = k /\ row[h][j] = "absent"
                             /\ Persisted(h, k)[j] = "intent"
      /\ Persisted(h, k)[k] # "absent"
  BY DEF Persisted, Status
<1>10. \A g \in Host : g # h => row'[g] = row[g]
  BY <1>1
<1>11. \A j \in Claim :
         \/ row'[h][j] = row[h][j]
         \/ j = k /\ row[h][j] = "absent" /\ row'[h][j] = "intent"
         \/ ArrivedTooLate(h, k) /\ j = OurRow(h) /\ j \in known(h)
            /\ row'[h][j] = "split_brain"
  <2>1. CASE ~ArrivedTooLate(h, k)
    BY <1>1, <1>9, <2>1
  <2>2. CASE ArrivedTooLate(h, k)
    <3>1. row'[h] = flagged
      BY <1>1, <2>2
    <3> QED BY <1>8, <1>9, <2>2, <3>1
  <2> QED BY <2>1, <2>2
<1>12. ArrivedTooLate(h, k) => row'[h][OurRow(h)] = "split_brain"
  BY <1>1, <1>8, <1>9
<1>13. row'[h][k] # "absent"
  BY <1>1, <1>8, <1>9
<1>14. known(h)' = known(h) \cup {k}
  BY <1>11, <1>13 DEF known
<1>15. \A g \in Host : g # h => known(g)' = known(g)
  BY <1>10 DEF known
<1>16. (\A g \in Host : Own(g)' = Own(g)) /\ published' = published
  BY <1>2 DEF Own, published
<1> QED BY <1>2, <1>6, <1>7, <1>10, <1>11, <1>12, <1>14, <1>15, <1>16 DEF StampAtMost

LEMMA DecideEffect ==
    ASSUME IInv, NEW h \in Host, Decide(h)
    PROVE  /\ pending[h] = Own(h) /\ Own(h) \in known(h) /\ ~wonLocally[h]
           /\ hlc' = hlc /\ published' = published
           /\ \A g \in Host : known(g)' = known(g) /\ Own(g)' = Own(g)
           /\ \A g \in Host : g # h => row'[g] = row[g]
<1> USE DEF IInv, TypeOK
<1>1. pending[h] = Own(h) /\ row[h][Own(h)] = "intent" /\ ~wonLocally[h]
  BY DEF Decide, Win, Lose, OpenWindow
<1>2. Own(h) \in Claim
  BY OwnIsClaim
<1>3. hlc' = hlc /\ boot' = boot /\ (\A g \in Host : g # h => row'[g] = row[g])
  BY DEF Decide, Win, Lose
<1>4. \A j \in Claim : row'[h][j] = "absent" <=> row[h][j] = "absent"
  BY <1>1, <1>2 DEF Decide, Win, Lose
<1>5. \A g \in Host : known(g)' = known(g)
  BY <1>3, <1>4 DEF known
<1> QED BY <1>1, <1>2, <1>3, <1>5 DEF known, Own, published

----------------------------------------------------------------------------
(* The invariant, one lemma per action *)

LEMMA ReceiveStep ==
    ASSUME IInv, NEW h \in Host, ReceiveEvent(h), TypeOK'
    PROVE  IInv'
<1> USE DEF IInv
<1>1. PICK pt \in Physical : clock' = [clock EXCEPT ![h] = Recv(@, EventHlc, pt)]
  BY DEF ReceiveEvent
<1>2. clock[h] \in Stamp /\ clock'[h] \in Stamp /\ StampLess(clock[h], clock'[h])
  <2>1. clock[h] \in Stamp
    BY DEF TypeOK
  <2>2. clock'[h] = Recv(clock[h], EventHlc, pt)
    BY <1>1 DEF TypeOK
  <2> QED BY <2>1, <2>2, RecvDominates
<1>3. UNCHANGED <<boot, pending, wonLocally, memo, row, hlc, ran, alarms>>
  BY DEF ReceiveEvent
<1>4. ClockIsPast'
  <2> SUFFICES ASSUME NEW g \in Host, NEW k \in memo[g]
               PROVE  StampAtMost(hlc[k], clock'[g])
    BY <1>3 DEF ClockIsPast
  <2>1. hlc[k] \in Stamp /\ StampAtMost(hlc[k], clock[g])
    BY DEF ClockIsPast, TypeOK
  <2>2. CASE g = h
    BY <1>2, <2>1, <2>2, StampOrder DEF StampAtMost
  <2>3. CASE g # h
    BY <1>1, <2>1, <2>3 DEF TypeOK
  <2> QED BY <2>2, <2>3
<1>5. StoredIsPublished' /\ OpenWindow' /\ OwnRow'
  BY <1>3 DEF StoredIsPublished, OpenWindow, OwnRow, known, published, Own
<1>6. WonRowIsLowest' /\ YieldsOnlyToLower'
  BY <1>3 DEF WonRowIsLowest, YieldsOnlyToLower, known, Own, ClaimedOnce, IsLowest,
              Before
<1> QED BY <1>4, <1>5, <1>6

LEMMA RegisterStep ==
    ASSUME IInv, NEW h \in Host, RegisterIntent(h), TypeOK'
    PROVE  IInv'
<1> USE DEF IInv
<1> DEFINE k == Own(h)
<1>1. k \in Claim /\ k.host = h /\ k.boot = boot[h] /\ k # NoClaim
  BY OwnIsClaim
<1>2. /\ UNCHANGED <<boot, wonLocally, ran, alarms>>
      /\ memo' = [memo EXCEPT ![h] = @ \cup {k}]
      /\ row' = [row EXCEPT ![h][k] = "intent"]
      /\ pending' = [pending EXCEPT ![h] = k]
  BY DEF RegisterIntent
<1>3. \A g \in Host : \A a, b \in known(g) : Before(a, b)' <=> Before(a, b)
  <2>1. \A g \in Host : \A a \in known(g) : a \in Claim /\ a # k
    BY RegisterEffect DEF StoredIsPublished, known
  <2> QED BY <2>1, RegisterEffect, BeforeStable
<1>4. \A g \in Host : \A j \in known(g) : row'[g][j] = row[g][j]
  BY <1>1, <1>2, RegisterEffect DEF TypeOK, StoredIsPublished, known
<1>5. StoredIsPublished'
  <2>1. \A g \in Host : known(g)' \subseteq published'
    BY RegisterEffect DEF StoredIsPublished
  <2>2. \A g \in Host : memo'[g] \subseteq known(g)'
    BY <1>2, RegisterEffect DEF StoredIsPublished, TypeOK
  <2>3. \A j \in published' : j.boot <= boot'[j.host]
    BY <1>1, <1>2, RegisterEffect DEF StoredIsPublished, TypeOK
  <2>4. ran' \subseteq published'
    BY <1>2, RegisterEffect DEF StoredIsPublished
  <2> QED BY <2>1, <2>2, <2>3, <2>4 DEF StoredIsPublished
<1>6. OpenWindow'
  <2> SUFFICES ASSUME NEW g \in Host, pending'[g] # NoClaim
               PROVE  /\ pending'[g] = Own(g)
                      /\ row'[g][Own(g)] = "intent"
                      /\ ~wonLocally[g]
    BY <1>2, RegisterEffect DEF OpenWindow
  <2>1. CASE g = h
    BY <1>1, <1>2, <2>1, RegisterEffect DEF TypeOK
  <2>2. CASE g # h
    BY <1>2, <2>2 DEF TypeOK, OpenWindow
  <2> QED BY <2>1, <2>2
<1>7. OwnRow'
  <2> SUFFICES ASSUME NEW g \in Host
               PROVE  /\ wonLocally[g] => Own(g) \in known(g)'
                      /\ row'[g][Own(g)] = "won" => wonLocally[g] /\ Own(g) \in ran
                      /\ Own(g) \in published' =>
                           \/ pending'[g] = Own(g)
                           \/ row'[g][Own(g)] \in {"won", "lost", "split_brain"}
    BY <1>2, RegisterEffect DEF OwnRow
  <2>1. CASE g = h
    BY <1>1, <1>2, <2>1, RegisterEffect DEF TypeOK
  <2>2. CASE g # h
    <3>1. Own(g) # k
      BY <1>1, <2>2, OwnIsClaim
    <3> QED BY <1>2, <2>2, <3>1, RegisterEffect DEF TypeOK, OwnRow
  <2> QED BY <2>1, <2>2
<1>8. ClockIsPast'
  <2> SUFFICES ASSUME NEW g \in Host, NEW j \in memo'[g]
               PROVE  StampAtMost(hlc'[j], clock'[g])
    BY DEF ClockIsPast
  <2>1. CASE g = h
    <3>1. CASE j = k
      BY <2>1, <3>1, RegisterEffect
    <3>2. CASE j # k
      BY <1>2, <2>1, <3>2, RegisterEffect DEF TypeOK
    <3> QED BY <3>1, <3>2
  <2>2. CASE g # h
    <3>1. j \in memo[g] /\ clock'[g] = clock[g]
      BY <1>2, <2>2 DEF TypeOK, RegisterIntent
    <3>2. j \in Claim /\ j # k
      BY <3>1, RegisterEffect DEF StoredIsPublished, TypeOK
    <3> QED BY <3>1, <3>2, RegisterEffect DEF ClockIsPast
  <2> QED BY <2>1, <2>2
<1>9. WonRowIsLowest'
  <2> SUFFICES ASSUME NEW g \in Host, wonLocally'[g], ClaimedOnce(g)',
                      row'[g][Own(g)'] = "won"
               PROVE  IsLowest(Own(g), known(g))'
    BY DEF WonRowIsLowest
  <2>1. g # h
    BY <1>2, RegisterEffect
  <2>2. known(g)' = known(g) /\ Own(g)' = Own(g) /\ row'[g] = row[g] /\ wonLocally[g]
    BY <1>2, <2>1, RegisterEffect DEF TypeOK
  <2>3. IsLowest(Own(g), known(g))
    BY <2>2 DEF WonRowIsLowest, ClaimedOnce
  <2> QED BY <1>3, <2>2, <2>3 DEF IsLowest
<1>10. YieldsOnlyToLower'
  <2> SUFFICES ASSUME NEW g \in Host, NEW j \in known(g)',
                      row'[g][j] \in {"lost", "split_brain"}
               PROVE  \E i \in known(g)' : Before(i, j)'
    BY DEF YieldsOnlyToLower
  <2>1. j \in known(g)
    BY <1>1, <1>2, RegisterEffect DEF TypeOK
  <2>2. PICK i \in known(g) : Before(i, j)
    BY <1>4, <2>1 DEF YieldsOnlyToLower
  <2> QED BY <1>3, <2>1, <2>2, RegisterEffect
<1> QED BY <1>5, <1>6, <1>7, <1>8, <1>9, <1>10

LEMMA DeliverStep ==
    ASSUME IInv, NEW h \in Host, NEW k \in Claim, DeliverClaim(h, k), TypeOK'
    PROVE  IInv'
<1> USE DEF IInv
<1>1. /\ UNCHANGED <<boot, received, pending, wonLocally, hlc, ran>>
      /\ memo' = [memo EXCEPT ![h] = @ \cup {k}]
  BY DEF DeliverClaim
<1>2. \A a, b : Before(a, b)' <=> Before(a, b)
  BY <1>1 DEF Before
<1>3. Own(h) \in Claim
  BY OwnIsClaim
<1>4. wonLocally[h] => Own(h) \in known(h) /\ pending[h] = NoClaim
  BY DEF OwnRow, OpenWindow
<1>5. StoredIsPublished'
  BY <1>1, DeliverEffect DEF StoredIsPublished, TypeOK
<1>6. OpenWindow'
  <2> SUFFICES ASSUME NEW g \in Host, pending[g] # NoClaim
               PROVE  /\ pending[g] = Own(g)
                      /\ row'[g][Own(g)] = "intent"
                      /\ ~wonLocally[g]
    BY <1>1, DeliverEffect DEF OpenWindow
  <2>1. pending[g] = Own(g) /\ row[g][Own(g)] = "intent" /\ ~wonLocally[g]
    BY DEF OpenWindow
  <2>2. CASE g = h
    BY <1>3, <2>1, <2>2, DeliverEffect DEF ArrivedTooLate
  <2>3. CASE g # h
    BY <2>1, <2>3, DeliverEffect
  <2> QED BY <2>1, <2>2, <2>3
<1>7. OwnRow'
  <2> SUFFICES ASSUME NEW g \in Host
               PROVE  /\ wonLocally[g] => Own(g) \in known(g)'
                      /\ row'[g][Own(g)] = "won" => wonLocally[g] /\ Own(g) \in ran
                      /\ Own(g) \in published =>
                           \/ pending[g] = Own(g)
                           \/ row'[g][Own(g)] \in {"won", "lost", "split_brain"}
    BY <1>1, DeliverEffect DEF OwnRow
  <2>1. CASE g = h
    <3>1. row'[h][Own(h)] = "won" => row[h][Own(h)] = "won"
      BY <1>3, DeliverEffect
    <3>2. row[h][Own(h)] \in {"won", "lost", "split_brain"}
            => row'[h][Own(h)] \in {"won", "lost", "split_brain"}
      BY <1>3, DeliverEffect
    <3>3. wonLocally[h] => Own(h) \in known(h)'
      BY <1>4, DeliverEffect
    <3>4. row'[h][Own(h)] = "won" => wonLocally[h] /\ Own(h) \in ran
      BY <3>1 DEF OwnRow
    <3>5. Own(h) \in published =>
            \/ pending[h] = Own(h)
            \/ row'[h][Own(h)] \in {"won", "lost", "split_brain"}
      BY <3>2 DEF OwnRow
    <3> QED BY <2>1, <3>3, <3>4, <3>5
  <2>2. CASE g # h
    BY <2>2, DeliverEffect DEF OwnRow
  <2> QED BY <2>1, <2>2
<1>8. ClockIsPast'
  <2> SUFFICES ASSUME NEW g \in Host, NEW j \in memo'[g]
               PROVE  StampAtMost(hlc[j], clock'[g])
    BY <1>1 DEF ClockIsPast
  <2>1. CASE g = h
    BY <1>1, <2>1, DeliverEffect DEF TypeOK
  <2>2. CASE g # h
    <3>1. memo'[g] = memo[g] /\ clock'[g] = clock[g]
      BY <1>1, <2>2 DEF TypeOK, DeliverClaim
    <3> QED BY <3>1 DEF ClockIsPast
  <2> QED BY <2>1, <2>2
<1>9. WonRowIsLowest'
  <2> SUFFICES ASSUME NEW g \in Host, wonLocally[g], ClaimedOnce(g)',
                      row'[g][Own(g)] = "won"
               PROVE  IsLowest(Own(g), known(g)')
    <3>1. SUFFICES ASSUME NEW g \in Host, wonLocally'[g], ClaimedOnce(g)',
                          row'[g][Own(g)'] = "won"
                   PROVE  IsLowest(Own(g), known(g))'
      BY DEF WonRowIsLowest
    <3>2. Own(g)' = Own(g) /\ wonLocally[g] /\ row'[g][Own(g)] = "won"
      BY <1>1, <3>1, DeliverEffect
    <3>3. IsLowest(Own(g), known(g)')
      BY <3>1, <3>2
    <3> QED BY <1>2, <3>2, <3>3 DEF IsLowest
  <2>1. CASE g # h
    <3>1. ClaimedOnce(g)
      BY <2>1, DeliverEffect DEF ClaimedOnce
    <3> QED BY <2>1, <3>1, DeliverEffect DEF WonRowIsLowest
  <2>2. CASE g = h
    <3>1. ClaimedOnce(h)
      BY <2>2, DeliverEffect DEF ClaimedOnce
    <3>2. OurRow(h) = Own(h)
      BY <1>4, <2>2, <3>1, OurRowIsOwn
    <3>3. row[h][Own(h)] = "won" /\ ~ArrivedTooLate(h, k)
      BY <1>3, <2>2, <3>2, DeliverEffect
    <3>4. IsLowest(Own(h), known(h))
      BY <2>2, <3>1, <3>3 DEF WonRowIsLowest
    <3>5. k # Own(h) => Before(Own(h), k)
      BY <1>3, <2>2, <3>2, <3>3, BeforeOrder DEF ArrivedTooLate
    <3> QED BY <2>2, <3>4, <3>5, DeliverEffect DEF IsLowest
  <2> QED BY <2>1, <2>2
<1>10. YieldsOnlyToLower'
  <2> SUFFICES ASSUME NEW g \in Host, NEW j \in known(g)',
                      row'[g][j] \in {"lost", "split_brain"}
               PROVE  \E i \in known(g)' : Before(i, j)
    BY <1>2 DEF YieldsOnlyToLower
  <2>1. CASE g # h
    BY <2>1, DeliverEffect DEF YieldsOnlyToLower
  <2>2. CASE g = h /\ row'[h][j] = row[h][j]
    <3>1. j \in known(h)
      BY <2>2 DEF known
    <3> QED BY <2>2, <3>1, DeliverEffect DEF YieldsOnlyToLower
  <2>3. CASE g = h /\ row'[h][j] # row[h][j]
    <3>1. ArrivedTooLate(h, k) /\ j = OurRow(h)
      BY <2>3, DeliverEffect DEF known
    <3> QED BY <2>3, <3>1, DeliverEffect DEF ArrivedTooLate
  <2> QED BY <2>1, <2>2, <2>3
<1> QED BY <1>5, <1>6, <1>7, <1>8, <1>9, <1>10

LEMMA DecideStep ==
    ASSUME IInv, NEW h \in Host, Decide(h), TypeOK'
    PROVE  IInv'
<1> USE DEF IInv
<1> DEFINE k == Own(h)
<1>1. k \in Claim /\ k # NoClaim
  BY OwnIsClaim
<1>2. /\ UNCHANGED <<clock, boot, received, memo, hlc, alarms>>
      /\ pending' = [pending EXCEPT ![h] = NoClaim]
  BY DEF Decide, Win, Lose
<1>3. \A a, b : Before(a, b)' <=> Before(a, b)
  BY <1>2 DEF Before
<1>4. Win(h) => /\ IsLowest(k, known(h))
                /\ row'[h][k] = "won" /\ wonLocally'[h] /\ k \in ran'
                /\ wonLocally' = [wonLocally EXCEPT ![h] = TRUE]
                /\ ran' = ran \cup {k}
                /\ \A j \in known(h) : j # k => row'[h][j] = "lost"
  BY <1>1, DecideEffect DEF Win, TypeOK, known
<1>5. Lose(h) => /\ ~IsLowest(k, known(h))
                 /\ row'[h][k] = "lost"
                 /\ wonLocally' = wonLocally /\ ran' = ran
                 /\ \A j \in known(h) : j # k => row'[h][j] = row[h][j]
  BY <1>1, DecideEffect DEF Lose, TypeOK, known
<1>6. Win(h) \/ Lose(h)
  BY DEF Decide
<1>7. StoredIsPublished'
  <2>1. k \in published
    BY DecideEffect DEF StoredIsPublished
  <2>2. ran' \subseteq published
    BY <1>4, <1>5, <1>6, <2>1 DEF StoredIsPublished
  <2> QED BY <1>2, <2>2, DecideEffect DEF StoredIsPublished
<1>8. OpenWindow'
  <2> SUFFICES ASSUME NEW g \in Host, pending'[g] # NoClaim
               PROVE  pending'[g] = Own(g) /\ row'[g][Own(g)] = "intent"
                      /\ ~wonLocally'[g]
    BY DecideEffect DEF OpenWindow
  <2>1. g # h /\ pending'[g] = pending[g]
    BY <1>2 DEF TypeOK
  <2>2. wonLocally'[g] = wonLocally[g]
    BY <1>4, <1>5, <1>6, <2>1 DEF TypeOK
  <2> QED BY <2>1, <2>2, DecideEffect DEF OpenWindow
<1>9. OwnRow'
  <2> SUFFICES ASSUME NEW g \in Host
               PROVE  /\ wonLocally'[g] => Own(g) \in known(g)
                      /\ row'[g][Own(g)] = "won" => wonLocally'[g] /\ Own(g) \in ran'
                      /\ Own(g) \in published =>
                           \/ pending'[g] = Own(g)
                           \/ row'[g][Own(g)] \in {"won", "lost", "split_brain"}
    BY DecideEffect DEF OwnRow
  <2>1. CASE g = h
    BY <1>4, <1>5, <1>6, <2>1, DecideEffect
  <2>2. CASE g # h
    <3>1. pending'[g] = pending[g] /\ row'[g] = row[g]
      BY <1>2, <2>2, DecideEffect DEF TypeOK
    <3>2. wonLocally'[g] = wonLocally[g]
      BY <1>4, <1>5, <1>6, <2>2 DEF TypeOK
    <3>3. ran \subseteq ran'
      BY <1>4, <1>5, <1>6
    <3> QED BY <3>1, <3>2, <3>3 DEF OwnRow
  <2> QED BY <2>1, <2>2
<1>10. ClockIsPast'
  BY <1>2 DEF ClockIsPast
<1>11. WonRowIsLowest'
  <2> SUFFICES ASSUME NEW g \in Host, wonLocally'[g], ClaimedOnce(g)',
                      row'[g][Own(g)'] = "won"
               PROVE  IsLowest(Own(g), known(g))'
    BY DEF WonRowIsLowest
  <2>1. Own(g)' = Own(g) /\ known(g)' = known(g) /\ ClaimedOnce(g)
    BY DecideEffect DEF ClaimedOnce
  <2>2. IsLowest(Own(g), known(g))
    <3>1. CASE g = h
      BY <1>4, <1>5, <1>6, <2>1, <3>1
    <3>2. CASE g # h
      <4>1. wonLocally[g] /\ row[g][Own(g)] = "won"
        BY <1>4, <1>5, <1>6, <2>1, <3>2, DecideEffect DEF TypeOK
      <4> QED BY <2>1, <4>1 DEF WonRowIsLowest
    <3> QED BY <3>1, <3>2
  <2> QED BY <1>3, <2>1, <2>2 DEF IsLowest
<1>12. YieldsOnlyToLower'
  <2> SUFFICES ASSUME NEW g \in Host, NEW j \in known(g),
                      row'[g][j] \in {"lost", "split_brain"}
               PROVE  \E i \in known(g) : Before(i, j)
    BY <1>3, DecideEffect DEF YieldsOnlyToLower
  <2>1. CASE g # h
    BY <2>1, DecideEffect DEF YieldsOnlyToLower
  <2>2. CASE g = h /\ Win(h)
    BY <1>4, <2>2, DecideEffect DEF IsLowest
  <2>3. CASE g = h /\ Lose(h) /\ j # k
    BY <1>5, <2>3 DEF YieldsOnlyToLower
  <2>4. CASE g = h /\ Lose(h) /\ j = k
    <3>1. PICK i \in known(h) : i # k /\ ~Before(k, i)
      BY <1>5, <2>4, DecideEffect DEF IsLowest
    <3>2. Before(i, k)
      BY <1>1, <3>1, BeforeOrder DEF known
    <3> QED BY <2>4, <3>1, <3>2
  <2> QED BY <1>6, <2>1, <2>2, <2>3, <2>4
<1> QED BY <1>7, <1>8, <1>9, <1>10, <1>11, <1>12

LEMMA RestartStep ==
    ASSUME IInv, NEW h \in Host, Restart(h), TypeOK'
    PROVE  IInv'
<1> USE DEF IInv
<1>1. /\ UNCHANGED <<row, hlc, ran, alarms>>
      /\ boot' = [boot EXCEPT ![h] = @ + 1]
      /\ pending' = [pending EXCEPT ![h] = NoClaim]
      /\ wonLocally' = [wonLocally EXCEPT ![h] = FALSE]
      /\ memo' = [memo EXCEPT ![h] = {}]
  BY DEF Restart
<1>2. /\ \A a, b : Before(a, b)' <=> Before(a, b)
      /\ published' = published
      /\ \A g \in Host : known(g)' = known(g)
  BY <1>1 DEF Before, published, known
<1>3. \A g \in Host : g # h => Own(g)' = Own(g) /\ boot'[g] = boot[g]
  BY <1>1 DEF Own, TypeOK
<1>4. boot'[h] = boot[h] + 1 /\ boot[h] \in Nat
  BY <1>1 DEF TypeOK
<1>5. Own(h)' \notin published /\ Own(h)' \in Claim
  <2>1. Own(h)'.boot = boot[h] + 1 /\ Own(h)'.host = h
    BY <1>4 DEF Own
  <2>2. Own(h)' \in Claim
    BY DEF Own, Claim, TypeOK
  <2> QED BY <1>4, <2>1, <2>2 DEF StoredIsPublished
<1>6. StoredIsPublished'
  <2>1. \A j \in published : j.boot <= boot'[j.host]
    <3> SUFFICES ASSUME NEW j \in published PROVE j.boot <= boot'[j.host]
      OBVIOUS
    <3>1. j.host \in Host /\ j.boot \in Nat /\ j.boot <= boot[j.host]
      BY DEF StoredIsPublished, published, Claim
    <3>2. CASE j.host = h
      BY <1>4, <3>1, <3>2
    <3>3. CASE j.host # h
      BY <1>3, <3>1, <3>3
    <3> QED BY <3>2, <3>3
  <2>2. \A g \in Host : memo'[g] \subseteq known(g)
    BY <1>1 DEF StoredIsPublished, TypeOK
  <2> QED BY <1>1, <1>2, <2>1, <2>2 DEF StoredIsPublished
<1>7. OpenWindow'
  <2> SUFFICES ASSUME NEW g \in Host, pending'[g] # NoClaim
               PROVE  pending'[g] = Own(g)' /\ row'[g][Own(g)'] = "intent"
                      /\ ~wonLocally'[g]
    BY DEF OpenWindow
  <2>1. g # h
    BY <1>1 DEF TypeOK
  <2> QED BY <1>1, <1>3, <2>1 DEF OpenWindow, TypeOK
<1>8. OwnRow'
  <2> SUFFICES ASSUME NEW g \in Host
               PROVE  /\ wonLocally'[g] => Own(g)' \in known(g)
                      /\ row[g][Own(g)'] = "won" => wonLocally'[g] /\ Own(g)' \in ran
                      /\ Own(g)' \in published =>
                           \/ pending'[g] = Own(g)'
                           \/ row[g][Own(g)'] \in {"won", "lost", "split_brain"}
    BY <1>1, <1>2 DEF OwnRow
  <2>1. CASE g = h
    <3>1. ~wonLocally'[h] /\ row[h][Own(h)'] = "absent"
      BY <1>1, <1>5 DEF TypeOK, StoredIsPublished, known
    <3> QED BY <1>5, <2>1, <3>1
  <2>2. CASE g # h
    BY <1>1, <1>3, <2>2 DEF OwnRow, TypeOK
  <2> QED BY <2>1, <2>2
<1>9. ClockIsPast'
  <2> SUFFICES ASSUME NEW g \in Host, NEW j \in memo'[g]
               PROVE  StampAtMost(hlc[j], clock'[g])
    BY <1>1 DEF ClockIsPast
  <2>1. g # h /\ j \in memo[g]
    BY <1>1 DEF TypeOK
  <2>2. clock'[g] = clock[g]
    BY <2>1 DEF Restart, TypeOK
  <2> QED BY <2>1, <2>2 DEF ClockIsPast
<1>10. WonRowIsLowest'
  <2> SUFFICES ASSUME NEW g \in Host, wonLocally'[g], ClaimedOnce(g)',
                      row'[g][Own(g)'] = "won"
               PROVE  IsLowest(Own(g), known(g))'
    BY DEF WonRowIsLowest
  <2>1. g # h /\ wonLocally[g]
    BY <1>1 DEF TypeOK
  <2>2. ClaimedOnce(g) /\ row[g][Own(g)] = "won"
    BY <1>1, <1>2, <1>3, <2>1 DEF ClaimedOnce
  <2>3. IsLowest(Own(g), known(g))
    BY <2>1, <2>2 DEF WonRowIsLowest
  <2> QED BY <1>2, <1>3, <2>1, <2>3 DEF IsLowest
<1>11. YieldsOnlyToLower'
  BY <1>1, <1>2 DEF YieldsOnlyToLower
<1> QED BY <1>6, <1>7, <1>8, <1>9, <1>10, <1>11

----------------------------------------------------------------------------
(* The theorems *)

LEMMA IInvInit == Init => IInv
<1> SUFFICES ASSUME Init PROVE IInv
  OBVIOUS
<1>1. TypeOK
  BY TypeInit
<1>2. published = {} /\ (\A h \in Host : known(h) = {})
  BY DEF Init, published, known
<1>3. StoredIsPublished /\ ClockIsPast
  BY <1>2 DEF Init, StoredIsPublished, ClockIsPast
<1>4. OpenWindow /\ OwnRow
  <2>1. \A h \in Host : row[h][Own(h)] = "absent" /\ ~wonLocally[h]
                        /\ pending[h] = NoClaim
    BY <1>1, OwnIsClaim DEF Init
  <2> QED BY <1>2, <2>1 DEF OpenWindow, OwnRow
<1>5. WonRowIsLowest /\ YieldsOnlyToLower
  BY <1>2 DEF Init, WonRowIsLowest, YieldsOnlyToLower
<1> QED BY <1>1, <1>3, <1>4, <1>5 DEF IInv

LEMMA IInvNext == IInv /\ [Next]_vars => IInv'
<1> SUFFICES ASSUME IInv, [Next]_vars PROVE IInv'
  OBVIOUS
<1>1. TypeOK'
  BY TypeNext DEF IInv
<1>2. ASSUME NEW h \in Host, ReceiveEvent(h) PROVE IInv'
  BY <1>1, <1>2, ReceiveStep
<1>3. ASSUME NEW h \in Host, RegisterIntent(h) PROVE IInv'
  BY <1>1, <1>3, RegisterStep
<1>4. ASSUME NEW h \in Host, NEW k \in Claim, DeliverClaim(h, k) PROVE IInv'
  BY <1>1, <1>4, DeliverStep
<1>5. ASSUME NEW h \in Host, Decide(h) PROVE IInv'
  BY <1>1, <1>5, DecideStep
<1>6. ASSUME NEW h \in Host, Restart(h) PROVE IInv'
  BY <1>1, <1>6, RestartStep
<1>7. CASE UNCHANGED vars
  BY <1>7 DEF vars, IInv, TypeOK, StoredIsPublished, OpenWindow, OwnRow, ClockIsPast,
     WonRowIsLowest, YieldsOnlyToLower, known, published, Own, ClaimedOnce, IsLowest,
     Before
<1> QED BY <1>2, <1>3, <1>4, <1>5, <1>6, <1>7 DEF Next

THEOREM Invariance == Spec => []IInv
BY IInvInit, IInvNext, PTL DEF Spec

\* The variables keep their types.
THEOREM TypeCorrect == Spec => []TypeOK
<1>1. IInv => TypeOK
  BY DEF IInv
<1> QED BY <1>1, Invariance, PTL

\* A process whose own row says "won" knows of no lower claim.
THEOREM WonRowsAreLowest == Spec => []WonRowIsLowest
<1>1. IInv => WonRowIsLowest
  BY DEF IInv
<1> QED BY <1>1, Invariance, PTL

\* Only a lower claim makes a host give up or flag a claim.
THEOREM YieldingIsJustified == Spec => []YieldsOnlyToLower
<1>1. IInv => YieldsOnlyToLower
  BY DEF IInv
<1> QED BY <1>1, Invariance, PTL

\* Two hosts that both run the task and have seen each other's claim cannot
\* both remain unflagged: of any two claims exactly one is before the other.
THEOREM SplitBrainIsDetected == Spec => []UnflaggedWinnersHaveNotMet
<1>1. IInv => UnflaggedWinnersHaveNotMet
  <2> SUFFICES ASSUME IInv, NEW g \in Host, NEW h \in Host, g # h,
                      wonLocally[g], ClaimedOnce(g), row[g][Own(g)] = "won",
                      wonLocally[h], ClaimedOnce(h), row[h][Own(h)] = "won",
                      Own(g) \in known(h), Own(h) \in known(g)
               PROVE  FALSE
    BY DEF UnflaggedWinnersHaveNotMet
  <2> USE DEF IInv
  <2>1. IsLowest(Own(g), known(g)) /\ IsLowest(Own(h), known(h))
    BY DEF WonRowIsLowest
  <2>2. Own(g) \in Claim /\ Own(h) \in Claim /\ Own(g) # Own(h)
    BY OwnIsClaim
  <2>3. Before(Own(g), Own(h)) /\ Before(Own(h), Own(g))
    BY <2>1, <2>2 DEF IsLowest
  <2> QED BY <2>2, <2>3, BeforeOrder
<1> QED BY <1>1, Invariance, PTL

\* Without restarts, once every window is closed and every claim has reached
\* every claimant, the lowest claim and no other owns the task.
THEOREM LowestClaimOwns == Spec => []LowestOwns
<1>1. IInv => LowestOwns
  <2> SUFFICES ASSUME IInv, Settled
               PROVE  owners = {k \in published : IsLowest(k, published)}
    BY DEF LowestOwns
  <2> USE DEF IInv
  <2>1. ASSUME NEW k \in published
        PROVE  /\ k \in Claim /\ k.host \in Host /\ k = Own(k.host)
               /\ known(k.host) = published /\ ClaimedOnce(k.host)
    <3>1. k \in Claim /\ k.host \in Host /\ k.boot \in Boot
      BY DEF published, Claim
    <3>2. ASSUME NEW j \in published
          PROVE  j.boot = 1 /\ j.host \in Host /\ boot[j.host] = 1
      <4>1. j.host \in Host /\ j.boot \in Nat /\ j.boot >= 1
        BY DEF published, Claim
      <4>2. j.boot <= boot[j.host] /\ boot[j.host] = 1
        BY <4>1 DEF Settled, StoredIsPublished
      <4> QED BY <4>1, <4>2
    <3>3. known(k.host) = published
      BY <2>1, <3>1 DEF Settled, StoredIsPublished
    <3>4. \A j \in published : j = Own(j.host)
      BY <3>2 DEF Own, published, Claim
    <3> QED BY <2>1, <3>1, <3>3, <3>4 DEF ClaimedOnce
  <2>2. ASSUME NEW k \in owners PROVE k \in published /\ IsLowest(k, published)
    <3>1. k \in published /\ row[k.host][k] = "won"
      BY <2>2 DEF owners, StoredIsPublished
    <3>2. wonLocally[k.host]
      BY <2>1, <3>1 DEF OwnRow
    <3> QED BY <2>1, <3>1, <3>2 DEF WonRowIsLowest
  <2>3. ASSUME NEW k \in published, IsLowest(k, published) PROVE k \in owners
    <3>1. row[k.host][k] \in {"won", "lost", "split_brain"}
      <4>1. pending[k.host] # k
        <5>1. k.host \in Host /\ k = Own(k.host)
          BY <2>1
        <5>2. Own(k.host) # NoClaim
          BY <5>1, OwnIsClaim
        <5> QED BY <5>1, <5>2 DEF Settled
      <4> QED BY <2>1, <4>1 DEF OwnRow
    <3>2. row[k.host][k] \notin {"lost", "split_brain"}
      <4> SUFFICES ASSUME row[k.host][k] \in {"lost", "split_brain"} PROVE FALSE
        OBVIOUS
      <4>1. PICK j \in published : Before(j, k)
        BY <2>1 DEF YieldsOnlyToLower
      <4>2. j \in Claim /\ k \in Claim
        BY <2>1
      <4>3. j = k \/ Before(k, j)
        BY <2>3 DEF IsLowest
      <4> QED BY <4>1, <4>2, <4>3, BeforeOrder
    <3> QED BY <2>1, <3>1, <3>2 DEF OwnRow, owners
  <2> QED BY <2>2, <2>3 DEF owners
<1> QED BY <1>1, Invariance, PTL

\* A claim sorts after every claim its process had received, so that whoever
\* has seen a rival's claim cannot undercut it.
THEOREM ClaimsRespectCausality == Spec => NoUndercutting
<1> DEFINE After == \A k \in Claim :
         hlc[k] = ZeroStamp /\ hlc'[k] # ZeroStamp
             => \A j \in memo[k.host] : StampLess(hlc[j], hlc'[k])
<1>1. IInv /\ [Next]_vars => [After]_vars
  <2> SUFFICES ASSUME IInv, Next, NEW k \in Claim, hlc[k] = ZeroStamp,
                      hlc'[k] # ZeroStamp, NEW j \in memo[k.host]
               PROVE  StampLess(hlc[j], hlc'[k])
    OBVIOUS
  <2>1. PICK h \in Host : RegisterIntent(h)
    BY DEF Next, ReceiveEvent, DeliverClaim, Decide, Win, Lose, Restart
  <2>2. k = Own(h) /\ k.host = h
    BY <2>1, RegisterEffect, OwnIsClaim DEF IInv
  <2> QED BY <2>1, <2>2, RegisterEffect
<1>2. Spec => [][After]_vars
  BY <1>1, Invariance, PTL DEF Spec
<1> QED BY <1>2 DEF NoUndercutting
----------------------------------------------------------------------------
(* Late claims are reported *)

\* A row that says split_brain was flagged together with an alarm.
FlaggedIsReported ==
    \A h \in Host : \A k \in known(h) :
        k.host = h /\ row[h][k] = "split_brain" => \E a \in alarms : a.local.host = h

Reported == LateClaimIsReported /\ FlaggedIsReported

\* What a step that raises no alarm has to leave alone.
LEMMA ReportedKept ==
    ASSUME Reported, alarms \subseteq alarms',
           \A h \in Host : wonLocally'[h] =>
               \A k \in known(h)' : Before(k, Own(h))' =>
                   \/ \E j \in known(h) : wonLocally[h] /\ Before(j, Own(h))
                   \/ \E a \in alarms' : a.local.host = h,
           \A h \in Host : \A k \in known(h)' :
               k.host = h /\ row'[h][k] = "split_brain" =>
                   \/ k \in known(h) /\ row[h][k] = "split_brain"
                   \/ \E a \in alarms' : a.local.host = h
    PROVE  Reported'
<1>1. LateClaimIsReported'
  BY DEF Reported, LateClaimIsReported
<1>2. FlaggedIsReported'
  BY DEF Reported, FlaggedIsReported
<1> QED BY <1>1, <1>2 DEF Reported

LEMMA ReportedRegister ==
    ASSUME IInv, Reported, NEW h \in Host, RegisterIntent(h)
    PROVE  Reported'
<1> USE DEF IInv
<1>1. alarms' = alarms /\ wonLocally' = wonLocally
  BY DEF RegisterIntent
<1>2. /\ Own(h) \in Claim /\ Own(h).host = h
      /\ \A g \in Host : Own(g) \in Claim /\ (g # h => Own(g) # Own(h))
  BY OwnIsClaim
<1>3. ASSUME NEW g \in Host, wonLocally'[g], NEW k \in known(g)', Before(k, Own(g))'
      PROVE  \E j \in known(g) : wonLocally[g] /\ Before(j, Own(g))
  <2>1. g # h /\ wonLocally[g]
    BY <1>1, <1>3, RegisterEffect
  <2>2. k \in known(g) /\ Own(g)' = Own(g) /\ k \in Claim
    BY <1>3, <2>1, RegisterEffect DEF known
  <2>3. k # Own(h)
    BY <2>2, RegisterEffect DEF StoredIsPublished
  <2>4. hlc'[k] = hlc[k] /\ hlc'[Own(g)] = hlc[Own(g)]
    BY <1>2, <2>1, <2>2, <2>3, RegisterEffect
  <2>5. Before(k, Own(g))
    BY <1>3, <2>2, <2>4 DEF Before
  <2> QED BY <2>1, <2>2, <2>5
<1>4. ASSUME NEW g \in Host, NEW k \in known(g)', row'[g][k] = "split_brain"
      PROVE  k \in known(g) /\ row[g][k] = "split_brain"
  <2>1. row' = [row EXCEPT ![h][Own(h)] = "intent"] /\ k \in Claim
    BY <1>4 DEF RegisterIntent, known
  <2>2. row[g][k] = "split_brain"
    BY <1>2, <1>4, <2>1 DEF TypeOK
  <2> QED BY <2>1, <2>2 DEF known
<1> QED BY <1>1, <1>3, <1>4, ReportedKept

\* The handler compares the late claim with the first row of its host, which an
\* earlier process may have written.  When that row is the lower one, its own
\* claim was already preceded by it, and the alarm was raised before.
LEMMA ReportedDeliver ==
    ASSUME IInv, Reported, NEW h \in Host, NEW k \in Claim, DeliverClaim(h, k)
    PROVE  Reported'
<1> USE DEF IInv
<1>1. /\ wonLocally' = wonLocally /\ alarms \subseteq alarms'
      /\ ArrivedTooLate(h, k) => [local |-> OurRow(h), late |-> k] \in alarms'
  BY DEF DeliverClaim
<1>2. /\ \A a, b : Before(a, b)' <=> Before(a, b)
      /\ \A g \in Host : Own(g)' = Own(g)
  BY DeliverEffect DEF Before
<1>3. ASSUME wonLocally[h]
      PROVE  /\ Own(h) \in known(h) /\ Own(h) \in Claim
             /\ OurRow(h) \in known(h) /\ OurRow(h) \in Claim /\ OurRow(h).host = h
  BY <1>3, OurRowExists, OwnIsClaim DEF OwnRow
<1>4. ArrivedTooLate(h, k) => \E a \in alarms' : a.local.host = h
  <2> SUFFICES ASSUME ArrivedTooLate(h, k)
               PROVE  [local |-> OurRow(h), late |-> k].local.host = h
    BY <1>1
  <2> QED BY <1>3 DEF ArrivedTooLate
<1>5. ASSUME wonLocally[h], Before(k, Own(h))
      PROVE  \/ \E j \in known(h) : Before(j, Own(h))
             \/ \E a \in alarms' : a.local.host = h
  <2>1. CASE ArrivedTooLate(h, k)
    BY <1>4, <2>1
  <2>2. CASE OurRow(h) = k
    BY <1>3, <1>5, <2>2
  <2>3. CASE row[h][OurRow(h)] = "split_brain"
    <3>1. \E a \in alarms : a.local.host = h
      BY <1>3, <1>5, <2>3 DEF Reported, FlaggedIsReported
    <3> QED BY <1>1, <3>1
  <2>4. CASE OurRow(h) # k /\ ~Before(k, OurRow(h))
    <3>1. Before(OurRow(h), k)
      BY <1>3, <1>5, <2>4, BeforeOrder
    <3>2. Before(OurRow(h), Own(h))
      BY <1>3, <1>5, <3>1, BeforeTransitive
    <3> QED BY <1>3, <1>5, <3>2
  <2> QED BY <1>5, <2>1, <2>2, <2>3, <2>4 DEF ArrivedTooLate
<1>6. ASSUME NEW g \in Host, wonLocally'[g], NEW j \in known(g)', Before(j, Own(g))'
      PROVE  \/ \E i \in known(g) : wonLocally[g] /\ Before(i, Own(g))
             \/ \E a \in alarms' : a.local.host = g
  <2>1. wonLocally[g] /\ Before(j, Own(g))
    BY <1>1, <1>2, <1>6
  <2>2. CASE j \in known(g)
    BY <2>1, <2>2
  <2>3. CASE j \notin known(g)
    <3>1. g = h /\ j = k
      BY <1>6, <2>3, DeliverEffect
    <3> QED BY <1>5, <2>1, <3>1
  <2> QED BY <2>2, <2>3
<1>7. ASSUME NEW g \in Host, NEW j \in known(g)',
             j.host = g /\ row'[g][j] = "split_brain"
      PROVE  \/ j \in known(g) /\ row[g][j] = "split_brain"
             \/ \E a \in alarms' : a.local.host = g
  <2>1. j \in Claim
    BY <1>7 DEF known
  <2>2. CASE g # h
    BY <1>7, <2>2, DeliverEffect
  <2>3. CASE g = h /\ row'[h][j] = row[h][j]
    BY <1>7, <2>1, <2>3 DEF known
  <2>4. CASE g = h /\ row'[h][j] # row[h][j]
    <3>1. ArrivedTooLate(h, k)
      BY <1>7, <2>1, <2>4, DeliverEffect
    <3> QED BY <1>4, <2>4, <3>1
  <2> QED BY <2>2, <2>3, <2>4
<1> QED BY <1>1, <1>6, <1>7, ReportedKept

LEMMA ReportedDecide ==
    ASSUME IInv, Reported, NEW h \in Host, Decide(h)
    PROVE  Reported'
<1> USE DEF IInv
<1>1. /\ alarms' = alarms /\ pending[h] = Own(h) /\ Own(h) \in Claim
      /\ \A a, b : Before(a, b)' <=> Before(a, b)
      /\ \A g \in Host : known(g)' = known(g) /\ Own(g)' = Own(g)
  BY DecideEffect, OwnIsClaim DEF Decide, Win, Lose, Before
<1>2. ASSUME NEW g \in Host, wonLocally'[g], NEW k \in known(g), Before(k, Own(g))
      PROVE  wonLocally[g]
  <2>1. CASE Win(h) /\ g = h
    <3>1. IsLowest(Own(h), known(h)) /\ k \in Claim
      BY <1>1, <1>2, <2>1 DEF Win, known
    <3>2. k # Own(h) /\ Before(Own(h), k)
      BY <1>1, <1>2, <2>1, <3>1, BeforeOrder DEF IsLowest
    <3> QED BY <1>1, <1>2, <2>1, <3>1, <3>2, BeforeOrder
  <2>2. CASE Win(h) /\ g # h
    BY <1>2, <2>2 DEF Win, TypeOK
  <2>3. CASE Lose(h)
    BY <1>2, <2>3 DEF Lose
  <2> QED BY <2>1, <2>2, <2>3 DEF Decide
<1>3. ASSUME NEW g \in Host, NEW k \in known(g), row'[g][k] = "split_brain"
      PROVE  row[g][k] = "split_brain"
  <2>1. k \in Claim
    BY <1>3 DEF known
  <2>2. CASE Win(h)
    BY <1>3, <2>1, <2>2, DecideEffect DEF Win, TypeOK
  <2>3. CASE Lose(h)
    BY <1>1, <1>3, <2>1, <2>3, DecideEffect DEF Lose, TypeOK
  <2> QED BY <2>2, <2>3 DEF Decide
<1> QED BY <1>1, <1>2, <1>3, ReportedKept

LEMMA ReportedRestart ==
    ASSUME IInv, Reported, NEW h \in Host, Restart(h)
    PROVE  Reported'
<1> USE DEF IInv
<1>1. /\ UNCHANGED <<row, hlc, alarms>>
      /\ \A g \in Host : wonLocally'[g] => g # h /\ wonLocally[g]
  BY DEF Restart, TypeOK
<1>2. \A g \in Host : g # h => Own(g)' = Own(g)
  BY DEF Restart, Own, TypeOK
<1>3. /\ \A g \in Host : known(g)' = known(g)
      /\ \A a, b : Before(a, b)' <=> Before(a, b)
  BY <1>1 DEF known, Before
<1>4. ASSUME NEW g \in Host, wonLocally'[g], NEW k \in known(g)', Before(k, Own(g))'
      PROVE  \E j \in known(g) : wonLocally[g] /\ Before(j, Own(g))
  BY <1>1, <1>2, <1>3, <1>4
<1> QED BY <1>1, <1>3, <1>4, ReportedKept

LEMMA ReportedNext == IInv /\ Reported /\ [Next]_vars => Reported'
<1> SUFFICES ASSUME IInv, Reported, [Next]_vars PROVE Reported'
  OBVIOUS
<1>1. ASSUME NEW h \in Host, ReceiveEvent(h) PROVE Reported'
  BY <1>1 DEF ReceiveEvent, Reported, LateClaimIsReported, FlaggedIsReported, known,
     Own, Before
<1>2. ASSUME NEW h \in Host, RegisterIntent(h) PROVE Reported'
  BY <1>2, ReportedRegister
<1>3. ASSUME NEW h \in Host, NEW k \in Claim, DeliverClaim(h, k) PROVE Reported'
  BY <1>3, ReportedDeliver
<1>4. ASSUME NEW h \in Host, Decide(h) PROVE Reported'
  BY <1>4, ReportedDecide
<1>5. ASSUME NEW h \in Host, Restart(h) PROVE Reported'
  BY <1>5, ReportedRestart
<1>6. CASE UNCHANGED vars
  BY <1>6 DEF vars, Reported, LateClaimIsReported, FlaggedIsReported, known, Own,
     Before
<1> QED BY <1>1, <1>2, <1>3, <1>4, <1>5, <1>6 DEF Next

\* A host that won the task and knows of a lower claim has reported it, across
\* any number of restarts and of claims its earlier processes left in the table.
THEOREM LateClaimsAreReported == Spec => []LateClaimIsReported
<1>1. Init => Reported
  BY IInvInit DEF Init, Reported, LateClaimIsReported, FlaggedIsReported, known
<1>2. Reported => LateClaimIsReported
  BY DEF Reported
<1> QED BY <1>1, <1>2, ReportedNext, Invariance, PTL DEF Spec
----------------------------------------------------------------------------
(* The claim window implements TaskOwnership *)

\* A process that won keeps a row that says so, or that it was flagged.
WinnerRow ==
    \A h \in Host : wonLocally[h] => row[h][Own(h)] \in {"won", "split_brain"}

LEMMA WinnerRowNext == IInv /\ WinnerRow /\ [Next]_vars => WinnerRow'
<1> SUFFICES ASSUME IInv, WinnerRow, [Next]_vars, NEW g \in Host, wonLocally'[g]
             PROVE  row'[g][Own(g)'] \in {"won", "split_brain"}
  BY DEF WinnerRow
<1> USE DEF IInv
<1>0. Own(g) \in Claim /\ \A h \in Host : h # g => Own(h) # Own(g)
  BY OwnIsClaim
<1>1. ASSUME NEW h \in Host, ReceiveEvent(h)
      PROVE  row'[g][Own(g)'] \in {"won", "split_brain"}
  BY <1>1 DEF ReceiveEvent, WinnerRow, Own
<1>2. ASSUME NEW h \in Host, RegisterIntent(h)
      PROVE  row'[g][Own(g)'] \in {"won", "split_brain"}
  <2>1. g # h /\ wonLocally[g] /\ Own(g)' = Own(g)
    BY <1>2, RegisterEffect DEF RegisterIntent
  <2>2. row'[g] = row[g]
    BY <1>2, <2>1 DEF RegisterIntent, TypeOK
  <2> QED BY <2>1, <2>2 DEF WinnerRow
<1>3. ASSUME NEW h \in Host, NEW k \in Claim, DeliverClaim(h, k)
      PROVE  row'[g][Own(g)'] \in {"won", "split_brain"}
  <2>1. wonLocally[g] /\ Own(g)' = Own(g)
    BY <1>3, DeliverEffect DEF DeliverClaim
  <2>2. row[g][Own(g)] \in {"won", "split_brain"}
    BY <2>1 DEF WinnerRow
  <2>3. CASE g # h
    BY <1>3, <2>1, <2>2, <2>3, DeliverEffect
  <2>4. CASE g = h
    BY <1>0, <1>3, <2>1, <2>2, <2>4, DeliverEffect
  <2> QED BY <2>3, <2>4
<1>4. ASSUME NEW h \in Host, Decide(h)
      PROVE  row'[g][Own(g)'] \in {"won", "split_brain"}
  <2>1. Own(g)' = Own(g)
    BY <1>4, DecideEffect
  <2>2. CASE g # h
    <3>1. wonLocally[g]
      BY <1>4, <2>2 DEF Decide, Win, Lose, TypeOK
    <3> QED BY <1>4, <2>1, <2>2, <3>1, DecideEffect DEF WinnerRow
  <2>3. CASE g = h /\ Win(h)
    BY <1>0, <1>4, <2>1, <2>3, DecideEffect DEF Win, TypeOK
  <2>4. CASE g = h /\ Lose(h)
    BY <1>4, <2>4, DecideEffect DEF Lose
  <2> QED BY <1>4, <2>2, <2>3, <2>4 DEF Decide
<1>5. ASSUME NEW h \in Host, Restart(h)
      PROVE  row'[g][Own(g)'] \in {"won", "split_brain"}
  <2>1. g # h /\ wonLocally[g] /\ row' = row
    BY <1>5 DEF Restart, TypeOK
  <2>2. Own(g)' = Own(g)
    BY <1>5, <2>1 DEF Restart, Own, TypeOK
  <2> QED BY <2>1, <2>2 DEF WinnerRow
<1>6. CASE UNCHANGED vars
  BY <1>6 DEF vars, WinnerRow, Own
<1> QED BY <1>1, <1>2, <1>3, <1>4, <1>5, <1>6 DEF Next

\* Without restarts a host has one claim.
LEMMA OneClaimPerHost ==
    ASSUME IInv, MaxBoot = 1
    PROVE  /\ \A h \in Host : /\ FirstClaim(h) \in Claim /\ FirstClaim(h) = Own(h)
                              /\ FirstClaim(h).host = h /\ ClaimedOnce(h)
           /\ \A k \in Claim : k.host \in Host /\ k = FirstClaim(k.host)
<1>1. Boot = {1}
  OBVIOUS
<1>2. \A k \in Claim : k.host \in Host /\ k = FirstClaim(k.host)
  BY <1>1 DEF Claim, FirstClaim
<1>3. ASSUME NEW h \in Host
      PROVE  FirstClaim(h) \in Claim /\ FirstClaim(h) = Own(h) /\ FirstClaim(h).host = h
  BY <1>1 DEF IInv, TypeOK, Claim, FirstClaim, Own
<1>4. ASSUME NEW h \in Host PROVE ClaimedOnce(h)
  BY <1>2, <1>3 DEF ClaimedOnce, known
<1> QED BY <1>2, <1>3, <1>4

\* A published claim that is before ours belongs to a rival that is ahead.
LEMMA RivalIsAhead ==
    ASSUME IInv, MaxBoot = 1, NEW h \in Host, NEW k \in published,
           Before(k, Own(h))
    PROVE  \E g \in Host : Ownership!Ahead(g, h)
<1> USE DEF IInv
<1>1. k \in Claim /\ k.host \in Host /\ k = FirstClaim(k.host) /\ k = Own(k.host)
      /\ Own(h) = FirstClaim(h) /\ Own(h).host = h /\ Own(h).boot = 1 /\ k.boot = 1
  <2>1. k \in Claim
    BY DEF published
  <2>2. k.host \in Host /\ k = FirstClaim(k.host) /\ k = Own(k.host)
    BY <2>1, OneClaimPerHost
  <2>3. Own(h) = FirstClaim(h) /\ Own(h).host = h
    BY OneClaimPerHost
  <2>4. \A i \in Host : FirstClaim(i).boot = 1
    BY DEF FirstClaim
  <2> QED BY <2>1, <2>2, <2>3, <2>4
<1> DEFINE g == k.host
<1>2. g \in Host /\ k = FirstClaim(g)
  BY <1>1
<1>3. row[g][k] \in {"intent", "won", "lost", "split_brain"}
  <2>1. g \in Host /\ k = Own(g)
    BY <1>1
  <2> HIDE DEF g
  <2>2. Own(g) # NoClaim /\ Own(g) \in published
    BY <2>1, OwnIsClaim
  <2> QED BY <2>1, <2>2 DEF OwnRow, OpenWindow
<1>4. PhaseOf(row[g][FirstClaim(g)]) # "idle"
  BY <1>2, <1>3 DEF PhaseOf
<1>5. \/ StampLess(hlc[FirstClaim(g)], hlc[FirstClaim(h)])
      \/ hlc[FirstClaim(g)] = hlc[FirstClaim(h)] /\ g < h
  BY <1>1, <1>2 DEF Before
<1> HIDE DEF g
<1>6. Ownership!Ahead(g, h)
  BY <1>2, <1>4, <1>5 DEF Ownership!Ahead, Ownership!StampLess, StampLess
<1> QED BY <1>2, <1>6

\* The phase of a host follows its own row.
LEMMA RowIsMove ==
    ASSUME NEW h \in Host, NEW from, NEW to,
           PhaseOf(row[h][FirstClaim(h)]) = from,
           PhaseOf(row'[h][FirstClaim(h)]) = to,
           \A g \in Host : g # h => row'[g][FirstClaim(g)] = row[g][FirstClaim(g)]
    PROVE  Ownership!Move(h, from, to)
<1>1. \A g \in Host : g # h => PhaseOf(row'[g][FirstClaim(g)]) = PhaseOf(row[g][FirstClaim(g)])
  OBVIOUS
<1> QED BY <1>1 DEF Ownership!Move

LEMMA RefineRegister ==
    ASSUME IInv, MaxBoot = 1, NEW h \in Host, RegisterIntent(h), TypeOK'
    PROVE  Ownership!Contend(h)
<1> USE DEF IInv
<1>1. /\ \A g \in Host : FirstClaim(g) = Own(g) /\ FirstClaim(g) \in Claim
      /\ \A g \in Host : FirstClaim(g).host = g
  BY OneClaimPerHost
<1>2. row' = [row EXCEPT ![h][FirstClaim(h)] = "intent"]
  BY <1>1 DEF RegisterIntent
<1>3. row[h][FirstClaim(h)] = "absent"
  <2>1. Own(h) \notin known(h)
    BY RegisterEffect DEF StoredIsPublished
  <2> QED BY <1>1, <2>1 DEF known
<1>4. row'[h][FirstClaim(h)] = "intent"
  BY <1>1, <1>2 DEF TypeOK
<1>5. \A g \in Host : g # h => row'[g][FirstClaim(g)] = row[g][FirstClaim(g)]
  BY <1>2 DEF TypeOK
<1>6. Ownership!Move(h, "idle", "contending")
  BY <1>3, <1>4, <1>5, RowIsMove DEF PhaseOf
<1>7. \A g \in Host : g # h => hlc'[FirstClaim(g)] = hlc[FirstClaim(g)]
  BY <1>1, RegisterEffect
<1>8. hlc'[FirstClaim(h)] \in Stamp
  BY <1>1 DEF TypeOK
<1> DEFINE stamps == [g \in Host |-> hlc[FirstClaim(g)]]
<1>9. stamps' = [stamps EXCEPT ![h] = stamps'[h]] /\ stamps'[h] \in Stamp
  BY <1>7, <1>8
<1>10. Stamp = Ownership!Stamp
  BY DEF Stamp, Ownership!Stamp
<1> QED BY <1>6, <1>9, <1>10 DEF Ownership!Contend

LEMMA RefineDeliver ==
    ASSUME IInv, WinnerRow, MaxBoot = 1,
           NEW h \in Host, NEW k \in Claim, DeliverClaim(h, k)
    PROVE  \/ Ownership!Flag(h)
           \/ UNCHANGED <<hlc, [g \in Host |-> row[g][FirstClaim(g)]]>>
<1> USE DEF IInv
<1>1. \A g \in Host : FirstClaim(g) = Own(g) /\ FirstClaim(g) \in Claim /\ ClaimedOnce(g)
  BY OneClaimPerHost
<1>2. \A g \in Host : g # h => row'[g][FirstClaim(g)] = row[g][FirstClaim(g)]
  BY DeliverEffect
<1>3. hlc' = hlc /\ k \in published
  BY DeliverEffect
<1>4. CASE ~ArrivedTooLate(h, k)
  <2>1. FirstClaim(h) \in published => FirstClaim(h) \in known(h)
    <3> SUFFICES ASSUME Own(h) \in published PROVE Own(h) \in known(h)
      BY <1>1
    <3>1. row[h][Own(h)] \in {"intent", "won", "lost", "split_brain"}
      BY OwnIsClaim DEF OwnRow, OpenWindow
    <3> QED BY <3>1, OwnIsClaim DEF known
  <2>2. row'[h][FirstClaim(h)] = row[h][FirstClaim(h)]
    BY <1>1, <1>3, <1>4, <2>1, DeliverEffect DEF known
  <2>3. \A g \in Host : row'[g][FirstClaim(g)] = row[g][FirstClaim(g)]
    BY <1>2, <2>2
  <2> QED BY <1>3, <2>3
<1>5. CASE ArrivedTooLate(h, k)
  <2>1. wonLocally[h] /\ Own(h) \in known(h)
    BY <1>5 DEF ArrivedTooLate, OwnRow
  <2>2. OurRow(h) = Own(h)
    BY <1>1, <2>1, OurRowIsOwn
  <2>3. row[h][FirstClaim(h)] = "won" /\ row'[h][FirstClaim(h)] = "split_brain"
    <3>1. row'[h][Own(h)] = "split_brain"
      BY <1>5, <2>2, DeliverEffect
    <3>2. row[h][Own(h)] = "won"
      BY <1>5, <2>1, <2>2 DEF WinnerRow, ArrivedTooLate
    <3> QED BY <1>1, <3>1, <3>2
  <2>4. Ownership!Move(h, "running", "flagged")
    BY <1>2, <2>3, RowIsMove DEF PhaseOf
  <2>5. Before(k, Own(h))
    BY <1>5, <2>2 DEF ArrivedTooLate
  <2>6. \E g \in Host : Ownership!Ahead(g, h)
    BY <1>3, <2>5, RivalIsAhead
  <2> QED BY <1>3, <2>4, <2>6 DEF Ownership!Flag
<1> QED BY <1>4, <1>5

LEMMA RefineDecide ==
    ASSUME IInv, MaxBoot = 1, NEW h \in Host, Decide(h)
    PROVE  Ownership!Run(h) \/ Ownership!Yield(h)
<1> USE DEF IInv
<1>1. \A g \in Host : FirstClaim(g) = Own(g) /\ FirstClaim(g) \in Claim
  BY OneClaimPerHost
<1>2. /\ pending[h] = Own(h) /\ Own(h) # NoClaim /\ hlc' = hlc
      /\ row[h][FirstClaim(h)] = "intent"
      /\ \A g \in Host : g # h => row'[g][FirstClaim(g)] = row[g][FirstClaim(g)]
  BY <1>1, OwnIsClaim, DecideEffect DEF OpenWindow
<1>3. CASE Win(h)
  <2>1. row'[h][FirstClaim(h)] = "won"
    BY <1>1, <1>2, <1>3 DEF Win, TypeOK
  <2>2. Ownership!Move(h, "contending", "running")
    BY <1>2, <2>1, RowIsMove DEF PhaseOf
  <2> QED BY <1>2, <2>2 DEF Ownership!Run
<1>4. CASE Lose(h)
  <2>1. row'[h][FirstClaim(h)] = "lost"
    BY <1>1, <1>2, <1>4 DEF Lose, TypeOK
  <2>2. Ownership!Move(h, "contending", "yielded")
    BY <1>2, <2>1, RowIsMove DEF PhaseOf
  <2>3. PICK j \in known(h) : j # Own(h) /\ ~Before(Own(h), j)
    BY <1>2, <1>4, DecideEffect DEF Lose, IsLowest
  <2>4. Before(j, Own(h)) /\ j \in published
    <3>1. j \in Claim /\ Own(h) \in Claim /\ j \in published
      BY <1>1, <2>3 DEF known, StoredIsPublished
    <3> QED BY <2>3, <3>1, BeforeOrder
  <2>5. \E g \in Host : Ownership!Ahead(g, h)
    BY <2>4, RivalIsAhead
  <2> QED BY <1>2, <2>2, <2>5 DEF Ownership!Yield
<1> QED BY <1>3, <1>4 DEF Decide

LEMMA RefineStep ==
    ASSUME IInv, WinnerRow, MaxBoot = 1, [Next]_vars, TypeOK'
    PROVE  [Ownership!OwnershipNext]_<<[h \in Host |-> hlc[FirstClaim(h)]],
               [h \in Host |-> PhaseOf(row[h][FirstClaim(h)])]>>
<1> USE DEF Ownership!OwnershipNext
<1>1. ASSUME NEW h \in Host, ReceiveEvent(h)
      PROVE  UNCHANGED <<hlc, row>>
  BY <1>1 DEF ReceiveEvent
<1>2. ASSUME NEW h \in Host, RegisterIntent(h)
      PROVE  Ownership!OwnershipNext
  BY <1>2, RefineRegister
<1>3. ASSUME NEW h \in Host, NEW k \in Claim, DeliverClaim(h, k)
      PROVE  \/ Ownership!OwnershipNext
             \/ UNCHANGED <<hlc, [g \in Host |-> row[g][FirstClaim(g)]]>>
  BY <1>3, RefineDeliver
<1>4. ASSUME NEW h \in Host, Decide(h)
      PROVE  Ownership!OwnershipNext
  BY <1>4, RefineDecide
<1>5. ASSUME NEW h \in Host, Restart(h)
      PROVE  FALSE
  BY <1>5 DEF Restart, IInv, TypeOK
<1>6. CASE UNCHANGED <<hlc, [g \in Host |-> row[g][FirstClaim(g)]]>>
  <2>1. \A g \in Host : row'[g][FirstClaim(g)] = row[g][FirstClaim(g)]
    <3> DEFINE own == [g \in Host |-> row[g][FirstClaim(g)]]
    <3> SUFFICES ASSUME NEW g \in Host PROVE own'[g] = own[g]
      OBVIOUS
    <3> QED BY <1>6
  <2> QED BY <1>6, <2>1
<1>7. CASE UNCHANGED <<hlc, row>>
  BY <1>7
<1>8. CASE UNCHANGED vars
  BY <1>8 DEF vars
<1> QED BY <1>1, <1>2, <1>3, <1>4, <1>5, <1>6, <1>7, <1>8 DEF Next

\* Without restarts every step of the claim window is a step of TaskOwnership
\* or leaves it alone: a host contends once, only a contender runs, and it
\* yields or is flagged only when a rival is ahead of it.
THEOREM WindowImplementsOwnership ==
    ASSUME MaxBoot = 1
    PROVE  Spec => ImplementsOwnership
<1>1. Init => Ownership!OwnershipInit
  <2> SUFFICES ASSUME Init PROVE Ownership!OwnershipInit
    OBVIOUS
  <2>1. \A h \in Host : FirstClaim(h) \in Claim
    BY DEF FirstClaim, Claim
  <2>2. \A h \in Host : hlc[FirstClaim(h)] = ZeroStamp
                        /\ PhaseOf(row[h][FirstClaim(h)]) = "idle"
    BY <2>1 DEF Init, PhaseOf
  <2>3. ZeroStamp = Ownership!ZeroStamp
    BY DEF ZeroStamp, Ownership!ZeroStamp
  <2> QED BY <2>2, <2>3 DEF Ownership!OwnershipInit
<1>2. Init => WinnerRow
  BY DEF Init, WinnerRow
<1>3. IInv /\ WinnerRow /\ IInv' /\ [Next]_vars =>
        [Ownership!OwnershipNext]_<<[h \in Host |-> hlc[FirstClaim(h)]],
               [h \in Host |-> PhaseOf(row[h][FirstClaim(h)])]>>
  BY RefineStep DEF IInv
<1> QED BY <1>1, <1>2, <1>3, WinnerRowNext, Invariance, PTL
    DEF Spec, ImplementsOwnership, Ownership!OwnershipSpec
=============================================================================
