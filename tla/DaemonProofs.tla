---------------------------- MODULE DaemonProofs ----------------------------
(***************************************************************************)
(* The slots of the scheduler, for every number of events, every cap and   *)
(* any number of reloads and restarts; and the parts of the daemon, for     *)
(* every bound on the calls they receive.                                   *)
(* Only one part moves in a behaviour of DaemonSpec, so that each part's    *)
(* own specification holds of it (the DaemonRuns... lemmas), and what is    *)
(* proved of the part is proved of the daemon.                              *)
(***************************************************************************)
EXTENDS Daemon, FiniteSetTheorems, SequenceTheorems, WellFoundedInduction, TLAPS

----------------------------------------------------------------------------
(* The slots.  That a slot wastes no room is what makes a release simple: a *)
(* slot with a queue is full, so that giving one place back takes exactly   *)
(* one event.  The rest is bookkeeping of where an event is: not yet        *)
(* published, in one queue, in one window or with one handler, in the order *)
(* of arrival; IInv says so, and what the tables hold of an event in each   *)
(* of these places.                                                         *)

Increasing(s) == \A i, j \in DOMAIN s : i < j => s[i] < s[j]

At(g) == Elements(queue[g])

\* A slot stays within its cap, and events wait only while it is full.
SlotRoom ==
    \A g \in Gen : inflight[g] <= Limit /\ (queue[g] # <<>> => inflight[g] = Limit)

\* Slots that were not registered yet are empty.
FutureSlots ==
    /\ \A g \in Gen : g > gen => inflight[g] = 0 /\ queue[g] = <<>>
    /\ \A r \in live : r.gen <= gen

\* Queues are in order of arrival, within a slot and from slot to slot.
QueuesInOrder ==
    /\ \A g \in Gen : Increasing(queue[g])
    /\ \A g, h \in Gen : g < h => \A e \in At(g), f \in At(h) : e < f

\* Only what was published is anywhere, and it is in one place.
OnePlace ==
    /\ \A g \in Gen : \A e \in At(g) : e <= arrived /\ e \notin windows
    /\ \A e \in windows : e <= arrived
    /\ \A r \in live : r.event <= arrived /\ r.event \notin windows
    /\ \A r \in live, g \in Gen : r.event \notin At(g)
    /\ \A r, s \in live : r.event = s.event => r = s

Placed == SlotRoom /\ FutureSlots /\ QueuesInOrder /\ OnePlace /\ NoOvertaking

\* The tables know nothing of an event that has not been taken up, and no
\* verdict of one that has not ended.
Unsettled ==
    \A e \in Event :
        /\ e > arrived \/ e \in windows \/ (\E g \in Gen : e \in At(g)) =>
              runs[e] = "none" /\ done[e] = {}
        /\ (\E r \in live : r.event = e) => runs[e] \in {"none", "running"} /\ done[e] = {}

\* A process that is down has no slot, and a registered task a process.
DownIsEmpty ==
    /\ phase = "down" => live = {} /\ windows = {} /\ ~registered
    /\ IsFiniteSet(live)

\* done and runs agree (OneVerdict), stated without counting: the last two
\* lines are of a run whose end the store refused to write.
Verdict(e, v) ==
    \/ v = {} /\ runs[e] \in {"none", "running", "lost"}
    \/ v = {"completed"} /\ runs[e] \in {"none", "succeeded"}
    \/ v = {"failed"} /\ runs[e] \in {"none", "failed"}
    \/ v = {"lost"} /\ runs[e] = "lost"
    \/ /\ e \in unended /\ runs[e] \in {"running", "lost"}
       /\ v \in {{"completed"}, {"failed"}}
    \/ /\ e \in unended /\ runs[e] = "lost"
       /\ v \in {{"completed", "lost"}, {"failed", "lost"}}

Verdicts == \A e \in Event : Verdict(e, done[e])

IInv == /\ TypeOK /\ Placed /\ Unsettled /\ DownIsEmpty /\ Verdicts
        /\ RunningRowsAreLive /\ SlotAccounting

----------------------------------------------------------------------------
(* Constants, sequences *)

LEMMA ConstantFacts ==
    /\ N \in Nat /\ Limit \in Nat /\ Limit > 0 /\ MaxGen \in Nat /\ MaxGen > 0
    /\ \A e \in Event : e \in Nat
    /\ \A g \in Gen : g \in Nat
    /\ 1 \in Gen
    /\ Team \subseteq Event /\ UnknownTeam \subseteq Team
    /\ Claimable \subseteq Event \ Team
BY EventAssumption, TeamAssumption, LimitAssumption, GenAssumption DEF Event, Gen

LEMMA EventsFinite == IsFiniteSet(Event)
BY ConstantFacts, FS_Interval DEF Event

\* Taking the first of an increasing queue leaves the later ones.
LEMMA TakeFirst ==
    ASSUME NEW s \in Seq(Event), s # <<>>, Increasing(s)
    PROVE  LET t == SubSeq(s, 2, Len(s))
           IN  /\ t \in Seq(Event) /\ Increasing(t)
               /\ s[1] \in Elements(s) /\ Elements(t) = Elements(s) \ {s[1]}
               /\ \A f \in Elements(t) : s[1] < f
<1> DEFINE t == SubSeq(s, 2, Len(s))
           n == Len(s)
<1>1. n \in Nat /\ n > 0 /\ DOMAIN s = 1..n /\ \A i \in 1..n : s[i] \in Event
  BY EmptySeq, LenProperties, ElementOfSeq
<1>2. \A i \in 2..n : s[i] \in Event
  BY <1>1
<1>3. /\ t \in Seq(Event) /\ Len(t) = IF 2 <= n THEN n - 2 + 1 ELSE 0
      /\ \A i \in 1..(n - 2 + 1) : t[i] = s[2 + i - 1]
  BY <1>1, <1>2, SubSeqProperties
<1>4. Len(t) = n - 1 /\ DOMAIN t = 1..(n - 1) /\ \A i \in 1..(n - 1) : t[i] = s[i + 1]
  BY <1>1, <1>3, LenProperties
<1> HIDE DEF t, n
<1>5. \A i \in 1..(n - 1) : i + 1 \in 1..n /\ i + 1 > 1
  BY <1>1
<1>6. Increasing(t)
  <2> SUFFICES ASSUME NEW i \in 1..(n - 1), NEW j \in 1..(n - 1), i < j
               PROVE  t[i] < t[j]
    BY <1>4 DEF Increasing
  <2>1. i + 1 \in 1..n /\ j + 1 \in 1..n /\ i + 1 < j + 1
    BY <1>1
  <2> QED BY <1>1, <1>4, <2>1 DEF Increasing
<1>7. 1 \in 1..n /\ s[1] \in Elements(s)
  BY <1>1 DEF Elements
<1>8. ASSUME NEW f \in Elements(t)
      PROVE  s[1] < f /\ f \in Elements(s)
  <2>1. PICK i \in 1..(n - 1) : f = t[i]
    BY <1>4 DEF Elements
  <2>2. f = s[i + 1] /\ i + 1 \in 1..n /\ 1 < i + 1
    BY <1>4, <1>5, <2>1
  <2> QED BY <1>1, <1>7, <2>2 DEF Increasing, Elements
<1>9. ASSUME NEW f \in Elements(s), f # s[1]
      PROVE  f \in Elements(t)
  <2>1. PICK i \in 1..n : f = s[i]
    BY <1>1 DEF Elements
  <2>2. i - 1 \in 1..(n - 1) /\ (i - 1) + 1 = i
    BY <1>1, <1>9, <2>1
  <2>3. t[i - 1] = f
    BY <1>4, <2>1, <2>2
  <2> QED BY <1>4, <2>2, <2>3 DEF Elements
<1>10. \A f \in Elements(s) : f \in Nat
  BY <1>1, ConstantFacts DEF Elements
<1>11. s[1] \notin Elements(t)
  BY <1>7, <1>8, <1>10
<1> QED BY <1>3, <1>6, <1>7, <1>8, <1>9, <1>11 DEF t, n

\* An event that arrives goes last.
LEMMA PutLast ==
    ASSUME NEW s \in Seq(Event), Increasing(s), NEW e \in Event,
           \A f \in Elements(s) : f < e
    PROVE  /\ Append(s, e) \in Seq(Event) /\ Increasing(Append(s, e))
           /\ Elements(Append(s, e)) = Elements(s) \cup {e}
<1> DEFINE t == Append(s, e)
           n == Len(s)
<1>1. n \in Nat /\ DOMAIN s = 1..n /\ \A i \in 1..n : s[i] \in Event
  BY LenProperties, ElementOfSeq
<1>2. /\ t \in Seq(Event) /\ Len(t) = n + 1 /\ \A i \in 1..n : t[i] = s[i]
      /\ t[n + 1] = e
  BY AppendProperties
<1>3. DOMAIN t = 1..(n + 1)
  BY <1>2, LenProperties
<1> HIDE DEF t, n
<1>4. \A i \in 1..(n + 1) : i \in 1..n \/ i = n + 1
  BY <1>1
<1>5. \A i \in 1..n : i \in 1..(n + 1) /\ n + 1 \in 1..(n + 1)
  BY <1>1
<1>6. Increasing(t)
  <2> SUFFICES ASSUME NEW i \in 1..(n + 1), NEW j \in 1..(n + 1), i < j
               PROVE  t[i] < t[j]
    BY <1>3 DEF Increasing
  <2>1. i \in 1..n
    BY <1>1
  <2>2. CASE j \in 1..n
    BY <1>1, <1>2, <2>1, <2>2 DEF Increasing
  <2>3. CASE j = n + 1
    BY <1>1, <1>2, <2>1, <2>3 DEF Elements
  <2> QED BY <1>4, <2>2, <2>3
<1>7. Elements(t) = Elements(s) \cup {e}
  <2>1. \A f \in Elements(t) : f \in Elements(s) \cup {e}
    BY <1>1, <1>2, <1>3, <1>4 DEF Elements
  <2>2. \A f \in Elements(s) : f \in Elements(t)
    BY <1>1, <1>2, <1>3, <1>5 DEF Elements
  <2>3. e \in Elements(t)
    <3>1. n + 1 \in DOMAIN t
      BY <1>1, <1>3
    <3> QED BY <1>2, <3>1 DEF Elements
  <2> QED BY <2>1, <2>2, <2>3
<1> QED BY <1>2, <1>6, <1>7 DEF t

----------------------------------------------------------------------------
(* Releasing a place *)

\* What releasing a place of slot g does to the queues and the counts: S, the
\* events it takes, is empty or the first event that waits there.
Taken(g, S) ==
    /\ queue' \in [Gen -> Seq(Event)] /\ inflight' \in [Gen -> Int]
    /\ S \subseteq At(g) /\ \A e, f \in S : e = f
    /\ \A h \in Gen : At(h)' = IF h = g THEN At(h) \ S ELSE At(h)
    /\ \A h \in Gen : Increasing(queue[h])' /\ (queue[h] = <<>> => queue'[h] = <<>>)
    /\ \A e \in S : \A f \in At(g)' : e < f
    /\ \A h \in Gen : h # g => inflight'[h] = inflight[h] /\ queue'[h] = queue[h]
    /\ inflight'[g] = IF S = {} THEN inflight[g] - 1 ELSE inflight[g]
    /\ SlotRoom'

LEMMA ReleaseTakes ==
    ASSUME TypeOK, SlotRoom, QueuesInOrder, NEW g \in Gen,
           inflight' = [inflight EXCEPT ![g] = @ - 1 + Drained(g)],
           queue' = [queue EXCEPT ![g] = SubSeq(@, Drained(g) + 1, Len(@))]
    PROVE  Taken(g, DrainedEvents(g))
<1>1. /\ Limit \in Nat /\ Limit > 0 /\ inflight[g] \in Int /\ inflight[g] <= Limit
      /\ queue[g] \in Seq(Event) /\ Increasing(queue[g])
      /\ inflight \in [Gen -> Int] /\ queue \in [Gen -> Seq(Event)]
  BY ConstantFacts DEF TypeOK, SlotRoom, QueuesInOrder
<1>2. CASE queue[g] = <<>>
  <2>1. Len(queue[g]) = 0
    BY <1>2
  <2>2. Drained(g) = 0
    BY <1>1, <2>1 DEF Drained
  <2>3. DrainedEvents(g) = {}
    BY <2>2 DEF DrainedEvents
  <2>4. SubSeq(queue[g], 1, 0) = <<>>
    BY SubSeqEmpty
  <2>5. queue' = queue
    BY <1>1, <1>2, <2>1, <2>2, <2>4
  <2>6. inflight' \in [Gen -> Int] /\ inflight'[g] = inflight[g] - 1
        /\ \A h \in Gen : h # g => inflight'[h] = inflight[h]
    BY <1>1, <2>2
  <2>7. SlotRoom'
    BY <1>1, <1>2, <2>5, <2>6 DEF SlotRoom
  <2>8. \A h \in Gen : At(h)' = At(h) /\ Increasing(queue[h])'
    BY <2>5 DEF At, QueuesInOrder
  <2> QED BY <1>1, <2>3, <2>5, <2>6, <2>7, <2>8 DEF Taken
<1>3. CASE queue[g] # <<>>
  <2>1. Len(queue[g]) \in Nat /\ Len(queue[g]) > 0 /\ inflight[g] = Limit
    BY <1>1, <1>3, EmptySeq, LenProperties DEF SlotRoom
  <2>2. Drained(g) = 1
    <3>1. Limit - (inflight[g] - 1) = 1
      BY <1>1, <2>1
    <3>2. \A n \in Nat : n > 0 => (IF 1 < n THEN 1 ELSE n) = 1
      OBVIOUS
    <3>3. (IF 1 < Len(queue[g]) THEN 1 ELSE Len(queue[g])) = 1
      BY <2>1, <3>2
    <3> QED BY <3>1, <3>3 DEF Drained
  <2>3. DrainedEvents(g) = {queue[g][1]}
    BY <2>2 DEF DrainedEvents
  <2> DEFINE t == SubSeq(queue[g], 2, Len(queue[g]))
             e == queue[g][1]
  <2>4. /\ t \in Seq(Event) /\ Increasing(t) /\ e \in At(g)
        /\ Elements(t) = At(g) \ {e} /\ \A f \in Elements(t) : e < f
    BY <1>1, <1>3, TakeFirst DEF At
  <2>5. queue' = [queue EXCEPT ![g] = t]
    BY <2>2
  <2> HIDE DEF t, e
  <2>6. /\ queue' \in [Gen -> Seq(Event)] /\ queue'[g] = t
        /\ \A h \in Gen : h # g => queue'[h] = queue[h]
    BY <1>1, <2>4, <2>5
  <2>7. inflight' \in [Gen -> Int] /\ \A h \in Gen : inflight'[h] = inflight[h]
    BY <1>1, <2>2
  <2>8. SlotRoom'
    BY <2>1, <2>6, <2>7 DEF SlotRoom
  <2>9. \A h \in Gen : At(h)' = IF h = g THEN At(h) \ {e} ELSE At(h)
    BY <2>4, <2>6 DEF At
  <2>10. \A h \in Gen : Increasing(queue[h])'
    BY <2>4, <2>6 DEF QueuesInOrder
  <2>11. \A f \in At(g)' : e < f
    BY <2>4, <2>6 DEF At
  <2>12. DrainedEvents(g) = {e}
    BY <2>3 DEF e
  <2> QED
    BY <1>3, <2>4, <2>6, <2>7, <2>8, <2>9, <2>10, <2>11, <2>12 DEF Taken
<1> QED BY <1>2, <1>3

\* The events a release takes move from their queue to a handler or a window;
\* where everything is stays in order.
LEMMA ReleasePlaces ==
    ASSUME TypeOK, Placed, DownIsEmpty, NEW g \in Gen, g <= gen, NEW STATE base, NEW STATE open,
           Released(g, base, open), base \subseteq live, open \subseteq windows,
           UNCHANGED <<gen, arrived>>
    PROVE  Placed' /\ IsFiniteSet(live)' /\ Taken(g, DrainedEvents(g))
<1> DEFINE S == DrainedEvents(g)
<1>1. /\ inflight' = [inflight EXCEPT ![g] = @ - 1 + Drained(g)]
      /\ queue' = [queue EXCEPT ![g] = SubSeq(@, Drained(g) + 1, Len(@))]
      /\ live' = base \cup {[event |-> e, gen |-> g] : e \in S \ Team}
      /\ windows' = open \cup (S \cap Team)
  BY DEF Released, Routed
<1>2. Taken(g, S)
  BY <1>1, ReleaseTakes DEF Placed
<1> HIDE DEF S
<1>3. /\ gen \in Nat /\ gen \in Gen /\ \A h \in Gen : h \in Nat
      /\ \A e \in Event : e \in Nat
  BY ConstantFacts DEF TypeOK
<1>4. \A h \in Gen : \A e \in At(h) : e \in Event
  BY ElementOfSeq DEF At, Elements, TypeOK
<1>5. /\ \A h \in Gen : At(h)' \subseteq At(h)
      /\ \A h \in Gen : h = g => At(h)' \cap S = {}
      /\ S \subseteq At(g) /\ \A e, f \in S : e = f
  BY <1>2 DEF Taken
<1>6. FutureSlots'
  <2>1. \A h \in Gen : h > gen => inflight'[h] = 0 /\ queue'[h] = <<>>
    BY <1>2, <1>3 DEF Taken, Placed, FutureSlots
  <2>2. \A r \in live' : r.gen <= gen
    BY <1>1 DEF Placed, FutureSlots
  <2> QED BY <2>1, <2>2 DEF FutureSlots
<1>7. QueuesInOrder'
  BY <1>2, <1>5 DEF Taken, Placed, QueuesInOrder
<1>8. \A h \in Gen : \A f \in At(h) : f \in S => h = g
  BY <1>3, <1>4, <1>5 DEF Placed, QueuesInOrder
<1>9. OnePlace'
  <2>1. \A h \in Gen : \A e \in At(h)' : e <= arrived /\ e \notin windows'
    BY <1>1, <1>5, <1>8 DEF Placed, OnePlace
  <2>2. \A e \in windows' : e <= arrived
    BY <1>1, <1>5 DEF Placed, OnePlace
  <2>3. \A r \in live' : r \in base \/ \E e \in S \ Team : r = [event |-> e, gen |-> g]
    BY <1>1
  <2>4. \A r \in live' : r.event <= arrived /\ r.event \notin windows'
    BY <1>1, <1>5, <2>3 DEF Placed, OnePlace
  <2>5. \A r \in live', h \in Gen : r.event \notin At(h)'
    BY <1>5, <1>8, <2>3 DEF Placed, OnePlace
  <2>6. \A r, s \in live' : r.event = s.event => r = s
    BY <1>5, <2>3 DEF Placed, OnePlace
  <2> QED BY <2>1, <2>2, <2>4, <2>5, <2>6 DEF OnePlace
<1>10. NoOvertaking'
  <2>1. NoOvertaking' <=>
          \A e \in windows' \cup {r.event : r \in {q \in live' : q.gen = gen}} :
              \A f \in At(gen)' : e < f
    BY DEF NoOvertaking, Running, At
  <2>2. \A e \in windows \cup {r.event : r \in {q \in live : q.gen = gen}} :
              \A f \in At(gen) : e < f
    BY DEF Placed, NoOvertaking, Running, At
  <2>3. \A e \in S : \A f \in At(gen)' : e < f
    <3>1. CASE g = gen
      BY <1>2, <3>1 DEF Taken
    <3>2. CASE g < gen
      BY <1>3, <1>5, <3>2 DEF Placed, QueuesInOrder
    <3> QED BY <1>3, <3>1, <3>2
  <2>4. \A r \in live' : r \in live \/ r.event \in S
    BY <1>1
  <2> QED BY <1>1, <1>3, <1>5, <2>1, <2>2, <2>3, <2>4
<1>11. IsFiniteSet(live)'
  <2>1. IsFiniteSet(base)
    BY FS_Subset DEF DownIsEmpty
  <2>2. CASE S \ Team = {}
    BY <1>1, <2>1, <2>2
  <2>3. CASE S \ Team # {}
    <3>1. PICK e \in S \ Team : TRUE
      BY <2>3
    <3>2. S \ Team = {e}
      BY <1>5, <3>1
    <3>3. live' = base \cup {[event |-> e, gen |-> g]}
      BY <1>1, <3>2
    <3> QED BY <2>1, <3>3, FS_AddElement
  <2> QED BY <2>2, <2>3
<1> QED BY <1>2, <1>6, <1>7, <1>9, <1>10, <1>11 DEF Placed, S, Taken

----------------------------------------------------------------------------
(* Publishing *)

LEMMA WhereEventsAre ==
    ASSUME TypeOK
    PROVE  /\ \A h \in Gen : \A e \in At(h) : e \in Event
           /\ \A h \in Gen : queue[h] = <<>> => At(h) = {}
           /\ arrived \in Nat /\ gen \in Gen /\ gen \in Nat
           /\ IsFiniteSet(windows) /\ IsFiniteSet(Leaked)
<1>1. \A h \in Gen : \A e \in At(h) : e \in Event
  BY ElementOfSeq DEF At, Elements, TypeOK
<1>2. \A h \in Gen : queue[h] = <<>> => At(h) = {}
  BY DEF At, Elements
<1>3. arrived \in Nat /\ gen \in Gen /\ gen \in Nat
  BY ConstantFacts DEF TypeOK
<1>4. windows \subseteq Event /\ Leaked \subseteq Event
  BY ConstantFacts DEF TypeOK, Leaked
<1> QED BY <1>1, <1>2, <1>3, <1>4, EventsFinite, FS_Subset

\* The event waits at the end of the queue of a full slot.
LEMMA QueuedKeeps ==
    ASSUME IInv, phase = "up", registered, arrived + 1 \in Event,
           arrived' = arrived + 1, inflight[gen] >= Limit,
           queue' = Enqueued(gen, arrived + 1),
           UNCHANGED <<phase, gen, registered, inflight, live, windows, runs, claimRow, done,
                     unended, leftover>>
    PROVE  IInv'
<1> DEFINE e == arrived + 1
<1>1. /\ TypeOK /\ SlotRoom /\ FutureSlots /\ QueuesInOrder /\ OnePlace /\ NoOvertaking
      /\ Unsettled /\ DownIsEmpty /\ Verdicts /\ RunningRowsAreLive /\ SlotAccounting
  BY DEF IInv, Placed
<1>2. /\ gen \in Gen /\ \A h \in Gen : h \in Nat /\ At(h) \subseteq Event
      /\ \A h \in Gen : queue[h] = <<>> => At(h) = {}
      /\ \A f \in Event : f \in Nat
      /\ arrived \in Nat /\ e \in Event /\ e \in Nat /\ ~(e <= arrived)
      /\ \A n \in Nat : n <= arrived => n < e /\ n <= e /\ n # e
      /\ windows \subseteq Event /\ \A r \in live : r.event \in Event /\ r.gen \in Gen
      /\ inflight[gen] = Limit
  BY <1>1, ConstantFacts, WhereEventsAre DEF SlotRoom, TypeOK
<1> HIDE DEF e
<1>3. \A f \in At(gen) : f < e
  BY <1>1, <1>2 DEF OnePlace
<1>4. /\ Append(queue[gen], e) \in Seq(Event) /\ Increasing(Append(queue[gen], e))
      /\ Elements(Append(queue[gen], e)) = At(gen) \cup {e}
  BY <1>1, <1>2, <1>3, PutLast DEF At, QueuesInOrder, TypeOK
<1>5. /\ queue' \in [Gen -> Seq(Event)] /\ queue'[gen] = Append(queue[gen], e)
      /\ \A h \in Gen : h # gen => queue'[h] = queue[h]
  BY <1>1, <1>2, <1>4 DEF Enqueued, e, TypeOK
<1>6. \A h \in Gen : At(h)' = IF h = gen THEN At(h) \cup {e} ELSE At(h)
  BY <1>4, <1>5 DEF At
<1>7. TypeOK'
  BY <1>1, <1>2, <1>5 DEF TypeOK, Event, e
<1>8. SlotRoom' /\ FutureSlots'
  <2>1. SlotRoom'
    BY <1>1, <1>2, <1>5 DEF SlotRoom
  <2>2. \A g \in Gen : g > gen => g # gen
    BY <1>2
  <2> QED BY <1>1, <1>2, <1>5, <2>1, <2>2 DEF FutureSlots
<1>9. QueuesInOrder'
  <2>1. \A h \in Gen : Increasing(queue[h])'
    BY <1>1, <1>4, <1>5 DEF QueuesInOrder
  <2>2. ASSUME NEW g \in Gen, NEW h \in Gen, g < h, NEW a \in At(g)', NEW b \in At(h)'
        PROVE  a < b
    <3>1. CASE h = gen
      <4>1. a \in At(g) /\ a \in Nat /\ a <= arrived /\ (b = e \/ b \in At(h))
        <5>1. g # gen /\ h = gen
          BY <1>2, <2>2, <3>1
        <5>2. a \in At(g) /\ (b = e \/ b \in At(h))
          BY <1>6, <2>2, <5>1
        <5> QED BY <1>1, <1>2, <5>2 DEF OnePlace
      <4>2. CASE b = e
        BY <1>2, <4>1, <4>2
      <4>3. CASE b \in At(h)
        BY <1>1, <2>2, <4>1, <4>3 DEF QueuesInOrder
      <4> QED BY <4>1, <4>2, <4>3
    <3>2. CASE g = gen
      <4>1. At(h)' = {}
        BY <1>1, <1>2, <1>6, <2>2, <3>2 DEF FutureSlots
      <4> QED BY <2>2, <4>1
    <3>3. CASE g # gen /\ h # gen
      BY <1>1, <1>6, <2>2, <3>3 DEF QueuesInOrder
    <3> QED BY <3>1, <3>2, <3>3
  <2> QED BY <2>1, <2>2 DEF QueuesInOrder
<1>10. OnePlace'
  <2>1. \A h \in Gen : \A f \in At(h)' : f <= arrived' /\ f \notin windows'
    BY <1>1, <1>2, <1>6 DEF OnePlace, e
  <2>2. \A f \in windows' : f <= arrived'
    BY <1>1, <1>2 DEF OnePlace, e
  <2>3. \A r \in live' : r.event <= arrived' /\ r.event \notin windows'
    BY <1>1, <1>2 DEF OnePlace, e
  <2>4. \A r \in live', h \in Gen : r.event \notin At(h)'
    BY <1>1, <1>2, <1>6 DEF OnePlace
  <2> QED BY <1>1, <2>1, <2>2, <2>3, <2>4 DEF OnePlace
<1>11. NoOvertaking'
  <2>1. \A f \in windows \cup {r.event : r \in Running(gen)} : f \in Nat /\ f <= arrived
    BY <1>1, <1>2 DEF Running, OnePlace
  <2>2. \A f \in windows \cup {r.event : r \in Running(gen)} : f < e
    BY <1>2, <2>1
  <2>3. \A f \in windows \cup {r.event : r \in Running(gen)} : \A b \in At(gen) : f < b
    BY <1>1 DEF NoOvertaking, At
  <2>4. \A f \in windows \cup {r.event : r \in Running(gen)} : \A b \in At(gen)' : f < b
    BY <1>2, <1>6, <2>2, <2>3
  <2> QED BY <2>4 DEF NoOvertaking, Running, At
<1>12. Unsettled'
  <2>1. runs[e] = "none" /\ done[e] = {}
    BY <1>1, <1>2 DEF Unsettled
  <2>2. \A f \in Event : f > arrived' => f > arrived
    BY <1>2 DEF e
  <2>3. \A f \in Event : (\E g \in Gen : f \in At(g)') => f = e \/ \E g \in Gen : f \in At(g)
    BY <1>6
  <2> QED BY <1>1, <2>1, <2>2, <2>3 DEF Unsettled
<1>13. DownIsEmpty' /\ Verdicts' /\ RunningRowsAreLive'
  BY <1>1 DEF DownIsEmpty, Verdicts, Verdict, RunningRowsAreLive, Orphans
<1>14. SlotAccounting'
  <2> SUFFICES ASSUME gen = 1
               PROVE  /\ inflight[1] = Cardinality(live) + Cardinality(windows) + Cardinality(Leaked)'
                      /\ inflight[1] <= Limit
    BY DEF SlotAccounting
  <2>1. Leaked' = Leaked
    <3>1. \A f \in UnknownTeam : f \in Event
      BY ConstantFacts
    <3>2. \A f \in UnknownTeam : f <= arrived' <=> f <= arrived \/ f = e
      BY <1>2, <3>1 DEF e
    <3>3. At(1)' = At(1) \cup {e} /\ ~(e <= arrived)
      BY <1>2, <1>6
    <3> QED BY <3>2, <3>3 DEF Leaked, At
  <2> QED BY <1>1, <2>1 DEF SlotAccounting
<1> QED BY <1>7, <1>8, <1>9, <1>10, <1>11, <1>12, <1>13, <1>14 DEF IInv, Placed

\* The event takes a place of its slot.
LEMMA RoutedKeeps ==
    ASSUME IInv, phase = "up", registered, arrived + 1 \in Event,
           arrived' = arrived + 1, inflight[gen] < Limit,
           inflight' = [inflight EXCEPT ![gen] = @ + 1],
           Routed(gen, {arrived + 1}, live, windows), RowsStarted({arrived + 1} \ Team),
           claimRow' = [claimRow EXCEPT ![arrived + 1] = ClaimRecorded(arrived + 1, "winner")],
           UNCHANGED <<phase, gen, registered, queue, done, unended, leftover>>
    PROVE  IInv'
<1> DEFINE e == arrived + 1
           new == [event |-> e, gen |-> gen]
<1>1. /\ TypeOK /\ SlotRoom /\ FutureSlots /\ QueuesInOrder /\ OnePlace /\ NoOvertaking
      /\ Unsettled /\ DownIsEmpty /\ Verdicts /\ RunningRowsAreLive /\ SlotAccounting
  BY DEF IInv, Placed
<1>2. /\ gen \in Gen /\ \A h \in Gen : h \in Nat /\ At(h) \subseteq Event
      /\ \A f \in Event : f \in Nat
      /\ arrived \in Nat /\ e \in Event /\ e \in Nat /\ ~(e <= arrived)
      /\ \A n \in Nat : n <= arrived => n < e /\ n <= e /\ n # e
      /\ windows \subseteq Event /\ \A r \in live : r.event \in Event /\ r.gen \in Gen
      /\ new.event = e /\ new.gen = gen /\ new \in [event : Event, gen : Gen]
  <2>1. /\ gen \in Gen /\ \A h \in Gen : h \in Nat /\ At(h) \subseteq Event
        /\ arrived \in Nat /\ e \in Event /\ \A f \in Event : f \in Nat
    BY <1>1, ConstantFacts, WhereEventsAre
  <2>2. windows \subseteq Event /\ \A r \in live : r.event \in Event /\ r.gen \in Gen
    BY <1>1, ConstantFacts DEF TypeOK
  <2>3. new.event = e /\ new.gen = gen /\ new \in [event : Event, gen : Gen]
    BY <2>1
  <2>4. e \in Nat /\ ~(e <= arrived) /\ \A n \in Nat : n <= arrived => n < e /\ n <= e /\ n # e
    BY <2>1
  <2> HIDE DEF e, new
  <2> QED BY <2>1, <2>2, <2>3, <2>4
<1>3. /\ live' = IF e \in Team THEN live ELSE live \cup {new}
      /\ windows' = IF e \in Team THEN windows \cup {e} ELSE windows
  BY DEF Routed
<1>4. PICK inserted \in SUBSET ({e} \ Team) :
          runs' = [f \in Event |-> IF f \in inserted THEN "running" ELSE runs[f]]
  BY DEF RowsStarted
<1> HIDE DEF e, new
<1>5. queue[gen] = <<>> /\ At(gen) = {} /\ Limit \in Nat /\ inflight[gen] \in Int
  <2>1. inflight[gen] \in Int /\ Limit \in Nat
    BY <1>1, <1>2, ConstantFacts DEF TypeOK
  <2>2. queue[gen] = <<>>
    BY <1>1, <1>2, <2>1 DEF SlotRoom
  <2> QED BY <1>1, <1>2, <2>1, <2>2, WhereEventsAre
<1>6. /\ inflight' \in [Gen -> Int] /\ inflight'[gen] = inflight[gen] + 1
      /\ \A h \in Gen : h # gen => inflight'[h] = inflight[h]
      /\ inflight'[gen] <= Limit
  BY <1>1, <1>2, <1>5 DEF TypeOK
<1>7. /\ \A h \in Gen : At(h)' = At(h)
      /\ \A f \in At(gen) : FALSE
  BY <1>5 DEF At
<1>8. TypeOK'
  <2>1. arrived' \in 0 .. N
    BY <1>2 DEF e, Event
  <2>2. live' \subseteq [event : Event, gen : Gen]
    BY <1>1, <1>2, <1>3 DEF TypeOK
  <2>3. windows' \subseteq Team
    BY <1>1, <1>3 DEF TypeOK
  <2>4. runs' \in [Event -> {"none", "running", "succeeded", "failed", "lost"}]
    BY <1>1, <1>4 DEF TypeOK
  <2>5. claimRow' \in [Event -> {"none", "winner", "failed"}]
    BY <1>1 DEF TypeOK, ClaimRecorded
  <2> QED BY <1>1, <1>6, <2>1, <2>2, <2>3, <2>4, <2>5 DEF TypeOK
<1>9. SlotRoom'
  BY <1>1, <1>5, <1>6 DEF SlotRoom
<1>10. FutureSlots'
  <2>1. \A g \in Gen : g > gen => g # gen
    BY <1>2
  <2> QED BY <1>1, <1>2, <1>3, <1>6, <2>1 DEF FutureSlots
<1>11. QueuesInOrder'
  BY <1>1, <1>7 DEF QueuesInOrder
<1>12. OnePlace'
  <2>1. \A h \in Gen : \A f \in At(h) : f <= arrived' /\ f # e /\ f \notin windows'
    BY <1>1, <1>2, <1>3 DEF OnePlace, e
  <2>2. \A f \in windows' : f <= arrived'
    BY <1>1, <1>2, <1>3 DEF OnePlace, e
  <2>3. \A r \in live : r.event <= arrived' /\ r.event # e
    BY <1>1, <1>2 DEF OnePlace, e
  <2>4. \A r \in live' : r.event <= arrived' /\ r.event \notin windows'
    BY <1>1, <1>2, <1>3, <2>3 DEF OnePlace, e
  <2>5. \A r \in live', h \in Gen : r.event \notin At(h)
    BY <1>1, <1>2, <1>3, <2>1 DEF OnePlace
  <2>6. \A r, s \in live' : r.event = s.event => r = s
    BY <1>1, <1>2, <1>3, <2>3 DEF OnePlace
  <2> QED BY <1>7, <2>1, <2>2, <2>4, <2>5, <2>6 DEF OnePlace
<1>13. NoOvertaking'
  BY <1>7 DEF NoOvertaking, At
<1>14. e \notin windows /\ (\A r \in live : r.event # e) /\ \A h \in Gen : e \notin At(h)
  BY <1>1, <1>2 DEF OnePlace
<1>15. runs[e] = "none" /\ done[e] = {}
  BY <1>1, <1>2 DEF Unsettled
<1>16. /\ runs' \in [Event -> {"none", "running", "succeeded", "failed", "lost"}]
       /\ \A f \in Event : f # e => runs'[f] = runs[f]
       /\ runs'[e] \in {"none", "running"}
       /\ runs'[e] = "running" => e \notin Team
  BY <1>1, <1>2, <1>4, <1>15 DEF TypeOK
<1>17. Unsettled'
  <2>1. ASSUME NEW f \in Event, f # e
        PROVE  /\ f > arrived' => f > arrived
               /\ f \in windows' => f \in windows
               /\ (\E r \in live' : r.event = f) => \E r \in live : r.event = f
    BY <1>2, <1>3, <2>1 DEF e
  <2>2. ASSUME NEW f \in Event, f # e
        PROVE  /\ f > arrived' \/ f \in windows' \/ (\E g \in Gen : f \in At(g)') =>
                     runs'[f] = "none" /\ done'[f] = {}
               /\ (\E r \in live' : r.event = f) =>
                     runs'[f] \in {"none", "running"} /\ done'[f] = {}
    BY <1>1, <1>7, <1>16, <2>1, <2>2 DEF Unsettled
  <2>3. ~(e > arrived') /\ \A g \in Gen : e \notin At(g)'
    BY <1>2, <1>7, <1>14 DEF e
  <2>4. e \in windows' => e \in Team
    BY <1>3, <1>14
  <2>5. /\ e > arrived' \/ e \in windows' \/ (\E g \in Gen : e \in At(g)') =>
              runs'[e] = "none" /\ done'[e] = {}
        /\ (\E r \in live' : r.event = e) => runs'[e] \in {"none", "running"} /\ done'[e] = {}
    BY <1>15, <1>16, <2>3, <2>4
  <2> QED BY <2>2, <2>5 DEF Unsettled
<1>18. DownIsEmpty'
  BY <1>1, <1>3, FS_AddElement DEF DownIsEmpty
<1>19. Verdicts'
  BY <1>1, <1>2, <1>15, <1>16 DEF Verdicts, Verdict
<1>20. RunningRowsAreLive'
  <2>1. \A f \in Event : runs'[f] = "running" => f = e \/ runs[f] = "running"
    BY <1>16
  <2>2. runs'[e] = "running" => \E r \in live' : r.event = e
    BY <1>2, <1>3, <1>16
  <2>3. live \subseteq live'
    BY <1>3
  <2> QED BY <1>1, <2>1, <2>2, <2>3 DEF RunningRowsAreLive, Orphans
<1>21. SlotAccounting'
  <2> SUFFICES ASSUME gen = 1
               PROVE  /\ inflight'[1] = Cardinality(live') + Cardinality(windows') + Cardinality(Leaked)'
                      /\ inflight'[1] <= Limit
    BY DEF SlotAccounting
  <2>1. Leaked' = Leaked
    <3>1. \A f \in UnknownTeam : f \in Event /\ f \in Team
      BY ConstantFacts
    <3>2. \A f \in UnknownTeam : f <= arrived' <=> f <= arrived \/ f = e
      BY <1>2, <3>1 DEF e
    <3>3. \A f \in UnknownTeam : f \in windows' <=> f \in windows \/ f = e
      BY <1>3, <3>1
    <3>4. ~(e <= arrived)
      BY <1>2
    <3> QED BY <3>2, <3>3, <3>4 DEF Leaked
  <2>2. inflight[1] = Cardinality(live) + Cardinality(windows) + Cardinality(Leaked)
    BY <1>1 DEF SlotAccounting
  <2>3. /\ IsFiniteSet(live) /\ IsFiniteSet(windows) /\ IsFiniteSet(Leaked)
        /\ Cardinality(live) \in Nat /\ Cardinality(windows) \in Nat
        /\ Cardinality(Leaked) \in Nat
    BY <1>1, WhereEventsAre, FS_CardinalityType DEF DownIsEmpty
  <2>4. new \notin live
    BY <1>2, <1>14
  <2>5. Cardinality(live \cup {new}) = Cardinality(live) + 1
    BY <2>3, <2>4, FS_AddElement
  <2>6. Cardinality(windows \cup {e}) = Cardinality(windows) + 1
    BY <1>14, <2>3, FS_AddElement
  <2> QED BY <1>3, <1>6, <2>1, <2>2, <2>3, <2>5, <2>6
<1> QED
  BY <1>8, <1>9, <1>10, <1>11, <1>12, <1>13, <1>17, <1>18, <1>19, <1>20, <1>21 DEF IInv, Placed

----------------------------------------------------------------------------
(* A handler ends, or a window closes *)

\* What the tables hold once e has left its place and S has moved.
LEMMA ReleaseSettles ==
    ASSUME IInv, NEW g \in Gen, NEW STATE base, NEW STATE open, NEW e \in Event, Placed',
           Released(g, base, open), Taken(g, DrainedEvents(g)),
           base \subseteq live, open \subseteq windows, arrived' = arrived,
           phase' = phase, leftover' = leftover, unended \subseteq unended',
           \A q \in live : q \in base \/ q.event = e,
           \A f \in Event : f \notin DrainedEvents(g) /\ f # e =>
               runs'[f] = runs[f] /\ done'[f] = done[f],
           \A f \in DrainedEvents(g) :
               /\ done'[f] = done[f] /\ runs'[f] \in {"none", "running"}
               /\ runs'[f] = "running" => f \notin Team,
           e \notin DrainedEvents(g), e <= arrived, e \notin open,
           \A h \in Gen : e \notin At(h), \A q \in base : q.event # e,
           runs'[e] # "running" \/ e \in unended', Verdict(e, done[e])'
    PROVE  Unsettled' /\ RunningRowsAreLive' /\ Verdicts'
<1> DEFINE S == DrainedEvents(g)
<1>1. /\ live' = base \cup {[event |-> f, gen |-> g] : f \in S \ Team}
      /\ windows' = open \cup (S \cap Team)
  BY DEF Released, Routed
<1>2. S \subseteq At(g) /\ \A h \in Gen : At(h)' \subseteq At(h)
  BY DEF Taken
<1>3. At(g) \subseteq Event /\ arrived \in Nat /\ e \in Nat
  BY WhereEventsAre, ConstantFacts DEF IInv
<1>4. /\ \A f \in Event : f \notin S /\ f # e => runs'[f] = runs[f] /\ done'[f] = done[f]
      /\ \A f \in S : /\ done'[f] = done[f] /\ runs'[f] \in {"none", "running"}
                      /\ runs'[f] = "running" => f \notin Team
      /\ e \notin S
  OBVIOUS
<1>5. \A f \in S : runs[f] = "none" /\ done[f] = {} /\ f \in Event
  BY <1>2, <1>3 DEF IInv, Unsettled
<1> HIDE DEF S
<1>6. Unsettled'
  <2>1. ~(e > arrived') /\ e \notin windows' /\ \A h \in Gen : e \notin At(h)'
    BY <1>1, <1>2, <1>3, <1>4
  <2>2. \A q \in live' : q.event # e
    BY <1>1, <1>4
  <2>3. ASSUME NEW f \in Event, f # e, f \notin S
        PROVE  /\ f > arrived' \/ f \in windows' \/ (\E h \in Gen : f \in At(h)') =>
                     runs'[f] = "none" /\ done'[f] = {}
               /\ (\E q \in live' : q.event = f) =>
                     runs'[f] \in {"none", "running"} /\ done'[f] = {}
    <3>1. /\ f \in windows' => f \in windows
          /\ (\E h \in Gen : f \in At(h)') => \E h \in Gen : f \in At(h)
          /\ (\E q \in live' : q.event = f) => \E q \in live : q.event = f
      BY <1>1, <1>2, <2>3
    <3> QED BY <1>4, <2>3, <3>1 DEF IInv, Unsettled
  <2>4. ASSUME NEW f \in S
        PROVE  /\ f > arrived' \/ f \in windows' \/ (\E h \in Gen : f \in At(h)') =>
                     runs'[f] = "none" /\ done'[f] = {}
               /\ (\E q \in live' : q.event = f) =>
                     runs'[f] \in {"none", "running"} /\ done'[f] = {}
    <3>1. runs'[f] \in {"none", "running"} /\ done'[f] = {}
      BY <1>4, <1>5
    <3>2. CASE f \in Team
      <4>1. runs'[f] = "running" => f \notin Team
        BY <1>4
      <4>2. runs'[f] = "none"
        BY <3>1, <3>2, <4>1
      <4> QED BY <3>1, <4>2
    <3>3. CASE f \notin Team
      <4>1. [event |-> f, gen |-> g] \in live' /\ [event |-> f, gen |-> g].event = f
        BY <1>1, <3>3
      <4>2. f <= arrived /\ f \in Nat
        BY <1>2, <1>5, ConstantFacts DEF IInv, Placed, OnePlace
      <4>3. f \notin windows' /\ \A h \in Gen : f \notin At(h)'
        BY <4>1 DEF Placed, OnePlace
      <4>4. ~(f > arrived)
        BY <1>3, <4>2
      <4> QED BY <3>1, <4>3, <4>4
    <3> QED BY <3>2, <3>3
  <2>5. ASSUME NEW f \in Event, f = e
        PROVE  /\ f > arrived' \/ f \in windows' \/ (\E h \in Gen : f \in At(h)') =>
                     runs'[f] = "none" /\ done'[f] = {}
               /\ (\E q \in live' : q.event = f) =>
                     runs'[f] \in {"none", "running"} /\ done'[f] = {}
    BY <2>1, <2>2, <2>5
  <2> QED BY <2>3, <2>4, <2>5 DEF Unsettled
<1>7. RunningRowsAreLive'
  <2> SUFFICES ASSUME phase # "down", NEW f \in Event, runs'[f] = "running",
                      f \notin unended', f \notin leftover
               PROVE  \E q \in live' : q.event = f
    BY DEF RunningRowsAreLive, Orphans
  <2>1. CASE f \in S
    <3>1. [event |-> f, gen |-> g] \in live' /\ [event |-> f, gen |-> g].event = f
      BY <1>1, <1>4, <2>1
    <3> QED BY <3>1
  <2>2. CASE f \notin S
    <3>1. f # e /\ runs[f] = "running"
      BY <1>4, <2>2
    <3>2. PICK q \in live : q.event = f
      BY <3>1 DEF IInv, RunningRowsAreLive, Orphans
    <3> QED BY <1>1, <3>1, <3>2
  <2> QED BY <2>1, <2>2
<1>8. Verdicts'
  <2>1. ASSUME NEW f \in Event, f # e
        PROVE  Verdict(f, done[f])'
    <3>1. CASE f \in S
      BY <1>4, <1>5, <3>1 DEF Verdict
    <3>2. CASE f \notin S
      BY <1>4, <2>1, <3>2 DEF IInv, Verdicts, Verdict
    <3> QED BY <3>1, <3>2
  <2> QED BY <2>1 DEF Verdicts
<1> QED BY <1>6, <1>7, <1>8

\* The count of the first slot after a release.
LEMMA ReleaseCounts ==
    ASSUME IInv, gen = 1, registered, NEW g \in Gen, g <= gen, NEW STATE base, NEW STATE open, Placed',
           Released(g, base, open), Taken(g, DrainedEvents(g)), base \subseteq live,
           open \subseteq windows, UNCHANGED <<gen, arrived>>,
           \A f \in UnknownTeam : f \in open <=> f \in windows,
           Cardinality(base) + Cardinality(open) = Cardinality(live) + Cardinality(windows) - 1
    PROVE  SlotAccounting'
<1> DEFINE S == DrainedEvents(g)
<1>1. /\ live' = base \cup {[event |-> f, gen |-> g] : f \in S \ Team}
      /\ windows' = open \cup (S \cap Team)
  BY DEF Released, Routed
<1>2. g = 1
  BY ConstantFacts DEF Gen
<1>3. /\ S \subseteq At(1) /\ At(1)' = At(1) \ S /\ \A a, b \in S : a = b
      /\ inflight'[1] = IF S = {} THEN inflight[1] - 1 ELSE inflight[1]
      /\ inflight'[1] <= Limit
  BY <1>2, ConstantFacts DEF Taken, Placed, SlotRoom
<1> HIDE DEF S
<1>4. /\ IsFiniteSet(live) /\ IsFiniteSet(windows) /\ IsFiniteSet(Leaked)
      /\ IsFiniteSet(base) /\ IsFiniteSet(open)
      /\ Cardinality(live) \in Nat /\ Cardinality(windows) \in Nat
      /\ Cardinality(Leaked) \in Nat /\ Cardinality(base) \in Nat
      /\ Cardinality(open) \in Nat
  BY WhereEventsAre, FS_CardinalityType, FS_Subset DEF IInv, DownIsEmpty
<1>5. inflight[1] = Cardinality(live) + Cardinality(windows) + Cardinality(Leaked)
  <2>1. phase = "up"
    BY DEF IInv, TypeOK, DownIsEmpty
  <2> QED BY <2>1 DEF IInv, SlotAccounting
<1>6. Leaked' = Leaked
  <2>1. \A f \in UnknownTeam : f \in windows' \/ f \in At(1)' <=> f \in windows \/ f \in At(1)
    <3>1. ASSUME NEW f \in UnknownTeam
          PROVE  /\ f \in windows' <=> f \in windows \/ f \in S
                 /\ f \in At(1)' <=> f \in At(1) /\ f \notin S
                 /\ f \in S => f \in At(1)
      <4>1. f \in Team
        BY ConstantFacts
      <4>2. f \in windows' <=> f \in windows \/ f \in S
        BY <1>1, <4>1
      <4> QED BY <1>3, <4>2
    <3> QED BY <3>1
  <2> QED BY <2>1 DEF Leaked, At
<1>7. inflight'[1] = Cardinality(live') + Cardinality(windows') + Cardinality(Leaked)
  <2>1. CASE S = {}
    <3>1. live' = base /\ windows' = open
      BY <1>1, <2>1
    <3> QED BY <1>3, <1>4, <1>5, <2>1, <3>1
  <2>2. ASSUME NEW x \in S
        PROVE  Cardinality(live') + Cardinality(windows') = Cardinality(base) + Cardinality(open) + 1
    <3>1. S = {x} /\ x \in At(1)
      BY <1>3, <2>2
    <3>2. CASE x \in Team
      <4>1. live' = base /\ windows' = open \cup {x}
        BY <1>1, <3>1, <3>2
      <4>2. x \notin open
        BY <1>2, <3>1 DEF IInv, Placed, OnePlace
      <4>3. Cardinality(windows') = Cardinality(open) + 1
        BY <1>4, <4>1, <4>2, FS_AddElement
      <4> QED BY <1>4, <4>1, <4>3
    <3>3. CASE x \notin Team
      <4> DEFINE new == [event |-> x, gen |-> g]
      <4>1. live' = base \cup {new} /\ windows' = open /\ new.event = x
        BY <1>1, <3>1, <3>3
      <4>2. new \notin base
        BY <1>2, <3>1, <4>1 DEF IInv, Placed, OnePlace
      <4> HIDE DEF new
      <4>3. Cardinality(live') = Cardinality(base) + 1
        BY <1>4, <4>1, <4>2, FS_AddElement
      <4> QED BY <1>4, <4>1, <4>3
    <3> QED BY <3>2, <3>3
  <2>3. CASE S # {}
    <3>1. /\ Cardinality(live') + Cardinality(windows') = Cardinality(base) + Cardinality(open) + 1
          /\ inflight'[1] = inflight[1]
      BY <1>3, <2>2, <2>3
    <3>2. Cardinality(live') + Cardinality(windows') = Cardinality(live) + Cardinality(windows)
      BY <1>4, <3>1
    <3> QED BY <1>4, <1>5, <3>1, <3>2
  <2> QED BY <2>1, <2>3
<1> QED BY <1>3, <1>6, <1>7 DEF SlotAccounting

LEMMA FinishKeeps ==
    ASSUME IInv, NEW r, NEW status, NEW outcome, Finish(r, status, outcome),
           \/ status = "succeeded" /\ outcome = "completed"
           \/ status = "failed" /\ outcome = "failed"
    PROVE  IInv'
<1> DEFINE e == r.event
           g == r.gen
           S == DrainedEvents(g)
           base == live \ {r}
<1>1. /\ r \in live /\ e \in Event /\ g \in Gen /\ g <= gen /\ gen \in Nat /\ g \in Nat
      /\ r = [event |-> e, gen |-> g]
  BY ConstantFacts DEF Finish, IInv, TypeOK, Placed, FutureSlots
<1>2. /\ Released(g, base, windows)
      /\ UNCHANGED <<phase, gen, registered, arrived, leftover>>
      /\ done' = [done EXCEPT ![e] = @ \cup {outcome}]
      /\ claimRow' = [f \in Event |->
                      IF f \in S \ Team THEN ClaimRecorded(f, "winner")
                      ELSE IF f = e /\ status = "failed" THEN ClaimRecorded(e, "failed")
                      ELSE claimRow[f]]
  BY DEF Finish
<1>3. PICK inserted \in SUBSET (S \ Team), refused \in SUBSET ({e} \cap Orphans) :
         /\ runs' = [f \in Event |-> IF f \in inserted THEN "running"
                                     ELSE IF f = e /\ e \notin refused
                                          THEN EndRun(e, status)
                                     ELSE runs[f]]
         /\ unended' = unended \cup refused
  BY DEF Finish
<1>4. base \subseteq live /\ TypeOK /\ Placed /\ DownIsEmpty
  BY DEF IInv
<1> HIDE DEF e, g, S, base
<1>5. Placed' /\ IsFiniteSet(live)' /\ Taken(g, S)
  BY <1>1, <1>2, <1>4, ReleasePlaces DEF S
<1>6. /\ live' = base \cup {[event |-> f, gen |-> g] : f \in S \ Team}
      /\ windows' = windows \cup (S \cap Team)
  BY <1>2 DEF Released, Routed, S
<1>7. S \subseteq At(g) /\ S \subseteq Event
  BY <1>1, <1>4, <1>5, WhereEventsAre DEF Taken
<1>8. /\ \A h \in Gen : e \notin At(h)
      /\ e \notin S /\ e <= arrived /\ e \notin windows
      /\ \A q \in live : q.event = e => q = r
      /\ runs[e] \in {"none", "running"} /\ done[e] = {}
  BY <1>1, <1>7 DEF IInv, Placed, OnePlace, Unsettled, e
<1>9. \A f \in S : runs[f] = "none" /\ done[f] = {}
  BY <1>1, <1>7 DEF IInv, Unsettled
<1>10. /\ \A f \in Event : f \notin S /\ f # e => runs'[f] = runs[f] /\ done'[f] = done[f]
       /\ \A f \in S : /\ done'[f] = done[f] /\ runs'[f] \in {"none", "running"}
                       /\ runs'[f] = "running" => f \notin Team
       /\ done'[e] = {outcome}
       /\ IF e \in refused THEN runs'[e] = "running" /\ e \in unended'
                           ELSE runs'[e] = EndRun(e, status)
  BY <1>1, <1>2, <1>3, <1>7, <1>8, <1>9 DEF IInv, TypeOK, Orphans
<1>11. (runs'[e] # "running" \/ e \in unended') /\ Verdict(e, done[e])'
  BY <1>8, <1>10 DEF EndRun, Verdict
<1>12. TypeOK'
  <2>1. live' \subseteq [event : Event, gen : Gen]
    BY <1>1, <1>4, <1>6, <1>7 DEF TypeOK
  <2>2. windows' \subseteq Team
    BY <1>4, <1>6 DEF TypeOK
  <2>3. runs' \in [Event -> {"none", "running", "succeeded", "failed", "lost"}]
    BY <1>1, <1>3, <1>4 DEF TypeOK, EndRun
  <2>4. claimRow' \in [Event -> {"none", "winner", "failed"}]
    BY <1>1, <1>2, <1>4, <1>7 DEF TypeOK, ClaimRecorded
  <2>5. done' \in [Event -> SUBSET {"completed", "failed", "lost"}]
    BY <1>1, <1>2, <1>4 DEF TypeOK
  <2>6. unended' \subseteq Event
    BY <1>1, <1>3, <1>4 DEF TypeOK
  <2> QED BY <1>2, <1>4, <1>5, <2>1, <2>2, <2>3, <2>4, <2>5, <2>6 DEF TypeOK, Taken
<1>13. DownIsEmpty'
  BY <1>1, <1>2, <1>4, <1>5 DEF DownIsEmpty
<1>14. Unsettled' /\ RunningRowsAreLive' /\ Verdicts'
  <2>1. /\ \A q \in live : q \in base \/ q.event = e
        /\ \A q \in base : q.event # e
    BY <1>1, <1>8 DEF base, e
  <2>2. phase' = phase /\ arrived' = arrived /\ leftover' = leftover /\ unended \subseteq unended'
    BY <1>2, <1>3
  <2>3. /\ \A f \in Event : f \notin S /\ f # e => runs'[f] = runs[f] /\ done'[f] = done[f]
        /\ \A f \in S : /\ done'[f] = done[f] /\ runs'[f] \in {"none", "running"}
                        /\ runs'[f] = "running" => f \notin Team
    BY <1>10
  <2>4. e \notin S /\ e <= arrived /\ e \notin windows /\ \A h \in Gen : e \notin At(h)
    BY <1>8
  <2> QED BY <1>1, <1>2, <1>4, <1>5, <1>11, <2>1, <2>2, <2>3, <2>4, ReleaseSettles DEF S
<1>15. SlotAccounting'
  <2>1. CASE gen = 1 /\ registered
    <3>1. IsFiniteSet(live) /\ Cardinality(live) \in Nat
          /\ Cardinality(base) = Cardinality(live) - 1
          /\ Cardinality(windows) \in Nat
      BY <1>1, <1>4, FS_RemoveElement, FS_CardinalityType, WhereEventsAre DEF DownIsEmpty, base
    <3>2. Cardinality(base) + Cardinality(windows) = Cardinality(live) + Cardinality(windows) - 1
      BY <3>1
    <3> QED BY <1>1, <1>2, <1>4, <1>5, <2>1, <3>2, ReleaseCounts DEF S
  <2>2. CASE ~(gen = 1 /\ registered)
    BY <1>2, <2>2 DEF SlotAccounting
  <2> QED BY <2>1, <2>2
<1> QED BY <1>5, <1>12, <1>13, <1>14, <1>15 DEF IInv

LEMMA LostKeeps ==
    ASSUME IInv, NEW e \in windows, WindowLost(e)
    PROVE  IInv'
<1>1. /\ TypeOK /\ Placed /\ DownIsEmpty /\ Unsettled /\ Verdicts
      /\ e \in Event /\ e \notin UnknownTeam /\ gen \in Gen /\ gen \in Nat /\ gen <= gen
  BY ConstantFacts DEF IInv, TypeOK, WindowLost
<1>2. /\ e <= arrived /\ \A h \in Gen : e \notin At(h)
      /\ \A q \in live : q.event # e
      /\ runs[e] = "none" /\ done[e] = {} /\ Verdict(e, done[e])
  BY <1>1 DEF Placed, OnePlace, Unsettled, Verdicts
<1>3. /\ IsFiniteSet(windows) /\ Cardinality(windows) \in Nat /\ Cardinality(live) \in Nat
      /\ Cardinality(windows \ {e}) = Cardinality(windows) - 1
  BY <1>1, WhereEventsAre, FS_RemoveElement, FS_CardinalityType DEF DownIsEmpty
<1>4. UNCHANGED <<phase, gen, registered, arrived, done, unended, leftover>>
  BY DEF WindowLost
<1>5. CASE registered
  <2>0. PICK g \in Gen : g = gen /\ g <= gen
    BY <1>1
  <2> DEFINE S == DrainedEvents(g)
             open == windows \ {e}
  <2>1. /\ Released(g, live, open) /\ RowsStarted(S \ Team)
        /\ claimRow' = [f \in Event |-> IF f \in S \ Team THEN ClaimRecorded(f, "winner")
                                        ELSE claimRow[f]]
    BY <1>5, <2>0 DEF WindowLost
  <2>2. PICK inserted \in SUBSET (S \ Team) :
           runs' = [f \in Event |-> IF f \in inserted THEN "running" ELSE runs[f]]
    BY <2>1 DEF RowsStarted
  <2>3. open \subseteq windows /\ e \notin open /\ \A f \in UnknownTeam : f \in open <=> f \in windows
    BY <1>1
  <2> HIDE DEF S, open
  <2>4. Placed' /\ IsFiniteSet(live)' /\ Taken(g, S)
    BY <1>1, <1>4, <2>0, <2>1, <2>3, ReleasePlaces DEF S
  <2>5. /\ live' = live \cup {[event |-> f, gen |-> g] : f \in S \ Team}
        /\ windows' = open \cup (S \cap Team)
    BY <2>1 DEF Released, Routed, S
  <2>6. S \subseteq At(g) /\ S \subseteq Event /\ e \notin S
    BY <1>1, <1>2, <2>0, <2>4, WhereEventsAre DEF Taken
  <2>7. \A f \in S : runs[f] = "none" /\ done[f] = {}
    BY <1>1, <2>0, <2>6 DEF Unsettled
  <2>8. /\ \A f \in Event : f \notin S /\ f # e => runs'[f] = runs[f] /\ done'[f] = done[f]
        /\ \A f \in S : /\ done'[f] = done[f] /\ runs'[f] \in {"none", "running"}
                        /\ runs'[f] = "running" => f \notin Team
        /\ runs'[e] = runs[e]
    BY <1>1, <1>4, <2>2, <2>6, <2>7
  <2>9. Verdict(e, done[e])' /\ runs'[e] # "running"
    BY <1>2, <1>4, <2>8 DEF Verdict
  <2>10. TypeOK'
    <3>1. live' \subseteq [event : Event, gen : Gen]
      BY <1>1, <2>0, <2>5, <2>6 DEF TypeOK
    <3>2. windows' \subseteq Team
      BY <1>1, <2>3, <2>5 DEF TypeOK
    <3>3. runs' \in [Event -> {"none", "running", "succeeded", "failed", "lost"}]
      BY <1>1, <2>2 DEF TypeOK
    <3>4. claimRow' \in [Event -> {"none", "winner", "failed"}]
      BY <1>1, <2>1 DEF TypeOK, ClaimRecorded
    <3> QED BY <1>1, <1>4, <2>4, <3>1, <3>2, <3>3, <3>4 DEF TypeOK, Taken
  <2>11. DownIsEmpty'
    BY <1>1, <1>4, <1>5, <2>4 DEF DownIsEmpty
  <2>12. Unsettled' /\ RunningRowsAreLive' /\ Verdicts'
    BY <1>1, <1>2, <1>4, <2>1, <2>3, <2>4, <2>6, <2>8, <2>9, <2>0, ReleaseSettles DEF S
  <2>13. SlotAccounting'
    <3>1. CASE gen = 1
      <4>1. Cardinality(live) + Cardinality(open) = Cardinality(live) + Cardinality(windows) - 1
        BY <1>3 DEF open
      <4> QED BY <1>1, <1>4, <1>5, <2>1, <2>3, <2>4, <3>1, <4>1, <2>0, ReleaseCounts DEF S
    <3>2. CASE gen # 1
      BY <1>4, <3>2 DEF SlotAccounting
    <3> QED BY <3>1, <3>2
  <2> QED BY <2>4, <2>10, <2>11, <2>12, <2>13 DEF IInv
<1>6. CASE ~registered
  <2>1. windows' = windows \ {e} /\ UNCHANGED <<inflight, queue, live, runs, claimRow>>
    BY <1>6 DEF WindowLost
  <2>2. TypeOK'
    BY <1>1, <1>4, <2>1 DEF TypeOK
  <2>3. Placed'
    <3>1. SlotRoom' /\ FutureSlots' /\ QueuesInOrder'
      BY <1>1, <1>4, <2>1 DEF Placed, SlotRoom, FutureSlots, QueuesInOrder, At
    <3>2. OnePlace'
      BY <1>1, <1>4, <2>1 DEF Placed, OnePlace, At
    <3>3. NoOvertaking'
      BY <1>1, <1>4, <2>1 DEF Placed, NoOvertaking, Running
    <3> QED BY <3>1, <3>2, <3>3 DEF Placed
  <2>4. Unsettled'
    BY <1>1, <1>4, <2>1 DEF Unsettled, At
  <2>5. DownIsEmpty' /\ Verdicts' /\ RunningRowsAreLive' /\ SlotAccounting'
    BY <1>1, <1>4, <1>6, <2>1
       DEF IInv, DownIsEmpty, Verdicts, Verdict, RunningRowsAreLive, Orphans, SlotAccounting
  <2> QED BY <2>2, <2>3, <2>4, <2>5 DEF IInv
<1> QED BY <1>5, <1>6

\* A won window hands its event to a handler of the slot in the map, in the
\* place the window held.
LEMMA WonKeeps ==
    ASSUME IInv, NEW e \in windows, WindowWon(e)
    PROVE  IInv'
<1>1. /\ TypeOK /\ Placed /\ DownIsEmpty /\ Unsettled /\ Verdicts
      /\ e \in Event /\ e \notin UnknownTeam /\ gen \in Gen /\ gen \in Nat
      /\ windows' = windows \ {e}
      /\ UNCHANGED <<phase, gen, registered, arrived, inflight, queue, claimRow, done,
                     unended, leftover>>
  BY ConstantFacts DEF IInv, TypeOK, WindowWon
<1>2. /\ e <= arrived /\ \A h \in Gen : e \notin At(h)
      /\ \A q \in live : q.event # e
      /\ runs[e] = "none" /\ done[e] = {}
  BY <1>1 DEF Placed, OnePlace, Unsettled
<1>3. SlotRoom' /\ QueuesInOrder'
  BY <1>1 DEF Placed, SlotRoom, QueuesInOrder, At
<1>4. \A h \in Gen : At(h)' = At(h)
  BY <1>1 DEF At
<1>5. CASE registered
  <2> DEFINE new == [event |-> e, gen |-> gen]
  <2>1. live' = live \cup {new} /\ RowsStarted({e})
    BY <1>5 DEF WindowWon
  <2>2. new.event = e /\ new.gen = gen /\ new \in [event : Event, gen : Gen]
    BY <1>1
  <2>3. PICK inserted \in SUBSET {e} :
           runs' = [f \in Event |-> IF f \in inserted THEN "running" ELSE runs[f]]
    BY <2>1 DEF RowsStarted
  <2> HIDE DEF new
  <2>4. /\ \A f \in Event : f # e => runs'[f] = runs[f]
        /\ runs'[e] \in {"none", "running"}
        /\ runs' \in [Event -> {"none", "running", "succeeded", "failed", "lost"}]
    BY <1>1, <1>2, <2>3 DEF TypeOK
  <2>5. TypeOK'
    BY <1>1, <2>1, <2>2, <2>4 DEF TypeOK
  <2>6. FutureSlots'
    <3>1. \A r \in live' : r.gen <= gen
      BY <1>1, <2>1, <2>2 DEF Placed, FutureSlots
    <3> QED BY <1>1, <3>1 DEF Placed, FutureSlots
  <2>7. OnePlace'
    <3>1. \A h \in Gen : \A f \in At(h) : f <= arrived' /\ f \notin windows'
      BY <1>1 DEF Placed, OnePlace
    <3>2. \A f \in windows' : f <= arrived'
      BY <1>1 DEF Placed, OnePlace
    <3>3. \A r \in live' : r.event <= arrived' /\ r.event \notin windows'
      BY <1>1, <1>2, <2>1, <2>2 DEF Placed, OnePlace
    <3>4. \A r \in live', h \in Gen : r.event \notin At(h)
      BY <1>1, <1>2, <2>1, <2>2 DEF Placed, OnePlace
    <3>5. \A r, s \in live' : r.event = s.event => r = s
      BY <1>1, <1>2, <2>1, <2>2 DEF Placed, OnePlace
    <3> QED BY <1>4, <3>1, <3>2, <3>3, <3>4, <3>5 DEF OnePlace
  <2>8. NoOvertaking'
    <3>1. \A f \in windows \cup {r.event : r \in Running(gen)} : \A b \in At(gen) : f < b
      BY <1>1 DEF Placed, NoOvertaking, At
    <3>2. \A f \in windows' \cup {r.event : r \in Running(gen)'} :
             f \in windows \cup {r.event : r \in Running(gen)}
      BY <1>1, <2>1, <2>2 DEF Running
    <3>3. \A f \in windows' \cup {r.event : r \in Running(gen)'} : \A b \in At(gen)' : f < b
      BY <1>1, <1>4, <3>1, <3>2
    <3> QED BY <3>3 DEF NoOvertaking, At
  <2>9. Unsettled'
    <3>1. ASSUME NEW f \in Event, f # e
          PROVE  /\ f > arrived' \/ f \in windows' \/ (\E g \in Gen : f \in At(g)') =>
                       runs'[f] = "none" /\ done'[f] = {}
                 /\ (\E r \in live' : r.event = f) =>
                       runs'[f] \in {"none", "running"} /\ done'[f] = {}
      <4>1. (\E r \in live' : r.event = f) => \E r \in live : r.event = f
        BY <2>1, <2>2, <3>1
      <4> QED BY <1>1, <1>4, <2>4, <3>1, <4>1 DEF Unsettled
    <3>2. ~(e > arrived') /\ e \notin windows' /\ \A g \in Gen : e \notin At(g)'
      <4>1. e \in Nat /\ arrived \in Nat
        BY <1>1, WhereEventsAre, ConstantFacts
      <4> QED BY <1>1, <1>2, <1>4, <4>1
    <3> QED BY <1>1, <1>2, <2>4, <3>1, <3>2 DEF Unsettled
  <2>10. DownIsEmpty'
    BY <1>1, <1>5, <2>1, FS_AddElement DEF DownIsEmpty
  <2>11. Verdicts'
    BY <1>1, <1>2, <2>4 DEF Verdicts, Verdict
  <2>12. RunningRowsAreLive'
    <3>1. \A f \in Event : runs'[f] = "running" => f = e \/ runs[f] = "running"
      BY <2>4
    <3> QED BY <1>1, <2>1, <2>2, <3>1 DEF IInv, RunningRowsAreLive, Orphans
  <2>13. SlotAccounting'
    <3> SUFFICES ASSUME gen = 1, phase = "up"
                 PROVE  /\ inflight[1] = Cardinality(live') + Cardinality(windows')
                                          + Cardinality(Leaked')
                        /\ inflight[1] <= Limit
      BY <1>1 DEF SlotAccounting
    <3>1. Leaked' = Leaked
      BY <1>1 DEF Leaked
    <3>2. IsFiniteSet(live) /\ IsFiniteSet(windows) /\ Cardinality(live) \in Nat
          /\ Cardinality(windows) \in Nat /\ Cardinality(Leaked) \in Nat
      BY <1>1, WhereEventsAre, FS_CardinalityType DEF DownIsEmpty
    <3>3. Cardinality(live') = Cardinality(live) + 1
      BY <1>2, <2>1, <2>2, <3>2, FS_AddElement
    <3>4. Cardinality(windows') = Cardinality(windows) - 1
      BY <1>1, <3>2, FS_RemoveElement
    <3>5. /\ inflight[1] = Cardinality(live) + Cardinality(windows) + Cardinality(Leaked)
          /\ inflight[1] <= Limit
      BY <1>5 DEF IInv, SlotAccounting
    <3> QED BY <3>1, <3>2, <3>3, <3>4, <3>5
  <2> QED
    BY <1>3, <2>5, <2>6, <2>7, <2>8, <2>9, <2>10, <2>11, <2>12, <2>13 DEF IInv, Placed
<1>6. CASE ~registered
  <2>1. UNCHANGED <<live, runs>>
    BY <1>6 DEF WindowWon
  <2>2. TypeOK'
    BY <1>1, <2>1 DEF TypeOK
  <2>3. FutureSlots' /\ OnePlace' /\ NoOvertaking'
    BY <1>1, <2>1 DEF Placed, FutureSlots, OnePlace, At, NoOvertaking, Running
  <2>4. Unsettled'
    BY <1>1, <2>1 DEF Unsettled, At
  <2>5. DownIsEmpty' /\ Verdicts' /\ RunningRowsAreLive' /\ SlotAccounting'
    BY <1>1, <1>6, <2>1
       DEF IInv, DownIsEmpty, Verdicts, Verdict, RunningRowsAreLive, Orphans, SlotAccounting
  <2> QED BY <1>3, <2>2, <2>3, <2>4, <2>5 DEF IInv, Placed
<1> QED BY <1>5, <1>6

\* A window without a row closes and leaves its place taken.
LEMMA VoidKeeps ==
    ASSUME IInv, NEW e \in windows, WindowVoid(e)
    PROVE  IInv'
<1>1. /\ TypeOK /\ Placed /\ DownIsEmpty /\ Unsettled /\ Verdicts
      /\ e \in Event /\ e \in UnknownTeam /\ windows' = windows \ {e}
      /\ UNCHANGED <<phase, gen, registered, arrived, inflight, queue, live, runs,
                     claimRow, done,
                     unended, leftover>>
  BY ConstantFacts DEF IInv, TypeOK, WindowVoid
<1>2. e <= arrived /\ \A h \in Gen : e \notin At(h)
  BY <1>1 DEF Placed, OnePlace
<1>3. TypeOK'
  BY <1>1 DEF TypeOK
<1>4. Placed'
  <2>1. SlotRoom' /\ FutureSlots' /\ QueuesInOrder'
    BY <1>1 DEF Placed, SlotRoom, FutureSlots, QueuesInOrder, At
  <2>2. OnePlace'
    BY <1>1 DEF Placed, OnePlace, At
  <2>3. NoOvertaking'
    BY <1>1 DEF Placed, NoOvertaking, Running
  <2> QED BY <2>1, <2>2, <2>3 DEF Placed
<1>5. Unsettled'
  BY <1>1 DEF Unsettled, At
<1>6. DownIsEmpty' /\ Verdicts' /\ RunningRowsAreLive'
  BY <1>1 DEF IInv, DownIsEmpty, Verdicts, Verdict, RunningRowsAreLive, Orphans
<1>7. SlotAccounting'
  <2> SUFFICES ASSUME gen = 1, phase = "up", registered
               PROVE  /\ inflight[1] = Cardinality(live) + Cardinality(windows')
                                        + Cardinality(Leaked')
                      /\ inflight[1] <= Limit
    BY <1>1 DEF SlotAccounting
  <2>1. Leaked' = Leaked \cup {e} /\ e \notin Leaked
    BY <1>1, <1>2, ConstantFacts DEF Leaked, At
  <2>2. IsFiniteSet(windows) /\ IsFiniteSet(Leaked) /\ Cardinality(live) \in Nat
        /\ Cardinality(windows) \in Nat /\ Cardinality(Leaked) \in Nat
    BY <1>1, WhereEventsAre, FS_CardinalityType DEF DownIsEmpty
  <2>3. Cardinality(Leaked') = Cardinality(Leaked) + 1
    BY <2>1, <2>2, FS_AddElement
  <2>4. Cardinality(windows') = Cardinality(windows) - 1
    BY <1>1, <2>2, FS_RemoveElement
  <2>5. /\ inflight[1] = Cardinality(live) + Cardinality(windows) + Cardinality(Leaked)
        /\ inflight[1] <= Limit
    BY DEF IInv, SlotAccounting
  <2> QED BY <2>2, <2>3, <2>4, <2>5
<1> QED BY <1>3, <1>4, <1>5, <1>6, <1>7 DEF IInv

----------------------------------------------------------------------------
(* Reloads, crashes, boots *)

LEMMA UnregisterKeeps ==
    ASSUME IInv, Unregister
    PROVE  IInv'
<1>1. registered' = FALSE /\ phase = "up" /\
      UNCHANGED <<phase, gen, arrived, inflight, queue, live, windows, runs, claimRow, done,
                     unended, leftover>>
  BY DEF Unregister
<1>2. TypeOK'
  BY <1>1 DEF IInv, TypeOK
<1>3. Placed'
  <2>1. SlotRoom' /\ FutureSlots' /\ QueuesInOrder'
    BY <1>1 DEF IInv, Placed, SlotRoom, FutureSlots, QueuesInOrder, At
  <2>2. OnePlace' /\ NoOvertaking'
    BY <1>1 DEF IInv, Placed, OnePlace, At, NoOvertaking, Running
  <2> QED BY <2>1, <2>2 DEF Placed
<1>4. Unsettled' /\ Verdicts' /\ RunningRowsAreLive'
  BY <1>1 DEF IInv, Unsettled, At, Verdicts, Verdict, RunningRowsAreLive, Orphans
<1>5. DownIsEmpty' /\ SlotAccounting'
  BY <1>1 DEF IInv, DownIsEmpty, SlotAccounting
<1> QED BY <1>2, <1>3, <1>4, <1>5 DEF IInv

\* A new slot is empty, behind every event that still waits in an old one.
LEMMA RegisterKeeps ==
    ASSUME IInv, Register
    PROVE  IInv'
<1>1. /\ phase = "up" /\ gen' = gen + 1 /\ registered' = TRUE /\ gen \in Nat
      /\ gen + 1 \in Gen /\ gen + 1 # 1 /\ \A g \in Gen : g \in Nat
      /\ UNCHANGED <<phase, arrived, inflight, queue, live, windows, runs, claimRow, done,
                     unended, leftover>>
  BY ConstantFacts DEF Register, IInv, TypeOK, Gen
<1>2. TypeOK'
  BY <1>1 DEF IInv, TypeOK
<1>3. Placed'
  <2>1. SlotRoom' /\ QueuesInOrder'
    BY <1>1 DEF IInv, Placed, SlotRoom, QueuesInOrder, At
  <2>2. FutureSlots'
    <3>1. \A g \in Gen : g > gen + 1 => g > gen
      BY <1>1
    <3>2. \A r \in live : r.gen \in Nat /\ (r.gen <= gen => r.gen <= gen + 1)
      <4>1. \A r \in live : r.gen \in Nat
        BY <1>1 DEF IInv, TypeOK
      <4> QED BY <1>1, <4>1
    <3> QED BY <1>1, <3>1, <3>2 DEF IInv, Placed, FutureSlots
  <2>3. OnePlace'
    BY <1>1 DEF IInv, Placed, OnePlace, At
  <2>4. NoOvertaking'
    <3>1. queue'[gen'] = <<>>
      BY <1>1 DEF IInv, Placed, FutureSlots
    <3>2. Elements(queue'[gen']) = {}
      BY <3>1 DEF Elements
    <3> QED BY <3>2 DEF NoOvertaking
  <2> QED BY <2>1, <2>2, <2>3, <2>4 DEF Placed
<1>4. Unsettled' /\ Verdicts' /\ RunningRowsAreLive'
  BY <1>1 DEF IInv, Unsettled, At, Verdicts, Verdict, RunningRowsAreLive, Orphans
<1>5. DownIsEmpty' /\ SlotAccounting'
  BY <1>1 DEF IInv, DownIsEmpty, SlotAccounting
<1> QED BY <1>2, <1>3, <1>4, <1>5 DEF IInv

LEMMA CrashKeeps ==
    ASSUME IInv, Crash
    PROVE  IInv'
<1>1. /\ phase' = "down" /\ registered' = FALSE
      /\ inflight' = [g \in Gen |-> 0] /\ queue' = [g \in Gen |-> <<>>]
      /\ live' = {} /\ windows' = {}
      /\ UNCHANGED <<gen, arrived, runs, claimRow, done,
                     unended, leftover>>
  BY DEF Crash
<1>2. \A g \in Gen : queue'[g] = <<>> /\ Elements(queue'[g]) = {} /\ inflight'[g] = 0
  BY <1>1 DEF Elements
<1>3. TypeOK'
  <2>1. inflight' \in [Gen -> Int]
    BY <1>1
  <2>2. queue' \in [Gen -> Seq(Event)]
    BY <1>1, EmptySeq
  <2> QED BY <1>1, <2>1, <2>2 DEF IInv, TypeOK
<1>4. Placed'
  <2>1. \A g \in Gen : At(g)' = {} /\ Increasing(queue[g])'
    BY <1>2 DEF At, Increasing
  <2>2. SlotRoom' /\ FutureSlots' /\ QueuesInOrder'
    BY <1>1, <1>2, <2>1, ConstantFacts DEF SlotRoom, FutureSlots, QueuesInOrder
  <2>3. OnePlace' /\ NoOvertaking'
    BY <1>1, <2>1 DEF OnePlace, NoOvertaking, Running
  <2> QED BY <2>2, <2>3 DEF Placed
<1>5. Unsettled'
  BY <1>1, <1>2 DEF IInv, Unsettled, At
<1>6. Verdicts' /\ RunningRowsAreLive'
  BY <1>1 DEF IInv, Verdicts, Verdict, RunningRowsAreLive, Orphans
<1>7. DownIsEmpty' /\ SlotAccounting'
  BY <1>1, FS_EmptySet DEF DownIsEmpty, SlotAccounting
<1> QED BY <1>3, <1>4, <1>5, <1>6, <1>7 DEF IInv

\* The boot gives every row that says running the verdict lost, which is the
\* only one unless its end was refused; or it is refused, and changes no row.
LEMMA RecoverKeeps ==
    ASSUME IInv, RecoverLost
    PROVE  IInv'
<1>1. /\ phase = "down" /\ phase' = "up" /\ live = {} /\ windows = {} /\ ~registered
      /\ UNCHANGED <<gen, registered, arrived, inflight, queue, live, windows, claimRow, unended>>
  BY DEF RecoverLost, IInv, DownIsEmpty
<1>2. \A e \in Event : e \in Orphans <=> runs[e] = "running"
  BY DEF Orphans
<1>3. \/ leftover' = leftover \cup Orphans /\ UNCHANGED <<runs, done>>
      \/ /\ leftover' = leftover
         /\ \E announced \in SUBSET Orphans :
               /\ runs' = [e \in Event |-> IF e \in Orphans THEN "lost" ELSE runs[e]]
               /\ done' = [e \in Event |-> IF e \in announced THEN done[e] \cup {"lost"}
                                           ELSE done[e]]
  BY DEF RecoverLost
<1>4. TypeOK'
  <2>1. runs' \in [Event -> {"none", "running", "succeeded", "failed", "lost"}]
    BY <1>3 DEF IInv, TypeOK
  <2>2. done' \in [Event -> SUBSET {"completed", "failed", "lost"}]
    <3>1. done \in [Event -> SUBSET {"completed", "failed", "lost"}]
      BY DEF IInv, TypeOK
    <3> QED BY <1>3, <3>1
  <2>3. leftover' \subseteq Event
    <3>1. leftover \subseteq Event /\ Orphans \subseteq Event
      BY DEF IInv, TypeOK, Orphans
    <3> QED BY <1>3, <3>1
  <2> QED BY <1>1, <2>1, <2>2, <2>3 DEF IInv, TypeOK
<1>5. Placed'
  <2>1. SlotRoom' /\ FutureSlots' /\ QueuesInOrder'
    BY <1>1 DEF IInv, Placed, SlotRoom, FutureSlots, QueuesInOrder, At
  <2>2. OnePlace' /\ NoOvertaking'
    BY <1>1 DEF IInv, Placed, OnePlace, At, NoOvertaking, Running
  <2> QED BY <2>1, <2>2 DEF Placed
<1>6. \A e \in Event :
         \/ runs'[e] = runs[e] /\ done'[e] = done[e]
         \/ /\ runs[e] = "running" /\ runs'[e] = "lost"
            /\ done'[e] = done[e] \/ done'[e] = done[e] \cup {"lost"}
  BY <1>2, <1>3 DEF IInv, TypeOK
<1>7. Unsettled'
  BY <1>1, <1>6 DEF IInv, Unsettled, At
<1>8. Verdicts'
  <2> SUFFICES ASSUME NEW e \in Event
               PROVE  Verdict(e, done[e])'
    BY DEF Verdicts
  <2>1. Verdict(e, done[e])
    BY DEF IInv, Verdicts
  <2>2. CASE runs'[e] = runs[e] /\ done'[e] = done[e]
    BY <1>1, <2>1, <2>2 DEF Verdict
  <2>3. CASE /\ runs[e] = "running" /\ runs'[e] = "lost"
             /\ done'[e] = done[e] \/ done'[e] = done[e] \cup {"lost"}
    <3>1. \/ done[e] = {}
          \/ e \in unended /\ (done[e] = {"completed"} \/ done[e] = {"failed"})
      BY <2>1, <2>3 DEF Verdict
    <3>2. \/ done'[e] = done[e] \/ done'[e] = {"lost"}
          \/ e \in unended /\ done'[e] \in {{"completed", "lost"}, {"failed", "lost"}}
      BY <2>3, <3>1
    <3> QED BY <1>1, <2>3, <3>1, <3>2 DEF Verdict
  <2> QED BY <1>6, <2>2, <2>3
<1>9. RunningRowsAreLive'
  <2> SUFFICES ASSUME NEW e \in Event, runs'[e] = "running", e \notin unended, e \notin leftover'
               PROVE  FALSE
    BY <1>1 DEF RunningRowsAreLive, Orphans
  <2> QED BY <1>2, <1>3
<1>10. DownIsEmpty' /\ SlotAccounting'
  BY <1>1 DEF IInv, DownIsEmpty, SlotAccounting
<1> QED BY <1>4, <1>5, <1>7, <1>8, <1>9, <1>10 DEF IInv

----------------------------------------------------------------------------
(* The theorems *)

LEMMA InitIInv == Init => IInv
<1> SUFFICES ASSUME Init PROVE IInv
  OBVIOUS
<1>1. /\ phase = "up" /\ gen = 1 /\ registered = TRUE /\ arrived = 0
      /\ inflight = [g \in Gen |-> 0] /\ queue = [g \in Gen |-> <<>>]
      /\ live = {} /\ windows = {} /\ runs = [e \in Event |-> "none"]
      /\ claimRow = [e \in Event |-> "none"] /\ done = [e \in Event |-> {}]
      /\ unended = {} /\ leftover = {}
  BY DEF Init
<1>2. TypeOK
  <2>1. queue \in [Gen -> Seq(Event)] /\ inflight \in [Gen -> Int]
    BY <1>1, EmptySeq
  <2>2. runs \in [Event -> {"none", "running", "succeeded", "failed", "lost"}]
        /\ claimRow \in [Event -> {"none", "winner", "failed"}]
        /\ done \in [Event -> SUBSET {"completed", "failed", "lost"}]
    BY <1>1
  <2> QED BY <1>1, <2>1, <2>2, ConstantFacts DEF TypeOK
<1>3. \A g \in Gen : queue[g] = <<>> /\ At(g) = {} /\ inflight[g] = 0
  BY <1>1 DEF At, Elements
<1>4. Placed
  <2>1. \A g \in Gen : Increasing(queue[g])
    BY <1>3 DEF Increasing
  <2>2. SlotRoom /\ FutureSlots /\ QueuesInOrder
    BY <1>1, <1>3, <2>1, ConstantFacts DEF SlotRoom, FutureSlots, QueuesInOrder
  <2>3. OnePlace /\ NoOvertaking
    BY <1>1, <1>3 DEF OnePlace, NoOvertaking, Running
  <2> QED BY <2>2, <2>3 DEF Placed
<1>5. Unsettled /\ Verdicts /\ RunningRowsAreLive
  BY <1>1 DEF Unsettled, Verdicts, Verdict, RunningRowsAreLive, Orphans
<1>6. DownIsEmpty
  BY <1>1, FS_EmptySet DEF DownIsEmpty
<1>7. SlotAccounting
  <2>1. \A e \in Event : ~(e <= 0)
    BY DEF Event
  <2>2. Leaked = {}
    BY <1>1, <2>1, ConstantFacts DEF Leaked
  <2>3. Cardinality(live) = 0 /\ Cardinality(windows) = 0 /\ Cardinality(Leaked) = 0
    BY <1>1, <2>2, FS_EmptySet
  <2> QED BY <1>1, <2>3, ConstantFacts DEF SlotAccounting
<1> QED BY <1>2, <1>4, <1>5, <1>6, <1>7 DEF IInv

LEMMA StepIInv == IInv /\ [Next]_vars => IInv'
<1> SUFFICES ASSUME IInv, [Next]_vars
             PROVE  IInv'
  OBVIOUS
<1>1. CASE Dispatch
  <2>1. CASE inflight[gen] >= Limit
    <3>1. ~(inflight[gen] < Limit)
      BY <2>1, ConstantFacts DEF IInv, TypeOK
    <3> QED BY <1>1, <2>1, <3>1, QueuedKeeps DEF Dispatch
  <2>2. CASE ~(inflight[gen] >= Limit)
    BY <1>1, <2>2, RoutedKeeps DEF Dispatch
  <2> QED BY <2>1, <2>2
<1>2. ASSUME NEW r \in live, Succeed(r) \/ Fail(r)
      PROVE  IInv'
  BY <1>2, FinishKeeps DEF Succeed, Fail
<1>3. ASSUME NEW e \in windows, CloseWindow(e)
      PROVE  IInv'
  BY <1>3, WonKeeps, LostKeeps, VoidKeeps DEF CloseWindow
<1>4. CASE UNCHANGED vars
  <2>1. TypeOK' /\ SlotRoom' /\ FutureSlots' /\ QueuesInOrder'
    BY <1>4 DEF vars, IInv, TypeOK, Placed, SlotRoom, FutureSlots, QueuesInOrder, At
  <2>2. OnePlace' /\ NoOvertaking' /\ Unsettled'
    BY <1>4 DEF vars, IInv, Placed, OnePlace, At, NoOvertaking, Running, Unsettled
  <2>3. DownIsEmpty' /\ Verdicts' /\ RunningRowsAreLive'
    BY <1>4 DEF vars, IInv, DownIsEmpty, Verdicts, Verdict, RunningRowsAreLive, Orphans
  <2>4. SlotAccounting'
    BY <1>4 DEF vars, IInv, SlotAccounting, Leaked
  <2> QED BY <2>1, <2>2, <2>3, <2>4 DEF IInv, Placed
<1>5. CASE \E r \in live : Succeed(r) \/ Fail(r)
  BY <1>2, <1>5
<1>6. CASE \E e \in windows : CloseWindow(e)
  BY <1>3, <1>6
<1> QED
  BY <1>1, <1>4, <1>5, <1>6, UnregisterKeeps, RegisterKeeps, CrashKeeps, RecoverKeeps DEF Next

LEMMA AlwaysIInv == Spec => []IInv
BY InitIInv, StepIInv, PTL DEF Spec

\* The count of a slot is the handlers and windows it holds, and stays within
\* the cap; no event waits behind free room or is overtaken; a row says
\* running only while its handler runs, unless the store refused to write its
\* end or its loss (scheduler/scheduler.ts:189-307, 327-355).
THEOREM SlotsKept ==
    Spec => [](TypeOK /\ SlotAccounting /\ WorkConserving /\ NoOvertaking /\ RunningRowsAreLive)
<1>1. IInv => TypeOK /\ SlotAccounting /\ WorkConserving /\ NoOvertaking /\ RunningRowsAreLive
  BY DEF IInv, Placed, SlotRoom, TypeOK, WorkConserving
<1> QED BY <1>1, AlwaysIInv, PTL

\* An execution completes or fails, never both, and its verdict is one, in
\* the table and on the bus alike, whatever reload or crash comes between;
\* only where the store refused to end its row may a boot call it lost too
\* (scheduler/scheduler.ts:189-204, 257-355).
THEOREM VerdictIsOne == Spec => []OneVerdict
<1>1. IInv => OneVerdict
  <2> SUFFICES ASSUME Verdicts, NEW e \in Event
               PROVE  /\ ~({"completed", "failed"} \subseteq done[e])
                      /\ "lost" \in done[e] => runs[e] = "lost"
                      /\ runs[e] = "succeeded" => done[e] = {"completed"}
                      /\ runs[e] = "failed" => done[e] = {"failed"}
                      /\ e \in unended \/ runs[e] # "lost" \/ done[e] \subseteq {"lost"}
                      /\ e \in unended \/ runs[e] # "running" \/ done[e] = {}
    BY DEF IInv, OneVerdict
  <2> QED BY DEF Verdicts, Verdict
<1> QED BY <1>1, AlwaysIInv, PTL

----------------------------------------------------------------------------
(* Bring-up *)

\* What the phase of the daemon says of the bindings of a bring-up: before it
\* is up nothing is committed; a result that waits for its await to resume is
\* the truth about the loop; and it resumes on a mailbox that was the
\* bouncer's, except at boot, when nobody was subscribed yet.
BindingsFollowPhase ==
    /\ daemonPhase \in {"loading", "probing"} =>
           chatLoop = "none" /\ router.adapters = {} /\ ~bouncing /\ ~brought
           /\ resuming = "none"
    /\ resuming # "none" => daemonPhase = "up" /\ (brought <=> chatLoop # "none")
    /\ resuming = "boot" => ~bouncing
    /\ resuming \in {"wake", "upgrade"} => bouncing
    /\ daemonPhase = "up" /\ resuming = "none" => (bouncing <=> chatLoop = "none")
    /\ daemonPhase = "up" /\ resuming = "none" /\ chatLoop = "none" => reasonKnown
    /\ cliAuthLost => chatLoop # "none"
    /\ deadAir = 0

BootIInv == Boot!TypeOK /\ BindingsFollowPhase /\ Boot!DefaultIsHonoured

LEMMA DaemonRunsBringup == DaemonSpec => Boot!Spec
<1>1. DaemonInit => Boot!Init
  BY DEF DaemonInit
<1>2. [DaemonNext]_daemonVars => [Boot!Next]_Boot!bringupVars
  BY DEF DaemonNext, daemonVars, SchedulerStep, CronStep, BringupStep, HealthStep,
         bringupVars, Boot!bringupVars
<1> QED BY <1>1, <1>2, PTL DEF DaemonSpec, Boot!Spec

USE DEF Boot!Providers, Boot!Models, Boot!ServedModels, Boot!Serves

\* A router that can be built stands on a model it serves, on the stored
\* default whenever it serves that.
LEMMA BootModelServed ==
    ASSUME NEW A \in SUBSET Boot!Providers, defaultFile \in Boot!Models,
           Boot!CanBuildApiRouter(A)
    PROVE  /\ Boot!BootModel(A) \in Boot!Models
           /\ Boot!Serves(A, Boot!BootModel(A))
           /\ Boot!Serves(A, defaultFile) => Boot!BootModel(A) = defaultFile
BY DEF Boot!CanBuildApiRouter, Boot!BootModel, Boot!fallbackForProvider

\* What the API branch of a bring-up leaves: a loop on a router that honours
\* the default, or the bindings it was told to leave.
LEMMA BringUpOutcome ==
    ASSUME BootIInv, NEW A \in SUBSET Boot!Providers, defaultFile' = defaultFile,
           NEW STATE loop, NEW STATE authLost, Boot!BringUpApi(A, loop, authLost)
    PROVE  \/ /\ chatLoop' = "api" /\ brought' = TRUE /\ cliAuthLost' = FALSE
              /\ router' \in [adapters : SUBSET Boot!Providers, current : Boot!Models]
              /\ Boot!DefaultIsHonoured'
           \/ /\ chatLoop' = loop /\ brought' = FALSE /\ cliAuthLost' = authLost
              /\ router' = router /\ Boot!DefaultIsHonoured'
<1>1. CASE Boot!CanBuildApiRouter(A) /\ Boot!CommitApi(A)
  BY <1>1, BootModelServed
     DEF Boot!CommitApi, BootIInv, Boot!TypeOK, Boot!DefaultIsHonoured
<1>2. CASE Boot!BroughtNothing(loop, authLost)
  BY <1>2 DEF Boot!BroughtNothing, BootIInv, Boot!DefaultIsHonoured
<1> QED BY <1>1, <1>2 DEF Boot!BringUpApi

LEMMA BootInit == Boot!Init => BootIInv
<1> SUFFICES ASSUME Boot!Init PROVE BootIInv
  OBVIOUS
<1>1. Boot!TypeOK
  <2>1. router \in [adapters : SUBSET Boot!Providers, current : Boot!Models]
    BY DEF Boot!Init, Boot!NoRouter
  <2>2. keysOnDisk \subseteq Boot!Providers /\ envKeys \subseteq Boot!Providers
    BY DEF Boot!Init
  <2>3. /\ deadAir \in 0..MaxInputs /\ delegated = 0
        /\ calls \in [secret : Nat, model : Nat, input : 0..MaxInputs] /\ calls.input = 0
    BY PartsAssumption DEF Boot!Init, Boot!BringupAssumption
  <2>4. delegated \in Nat /\ delegated <= calls.input
    BY <2>3
  <2> QED BY <2>1, <2>2, <2>3, <2>4 DEF Boot!Init, Boot!TypeOK
<1>2. BindingsFollowPhase
  BY DEF Boot!Init, BindingsFollowPhase, Boot!NoRouter
<1>3. Boot!DefaultIsHonoured
  BY DEF Boot!Init, Boot!DefaultIsHonoured, Boot!NoRouter
<1> QED BY <1>1, <1>2, <1>3 DEF BootIInv

LEMMA BootStep == BootIInv /\ [Boot!Next]_Boot!bringupVars => BootIInv'
<1> SUFFICES ASSUME BootIInv, [Boot!Next]_Boot!bringupVars
             PROVE  BootIInv'
  OBVIOUS
<1>1. CASE Boot!InitialBringUp
  <2>1. keysOnDisk' \in SUBSET Boot!Providers /\ defaultFile' = defaultFile
    BY <1>1 DEF Boot!InitialBringUp, BootIInv, Boot!TypeOK
  <2>2. CASE Boot!BringUpApi(keysOnDisk', "none", FALSE)
             /\ daemonPhase' = "up" /\ resuming' = "boot"
    <3>1. \/ chatLoop' = "api" /\ brought' = TRUE /\ cliAuthLost' = FALSE
          \/ chatLoop' = "none" /\ brought' = FALSE /\ cliAuthLost' = FALSE
                /\ router' = router
      BY <2>1, <2>2, BringUpOutcome
    <3>2. Boot!DefaultIsHonoured'
          /\ router' \in [adapters : SUBSET Boot!Providers, current : Boot!Models]
      BY <2>1, <2>2, BringUpOutcome DEF BootIInv, Boot!TypeOK
    <3>3. Boot!TypeOK' /\ BindingsFollowPhase'
      BY <1>1, <2>1, <2>2, <3>1, <3>2
         DEF Boot!InitialBringUp, BootIInv, Boot!TypeOK, BindingsFollowPhase
    <3> QED BY <3>2, <3>3 DEF BootIInv
  <2>3. CASE UNCHANGED <<chatLoop, router, cliAuthLost, resuming, brought>>
             /\ daemonPhase' = "probing"
    BY <1>1, <2>1, <2>3
       DEF Boot!InitialBringUp, BootIInv, Boot!TypeOK, BindingsFollowPhase,
           Boot!DefaultIsHonoured
  <2> QED BY <1>1, <2>2, <2>3 DEF Boot!InitialBringUp
<1>2. ASSUME NEW ready \in BOOLEAN, Boot!Probe(ready)
      PROVE  BootIInv'
  BY <1>2 DEF Boot!Probe, BootIInv, Boot!TypeOK, BindingsFollowPhase, Boot!DefaultIsHonoured
<1>3. CASE Boot!Resume
  BY <1>3 DEF Boot!Resume, BootIInv, Boot!TypeOK, BindingsFollowPhase, Boot!DefaultIsHonoured
<1>4. ASSUME NEW p \in Boot!Providers, Boot!SetSecret(p)
      PROVE  BootIInv'
  <2> DEFINE Counters == [secret : Nat, model : Nat, input : 0..MaxInputs]
  <2>1. /\ keysOnDisk' \in SUBSET Boot!Providers /\ defaultFile' = defaultFile
        /\ UNCHANGED <<daemonPhase, brainsLeft, envKeys, reasonKnown, deadAir, delegated>>
        /\ resuming = "none"
        /\ calls' \in Counters /\ calls'.input = calls.input
    BY <1>4 DEF Boot!SetSecret, BootIInv, Boot!TypeOK
  <2>2. CASE UNCHANGED <<chatLoop, router, cliAuthLost, brought, resuming, bouncing>>
    BY <2>1, <2>2 DEF BootIInv, Boot!TypeOK, BindingsFollowPhase, Boot!DefaultIsHonoured
  <2>3. ASSUME daemonPhase = "up",
               \/ chatLoop # "none" /\ bouncing' = TRUE /\ resuming' = "upgrade"
                     /\ Boot!BringUpApi(keysOnDisk', "none", FALSE)
               \/ chatLoop = "none" /\ bouncing' = bouncing /\ resuming' = "wake"
                     /\ Boot!BringUpApi(keysOnDisk', chatLoop, cliAuthLost)
        PROVE  BootIInv'
    <3>1. \/ chatLoop' = "api" /\ brought' = TRUE /\ cliAuthLost' = FALSE
          \/ chatLoop' = "none" /\ brought' = FALSE /\ cliAuthLost' = FALSE
      <4>1. chatLoop = "none" => cliAuthLost = FALSE
        BY DEF BootIInv, Boot!TypeOK, BindingsFollowPhase
      <4>2. CASE chatLoop # "none"
        BY <2>1, <2>3, <4>2, BringUpOutcome
      <4>3. CASE chatLoop = "none"
        BY <2>1, <2>3, <4>1, <4>3, BringUpOutcome
      <4> QED BY <4>2, <4>3
    <3>2. Boot!DefaultIsHonoured'
          /\ router' \in [adapters : SUBSET Boot!Providers, current : Boot!Models]
      BY <2>1, <2>3, BringUpOutcome DEF BootIInv, Boot!TypeOK
    <3>3. Boot!TypeOK' /\ BindingsFollowPhase'
      BY <2>1, <2>3, <3>1, <3>2 DEF BootIInv, Boot!TypeOK, BindingsFollowPhase
    <3> QED BY <3>2, <3>3 DEF BootIInv
  <2>4. ASSUME daemonPhase = "up", router.adapters # {}, Boot!HotAdd(p)
        PROVE  BootIInv'
    <3>1. /\ Boot!DefaultIsHonoured'
          /\ router' \in [adapters : SUBSET Boot!Providers, current : Boot!Models]
      BY <2>1, <2>4 DEF Boot!HotAdd, BootIInv, Boot!TypeOK, Boot!DefaultIsHonoured
    <3>2. Boot!TypeOK' /\ BindingsFollowPhase'
      BY <2>1, <2>4, <3>1 DEF Boot!HotAdd, BootIInv, Boot!TypeOK, BindingsFollowPhase
    <3> QED BY <3>1, <3>2 DEF BootIInv
  <2> QED
    BY <1>4, <2>2, <2>3, <2>4
       DEF Boot!SetSecret, Boot!OnSecretSet, Boot!TeardownChat
<1>5. ASSUME NEW p \in Boot!Providers, Boot!RemoveSecret(p)
      PROVE  BootIInv'
  BY <1>5 DEF Boot!RemoveSecret, BootIInv, Boot!TypeOK, BindingsFollowPhase,
              Boot!DefaultIsHonoured
<1>6. ASSUME NEW mdl \in Boot!Models, Boot!SetModel(mdl)
      PROVE  BootIInv'
  BY <1>6 DEF Boot!SetModel, Boot!Validate, BootIInv, Boot!TypeOK, BindingsFollowPhase,
              Boot!DefaultIsHonoured
<1>7. CASE Boot!ChatInput
  <2>1. /\ calls.input \in 0..MaxInputs /\ calls.input < MaxInputs
        /\ calls' = [calls EXCEPT !.input = @ + 1]
        /\ calls \in [secret : Nat, model : Nat, input : 0..MaxInputs]
        /\ delegated \in Nat /\ delegated <= calls.input
        /\ delegated' \in {delegated, delegated + 1} /\ MaxInputs \in Nat
    BY <1>7, PartsAssumption
       DEF Boot!ChatInput, BootIInv, Boot!TypeOK, Boot!BringupAssumption
  <2>2. calls' \in [secret : Nat, model : Nat, input : 0..MaxInputs]
    BY <2>1
  <2>3. delegated' \in Nat /\ delegated' <= calls'.input
    BY <2>1
  <2>4. deadAir' = 0
    BY <1>7 DEF Boot!ChatInput, BootIInv, BindingsFollowPhase, Boot!TypeOK
  <2>5. Boot!TypeOK'
    BY <1>7, <2>2, <2>3, <2>4, PartsAssumption
       DEF Boot!ChatInput, BootIInv, Boot!TypeOK, Boot!BringupAssumption
  <2> QED BY <1>7, <2>4, <2>5 DEF Boot!ChatInput, BootIInv, BindingsFollowPhase,
                                  Boot!DefaultIsHonoured
<1>8. CASE Boot!CliAuthLost
  BY <1>8 DEF Boot!CliAuthLost, Boot!TurnEnded, BootIInv, Boot!TypeOK, BindingsFollowPhase,
              Boot!DefaultIsHonoured
<1>9. CASE Boot!RootTurnEnds \/ Boot!DelegatedTurnFails
  <2>1. Boot!TurnEnded /\ (cliAuthLost' = cliAuthLost \/ cliAuthLost' = FALSE)
    BY <1>9 DEF Boot!RootTurnEnds, Boot!DelegatedTurnFails
  <2>2. delegated \in Nat /\ delegated <= calls.input /\ calls.input \in Nat /\ calls' = calls
    BY <2>1 DEF Boot!TurnEnded, BootIInv, Boot!TypeOK
  <2>3. delegated' = delegated \/ (delegated > 0 /\ delegated' = delegated - 1)
    BY <1>9 DEF Boot!RootTurnEnds, Boot!DelegatedTurnFails
  <2>4. delegated' \in Nat /\ delegated' <= calls.input
    BY <2>2, <2>3
  <2>5. cliAuthLost' \in BOOLEAN /\ (cliAuthLost' => cliAuthLost)
    <3>1. cliAuthLost \in BOOLEAN
      BY DEF BootIInv, Boot!TypeOK
    <3>2. CASE cliAuthLost' = cliAuthLost
      BY <3>1, <3>2
    <3>3. CASE cliAuthLost' = FALSE
      BY <3>3
    <3> QED BY <2>1, <3>2, <3>3
  <2>6. Boot!TypeOK'
    BY <2>1, <2>2, <2>4, <2>5 DEF Boot!TurnEnded, BootIInv, Boot!TypeOK
  <2>7. BindingsFollowPhase' /\ Boot!DefaultIsHonoured'
    BY <2>1, <2>5 DEF Boot!TurnEnded, BootIInv, BindingsFollowPhase, Boot!DefaultIsHonoured,
                      Boot!TypeOK
  <2> QED BY <2>6, <2>7 DEF BootIInv
<1>10. CASE Boot!Shutdown
  BY <1>10 DEF Boot!Shutdown, BootIInv, Boot!TypeOK, BindingsFollowPhase,
              Boot!DefaultIsHonoured
<1>11. CASE Boot!Stopped
  BY <1>11 DEF Boot!Stopped, BootIInv, Boot!TypeOK, BindingsFollowPhase,
              Boot!DefaultIsHonoured
<1>12. CASE UNCHANGED Boot!bringupVars
  BY <1>12 DEF Boot!bringupVars, BootIInv, Boot!TypeOK, BindingsFollowPhase,
              Boot!DefaultIsHonoured
<1> QED
  BY <1>1, <1>2, <1>3, <1>4, <1>5, <1>6, <1>7, <1>8, <1>9, <1>10, <1>11, <1>12
     DEF Boot!Next

\* An input that reaches a daemon that is up finds the loop or the bouncer,
\* for any number of keys, models, inputs and lost logins.
THEOREM InputsAreAnswered == DaemonSpec => []SomeoneAnswers
<1>1. BootIInv => SomeoneAnswers
  BY DEF BootIInv, BindingsFollowPhase, Boot!TypeOK, SomeoneAnswers, Boot!SomeoneAnswers
<1> QED BY <1>1, BootInit, BootStep, DaemonRunsBringup, PTL DEF Boot!Spec

\* The router stands on the stored default whenever it can serve it.
THEOREM DefaultModelHonoured == DaemonSpec => []DefaultIsHonoured
<1>1. BootIInv => DefaultIsHonoured
  BY DEF BootIInv, DefaultIsHonoured
<1> QED BY <1>1, BootInit, BootStep, DaemonRunsBringup, PTL DEF Boot!Spec

----------------------------------------------------------------------------
(* The watchdog of failing turns *)

Strike == [nth : 1..MaxStrikes, age : 0..WindowTicks]

\* The failures kept for a thread are the errors since its last ended turn
\* that are in the window, and maybe older ones; a page is remembered.
FailuresAreRecentStrikes ==
    \A t \in Threads :
        /\ IsFiniteSet(strikes[t])
        /\ failures[t] \subseteq strikes[t]
        /\ Health!InWindow(strikes[t]) \subseteq failures[t]
        /\ pagesSince[t] = 0 \/ (pagesSince[t] = 1 /\ t \in proposed)

HealthIInv == Health!TypeOK /\ FailuresAreRecentStrikes /\ Health!PagedOncePerOutage

LEMMA DaemonRunsHealth == DaemonSpec => Health!Spec
<1>1. DaemonInit => Health!Init
  BY DEF DaemonInit
<1>2. [DaemonNext]_daemonVars => [Health!Next]_Health!healthVars
  BY DEF DaemonNext, daemonVars, SchedulerStep, CronStep, BringupStep, HealthStep,
         healthVars, Health!healthVars
<1> QED BY <1>1, <1>2, PTL DEF DaemonSpec, Health!Spec

\* With time a window only loses failures.
LEMMA WindowShrinks ==
    ASSUME NEW S \in SUBSET Strike, IsFiniteSet(S)
    PROVE  /\ Health!Older(S) \subseteq Strike
           /\ IsFiniteSet(Health!Older(S))
           /\ Cardinality(Health!InWindow(Health!Older(S))) <= Cardinality(Health!InWindow(S))
           /\ \A R \in SUBSET S : /\ Health!Older(R) \subseteq Health!Older(S)
                                  /\ Health!InWindow(S) \subseteq R =>
                                       Health!InWindow(Health!Older(S)) \subseteq Health!Older(R)
<1> DEFINE O(f) == [f EXCEPT !.age = IF @ < WindowTicks THEN @ + 1 ELSE @]
           T == {f \in S : O(f).age < WindowTicks}
           g == [f \in S |-> O(f)]
           h == [f \in T |-> O(f)]
<1>1. \A f \in S : /\ f.age \in 0..WindowTicks
                   /\ O(f) \in Strike
                   /\ O(f).age = IF f.age < WindowTicks THEN f.age + 1 ELSE f.age
  BY PartsAssumption DEF Strike, Health!HealthAssumption
<1>2. Health!Older(S) = {O(f) : f \in S}
  BY DEF Health!Older
<1>3. IsFiniteSet(Health!Older(S))
  <2>1. g \in Surjection(S, Health!Older(S))
    BY <1>2 DEF Surjection
  <2> QED BY <2>1, FS_Surjection
<1>4. T \subseteq Health!InWindow(S) /\ Health!InWindow(S) \subseteq S
  BY <1>1, PartsAssumption DEF Health!InWindow, Health!HealthAssumption
<1>5. Health!InWindow(Health!Older(S)) = {O(f) : f \in T}
  BY <1>2 DEF Health!InWindow
<1>6. Cardinality(Health!InWindow(Health!Older(S))) <= Cardinality(Health!InWindow(S))
  <2>1. h \in Surjection(T, Health!InWindow(Health!Older(S)))
    BY <1>5 DEF Surjection
  <2>2. IsFiniteSet(Health!InWindow(S)) /\ IsFiniteSet(T)
    BY <1>4, FS_Subset
  <2>3. Cardinality(Health!InWindow(Health!Older(S))) <= Cardinality(T)
    BY <2>1, <2>2, FS_Surjection
  <2>4. Cardinality(T) <= Cardinality(Health!InWindow(S))
    BY <1>4, <2>2, FS_Subset
  <2>5. IsFiniteSet(Health!InWindow(Health!Older(S)))
    BY <2>1, <2>2, FS_Surjection
  <2> HIDE DEF T, h
  <2> QED BY <2>2, <2>3, <2>4, <2>5, FS_CardinalityType
<1>7. ASSUME NEW R \in SUBSET S
      PROVE  /\ Health!Older(R) \subseteq Health!Older(S)
             /\ Health!InWindow(S) \subseteq R =>
                  Health!InWindow(Health!Older(S)) \subseteq Health!Older(R)
  <2>1. Health!Older(R) = {O(f) : f \in R}
    BY DEF Health!Older
  <2> QED BY <2>1, <1>2, <1>4, <1>5
<1> QED BY <1>1, <1>2, <1>3, <1>6, <1>7

\* The cardinality of the instance is that of FiniteSets.
LEMMA WatchCardinality == \A S : Health!Cardinality(S) = Cardinality(S)
BY DEF Health!Cardinality, Cardinality, Health!IsFiniteSet, IsFiniteSet

LEMMA NothingInWindow ==
    ASSUME NEW t, strikes[t] = {}
    PROVE  ~(Health!Cardinality(Health!InWindow(strikes[t])) >= Threshold)
<1>1. Health!InWindow(strikes[t]) = {}
  BY DEF Health!InWindow
<1> QED BY <1>1, FS_EmptySet, WatchCardinality, PartsAssumption DEF Health!HealthAssumption

LEMMA WatchInit == Health!Init => HealthIInv
<1> SUFFICES ASSUME Health!Init PROVE HealthIInv
  OBVIOUS
<1>1. Health!TypeOK
  BY PartsAssumption DEF Health!Init, Health!TypeOK, Health!HealthAssumption
<1>2. FailuresAreRecentStrikes
  BY FS_EmptySet DEF Health!Init, FailuresAreRecentStrikes, Health!InWindow
<1>3. Health!PagedOncePerOutage
  BY NothingInWindow DEF Health!Init, Health!PagedOncePerOutage
<1> QED BY <1>1, <1>2, <1>3 DEF HealthIInv

LEMMA WatchStep == HealthIInv /\ [Health!Next]_Health!healthVars => HealthIInv'
<1> SUFFICES ASSUME HealthIInv, [Health!Next]_Health!healthVars
             PROVE  HealthIInv'
  OBVIOUS
<1> USE DEF HealthIInv
<1>1. CASE Health!Tick
  <2>1. ASSUME NEW t \in Threads
        PROVE  /\ strikes'[t] = Health!Older(strikes[t])
               /\ failures'[t] = Health!Older(failures[t])
               /\ strikes'[t] \subseteq Strike /\ IsFiniteSet(strikes'[t])
               /\ failures'[t] \subseteq strikes'[t]
               /\ Health!InWindow(strikes'[t]) \subseteq failures'[t]
               /\ Cardinality(Health!InWindow(strikes'[t]))
                     <= Cardinality(Health!InWindow(strikes[t]))
    <3>1. strikes[t] \in SUBSET Strike /\ IsFiniteSet(strikes[t])
          /\ failures[t] \in SUBSET strikes[t]
          /\ Health!InWindow(strikes[t]) \subseteq failures[t]
      BY DEF Health!TypeOK, FailuresAreRecentStrikes, Strike
    <3>2. strikes'[t] = Health!Older(strikes[t]) /\ failures'[t] = Health!Older(failures[t])
      BY <1>1 DEF Health!Tick
    <3> QED BY <3>1, <3>2, WindowShrinks
  <2>2. Health!TypeOK'
    BY <1>1, <2>1 DEF Health!TypeOK, Health!Tick, Strike
  <2>3. FailuresAreRecentStrikes'
    BY <1>1, <2>1 DEF FailuresAreRecentStrikes, Health!Tick, Health!InWindow
  <2>4. Health!PagedOncePerOutage'
    <3>1. ASSUME NEW t \in Threads, Cardinality(Health!InWindow(strikes'[t])) >= Threshold
          PROVE  t \in proposed'
      <4>1. /\ Cardinality(Health!InWindow(strikes[t])) \in Nat
            /\ Cardinality(Health!InWindow(strikes'[t])) \in Nat
        BY <2>1, FS_Subset, FS_CardinalityType
           DEF Health!InWindow, FailuresAreRecentStrikes
      <4>2. Cardinality(Health!InWindow(strikes[t])) >= Threshold
        BY <2>1, <3>1, <4>1, PartsAssumption DEF Health!HealthAssumption
      <4> QED BY <1>1, <4>2, WatchCardinality DEF Health!PagedOncePerOutage, Health!Tick
    <3>2. \A t \in Threads : Health!InWindow(strikes[t])' = Health!InWindow(strikes'[t])
      BY DEF Health!InWindow
    <3> QED
      BY <1>1, <3>1, <3>2, WatchCardinality DEF Health!PagedOncePerOutage, Health!Tick
  <2> QED BY <2>2, <2>3, <2>4
<1>2. ASSUME NEW t \in Threads, NEW posted \in BOOLEAN, Health!ChatError(t, posted)
      PROVE  HealthIInv'
  <2> DEFINE error == [nth |-> Cardinality(strikes[t]) + 1, age |-> 0]
             window == Health!InWindow(failures[t]) \cup {error}
  <2> USE WatchCardinality
  <2>1. /\ strikes' = [strikes EXCEPT ![t] = @ \cup {error}]
        /\ failures' = [failures EXCEPT ![t] = window]
    BY <1>2 DEF Health!ChatError
  <2>2. error \in Strike
    <3>1. Cardinality(strikes[t]) \in Nat /\ Cardinality(strikes[t]) < MaxStrikes
      BY <1>2, FS_CardinalityType DEF Health!ChatError, FailuresAreRecentStrikes
    <3> QED BY <3>1, PartsAssumption DEF Strike, Health!HealthAssumption
  <2>3. window = Health!InWindow(strikes'[t])
    BY <2>1, PartsAssumption
       DEF Health!InWindow, Health!HealthAssumption, FailuresAreRecentStrikes, Health!TypeOK
  <2>4. IsFiniteSet(strikes'[t])
    BY <2>1, FS_AddElement DEF FailuresAreRecentStrikes, Health!TypeOK
  <2> HIDE DEF error
  <2>5. CASE Cardinality(window) >= Threshold /\ t \notin proposed
             /\ Health!Page(t, posted)
    <3>1. Health!TypeOK'
      BY <2>1, <2>2, <2>5, PartsAssumption
         DEF Health!TypeOK, Health!Page, Strike, Health!HealthAssumption
    <3>2. FailuresAreRecentStrikes' /\ Health!PagedOncePerOutage'
      BY <2>1, <2>3, <2>4, <2>5
         DEF FailuresAreRecentStrikes, Health!PagedOncePerOutage, Health!TypeOK, Health!Page,
             Health!InWindow
    <3> QED BY <3>1, <3>2
  <2>6. CASE ~(Cardinality(window) >= Threshold /\ t \notin proposed)
             /\ UNCHANGED <<proposed, pagesSince>>
    <3>1. Health!TypeOK'
      BY <2>1, <2>2, <2>6 DEF Health!TypeOK, Strike
    <3>2. FailuresAreRecentStrikes'
      BY <2>1, <2>3, <2>4, <2>6
         DEF FailuresAreRecentStrikes, Health!TypeOK, Health!InWindow
    <3>3. \A u \in Threads :
             Health!InWindow(strikes[u])' =
               IF u = t THEN window ELSE Health!InWindow(strikes[u])
      BY <2>1, <2>3 DEF Health!TypeOK, Health!InWindow
    <3>4. Health!PagedOncePerOutage'
      BY <2>6, <3>3 DEF Health!PagedOncePerOutage
    <3> QED BY <3>1, <3>2, <3>4
  <2> QED BY <1>2, <2>5, <2>6 DEF Health!ChatError, error
<1>3. ASSUME NEW t \in Threads, Health!TurnEnd(t)
      PROVE  HealthIInv'
  <2>1. Health!TypeOK'
    BY <1>3 DEF Health!TypeOK, Health!TurnEnd
  <2>2. FailuresAreRecentStrikes'
    BY <1>3, FS_EmptySet
       DEF FailuresAreRecentStrikes, Health!TypeOK, Health!TurnEnd, Health!InWindow
  <2>3. \A u \in Threads :
           Health!InWindow(strikes[u])' = IF u = t THEN {} ELSE Health!InWindow(strikes[u])
    BY <1>3 DEF Health!TypeOK, Health!TurnEnd, Health!InWindow
  <2>4. ~(Health!Cardinality({}) >= Threshold)
    BY FS_EmptySet, WatchCardinality, PartsAssumption DEF Health!HealthAssumption
  <2>5. Health!PagedOncePerOutage'
    BY <1>3, <2>3, <2>4 DEF Health!PagedOncePerOutage, Health!TypeOK, Health!TurnEnd
  <2> QED BY <2>1, <2>2, <2>5
<1>4. CASE UNCHANGED Health!healthVars
  BY <1>4 DEF Health!healthVars, Health!TypeOK, FailuresAreRecentStrikes,
              Health!PagedOncePerOutage, Health!InWindow
<1> QED BY <1>1, <1>2, <1>3, <1>4 DEF Health!Next

\* An outage of a thread is paged, and once, whatever the thresholds and the
\* number of threads.
THEOREM OutagesPagedOnce == DaemonSpec => []PagedOncePerOutage
<1>1. HealthIInv => PagedOncePerOutage
  BY DEF HealthIInv, PagedOncePerOutage
<1> QED BY <1>1, WatchInit, WatchStep, DaemonRunsHealth, PTL DEF Health!Spec

----------------------------------------------------------------------------
(* Standing jobs *)

\* Rows have ids of their own, taken from those given out.
RowsAreKeyed ==
    /\ IsFiniteSet(rows)
    /\ \A r \in rows : r.id \in used /\ \A s \in rows : s.id = r.id => s = r

\* The scheduler's book of timers: no two jobs hold the same one, every timer
\* is held by the job it is for, and it has the minute of a fire to come.
TimersAreHeld ==
    /\ \A j \in Jobs : armed[j] <= made
    /\ \A i, j \in Jobs : armed[i] = armed[j] /\ armed[i] # 0 => i = j
    /\ ~cronUp => timers = {}
    /\ \A t \in timers : fires[<<t.job, t.at>>] = 0

\* Nothing has fired for a minute to come.
FiresArePast ==
    \A j \in Jobs, m \in Jobbing!Minutes : m > minute => fires[<<j, m>>] = 0

CronIInv ==
    /\ Jobbing!TypeOK /\ RowsAreKeyed /\ TimersAreHeld /\ FiresArePast
    /\ Jobbing!TimersFollowRows

LEMMA DaemonRunsCron == DaemonSpec => Jobbing!Spec
<1>1. DaemonInit => Jobbing!Init
  BY DEF DaemonInit
<1>2. [DaemonNext]_daemonVars => [Jobbing!Next]_Jobbing!cronVars
  BY DEF DaemonNext, daemonVars, SchedulerStep, CronStep, BringupStep, HealthStep,
         cronVars, Jobbing!cronVars
<1> QED BY <1>1, <1>2, PTL DEF DaemonSpec, Jobbing!Spec

\* A non-empty set of naturals has a least element, which is what Min gives.
LEMMA MinIsLeast ==
    ASSUME NEW S, S \subseteq Nat, S # {}
    PROVE  Jobbing!Min(S) \in S /\ \A n \in S : Jobbing!Min(S) <= n
<1>1. PICK m \in S : \A n \in S : ~(<<n, m>> \in OpToRel(<, Nat))
  BY NatLessThanWellFounded, WFMin
<1>2. \A n \in S : n \in Nat /\ m \in Nat /\ ~(n < m)
  BY <1>1 DEF OpToRel
<1>3. \A n \in S : m <= n
  BY <1>2
<1> QED BY <1>3 DEF Jobbing!Min

\* The one timer a job is given for a schedule, if it has a run to come.
TimersFor(k, j, due, shared) ==
    {[id |-> k, job |-> j, at |-> m, shared |-> shared] :
         m \in IF Jobbing!Future(due) = {} THEN {} ELSE {Jobbing!Min(Jobbing!Future(due))}}

LEMMA OneTimerFor ==
    ASSUME CronIInv, NEW k, NEW j \in Jobs, NEW due \in SUBSET Jobbing!Minutes,
           NEW shared \in BOOLEAN
    PROVE  /\ \A t \in TimersFor(k, j, due, shared) :
                 /\ t \in [id : {k}, job : {j}, at : Jobbing!Minutes, shared : BOOLEAN]
                 /\ fires[<<j, t.at>>] = 0
                 /\ \A u \in TimersFor(k, j, due, shared) : u = t
           /\ Jobbing!Future(due) # {} => TimersFor(k, j, due, shared) # {}
<1>1. CASE Jobbing!Future(due) = {}
  BY <1>1 DEF TimersFor
<1>2. CASE Jobbing!Future(due) # {}
  <2> DEFINE m == Jobbing!Min(Jobbing!Future(due))
  <2>1. m \in Jobbing!Future(due)
    <3>1. Jobbing!Future(due) \subseteq Nat
      <4>1. MaxTime \in Nat
        BY PartsAssumption DEF Jobbing!CronAssumption
      <4>2. Jobbing!Minutes \subseteq Nat
        BY <4>1 DEF Jobbing!Minutes
      <4> QED BY <4>2 DEF Jobbing!Future
    <3> QED BY <1>2, <3>1, MinIsLeast
  <2>2. m \in Jobbing!Minutes /\ m > minute
    BY <2>1 DEF Jobbing!Future
  <2>3. TimersFor(k, j, due, shared) = {[id |-> k, job |-> j, at |-> m, shared |-> shared]}
    BY <1>2 DEF TimersFor
  <2> HIDE DEF m
  <2> QED BY <2>2, <2>3 DEF CronIInv, FiresArePast
<1> QED BY <1>1, <1>2

LEMMA CronInit == Jobbing!Init => CronIInv
<1> SUFFICES ASSUME Jobbing!Init PROVE CronIInv
  OBVIOUS
<1>1. Jobbing!TypeOK
  BY PartsAssumption DEF Jobbing!Init, Jobbing!TypeOK, Jobbing!CronAssumption, Jobbing!Minutes
<1>2. RowsAreKeyed /\ TimersAreHeld /\ FiresArePast
  BY FS_EmptySet DEF Jobbing!Init, RowsAreKeyed, TimersAreHeld, FiresArePast
<1>3. Jobbing!TimersFollowRows
  BY DEF Jobbing!Init, Jobbing!TimersFollowRows
<1> QED BY <1>1, <1>2, <1>3 DEF CronIInv

\* Disarming a job takes its timers away and no other.
LEMMA DisarmedIsHis ==
    ASSUME CronIInv, NEW j \in Jobs
    PROVE  Jobbing!Disarmed(timers, j) = {t \in timers : t.job # j}
<1>1. \A t \in timers : t.job \in Jobs /\ t.id = armed[t.job] /\ t.id # 0
  BY DEF CronIInv, Jobbing!TypeOK, Jobbing!TimersFollowRows
<1> QED BY <1>1 DEF CronIInv, TimersAreHeld, Jobbing!Disarmed

\* What arming a job leaves: it is held by the timer for its schedule, and
\* nothing has changed for the other jobs.
ArmedFor(j, due) ==
    /\ timers' \subseteq [id : 1..MaxTimers, job : Jobs, at : Jobbing!Minutes,
                         shared : BOOLEAN]
    /\ armed' \in [Jobs -> 0..MaxTimers] /\ made' \in 0..MaxTimers
    /\ TimersAreHeld' /\ FiresArePast'
    /\ armed'[j] # 0 /\ \A i \in Jobs : i # j => armed'[i] = armed[i]
    /\ \A t \in timers' : /\ t.job = j \/ t \in timers
                          /\ t.id = armed'[t.job]
                          /\ \A u \in timers' : u.job = t.job => u = t
    /\ \A t \in timers : t.job # j => t \in timers'
    /\ Jobbing!Future(due) # {} => \E t \in timers' : t.job = j

LEMMA ArmedAfresh ==
    ASSUME CronIInv, NEW j \in Jobs, NEW due \in SUBSET Jobbing!Minutes,
           NEW shared \in BOOLEAN, made < MaxTimers, made' = made + 1, cronUp,
           timers' = {t \in timers : t.job # j} \cup TimersFor(made + 1, j, due, shared),
           armed' = [armed EXCEPT ![j] = made + 1], UNCHANGED <<cronUp, minute, fires>>
    PROVE  ArmedFor(j, due)
<1> DEFINE T == TimersFor(made + 1, j, due, shared)
           B == {t \in timers : t.job # j}
<1>1. /\ \A t \in T : /\ t \in [id : {made + 1}, job : {j}, at : Jobbing!Minutes,
                              shared : BOOLEAN]
                       /\ fires[<<j, t.at>>] = 0
                       /\ \A u \in T : u = t
      /\ Jobbing!Future(due) # {} => T # {}
  BY OneTimerFor
<1>2. timers' = B \cup T
  OBVIOUS
<1> HIDE DEF T
<1>3. /\ made \in Nat /\ made + 1 \in 1..MaxTimers /\ made + 1 \in 0..MaxTimers
      /\ MaxTimers \in Nat
  BY PartsAssumption DEF CronIInv, Jobbing!TypeOK, Jobbing!CronAssumption
<1>4. /\ timers' \subseteq [id : 1..MaxTimers, job : Jobs, at : Jobbing!Minutes,
                           shared : BOOLEAN]
      /\ armed' \in [Jobs -> 0..MaxTimers]
  <2>1. \A t \in T : t \in [id : 1..MaxTimers, job : Jobs, at : Jobbing!Minutes,
                            shared : BOOLEAN]
    BY <1>1, <1>3
  <2>2. B \subseteq [id : 1..MaxTimers, job : Jobs, at : Jobbing!Minutes, shared : BOOLEAN]
    BY DEF CronIInv, Jobbing!TypeOK
  <2>3. armed' \in [Jobs -> 0..MaxTimers]
    BY <1>3 DEF CronIInv, Jobbing!TypeOK
  <2> QED BY <1>2, <2>1, <2>2, <2>3
<1>5. /\ armed'[j] = made + 1 /\ armed'[j] # 0
      /\ \A i \in Jobs : i # j => armed'[i] = armed[i] /\ armed[i] <= made /\ armed[i] \in Nat
  BY <1>3 DEF CronIInv, Jobbing!TypeOK, TimersAreHeld
<1>6. \A t \in timers' : /\ t.job = j \/ t \in timers
                         /\ t.id = armed'[t.job]
                         /\ \A u \in timers' : u.job = t.job => u = t
  BY <1>1, <1>2, <1>5 DEF CronIInv, Jobbing!TypeOK, Jobbing!TimersFollowRows
<1>7. TimersAreHeld'
  <2>1. \A i \in Jobs : armed'[i] <= made'
    BY <1>3, <1>5
  <2>2. \A i, k \in Jobs : armed'[i] = armed'[k] /\ armed'[i] # 0 => i = k
    BY <1>3, <1>5 DEF CronIInv, TimersAreHeld
  <2>3. \A t \in timers' : fires[<<t.job, t.at>>] = 0
    BY <1>1, <1>2 DEF CronIInv, TimersAreHeld
  <2> QED BY <2>1, <2>2, <2>3 DEF TimersAreHeld
<1>8. FiresArePast'
  BY DEF CronIInv, FiresArePast, Jobbing!Minutes
<1>9. Jobbing!Future(due) # {} => \E t \in timers' : t.job = j
  BY <1>1, <1>2
<1> QED BY <1>2, <1>3, <1>4, <1>5, <1>6, <1>7, <1>8, <1>9 DEF ArmedFor

\* The row of an id is the one row with it.
LEMMA RowIsUnique ==
    ASSUME CronIInv, NEW r \in rows
    PROVE  Jobbing!Row(r.id) = r
BY DEF CronIInv, RowsAreKeyed, Jobbing!Row

LEMMA ScheduleKeeps ==
    ASSUME CronIInv, NEW a \in Agents, NEW due \in Schedules, NEW shared \in BOOLEAN,
           Jobbing!ScheduleTask(a, due, shared)
    PROVE  CronIInv'
<1> DEFINE j == Jobbing!Min(Jobs \ used)
           new == [id |-> j, agent |-> a, due |-> due, shared |-> shared]
<1>1. j \in Jobs /\ j \notin used
  <2>1. Jobs \ used # {}
    BY DEF CronIInv, Jobbing!TypeOK, Jobbing!ScheduleTask
  <2>2. Jobs \ used \subseteq Nat
    BY PartsAssumption DEF Jobbing!CronAssumption
  <2> QED BY <2>1, <2>2, MinIsLeast
<1>2. due \in SUBSET Jobbing!Minutes
  BY PartsAssumption DEF Jobbing!CronAssumption, Jobbing!Minutes
<1>3. /\ used' = used \cup {j} /\ rows' = rows \cup {new}
      /\ made < MaxTimers /\ made' = made + 1 /\ cronUp
      /\ timers' = timers \cup TimersFor(made + 1, j, due, shared)
      /\ armed' = [armed EXCEPT ![j] = made + 1]
      /\ UNCHANGED <<cronUp, minute, fires>>
  BY DEF Jobbing!ScheduleTask, TimersFor
<1>4. new \in Jobbing!JobRows /\ new.id = j /\ new.due = due
  BY <1>1, <1>2 DEF Jobbing!JobRows
<1>5. \A r \in rows : r.id \in Jobs /\ r.id # j
  BY <1>1 DEF CronIInv, RowsAreKeyed, Jobbing!TypeOK, Jobbing!JobRows
<1>6. \A t \in timers : t.job # j
  BY <1>5 DEF CronIInv, Jobbing!TimersFollowRows, Jobbing!RowIds
<1> HIDE DEF j, new
<1>7. timers' = {t \in timers : t.job # j} \cup TimersFor(made + 1, j, due, shared)
  BY <1>3, <1>6
<1>8. ArmedFor(j, due)
  BY <1>1, <1>2, <1>3, <1>7, ArmedAfresh
<1>9. Jobbing!TypeOK'
  BY <1>1, <1>3, <1>4, <1>8 DEF ArmedFor, CronIInv, Jobbing!TypeOK
<1>10. RowsAreKeyed'
  BY <1>1, <1>3, <1>4, <1>5, FS_AddElement DEF CronIInv, RowsAreKeyed
<1>11. Jobbing!TimersFollowRows'
  <2>1. \A t \in timers' : t.job \in Jobbing!RowIds'
    BY <1>3, <1>4, <1>8 DEF ArmedFor, CronIInv, Jobbing!TimersFollowRows,
                                Jobbing!RowIds
  <2>2. \A r \in rows' : /\ armed'[r.id] # 0
                         /\ Jobbing!Future(r.due) # {} => \E t \in timers' : t.job = r.id
    BY <1>3, <1>4, <1>5, <1>8 DEF ArmedFor, CronIInv, Jobbing!TimersFollowRows
  <2>3. \A r \in rows' : Jobbing!Future(r.due)' = Jobbing!Future(r.due)
    BY <1>3 DEF Jobbing!Future
  <2> QED
    BY <1>3, <1>8, <2>1, <2>2, <2>3 DEF ArmedFor, CronIInv, Jobbing!TimersFollowRows
<1> QED BY <1>8, <1>9, <1>10, <1>11 DEF CronIInv, ArmedFor

LEMMA ArmedAgainKeeps ==
    ASSUME CronIInv, NEW j \in Jobs, Jobbing!ArmedAgain(j)
    PROVE  CronIInv'
<1>1. CASE j \notin Jobbing!RowIds
  <2>1. UNCHANGED Jobbing!cronVars
    BY <1>1 DEF Jobbing!ArmedAgain, Jobbing!cronVars
  <2> QED BY <2>1 DEF Jobbing!cronVars, CronIInv, Jobbing!TypeOK, RowsAreKeyed, TimersAreHeld,
                      FiresArePast, Jobbing!TimersFollowRows, Jobbing!RowIds, Jobbing!Future
<1>2. CASE j \in Jobbing!RowIds
  <2>1. PICK r \in rows : r.id = j
    BY <1>2 DEF Jobbing!RowIds
  <2>2. /\ Jobbing!Row(j) = r /\ r.due \in SUBSET Jobbing!Minutes /\ r.shared \in BOOLEAN
    BY <2>1, RowIsUnique DEF CronIInv, Jobbing!TypeOK, Jobbing!JobRows
  <2>3. /\ UNCHANGED <<rows, used, cronUp, minute, fires>>
        /\ cronUp /\ made < MaxTimers /\ made' = made + 1
        /\ timers' = Jobbing!Disarmed(timers, j) \cup TimersFor(made + 1, j, r.due, r.shared)
        /\ armed' = [armed EXCEPT ![j] = made + 1]
    BY <1>2, <2>2 DEF Jobbing!ArmedAgain, Jobbing!Arm, TimersFor
  <2>4. ArmedFor(j, r.due)
    BY <2>2, <2>3, DisarmedIsHis, ArmedAfresh
  <2>5. Jobbing!TypeOK'
    BY <2>3, <2>4 DEF ArmedFor, CronIInv, Jobbing!TypeOK
  <2>6. RowsAreKeyed'
    BY <2>3 DEF CronIInv, RowsAreKeyed
  <2>7. Jobbing!TimersFollowRows'
    <3>1. \A t \in timers' : t.job \in Jobbing!RowIds'
      BY <1>2, <2>3, <2>4 DEF ArmedFor, CronIInv, Jobbing!TimersFollowRows, Jobbing!RowIds
    <3>2. \A q \in rows' : /\ armed'[q.id] # 0
                           /\ Jobbing!Future(q.due) # {} => \E t \in timers' : t.job = q.id
      <4>1. \A q \in rows : q.id \in Jobs /\ (q.id = j => q = r)
        BY <2>1 DEF CronIInv, Jobbing!TypeOK, Jobbing!JobRows, RowsAreKeyed
      <4> QED BY <2>3, <2>4, <4>1 DEF ArmedFor, CronIInv, Jobbing!TimersFollowRows
    <3>3. \A q \in rows' : Jobbing!Future(q.due)' = Jobbing!Future(q.due)
      BY <2>3 DEF Jobbing!Future
    <3> QED BY <2>3, <2>4, <3>1, <3>2, <3>3 DEF ArmedFor, CronIInv, Jobbing!TimersFollowRows
  <2> QED BY <2>4, <2>5, <2>6, <2>7 DEF CronIInv, ArmedFor
<1> QED BY <1>1, <1>2

LEMMA CancelKeeps ==
    ASSUME CronIInv, NEW a \in Agents, NEW j \in Jobs, Jobbing!Cancel(a, j)
    PROVE  CronIInv'
<1>1. /\ rows' = {r \in rows : r.id # j} /\ timers' = {t \in timers : t.job # j}
      /\ armed' = [armed EXCEPT ![j] = 0] /\ UNCHANGED <<used, cronUp, made, minute, fires>>
  BY DisarmedIsHis DEF Jobbing!Cancel
<1>2. Jobbing!TypeOK'
  BY <1>1, PartsAssumption DEF CronIInv, Jobbing!TypeOK, Jobbing!CronAssumption
<1>3. RowsAreKeyed'
  <2>1. IsFiniteSet(rows')
    BY <1>1, FS_Subset DEF CronIInv, RowsAreKeyed
  <2> QED BY <1>1, <2>1 DEF CronIInv, RowsAreKeyed
<1>4. /\ armed'[j] = 0 /\ \A i \in Jobs : i # j => armed'[i] = armed[i]
      /\ made \in Nat
  BY <1>1 DEF CronIInv, Jobbing!TypeOK
<1>5. TimersAreHeld' /\ FiresArePast'
  BY <1>1, <1>4 DEF CronIInv, TimersAreHeld, FiresArePast, Jobbing!Minutes
<1>6. Jobbing!TimersFollowRows'
  <2>1. \A r \in rows : r.id \in Jobs
    BY DEF CronIInv, Jobbing!TypeOK, Jobbing!JobRows
  <2>2. \A t \in timers : t.job \in Jobs
    BY DEF CronIInv, Jobbing!TypeOK
  <2>3. \A r \in rows' : Jobbing!Future(r.due)' = Jobbing!Future(r.due)
    BY <1>1 DEF Jobbing!Future
  <2> QED
    BY <1>1, <1>4, <2>1, <2>2, <2>3 DEF CronIInv, Jobbing!TimersFollowRows, Jobbing!RowIds
<1> QED BY <1>2, <1>3, <1>5, <1>6 DEF CronIInv

LEMMA FireKeeps ==
    ASSUME CronIInv, NEW t \in timers, Jobbing!Fire(t)
    PROVE  CronIInv'
<1>1. PICK r \in rows : r.id = t.job
  BY DEF CronIInv, Jobbing!TimersFollowRows, Jobbing!RowIds
<1>2. Jobbing!Row(t.job) = r /\ r.due \in SUBSET Jobbing!Minutes
  BY <1>1, RowIsUnique DEF CronIInv, Jobbing!TypeOK, Jobbing!JobRows
<1>3. t \in [id : 1..MaxTimers, job : Jobs, at : Jobbing!Minutes, shared : BOOLEAN]
  BY DEF CronIInv, Jobbing!TypeOK
<1> DEFINE S == {[t EXCEPT !.at = m] :
                    m \in IF Jobbing!Future(r.due) = {} THEN {}
                          ELSE {Jobbing!Min(Jobbing!Future(r.due))}}
<1>4. /\ t.at <= minute /\ fires' = [fires EXCEPT ![<<t.job, t.at>>] = @ + 1]
      /\ timers' = (timers \ {t}) \cup S
      /\ UNCHANGED <<rows, used, cronUp, armed, made, minute>>
  BY <1>2 DEF Jobbing!Fire
<1>5. /\ \A u \in S : /\ u \in [id : {t.id}, job : {t.job}, at : Jobbing!Minutes,
                                 shared : BOOLEAN]
                      /\ u.at > minute /\ \A v \in S : v = u
      /\ Jobbing!Future(r.due) # {} => S # {}
  <2>1. CASE Jobbing!Future(r.due) = {}
    BY <2>1
  <2>2. CASE Jobbing!Future(r.due) # {}
    <3> DEFINE m == Jobbing!Min(Jobbing!Future(r.due))
    <3>1. MaxTime \in Nat
      BY PartsAssumption DEF Jobbing!CronAssumption
    <3>2. Jobbing!Future(r.due) \subseteq Nat
      BY <1>2, <3>1 DEF Jobbing!Future, Jobbing!Minutes
    <3>3. m \in Jobbing!Future(r.due)
      BY <2>2, <3>2, MinIsLeast
    <3>4. m \in Jobbing!Minutes /\ m > minute
      BY <1>2, <3>3 DEF Jobbing!Future
    <3>5. S = {[t EXCEPT !.at = m]}
      BY <2>2
    <3> HIDE DEF m, S
    <3> QED BY <1>3, <3>4, <3>5
  <2> QED BY <2>1, <2>2
<1> HIDE DEF S
<1>6. minute \in Nat /\ Jobbing!Minutes \subseteq Nat
  <2>1. MaxTime \in Nat
    BY PartsAssumption DEF Jobbing!CronAssumption
  <2> QED BY <2>1 DEF CronIInv, Jobbing!TypeOK, Jobbing!Minutes
<1>7. /\ fires \in [Jobs \X Jobbing!Minutes -> 0..2]
      /\ fires[<<t.job, t.at>>] = 0
      /\ fires'[<<t.job, t.at>>] = 1
      /\ \A x \in Jobs \X Jobbing!Minutes : x # <<t.job, t.at>> => fires'[x] = fires[x]
      /\ fires' \in [Jobs \X Jobbing!Minutes -> 0..2]
  BY <1>3, <1>4 DEF CronIInv, Jobbing!TypeOK, TimersAreHeld
<1>8. \A u \in timers : u.job \in Jobs /\ u.at \in Jobbing!Minutes /\ (u.job = t.job => u = t)
  BY DEF CronIInv, Jobbing!TypeOK, Jobbing!TimersFollowRows
<1>9. Jobbing!TypeOK'
  BY <1>3, <1>4, <1>5, <1>7 DEF CronIInv, Jobbing!TypeOK
<1>10. RowsAreKeyed'
  BY <1>4 DEF CronIInv, RowsAreKeyed
<1>11. TimersAreHeld'
  <2>1. \A u \in timers' : fires'[<<u.job, u.at>>] = 0
    <3>1. ASSUME NEW u \in timers, u # t
          PROVE  fires'[<<u.job, u.at>>] = 0
      BY <1>7, <1>8, <3>1 DEF CronIInv, TimersAreHeld
    <3>2. ASSUME NEW u \in S
          PROVE  fires'[<<u.job, u.at>>] = 0
      <4>1. u.job \in Jobs /\ u.at \in Jobbing!Minutes /\ u.at > minute /\ u.at # t.at
        <5>1. u.job = t.job /\ u.at \in Jobbing!Minutes /\ u.at > minute
          BY <1>5, <3>2
        <5>2. t.job \in Jobs /\ t.at \in Jobbing!Minutes /\ t.at <= minute
          BY <1>3, <1>4
        <5>3. u.at \in Nat /\ t.at \in Nat /\ minute \in Nat
          BY <1>6, <5>1, <5>2
        <5>4. u.at # t.at
          BY <5>1, <5>2, <5>3
        <5> QED BY <5>1, <5>2, <5>4
      <4>2. fires[<<u.job, u.at>>] = 0
        BY <4>1 DEF CronIInv, FiresArePast
      <4> QED BY <1>7, <4>1, <4>2
    <3> QED BY <1>4, <3>1, <3>2
  <2>2. ~cronUp => timers' = {}
    BY DEF CronIInv, TimersAreHeld
  <2> QED BY <1>4, <2>1, <2>2 DEF CronIInv, TimersAreHeld
<1>12. FiresArePast'
  BY <1>3, <1>4, <1>6, <1>7 DEF CronIInv, FiresArePast, Jobbing!Minutes
<1>13. Jobbing!TimersFollowRows'
  <2>1. \A u \in timers' : /\ u.job \in Jobbing!RowIds' /\ u.id = armed'[u.job]
                           /\ \A v \in timers' : v.job = u.job => v = u
    <3>1. \A u \in timers : u.job \in Jobbing!RowIds /\ u.id = armed[u.job]
                           /\ \A v \in timers : v.job = u.job => v = u
      BY DEF CronIInv, Jobbing!TimersFollowRows
    <3>2. Jobbing!RowIds' = Jobbing!RowIds
      BY <1>4 DEF Jobbing!RowIds
    <3> QED BY <1>4, <1>5, <1>8, <3>1, <3>2
  <2>2. cronUp' => \A q \in rows' :
           armed'[q.id] # 0 /\ (Jobbing!Future(q.due)' # {} => \E u \in timers' : u.job = q.id)
    <3>1. \A q \in rows : Jobbing!Future(q.due)' = Jobbing!Future(q.due)
                         /\ (q.id = t.job => q = r)
      BY <1>1, <1>4 DEF Jobbing!Future, CronIInv, RowsAreKeyed
    <3>2. cronUp => \A q \in rows :
           armed[q.id] # 0 /\ (Jobbing!Future(q.due) # {} => \E u \in timers : u.job = q.id)
      BY DEF CronIInv, Jobbing!TimersFollowRows
    <3>3. Jobbing!Future(r.due) # {} => \E u \in timers' : u.job = t.job
      BY <1>4, <1>5
    <3>4. \A u \in timers : u.job # t.job => u \in timers'
      BY <1>4
    <3> QED BY <1>1, <1>4, <3>1, <3>2, <3>3, <3>4
  <2>3. \A x \in DOMAIN fires' : fires'[x] <= 1
    BY <1>7 DEF CronIInv, Jobbing!TimersFollowRows
  <2> QED BY <2>1, <2>2, <2>3 DEF Jobbing!TimersFollowRows
<1> QED BY <1>9, <1>10, <1>11, <1>12, <1>13 DEF CronIInv

\* The scheduler loads its rows: each is held by a timer of its own, numbered
\* by its place among the ids.
LEMMA LoadKeeps ==
    ASSUME CronIInv, Jobbing!LoadAndArm
    PROVE  CronIInv'
<1> DEFINE Upto(j) == {i \in Jobbing!RowIds : i <= j}
           c(j) == Cardinality(Upto(j))
<1>1. /\ IsFiniteSet(rows) /\ IsFiniteSet(Jobbing!RowIds)
      /\ Cardinality(Jobbing!RowIds) <= Cardinality(rows)
      /\ Cardinality(rows) \in Nat /\ Cardinality(Jobbing!RowIds) \in Nat
  <2> DEFINE g == [r \in rows |-> r.id]
  <2>1. IsFiniteSet(rows)
    BY DEF CronIInv, RowsAreKeyed
  <2>2. g \in Surjection(rows, Jobbing!RowIds)
    BY DEF Surjection, Jobbing!RowIds
  <2> QED BY <2>1, <2>2, FS_Surjection, FS_CardinalityType
<1>2. Jobbing!RowIds \subseteq Jobs /\ Jobs \subseteq Nat
  BY PartsAssumption
     DEF CronIInv, Jobbing!TypeOK, Jobbing!JobRows, Jobbing!RowIds, Jobbing!CronAssumption
<1>3. ASSUME NEW j \in Jobbing!RowIds
      PROVE  c(j) \in 1..Cardinality(rows)
  <2>1. Upto(j) \in SUBSET Jobbing!RowIds /\ j \in Upto(j)
    BY <1>2
  <2>2. IsFiniteSet(Upto(j)) /\ c(j) <= Cardinality(Jobbing!RowIds) /\ c(j) \in Nat
    BY <1>1, <2>1, FS_Subset, FS_CardinalityType
  <2>3. c(j) # 0
    BY <2>1, <2>2, FS_EmptySet
  <2> HIDE DEF c
  <2> QED BY <1>1, <2>2, <2>3
<1>4. ASSUME NEW i \in Jobbing!RowIds, NEW j \in Jobbing!RowIds, c(i) = c(j)
      PROVE  i = j
  <2>1. ASSUME NEW x \in Jobbing!RowIds, NEW y \in Jobbing!RowIds, x < y
        PROVE  c(x) # c(y)
    <3>1. /\ Upto(x) \in SUBSET Upto(y) /\ Upto(y) \in SUBSET Jobbing!RowIds
          /\ y \in Upto(y) /\ y \notin Upto(x)
      <4>1. /\ x \in Nat /\ y \in Nat /\ x < y /\ y \in Jobbing!RowIds
            /\ \A k \in Jobbing!RowIds : k \in Nat
        BY <1>2, <2>1
      <4>2. \A k \in Jobbing!RowIds : k <= x => k <= y
        BY <4>1
      <4>3. ~(y <= x) /\ y <= y
        BY <4>1
      <4> QED BY <4>1, <4>2, <4>3
    <3>2. IsFiniteSet(Upto(y))
      BY <1>1, <3>1, FS_Subset
    <3> QED BY <3>1, <3>2, FS_Subset
  <2>2. i \in Nat /\ j \in Nat /\ (i < j \/ j < i \/ i = j)
    BY <1>2
  <2> HIDE DEF c
  <2> QED BY <1>4, <2>1, <2>2
<1>5. /\ made + Cardinality(rows) <= MaxTimers /\ cronUp' = TRUE
      /\ made' = made + Cardinality(rows)
      /\ armed' = [j \in Jobs |-> IF j \in Jobbing!RowIds THEN made + c(j) ELSE 0]
      /\ timers' = UNION {TimersFor(armed'[r.id], r.id, r.due, r.shared) : r \in rows}
      /\ UNCHANGED <<rows, used, minute, fires>>
  BY DEF Jobbing!LoadAndArm, TimersFor, Jobbing!Cardinality, Cardinality
<1> HIDE DEF c
<1>6. made \in Nat /\ MaxTimers \in Nat
  BY PartsAssumption DEF CronIInv, Jobbing!TypeOK, Jobbing!CronAssumption
<1>7. \A j \in Jobbing!RowIds : armed'[j] = made + c(j) /\ armed'[j] \in 1..MaxTimers
                                /\ armed'[j] <= made'
  BY <1>1, <1>2, <1>3, <1>5, <1>6
<1>8. /\ armed' \in [Jobs -> 0..MaxTimers] /\ made' \in 0..MaxTimers
      /\ \A j \in Jobs : armed'[j] <= made'
      /\ \A i, j \in Jobs : armed'[i] = armed'[j] /\ armed'[i] # 0 => i = j
  <2>1. made' \in 0..MaxTimers
    BY <1>1, <1>5, <1>6
  <2>2. \A j \in Jobs : armed'[j] \in 0..MaxTimers /\ armed'[j] <= made'
    BY <1>5, <1>7, <2>1, <1>6
  <2>3. \A j \in Jobs : j \notin Jobbing!RowIds => armed'[j] = 0
    BY <1>5
  <2>4. \A i, j \in Jobbing!RowIds : armed'[i] = armed'[j] => i = j
    BY <1>3, <1>4, <1>6, <1>7
  <2>5. armed' = [j \in Jobs |-> armed'[j]]
    BY <1>5
  <2> QED BY <2>1, <2>2, <2>3, <2>4, <2>5
<1>9. ASSUME NEW t \in timers'
      PROVE  \E r \in rows : /\ t \in TimersFor(armed'[r.id], r.id, r.due, r.shared)
                             /\ r.id \in Jobbing!RowIds /\ r.id \in Jobs
                             /\ t \in [id : {armed'[r.id]}, job : {r.id}, at : Jobbing!Minutes,
                                       shared : BOOLEAN]
                             /\ fires[<<r.id, t.at>>] = 0
                             /\ \A u \in TimersFor(armed'[r.id], r.id, r.due, r.shared) : u = t
  <2>1. PICK r \in rows : t \in TimersFor(armed'[r.id], r.id, r.due, r.shared)
    BY <1>5
  <2>2. r.id \in Jobbing!RowIds /\ r.id \in Jobs /\ r.due \in SUBSET Jobbing!Minutes
        /\ r.shared \in BOOLEAN
    BY <1>2 DEF CronIInv, Jobbing!TypeOK, Jobbing!JobRows, Jobbing!RowIds
  <2> QED BY <2>1, <2>2, OneTimerFor
<1>10. Jobbing!TypeOK'
  <2>1. timers' \subseteq [id : 1..MaxTimers, job : Jobs, at : Jobbing!Minutes, shared : BOOLEAN]
    BY <1>7, <1>9
  <2> QED BY <1>5, <1>8, <2>1 DEF CronIInv, Jobbing!TypeOK
<1>11. RowsAreKeyed' /\ FiresArePast'
  BY <1>5 DEF CronIInv, RowsAreKeyed, FiresArePast, Jobbing!Minutes
<1>12. TimersAreHeld'
  BY <1>5, <1>8, <1>9 DEF TimersAreHeld
<1>13. Jobbing!TimersFollowRows'
  <2>1. ASSUME NEW t \in timers'
        PROVE  /\ t.job \in Jobbing!RowIds /\ t.id = armed'[t.job]
               /\ \A u \in timers' : u.job = t.job => u = t
    <3>1. PICK r \in rows : /\ t.job = r.id /\ t.id = armed'[r.id]
                            /\ r.id \in Jobbing!RowIds
                            /\ \A u \in TimersFor(armed'[r.id], r.id, r.due, r.shared) : u = t
      BY <1>9
    <3>2. ASSUME NEW u \in timers', u.job = t.job
          PROVE  u = t
      <4>1. PICK q \in rows : /\ u.job = q.id
                              /\ u \in TimersFor(armed'[q.id], q.id, q.due, q.shared)
        BY <1>9
      <4>2. q = r
        BY <3>1, <3>2, <4>1 DEF CronIInv, RowsAreKeyed
      <4> QED BY <3>1, <4>1, <4>2
    <3> QED BY <3>1, <3>2
  <2>2. Jobbing!RowIds' = Jobbing!RowIds
    BY <1>5 DEF Jobbing!RowIds
  <2>3. ASSUME NEW r \in rows
        PROVE  /\ armed'[r.id] # 0 /\ Jobbing!Future(r.due)' = Jobbing!Future(r.due)
               /\ Jobbing!Future(r.due) # {} => \E t \in timers' : t.job = r.id
    <3>1. r.id \in Jobbing!RowIds /\ r.id \in Jobs /\ r.due \in SUBSET Jobbing!Minutes
          /\ r.shared \in BOOLEAN
      BY <1>2 DEF CronIInv, Jobbing!TypeOK, Jobbing!JobRows, Jobbing!RowIds
    <3>2. armed'[r.id] # 0
      BY <1>7, <3>1
    <3>3. Jobbing!Future(r.due) # {} => \E t \in timers' : t.job = r.id
      <4>1. /\ \A t \in TimersFor(armed'[r.id], r.id, r.due, r.shared) :
                   t \in [id : {armed'[r.id]}, job : {r.id}, at : Jobbing!Minutes,
                           shared : BOOLEAN]
            /\ Jobbing!Future(r.due) # {} =>
                   TimersFor(armed'[r.id], r.id, r.due, r.shared) # {}
        BY <3>1, OneTimerFor
      <4>2. TimersFor(armed'[r.id], r.id, r.due, r.shared) \subseteq timers'
        BY <1>5
      <4> QED BY <4>1, <4>2
    <3>4. Jobbing!Future(r.due)' = Jobbing!Future(r.due)
      BY <1>5 DEF Jobbing!Future
    <3> QED BY <3>2, <3>3, <3>4
  <2> QED BY <1>5, <2>1, <2>2, <2>3 DEF CronIInv, Jobbing!TimersFollowRows
<1> QED BY <1>10, <1>11, <1>12, <1>13 DEF CronIInv

LEMMA CrashedScheduleKeeps ==
    ASSUME CronIInv, NEW a \in Agents, NEW due \in Schedules, NEW shared \in BOOLEAN,
           Jobbing!ScheduleThenCrash(a, due, shared)
    PROVE  CronIInv'
<1> DEFINE j == Jobbing!Min(Jobs \ used)
           new == [id |-> j, agent |-> a, due |-> due, shared |-> shared]
<1>1. j \in Jobs /\ j \notin used
  <2>1. Jobs \ used # {}
    BY DEF CronIInv, Jobbing!TypeOK, Jobbing!ScheduleThenCrash
  <2>2. Jobs \ used \subseteq Nat
    BY PartsAssumption DEF Jobbing!CronAssumption
  <2> QED BY <2>1, <2>2, MinIsLeast
<1>2. due \in SUBSET Jobbing!Minutes
  BY PartsAssumption DEF Jobbing!CronAssumption, Jobbing!Minutes
<1>3. /\ used' = used \cup {j} /\ rows' = rows \cup {new}
      /\ cronUp' = FALSE /\ timers' = {} /\ armed' = [i \in Jobs |-> 0]
      /\ UNCHANGED <<made, minute, fires>>
  BY DEF Jobbing!ScheduleThenCrash
<1>4. new \in Jobbing!JobRows /\ new.id = j
  BY <1>1, <1>2 DEF Jobbing!JobRows
<1>5. \A r \in rows : r.id \in Jobs /\ r.id # j
  BY <1>1 DEF CronIInv, RowsAreKeyed, Jobbing!TypeOK, Jobbing!JobRows
<1> HIDE DEF j, new
<1>6. MaxTimers \in Nat /\ made \in Nat
  BY PartsAssumption DEF Jobbing!CronAssumption, CronIInv, Jobbing!TypeOK
<1>7. Jobbing!TypeOK'
  <2>1. armed' \in [Jobs -> 0..MaxTimers]
    BY <1>3, <1>6
  <2>2. rows' \subseteq Jobbing!JobRows /\ used' \subseteq Jobs
    BY <1>1, <1>3, <1>4 DEF CronIInv, Jobbing!TypeOK
  <2> QED BY <1>3, <2>1, <2>2 DEF CronIInv, Jobbing!TypeOK
<1>8. RowsAreKeyed'
  BY <1>1, <1>3, <1>4, <1>5, FS_AddElement DEF CronIInv, RowsAreKeyed
<1>9. TimersAreHeld' /\ FiresArePast'
  BY <1>3, <1>6 DEF CronIInv, TimersAreHeld, FiresArePast, Jobbing!Minutes
<1>10. Jobbing!TimersFollowRows'
  BY <1>3 DEF CronIInv, Jobbing!TimersFollowRows
<1> QED BY <1>7, <1>8, <1>9, <1>10 DEF CronIInv

LEMMA StopKeeps ==
    ASSUME CronIInv, Jobbing!CronStops
    PROVE  CronIInv'
<1>1. /\ cronUp' = FALSE /\ timers' = {} /\ armed' = [i \in Jobs |-> 0]
      /\ UNCHANGED <<rows, used, made, minute, fires>>
  BY DEF Jobbing!CronStops
<1>2. MaxTimers \in Nat /\ made \in Nat
  BY PartsAssumption DEF Jobbing!CronAssumption, CronIInv, Jobbing!TypeOK
<1>3. Jobbing!TypeOK' /\ RowsAreKeyed'
  <2>1. armed' \in [Jobs -> 0..MaxTimers]
    BY <1>1, <1>2
  <2> QED BY <1>1, <2>1 DEF CronIInv, Jobbing!TypeOK, RowsAreKeyed
<1>4. TimersAreHeld' /\ FiresArePast'
  BY <1>1, <1>2 DEF CronIInv, TimersAreHeld, FiresArePast, Jobbing!Minutes
<1>5. Jobbing!TimersFollowRows'
  BY <1>1 DEF CronIInv, Jobbing!TimersFollowRows
<1> QED BY <1>3, <1>4, <1>5 DEF CronIInv

\* Time can only take away runs to come.
LEMMA MinuteKeeps ==
    ASSUME CronIInv, Jobbing!NextMinute
    PROVE  CronIInv'
<1>1. MaxTime \in Nat
  BY PartsAssumption DEF Jobbing!CronAssumption
<1>2. /\ minute < MaxTime /\ minute' = minute + 1
      /\ UNCHANGED <<rows, used, cronUp, timers, armed, made, fires>>
  BY DEF Jobbing!NextMinute
<1>3. minute \in Nat /\ minute' \in Jobbing!Minutes /\ Jobbing!Minutes \subseteq Nat
  BY <1>1, <1>2 DEF CronIInv, Jobbing!TypeOK, Jobbing!Minutes
<1>4. Jobbing!TypeOK' /\ RowsAreKeyed'
  BY <1>2, <1>3 DEF CronIInv, Jobbing!TypeOK, RowsAreKeyed
<1>5. TimersAreHeld'
  BY <1>2 DEF CronIInv, TimersAreHeld
<1>6. FiresArePast'
  <2>1. \A n \in Jobbing!Minutes : n > minute + 1 => n > minute
    BY <1>3
  <2> QED BY <1>2, <2>1 DEF CronIInv, FiresArePast
<1>7. Jobbing!TimersFollowRows'
  <2>1. ASSUME NEW r \in rows
        PROVE  Jobbing!Future(r.due)' \subseteq Jobbing!Future(r.due)
    <3>1. \A n \in r.due : n \in Nat
      BY <1>3 DEF CronIInv, Jobbing!TypeOK, Jobbing!JobRows
    <3> QED BY <1>2, <1>3, <3>1 DEF Jobbing!Future
  <2> QED BY <1>2, <2>1 DEF CronIInv, Jobbing!TimersFollowRows, Jobbing!RowIds
<1> QED BY <1>4, <1>5, <1>6, <1>7 DEF CronIInv

LEMMA JobStep == CronIInv /\ [Jobbing!Next]_Jobbing!cronVars => CronIInv'
<1> SUFFICES ASSUME CronIInv, [Jobbing!Next]_Jobbing!cronVars
             PROVE  CronIInv'
  OBVIOUS
<1>1. ASSUME NEW a \in Agents, NEW due \in Schedules, NEW shared \in BOOLEAN,
             Jobbing!ScheduleTask(a, due, shared)
      PROVE  CronIInv'
  BY <1>1, ScheduleKeeps
<1>2. ASSUME NEW a \in Agents, NEW due \in Schedules, NEW shared \in BOOLEAN,
             Jobbing!ScheduleThenCrash(a, due, shared)
      PROVE  CronIInv'
  BY <1>2, CrashedScheduleKeeps
<1>3. ASSUME NEW a \in Agents, NEW j \in Jobs, Jobbing!Cancel(a, j)
      PROVE  CronIInv'
  BY <1>3, CancelKeeps
<1>4. ASSUME NEW j \in Jobs, Jobbing!ArmedAgain(j)
      PROVE  CronIInv'
  BY <1>4, ArmedAgainKeeps
<1>5. ASSUME NEW t \in timers, Jobbing!Fire(t)
      PROVE  CronIInv'
  BY <1>5, FireKeeps
<1>6. CASE UNCHANGED Jobbing!cronVars
  BY <1>6 DEF Jobbing!cronVars, CronIInv, Jobbing!TypeOK, RowsAreKeyed, TimersAreHeld,
              FiresArePast, Jobbing!TimersFollowRows, Jobbing!RowIds, Jobbing!Future
<1>7. CASE \E a \in Agents, due \in Schedules, shared \in BOOLEAN :
                Jobbing!ScheduleTask(a, due, shared)
  BY <1>1, <1>7
<1>8. CASE \E a \in Agents, due \in Schedules, shared \in BOOLEAN :
                Jobbing!ScheduleThenCrash(a, due, shared)
  BY <1>2, <1>8
<1>9. CASE \E a \in Agents, j \in Jobs : Jobbing!Cancel(a, j)
  BY <1>3, <1>9
<1>10. CASE \E j \in Jobs : Jobbing!ArmedAgain(j)
  BY <1>4, <1>10
<1>11. CASE \E t \in timers : Jobbing!Fire(t)
  BY <1>5, <1>11
<1>12. CASE Jobbing!CronStops \/ Jobbing!LoadAndArm \/ Jobbing!NextMinute
  BY <1>12, StopKeeps, LoadKeeps, MinuteKeeps
<1> QED BY <1>6, <1>7, <1>8, <1>9, <1>10, <1>11, <1>12 DEF Jobbing!Next

\* While the scheduler runs, a job is held by at most one timer, only if its
\* row is there, and every row with a run to come has one; no job fires twice
\* for a minute, through any sequence of cancels, repeated events, crashes and
\* restarts (schedule/cron.ts:109-117).
THEOREM JobsFollowRows == DaemonSpec => []TimersFollowRows
<1>1. CronIInv => TimersFollowRows
  BY DEF CronIInv, TimersFollowRows
<1> QED BY <1>1, DaemonRunsCron, CronInit, JobStep, PTL DEF Jobbing!Spec

----------------------------------------------------------------------------
(* The slots of the scheduler *)

LEMMA DaemonRunsScheduler == DaemonSpec => Spec
<1>1. DaemonInit => Init
  BY DEF DaemonInit
<1>2. [DaemonNext]_daemonVars => [Next]_vars
  BY DEF DaemonNext, daemonVars, SchedulerStep, CronStep, BringupStep, HealthStep, vars
<1> QED BY <1>1, <1>2, PTL DEF DaemonSpec, Spec

\* Every part keeps its types; the count of a slot is what it runs and has
\* reserved, no event waits behind free room or is overtaken by a later one,
\* and a row says running only of a handler that runs
\* (scheduler/scheduler.ts:211-307).
THEOREM DaemonKeepsSlots == DaemonSpec => []SlotsAreKept
<1>1. Boot!Spec => []Boot!TypeOK
  <2>1. BootIInv => Boot!TypeOK
    BY DEF BootIInv
  <2> QED BY <2>1, BootInit, BootStep, PTL DEF Boot!Spec
<1>2. Health!Spec => []Health!TypeOK
  <2>1. HealthIInv => Health!TypeOK
    BY DEF HealthIInv
  <2> QED BY <2>1, WatchInit, WatchStep, PTL DEF Health!Spec
<1>3. Jobbing!Spec => []Jobbing!TypeOK
  <2>1. CronIInv => Jobbing!TypeOK
    BY DEF CronIInv
  <2> QED BY <2>1, CronInit, JobStep, PTL DEF Jobbing!Spec
<1>4. /\ TypeOK /\ SlotAccounting /\ WorkConserving /\ NoOvertaking /\ RunningRowsAreLive
      /\ Boot!TypeOK /\ Health!TypeOK /\ Jobbing!TypeOK
      => SlotsAreKept
  BY DEF SlotsAreKept
<1> QED BY <1>1, <1>2, <1>3, <1>4, SlotsKept, DaemonRunsScheduler, DaemonRunsBringup,
           DaemonRunsHealth, DaemonRunsCron, PTL

\* The scheduler's verdicts in the whole daemon (scheduler/scheduler.ts:257-355).
THEOREM DaemonVerdictIsOne == DaemonSpec => []OneVerdict
BY VerdictIsOne, DaemonRunsScheduler, PTL
=============================================================================
