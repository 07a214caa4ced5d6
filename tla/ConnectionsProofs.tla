------------------------- MODULE ConnectionsProofs -------------------------
(***************************************************************************)
(* What the link to a peer, the session of a client and the channel of a   *)
(* guest keep, for any bounds on their traffic.                            *)
(***************************************************************************)
EXTENDS Connections, FiniteSetTheorems, SequenceTheorems, TLAPS

----------------------------------------------------------------------------
(* Sequences *)

LEMMA AppendedSeq ==
    ASSUME NEW S, NEW q \in Seq(S), NEW x \in S
    PROVE  /\ Append(q, x) \in Seq(S) /\ Append(q, x) # <<>>
           /\ Len(Append(q, x)) = Len(q) + 1 /\ Len(q) \in Nat
           /\ DOMAIN Append(q, x) = 1 .. Len(q) + 1 /\ DOMAIN q = 1 .. Len(q)
           /\ \A i \in 1 .. Len(q) : Append(q, x)[i] = q[i]
           /\ Append(q, x)[Len(q) + 1] = x
<1>1. /\ Append(q, x) \in Seq(S) /\ Len(Append(q, x)) = Len(q) + 1
      /\ \A i \in 1 .. Len(q) : Append(q, x)[i] = q[i]
      /\ Append(q, x)[Len(q) + 1] = x
  BY AppendProperties
<1>2. Len(q) \in Nat /\ DOMAIN q = 1 .. Len(q)
  BY LenProperties
<1>3. DOMAIN Append(q, x) = 1 .. Len(q) + 1
  BY <1>1, LenProperties
<1>4. Append(q, x) # <<>>
  BY <1>1, <1>2, EmptySeq
<1> QED BY <1>1, <1>2, <1>3, <1>4

LEMMA TailSeq ==
    ASSUME NEW S, NEW q \in Seq(S), q # <<>>
    PROVE  /\ Head(q) = q[1] /\ q[1] \in S
           /\ Tail(q) \in Seq(S) /\ Len(Tail(q)) = Len(q) - 1
           /\ Len(q) \in Nat \ {0}
           /\ DOMAIN Tail(q) = 1 .. Len(q) - 1 /\ DOMAIN q = 1 .. Len(q)
           /\ \A i \in 1 .. Len(q) - 1 : i + 1 \in 1 .. Len(q) /\ Tail(q)[i] = q[i + 1]
<1>1. /\ Tail(q) \in Seq(S) /\ Len(Tail(q)) = Len(q) - 1
      /\ \A i \in 1 .. Len(Tail(q)) : Tail(q)[i] = q[i + 1]
  BY HeadTailProperties
<1>2. Len(q) \in Nat \ {0} /\ DOMAIN q = 1 .. Len(q)
  BY LenProperties, EmptySeq
<1>3. DOMAIN Tail(q) = 1 .. Len(q) - 1
  BY <1>1, LenProperties
<1>4. 1 \in 1 .. Len(q)
  BY <1>2
<1>5. q[1] \in S
  BY <1>4, ElementOfSeq
<1>6. \A i \in 1 .. Len(q) - 1 : i + 1 \in 1 .. Len(q)
  BY <1>2
<1> QED BY <1>1, <1>2, <1>3, <1>5, <1>6

LEMMA ConcatSeq ==
    ASSUME NEW S, NEW p \in Seq(S), NEW q \in Seq(S)
    PROVE  /\ p \o q \in Seq(S)
           /\ Len(p) \in Nat /\ Len(q) \in Nat /\ Len(p \o q) = Len(p) + Len(q)
           /\ DOMAIN p = 1 .. Len(p) /\ DOMAIN q = 1 .. Len(q)
           /\ DOMAIN (p \o q) = 1 .. Len(p) + Len(q)
           /\ \A i \in 1 .. Len(p) : i \in 1 .. Len(p) + Len(q) /\ (p \o q)[i] = p[i]
           /\ \A i \in 1 .. Len(q) : /\ Len(p) + i \in 1 .. Len(p) + Len(q)
                                     /\ (p \o q)[Len(p) + i] = q[i]
           /\ \A i \in 1 .. Len(p) + Len(q) :
                 i \in 1 .. Len(p) \/ \E j \in 1 .. Len(q) : i = Len(p) + j
<1>1. /\ p \o q \in Seq(S) /\ Len(p \o q) = Len(p) + Len(q)
      /\ \A i \in 1 .. Len(p) + Len(q) :
            (p \o q)[i] = IF i <= Len(p) THEN p[i] ELSE q[i - Len(p)]
  BY ConcatProperties
<1>2. Len(p) \in Nat /\ Len(q) \in Nat /\ DOMAIN p = 1 .. Len(p) /\ DOMAIN q = 1 .. Len(q)
  BY LenProperties
<1>3. DOMAIN (p \o q) = 1 .. Len(p) + Len(q)
  BY <1>1, LenProperties
<1>4. \A i \in 1 .. Len(p) : i \in 1 .. Len(p) + Len(q) /\ i <= Len(p)
  BY <1>2
<1>5. ASSUME NEW i \in 1 .. Len(q)
      PROVE  Len(p) + i \in 1 .. Len(p) + Len(q) /\ (p \o q)[Len(p) + i] = q[i]
  <2>1. /\ Len(p) + i \in 1 .. Len(p) + Len(q) /\ ~(Len(p) + i <= Len(p))
        /\ (Len(p) + i) - Len(p) = i
    BY <1>2
  <2> QED BY <1>1, <2>1
<1>6. ASSUME NEW i \in 1 .. Len(p) + Len(q), i \notin 1 .. Len(p)
      PROVE  \E j \in 1 .. Len(q) : i = Len(p) + j
  <2>1. i - Len(p) \in 1 .. Len(q) /\ i = Len(p) + (i - Len(p))
    BY <1>2, <1>6
  <2> QED BY <2>1
<1> QED BY <1>1, <1>2, <1>3, <1>4, <1>5, <1>6

----------------------------------------------------------------------------
(* The link to a peer *)

LEMMA ConnectionsRunLink == ConnectionSpec => Init /\ [][Next]_vars
<1>1. ConnectionInit => Init
  BY DEF ConnectionInit
<1>2. [ConnectionNext]_connectionVars => [Next]_vars
  BY DEF ConnectionNext, connectionVars, LinkStep, SessionStep, ChannelStep, vars
<1> QED BY <1>1, <1>2, PTL DEF ConnectionSpec

\* What has been sent on the socket and what waits is in order, and older than
\* what is yet to be sent.
QueueInOrder == \A i, j \in DOMAIN queue : i < j => queue[i] < queue[j]
WireInOrder ==
    \A i, j \in DOMAIN wire : i < j /\ {wire[i], wire[j]} \subseteq Envelope
                                 => wire[i] < wire[j]
QueueAfterWire == \A i \in DOMAIN wire : \A j \in DOMAIN queue : wire[i] < queue[j]
NothingAhead ==
    /\ \A i \in DOMAIN wire : wire[i] <= sends
    /\ \A i \in DOMAIN queue : queue[i] <= sends

\* An open socket has had its hello and leaves nothing in the queue.
OpenIsGreeted ==
    /\ wire # <<>> => wire[1] = HelloEnv
    /\ socket = "open" => wire # <<>> /\ queue = <<>>

\* A link nobody wants any more closes its socket; the heartbeat needs one.
UnwantedCloses ==
    /\ closed \/ rejected => socket \in {"none", "closing"}
    /\ beating => socket # "none"

LinkIInv ==
    /\ TypeOK /\ NeverStranded /\ ConnectedMeansOpen /\ UnwantedCloses
    /\ QueueInOrder /\ WireInOrder /\ QueueAfterWire /\ NothingAhead /\ OpenIsGreeted

Traffic == QueueInOrder /\ WireInOrder /\ QueueAfterWire /\ NothingAhead

LEMMA LinkBounds ==
    /\ MaxSends \in Nat /\ StaleAfter \in Nat
    /\ MaxQueue \in Nat /\ MaxQueue > 0
    /\ 0 \in Age /\ \A a \in Age : Older(a) \in Age
<1>1. MaxSends \in Nat /\ MaxQueue \in Nat \ {0} /\ StaleAfter \in Nat \ {0}
  BY LinkAssumption
<1> QED BY <1>1 DEF Age, Older

LEMMA LinkTypes ==
    ASSUME TypeOK
    PROVE  /\ wire \in Seq(Int) /\ queue \in Seq(Int) /\ sends \in Nat
           /\ DOMAIN wire = 1 .. Len(wire) /\ DOMAIN queue = 1 .. Len(queue)
           /\ Len(wire) \in Nat /\ Len(queue) \in Nat
           /\ \A i \in DOMAIN wire : wire[i] \in Int
           /\ \A i \in DOMAIN queue : queue[i] \in Int /\ queue[i] \in Nat \ {0}
<1>1. Envelope \cup {HelloEnv, CatchupRequest} \subseteq Int /\ Envelope \subseteq Nat \ {0}
  BY LinkAssumption DEF Envelope, HelloEnv, CatchupRequest
<1>2. wire \in Seq(Int) /\ queue \in Seq(Nat \ {0}) /\ queue \in Seq(Int)
  BY <1>1, SeqMonotonic DEF TypeOK
<1>3. /\ DOMAIN wire = 1 .. Len(wire) /\ DOMAIN queue = 1 .. Len(queue)
      /\ Len(wire) \in Nat /\ Len(queue) \in Nat
  BY <1>2, LenProperties
<1>4. /\ \A i \in DOMAIN wire : wire[i] \in Int
      /\ \A i \in DOMAIN queue : queue[i] \in Nat \ {0}
  BY <1>2, <1>3, ElementOfSeq
<1>5. sends \in Nat
  BY LinkAssumption DEF TypeOK
<1> QED BY <1>2, <1>3, <1>4, <1>5

LEMMA LinkOrder == LinkIInv => HelloThenInOrder
<1> SUFFICES ASSUME LinkIInv, wire # <<>>
             PROVE  /\ Head(wire) = HelloEnv
                    /\ \A i, j \in DOMAIN (wire \o queue) :
                          i < j /\ {(wire \o queue)[i], (wire \o queue)[j]} \subseteq Envelope
                             => (wire \o queue)[i] < (wire \o queue)[j]
  BY DEF HelloThenInOrder
<1> USE DEF LinkIInv
<1>1. Head(wire) = HelloEnv
  BY LinkTypes, TailSeq DEF OpenIsGreeted
<1> DEFINE n == Len(wire)
           m == Len(queue)
           sent == wire \o queue
<1>2. /\ n \in Nat /\ m \in Nat /\ DOMAIN sent = 1 .. n + m
      /\ DOMAIN wire = 1 .. n /\ DOMAIN queue = 1 .. m
      /\ \A i \in 1 .. n : sent[i] = wire[i]
      /\ \A i \in 1 .. m : sent[n + i] = queue[i]
      /\ \A i \in 1 .. n + m : i \in 1 .. n \/ \E j \in 1 .. m : i = n + j
  BY LinkTypes, ConcatSeq
<1>3. ASSUME NEW i \in DOMAIN sent, NEW j \in DOMAIN sent, i < j,
             {sent[i], sent[j]} \subseteq Envelope
      PROVE  sent[i] < sent[j]
  <2> HIDE DEF sent, n, m
  <2>1. CASE i \in 1 .. n /\ j \in 1 .. n
    BY <1>2, <1>3, <2>1 DEF WireInOrder
  <2>2. CASE i \in 1 .. n /\ j \notin 1 .. n
    <3>1. PICK k \in 1 .. m : j = n + k
      BY <1>2, <2>2
    <3> QED BY <1>2, <2>2, <3>1 DEF QueueAfterWire
  <2>3. CASE i \notin 1 .. n
    <3>1. PICK k \in 1 .. m : i = n + k
      BY <1>2, <2>3
    <3>2. j \notin 1 .. n
      BY <1>2, <1>3, <3>1
    <3>3. PICK l \in 1 .. m : j = n + l
      BY <1>2, <3>2
    <3>4. k < l
      BY <1>2, <1>3, <3>1, <3>3
    <3> QED BY <1>2, <3>1, <3>3, <3>4 DEF QueueInOrder
  <2> QED BY <2>1, <2>2, <2>3
<1> QED BY <1>1, <1>3

LEMMA LinkInit == Init => LinkIInv
<1> SUFFICES ASSUME Init PROVE LinkIInv
  OBVIOUS
<1> USE LinkBounds DEF Init
<1>1. TypeOK
  <2>1. <<>> \in Seq(Envelope) /\ <<>> \in Seq(Envelope \cup {HelloEnv, CatchupRequest})
    BY EmptySeq
  <2>2. Len(<<>>) <= MaxQueue /\ 0 \in 0 .. MaxSends
    BY EmptySeq
  <2> QED BY <2>1, <2>2 DEF TypeOK
<1>2. QueueInOrder /\ WireInOrder /\ QueueAfterWire /\ NothingAhead
  <2>1. DOMAIN <<>> = {}
    OBVIOUS
  <2> QED BY <2>1 DEF QueueInOrder, WireInOrder, QueueAfterWire, NothingAhead
<1> QED BY <1>1, <1>2 DEF LinkIInv, NeverStranded, ConnectedMeansOpen, UnwantedCloses,
        OpenIsGreeted

\* The queue and the wire are left alone by most steps.
LEMMA TrafficKept ==
    ASSUME Traffic, UNCHANGED <<queue, wire, sends>>
    PROVE  Traffic'
BY DEF Traffic, QueueInOrder, WireInOrder, QueueAfterWire, NothingAhead, Envelope

LEMMA LinkConnect == ASSUME LinkIInv, Connect PROVE LinkIInv'
<1> USE LinkBounds DEF LinkIInv, Connect, flags
<1>1. socket = "none"
  BY DEF NeverStranded, TypeOK
<1>2. TypeOK'
  BY EmptySeq DEF TypeOK
<1>3. NeverStranded' /\ ConnectedMeansOpen' /\ UnwantedCloses'
  BY <1>1 DEF NeverStranded, ConnectedMeansOpen, UnwantedCloses, TypeOK
<1>4. OpenIsGreeted'
  BY <1>1 DEF OpenIsGreeted
<1>5. Traffic'
  <2>1. DOMAIN <<>> = {}
    OBVIOUS
  <2>2. CASE wire' = <<>>
    <3>1. DOMAIN wire' = {}
      BY <2>1, <2>2
    <3> QED BY <3>1 DEF Traffic, QueueInOrder, WireInOrder, QueueAfterWire, NothingAhead
  <2>3. CASE wire' = wire
    BY <2>3, TrafficKept DEF Traffic
  <2> QED BY <2>2, <2>3
<1> QED BY <1>2, <1>3, <1>4, <1>5 DEF Traffic

LEMMA GreetedSeq ==
    ASSUME NEW q \in Seq(Int)
    PROVE  /\ Len(q) \in Nat /\ DOMAIN q = 1 .. Len(q)
           /\ DOMAIN (Greeting \o q) = 1 .. 2 + Len(q)
           /\ \A i \in 1 .. 2 : (Greeting \o q)[i] = Greeting[i]
           /\ \A i \in 1 .. Len(q) : (Greeting \o q)[2 + i] = q[i]
           /\ \A i \in 1 .. 2 + Len(q) :
                 i \in 1 .. 2 \/ \E j \in 1 .. Len(q) : i = 2 + j
<1>1. Greeting \in Seq(Int) /\ Len(Greeting) = 2
  BY DEF Greeting, HelloEnv, CatchupRequest
<1>2. PICK g \in Seq(Int) : g = Greeting /\ Len(g) = 2
  BY <1>1
<1>3. /\ Len(q) \in Nat /\ DOMAIN q = 1 .. Len(q)
      /\ DOMAIN (g \o q) = 1 .. Len(g) + Len(q)
      /\ \A i \in 1 .. Len(g) : (g \o q)[i] = g[i]
      /\ \A i \in 1 .. Len(q) : (g \o q)[Len(g) + i] = q[i]
      /\ \A i \in 1 .. Len(g) + Len(q) :
            i \in 1 .. Len(g) \/ \E j \in 1 .. Len(q) : i = Len(g) + j
  BY ConcatSeq
<1> QED BY <1>2, <1>3

LEMMA LinkOpen == ASSUME LinkIInv, Open PROVE LinkIInv'
<1> USE LinkBounds DEF LinkIInv, Open, flags
<1> DEFINE n == Len(queue)
<1>1. /\ Greeting \in Seq(Int) /\ Len(Greeting) = 2
      /\ Greeting[1] = HelloEnv /\ Greeting[2] = CatchupRequest
      /\ Greeting \in Seq(Envelope \cup {HelloEnv, CatchupRequest})
  BY DEF Greeting, HelloEnv, CatchupRequest
<1>2. /\ n \in Nat /\ DOMAIN wire' = 1 .. 2 + n
      /\ \A i \in 1 .. 2 : wire'[i] = Greeting[i]
      /\ \A i \in 1 .. n : wire'[2 + i] = queue[i]
      /\ \A i \in 1 .. 2 + n : i \in 1 .. 2 \/ \E j \in 1 .. n : i = 2 + j
      /\ DOMAIN queue = 1 .. n
  BY LinkTypes, GreetedSeq
<1>3. \A i \in 1 .. n : queue[i] \in Nat \ {0}
  BY LinkTypes
<1>4. TypeOK'
  <2>1. queue \in Seq(Envelope \cup {HelloEnv, CatchupRequest})
    BY SeqMonotonic DEF TypeOK
  <2>2. wire' \in Seq(Envelope \cup {HelloEnv, CatchupRequest})
    BY <1>1, <2>1, ConcatProperties
  <2>3. queue' \in Seq(Envelope) /\ Len(queue') <= MaxQueue
    BY EmptySeq DEF TypeOK
  <2> QED BY <2>2, <2>3 DEF TypeOK, Age
<1>5. NeverStranded' /\ ConnectedMeansOpen' /\ UnwantedCloses'
  BY DEF NeverStranded, ConnectedMeansOpen, UnwantedCloses, TypeOK
<1>6. DOMAIN queue' = {}
  OBVIOUS
<1>7. wire'[1] = 0 /\ wire'[2] = -1 /\ 1 \in 1 .. 2 /\ 2 \in 1 .. 2
  BY <1>1, <1>2 DEF HelloEnv, CatchupRequest
<1>8. OpenIsGreeted'
  <2>1. 1 \in DOMAIN wire'
    BY <1>2
  <2> QED BY <1>7, <2>1 DEF OpenIsGreeted, HelloEnv
<1>9. WireInOrder'
  <2> SUFFICES ASSUME NEW i \in 1 .. 2 + n, NEW j \in 1 .. 2 + n, i < j,
                      wire'[i] \in Envelope, wire'[j] \in Envelope
               PROVE  wire'[i] < wire'[j]
    BY <1>2 DEF WireInOrder, Envelope
  <2> HIDE DEF n
  <2>1. i \notin 1 .. 2
    <3>1. i \in 1 .. 2 => i = 1 \/ i = 2
      OBVIOUS
    <3>2. 0 \notin Envelope /\ -1 \notin Envelope
      BY DEF Envelope
    <3> QED BY <1>7, <3>1, <3>2
  <2>2. PICK k \in 1 .. n : i = 2 + k
    BY <1>2, <2>1
  <2>3. j \notin 1 .. 2
    BY <1>2, <2>2
  <2>4. PICK l \in 1 .. n : j = 2 + l
    BY <1>2, <2>3
  <2>5. k < l
    BY <1>2, <2>2, <2>4
  <2>6. wire'[i] = queue[k] /\ wire'[j] = queue[l]
    BY <1>2, <2>2, <2>4
  <2>7. queue[k] < queue[l]
    BY <1>2, <2>5 DEF QueueInOrder
  <2> QED BY <2>6, <2>7
<1>10. \A i \in DOMAIN wire' : wire'[i] <= sends'
  <2> SUFFICES ASSUME NEW i \in 1 .. 2 + n PROVE wire'[i] <= sends
    BY <1>2
  <2> HIDE DEF n
  <2>1. sends \in Nat
    BY LinkTypes
  <2>2. CASE i \in 1 .. 2
    <3>1. i = 1 \/ i = 2
      BY <2>2
    <3>2. 0 <= sends /\ -1 <= sends
      BY <2>1
    <3> QED BY <1>7, <3>1, <3>2
  <2>3. CASE i \notin 1 .. 2
    <3>1. PICK k \in 1 .. n : i = 2 + k
      BY <1>2, <2>3
    <3>2. wire'[i] = queue[k] /\ queue[k] <= sends
      BY <1>2, <3>1 DEF NothingAhead
    <3> QED BY <3>2
  <2> QED BY <2>2, <2>3
<1>11. QueueInOrder' /\ QueueAfterWire' /\ NothingAhead'
  BY <1>6, <1>10 DEF QueueInOrder, QueueAfterWire, NothingAhead
<1> QED BY <1>4, <1>5, <1>8, <1>9, <1>11

LEMMA LinkSend == ASSUME LinkIInv, Send PROVE LinkIInv'
<1> USE LinkBounds DEF LinkIInv, flags
<1> DEFINE e == sends + 1
<1>0. /\ sends \in Nat /\ e \in Envelope /\ e \in Nat /\ sends' = e /\ sends' \in 0 .. MaxSends
      /\ UNCHANGED <<status, socket, closed, rejected, reconnect, beating, silence>>
  BY LinkTypes DEF Send, Envelope, TypeOK
<1>1. NeverStranded' /\ ConnectedMeansOpen' /\ UnwantedCloses'
  BY <1>0 DEF NeverStranded, ConnectedMeansOpen, UnwantedCloses
<1>2. CASE UNCHANGED <<queue, wire>>
  <2>1. TypeOK' /\ OpenIsGreeted'
    BY <1>0, <1>2 DEF TypeOK, OpenIsGreeted
  <2>2. QueueInOrder' /\ WireInOrder' /\ QueueAfterWire'
    BY <1>2 DEF QueueInOrder, WireInOrder, QueueAfterWire
  <2>3. NothingAhead'
    BY <1>0, <1>2, LinkTypes DEF NothingAhead
  <2> QED BY <1>1, <2>1, <2>2, <2>3
<1>3. CASE socket = "open" /\ wire' = Append(wire, e) /\ UNCHANGED queue
  <2> DEFINE n == Len(wire)
  <2>1. /\ n \in Nat /\ DOMAIN wire' = 1 .. n + 1 /\ DOMAIN wire = 1 .. n
        /\ \A i \in 1 .. n : wire'[i] = wire[i]
        /\ wire'[n + 1] = e /\ wire' # <<>>
    BY <1>0, <1>3, LinkTypes, AppendedSeq
  <2>2. DOMAIN queue' = {} /\ queue' = <<>>
    BY <1>3 DEF OpenIsGreeted
  <2>3. TypeOK'
    <3>1. wire' \in Seq(Envelope \cup {HelloEnv, CatchupRequest})
      BY <1>0, <1>3, AppendProperties DEF TypeOK
    <3> QED BY <1>0, <1>3, <3>1 DEF TypeOK
  <2>4. OpenIsGreeted'
    <3>1. 1 \in 1 .. n /\ wire[1] = HelloEnv
      BY <1>3, <2>1, LinkTypes, EmptySeq DEF OpenIsGreeted
    <3> QED BY <2>1, <2>2, <3>1 DEF OpenIsGreeted
  <2>5. \A i \in 1 .. n : wire[i] \in Int /\ wire[i] <= sends /\ wire[i] < e
    <3>1. \A i \in 1 .. n : wire[i] \in Int /\ wire[i] <= sends
      BY <2>1, LinkTypes DEF NothingAhead
    <3> QED BY <1>0, <3>1
  <2>6. WireInOrder'
    <3> SUFFICES ASSUME NEW i \in 1 .. n + 1, NEW j \in 1 .. n + 1, i < j,
                        {wire'[i], wire'[j]} \subseteq Envelope
                 PROVE  wire'[i] < wire'[j]
      BY <2>1 DEF WireInOrder, Envelope
    <3> HIDE DEF n, e
    <3>1. i \in 1 .. n
      BY <2>1
    <3>2. CASE j \in 1 .. n
      BY <2>1, <3>1, <3>2 DEF WireInOrder
    <3>3. CASE j = n + 1
      BY <2>1, <2>5, <3>1, <3>3
    <3> QED BY <2>1, <3>2, <3>3
  <2>7. \A i \in 1 .. n + 1 : wire'[i] <= e
    <3> HIDE DEF n, e
    <3>1. \A i \in 1 .. n + 1 : i \in 1 .. n \/ i = n + 1
      BY <2>1
    <3> QED BY <1>0, <2>1, <2>5, <3>1
  <2> QED BY <1>0, <1>1, <2>1, <2>2, <2>3, <2>4, <2>6, <2>7
          DEF QueueInOrder, QueueAfterWire, NothingAhead
<1>4. CASE /\ socket # "open" /\ UNCHANGED wire
           /\ queue' = (IF Len(queue) = MaxQueue THEN Tail(queue) ELSE queue) \o <<e>>
  <2> DEFINE kept == IF Len(queue) = MaxQueue THEN Tail(queue) ELSE queue
             n == Len(kept)
  <2>1. /\ kept \in Seq(Envelope) /\ n \in Nat /\ n < MaxQueue
        /\ DOMAIN kept = 1 .. n
        /\ \A i \in 1 .. n : \E k \in DOMAIN queue : kept[i] = queue[k]
        /\ \A i, j \in 1 .. n : i < j => kept[i] < kept[j]
    <3>1. CASE Len(queue) = MaxQueue
      <4>1. queue \in Seq(Envelope) /\ queue # <<>>
        BY <3>1, EmptySeq DEF TypeOK
      <4>2. /\ Tail(queue) \in Seq(Envelope) /\ Len(Tail(queue)) = Len(queue) - 1
            /\ Len(queue) \in Nat \ {0}
            /\ DOMAIN Tail(queue) = 1 .. Len(queue) - 1 /\ DOMAIN queue = 1 .. Len(queue)
            /\ \A i \in 1 .. Len(queue) - 1 :
                  i + 1 \in 1 .. Len(queue) /\ Tail(queue)[i] = queue[i + 1]
        BY <4>1, TailSeq
      <4>3. kept = Tail(queue) /\ n = Len(queue) - 1
        BY <3>1, <4>2
      <4>4. \A i, j \in 1 .. n : i < j => kept[i] < kept[j]
        <5> SUFFICES ASSUME NEW i \in 1 .. n, NEW j \in 1 .. n, i < j
                     PROVE  queue[i + 1] < queue[j + 1]
          BY <4>2, <4>3
        <5>1. i + 1 \in DOMAIN queue /\ j + 1 \in DOMAIN queue
          BY <4>2, <4>3
        <5>2. i + 1 < j + 1
          OBVIOUS
        <5> QED BY <5>1, <5>2 DEF QueueInOrder
      <4>5. \A i \in 1 .. n : \E k \in DOMAIN queue : kept[i] = queue[k]
        BY <4>2, <4>3
      <4>6. n \in Nat /\ n < MaxQueue /\ DOMAIN kept = 1 .. n /\ kept \in Seq(Envelope)
        BY <3>1, <4>2, <4>3
      <4> QED BY <4>4, <4>5, <4>6
    <3>2. CASE Len(queue) # MaxQueue
      <4>1. kept = queue /\ queue \in Seq(Envelope) /\ Len(queue) <= MaxQueue
        BY <3>2 DEF TypeOK
      <4>2. Len(queue) \in Nat /\ DOMAIN queue = 1 .. Len(queue)
        BY LinkTypes
      <4>3. Len(queue) < MaxQueue
        <5> DEFINE l == Len(queue)
        <5>1. l \in Nat /\ l <= MaxQueue /\ l # MaxQueue
          BY <3>2, <4>1, <4>2
        <5> HIDE DEF l
        <5>2. l < MaxQueue
          BY <5>1
        <5> QED BY <5>2 DEF l
      <4> QED BY <4>1, <4>2, <4>3 DEF QueueInOrder
    <3> QED BY <3>1, <3>2
  <2> HIDE DEF kept
  <2>2. <<e>> \in Seq(Envelope) /\ Len(<<e>>) = 1 /\ <<e>>[1] = e
    BY <1>0
  <2>3. /\ queue' \in Seq(Envelope) /\ Len(queue') = n + 1
        /\ DOMAIN queue' = 1 .. n + 1
        /\ \A i \in 1 .. n : queue'[i] = kept[i]
        /\ queue'[n + 1] = e
    <3>1. queue' = kept \o <<e>>
      BY <1>4 DEF kept
    <3>2. 1 \in 1 .. 1
      OBVIOUS
    <3> HIDE DEF e, n
    <3>3. /\ Len(kept \o <<e>>) = Len(kept) + 1 /\ kept \o <<e>> \in Seq(Envelope)
          /\ DOMAIN (kept \o <<e>>) = 1 .. Len(kept) + 1
          /\ \A i \in 1 .. Len(kept) : (kept \o <<e>>)[i] = kept[i]
          /\ (kept \o <<e>>)[Len(kept) + 1] = e
      BY <2>1, <2>2, <3>2, ConcatSeq
    <3> QED BY <3>1, <3>3 DEF n
  <2>4. TypeOK'
    <3>1. Len(queue') <= MaxQueue
      BY <2>1, <2>3
    <3> QED BY <1>0, <1>4, <2>3, <3>1 DEF TypeOK
  <2>5. OpenIsGreeted' /\ WireInOrder'
    BY <1>0, <1>4 DEF OpenIsGreeted, WireInOrder
  <2>6. \A i \in 1 .. n : kept[i] \in Int /\ kept[i] <= sends
    BY <2>1, LinkTypes DEF NothingAhead
  <2>7. /\ \A i \in DOMAIN wire : wire[i] <= sends /\ wire[i] \in Int
        /\ \A i \in DOMAIN wire : \A j \in 1 .. n : wire[i] < kept[j]
    BY <2>1, LinkTypes DEF NothingAhead, QueueAfterWire
  <2>8. \A i \in 1 .. n + 1 : i \in 1 .. n \/ i = n + 1
    BY <2>1
  <2>9. QueueInOrder'
    <3> SUFFICES ASSUME NEW i \in 1 .. n + 1, NEW j \in 1 .. n + 1, i < j
                 PROVE  queue'[i] < queue'[j]
      BY <2>3 DEF QueueInOrder
    <3> HIDE DEF n
    <3>1. i \in 1 .. n
      BY <2>1
    <3>2. CASE j \in 1 .. n
      BY <2>1, <2>3, <3>1, <3>2
    <3>3. CASE j = n + 1
      BY <1>0, <2>3, <2>6, <3>1, <3>3
    <3> QED BY <2>8, <3>2, <3>3
  <2>10. QueueAfterWire'
    <3> SUFFICES ASSUME NEW i \in DOMAIN wire, NEW j \in 1 .. n + 1
                 PROVE  wire[i] < queue'[j]
      BY <1>4, <2>3 DEF QueueAfterWire
    <3> HIDE DEF n
    <3>1. CASE j \in 1 .. n
      BY <2>3, <2>7, <3>1
    <3>2. CASE j = n + 1
      BY <1>0, <2>3, <2>7, <3>2
    <3> QED BY <2>8, <3>1, <3>2
  <2>11. NothingAhead'
    <3>1. \A i \in DOMAIN wire' : wire'[i] <= sends'
      BY <1>0, <1>4, <2>7
    <3>2. ASSUME NEW j \in 1 .. n + 1 PROVE queue'[j] <= sends'
      <4> HIDE DEF n
      <4>1. CASE j \in 1 .. n
        BY <1>0, <2>3, <2>6, <4>1
      <4>2. CASE j = n + 1
        BY <1>0, <2>3, <4>2
      <4> QED BY <2>8, <4>1, <4>2
    <3> QED BY <2>3, <3>1, <3>2 DEF NothingAhead
  <2> QED BY <1>1, <2>4, <2>5, <2>9, <2>10, <2>11
<1> QED BY <1>2, <1>3, <1>4 DEF Send, SentOrQueued

LEMMA LinkNext == LinkIInv /\ [Next]_vars => LinkIInv'
<1> SUFFICES ASSUME LinkIInv, [Next]_vars PROVE LinkIInv'
  OBVIOUS
<1>1. CASE Connect
  BY <1>1, LinkConnect
<1>2. CASE Open
  BY <1>2, LinkOpen
<1>3. CASE Send
  BY <1>3, LinkSend
<1>4. ASSUME UNCHANGED <<queue, wire, sends>>,
             TypeOK', NeverStranded', ConnectedMeansOpen', UnwantedCloses',
             socket' = "open" => socket = "open"
      PROVE  LinkIInv'
  <2>1. Traffic'
    BY <1>4, TrafficKept DEF LinkIInv, Traffic
  <2>2. OpenIsGreeted'
    BY <1>4 DEF LinkIInv, OpenIsGreeted
  <2> QED BY <1>4, <2>1, <2>2 DEF LinkIInv, Traffic
<1> USE LinkBounds DEF LinkIInv, TypeOK, NeverStranded, ConnectedMeansOpen,
        UnwantedCloses, flags
<1>5. CASE SocketCloses
  BY <1>4, <1>5 DEF SocketCloses
<1>6. CASE Receive
  BY <1>4, <1>6 DEF Receive, Age
<1>7. CASE ReceiveForged
  BY <1>4, <1>7 DEF ReceiveForged
<1>8. CASE Tick
  <2>1. silence' \in Age
    BY <1>8 DEF Tick
  <2>2. UNCHANGED <<status, socket, closed, rejected, reconnect, beating, queue, wire, sends>>
    BY <1>8 DEF Tick
  <2>3. TypeOK'
    BY <2>1, <2>2
  <2> QED BY <1>4, <2>2, <2>3
<1>9. CASE GoStale
  BY <1>4, <1>9 DEF GoStale
<1>10. CASE CloseLink
  BY <1>4, <1>10 DEF CloseLink
<1>11. CASE UNCHANGED vars
  BY <1>4, <1>11 DEF vars
<1> QED BY <1>1, <1>2, <1>3, <1>5, <1>6, <1>7, <1>8, <1>9, <1>10, <1>11 DEF Next

\* The hello is the first envelope on a socket and each envelope that is sent
\* goes once and in order; a wanted link has a socket or a timer, never both;
\* and it is called connected exactly while its socket is open.
THEOREM LinkStaysInOrder == ConnectionSpec => []LinkIsKept
<1>1. LinkIInv => LinkIsKept
  BY LinkOrder DEF LinkIInv, LinkIsKept
<1> QED BY <1>1, LinkInit, LinkNext, ConnectionsRunLink, PTL
----------------------------------------------------------------------------
(* The session of a client *)

LEMMA ConnectionsRunSession ==
    ConnectionSpec => Session!Init /\ [][Session!Next]_(Session!sessionVars)
<1>1. ConnectionInit => Session!Init
  BY DEF ConnectionInit
<1>2. [ConnectionNext]_connectionVars => [Session!Next]_(Session!sessionVars)
  BY DEF ConnectionNext, connectionVars, LinkStep, SessionStep, ChannelStep, ipcVars,
         Session!sessionVars
<1> QED BY <1>1, <1>2, PTL DEF ConnectionSpec

CallIds == 1 .. MaxRequests
Request == [id : CallIds, m : Methods \cup {"tail", "tail.cancel"}, valid : BOOLEAN,
            target : 0 .. MaxRequests]
Reply == [id : CallIds, kind : {"ok", "error", "data", "end"}]
Consumer == [st : {"none", "live", "ended", "failed", "cancelled"},
             buf : 0 .. MaxEvents, waiting : BOOLEAN, by : 0 .. MaxRequests]

SessionTypes ==
    /\ up \in BOOLEAN /\ sawClose \in BOOLEAN /\ nextId \in 1 .. MaxRequests + 1
    /\ call \in [CallIds -> {"none", "pending", "ok", "error", "closed"}]
    /\ stream \in [CallIds -> Consumer]
    /\ subs \subseteq CallIds /\ listening \subseteq CallIds /\ events \in 0 .. MaxEvents
    /\ answers \in [CallIds -> 0 .. 2]
    /\ toServer \in Seq(Request) /\ toClient \in Seq(Reply) /\ busy \subseteq Request

\* A request is on its way, or a handler has it, or it was answered, once.
OnePlace ==
    /\ \A n \in DOMAIN toServer : toServer[n].id < nextId
    /\ \A r \in busy : r.id < nextId
    /\ \A n, k \in DOMAIN toServer : toServer[n].id = toServer[k].id => n = k
    /\ \A n \in DOMAIN toServer : \A r \in busy : toServer[n].id # r.id
    /\ \A r, q \in busy : r.id = q.id => r = q
    /\ \A i \in CallIds : answers[i] # 0 =>
          /\ answers[i] = 1 /\ i < nextId
          /\ \A n \in DOMAIN toServer : toServer[n].id # i
          /\ \A r \in busy : r.id # i

Listeners == listening = subs /\ (~up => listening = {})

\* The events on their way to a tail.
DataFor(q, i) == {n \in DOMAIN q : q[n].id = i /\ q[n].kind = "data"}

\* A tail has not been sent more events than there were.
NoEventTwice ==
    \A i \in CallIds : stream[i].buf + Cardinality(DataFor(toClient, i)) <= events

SessionIInv == SessionTypes /\ OnePlace /\ Listeners /\ NoEventTwice

LEMMA SessionBounds == MaxRequests \in Nat /\ MaxEvents \in Nat /\ CallIds \subseteq Nat
BY PartsAssumption DEF Session!SessionAssumption, CallIds

LEMMA SessionHolds == SessionIInv => Session!TypeOK /\ Session!OneAnswerNoLeak
<1> SUFFICES ASSUME SessionIInv PROVE Session!TypeOK /\ Session!OneAnswerNoLeak
  OBVIOUS
<1>1. Session!TypeOK
  BY DEF SessionIInv, SessionTypes, Session!TypeOK, CallIds, Session!Ids, Consumer
<1>2. \A i \in CallIds : answers[i] <= 1
  <2> SUFFICES ASSUME NEW i \in CallIds PROVE answers[i] <= 1
    OBVIOUS
  <2>1. answers[i] = 0 \/ answers[i] = 1
    BY DEF SessionIInv, OnePlace
  <2> QED BY <2>1
<1>3. Session!OneAnswerNoLeak
  BY <1>2 DEF SessionIInv, Listeners, Session!OneAnswerNoLeak, CallIds, Session!Ids
<1> QED BY <1>1, <1>3

\* The frames on a sequence that an end appends to, and takes from.
LEMMA DataIsFinite ==
    ASSUME NEW q \in Seq(Reply), NEW i
    PROVE  /\ IsFiniteSet(DataFor(q, i)) /\ Cardinality(DataFor(q, i)) \in Nat
           /\ DataFor(q, i) \subseteq 1 .. Len(q)
<1>1. DataFor(q, i) \subseteq 1 .. Len(q) /\ Len(q) \in Nat
  BY LenProperties DEF DataFor
<1>2. IsFiniteSet(1 .. Len(q))
  BY <1>1, FS_Interval
<1>3. IsFiniteSet(DataFor(q, i))
  BY <1>1, <1>2, FS_Subset
<1> QED BY <1>1, <1>3, FS_CardinalityType

LEMMA DataInConcat ==
    ASSUME NEW q \in Seq(Reply), NEW r \in Seq(Reply), NEW i
    PROVE  /\ DataFor(r, i) = {} => DataFor(q \o r, i) = DataFor(q, i)
           /\ \A k \in 1 .. Len(r) : DataFor(r, i) = {k} =>
                 Cardinality(DataFor(q \o r, i)) <= Cardinality(DataFor(q, i)) + 1
<1> DEFINE n == Len(q)
           m == Len(r)
           t == q \o r
<1>1. /\ n \in Nat /\ m \in Nat /\ DOMAIN t = 1 .. n + m
      /\ DOMAIN q = 1 .. n /\ DOMAIN r = 1 .. m
      /\ \A j \in 1 .. n : j \in 1 .. n + m /\ t[j] = q[j]
      /\ \A j \in 1 .. m : n + j \in 1 .. n + m /\ t[n + j] = r[j]
      /\ \A j \in 1 .. n + m : j \in 1 .. n \/ \E l \in 1 .. m : j = n + l
  BY ConcatSeq
<1> HIDE DEF n, m, t
<1>2. \A j \in DataFor(t, i) : j \in DataFor(q, i) \/ \E l \in DataFor(r, i) : j = n + l
  <2> SUFFICES ASSUME NEW j \in DataFor(t, i), j \notin DataFor(q, i)
               PROVE  \E l \in DataFor(r, i) : j = n + l
    OBVIOUS
  <2>1. j \in 1 .. n + m /\ t[j].id = i /\ t[j].kind = "data"
    BY <1>1 DEF DataFor
  <2>2. j \notin 1 .. n
    BY <1>1, <2>1 DEF DataFor
  <2>3. PICK l \in 1 .. m : j = n + l
    BY <1>1, <2>1, <2>2
  <2> QED BY <1>1, <2>1, <2>3 DEF DataFor
<1>3. DataFor(q, i) \subseteq DataFor(t, i)
  BY <1>1 DEF DataFor
<1>4. ASSUME NEW k \in 1 .. m, DataFor(r, i) = {k}
      PROVE  Cardinality(DataFor(t, i)) <= Cardinality(DataFor(q, i)) + 1
  <2>1. DataFor(t, i) \subseteq DataFor(q, i) \cup {n + k}
    BY <1>2, <1>4
  <2>2. IsFiniteSet(DataFor(q, i)) /\ Cardinality(DataFor(q, i)) \in Nat
    BY DataIsFinite
  <2>3. /\ IsFiniteSet(DataFor(q, i) \cup {n + k})
        /\ Cardinality(DataFor(q, i) \cup {n + k}) <= Cardinality(DataFor(q, i)) + 1
        /\ Cardinality(DataFor(q, i) \cup {n + k}) \in Nat
    <3>1. /\ IsFiniteSet(DataFor(q, i) \cup {n + k})
          /\ Cardinality(DataFor(q, i) \cup {n + k}) =
                IF n + k \in DataFor(q, i) THEN Cardinality(DataFor(q, i))
                ELSE Cardinality(DataFor(q, i)) + 1
      BY <2>2, FS_AddElement
    <3>2. Cardinality(DataFor(q, i) \cup {n + k}) \in Nat
      BY <3>1, FS_CardinalityType
    <3> QED BY <2>2, <3>1, <3>2
  <2>4. /\ Cardinality(DataFor(t, i)) <= Cardinality(DataFor(q, i) \cup {n + k})
        /\ IsFiniteSet(DataFor(t, i))
    BY <2>1, <2>3, FS_Subset
  <2>5. Cardinality(DataFor(t, i)) \in Nat
    BY <2>4, FS_CardinalityType
  <2> QED BY <2>2, <2>3, <2>4, <2>5
<1>5. DataFor(r, i) = {} => DataFor(t, i) = DataFor(q, i)
  BY <1>2, <1>3
<1> QED BY <1>4, <1>5 DEF t, m

LEMMA DataInTail ==
    ASSUME NEW q \in Seq(Reply), q # <<>>, NEW i
    PROVE  /\ Cardinality(DataFor(Tail(q), i)) <= Cardinality(DataFor(q, i))
           /\ q[1].id = i /\ q[1].kind = "data" =>
                 Cardinality(DataFor(Tail(q), i)) + 1 <= Cardinality(DataFor(q, i))
<1> DEFINE n == Len(q)
           t == Tail(q)
           shift == [j \in DataFor(t, i) |-> j + 1]
           rest == DataFor(q, i) \ {1}
<1>1. /\ n \in Nat \ {0} /\ DOMAIN t = 1 .. n - 1 /\ DOMAIN q = 1 .. n
      /\ \A j \in 1 .. n - 1 : j + 1 \in 1 .. n /\ t[j] = q[j + 1]
      /\ t \in Seq(Reply)
  BY TailSeq
<1>2. /\ IsFiniteSet(DataFor(q, i)) /\ Cardinality(DataFor(q, i)) \in Nat
      /\ IsFiniteSet(DataFor(t, i)) /\ Cardinality(DataFor(t, i)) \in Nat
  BY <1>1, DataIsFinite
<1> HIDE DEF n, t
<1>3. DataFor(t, i) \subseteq Nat \ {0}
  BY <1>1 DEF DataFor
<1>4. \A j \in DataFor(t, i) : j + 1 \in rest
  <2> SUFFICES ASSUME NEW j \in DataFor(t, i) PROVE j + 1 \in rest
    OBVIOUS
  <2>1. j \in 1 .. n - 1 /\ t[j].id = i /\ t[j].kind = "data"
    BY <1>1 DEF DataFor
  <2>2. j + 1 \in 1 .. n /\ q[j + 1].id = i /\ q[j + 1].kind = "data"
    BY <1>1, <2>1
  <2>3. j + 1 # 1
    BY <2>1
  <2> QED BY <1>1, <2>2, <2>3 DEF DataFor
<1>5. shift \in Injection(DataFor(t, i), rest)
  <2>1. shift \in [DataFor(t, i) -> rest]
    BY <1>4
  <2>2. \A a, b \in DataFor(t, i) : a + 1 = b + 1 => a = b
    BY <1>3
  <2> QED BY <2>1, <2>2 DEF Injection, IsInjective
<1>6. /\ IsFiniteSet(rest)
      /\ Cardinality(rest) = IF 1 \in DataFor(q, i) THEN Cardinality(DataFor(q, i)) - 1
                             ELSE Cardinality(DataFor(q, i))
  BY <1>2, FS_RemoveElement
<1> HIDE DEF shift, rest
<1>7. Cardinality(DataFor(t, i)) <= Cardinality(rest)
  BY <1>5, <1>6, FS_Injection
<1>8. q[1].id = i /\ q[1].kind = "data" => 1 \in DataFor(q, i)
  BY <1>1 DEF DataFor
<1> QED BY <1>2, <1>6, <1>7, <1>8 DEF t

LEMMA SessionInitially == Session!Init => SessionIInv
<1> SUFFICES ASSUME Session!Init PROVE SessionIInv
  OBVIOUS
<1> USE SessionBounds DEF Session!Init, Session!Ids, CallIds
<1>1. SessionTypes
  <2>1. stream \in [CallIds -> Consumer]
    BY DEF Session!NoStream, Consumer
  <2>2. toServer \in Seq(Request) /\ toClient \in Seq(Reply)
    BY EmptySeq
  <2>3. nextId \in 1 .. MaxRequests + 1 /\ events \in 0 .. MaxEvents
    OBVIOUS
  <2>4. /\ call \in [CallIds -> {"none", "pending", "ok", "error", "closed"}]
        /\ answers \in [CallIds -> 0 .. 2]
    OBVIOUS
  <2> QED BY <2>1, <2>2, <2>3, <2>4 DEF SessionTypes
<1>2. DOMAIN toServer = {} /\ DOMAIN toClient = {}
  OBVIOUS
<1>3. OnePlace /\ Listeners
  BY <1>2 DEF OnePlace, Listeners
<1>4. NoEventTwice
  <2> SUFFICES ASSUME NEW i \in CallIds
               PROVE  stream[i].buf + Cardinality(DataFor(toClient, i)) <= events
    BY DEF NoEventTwice
  <2>1. DataFor(toClient, i) = {}
    BY <1>2 DEF DataFor
  <2>2. Cardinality(DataFor(toClient, i)) = 0
    BY <2>1, FS_EmptySet
  <2> QED BY <2>2 DEF Session!NoStream
<1> QED BY <1>1, <1>3, <1>4 DEF SessionIInv
LEMMA NoEventKept ==
    ASSUME NoEventTwice, events' = events, toClient' = toClient,
           \A i \in CallIds : stream'[i].buf = stream[i].buf
    PROVE  NoEventTwice'
BY DEF NoEventTwice, DataFor

\* The id of a new request is in no place yet.
LEMMA RequestWritten ==
    ASSUME SessionIInv, nextId \in CallIds, nextId' = nextId + 1,
           NEW x \in Request, x.id = nextId, Session!Write(x),
           UNCHANGED <<busy, answers>>
    PROVE  OnePlace' /\ toServer' \in Seq(Request) /\ nextId' \in 1 .. MaxRequests + 1
<1> USE SessionBounds DEF SessionIInv, SessionTypes
<1>0. /\ nextId \in Nat /\ nextId' \in Nat /\ nextId' \in 1 .. MaxRequests + 1
      /\ nextId < nextId'
  BY DEF CallIds
<1>1. \A r \in busy : r.id \in Nat /\ r.id < nextId' /\ r.id # nextId
  <2> SUFFICES ASSUME NEW r \in busy
               PROVE  r.id \in Nat /\ r.id < nextId' /\ r.id # nextId
    OBVIOUS
  <2>1. r.id \in Nat /\ r.id < nextId
    BY DEF Request, OnePlace
  <2> QED BY <1>0, <2>1
<1>2. /\ DOMAIN toServer = 1 .. Len(toServer) /\ Len(toServer) \in Nat
      /\ \A n \in DOMAIN toServer : toServer[n].id \in CallIds
  <2>1. DOMAIN toServer = 1 .. Len(toServer) /\ Len(toServer) \in Nat
    BY LenProperties
  <2>2. \A n \in DOMAIN toServer : toServer[n] \in Request
    BY <2>1, ElementOfSeq
  <2> QED BY <2>1, <2>2 DEF Request
<1>3. \A n \in DOMAIN toServer : toServer[n].id < nextId' /\ toServer[n].id # nextId
  <2> SUFFICES ASSUME NEW n \in DOMAIN toServer
               PROVE  toServer[n].id < nextId' /\ toServer[n].id # nextId
    OBVIOUS
  <2>1. toServer[n].id \in Nat /\ toServer[n].id < nextId
    BY <1>2 DEF OnePlace
  <2> QED BY <1>0, <2>1
<1>4. \A i \in CallIds : answers[i] # 0 => i < nextId' /\ i # nextId
  <2> SUFFICES ASSUME NEW i \in CallIds, answers[i] # 0
               PROVE  i < nextId' /\ i # nextId
    OBVIOUS
  <2>1. i \in Nat /\ i < nextId
    BY DEF OnePlace
  <2> QED BY <1>0, <2>1
<1>5. CASE toServer' = toServer
  BY <1>0, <1>1, <1>3, <1>4, <1>5 DEF OnePlace
<1>6. CASE toServer' = Append(toServer, x)
  <2> DEFINE n == Len(toServer)
  <2>1. /\ toServer' \in Seq(Request) /\ DOMAIN toServer' = 1 .. n + 1
        /\ \A k \in 1 .. n : toServer'[k] = toServer[k]
        /\ toServer'[n + 1] = x
    BY <1>6, AppendedSeq
  <2>2. \A k \in 1 .. n + 1 : k \in 1 .. n \/ k = n + 1
    BY <1>2
  <2> HIDE DEF n
  <2>3. ASSUME NEW k \in DOMAIN toServer'
        PROVE  \/ k \in DOMAIN toServer /\ toServer'[k] = toServer[k]
               \/ k = n + 1 /\ toServer'[k].id = nextId
    BY <1>2, <2>1, <2>2 DEF n
  <2>4. \A k \in DOMAIN toServer' : toServer'[k].id < nextId'
    BY <1>0, <1>3, <2>3
  <2>5. \A k, l \in DOMAIN toServer' : toServer'[k].id = toServer'[l].id => k = l
    BY <1>3, <2>3 DEF OnePlace
  <2>6. \A k \in DOMAIN toServer' : \A r \in busy : toServer'[k].id # r.id
    BY <1>1, <2>3 DEF OnePlace
  <2>7. \A i \in CallIds : answers[i] # 0 => \A k \in DOMAIN toServer' : toServer'[k].id # i
    BY <1>4, <2>3 DEF OnePlace
  <2> QED BY <1>0, <1>1, <1>4, <2>1, <2>4, <2>5, <2>6, <2>7 DEF OnePlace
<1> QED BY <1>5, <1>6 DEF Session!Write

\* A consumer's record, changed in one field.
LEMMA ConsumerSet ==
    ASSUME NEW c \in Consumer
    PROVE  /\ \A x \in {"none", "live", "ended", "failed", "cancelled"} :
                 /\ [c EXCEPT !.st = x] \in Consumer
                 /\ [c EXCEPT !.st = x].buf = c.buf
           /\ \A x \in 0 .. MaxEvents :
                 /\ [c EXCEPT !.buf = x] \in Consumer
                 /\ [c EXCEPT !.buf = x].buf = x
           /\ \A x \in BOOLEAN :
                 /\ [c EXCEPT !.waiting = x] \in Consumer
                 /\ [c EXCEPT !.waiting = x].buf = c.buf
           /\ \A x \in 0 .. MaxRequests :
                 /\ [c EXCEPT !.by = x] \in Consumer
                 /\ [c EXCEPT !.by = x].buf = c.buf
           /\ c.buf \in Nat /\ c.buf \in 0 .. MaxEvents
<1> USE SessionBounds
<1>1. \A x \in {"none", "live", "ended", "failed", "cancelled"} :
         [c EXCEPT !.st = x] \in Consumer /\ [c EXCEPT !.st = x].buf = c.buf
  BY DEF Consumer
<1>2. \A x \in 0 .. MaxEvents :
         [c EXCEPT !.buf = x] \in Consumer /\ [c EXCEPT !.buf = x].buf = x
  BY DEF Consumer
<1>3. \A x \in BOOLEAN :
         [c EXCEPT !.waiting = x] \in Consumer /\ [c EXCEPT !.waiting = x].buf = c.buf
  BY DEF Consumer
<1>4. \A x \in 0 .. MaxRequests :
         [c EXCEPT !.by = x] \in Consumer /\ [c EXCEPT !.by = x].buf = c.buf
  BY DEF Consumer
<1>5. c.buf \in Nat /\ c.buf \in 0 .. MaxEvents
  BY DEF Consumer
<1> QED BY <1>1, <1>2, <1>3, <1>4, <1>5

\* One consumer has moved.
LEMMA StreamSet ==
    ASSUME stream \in [CallIds -> Consumer], NEW i \in CallIds, NEW c \in Consumer,
           stream' = [stream EXCEPT ![i] = c]
    PROVE  /\ stream' \in [CallIds -> Consumer] /\ stream'[i] = c
           /\ \A j \in CallIds : j # i => stream'[j] = stream[j]
OBVIOUS

LEMMA SessionCall ==
    ASSUME SessionIInv, NEW m \in Methods, NEW valid \in BOOLEAN, Session!Call(m, valid)
    PROVE  SessionIInv'
<1> USE SessionBounds DEF SessionIInv, Session!Call, Session!Ids
<1> DEFINE x == [id |-> nextId, m |-> m, valid |-> valid, target |-> 0]
<1>1. nextId \in CallIds /\ x \in Request /\ x.id = nextId
  BY DEF CallIds, Request
<1>2. Session!Write(x) /\ UNCHANGED <<busy, answers>> /\ nextId' = nextId + 1
  OBVIOUS
<1> HIDE DEF x
<1>3. OnePlace' /\ toServer' \in Seq(Request) /\ nextId' \in 1 .. MaxRequests + 1
  BY <1>1, <1>2, RequestWritten
<1>4. SessionTypes'
  BY <1>1, <1>3 DEF SessionTypes
<1>5. Listeners'
  BY DEF Listeners
<1>6. NoEventTwice'
  BY NoEventKept
<1> QED BY <1>3, <1>4, <1>5, <1>6

LEMMA SessionTail == ASSUME SessionIInv, Session!OpenTail PROVE SessionIInv'
<1> USE SessionBounds DEF SessionIInv, Session!OpenTail, Session!Ids
<1> DEFINE x == [id |-> nextId, m |-> "tail", valid |-> TRUE, target |-> 0]
<1>1. nextId \in CallIds /\ x \in Request /\ x.id = nextId
  BY DEF CallIds, Request
<1>2. Session!Write(x) /\ UNCHANGED <<busy, answers>> /\ nextId' = nextId + 1
  OBVIOUS
<1> HIDE DEF x
<1>3. OnePlace' /\ toServer' \in Seq(Request) /\ nextId' \in 1 .. MaxRequests + 1
  BY <1>1, <1>2, RequestWritten
<1>4. stream' \in [CallIds -> Consumer] /\ \A i \in CallIds : stream'[i].buf = stream[i].buf
  <2> DEFINE c == [stream[nextId] EXCEPT !.st = "live"]
  <2>1. c \in Consumer /\ c.buf = stream[nextId].buf
    BY <1>1, ConsumerSet DEF SessionTypes
  <2>2. stream' = [stream EXCEPT ![nextId] = c]
    OBVIOUS
  <2> HIDE DEF c
  <2> QED BY <1>1, <2>1, <2>2, StreamSet DEF SessionTypes
<1>5. SessionTypes'
  BY <1>3, <1>4 DEF SessionTypes
<1>6. Listeners'
  BY DEF Listeners
<1>7. NoEventTwice'
  BY <1>4, NoEventKept
<1> QED BY <1>3, <1>5, <1>6, <1>7

LEMMA SessionCancel ==
    ASSUME SessionIInv, NEW i \in CallIds, Session!Cancel(i) PROVE SessionIInv'
<1> USE SessionBounds DEF SessionIInv, Session!Cancel, Session!Ids
<1> DEFINE x == [id |-> nextId, m |-> "tail.cancel", valid |-> TRUE, target |-> i]
<1>1. nextId \in CallIds /\ x \in Request /\ x.id = nextId
  BY DEF CallIds, Request
<1>2. Session!Write(x) /\ UNCHANGED <<busy, answers>> /\ nextId' = nextId + 1
  OBVIOUS
<1> HIDE DEF x
<1>3. OnePlace' /\ toServer' \in Seq(Request) /\ nextId' \in 1 .. MaxRequests + 1
  BY <1>1, <1>2, RequestWritten
<1>4. stream' \in [CallIds -> Consumer] /\ \A j \in CallIds : stream'[j].buf = stream[j].buf
  <2> DEFINE b == [stream[i] EXCEPT !.st = "cancelled"]
             c == [b EXCEPT !.by = nextId]
  <2>1. b \in Consumer /\ b.buf = stream[i].buf
    BY ConsumerSet DEF SessionTypes
  <2>2. nextId \in 0 .. MaxRequests
    BY <1>1 DEF CallIds
  <2>3. c \in Consumer /\ c.buf = b.buf
    <3> HIDE DEF b
    <3> QED BY <2>1, <2>2, ConsumerSet
  <2>4. stream' = [stream EXCEPT ![i] = c]
    BY DEF SessionTypes
  <2> HIDE DEF b, c
  <2> QED BY <2>1, <2>3, <2>4, StreamSet DEF SessionTypes
<1>5. call' \in [CallIds -> {"none", "pending", "ok", "error", "closed"}]
  BY <1>1 DEF SessionTypes
<1>6. SessionTypes'
  BY <1>3, <1>4, <1>5 DEF SessionTypes
<1>7. Listeners'
  BY DEF Listeners
<1>8. NoEventTwice'
  BY <1>4, NoEventKept
<1> QED BY <1>3, <1>6, <1>7, <1>8

\* A consumer takes a buffered event, or waits.
LEMMA SessionTake ==
    ASSUME SessionIInv, NEW i \in CallIds, Session!Take(i) PROVE SessionIInv'
<1> USE SessionBounds DEF SessionIInv, Session!Take
<1>1. UNCHANGED <<up, sawClose, nextId, call, toServer, toClient, subs, listening, busy,
                  events, answers>>
  OBVIOUS
<1>2. stream' \in [CallIds -> Consumer]
      /\ \A j \in CallIds : stream'[j].buf <= stream[j].buf
  <2>1. \A j \in CallIds : stream[j] \in Consumer /\ stream[j].buf \in Nat
    BY ConsumerSet DEF SessionTypes
  <2>2. CASE stream' = [stream EXCEPT ![i].waiting = TRUE]
    <3> DEFINE c == [stream[i] EXCEPT !.waiting = TRUE]
    <3>1. c \in Consumer /\ c.buf = stream[i].buf
      BY <2>1, ConsumerSet
    <3>2. stream' = [stream EXCEPT ![i] = c]
      BY <2>2
    <3> HIDE DEF c
    <3> QED BY <2>1, <3>1, <3>2, StreamSet DEF SessionTypes
  <2>3. CASE stream[i].buf > 0 /\ stream' = [stream EXCEPT ![i].buf = @ - 1]
    <3> DEFINE x == stream[i].buf - 1
               c == [stream[i] EXCEPT !.buf = x]
    <3>1. stream[i].buf \in 0 .. MaxEvents
      BY <2>1, ConsumerSet
    <3>2. x \in 0 .. MaxEvents /\ x <= stream[i].buf
      BY <2>3, <3>1
    <3>3. stream' = [stream EXCEPT ![i] = c]
      BY <2>3
    <3> HIDE DEF x
    <3>4. c \in Consumer /\ c.buf = x
      BY <2>1, <3>2, ConsumerSet
    <3> HIDE DEF c
    <3> QED BY <2>1, <3>2, <3>3, <3>4, StreamSet DEF SessionTypes
  <2> QED BY <2>2, <2>3
<1>3. NoEventTwice'
  <2> SUFFICES ASSUME NEW j \in CallIds
               PROVE  stream'[j].buf + Cardinality(DataFor(toClient, j)) <= events
    BY <1>1 DEF NoEventTwice, DataFor
  <2>1. /\ stream[j].buf \in Nat /\ stream'[j].buf \in Nat /\ events \in Nat
        /\ stream'[j].buf <= stream[j].buf
    BY <1>2 DEF SessionTypes, Consumer
  <2>2. Cardinality(DataFor(toClient, j)) \in Nat
    BY DataIsFinite DEF SessionTypes
  <2> QED BY <2>1, <2>2 DEF NoEventTwice
<1>4. SessionTypes'
  BY <1>1, <1>2 DEF SessionTypes
<1>5. OnePlace' /\ Listeners'
  BY <1>1 DEF OnePlace, Listeners
<1> QED BY <1>3, <1>4, <1>5

LEMMA SessionCancelReturns ==
    ASSUME SessionIInv, NEW i \in CallIds, Session!CancelReturns(i) PROVE SessionIInv'
<1> USE SessionBounds DEF SessionIInv, Session!CancelReturns
<1>1. stream' \in [CallIds -> Consumer] /\ \A j \in CallIds : stream'[j].buf = stream[j].buf
  BY DEF SessionTypes, Consumer
<1>2. SessionTypes' /\ OnePlace' /\ Listeners'
  BY <1>1 DEF SessionTypes, OnePlace, Listeners
<1> QED BY <1>1, <1>2, NoEventKept
\* A frame is taken from the client's end of the stream.
LEMMA SessionReceive == ASSUME SessionIInv, Session!Receive PROVE SessionIInv'
<1> USE SessionBounds DEF SessionIInv
<1> DEFINE f == Head(toClient)
           i == f.id
<1>1. /\ toClient # <<>> /\ toClient' = Tail(toClient)
      /\ UNCHANGED <<up, sawClose, nextId, toServer, subs, listening, busy, events, answers>>
  BY DEF Session!Receive
<1>2. /\ toClient \in Seq(Reply) /\ f = toClient[1] /\ f \in Reply /\ toClient' \in Seq(Reply)
      /\ i \in CallIds /\ f.kind \in {"ok", "error", "data", "end"}
  <2>1. toClient \in Seq(Reply)
    BY DEF SessionTypes
  <2>2. f = toClient[1] /\ toClient[1] \in Reply /\ Tail(toClient) \in Seq(Reply)
    BY <1>1, <2>1, TailSeq
  <2>3. f.id \in CallIds /\ f.kind \in {"ok", "error", "data", "end"}
    BY <2>2 DEF Reply
  <2> QED BY <1>1, <2>1, <2>2, <2>3
<1>3. /\ \A j \in CallIds : Cardinality(DataFor(toClient', j)) \in Nat
      /\ \A j \in CallIds : Cardinality(DataFor(toClient, j)) \in Nat
      /\ \A j \in CallIds : Cardinality(DataFor(toClient', j)) <= Cardinality(DataFor(toClient, j))
      /\ f.kind = "data" =>
            Cardinality(DataFor(toClient', i)) + 1 <= Cardinality(DataFor(toClient, i))
  BY <1>1, <1>2, DataIsFinite, DataInTail
<1>4. /\ events \in Nat /\ events <= MaxEvents
      /\ \A j \in CallIds : /\ stream[j] \in Consumer /\ stream[j].buf \in Nat
                            /\ stream[j].buf + Cardinality(DataFor(toClient, j)) <= events
  <2>1. events \in Nat /\ events <= MaxEvents
    BY DEF SessionTypes
  <2>2. ASSUME NEW j \in CallIds
        PROVE  /\ stream[j] \in Consumer /\ stream[j].buf \in Nat
               /\ stream[j].buf + Cardinality(DataFor(toClient, j)) <= events
    <3>1. stream[j] \in Consumer
      BY DEF SessionTypes
    <3> QED BY <3>1, ConsumerSet DEF NoEventTwice
  <2> QED BY <2>1, <2>2
<1> HIDE DEF i, f
<1>5. ASSUME NEW c \in Consumer, stream' = [stream EXCEPT ![i] = c],
             \/ c.buf = stream[i].buf
             \/ f.kind = "data" /\ c.buf = stream[i].buf + 1
      PROVE  stream' \in [CallIds -> Consumer] /\ NoEventTwice'
  <2>1. /\ stream' \in [CallIds -> Consumer] /\ stream'[i] = c
        /\ \A j \in CallIds : j # i => stream'[j] = stream[j]
    BY <1>2, <1>5, StreamSet DEF SessionTypes
  <2>2. ASSUME NEW j \in CallIds
        PROVE  stream'[j].buf + Cardinality(DataFor(toClient', j)) <= events
    <3>1. CASE j # i
      BY <1>3, <1>4, <2>1, <3>1
    <3>2. CASE j = i /\ c.buf = stream[i].buf
      BY <1>3, <1>4, <2>1, <3>2
    <3>3. CASE j = i /\ f.kind = "data" /\ c.buf = stream[i].buf + 1
      BY <1>3, <1>4, <2>1, <3>3
    <3> QED BY <1>5, <3>1, <3>2, <3>3
  <2> QED BY <1>1, <2>1, <2>2 DEF NoEventTwice
<1>6. ASSUME stream' = stream PROVE stream' \in [CallIds -> Consumer] /\ NoEventTwice'
  <2>1. stream' = [stream EXCEPT ![i] = stream[i]] /\ stream[i] \in Consumer
    BY <1>2, <1>4, <1>6 DEF SessionTypes
  <2> QED BY <1>5, <2>1
<1>7. stream' \in [CallIds -> Consumer] /\ NoEventTwice'
  <2>1. CASE f.kind \notin {"data", "end"}
    BY <1>6, <2>1 DEF Session!Receive, f
  <2>2. CASE f.kind \in {"data", "end"}
    <3>0. stream' = Session!Streamed(f)
      BY <2>2 DEF Session!Receive, f
    <3>1. CASE stream[i].st = "cancelled" \/ stream[i].st = "none"
      BY <1>6, <3>0, <3>1 DEF Session!Streamed, i
    <3>2. CASE /\ stream[i].st \notin {"cancelled", "none"} /\ f.kind = "data"
      <4> DEFINE w == [stream[i] EXCEPT !.waiting = FALSE]
                 n == IF stream[i].waiting THEN stream[i].buf ELSE stream[i].buf + 1
                 c == [w EXCEPT !.buf = n]
      <4>1. stream[i].buf + 1 <= MaxEvents
        BY <1>2, <1>3, <1>4, <3>2
      <4>2. n \in 0 .. MaxEvents /\ (n = stream[i].buf \/ n = stream[i].buf + 1)
        BY <1>2, <1>4, <4>1
      <4>3. w \in Consumer
        BY <1>2, <1>4, ConsumerSet
      <4>4. stream' = [stream EXCEPT ![i] = c]
        BY <1>2, <1>4, <3>0, <3>2 DEF Session!Streamed, i
      <4> HIDE DEF w, n
      <4>5. c \in Consumer /\ c.buf = n
        BY <4>2, <4>3, ConsumerSet
      <4> HIDE DEF c
      <4> QED BY <1>5, <3>2, <4>2, <4>4, <4>5
    <3>3. CASE /\ stream[i].st \notin {"cancelled", "none"} /\ f.kind = "end"
      <4> DEFINE w == [stream[i] EXCEPT !.st = "ended"]
                 c == [w EXCEPT !.waiting = FALSE]
      <4>1. w \in Consumer /\ w.buf = stream[i].buf
        BY <1>2, <1>4, ConsumerSet
      <4>2. stream' = [stream EXCEPT ![i] = c]
        BY <1>2, <1>4, <3>0, <3>3 DEF Session!Streamed, i
      <4> HIDE DEF w
      <4>3. c \in Consumer /\ c.buf = w.buf
        BY <4>1, ConsumerSet
      <4> HIDE DEF c
      <4> QED BY <1>5, <4>1, <4>2, <4>3
    <3> QED BY <2>2, <3>1, <3>2, <3>3
  <2> QED BY <2>1, <2>2
<1>8. call' \in [CallIds -> {"none", "pending", "ok", "error", "closed"}]
  <2>1. CASE f.kind \in {"data", "end"}
    BY <2>1 DEF Session!Receive, SessionTypes, f
  <2>2. CASE f.kind \notin {"data", "end"}
    <3>1. call' = [call EXCEPT ![i] = IF @ = "pending" THEN f.kind ELSE @]
      BY <2>2 DEF Session!Receive, f, i
    <3>2. f.kind \in {"ok", "error"}
      BY <1>2, <2>2
    <3> QED BY <1>2, <3>1, <3>2 DEF SessionTypes
  <2> QED BY <2>1, <2>2
<1>9. SessionTypes' /\ OnePlace' /\ Listeners'
  BY <1>1, <1>2, <1>7, <1>8 DEF SessionTypes, OnePlace, Listeners
<1> QED BY <1>7, <1>9

LEMMA SessionSeeClose == ASSUME SessionIInv, Session!SeeClose PROVE SessionIInv'
<1> USE SessionBounds DEF SessionIInv, Session!SeeClose
<1>1. /\ stream' \in [CallIds -> Consumer]
      /\ \A i \in CallIds : stream'[i].buf = stream[i].buf
  <2> DEFINE told(i) == IF stream[i].st \in {"live", "ended"}
                        THEN [stream[i] EXCEPT !.st = "failed", !.waiting = FALSE]
                        ELSE stream[i]
  <2>1. stream' = [i \in CallIds |-> told(i)]
    BY DEF Session!Ids, CallIds
  <2>2. ASSUME NEW i \in CallIds PROVE told(i) \in Consumer /\ told(i).buf = stream[i].buf
    <3>1. stream[i] \in Consumer
      BY DEF SessionTypes
    <3> DEFINE w == [stream[i] EXCEPT !.st = "failed"]
               c == [w EXCEPT !.waiting = FALSE]
    <3>2. w \in Consumer /\ w.buf = stream[i].buf
      BY <3>1, ConsumerSet
    <3>3. told(i) = c \/ told(i) = stream[i]
      BY <3>1
    <3> HIDE DEF w, told
    <3>4. c \in Consumer /\ c.buf = w.buf
      BY <3>2, ConsumerSet
    <3> HIDE DEF c
    <3> QED BY <3>1, <3>2, <3>3, <3>4
  <2> HIDE DEF told
  <2> QED BY <2>1, <2>2
<1>2. call' \in [CallIds -> {"none", "pending", "ok", "error", "closed"}]
  BY DEF SessionTypes, Session!Ids, CallIds
<1>3. toClient' = <<>> /\ toClient' \in Seq(Reply)
  BY EmptySeq
<1>4. SessionTypes' /\ OnePlace' /\ Listeners'
  BY <1>1, <1>2, <1>3 DEF SessionTypes, OnePlace, Listeners
<1> HIDE DEF Session!SeeClose
<1>5. NoEventTwice'
  <2> SUFFICES ASSUME NEW i \in CallIds
               PROVE  stream'[i].buf + Cardinality(DataFor(toClient', i)) <= events
    BY DEF NoEventTwice, Session!SeeClose
  <2>1. DataFor(toClient', i) = {}
    <3>1. toClient' = <<>>
      BY <1>3
    <3>2. DOMAIN <<>> = {}
      OBVIOUS
    <3> QED BY <3>1, <3>2 DEF DataFor
  <2>2. Cardinality(DataFor(toClient', i)) = 0
    BY <2>1, FS_EmptySet
  <2>3. /\ stream[i].buf + Cardinality(DataFor(toClient, i)) <= events
        /\ stream[i].buf \in Nat /\ Cardinality(DataFor(toClient, i)) \in Nat /\ events \in Nat
    <3>1. stream[i] \in Consumer /\ toClient \in Seq(Reply)
      BY DEF SessionTypes
    <3>2. events \in Nat
      BY DEF SessionTypes
    <3> QED BY <3>1, <3>2, DataIsFinite, ConsumerSet DEF NoEventTwice
  <2>4. stream'[i].buf = stream[i].buf
    BY <1>1
  <2> QED BY <2>2, <2>3, <2>4
<1> QED BY <1>4, <1>5

\* Frames that carry no event of the bus leave every tail's count alone.
LEMMA AnswersCarryNoEvent ==
    ASSUME SessionIInv, NEW r \in Seq(Reply), Session!Send(r),
           \A n \in DOMAIN r : r[n].kind # "data",
           events' = events, stream' = stream
    PROVE  NoEventTwice' /\ toClient' \in Seq(Reply)
<1> USE DEF SessionIInv, SessionTypes
<1>1. \A i : DataFor(r, i) = {}
  BY DEF DataFor
<1>2. toClient' = toClient \/ toClient' = toClient \o r
  BY DEF Session!Send
<1>3. \A i : DataFor(toClient', i) = DataFor(toClient, i)
  <2> SUFFICES ASSUME NEW i PROVE DataFor(toClient', i) = DataFor(toClient, i)
    OBVIOUS
  <2>1. toClient \in Seq(Reply) /\ DataFor(r, i) = {}
    BY <1>1
  <2>2. DataFor(toClient \o r, i) = DataFor(toClient, i)
    BY <2>1, DataInConcat
  <2> QED BY <1>2, <2>2
<1>4. toClient' \in Seq(Reply)
  BY <1>2, ConcatProperties
<1> QED BY <1>3, <1>4 DEF NoEventTwice

\* What was in one place is now answered.
LEMMA SessionReturn ==
    ASSUME SessionIInv, NEW x \in busy, NEW kind \in {"ok", "error"},
           Session!Return(x, kind)
    PROVE  SessionIInv'
<1> USE SessionBounds DEF SessionIInv
<1>1. /\ busy' = busy \ {x} /\ answers' = [answers EXCEPT ![x.id] = @ + 1]
      /\ Session!Send(<<[id |-> x.id, kind |-> kind]>>)
      /\ UNCHANGED <<up, sawClose, nextId, call, stream, toServer, subs, listening, events>>
  BY DEF Session!Return, Session!Answer
<1>2. x.id \in CallIds /\ x \in Request
  BY DEF SessionTypes, Request
<1>3. answers[x.id] = 0
  BY <1>2 DEF OnePlace
<1>4. /\ answers' \in [CallIds -> 0 .. 2] /\ answers'[x.id] = 1
      /\ \A j \in CallIds : j # x.id => answers'[j] = answers[j]
  BY <1>1, <1>2, <1>3 DEF SessionTypes
<1>5. NoEventTwice' /\ toClient' \in Seq(Reply)
  <2> DEFINE r == <<[id |-> x.id, kind |-> kind]>>
  <2>1. r \in Seq(Reply)
    BY <1>2 DEF Reply
  <2>2. \A n \in DOMAIN r : r[n].kind # "data"
    OBVIOUS
  <2> HIDE DEF r
  <2> QED BY <1>1, <2>1, <2>2, AnswersCarryNoEvent DEF r
<1>6. SessionTypes' /\ Listeners'
  BY <1>1, <1>4, <1>5 DEF SessionTypes, Listeners
<1>7. OnePlace'
  <2>1. x.id < nextId /\ (\A n \in DOMAIN toServer : toServer[n].id # x.id)
    BY DEF OnePlace
  <2>2. \A q \in busy' : q \in busy /\ q.id # x.id
    BY <1>1 DEF OnePlace
  <2>3. ASSUME NEW j \in CallIds, answers'[j] # 0
        PROVE  /\ answers'[j] = 1 /\ j < nextId
               /\ \A n \in DOMAIN toServer : toServer[n].id # j
               /\ \A q \in busy' : q.id # j
    <3>1. CASE j = x.id
      BY <1>4, <2>1, <2>2, <3>1
    <3>2. CASE j # x.id
      BY <1>4, <2>2, <2>3, <3>2 DEF OnePlace
    <3> QED BY <3>1, <3>2
  <2> QED BY <1>1, <2>2, <2>3 DEF OnePlace
<1> QED BY <1>5, <1>6, <1>7

LEMMA SessionDisconnect == ASSUME SessionIInv, Session!Disconnect PROVE SessionIInv'
<1> USE DEF SessionIInv, Session!Disconnect
<1>1. toServer' = <<>> /\ toServer' \in Seq(Request) /\ DOMAIN toServer' = {}
  BY EmptySeq
<1>2. SessionTypes'
  BY <1>1 DEF SessionTypes
<1>3. OnePlace' /\ Listeners'
  BY <1>1 DEF OnePlace, Listeners
<1> QED BY <1>2, <1>3, NoEventKept
\* The request the server takes leaves its place, for a handler or an answer.
LEMMA RequestTaken ==
    ASSUME SessionIInv, toServer # <<>>, toServer' = Tail(toServer), nextId' = nextId
    PROVE  LET x == Head(toServer) IN
           /\ x \in Request /\ x.id \in CallIds /\ answers[x.id] = 0
           /\ toServer' \in Seq(Request)
           /\ busy' = busy /\ answers' = answers => OnePlace'
           /\ busy' = busy \cup {x} /\ answers' = answers => OnePlace'
           /\ busy' = busy /\ answers' = [answers EXCEPT ![x.id] = @ + 1] =>
                 OnePlace' /\ answers' \in [CallIds -> 0 .. 2]
<1> USE DEF SessionIInv
<1> DEFINE x == Head(toServer)
           l == Len(toServer)
<1>1. toServer \in Seq(Request) /\ answers \in [CallIds -> 0 .. 2]
  BY DEF SessionTypes
<1>2. /\ x = toServer[1] /\ x \in Request /\ l \in Nat \ {0}
      /\ toServer' \in Seq(Request)
      /\ DOMAIN toServer' = 1 .. l - 1 /\ DOMAIN toServer = 1 .. l
      /\ \A n \in 1 .. l - 1 : n + 1 \in 1 .. l /\ toServer'[n] = toServer[n + 1]
  BY <1>1, TailSeq
<1>3. x.id \in CallIds
  BY <1>2 DEF Request
<1> HIDE DEF x, l
<1>4. 1 \in 1 .. l /\ \A n \in 1 .. l - 1 : n + 1 # 1
  BY <1>2
<1>5. x.id < nextId /\ (\A r \in busy : r.id # x.id) /\ answers[x.id] = 0
  BY <1>2, <1>3, <1>4 DEF OnePlace
<1>6. \A n \in DOMAIN toServer' :
         /\ toServer'[n].id # x.id /\ toServer'[n].id < nextId
         /\ \A r \in busy : toServer'[n].id # r.id
  BY <1>2, <1>4 DEF OnePlace
<1>7. \A n, k \in DOMAIN toServer' : toServer'[n].id = toServer'[k].id => n = k
  <2> SUFFICES ASSUME NEW n \in 1 .. l - 1, NEW k \in 1 .. l - 1,
                      toServer'[n].id = toServer'[k].id
               PROVE  n = k
    BY <1>2
  <2>1. n + 1 \in DOMAIN toServer /\ k + 1 \in DOMAIN toServer
    BY <1>2
  <2>2. toServer[n + 1].id = toServer[k + 1].id
    BY <1>2
  <2>3. n + 1 = k + 1
    BY <2>1, <2>2 DEF OnePlace
  <2> QED BY <2>3
<1>8. \A i \in CallIds : answers[i] # 0 =>
         answers[i] = 1 /\ i < nextId /\ i # x.id
         /\ (\A n \in DOMAIN toServer' : toServer'[n].id # i)
         /\ \A r \in busy : r.id # i
  BY <1>2, <1>5 DEF OnePlace
<1>9. ASSUME busy' = busy, answers' = answers PROVE OnePlace'
  BY <1>6, <1>7, <1>8, <1>9 DEF OnePlace
<1>10. ASSUME busy' = busy \cup {x}, answers' = answers PROVE OnePlace'
  <2>1. \A r \in busy' : r.id < nextId /\ \A n \in DOMAIN toServer' : toServer'[n].id # r.id
    BY <1>5, <1>6, <1>10 DEF OnePlace
  <2>2. \A r, q \in busy' : r.id = q.id => r = q
    BY <1>5, <1>10 DEF OnePlace
  <2>3. \A i \in CallIds : answers[i] # 0 => \A r \in busy' : r.id # i
    BY <1>8, <1>10
  <2> QED BY <1>6, <1>7, <1>8, <1>10, <2>1, <2>2, <2>3 DEF OnePlace
<1>11. ASSUME busy' = busy, answers' = [answers EXCEPT ![x.id] = @ + 1]
       PROVE  OnePlace' /\ answers' \in [CallIds -> 0 .. 2]
  <2>1. /\ answers' \in [CallIds -> 0 .. 2] /\ answers'[x.id] = 1
        /\ \A j \in CallIds : j # x.id => answers'[j] = answers[j]
    BY <1>1, <1>3, <1>5, <1>11
  <2>2. ASSUME NEW j \in CallIds, answers'[j] # 0
        PROVE  /\ answers'[j] = 1 /\ j < nextId
               /\ \A n \in DOMAIN toServer' : toServer'[n].id # j
               /\ \A r \in busy : r.id # j
    <3>1. CASE j = x.id
      BY <1>5, <1>6, <2>1, <3>1
    <3>2. CASE j # x.id
      BY <1>8, <2>1, <2>2, <3>2
    <3> QED BY <3>1, <3>2
  <2> QED BY <1>5, <1>6, <1>7, <1>11, <2>1, <2>2 DEF OnePlace
<1> QED BY <1>2, <1>3, <1>5, <1>9, <1>10, <1>11 DEF x

LEMMA QuietConcat ==
    ASSUME NEW a \in Seq(Reply), NEW b \in Seq(Reply),
           \A n \in DOMAIN a : a[n].kind # "data",
           \A n \in DOMAIN b : b[n].kind # "data"
    PROVE  a \o b \in Seq(Reply) /\ \A n \in DOMAIN (a \o b) : (a \o b)[n].kind # "data"
<1>1. a \o b \in Seq(Reply)
  BY ConcatSeq
<1>2. /\ DOMAIN (a \o b) = 1 .. Len(a) + Len(b)
      /\ DOMAIN a = 1 .. Len(a) /\ DOMAIN b = 1 .. Len(b)
      /\ \A i \in 1 .. Len(a) : (a \o b)[i] = a[i]
      /\ \A i \in 1 .. Len(b) : (a \o b)[Len(a) + i] = b[i]
      /\ \A i \in 1 .. Len(a) + Len(b) :
            i \in 1 .. Len(a) \/ \E j \in 1 .. Len(b) : i = Len(a) + j
  BY ConcatSeq
<1>3. ASSUME NEW n \in DOMAIN (a \o b) PROVE (a \o b)[n].kind # "data"
  <2>1. CASE n \in 1 .. Len(a)
    BY <1>2, <2>1
  <2>2. CASE n \notin 1 .. Len(a)
    <3>1. PICK j \in 1 .. Len(b) : n = Len(a) + j
      BY <1>2, <2>2
    <3> QED BY <1>2, <3>1
  <2> QED BY <2>1, <2>2
<1> QED BY <1>1, <1>3

LEMMA SessionDispatch == ASSUME SessionIInv, Session!Dispatch PROVE SessionIInv'
<1> USE SessionBounds DEF SessionIInv
<1> DEFINE x == Head(toServer)
<1>1. /\ up /\ toServer # <<>> /\ toServer' = SubSeq(toServer, 2, Len(toServer))
      /\ UNCHANGED <<up, sawClose, nextId, call, stream, events>>
  BY DEF Session!Dispatch
<1>2. toServer' = Tail(toServer)
  BY <1>1, TailIsSubSeq DEF SessionTypes
<1>3. /\ x \in Request /\ x.id \in CallIds /\ toServer' \in Seq(Request)
      /\ busy' = busy /\ answers' = answers => OnePlace'
      /\ busy' = busy \cup {x} /\ answers' = answers => OnePlace'
      /\ busy' = busy /\ answers' = [answers EXCEPT ![x.id] = @ + 1] =>
            OnePlace' /\ answers' \in [CallIds -> 0 .. 2]
  BY <1>1, <1>2, RequestTaken
<1>4. subs' \subseteq CallIds /\ listening' = subs'
  <2>1. x.id \in CallIds /\ listening = subs /\ subs \subseteq CallIds
    BY <1>3 DEF SessionTypes, Listeners
  <2> HIDE DEF SessionIInv
  <2> QED BY <2>1 DEF Session!Dispatch
<1>5. Listeners'
  BY <1>1, <1>4 DEF Listeners
<1>6. ASSUME OnePlace', NoEventTwice', toClient' \in Seq(Reply), busy' \subseteq Request,
             answers' \in [CallIds -> 0 .. 2]
      PROVE  SessionIInv'
  BY <1>1, <1>3, <1>4, <1>5, <1>6 DEF SessionTypes
<1>7. CASE /\ x.m = "tail" /\ UNCHANGED <<toClient, answers, busy>>
  <2>1. NoEventTwice'
    BY <1>1, <1>7, NoEventKept
  <2> QED BY <1>3, <1>6, <1>7, <2>1 DEF SessionTypes
<1>8. CASE /\ Session!Send((IF x.target \in subs
                              THEN <<[id |-> x.target, kind |-> "end"]>> ELSE <<>>)
                           \o <<[id |-> x.id, kind |-> "ok"]>>)
           /\ answers' = [answers EXCEPT ![x.id] = @ + 1] /\ busy' = busy
  <2> DEFINE a == IF x.target \in subs THEN <<[id |-> x.target, kind |-> "end"]>> ELSE <<>>
             b == <<[id |-> x.id, kind |-> "ok"]>>
             r == a \o b
  <2>1. b \in Seq(Reply) /\ \A n \in DOMAIN b : b[n].kind # "data"
    BY <1>3 DEF Reply
  <2>2. a \in Seq(Reply) /\ \A n \in DOMAIN a : a[n].kind # "data"
    <3>1. CASE x.target \in subs
      <4> DEFINE c == [id |-> x.target, kind |-> "end"]
      <4>1. a = <<c>> /\ c \in Reply /\ c.kind # "data"
        BY <3>1 DEF SessionTypes, Reply
      <4> HIDE DEF c, a
      <4> QED BY <4>1
    <3>2. CASE x.target \notin subs
      <4>1. a = <<>> /\ DOMAIN <<>> = {}
        BY <3>2
      <4> QED BY <4>1, EmptySeq
    <3> QED BY <3>1, <3>2
  <2> HIDE DEF a, b
  <2>4. r \in Seq(Reply) /\ \A n \in DOMAIN r : r[n].kind # "data"
    BY <2>1, <2>2, QuietConcat
  <2>5. Session!Send(r)
    BY <1>8 DEF a, b
  <2> HIDE DEF r
  <2>6. NoEventTwice' /\ toClient' \in Seq(Reply)
    BY <1>1, <2>4, <2>5, AnswersCarryNoEvent
  <2> QED BY <1>3, <1>6, <1>8, <2>6 DEF SessionTypes
<1>9. ASSUME NEW kind \in {"ok", "error"}, Session!Answer(x, kind), busy' = busy
      PROVE  SessionIInv'
  <2> DEFINE r == <<[id |-> x.id, kind |-> kind]>>
  <2>1. r \in Seq(Reply)
    BY <1>3 DEF Reply
  <2>2. \A n \in DOMAIN r : r[n].kind # "data"
    OBVIOUS
  <2>3. Session!Send(r) /\ answers' = [answers EXCEPT ![x.id] = @ + 1]
    BY <1>9 DEF Session!Answer
  <2> HIDE DEF r
  <2>4. NoEventTwice' /\ toClient' \in Seq(Reply)
    BY <1>1, <2>1, <2>2, <2>3, AnswersCarryNoEvent
  <2> QED BY <1>3, <1>6, <1>9, <2>3, <2>4 DEF SessionTypes
<1>10. CASE busy' = busy \cup {x} /\ UNCHANGED <<toClient, answers>>
  <2>1. NoEventTwice'
    BY <1>1, <1>10, NoEventKept
  <2> QED BY <1>3, <1>6, <1>10, <2>1 DEF SessionTypes
<1> QED BY <1>7, <1>8, <1>9, <1>10 DEF Session!Dispatch

\* The listeners of the connection, each once.
LEMMA ListenersInOrder ==
    ASSUME NEW S \in SUBSET CallIds
    PROVE  LET to == Session!SetToSeq(S) IN
           /\ to \in Seq(S) /\ Len(to) \in Nat
           /\ \A k, l \in 1 .. Len(to) : to[k] = to[l] => k = l
<1>1. IsFiniteSet(CallIds)
  BY SessionBounds, FS_Interval DEF CallIds
<1>2. IsFiniteSet(S)
  BY <1>1, FS_Subset
<1> DEFINE n == Cardinality(S)
           to == Session!SetToSeq(S)
<1>3. n \in Nat /\ ExistsBijection(1 .. n, S)
  BY <1>2, FS_CardinalityType
<1>4. Session!Cardinality(S) = n
  BY DEF Cardinality, Session!Cardinality
<1>5. PICK f \in [1 .. n -> S] : \A a, b \in DOMAIN f : f[a] = f[b] => a = b
  BY <1>3 DEF ExistsBijection, Bijection, Injection, IsInjective
<1>6. \E g \in [1 .. n -> S] : Session!IsInjective(g)
  BY <1>5 DEF Session!IsInjective
<1>7. to \in [1 .. n -> S] /\ Session!IsInjective(to)
  BY <1>4, <1>6 DEF Session!SetToSeq
<1> HIDE DEF n, to
<1>8. to \in Seq(S) /\ Len(to) = n
  BY <1>3, <1>7
<1> QED BY <1>3, <1>7, <1>8 DEF Session!IsInjective, to

LEMMA SessionPublish == ASSUME SessionIInv, Session!Publish PROVE SessionIInv'
<1> USE SessionBounds DEF SessionIInv
<1> DEFINE to == Session!SetToSeq(listening)
           r == [k \in 1 .. Len(to) |-> [id |-> to[k], kind |-> "data"]]
<1>1. /\ events < MaxEvents /\ events' = events + 1 /\ Session!Send(r)
      /\ UNCHANGED <<up, sawClose, nextId, call, stream, toServer, subs, listening, busy,
                     answers>>
  BY DEF Session!Publish
<1>2. listening \in SUBSET CallIds
  BY DEF SessionTypes
<1>3. /\ to \in Seq(listening) /\ Len(to) \in Nat
      /\ \A k, l \in 1 .. Len(to) : to[k] = to[l] => k = l
  BY <1>2, ListenersInOrder
<1> HIDE DEF to
<1>4. \A k \in 1 .. Len(to) : to[k] \in CallIds
  BY <1>2, <1>3, ElementOfSeq
<1>5. /\ r \in Seq(Reply) /\ Len(r) = Len(to) /\ DOMAIN r = 1 .. Len(to)
      /\ \A k \in 1 .. Len(to) : r[k].id = to[k]
  BY <1>3, <1>4 DEF Reply
<1> HIDE DEF r
<1>6. ASSUME NEW i \in CallIds
      PROVE  Cardinality(DataFor(toClient', i)) <= Cardinality(DataFor(toClient, i)) + 1
  <2>1. toClient \in Seq(Reply)
    BY DEF SessionTypes
  <2>2. Cardinality(DataFor(toClient, i)) \in Nat
    BY <2>1, DataIsFinite
  <2>3. CASE toClient' = toClient
    BY <2>2, <2>3
  <2>4. CASE toClient' = toClient \o r
    <3>1. CASE DataFor(r, i) = {}
      BY <1>5, <2>1, <2>2, <2>4, <3>1, DataInConcat
    <3>2. CASE DataFor(r, i) # {}
      <4>1. PICK k \in 1 .. Len(r) : k \in DataFor(r, i)
        BY <1>5, <3>2 DEF DataFor
      <4>2. DataFor(r, i) = {k}
        BY <1>3, <1>5, <4>1 DEF DataFor
      <4> QED BY <1>5, <2>1, <2>4, <4>2, DataInConcat
    <3> QED BY <3>1, <3>2
  <2> QED BY <1>1, <2>3, <2>4 DEF Session!Send
<1>7. events' \in 0 .. MaxEvents /\ events \in Nat
  BY <1>1 DEF SessionTypes
<1>8. toClient' \in Seq(Reply)
  BY <1>1, <1>5, ConcatProperties DEF Session!Send, SessionTypes
<1>9. SessionTypes' /\ OnePlace' /\ Listeners'
  BY <1>1, <1>7, <1>8 DEF SessionTypes, OnePlace, Listeners
<1>10. NoEventTwice'
  <2> SUFFICES ASSUME NEW i \in CallIds
               PROVE  stream[i].buf + Cardinality(DataFor(toClient', i)) <= events + 1
    BY <1>1 DEF NoEventTwice
  <2>1. stream[i] \in Consumer /\ toClient \in Seq(Reply)
    BY DEF SessionTypes
  <2>2. /\ stream[i].buf \in Nat /\ Cardinality(DataFor(toClient, i)) \in Nat
        /\ Cardinality(DataFor(toClient', i)) \in Nat
        /\ stream[i].buf + Cardinality(DataFor(toClient, i)) <= events
    BY <1>8, <2>1, ConsumerSet, DataIsFinite DEF NoEventTwice
  <2>3. Cardinality(DataFor(toClient', i)) <= Cardinality(DataFor(toClient, i)) + 1
    BY <1>6
  <2> HIDE DEF SessionIInv
  <2> QED BY <1>7, <2>2, <2>3
<1> QED BY <1>9, <1>10

LEMMA SessionNext == SessionIInv /\ [Session!Next]_(Session!sessionVars) => SessionIInv'
<1> SUFFICES ASSUME SessionIInv, [Session!Next]_(Session!sessionVars) PROVE SessionIInv'
  OBVIOUS
<1>1. ASSUME NEW m \in Methods, NEW valid \in BOOLEAN, Session!Call(m, valid)
      PROVE  SessionIInv'
  BY <1>1, SessionCall
<1>2. CASE Session!OpenTail
  BY <1>2, SessionTail
<1>3. ASSUME NEW i \in CallIds, Session!Take(i) PROVE SessionIInv'
  BY <1>3, SessionTake
<1>4. ASSUME NEW i \in CallIds, Session!Cancel(i) PROVE SessionIInv'
  BY <1>4, SessionCancel
<1>5. ASSUME NEW i \in CallIds, Session!CancelReturns(i) PROVE SessionIInv'
  BY <1>5, SessionCancelReturns
<1>6. CASE Session!Receive
  BY <1>6, SessionReceive
<1>7. CASE Session!SeeClose
  BY <1>7, SessionSeeClose
<1>8. CASE Session!Dispatch
  BY <1>8, SessionDispatch
<1>9. ASSUME NEW x \in busy, NEW kind \in {"ok", "error"}, Session!Return(x, kind)
      PROVE  SessionIInv'
  BY <1>9, SessionReturn
<1>10. CASE Session!Publish
  BY <1>10, SessionPublish
<1>11. CASE Session!Disconnect
  BY <1>11, SessionDisconnect
<1>12. CASE UNCHANGED Session!sessionVars
  <2>1. UNCHANGED <<up, sawClose, nextId, call, stream, toServer, toClient, subs, listening,
                    busy, events, answers>>
    BY <1>12 DEF Session!sessionVars
  <2>2. NoEventTwice'
    BY <2>1, NoEventKept DEF SessionIInv
  <2> QED BY <2>1, <2>2 DEF SessionIInv, SessionTypes, OnePlace, Listeners
<1> QED BY <1>1, <1>2, <1>3, <1>4, <1>5, <1>6, <1>7, <1>8, <1>9, <1>10, <1>11, <1>12
    DEF Session!Next, Session!Ids, CallIds

\* A request of a client is answered at most once, and the bus keeps exactly
\* the subscribers that the connection can still cancel.
THEOREM RequestsAnsweredOnce == ConnectionSpec => [](Session!TypeOK /\ Session!OneAnswerNoLeak)
BY SessionInitially, SessionNext, SessionHolds, ConnectionsRunSession, PTL
----------------------------------------------------------------------------
(* The channel between a host and a guest *)

LEMMA ConnectionsRunChannel ==
    ConnectionSpec => Channel!Init /\ [][Channel!Next]_(Channel!channelVars)
<1>1. ConnectionInit => Channel!Init
  BY DEF ConnectionInit
<1>2. [ConnectionNext]_connectionVars => [Channel!Next]_(Channel!channelVars)
  BY DEF ConnectionNext, connectionVars, LinkStep, SessionStep, ChannelStep, vmVars,
         Channel!channelVars
<1> QED BY <1>1, <1>2, PTL DEF ConnectionSpec

VmEnds == {"host", "guest"}
VmIds == 1 .. MaxIds
VmFrame == [kind : Channel!Kinds, id : VmIds, target : 0 .. MaxIds]
Tap == [st : {"none", "live", "ended", "cancelled"}, waiting : BOOLEAN, by : 0 .. MaxIds]
Handler == [st : {"none", "queued", "plain", "streaming", "ended", "done", "answered"},
            aborted : BOOLEAN, streams : BOOLEAN]

ChannelTypes ==
    /\ open \in [VmEnds -> BOOLEAN] /\ next \in [VmEnds -> 1 .. MaxIds + 1]
    /\ calls \in [VmEnds -> [VmIds -> {"none", "pending", "settled"}]]
    /\ taps \in [VmEnds -> [VmIds -> Tap]]
    /\ frames \in [VmEnds -> Seq(VmFrame)]
    /\ work \in [VmEnds -> [VmIds -> Handler]]
    /\ producing \in [VmEnds -> SUBSET VmIds]
    /\ items \in [VmEnds -> [VmIds -> 0 .. MaxItems]]
    /\ final \in [VmEnds -> [VmIds -> 0 .. 2]]

\* Frames of some kinds about request i are on the way.
Has(q, i, kinds) == \E n \in DOMAIN q : q[n].id = i /\ q[n].kind \in kinds
Asks == {"call", "stream", "$cancel"}

\* The requests on a wire have different ids.
AsksOnce(q) ==
    \A n, k \in DOMAIN q :
        q[n].kind \in Asks /\ q[k].kind \in Asks /\ q[n].id = q[k].id => n = k

\* Request i of end e to end o: on the wire, or in the hands of a handler, or
\* finished, and never in two of these; and who waits for it will be told.
RequestIsSomewhere(e, o, i) ==
    /\ Has(frames[o], i, Asks) => i < next[e] /\ work[o][i].st = "none" /\ final[o][i] = 0
    /\ i >= next[e] => /\ work[o][i].st = "none" /\ final[o][i] = 0
                       /\ calls[e][i] = "none" /\ taps[e][i].st = "none"
    /\ work[o][i].st \in {"queued", "plain", "streaming"} => final[o][i] = 0
    /\ final[o][i] \in {0, 1}
    /\ i \in producing[o] => work[o][i].st = "streaming"

CallIsTold(e, o, i) ==
    calls[e][i] = "pending" => open[e] /\
        \/ ~open[o]
        \/ Has(frames[o], i, {"call", "$cancel"})
        \/ work[o][i].st \in {"queued", "plain"} /\ ~work[o][i].streams
        \/ Has(frames[e], i, {"answer"})

TapIsTold(e, o, i) ==
    /\ taps[e][i].st = "live" => open[e] /\
        \/ ~open[o]
        \/ Has(frames[o], i, {"stream"})
        \/ work[o][i].st \in {"queued", "plain", "streaming", "answered"}
        \/ Has(frames[e], i, {"last"})
    /\ taps[e][i].waiting => taps[e][i].st \in {"live", "cancelled"}

RequestOK(e, o, i) == RequestIsSomewhere(e, o, i) /\ CallIsTold(e, o, i) /\ TapIsTold(e, o, i)

ChannelIInv ==
    /\ ChannelTypes
    /\ \A e \in VmEnds : AsksOnce(frames[e])
    /\ \A e \in VmEnds, i \in VmIds : RequestOK(e, Channel!Other(e), i)

LEMMA ChannelBounds ==
    /\ MaxIds \in Nat /\ MaxItems \in Nat /\ VmIds \subseteq Nat
    /\ \A e \in VmEnds : Quota[e] \in 0 .. MaxIds
BY PartsAssumption DEF Channel!ChannelAssumption, VmIds, VmEnds

LEMMA OtherEnd ==
    ASSUME NEW e \in VmEnds
    PROVE  /\ Channel!Other(e) \in VmEnds /\ Channel!Other(e) # e
           /\ Channel!Other(Channel!Other(e)) = e
           /\ \A d \in VmEnds : d = e \/ d = Channel!Other(e)
BY DEF VmEnds, Channel!Other

LEMMA ChannelHolds ==
    ChannelIInv => Channel!TypeOK /\ Channel!OneLastFrame /\ Channel!EveryoneIsTold
<1> SUFFICES ASSUME ChannelIInv
             PROVE  Channel!TypeOK /\ Channel!OneLastFrame /\ Channel!EveryoneIsTold
  OBVIOUS
<1> USE DEF ChannelIInv
<1>1. Channel!TypeOK
  BY DEF ChannelTypes, Channel!TypeOK, VmEnds, VmIds, VmFrame, Tap, Handler, Channel!Ids
<1>2. Channel!OneLastFrame
  <2> SUFFICES ASSUME NEW o \in VmEnds, NEW i \in VmIds
               PROVE  /\ final[o][i] <= 1
                      /\ i \in producing[o] => work[o][i].st = "streaming"
    BY DEF Channel!OneLastFrame, VmEnds, VmIds, Channel!Ids
  <2>1. RequestOK(Channel!Other(o), Channel!Other(Channel!Other(o)), i)
    BY OtherEnd
  <2>2. RequestIsSomewhere(Channel!Other(o), o, i)
    BY <2>1, OtherEnd DEF RequestOK
  <2>3. final[o][i] \in {0, 1}
    BY <2>2 DEF RequestIsSomewhere
  <2> QED BY <2>2, <2>3 DEF RequestIsSomewhere
<1>3. Channel!EveryoneIsTold
  <2> SUFFICES ASSUME NEW e \in VmEnds, NEW i \in VmIds
               PROVE  LET o == Channel!Other(e)
                          OnWire(end, kinds) == \E n \in 1 .. Len(frames[end]) :
                             frames[end][n].id = i /\ frames[end][n].kind \in kinds
                          Coming(kinds) == open[e] /\
                             \/ ~open[o]
                             \/ OnWire(o, {"call", "stream", "$cancel"})
                             \/ work[o][i].st \in {"queued", "plain", "streaming"}
                             \/ OnWire(e, kinds)
                      IN  /\ calls[e][i] = "pending" => Coming({"answer"})
                          /\ taps[e][i].waiting /\ taps[e][i].st # "cancelled"
                             => Coming({"last"}) \/ work[o][i].st = "answered"
    BY DEF Channel!EveryoneIsTold, VmEnds, VmIds, Channel!Ids
  <2> DEFINE o == Channel!Other(e)
  <2>1. o \in VmEnds /\ CallIsTold(e, o, i) /\ TapIsTold(e, o, i)
    BY OtherEnd DEF RequestOK
  <2>2. \A d \in VmEnds : DOMAIN frames[d] = 1 .. Len(frames[d])
    BY LenProperties DEF ChannelTypes
  <2>3. o \in VmEnds
    BY OtherEnd
  <2>4. \A d \in VmEnds : \A K : Has(frames[d], i, K) <=>
            \E n \in 1 .. Len(frames[d]) : frames[d][n].id = i /\ frames[d][n].kind \in K
    BY <2>2 DEF Has
  <2>5. ASSUME NEW d \in VmEnds, NEW K, NEW L, K \subseteq L, Has(frames[d], i, K)
        PROVE  Has(frames[d], i, L)
    BY <2>5 DEF Has
  <2>6. calls[e][i] = "pending" => open[e] /\
            \/ ~open[o]
            \/ Has(frames[o], i, {"call", "stream", "$cancel"})
            \/ work[o][i].st \in {"queued", "plain", "streaming"}
            \/ Has(frames[e], i, {"answer"})
    <3>1. Has(frames[o], i, {"call", "$cancel"}) => Has(frames[o], i, {"call", "stream", "$cancel"})
      BY <2>3, <2>5
    <3> QED BY <2>1, <3>1 DEF CallIsTold
  <2>7. taps[e][i].waiting /\ taps[e][i].st # "cancelled" =>
            \/ open[e] /\ (\/ ~open[o]
                           \/ Has(frames[o], i, {"call", "stream", "$cancel"})
                           \/ work[o][i].st \in {"queued", "plain", "streaming"}
                           \/ Has(frames[e], i, {"last"}))
            \/ work[o][i].st = "answered"
    <3>1. Has(frames[o], i, {"stream"}) => Has(frames[o], i, {"call", "stream", "$cancel"})
      BY <2>3, <2>5
    <3> QED BY <2>1, <3>1 DEF TapIsTold
  <2> HIDE DEF o
  <2> QED BY <2>3, <2>4, <2>6, <2>7 DEF o
<1> QED BY <1>1, <1>2, <1>3

LEMMA ChannelInitially == Channel!Init => ChannelIInv
<1> SUFFICES ASSUME Channel!Init PROVE ChannelIInv
  OBVIOUS
<1> USE ChannelBounds DEF Channel!Init, Channel!Ids, VmIds, VmEnds, Channel!Idle
<1>1. ChannelTypes
  <2>1. next \in [VmEnds -> 1 .. MaxIds + 1] /\ items \in [VmEnds -> [VmIds -> 0 .. MaxItems]]
    OBVIOUS
  <2>2. frames \in [VmEnds -> Seq(VmFrame)]
    BY EmptySeq
  <2>3. taps \in [VmEnds -> [VmIds -> Tap]]
    BY DEF Tap
  <2>4. work \in [VmEnds -> [VmIds -> Handler]]
    BY DEF Handler
  <2>5. calls \in [VmEnds -> [VmIds -> {"none", "pending", "settled"}]]
    OBVIOUS
  <2>6. open \in [VmEnds -> BOOLEAN] /\ producing \in [VmEnds -> SUBSET VmIds]
    OBVIOUS
  <2>7. final \in [VmEnds -> [VmIds -> 0 .. 2]]
    OBVIOUS
  <2> HIDE DEF Channel!Init, VmIds, VmEnds
  <2> QED BY <2>1, <2>2, <2>3, <2>4, <2>5, <2>6, <2>7 DEF ChannelTypes
<1>2. \A e \in VmEnds : frames[e] = <<>> /\ DOMAIN frames[e] = {}
  OBVIOUS
<1>3. \A e \in VmEnds : AsksOnce(frames[e])
  BY <1>2 DEF AsksOnce
<1>4. ASSUME NEW e \in VmEnds, NEW o \in VmEnds, NEW i \in VmIds PROVE RequestOK(e, o, i)
  BY <1>2 DEF RequestOK, RequestIsSomewhere, CallIsTold, TapIsTold, Has
<1> QED BY <1>1, <1>3, <1>4, OtherEnd DEF ChannelIInv

\* Appending a frame, and taking the first one.
LEMMA HasAppend ==
    ASSUME NEW q \in Seq(VmFrame), NEW f \in VmFrame
    PROVE  /\ Append(q, f) \in Seq(VmFrame)
           /\ \A i, kinds : Has(Append(q, f), i, kinds) <=>
                               Has(q, i, kinds) \/ (f.id = i /\ f.kind \in kinds)
           /\ AsksOnce(q) /\ (f.kind \in Asks => ~Has(q, f.id, Asks)) =>
                 AsksOnce(Append(q, f))
<1> DEFINE n == Len(q)
           r == Append(q, f)
<1>1. /\ r \in Seq(VmFrame) /\ n \in Nat
      /\ DOMAIN r = 1 .. n + 1 /\ DOMAIN q = 1 .. n
      /\ \A i \in 1 .. n : r[i] = q[i]
      /\ r[n + 1] = f
  BY AppendedSeq
<1> HIDE DEF n, r
<1>2. /\ \A k \in 1 .. n + 1 : k \in 1 .. n \/ k = n + 1
      /\ n + 1 \in 1 .. n + 1 /\ \A k \in 1 .. n : k \in 1 .. n + 1
  BY <1>1
<1>3. \A i, kinds : Has(r, i, kinds) <=> Has(q, i, kinds) \/ (f.id = i /\ f.kind \in kinds)
  BY <1>1, <1>2 DEF Has
<1>4. ASSUME AsksOnce(q), f.kind \in Asks => ~Has(q, f.id, Asks)
      PROVE  AsksOnce(r)
  BY <1>1, <1>2, <1>4 DEF AsksOnce, Has
<1> QED BY <1>1, <1>3, <1>4 DEF r

LEMMA HasTail ==
    ASSUME NEW q \in Seq(VmFrame), q # <<>>
    PROVE  /\ Tail(q) \in Seq(VmFrame) /\ Head(q) \in VmFrame
           /\ \A kinds : Head(q).kind \in kinds => Has(q, Head(q).id, kinds)
           /\ \A i, kinds : Has(Tail(q), i, kinds) => Has(q, i, kinds)
           /\ \A i, kinds : Has(q, i, kinds) =>
                 Has(Tail(q), i, kinds) \/ (Head(q).id = i /\ Head(q).kind \in kinds)
           /\ AsksOnce(q) => AsksOnce(Tail(q))
           /\ AsksOnce(q) /\ Head(q).kind \in Asks => ~Has(Tail(q), Head(q).id, Asks)
<1> DEFINE n == Len(q)
           t == Tail(q)
           f == Head(q)
<1>1. /\ n \in Nat \ {0} /\ t \in Seq(VmFrame) /\ f = q[1] /\ f \in VmFrame
      /\ DOMAIN t = 1 .. n - 1 /\ DOMAIN q = 1 .. n
      /\ \A j \in 1 .. n - 1 : j + 1 \in 1 .. n /\ t[j] = q[j + 1]
  BY TailSeq
<1> HIDE DEF n, t, f
<1>2. /\ 1 \in 1 .. n /\ \A j \in 1 .. n - 1 : j + 1 # 1
      /\ \A k \in 1 .. n : k = 1 \/ (k - 1 \in 1 .. n - 1 /\ (k - 1) + 1 = k)
      /\ \A j, k \in 1 .. n - 1 : j + 1 = k + 1 => j = k
  BY <1>1
<1>3. \A kinds : f.kind \in kinds => Has(q, f.id, kinds)
  BY <1>1, <1>2 DEF Has
<1>4. \A i, kinds : Has(t, i, kinds) => Has(q, i, kinds)
  BY <1>1 DEF Has
<1>5. ASSUME NEW i, NEW kinds, Has(q, i, kinds), ~(f.id = i /\ f.kind \in kinds)
      PROVE  Has(t, i, kinds)
  <2>1. PICK k \in 1 .. n : q[k].id = i /\ q[k].kind \in kinds
    BY <1>1, <1>5 DEF Has
  <2>2. k # 1
    BY <1>1, <1>5, <2>1
  <2>3. k - 1 \in 1 .. n - 1 /\ t[k - 1] = q[k]
    BY <1>1, <1>2, <2>1, <2>2
  <2> QED BY <1>1, <2>1, <2>3 DEF Has
<1>6. ASSUME AsksOnce(q) PROVE AsksOnce(t)
  <2> SUFFICES ASSUME NEW j \in 1 .. n - 1, NEW k \in 1 .. n - 1,
                      t[j].kind \in Asks, t[k].kind \in Asks, t[j].id = t[k].id
               PROVE  j = k
    BY <1>1 DEF AsksOnce
  <2>1. j + 1 \in 1 .. n /\ k + 1 \in 1 .. n /\ t[j] = q[j + 1] /\ t[k] = q[k + 1]
    BY <1>1
  <2>2. j + 1 = k + 1
    BY <1>1, <1>6, <2>1 DEF AsksOnce
  <2> QED BY <1>2, <2>2
<1>7. ASSUME AsksOnce(q), f.kind \in Asks PROVE ~Has(t, f.id, Asks)
  <2> SUFFICES ASSUME NEW j \in 1 .. n - 1, t[j].id = f.id, t[j].kind \in Asks
               PROVE  FALSE
    BY <1>1 DEF Has
  <2>1. j + 1 \in 1 .. n /\ t[j] = q[j + 1] /\ j + 1 # 1
    BY <1>1, <1>2
  <2> QED BY <1>1, <1>2, <1>7, <2>1 DEF AsksOnce
<1> QED BY <1>1, <1>3, <1>4, <1>5, <1>6, <1>7 DEF t, f

LEMMA TwoLevels ==
    ASSUME NEW A, NEW B, NEW V, NEW g \in [A -> [B -> V]],
           NEW a \in A, NEW b \in B, NEW v \in V,
           NEW h, h = [g EXCEPT ![a][b] = v]
    PROVE  /\ h \in [A -> [B -> V]] /\ h[a][b] = v
           /\ \A c \in A, d \in B : (c # a \/ d # b) => h[c][d] = g[c][d]
OBVIOUS

\* What a step may do to the state of one request.
Kept(e, o, i) ==
    /\ open'[e] = open[e] /\ (open'[o] => open[o])
    /\ (i < next[e] => i < next'[e]) /\ (i >= next'[e] => i >= next[e])
    /\ calls'[e][i] = calls[e][i] /\ taps'[e][i] = taps[e][i]
    /\ work'[o][i].st = work[o][i].st /\ work'[o][i].streams = work[o][i].streams
    /\ final'[o][i] = final[o][i]
    /\ i \in producing'[o] => i \in producing[o]
    /\ Has(frames'[o], i, Asks) => Has(frames[o], i, Asks)
    /\ open'[o] => /\ Has(frames[o], i, {"call", "$cancel"}) => Has(frames'[o], i, {"call", "$cancel"})
                   /\ Has(frames[o], i, {"stream"}) => Has(frames'[o], i, {"stream"})
                   /\ Has(frames[e], i, {"answer"}) => Has(frames'[e], i, {"answer"})
                   /\ Has(frames[e], i, {"last"}) => Has(frames'[e], i, {"last"})

LEMMA RequestKept ==
    ASSUME NEW e, NEW o, NEW i, RequestOK(e, o, i), Kept(e, o, i)
    PROVE  RequestOK(e, o, i)'
<1>1. RequestIsSomewhere(e, o, i)'
  BY DEF RequestOK, Kept, RequestIsSomewhere
<1>2. CallIsTold(e, o, i)'
  BY DEF RequestOK, Kept, CallIsTold
<1>3. TapIsTold(e, o, i)'
  BY DEF RequestOK, Kept, TapIsTold
<1> QED BY <1>1, <1>2, <1>3 DEF RequestOK

\* The state as one end sees it.
ChannelAt(e, o) ==
    /\ e \in VmEnds /\ o \in VmEnds /\ e # o /\ o = Channel!Other(e) /\ e = Channel!Other(o)
    /\ \A d \in VmEnds : d = e \/ d = o
    /\ open[e] \in BOOLEAN /\ open[o] \in BOOLEAN
    /\ next[e] \in 1 .. MaxIds + 1 /\ next[o] \in 1 .. MaxIds + 1
    /\ frames[e] \in Seq(VmFrame) /\ frames[o] \in Seq(VmFrame)
    /\ AsksOnce(frames[e]) /\ AsksOnce(frames[o])
    /\ \A i \in VmIds : RequestOK(e, o, i) /\ RequestOK(o, e, i)

LEMMA AtAnEnd ==
    ASSUME ChannelIInv, NEW e \in VmEnds
    PROVE  ChannelTypes /\ ChannelAt(e, Channel!Other(e))
<1> DEFINE o == Channel!Other(e)
<1>1. o \in VmEnds /\ o # e /\ Channel!Other(o) = e /\ \A d \in VmEnds : d = e \/ d = o
  BY OtherEnd
<1>2. \A i \in VmIds : RequestOK(e, o, i) /\ RequestOK(o, Channel!Other(o), i)
  BY <1>1 DEF ChannelIInv
<1> QED BY <1>1, <1>2 DEF ChannelIInv, ChannelTypes, ChannelAt

LEMMA ChannelIsKept ==
    ASSUME NEW e \in VmEnds, NEW o, ChannelAt(e, o), ChannelTypes',
           AsksOnce(frames[e])', AsksOnce(frames[o])',
           \A i \in VmIds : RequestOK(e, o, i)',
           \A i \in VmIds : RequestOK(o, e, i)'
    PROVE  ChannelIInv'
<1>1. \A d \in VmEnds : AsksOnce(frames[d])'
  BY DEF ChannelAt
<1>2. ASSUME NEW d \in VmEnds, NEW i \in VmIds PROVE RequestOK(d, Channel!Other(d), i)'
  BY DEF ChannelAt
<1> QED BY <1>1, <1>2 DEF ChannelIInv

\* A frame that is sent is the last one on the other end's wire.
Arrives(w, e, o, f) ==
    /\ w \in [VmEnds -> Seq(VmFrame)] /\ w[e] = frames[e]
    /\ \A i, kinds : Has(w[o], i, kinds) <=>
           Has(frames[o], i, kinds)
             \/ (open[e] /\ open[o] /\ f.id = i /\ f.kind \in kinds)
    /\ (f.kind \in Asks => ~Has(frames[o], f.id, Asks)) => AsksOnce(w[o])

LEMMA SentArrives ==
    ASSUME ChannelTypes, NEW e, NEW o, ChannelAt(e, o), NEW f \in VmFrame,
           NEW w, w = Channel!Sent(e, f)
    PROVE  Arrives(w, e, o, f)
<1> USE DEF ChannelAt, ChannelTypes
<1>1. CASE open[e] /\ open[o]
  <2>1. w = [frames EXCEPT ![o] = Append(@, f)]
    BY <1>1 DEF Channel!Sent
  <2>2. w[e] = frames[e] /\ w[o] = Append(frames[o], f)
    BY <2>1
  <2>3. Append(frames[o], f) \in Seq(VmFrame)
    BY HasAppend
  <2>4. w \in [VmEnds -> Seq(VmFrame)]
    BY <2>1, <2>3
  <2>5. \A i, kinds : Has(w[o], i, kinds) <=>
           Has(frames[o], i, kinds) \/ (f.id = i /\ f.kind \in kinds)
    <3>1. PICK q : q = frames[o]
      OBVIOUS
    <3>2. q \in Seq(VmFrame)
      BY <3>1
    <3>3. \A i, kinds : Has(Append(q, f), i, kinds) <=>
              Has(q, i, kinds) \/ (f.id = i /\ f.kind \in kinds)
      BY <3>2, HasAppend
    <3> QED BY <2>2, <3>1, <3>3, Zenon
  <2>6. (f.kind \in Asks => ~Has(frames[o], f.id, Asks)) => AsksOnce(w[o])
    BY <2>2, HasAppend
  <2> QED BY <1>1, <2>2, <2>4, <2>5, <2>6 DEF Arrives
<1>2. CASE ~(open[e] /\ open[o])
  <2>1. w = frames
    BY <1>2 DEF Channel!Sent
  <2> QED BY <1>2, <2>1 DEF Arrives
<1> QED BY <1>1, <1>2

LEMMA FrameIsOne ==
    ASSUME NEW k \in Channel!Kinds, NEW i \in VmIds, NEW t \in 0 .. MaxIds
    PROVE  /\ Channel!Frame(k, i, t) \in VmFrame
           /\ Channel!Frame(k, i, t).kind = k /\ Channel!Frame(k, i, t).id = i
           /\ Channel!Frame(k, i, t).target = t
BY DEF Channel!Frame, VmFrame

\* What the three actions that send a request have in common.
Asked(e, k, t) ==
    /\ next[e] <= Quota[e]
    /\ next' = [next EXCEPT ![e] = @ + 1]
    /\ frames' = Channel!Sent(e, Channel!Frame(k, next[e], t))
    /\ UNCHANGED <<open, work, producing, items, final>>

AskedFacts(e, o, k, n) ==
    /\ n = next[e] /\ n \in VmIds
    /\ next' \in [VmEnds -> 1 .. MaxIds + 1] /\ next'[e] = n + 1 /\ next'[o] = next[o]
    /\ frames' \in [VmEnds -> Seq(VmFrame)] /\ frames'[e] = frames[e]
    /\ \A i, kinds : Has(frames'[o], i, kinds) <=>
           Has(frames[o], i, kinds) \/ (open[e] /\ open[o] /\ n = i /\ k \in kinds)
    /\ AsksOnce(frames'[o])
    /\ work[o][n].st = "none" /\ final[o][n] = 0 /\ n \notin producing[o]
    /\ calls[e][n] = "none" /\ taps[e][n].st = "none" /\ ~taps[e][n].waiting

LEMMA AskedIsNew ==
    ASSUME ChannelTypes, NEW e, NEW o, ChannelAt(e, o),
           NEW k \in Asks, NEW t \in 0 .. MaxIds, Asked(e, k, t), NEW n, n = next[e]
    PROVE  AskedFacts(e, o, k, n)
<1>1. n \in VmIds
  BY ChannelBounds DEF ChannelAt, Asked, VmIds
<1>2. next' \in [VmEnds -> 1 .. MaxIds + 1] /\ next'[e] = n + 1 /\ next'[o] = next[o]
  <2>1. n + 1 \in 1 .. MaxIds + 1
    BY <1>1, ChannelBounds DEF VmIds
  <2>2. next \in [VmEnds -> 1 .. MaxIds + 1] /\ e \in VmEnds /\ o \in VmEnds /\ e # o
    BY DEF ChannelTypes, ChannelAt
  <2>3. next' = [next EXCEPT ![e] = n + 1]
    BY DEF Asked
  <2> QED BY <2>1, <2>2, <2>3
<1>3. RequestIsSomewhere(e, o, n) /\ TapIsTold(e, o, n) /\ ~(n < next[e]) /\ n >= next[e]
  BY <1>1, ChannelBounds DEF ChannelAt, RequestOK, VmIds
<1>4. /\ work[o][n].st = "none" /\ final[o][n] = 0 /\ n \notin producing[o]
      /\ calls[e][n] = "none" /\ taps[e][n].st = "none" /\ ~taps[e][n].waiting
      /\ ~Has(frames[o], n, Asks)
  BY <1>3 DEF RequestIsSomewhere, TapIsTold
<1>5. k \in Channel!Kinds
  BY DEF Asks, Channel!Kinds
<1>6. PICK f : f = Channel!Frame(k, n, t)
  OBVIOUS
<1>7. f \in VmFrame /\ f.kind = k /\ f.id = n
  BY <1>1, <1>5, <1>6, FrameIsOne
<1>8. Arrives(frames', e, o, f)
  BY <1>6, <1>7, SentArrives DEF Asked
<1> QED BY <1>1, <1>2, <1>4, <1>7, <1>8 DEF Arrives, AskedFacts

\* Asking changes nothing of the requests before, and nothing of the other end's.
LEMMA AskedKeeps ==
    ASSUME ChannelTypes, NEW e, NEW o, ChannelAt(e, o),
           NEW k \in Asks, NEW t \in 0 .. MaxIds, Asked(e, k, t), NEW n, n = next[e]
    PROVE  /\ AsksOnce(frames[e])' /\ AsksOnce(frames[o])'
           /\ \A i \in VmIds : calls'[o] = calls[o] /\ taps'[o] = taps[o] => RequestOK(o, e, i)'
           /\ \A i \in VmIds \ {n} :
                 /\ calls'[e][i] = calls[e][i] => CallIsTold(e, o, i)'
                 /\ taps'[e][i] = taps[e][i] => TapIsTold(e, o, i)'
                 /\ calls'[e][i] = calls[e][i]
                      /\ (taps'[e][i] = taps[e][i] \/ taps[e][i].st # "none")
                      => RequestIsSomewhere(e, o, i)'
           /\ RequestIsSomewhere(e, o, n)'
<1>1. AskedFacts(e, o, k, n)
  BY AskedIsNew
<1>2. open' = open /\ work' = work /\ producing' = producing /\ final' = final
  BY DEF Asked
<1>3. AsksOnce(frames[e])' /\ AsksOnce(frames[o])'
  BY <1>1 DEF AskedFacts, ChannelAt
<1>4. ASSUME NEW i \in VmIds, calls'[o] = calls[o], taps'[o] = taps[o]
      PROVE  RequestOK(o, e, i)'
  <2>1. Kept(o, e, i)
    BY <1>1, <1>2, <1>4 DEF Kept, AskedFacts
  <2> QED BY <2>1, RequestKept DEF ChannelAt
<1>5. ASSUME NEW i \in VmIds, i # n
      PROVE  /\ calls'[e][i] = calls[e][i] => CallIsTold(e, o, i)'
             /\ taps'[e][i] = taps[e][i] => TapIsTold(e, o, i)'
             /\ calls'[e][i] = calls[e][i]
                  /\ (taps'[e][i] = taps[e][i] \/ taps[e][i].st # "none")
                  => RequestIsSomewhere(e, o, i)'
  <2>1. RequestIsSomewhere(e, o, i) /\ CallIsTold(e, o, i) /\ TapIsTold(e, o, i)
    BY DEF ChannelAt, RequestOK
  <2>2. \A kinds : Has(frames'[o], i, kinds) <=> Has(frames[o], i, kinds)
    BY <1>1, <1>5 DEF AskedFacts
  <2>3. frames'[e] = frames[e]
    BY <1>1 DEF AskedFacts
  <2>4. calls'[e][i] = calls[e][i] => CallIsTold(e, o, i)'
    BY <1>2, <2>1, <2>2, <2>3 DEF CallIsTold
  <2>5. taps'[e][i] = taps[e][i] => TapIsTold(e, o, i)'
    BY <1>2, <2>1, <2>2, <2>3 DEF TapIsTold
  <2>6. (i < next[e] => i < next'[e]) /\ (i >= next'[e] => i >= next[e])
    <3>1. i \in Nat /\ n \in Nat /\ n = next[e] /\ next'[e] = n + 1
      BY <1>1, ChannelBounds DEF AskedFacts
    <3> QED BY <3>1
  <2>7. i >= next'[e] => taps[e][i].st = "none"
    BY <2>1, <2>6 DEF RequestIsSomewhere
  <2>8. ASSUME calls'[e][i] = calls[e][i],
               taps'[e][i] = taps[e][i] \/ taps[e][i].st # "none"
        PROVE  RequestIsSomewhere(e, o, i)'
    BY <1>2, <2>1, <2>2, <2>6, <2>7, <2>8 DEF RequestIsSomewhere
  <2> QED BY <2>4, <2>5, <2>8
<1>6. RequestIsSomewhere(e, o, n)'
  <2>1. n < next'[e] /\ ~(n >= next'[e])
    <3>1. n \in Nat /\ next'[e] = n + 1
      BY <1>1, ChannelBounds DEF AskedFacts
    <3> QED BY <3>1
  <2> QED BY <1>1, <1>2, <2>1 DEF RequestIsSomewhere, AskedFacts
<1> QED BY <1>3, <1>4, <1>5, <1>6

LEMMA TapSet ==
    ASSUME NEW t \in Tap, NEW c
    PROVE  /\ \A v \in {"none", "live", "ended", "cancelled"} :
                 c = [t EXCEPT !.st = v] =>
                     c \in Tap /\ c.st = v /\ c.waiting = t.waiting /\ c.by = t.by
           /\ \A v \in BOOLEAN : c = [t EXCEPT !.waiting = v] =>
                     c \in Tap /\ c.st = t.st /\ c.waiting = v /\ c.by = t.by
           /\ \A v \in 0 .. MaxIds : c = [t EXCEPT !.by = v] =>
                     c \in Tap /\ c.st = t.st /\ c.waiting = t.waiting /\ c.by = v
<1> DEFINE B == 0 .. MaxIds
<1> HIDE DEF B
<1>1. t \in [st : {"none", "live", "ended", "cancelled"}, waiting : BOOLEAN, by : B]
  BY DEF Tap, B
<1>2. ASSUME NEW v \in {"none", "live", "ended", "cancelled"}, c = [t EXCEPT !.st = v]
      PROVE  c \in [st : {"none", "live", "ended", "cancelled"}, waiting : BOOLEAN, by : B]
             /\ c.st = v /\ c.waiting = t.waiting /\ c.by = t.by
  BY <1>1, <1>2
<1>3. ASSUME NEW v \in BOOLEAN, c = [t EXCEPT !.waiting = v]
      PROVE  c \in [st : {"none", "live", "ended", "cancelled"}, waiting : BOOLEAN, by : B]
             /\ c.st = t.st /\ c.waiting = v /\ c.by = t.by
  BY <1>1, <1>3
<1>4. ASSUME NEW v \in B, c = [t EXCEPT !.by = v]
      PROVE  c \in [st : {"none", "live", "ended", "cancelled"}, waiting : BOOLEAN, by : B]
             /\ c.st = t.st /\ c.waiting = t.waiting /\ c.by = v
  BY <1>1, <1>4
<1> QED BY <1>2, <1>3, <1>4 DEF Tap, B

LEMMA ChannelCall ==
    ASSUME ChannelIInv, NEW e \in VmEnds, Channel!Call(e)
    PROVE  ChannelIInv'
<1> DEFINE o == Channel!Other(e)
<1>1. ChannelTypes /\ ChannelAt(e, o)
  BY AtAnEnd
<1> HIDE DEF o
<1>2. PICK n : n = next[e]
  OBVIOUS
<1>3. Asked(e, "call", 0)
  BY DEF Asked, Channel!Call
<1>4. "call" \in Asks /\ 0 \in 0 .. MaxIds
  BY ChannelBounds DEF Asks
<1>5. AskedFacts(e, o, "call", n)
  BY <1>1, <1>2, <1>3, <1>4, AskedIsNew
<1>6. PICK v \in {"none", "pending", "settled"} :
          v = (IF open[e] THEN "pending" ELSE "settled")
  OBVIOUS
<1>7. calls' = [calls EXCEPT ![e][n] = v] /\ taps' = taps
  BY <1>2, <1>6 DEF Channel!Call
<1>8. /\ calls' \in [VmEnds -> [VmIds -> {"none", "pending", "settled"}]] /\ calls'[e][n] = v
      /\ \A c \in VmEnds, d \in VmIds : (c # e \/ d # n) => calls'[c][d] = calls[c][d]
  <2>1. n \in VmIds
    BY <1>5 DEF AskedFacts
  <2> QED BY <1>1, <1>7, <2>1, TwoLevels DEF ChannelTypes
<1>9. calls'[o] = calls[o] /\ \A i \in VmIds \ {n} : calls'[e][i] = calls[e][i]
  BY <1>1, <1>7, <1>8 DEF ChannelAt, ChannelTypes
<1>10. ChannelTypes'
  BY <1>1, <1>3, <1>5, <1>7, <1>8 DEF ChannelTypes, AskedFacts, Asked
<1>11. /\ AsksOnce(frames[e])' /\ AsksOnce(frames[o])' /\ RequestIsSomewhere(e, o, n)'
       /\ \A i \in VmIds : RequestOK(o, e, i)'
       /\ \A i \in VmIds \ {n} :
             CallIsTold(e, o, i)' /\ TapIsTold(e, o, i)' /\ RequestIsSomewhere(e, o, i)'
  BY <1>1, <1>2, <1>3, <1>4, <1>7, <1>9, AskedKeeps
<1>12. CallIsTold(e, o, n)'
  <2>1. open' = open
    BY DEF Channel!Call
  <2>2. open[e] /\ open[o] => Has(frames'[o], n, {"call", "$cancel"})
    BY <1>5 DEF AskedFacts
  <2> QED BY <1>1, <1>6, <1>8, <2>1, <2>2 DEF CallIsTold, ChannelAt
<1>13. TapIsTold(e, o, n)'
  BY <1>5, <1>7 DEF TapIsTold, AskedFacts
<1>14. \A i \in VmIds : RequestOK(e, o, i)'
  BY <1>11, <1>12, <1>13 DEF RequestOK
<1> QED BY <1>1, <1>10, <1>11, <1>14, ChannelIsKept

LEMMA ChannelStream ==
    ASSUME ChannelIInv, NEW e \in VmEnds, Channel!Stream(e)
    PROVE  ChannelIInv'
<1> DEFINE o == Channel!Other(e)
<1>1. ChannelTypes /\ ChannelAt(e, o)
  BY AtAnEnd
<1> HIDE DEF o
<1>2. PICK n : n = next[e]
  OBVIOUS
<1>3. Asked(e, "stream", 0)
  BY DEF Asked, Channel!Stream
<1>4. "stream" \in Asks /\ 0 \in 0 .. MaxIds
  BY ChannelBounds DEF Asks
<1>5. AskedFacts(e, o, "stream", n)
  BY <1>1, <1>2, <1>3, <1>4, AskedIsNew
<1>6. PICK v \in {"live", "ended"} : v = (IF open[e] THEN "live" ELSE "ended")
  OBVIOUS
<1>7. PICK t : t = [taps[e][n] EXCEPT !.st = v]
  OBVIOUS
<1>8. n \in VmIds /\ taps[e][n] \in Tap
  BY <1>1, <1>5 DEF AskedFacts, ChannelTypes, ChannelAt
<1>9. t \in Tap /\ t.st = v /\ ~t.waiting
  <2>1. t \in Tap /\ t.st = v /\ t.waiting = taps[e][n].waiting
    BY <1>6, <1>7, <1>8, TapSet
  <2> QED BY <1>5, <2>1 DEF AskedFacts
<1>10. taps' = [taps EXCEPT ![e][n] = t] /\ calls' = calls
  BY <1>2, <1>6, <1>7 DEF Channel!Stream
<1>11. /\ taps' \in [VmEnds -> [VmIds -> Tap]] /\ taps'[e][n] = t
       /\ \A c \in VmEnds, d \in VmIds : (c # e \/ d # n) => taps'[c][d] = taps[c][d]
  BY <1>1, <1>8, <1>9, <1>10, TwoLevels DEF ChannelTypes
<1>12. taps'[o] = taps[o] /\ \A i \in VmIds \ {n} : taps'[e][i] = taps[e][i]
  BY <1>1, <1>10, <1>11 DEF ChannelAt, ChannelTypes
<1>13. ChannelTypes'
  BY <1>1, <1>3, <1>5, <1>10, <1>11 DEF ChannelTypes, AskedFacts, Asked
<1>14. /\ AsksOnce(frames[e])' /\ AsksOnce(frames[o])' /\ RequestIsSomewhere(e, o, n)'
       /\ \A i \in VmIds : RequestOK(o, e, i)'
       /\ \A i \in VmIds \ {n} :
             CallIsTold(e, o, i)' /\ TapIsTold(e, o, i)' /\ RequestIsSomewhere(e, o, i)'
  BY <1>1, <1>2, <1>3, <1>4, <1>10, <1>12, AskedKeeps
<1>15. TapIsTold(e, o, n)'
  <2>1. open' = open
    BY DEF Channel!Stream
  <2>2. open[e] /\ open[o] => Has(frames'[o], n, {"stream"})
    BY <1>5 DEF AskedFacts
  <2> QED BY <1>1, <1>6, <1>9, <1>11, <2>1, <2>2 DEF TapIsTold, ChannelAt
<1>16. CallIsTold(e, o, n)'
  BY <1>5, <1>10 DEF CallIsTold, AskedFacts
<1>17. \A i \in VmIds : RequestOK(e, o, i)'
  BY <1>14, <1>15, <1>16 DEF RequestOK
<1> QED BY <1>1, <1>13, <1>14, <1>17, ChannelIsKept

LEMMA ChannelCancel ==
    ASSUME ChannelIInv, NEW e \in VmEnds, NEW j \in VmIds, Channel!Cancel(e, j)
    PROVE  ChannelIInv'
<1> DEFINE o == Channel!Other(e)
<1>1. ChannelTypes /\ ChannelAt(e, o)
  BY AtAnEnd
<1> HIDE DEF o
<1>2. PICK n : n = next[e]
  OBVIOUS
<1>3. Asked(e, "$cancel", j)
  BY DEF Asked, Channel!Cancel
<1>4. "$cancel" \in Asks /\ j \in 0 .. MaxIds
  BY ChannelBounds DEF Asks, VmIds
<1>5. AskedFacts(e, o, "$cancel", n)
  BY <1>1, <1>2, <1>3, <1>4, AskedIsNew
<1>6. PICK v \in {"none", "pending", "settled"} :
          v = (IF open[e] THEN "pending" ELSE "settled")
  OBVIOUS
<1>7. PICK s : s = [taps[e][j] EXCEPT !.st = "cancelled"]
  OBVIOUS
<1>8. PICK t : t = [s EXCEPT !.by = n]
  OBVIOUS
<1>9. n \in VmIds /\ n \in 0 .. MaxIds /\ taps[e][j] \in Tap /\ taps[e][j].st = "live" /\ j # n
  <2>1. n \in VmIds /\ taps[e][j] \in Tap
    BY <1>1, <1>5 DEF AskedFacts, ChannelTypes, ChannelAt
  <2>2. taps[e][j].st = "live" /\ taps[e][n].st = "none"
    BY <1>5 DEF AskedFacts, Channel!Cancel
  <2> QED BY <2>1, <2>2, ChannelBounds DEF VmIds
<1>10. t \in Tap /\ t.st = "cancelled"
  <2>1. s \in Tap /\ s.st = "cancelled"
    BY <1>7, <1>9, TapSet
  <2> QED BY <1>8, <1>9, <2>1, TapSet
<1>11. taps' = [taps EXCEPT ![e][j] = t]
  BY <1>1, <1>2, <1>7, <1>8 DEF Channel!Cancel, ChannelTypes, ChannelAt
<1>12. /\ taps' \in [VmEnds -> [VmIds -> Tap]] /\ taps'[e][j] = t
       /\ \A c \in VmEnds, d \in VmIds : (c # e \/ d # j) => taps'[c][d] = taps[c][d]
  BY <1>1, <1>10, <1>11, TwoLevels DEF ChannelTypes
<1>13. taps'[o] = taps[o] /\ \A i \in VmIds \ {j} : taps'[e][i] = taps[e][i]
  BY <1>1, <1>11, <1>12 DEF ChannelAt, ChannelTypes
<1>14. calls' = [calls EXCEPT ![e][n] = v]
  BY <1>2, <1>6 DEF Channel!Cancel
<1>15. /\ calls' \in [VmEnds -> [VmIds -> {"none", "pending", "settled"}]] /\ calls'[e][n] = v
       /\ \A c \in VmEnds, d \in VmIds : (c # e \/ d # n) => calls'[c][d] = calls[c][d]
  BY <1>1, <1>9, <1>14, TwoLevels DEF ChannelTypes
<1>16. calls'[o] = calls[o] /\ \A i \in VmIds \ {n} : calls'[e][i] = calls[e][i]
  BY <1>1, <1>14, <1>15 DEF ChannelAt, ChannelTypes
<1>17. ChannelTypes'
  BY <1>1, <1>3, <1>5, <1>12, <1>15 DEF ChannelTypes, AskedFacts, Asked
<1>18. /\ AsksOnce(frames[e])' /\ AsksOnce(frames[o])' /\ RequestIsSomewhere(e, o, n)'
       /\ \A i \in VmIds : RequestOK(o, e, i)'
       /\ \A i \in VmIds \ {n} : CallIsTold(e, o, i)' /\ RequestIsSomewhere(e, o, i)'
       /\ \A i \in VmIds \ {n, j} : TapIsTold(e, o, i)'
  <2>1. \A i \in VmIds : taps'[e][i] = taps[e][i] \/ taps[e][i].st # "none"
    BY <1>9, <1>13
  <2> QED BY <1>1, <1>2, <1>3, <1>4, <1>13, <1>16, <2>1, AskedKeeps
<1>19. CallIsTold(e, o, n)'
  <2>1. open' = open
    BY DEF Channel!Cancel
  <2>2. open[e] /\ open[o] => Has(frames'[o], n, {"call", "$cancel"})
    BY <1>5 DEF AskedFacts
  <2> QED BY <1>1, <1>6, <1>15, <2>1, <2>2 DEF CallIsTold, ChannelAt
<1>20. TapIsTold(e, o, j)' /\ TapIsTold(e, o, n)'
  <2>1. taps'[e][n] = taps[e][n]
    BY <1>9, <1>13
  <2>2. TapIsTold(e, o, n)'
    BY <1>5, <2>1 DEF TapIsTold, AskedFacts
  <2>3. TapIsTold(e, o, j)'
    BY <1>10, <1>12 DEF TapIsTold
  <2> QED BY <2>2, <2>3
<1>21. \A i \in VmIds : RequestOK(e, o, i)'
  BY <1>18, <1>19, <1>20 DEF RequestOK
<1> QED BY <1>1, <1>17, <1>18, <1>21, ChannelIsKept

\* A step that changes only what one consumer waits for.
LEMMA ChannelTap ==
    ASSUME ChannelIInv, NEW e \in VmEnds, NEW j \in VmIds,
           Channel!Await(e, j) \/ Channel!CancelReturns(e, j)
    PROVE  ChannelIInv'
<1> DEFINE o == Channel!Other(e)
<1>1. ChannelTypes /\ ChannelAt(e, o)
  BY AtAnEnd
<1> HIDE DEF o
<1>2. UNCHANGED <<open, next, calls, frames, work, producing, items, final>>
  BY DEF Channel!Await, Channel!CancelReturns
<1>3. PICK b \in BOOLEAN : /\ taps' = [taps EXCEPT ![e][j].waiting = b]
                           /\ taps[e][j].st \in {"live", "cancelled"}
  <2>1. CASE Channel!Await(e, j)
    BY <2>1 DEF Channel!Await
  <2>2. CASE Channel!CancelReturns(e, j)
    BY <2>2 DEF Channel!CancelReturns
  <2> QED BY <2>1, <2>2
<1>4. PICK t : t = [taps[e][j] EXCEPT !.waiting = b]
  OBVIOUS
<1>5. t \in Tap /\ t.st = taps[e][j].st
  <2>1. taps[e][j] \in Tap
    BY <1>1 DEF ChannelTypes, ChannelAt
  <2> QED BY <1>4, <2>1, TapSet
<1>6. taps' = [taps EXCEPT ![e][j] = t]
  BY <1>3, <1>4
<1>7. /\ taps' \in [VmEnds -> [VmIds -> Tap]] /\ taps'[e][j] = t
      /\ \A c \in VmEnds, d \in VmIds : (c # e \/ d # j) => taps'[c][d] = taps[c][d]
  BY <1>1, <1>5, <1>6, TwoLevels DEF ChannelTypes
<1>8. ChannelTypes'
  BY <1>1, <1>2, <1>7 DEF ChannelTypes
<1>9. ASSUME NEW c \in VmEnds, NEW d \in VmEnds, NEW i \in VmIds, RequestOK(c, d, i),
             c # e \/ i # j
      PROVE  RequestOK(c, d, i)'
  <2>1. taps'[c][i] = taps[c][i]
    BY <1>7, <1>9
  <2>2. Kept(c, d, i)
    BY <1>2, <2>1 DEF Kept
  <2> QED BY <1>9, <2>2, RequestKept
<1>10. RequestOK(e, o, j)'
  <2>1. RequestIsSomewhere(e, o, j) /\ CallIsTold(e, o, j) /\ TapIsTold(e, o, j)
    BY <1>1 DEF ChannelAt, RequestOK
  <2>2. RequestIsSomewhere(e, o, j)' /\ CallIsTold(e, o, j)'
    BY <1>2, <1>5, <1>7, <2>1 DEF RequestIsSomewhere, CallIsTold
  <2>3. TapIsTold(e, o, j)'
    BY <1>2, <1>3, <1>5, <1>7, <2>1 DEF TapIsTold
  <2> QED BY <2>2, <2>3 DEF RequestOK
<1>11. /\ \A i \in VmIds : RequestOK(e, o, i)'
       /\ \A i \in VmIds : RequestOK(o, e, i)'
  BY <1>1, <1>9, <1>10 DEF ChannelAt
<1>12. AsksOnce(frames[e])' /\ AsksOnce(frames[o])'
  BY <1>1, <1>2 DEF ChannelAt
<1> QED BY <1>1, <1>8, <1>11, <1>12, ChannelIsKept

LEMMA HandlerSet ==
    ASSUME NEW t \in Handler, NEW c
    PROVE  /\ \A v \in {"none", "queued", "plain", "streaming", "ended", "done", "answered"} :
                 c = [t EXCEPT !.st = v] => c \in Handler /\ c.st = v /\ c.streams = t.streams
           /\ \A v \in BOOLEAN : c = [t EXCEPT !.aborted = v] =>
                 c \in Handler /\ c.st = t.st /\ c.streams = t.streams
<1>1. ASSUME NEW v \in {"none", "queued", "plain", "streaming", "ended", "done", "answered"},
             c = [t EXCEPT !.st = v]
      PROVE  c \in Handler /\ c.st = v /\ c.streams = t.streams
  BY <1>1 DEF Handler
<1>2. ASSUME NEW v \in BOOLEAN, c = [t EXCEPT !.aborted = v]
      PROVE  c \in Handler /\ c.st = t.st /\ c.streams = t.streams
  BY <1>2 DEF Handler
<1> QED BY <1>1, <1>2

\* The step that the handler of request j makes at end e.
Handled(e, j, v) ==
    /\ UNCHANGED <<open, next, calls, taps>>
    /\ work' = [work EXCEPT ![e][j].st = v]
    /\ \A i \in VmIds \ {j} : i \in producing'[e] <=> i \in producing[e]
    /\ producing' \in [VmEnds -> SUBSET VmIds] /\ \A d \in VmEnds \ {e} : producing'[d] = producing[d]
    /\ items' \in [VmEnds -> [VmIds -> 0 .. MaxItems]]

\* Its requests are not the other end's, and the frames it sends answer.
LEMMA HandledKeeps ==
    ASSUME ChannelTypes, NEW e, NEW o, ChannelAt(e, o), NEW j \in VmIds,
           NEW v \in {"none", "queued", "plain", "streaming", "ended", "done", "answered"},
           Handled(e, j, v), NEW f \in VmFrame, f.id = j, f.kind \notin Asks,
           frames' = frames \/ Arrives(frames', e, o, f),
           final' \in [VmEnds -> [VmIds -> 0 .. 2]],
           \A c \in VmEnds, d \in VmIds : (c # e \/ d # j) => final'[c][d] = final[c][d],
           RequestOK(o, e, j)'
    PROVE  ChannelIInv'
<1>1. PICK t : t = [work[e][j] EXCEPT !.st = v]
  OBVIOUS
<1>2. work' = [work EXCEPT ![e][j] = t]
  BY <1>1 DEF Handled
<1>3. t \in Handler
  <2>1. work[e][j] \in Handler
    BY DEF ChannelTypes, ChannelAt
  <2> QED BY <1>1, <2>1, HandlerSet
<1>4. e \in VmEnds /\ o \in VmEnds /\ e # o
  BY DEF ChannelAt
<1>5. /\ work' \in [VmEnds -> [VmIds -> Handler]]
      /\ \A c \in VmEnds, d \in VmIds : (c # e \/ d # j) => work'[c][d] = work[c][d]
  BY <1>2, <1>3, <1>4, TwoLevels DEF ChannelTypes
<1>6. /\ frames' \in [VmEnds -> Seq(VmFrame)] /\ frames'[e] = frames[e]
      /\ \A i, K : Has(frames[o], i, K) => Has(frames'[o], i, K)
      /\ \A i : Has(frames'[o], i, Asks) => Has(frames[o], i, Asks)
      /\ AsksOnce(frames'[o])
  <2>1. CASE frames' = frames
    BY <2>1 DEF ChannelTypes, ChannelAt
  <2>2. CASE Arrives(frames', e, o, f)
    BY <2>2 DEF Arrives
  <2> QED BY <2>1, <2>2
<1>7. ChannelTypes'
  BY <1>5, <1>6 DEF ChannelTypes, Handled
<1>8. AsksOnce(frames[e])' /\ AsksOnce(frames[o])'
  BY <1>6 DEF ChannelAt
<1>9. ASSUME NEW i \in VmIds PROVE RequestOK(e, o, i)'
  <2>1. Kept(e, o, i)
    BY <1>4, <1>5, <1>6 DEF Kept, Handled
  <2> QED BY <2>1, RequestKept DEF ChannelAt
<1>10. ASSUME NEW i \in VmIds, i # j PROVE RequestOK(o, e, i)'
  <2>1. Kept(o, e, i)
    BY <1>4, <1>5, <1>6, <1>10 DEF Kept, Handled
  <2> QED BY <2>1, RequestKept DEF ChannelAt
<1> QED BY <1>4, <1>7, <1>8, <1>9, <1>10, ChannelIsKept

LEMMA HandledOne ==
    ASSUME ChannelTypes, NEW e, NEW o, ChannelAt(e, o), NEW j \in VmIds,
           NEW v \in {"none", "queued", "plain", "streaming", "ended", "done", "answered"},
           Handled(e, j, v)
    PROVE  work'[e][j].st = v /\ work'[e][j].streams = work[e][j].streams
<1>1. PICK t : t = [work[e][j] EXCEPT !.st = v]
  OBVIOUS
<1>2. t.st = v /\ t.streams = work[e][j].streams
  <2>1. work[e][j] \in Handler
    BY DEF ChannelTypes, ChannelAt
  <2> QED BY <1>1, <2>1, HandlerSet
<1>3. work' = [work EXCEPT ![e][j] = t]
  BY <1>1 DEF Handled
<1> QED BY <1>2, <1>3 DEF ChannelTypes, ChannelAt

\* The handler goes on, with nothing or with one more item sent.
LEMMA ChannelHandler ==
    ASSUME ChannelIInv, NEW e \in VmEnds, NEW j \in VmIds,
           Channel!Start(e, j) \/ Channel!GoStream(e, j) \/ Channel!Push(e, j)
    PROVE  ChannelIInv'
<1> DEFINE o == Channel!Other(e)
<1>1. ChannelTypes /\ ChannelAt(e, o)
  BY AtAnEnd
<1> HIDE DEF o
<1>2. PICK f : f = Channel!Frame("data", j, 0)
  OBVIOUS
<1>3. f \in VmFrame /\ f.id = j /\ f.kind = "data" /\ f.kind \notin Asks
  <2>1. "data" \in Channel!Kinds /\ 0 \in 0 .. MaxIds
    BY ChannelBounds DEF Channel!Kinds
  <2> QED BY <1>2, <2>1, FrameIsOne DEF Asks
<1>4. PICK v \in {"plain", "streaming"} :
          /\ Handled(e, j, v)
          /\ work[e][j].st \in {"queued", "plain", "streaming"}
          /\ v = "plain" => work[e][j].st = "queued" /\ producing' = producing
          /\ v = "streaming" => work[e][j].streams
                                  \/ (work[e][j].st = "streaming" /\ producing' = producing)
          /\ frames' = frames \/ frames' = Channel!Sent(e, f)
  <2>1. CASE Channel!Start(e, j)
    BY <1>1, <2>1 DEF Channel!Start, Handled, ChannelTypes
  <2>2. CASE Channel!GoStream(e, j)
    <3>1. producing' = [producing EXCEPT ![e] = @ \cup {j}]
      BY <2>2 DEF Channel!GoStream
    <3>2. /\ producing' \in [VmEnds -> SUBSET VmIds]
          /\ producing'[e] = producing[e] \cup {j}
          /\ \A d \in VmEnds \ {e} : producing'[d] = producing[d]
      BY <1>1, <3>1 DEF ChannelTypes
    <3> QED BY <1>1, <2>2, <3>2 DEF Channel!GoStream, Handled, ChannelTypes
  <2>3. CASE Channel!Push(e, j)
    <3>1. items[e][j] + 1 \in 0 .. MaxItems
      <4>1. items[e][j] \in 0 .. MaxItems
        BY <1>1 DEF ChannelTypes
      <4>2. items[e][j] < MaxItems
        BY <2>3 DEF Channel!Push
      <4> QED BY <4>1, <4>2, ChannelBounds
    <3>2. items' = [items EXCEPT ![e][j] = items[e][j] + 1]
      BY <2>3 DEF Channel!Push
    <3>3. items' \in [VmEnds -> [VmIds -> 0 .. MaxItems]]
      BY <1>1, <3>1, <3>2, TwoLevels DEF ChannelTypes
    <3>4. work' = [work EXCEPT ![e][j].st = "streaming"]
      <4>1. PICK t : t = [work[e][j] EXCEPT !.st = "streaming"]
        OBVIOUS
      <4>2. t = work[e][j]
        <5>1. PICK w : w = work[e][j]
          OBVIOUS
        <5>2. w \in Handler /\ w.st = "streaming"
          BY <1>1, <2>3, <5>1 DEF ChannelTypes, Channel!Push
        <5>3. [w EXCEPT !.st = "streaming"] = w
          BY <5>2 DEF Handler
        <5> QED BY <4>1, <5>1, <5>3
      <4>3. work' = [work EXCEPT ![e][j] = t]
        BY <1>1, <2>3, <4>2 DEF ChannelTypes, Channel!Push
      <4> QED BY <4>1, <4>3
    <3>5. /\ work[e][j].st = "streaming" /\ frames' = Channel!Sent(e, f)
          /\ UNCHANGED <<open, next, calls, taps, producing>>
      BY <1>2, <2>3 DEF Channel!Push
    <3>6. producing' \in [VmEnds -> SUBSET VmIds]
      BY <1>1, <3>5 DEF ChannelTypes
    <3> QED BY <3>3, <3>4, <3>5, <3>6 DEF Handled
  <2> QED BY <2>1, <2>2, <2>3
<1>5. frames' = frames \/ Arrives(frames', e, o, f)
  BY <1>1, <1>3, <1>4, SentArrives
<1>6. final' = final
  BY DEF Channel!Start, Channel!GoStream, Channel!Push
<1>7. work'[e][j].st = v /\ work'[e][j].streams = work[e][j].streams
  BY <1>1, <1>4, HandledOne
<1>8. /\ frames'[e] = frames[e] /\ open' = open /\ next' = next /\ calls' = calls /\ taps' = taps
      /\ \A i, K : Has(frames[o], i, K) => Has(frames'[o], i, K)
      /\ \A i : Has(frames'[o], i, Asks) => Has(frames[o], i, Asks)
  BY <1>3, <1>4, <1>5 DEF Arrives, Handled
<1>9. RequestOK(o, e, j)'
  <2>1. RequestIsSomewhere(o, e, j) /\ CallIsTold(o, e, j) /\ TapIsTold(o, e, j)
    BY <1>1 DEF ChannelAt, RequestOK
  <2>2. j \in producing'[e] => v = "streaming"
    BY <1>1, <1>4, <2>1 DEF RequestIsSomewhere
  <2>3. RequestIsSomewhere(o, e, j)'
    BY <1>4, <1>6, <1>7, <1>8, <2>1, <2>2 DEF RequestIsSomewhere
  <2>4. CallIsTold(o, e, j)'
    BY <1>4, <1>7, <1>8, <2>1 DEF CallIsTold
  <2>5. TapIsTold(o, e, j)'
    BY <1>4, <1>7, <1>8, <2>1 DEF TapIsTold
  <2> QED BY <2>3, <2>4, <2>5 DEF RequestOK
<1>10. final' \in [VmEnds -> [VmIds -> 0 .. 2]]
  BY <1>1, <1>6 DEF ChannelTypes
<1> QED BY <1>1, <1>3, <1>4, <1>5, <1>6, <1>9, <1>10, HandledKeeps

\* The handler ends its stream, or its promise is settled.
LEMMA ChannelFinish ==
    ASSUME ChannelIInv, NEW e \in VmEnds, NEW j \in VmIds,
           Channel!End(e, j) \/ Channel!Return(e, j)
    PROVE  ChannelIInv'
<1> DEFINE o == Channel!Other(e)
<1>1. ChannelTypes /\ ChannelAt(e, o)
  BY AtAnEnd
<1> HIDE DEF o
<1>2. PICK k \in {"answer", "last"} : k = (IF work[e][j].st = "plain" THEN "answer" ELSE "last")
  OBVIOUS
<1>3. PICK f : f = Channel!Frame(k, j, 0)
  OBVIOUS
<1>4. f \in VmFrame /\ f.id = j /\ f.kind = k /\ f.kind \notin Asks
  <2>1. k \in Channel!Kinds /\ 0 \in 0 .. MaxIds
    BY ChannelBounds DEF Channel!Kinds
  <2> QED BY <1>3, <2>1, FrameIsOne DEF Asks
<1>5. PICK v \in {"ended", "done", "answered"} :
          /\ work' = [work EXCEPT ![e][j].st = v]
          /\ v = "answered" <=> work[e][j].st = "plain"
  <2>1. CASE Channel!End(e, j)
    BY <2>1 DEF Channel!End
  <2>2. CASE Channel!Return(e, j)
    <3>1. PICK v \in {"ended", "done", "answered"} :
              v = (IF work[e][j].st = "plain" THEN "answered" ELSE "done")
      OBVIOUS
    <3>2. work' = [work EXCEPT ![e][j].st = v]
      BY <2>2, <3>1 DEF Channel!Return
    <3> QED BY <3>1, <3>2
  <2> QED BY <2>1, <2>2
<1>6. /\ work[e][j].st \in {"plain", "streaming", "ended"}
      /\ \/ work[e][j].st = "ended" /\ frames' = frames /\ final' = final
         \/ /\ work[e][j].st # "ended" /\ frames' = Channel!Sent(e, f)
            /\ final' = [final EXCEPT ![e][j] = @ + 1]
      /\ UNCHANGED <<open, next, calls, taps, items>>
      /\ producing' = [producing EXCEPT ![e] = @ \ {j}]
  <2>1. CASE Channel!End(e, j)
    BY <1>2, <1>3, <2>1 DEF Channel!End
  <2>2. CASE Channel!Return(e, j)
    <3>1. CASE work[e][j].st = "ended"
      BY <2>2, <3>1 DEF Channel!Return
    <3>2. CASE work[e][j].st # "ended"
      BY <1>2, <1>3, <2>2, <3>2 DEF Channel!Return
    <3> QED BY <2>2, <3>1, <3>2 DEF Channel!Return
  <2> QED BY <2>1, <2>2
<1>7. /\ producing' \in [VmEnds -> SUBSET VmIds] /\ producing'[e] = producing[e] \ {j}
      /\ \A d \in VmEnds \ {e} : producing'[d] = producing[d]
  BY <1>1, <1>6 DEF ChannelTypes
<1>8. Handled(e, j, v)
  BY <1>1, <1>5, <1>6, <1>7 DEF Handled, ChannelTypes
<1>9. work'[e][j].st = v /\ work'[e][j].streams = work[e][j].streams
  BY <1>1, <1>8, HandledOne
<1>10. RequestIsSomewhere(o, e, j) /\ CallIsTold(o, e, j) /\ TapIsTold(o, e, j)
  BY <1>1 DEF ChannelAt, RequestOK
<1>11. PICK b \in {0, 1} : final' = [final EXCEPT ![e][j] = b]
  <2>1. CASE work[e][j].st = "ended"
    <3>1. final[e][j] \in {0, 1} /\ final' = final
      BY <1>6, <1>10, <2>1 DEF RequestIsSomewhere
    <3> QED BY <1>1, <3>1 DEF ChannelTypes, ChannelAt
  <2>2. CASE work[e][j].st # "ended"
    <3>1. final[e][j] = 0
      BY <1>6, <1>10, <2>2 DEF RequestIsSomewhere
    <3> QED BY <1>6, <2>2, <3>1
  <2> QED BY <2>1, <2>2
<1>12. /\ final' \in [VmEnds -> [VmIds -> 0 .. 2]] /\ final'[e][j] = b
       /\ \A c \in VmEnds, d \in VmIds : (c # e \/ d # j) => final'[c][d] = final[c][d]
  <2>1. b \in 0 .. 2
    OBVIOUS
  <2> QED BY <1>1, <1>11, <2>1, TwoLevels DEF ChannelTypes
<1>13. frames' = frames \/ Arrives(frames', e, o, f)
  BY <1>1, <1>4, <1>6, SentArrives
<1>14. /\ frames'[e] = frames[e]
       /\ \A i, K : Has(frames[o], i, K) => Has(frames'[o], i, K)
       /\ \A i : Has(frames'[o], i, Asks) => Has(frames[o], i, Asks)
       /\ work[e][j].st # "ended" /\ open[e] /\ open[o] => Has(frames'[o], j, {k})
  <2>1. work[e][j].st # "ended" => Arrives(frames', e, o, f)
    BY <1>1, <1>4, <1>6, SentArrives
  <2> QED BY <1>4, <1>6, <1>13, <2>1 DEF Arrives
<1>15. RequestOK(o, e, j)'
  <2>1. RequestIsSomewhere(o, e, j)'
    BY <1>5, <1>6, <1>7, <1>9, <1>10, <1>12, <1>14 DEF RequestIsSomewhere
  <2>2. CallIsTold(o, e, j)'
    BY <1>2, <1>5, <1>6, <1>9, <1>10, <1>14 DEF CallIsTold
  <2>3. TapIsTold(o, e, j)'
    BY <1>2, <1>5, <1>6, <1>9, <1>10, <1>14 DEF TapIsTold
  <2> QED BY <2>1, <2>2, <2>3 DEF RequestOK
<1> QED BY <1>1, <1>4, <1>8, <1>12, <1>13, <1>15, HandledKeeps

LEMMA ChannelClose ==
    ASSUME ChannelIInv, NEW e \in VmEnds, Channel!Close(e)
    PROVE  ChannelIInv'
<1> DEFINE o == Channel!Other(e)
<1>1. ChannelTypes /\ ChannelAt(e, o)
  BY AtAnEnd
<1> HIDE DEF o
<1>2. /\ open' \in [VmEnds -> BOOLEAN] /\ ~open'[e] /\ open'[o] = open[o]
      /\ frames' \in [VmEnds -> Seq(VmFrame)] /\ frames'[e] = <<>> /\ frames'[o] = frames[o]
      /\ producing' \in [VmEnds -> SUBSET VmIds] /\ producing'[e] = {}
      /\ producing'[o] = producing[o]
  <2>1. open' = [open EXCEPT ![e] = FALSE] /\ producing' = [producing EXCEPT ![e] = {}]
        /\ frames' = [frames EXCEPT ![e] = <<>>]
    BY DEF Channel!Close
  <2>2. open' \in [VmEnds -> BOOLEAN] /\ ~open'[e] /\ open'[o] = open[o]
    BY <1>1, <2>1 DEF ChannelTypes, ChannelAt
  <2>3. frames' \in [VmEnds -> Seq(VmFrame)] /\ frames'[e] = <<>> /\ frames'[o] = frames[o]
    BY <1>1, <2>1, EmptySeq DEF ChannelTypes, ChannelAt
  <2>4. producing' \in [VmEnds -> SUBSET VmIds] /\ producing'[e] = {}
        /\ producing'[o] = producing[o]
    BY <1>1, <2>1 DEF ChannelTypes, ChannelAt
  <2> QED BY <2>2, <2>3, <2>4
<1>3. next' = next /\ items' = items /\ final' = final
  BY DEF Channel!Close
<1>4. PICK cs : cs = [i \in VmIds |-> IF calls[e][i] = "pending" THEN "settled" ELSE calls[e][i]]
  OBVIOUS
<1>5. /\ calls' \in [VmEnds -> [VmIds -> {"none", "pending", "settled"}]]
      /\ calls'[o] = calls[o] /\ calls'[e] = cs
  <2>1. calls[e] \in [VmIds -> {"none", "pending", "settled"}]
    BY <1>1 DEF ChannelTypes, ChannelAt
  <2>2. cs \in [VmIds -> {"none", "pending", "settled"}]
    BY <1>4, <2>1
  <2>3. calls' = [calls EXCEPT ![e] = cs]
    BY <1>1, <1>4 DEF Channel!Close, Channel!Ids, VmIds, ChannelTypes, ChannelAt
  <2> QED BY <1>1, <2>2, <2>3 DEF ChannelTypes, ChannelAt
<1>6. PICK ts : ts = [i \in VmIds |->
                        IF taps[e][i].st \in {"live", "ended"}
                        THEN [taps[e][i] EXCEPT !.st = "ended", !.waiting = FALSE]
                        ELSE taps[e][i]]
  OBVIOUS
<1>7. \A i \in VmIds : /\ ts[i] \in Tap /\ ts[i].st # "live"
                       /\ ts[i].waiting => ts[i].st = taps[e][i].st /\ taps[e][i].waiting
                       /\ taps[e][i].st = "none" => ts[i].st = "none"
  <2> SUFFICES ASSUME NEW i \in VmIds
               PROVE  /\ ts[i] \in Tap /\ ts[i].st # "live"
                      /\ ts[i].waiting => ts[i].st = taps[e][i].st /\ taps[e][i].waiting
                      /\ taps[e][i].st = "none" => ts[i].st = "none"
    OBVIOUS
  <2>1. taps[e][i] \in Tap
    BY <1>1 DEF ChannelTypes, ChannelAt
  <2>2. CASE taps[e][i].st \in {"live", "ended"}
    <3>1. PICK s : s = [taps[e][i] EXCEPT !.st = "ended"]
      OBVIOUS
    <3>2. s \in Tap /\ s.st = "ended"
      BY <2>1, <3>1, TapSet
    <3>3. PICK c : c = [s EXCEPT !.waiting = FALSE]
      OBVIOUS
    <3>4. c \in Tap /\ c.st = "ended" /\ ~c.waiting
      <4>1. c \in Tap /\ c.st = s.st /\ c.waiting = FALSE
        BY <3>2, <3>3, TapSet
      <4> QED BY <3>2, <4>1
    <3>5. ts[i] = c
      BY <1>6, <2>2, <3>1, <3>3
    <3> QED BY <2>2, <3>4, <3>5
  <2>3. CASE taps[e][i].st \notin {"live", "ended"}
    BY <1>6, <2>1, <2>3
  <2> QED BY <2>2, <2>3
<1>8. taps' \in [VmEnds -> [VmIds -> Tap]] /\ taps'[o] = taps[o] /\ taps'[e] = ts
  <2>1. ts \in [VmIds -> Tap]
    BY <1>6, <1>7
  <2>2. taps' = [taps EXCEPT ![e] = ts]
    BY <1>1, <1>6 DEF Channel!Close, Channel!Ids, VmIds, ChannelTypes, ChannelAt
  <2> QED BY <1>1, <2>1, <2>2 DEF ChannelTypes, ChannelAt
<1>9. PICK ws : ws = [i \in VmIds |->
                        [work[e][i] EXCEPT !.aborted = @ \/ i \in producing[e]]]
  OBVIOUS
<1>10. \A i \in VmIds : /\ ws[i] \in Handler /\ ws[i].st = work[e][i].st
                        /\ ws[i].streams = work[e][i].streams
  <2> SUFFICES ASSUME NEW i \in VmIds
               PROVE  ws[i] \in Handler /\ ws[i].st = work[e][i].st
                        /\ ws[i].streams = work[e][i].streams
    OBVIOUS
  <2>1. work[e][i] \in Handler /\ work[e][i].aborted \in BOOLEAN
    BY <1>1 DEF ChannelTypes, ChannelAt, Handler
  <2>2. PICK b \in BOOLEAN : b = (work[e][i].aborted \/ i \in producing[e])
    BY Zenon
  <2>3. ws[i] = [work[e][i] EXCEPT !.aborted = b]
    BY <1>9, <2>2
  <2> QED BY <2>1, <2>3, HandlerSet
<1>11. work' \in [VmEnds -> [VmIds -> Handler]] /\ work'[o] = work[o] /\ work'[e] = ws
  <2>1. ws \in [VmIds -> Handler]
    BY <1>9, <1>10
  <2>2. work' = [work EXCEPT ![e] = ws]
    <3>1. work' = [work EXCEPT ![e] =
                     [i \in VmIds |-> [work[e][i] EXCEPT !.aborted = @ \/ i \in producing[e]]]]
      BY Zenon DEF Channel!Close, Channel!Ids, VmIds
    <3> QED BY <1>9, <3>1
  <2> QED BY <1>1, <2>1, <2>2 DEF ChannelTypes, ChannelAt
<1>12. ChannelTypes'
  BY <1>1, <1>2, <1>3, <1>5, <1>8, <1>11 DEF ChannelTypes
<1>13. /\ \A i, K : ~Has(frames'[e], i, K)
       /\ AsksOnce(frames'[e]) /\ AsksOnce(frames'[o])
  <2>1. DOMAIN frames'[e] = {}
    BY <1>2
  <2> QED BY <1>1, <1>2, <2>1 DEF Has, AsksOnce, ChannelAt
<1>14. ASSUME NEW i \in VmIds PROVE RequestOK(e, o, i)'
  <2>1. RequestIsSomewhere(e, o, i) /\ TapIsTold(e, o, i)
    BY <1>1 DEF ChannelAt, RequestOK
  <2>2. /\ calls'[e][i] # "pending" /\ (calls[e][i] = "none" => calls'[e][i] = "none")
    BY <1>4, <1>5
  <2>3. RequestIsSomewhere(e, o, i)'
    BY <1>2, <1>3, <1>7, <1>8, <1>11, <2>1, <2>2 DEF RequestIsSomewhere
  <2>4. CallIsTold(e, o, i)'
    BY <2>2 DEF CallIsTold
  <2>5. TapIsTold(e, o, i)'
    BY <1>7, <1>8, <2>1 DEF TapIsTold
  <2> QED BY <2>3, <2>4, <2>5 DEF RequestOK
<1>15. ASSUME NEW i \in VmIds PROVE RequestOK(o, e, i)'
  <2>1. Kept(o, e, i)
    BY <1>2, <1>3, <1>5, <1>8, <1>10, <1>11, <1>13 DEF Kept
  <2> QED BY <1>1, <2>1, RequestKept DEF ChannelAt
<1>16. AsksOnce(frames[e])' /\ AsksOnce(frames[o])'
  BY <1>13
<1> QED BY <1>1, <1>12, <1>14, <1>15, <1>16, ChannelIsKept

\* The first frame of a wire, and the wire without it.
Taken(e, o, f) ==
    /\ open[e] /\ f = Head(frames[e]) /\ f \in VmFrame
    /\ f.kind \in Channel!Kinds /\ f.id \in VmIds /\ f.target \in 0 .. MaxIds
    /\ Tail(frames[e]) \in Seq(VmFrame) /\ AsksOnce(Tail(frames[e]))
    /\ \A kinds : f.kind \in kinds => Has(frames[e], f.id, kinds)
    /\ \A i, kinds : Has(Tail(frames[e]), i, kinds) => Has(frames[e], i, kinds)
    /\ \A i, kinds : Has(frames[e], i, kinds) =>
          Has(Tail(frames[e]), i, kinds) \/ (f.id = i /\ f.kind \in kinds)
    /\ f.kind \in Asks => ~Has(Tail(frames[e]), f.id, Asks)
    /\ UNCHANGED <<open, next, items>>

LEMMA FrameIsTaken ==
    ASSUME ChannelTypes, NEW e, NEW o, ChannelAt(e, o), Channel!HandleFrame(e)
    PROVE  /\ Taken(e, o, Head(frames[e]))
           /\ IF Head(frames[e]).kind \in Asks THEN Channel!Inbound(e, Head(frames[e]))
              ELSE Channel!Outbound(e, Head(frames[e]))
<1>1. PICK q : q = frames[e]
  OBVIOUS
<1>2. q \in Seq(VmFrame) /\ q # <<>> /\ AsksOnce(q) /\ open[e]
  BY <1>1 DEF ChannelAt, Channel!HandleFrame
<1>3. PICK f : f = Head(q)
  OBVIOUS
<1>4. Tail(q) \in Seq(VmFrame) /\ f \in VmFrame /\ AsksOnce(Tail(q))
  BY <1>2, <1>3, HasTail
<1>5. \A kinds : f.kind \in kinds => Has(q, f.id, kinds)
  BY <1>2, <1>3, HasTail, Zenon
<1>6. \A i, kinds : Has(Tail(q), i, kinds) => Has(q, i, kinds)
  BY <1>2, HasTail, Zenon
<1>7. \A i, kinds : Has(q, i, kinds) => Has(Tail(q), i, kinds) \/ (f.id = i /\ f.kind \in kinds)
  BY <1>2, <1>3, HasTail, Zenon
<1>8. f.kind \in Asks => ~Has(Tail(q), f.id, Asks)
  BY <1>2, <1>3, HasTail, Zenon
<1>9. f.kind \in Channel!Kinds /\ f.id \in VmIds /\ f.target \in 0 .. MaxIds
  BY <1>4 DEF VmFrame
<1>10. UNCHANGED <<open, next, items>>
  BY DEF Channel!HandleFrame
<1>11. Taken(e, o, f)
  BY <1>1, <1>2, <1>3, <1>4, <1>5, <1>6, <1>7, <1>8, <1>9, <1>10, Zenon DEF Taken
<1>12. IF f.kind \in Asks THEN Channel!Inbound(e, f) ELSE Channel!Outbound(e, f)
  BY <1>1, <1>3 DEF Channel!HandleFrame, Asks
<1> QED BY <1>1, <1>3, <1>11, <1>12

\* A request reaches the handler.
LEMMA ChannelRequest ==
    ASSUME ChannelIInv, NEW e \in VmEnds, NEW o, o = Channel!Other(e),
           NEW f, Taken(e, o, f), f.kind \in {"call", "stream"}, Channel!Inbound(e, f)
    PROVE  ChannelIInv'
<1>1. ChannelTypes /\ ChannelAt(e, o)
  BY AtAnEnd
<1>2. PICK b \in BOOLEAN : b = (f.kind = "stream")
  OBVIOUS
<1>3. PICK j \in VmIds : j = f.id
  BY DEF Taken
<1>4. PICK t : t = [Channel!Idle EXCEPT !.st = "queued", !.streams = b]
  OBVIOUS
<1>5. t \in Handler /\ t.st = "queued" /\ t.streams = b
  BY <1>4 DEF Channel!Idle, Handler
<1>6. /\ work' = [work EXCEPT ![e][j] = t]
      /\ frames' = [frames EXCEPT ![e] = Tail(@)]
      /\ UNCHANGED <<calls, taps, producing, final>>
  BY <1>2, <1>3, <1>4 DEF Channel!Inbound
<1>7. /\ work' \in [VmEnds -> [VmIds -> Handler]] /\ work'[e][j] = t
      /\ \A c \in VmEnds, d \in VmIds : (c # e \/ d # j) => work'[c][d] = work[c][d]
  BY <1>1, <1>5, <1>6, TwoLevels DEF ChannelTypes
<1>8. /\ frames' \in [VmEnds -> Seq(VmFrame)]
      /\ frames'[e] = Tail(frames[e]) /\ frames'[o] = frames[o]
  BY <1>1, <1>6 DEF ChannelTypes, ChannelAt, Taken
<1>9. ChannelTypes'
  BY <1>1, <1>6, <1>7, <1>8 DEF ChannelTypes, Taken
<1>10. AsksOnce(frames[e])' /\ AsksOnce(frames[o])'
  BY <1>1, <1>8 DEF ChannelAt, Taken
<1>11. ASSUME NEW i \in VmIds PROVE RequestOK(e, o, i)'
  <2>1. Kept(e, o, i)
    <3>1. \A K \in {{"answer"}, {"last"}} : Has(frames[e], i, K) => Has(frames'[e], i, K)
      BY <1>8 DEF Taken
    <3> QED BY <1>1, <1>6, <1>7, <1>8, <3>1 DEF Kept, Taken, ChannelAt
  <2> QED BY <1>1, <2>1, RequestKept DEF ChannelAt
<1>12. ASSUME NEW i \in VmIds, i # j PROVE RequestOK(o, e, i)'
  <2>1. \A K : Has(frames'[e], i, K) <=> Has(frames[e], i, K)
    BY <1>3, <1>8, <1>12 DEF Taken
  <2>2. Kept(o, e, i)
    BY <1>1, <1>6, <1>7, <1>8, <1>12, <2>1 DEF Kept, Taken, ChannelAt
  <2> QED BY <1>1, <2>2, RequestKept DEF ChannelAt
<1>13. RequestOK(o, e, j)'
  <2>1. RequestIsSomewhere(o, e, j) /\ CallIsTold(o, e, j) /\ TapIsTold(o, e, j)
    BY <1>1 DEF ChannelAt, RequestOK
  <2>2. /\ Has(frames[e], j, Asks) /\ ~Has(frames'[e], j, Asks)
        /\ b = FALSE \/ f.kind \notin {"call", "$cancel"}
    BY <1>2, <1>3, <1>8 DEF Taken, Asks
  <2>3. /\ f.kind \notin {"call", "$cancel"} /\ Has(frames[e], j, {"call", "$cancel"})
             => Has(frames'[e], j, {"call", "$cancel"})
        /\ open' = open /\ next' = next
    BY <1>3, <1>8 DEF Taken
  <2>4. RequestIsSomewhere(o, e, j)'
    <3>1. j < next[o] /\ ~(j >= next[o])
      <4>1. j < next[o]
        BY <2>1, <2>2 DEF RequestIsSomewhere
      <4> QED BY <1>1, <4>1, ChannelBounds DEF ChannelAt
    <3> QED BY <1>5, <1>6, <1>7, <2>1, <2>2, <2>3, <3>1 DEF RequestIsSomewhere
  <2>5. CallIsTold(o, e, j)'
    BY <1>5, <1>6, <1>7, <1>8, <2>1, <2>2, <2>3 DEF CallIsTold, RequestIsSomewhere
  <2>6. TapIsTold(o, e, j)'
    BY <1>5, <1>6, <1>7, <1>8, <2>1, <2>3 DEF TapIsTold
  <2> QED BY <2>4, <2>5, <2>6 DEF RequestOK
<1> QED BY <1>1, <1>9, <1>10, <1>11, <1>12, <1>13, ChannelIsKept

\* A cancel aborts the stream it names and is answered at once.
LEMMA ChannelAbort ==
    ASSUME ChannelIInv, NEW e \in VmEnds, NEW o, o = Channel!Other(e),
           NEW f, Taken(e, o, f), f.kind = "$cancel", Channel!Inbound(e, f)
    PROVE  ChannelIInv'
<1>1. ChannelTypes /\ ChannelAt(e, o)
  BY AtAnEnd
<1>2. PICK j \in VmIds : j = f.id
  BY DEF Taken
<1>3. PICK g : g = Channel!Frame("answer", j, 0)
  OBVIOUS
<1>4. g \in VmFrame /\ g.id = j /\ g.kind = "answer" /\ g.kind \notin Asks
  <2>1. "answer" \in Channel!Kinds /\ 0 \in 0 .. MaxIds
    BY ChannelBounds DEF Channel!Kinds
  <2> QED BY <1>3, <2>1, FrameIsOne DEF Asks
<1>5. PICK w : w = Channel!Sent(e, g)
  OBVIOUS
<1>6. Arrives(w, e, o, g)
  BY <1>1, <1>4, <1>5, SentArrives
<1>7. /\ frames' = [w EXCEPT ![e] = Tail(@)]
      /\ producing' = [producing EXCEPT ![e] = @ \ {f.target}]
      /\ final' = [final EXCEPT ![e][j] = @ + 1]
      /\ UNCHANGED <<calls, taps>>
  BY <1>2, <1>3, <1>5 DEF Channel!Inbound
<1>8. /\ frames' \in [VmEnds -> Seq(VmFrame)]
      /\ frames'[e] = Tail(frames[e]) /\ frames'[o] = w[o]
  BY <1>1, <1>6, <1>7 DEF ChannelAt, Taken, Arrives
<1>9. /\ producing' \in [VmEnds -> SUBSET VmIds] /\ producing'[o] = producing[o]
      /\ producing'[e] \subseteq producing[e]
  BY <1>1, <1>7 DEF ChannelTypes, ChannelAt
<1>10. /\ work' \in [VmEnds -> [VmIds -> Handler]]
       /\ \A c \in VmEnds, d \in VmIds :
             work'[c][d].st = work[c][d].st /\ work'[c][d].streams = work[c][d].streams
  <2>1. PICK k : k = f.target
    OBVIOUS
  <2>2. CASE k \in VmIds
    <3>1. work[e][k] \in Handler /\ work[e][k].aborted \in BOOLEAN
      BY <1>1, <2>2 DEF ChannelTypes, ChannelAt, Handler
    <3>2. PICK b \in BOOLEAN : b = (work[e][k].aborted \/ k \in producing[e])
      BY Zenon
    <3>3. work' = [work EXCEPT ![e][k].aborted = b]
      <4>1. work' = [work EXCEPT ![e][k].aborted = @ \/ k \in producing[e]]
        BY <2>1, Zenon DEF Channel!Inbound
      <4> QED BY <1>1, <2>2, <3>2, <4>1 DEF ChannelTypes, ChannelAt
    <3>4. PICK t : t = [work[e][k] EXCEPT !.aborted = b]
      OBVIOUS
    <3>5. t \in Handler /\ t.st = work[e][k].st /\ t.streams = work[e][k].streams
      BY <3>1, <3>4, HandlerSet
    <3>6. work' = [work EXCEPT ![e][k] = t]
      BY <3>3, <3>4
    <3>7. /\ work' \in [VmEnds -> [VmIds -> Handler]] /\ work'[e][k] = t
          /\ \A c \in VmEnds, d \in VmIds : (c # e \/ d # k) => work'[c][d] = work[c][d]
      BY <1>1, <2>2, <3>5, <3>6, TwoLevels DEF ChannelTypes
    <3> QED BY <3>5, <3>7
  <2>3. CASE k \notin VmIds
    <3>1. PICK p : p = work[e]
      OBVIOUS
    <3>2. p \in [VmIds -> Handler]
      BY <1>1, <3>1 DEF ChannelTypes, ChannelAt
    <3>3. \A b : [p EXCEPT ![k].aborted = b] = p
      BY <2>3, <3>2
    <3>4. \E b : work' = [work EXCEPT ![e][k].aborted = b]
      BY <2>1 DEF Channel!Inbound
    <3>5. work' = [work EXCEPT ![e] = p]
      BY <3>1, <3>3, <3>4
    <3>6. work' = work
      BY <1>1, <3>1, <3>5 DEF ChannelTypes
    <3> QED BY <1>1, <3>6 DEF ChannelTypes
  <2> QED BY <2>2, <2>3
<1>11. RequestIsSomewhere(o, e, j) /\ CallIsTold(o, e, j) /\ TapIsTold(o, e, j)
  BY <1>1 DEF ChannelAt, RequestOK
<1>12. Has(frames[e], j, Asks) /\ ~Has(frames'[e], j, Asks)
  BY <1>2, <1>8 DEF Taken, Asks
<1>13. /\ final' \in [VmEnds -> [VmIds -> 0 .. 2]] /\ final'[e][j] = 1
       /\ \A c \in VmEnds, d \in VmIds : (c # e \/ d # j) => final'[c][d] = final[c][d]
  <2>1. final[e][j] = 0
    BY <1>11, <1>12 DEF RequestIsSomewhere
  <2>2. final' = [final EXCEPT ![e][j] = 1]
    BY <1>7, <2>1
  <2>3. 1 \in 0 .. 2
    OBVIOUS
  <2> QED BY <1>1, <2>2, <2>3, TwoLevels DEF ChannelTypes
<1>14. ChannelTypes'
  BY <1>1, <1>7, <1>8, <1>9, <1>10, <1>13 DEF ChannelTypes, Taken
<1>15. AsksOnce(frames[e])' /\ AsksOnce(frames[o])'
  BY <1>1, <1>4, <1>6, <1>8 DEF ChannelAt, Taken, Arrives
<1>16. /\ \A i, K : Has(frames[o], i, K) => Has(frames'[o], i, K)
       /\ \A i : Has(frames'[o], i, Asks) => Has(frames[o], i, Asks)
       /\ open[o] => Has(frames'[o], j, {"answer"})
  BY <1>4, <1>6, <1>8 DEF Arrives, Taken
<1>17. open' = open /\ next' = next /\ open[e] /\ e \in VmEnds /\ o \in VmEnds /\ e # o
  BY <1>1 DEF Taken, ChannelAt
<1>18. ASSUME NEW i \in VmIds PROVE RequestOK(e, o, i)'
  <2>1. Kept(e, o, i)
    <3>1. /\ Has(frames[e], i, {"answer"}) => Has(frames'[e], i, {"answer"})
          /\ Has(frames[e], i, {"last"}) => Has(frames'[e], i, {"last"})
      BY <1>8 DEF Taken
    <3>2. /\ work'[o][i].st = work[o][i].st /\ work'[o][i].streams = work[o][i].streams
          /\ final'[o][i] = final[o][i]
      BY <1>10, <1>13, <1>17
    <3> QED BY <1>7, <1>9, <1>16, <1>17, <3>1, <3>2 DEF Kept
  <2> QED BY <1>1, <2>1, RequestKept DEF ChannelAt
<1>19. ASSUME NEW i \in VmIds, i # j PROVE RequestOK(o, e, i)'
  <2>1. \A K : Has(frames'[e], i, K) <=> Has(frames[e], i, K)
    BY <1>2, <1>8, <1>19 DEF Taken
  <2>2. Kept(o, e, i)
    BY <1>7, <1>9, <1>10, <1>13, <1>16, <1>19, <1>17, <2>1 DEF Kept
  <2> QED BY <1>1, <2>2, RequestKept DEF ChannelAt
<1>20. RequestOK(o, e, j)'
  <2>1. ~(j >= next[o])
    <3>1. j < next[o]
      BY <1>11, <1>12 DEF RequestIsSomewhere
    <3> QED BY <1>1, <3>1, ChannelBounds DEF ChannelAt
  <2>2. RequestIsSomewhere(o, e, j)'
    BY <1>7, <1>9, <1>10, <1>11, <1>12, <1>13, <1>17, <2>1 DEF RequestIsSomewhere
  <2>3. CallIsTold(o, e, j)'
    BY <1>7, <1>11, <1>16, <1>17 DEF CallIsTold
  <2>4. Has(frames[e], j, {"stream"}) => Has(frames'[e], j, {"stream"})
    BY <1>8 DEF Taken
  <2>5. TapIsTold(o, e, j)'
    BY <1>7, <1>10, <1>11, <1>16, <1>17, <2>4 DEF TapIsTold
  <2> QED BY <2>2, <2>3, <2>5 DEF RequestOK
<1> QED BY <1>1, <1>14, <1>15, <1>18, <1>19, <1>20, ChannelIsKept

\* What answers settles the call of its number, or reaches the stream's consumer.
LEMMA ChannelAnswer ==
    ASSUME ChannelIInv, NEW e \in VmEnds, NEW o, o = Channel!Other(e),
           NEW f, Taken(e, o, f), f.kind \notin Asks, Channel!Outbound(e, f)
    PROVE  ChannelIInv'
<1>1. ChannelTypes /\ ChannelAt(e, o)
  BY AtAnEnd
<1>2. PICK j \in VmIds : j = f.id
  BY DEF Taken
<1>3. f.kind \in {"answer", "data", "last"}
  BY DEF Taken, Channel!Kinds, Asks
<1>4. /\ open' = open /\ next' = next /\ open[e] /\ items' = items
      /\ UNCHANGED <<work, producing, final>>
      /\ e \in VmEnds /\ o \in VmEnds /\ e # o
  BY <1>1 DEF Taken, ChannelAt, Channel!Outbound
<1>5. /\ frames' \in [VmEnds -> Seq(VmFrame)]
      /\ frames'[e] = Tail(frames[e]) /\ frames'[o] = frames[o]
  <2>1. frames' = [frames EXCEPT ![e] = Tail(@)]
    BY DEF Channel!Outbound
  <2> QED BY <1>1, <2>1 DEF ChannelTypes, ChannelAt, Taken
<1>6. /\ \A i, K : Has(frames'[e], i, K) => Has(frames[e], i, K)
      /\ \A i, K : i # j \/ f.kind \notin K => (Has(frames[e], i, K) => Has(frames'[e], i, K))
  BY <1>2, <1>5 DEF Taken
<1>7. AsksOnce(frames[e])' /\ AsksOnce(frames[o])'
  BY <1>1, <1>5 DEF ChannelAt, Taken
<1>8. RequestIsSomewhere(e, o, j) /\ CallIsTold(e, o, j) /\ TapIsTold(e, o, j)
  BY <1>1 DEF ChannelAt, RequestOK
<1>9. \A i : Has(frames[e], i, Asks) => Has(frames'[e], i, Asks)
  BY <1>6
\* Only the request of the frame's number is touched.
<1>10. /\ calls' \in [VmEnds -> [VmIds -> {"none", "pending", "settled"}]]
       /\ taps' \in [VmEnds -> [VmIds -> Tap]]
       /\ \A c \in VmEnds, d \in VmIds : (c # e \/ d # j) =>
             calls'[c][d] = calls[c][d] /\ taps'[c][d] = taps[c][d]
       /\ CallIsTold(e, o, j)' /\ TapIsTold(e, o, j)'
       /\ calls[e][j] = "none" => calls'[e][j] = "none"
       /\ taps[e][j].st = "none" => taps'[e][j].st = "none"
  <2>1. CASE f.kind = "answer"
    <3>1. PICK v \in {"none", "pending", "settled"} :
              v = (IF calls[e][j] = "pending" THEN "settled" ELSE calls[e][j])
      BY <1>1 DEF ChannelTypes, ChannelAt
    <3>2. calls' = [calls EXCEPT ![e][j] = v] /\ taps' = taps
      BY <1>1, <1>2, <2>1, <3>1 DEF Channel!Outbound, ChannelTypes, ChannelAt
    <3>3. /\ calls' \in [VmEnds -> [VmIds -> {"none", "pending", "settled"}]]
          /\ calls'[e][j] = v
          /\ \A c \in VmEnds, d \in VmIds : (c # e \/ d # j) => calls'[c][d] = calls[c][d]
      BY <1>1, <3>2, TwoLevels DEF ChannelTypes
    <3>4. CallIsTold(e, o, j)'
      BY <3>1, <3>3 DEF CallIsTold
    <3>5. Has(frames[e], j, {"last"}) => Has(frames'[e], j, {"last"})
      BY <1>6, <2>1
    <3>6. TapIsTold(e, o, j)'
      BY <1>4, <1>5, <1>8, <3>2, <3>5 DEF TapIsTold
    <3>7. taps' \in [VmEnds -> [VmIds -> Tap]]
      BY <1>1, <3>2 DEF ChannelTypes
    <3>8. calls[e][j] = "none" => calls'[e][j] = "none"
      BY <3>1, <3>3
    <3> QED BY <3>2, <3>3, <3>4, <3>6, <3>7, <3>8
  <2>2. CASE f.kind \in {"data", "last"}
    <3>1. PICK v \in {"live", "ended"} : v = (IF f.kind = "data" THEN "live" ELSE "ended")
      OBVIOUS
    <3>2. PICK s : s = [taps[e][j] EXCEPT !.waiting = FALSE]
      OBVIOUS
    <3>3. PICK t : t = [s EXCEPT !.st = v]
      OBVIOUS
    <3>4. taps[e][j] \in Tap
      BY <1>1 DEF ChannelTypes, ChannelAt
    <3>5. s \in Tap /\ s.waiting = FALSE
      <4>1. PICK b \in BOOLEAN : b = FALSE
        OBVIOUS
      <4>2. s = [taps[e][j] EXCEPT !.waiting = b]
        BY <3>2, <4>1
      <4>3. s \in Tap /\ s.waiting = b
        BY <3>4, <4>2, TapSet
      <4> QED BY <4>1, <4>3
    <3>6. t \in Tap /\ t.st = v /\ t.waiting = FALSE
      BY <3>3, <3>5, TapSet
    <3>7. PICK u : u = (IF taps[e][j].st # "live" THEN taps[e][j] ELSE t)
      OBVIOUS
    <3>8. u \in Tap
      BY <3>4, <3>6, <3>7
    <3>9. taps' = [taps EXCEPT ![e][j] = u] /\ calls' = calls
      <4>1. CASE taps[e][j].st # "live"
        BY <1>1, <1>2, <2>2, <3>7, <4>1 DEF Channel!Outbound, ChannelTypes, ChannelAt
      <4>2. CASE taps[e][j].st = "live"
        BY <1>1, <1>2, <2>2, <3>1, <3>2, <3>3, <3>7, <4>2
           DEF Channel!Outbound, ChannelTypes, ChannelAt
      <4> QED BY <4>1, <4>2
    <3>10. /\ taps' \in [VmEnds -> [VmIds -> Tap]] /\ taps'[e][j] = u
           /\ \A c \in VmEnds, d \in VmIds : (c # e \/ d # j) => taps'[c][d] = taps[c][d]
      BY <1>1, <3>8, <3>9, TwoLevels DEF ChannelTypes
    <3>11. Has(frames[e], j, {"answer"}) => Has(frames'[e], j, {"answer"})
      BY <1>6, <2>2
    <3>12. CallIsTold(e, o, j)'
      BY <1>4, <1>5, <1>8, <3>9, <3>11 DEF CallIsTold
    <3>13. f.kind = "data" => (Has(frames[e], j, {"last"}) => Has(frames'[e], j, {"last"}))
      BY <1>6
    <3>14. TapIsTold(e, o, j)'
      <4>1. CASE taps[e][j].st # "live"
        BY <1>8, <3>7, <3>10, <4>1 DEF TapIsTold
      <4>2. CASE taps[e][j].st = "live"
        BY <1>4, <1>5, <1>8, <3>1, <3>6, <3>7, <3>10, <3>13, <4>2 DEF TapIsTold
      <4> QED BY <4>1, <4>2
    <3>15. calls' \in [VmEnds -> [VmIds -> {"none", "pending", "settled"}]]
      BY <1>1, <3>9 DEF ChannelTypes
    <3>16. taps[e][j].st = "none" => taps'[e][j].st = "none"
      BY <3>7, <3>10
    <3> QED BY <3>9, <3>10, <3>12, <3>14, <3>15, <3>16
  <2> QED BY <1>3, <2>1, <2>2
<1>11. ChannelTypes'
  BY <1>1, <1>4, <1>5, <1>10 DEF ChannelTypes
<1>12. ASSUME NEW i \in VmIds, i # j PROVE RequestOK(e, o, i)'
  <2>1. /\ calls'[e][i] = calls[e][i] /\ taps'[e][i] = taps[e][i]
        /\ Has(frames[e], i, {"answer"}) => Has(frames'[e], i, {"answer"})
        /\ Has(frames[e], i, {"last"}) => Has(frames'[e], i, {"last"})
    BY <1>4, <1>6, <1>10, <1>12
  <2>2. Kept(e, o, i)
    BY <1>4, <1>5, <2>1 DEF Kept
  <2> QED BY <1>1, <2>2, RequestKept DEF ChannelAt
<1>13. RequestOK(e, o, j)'
  <2>1. RequestIsSomewhere(e, o, j)'
    BY <1>4, <1>5, <1>8, <1>10 DEF RequestIsSomewhere
  <2> QED BY <1>10, <2>1 DEF RequestOK
<1>14. ASSUME NEW i \in VmIds PROVE RequestOK(o, e, i)'
  <2>1. /\ calls'[o][i] = calls[o][i] /\ taps'[o][i] = taps[o][i]
        /\ Has(frames'[e], i, Asks) => Has(frames[e], i, Asks)
    BY <1>4, <1>6, <1>10
  <2>2. /\ Has(frames[e], i, {"call", "$cancel"}) => Has(frames'[e], i, {"call", "$cancel"})
        /\ Has(frames[e], i, {"stream"}) => Has(frames'[e], i, {"stream"})
    BY <1>3, <1>6
  <2>3. Kept(o, e, i)
    BY <1>4, <1>5, <2>1, <2>2 DEF Kept
  <2> QED BY <1>1, <2>3, RequestKept DEF ChannelAt
<1> QED BY <1>1, <1>7, <1>11, <1>12, <1>13, <1>14, ChannelIsKept

LEMMA ChannelStays ==
    ASSUME ChannelIInv, UNCHANGED Channel!channelVars
    PROVE  ChannelIInv'
<1>1. ChannelTypes'
  BY DEF ChannelIInv, ChannelTypes, Channel!channelVars
<1>2. \A e \in VmEnds : AsksOnce(frames[e])'
  BY DEF ChannelIInv, Channel!channelVars, AsksOnce
<1>3. ASSUME NEW e \in VmEnds, NEW i \in VmIds PROVE RequestOK(e, Channel!Other(e), i)'
  <2>1. PICK o : o = Channel!Other(e)
    OBVIOUS
  <2>2. RequestOK(e, o, i)
    BY <2>1 DEF ChannelIInv
  <2>3. Kept(e, o, i)
    BY DEF Kept, Channel!channelVars
  <2>4. RequestOK(e, o, i)'
    BY <2>2, <2>3, RequestKept
  <2> QED BY <2>1, <2>4
<1> QED BY <1>1, <1>2, <1>3 DEF ChannelIInv

LEMMA ChannelNext ==
    ASSUME ChannelIInv, [Channel!Next]_(Channel!channelVars)
    PROVE  ChannelIInv'
<1>1. CASE UNCHANGED Channel!channelVars
  BY <1>1, ChannelStays
<1>2. ASSUME NEW e \in VmEnds, Channel!HandleFrame(e) PROVE ChannelIInv'
  <2>1. PICK o : o = Channel!Other(e)
    OBVIOUS
  <2>2. PICK f : f = Head(frames[e])
    OBVIOUS
  <2>3. /\ Taken(e, o, f)
        /\ IF f.kind \in Asks THEN Channel!Inbound(e, f) ELSE Channel!Outbound(e, f)
    BY <1>2, <2>1, <2>2, AtAnEnd, FrameIsTaken
  <2>4. CASE f.kind \notin Asks
    BY <2>1, <2>3, <2>4, ChannelAnswer
  <2>5. CASE f.kind = "$cancel"
    <3>1. Channel!Inbound(e, f)
      BY <2>3, <2>5 DEF Asks
    <3> QED BY <2>1, <2>3, <2>5, <3>1, ChannelAbort
  <2>6. CASE f.kind \in {"call", "stream"}
    <3>1. Channel!Inbound(e, f)
      BY <2>3, <2>6 DEF Asks
    <3> QED BY <2>1, <2>3, <2>6, <3>1, ChannelRequest
  <2> QED BY <2>4, <2>5, <2>6 DEF Asks
<1>3. ASSUME NEW e \in VmEnds, NEW i \in VmIds,
             \/ Channel!Await(e, i) \/ Channel!Cancel(e, i) \/ Channel!CancelReturns(e, i)
             \/ Channel!Start(e, i) \/ Channel!GoStream(e, i) \/ Channel!Push(e, i)
             \/ Channel!End(e, i) \/ Channel!Return(e, i)
      PROVE  ChannelIInv'
  BY <1>3, ChannelTap, ChannelCancel, ChannelHandler, ChannelFinish
<1> QED BY <1>1, <1>2, <1>3, ChannelCall, ChannelStream, ChannelClose
    DEF Channel!Next, Channel!Ids, VmIds, VmEnds

\* On a session and on a channel, a request is answered once, and whoever waits
\* has a frame, a handler or a report of the end still to come.
THEOREM OneAnswerEach == ConnectionSpec => []OneAnswer
<1>1. ConnectionSpec => [](Channel!TypeOK /\ Channel!OneLastFrame /\ Channel!EveryoneIsTold)
  BY ChannelInitially, ChannelNext, ChannelHolds, ConnectionsRunChannel, PTL
<1>2. (Session!TypeOK /\ Session!OneAnswerNoLeak)
        /\ (Channel!TypeOK /\ Channel!OneLastFrame /\ Channel!EveryoneIsTold) => OneAnswer
  BY DEF OneAnswer
<1> QED BY <1>1, <1>2, RequestsAnsweredOnce, PTL
=============================================================================
