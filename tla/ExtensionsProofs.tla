-------------------------- MODULE ExtensionsProofs --------------------------
(***************************************************************************)
(* The extensions, for every bound on what happens to them.  One part moves *)
(* in a behaviour of ExtensionSpec, so that each part's own next-state      *)
(* relation holds of it (the ExtensionsRun... lemmas), and what is proved   *)
(* of the part is proved of the whole.                                     *)
(***************************************************************************)
EXTENDS Extensions, FiniteSetTheorems, SequenceTheorems, TLAPS

----------------------------------------------------------------------------
(* The socket of Slack *)

LEMMA ExtensionsRunSlack == ExtensionSpec => Init /\ [][Next]_slackVars
<1>1. ExtensionInit => Init
  BY DEF ExtensionInit
<1>2. [ExtensionNext]_extensionVars => [Next]_slackVars
  BY DEF ExtensionNext, extensionVars, SlackStep, HostStep, DiscordStep, TelegramStep,
         ReplyStep, BridgeStep, StreamStep, InboxStep
<1> QED BY <1>1, <1>2, PTL DEF ExtensionSpec

\* Until it is unloaded, generations are those that were dialed, none before
\* the token was checked and one at least after.
GenerationsAreDialed ==
    /\ slackLife # "unloaded" => socketGen <= SlackDials
    /\ slackLife = "booting" =>
           ~disabled /\ timers = 0 /\ \A g \in Generations : socket[g] = "none"
    /\ slackLife = "running" /\ ~disabled => socketGen >= 1

\* What the adapter remembers, and what became of it.
Memory(e) ==
    LET known == e \in Range(seenEventIds)
    IN  /\ slackLife # "unloaded" =>
               /\ published[e] > 0 \/ e \in resolving => known \/ e \in forgotten
               /\ known \/ e \notin unacked => published[e] > 0 \/ e \in resolving
               /\ e \in resolving => published[e] = 0 \/ e \in forgotten
        /\ e \notin forgotten => published[e] <= 1

SlackIInv ==
    /\ TypeOK /\ seenEventIds \in Seq(SlackEvents)
    /\ GenerationsAreDialed /\ NeverStranded
    /\ \A e \in SlackEvents : Memory(e)

\* What the memory holds after another id, and after the oldest made room.
LEMMA RangeAppended ==
    ASSUME NEW S, NEW q \in Seq(S), NEW x \in S
    PROVE  Range(Append(q, x)) = Range(q) \cup {x}
<1>1. /\ Len(q) \in Nat /\ DOMAIN q = 1 .. Len(q) /\ DOMAIN Append(q, x) = 1 .. Len(q) + 1
      /\ \A i \in 1 .. Len(q) : Append(q, x)[i] = q[i]
      /\ Append(q, x)[Len(q) + 1] = x
  BY LenProperties, AppendProperties
<1>2. \A i \in 1 .. Len(q) + 1 : i \in 1 .. Len(q) \/ i = Len(q) + 1
  BY <1>1
<1>3. Len(q) + 1 \in 1 .. Len(q) + 1 /\ \A i \in 1 .. Len(q) : i \in 1 .. Len(q) + 1
  BY <1>1
<1>4. PICK app : app = Append(q, x)
  OBVIOUS
<1>5. {app[i] : i \in DOMAIN app} = {q[i] : i \in DOMAIN q} \cup {x}
  BY <1>1, <1>2, <1>3, <1>4
<1> QED BY <1>4, <1>5 DEF Range

LEMMA RangeOfTail ==
    ASSUME NEW S, NEW q \in Seq(S), q # <<>>
    PROVE  /\ Range(q) \subseteq S /\ Head(q) \in Range(q)
           /\ Range(q) = Range(Tail(q)) \cup {Head(q)}
<1>1. /\ Len(q) \in Nat \ {0} /\ DOMAIN q = 1 .. Len(q) /\ Head(q) = q[1]
      /\ DOMAIN Tail(q) = 1 .. Len(q) - 1
      /\ \A i \in 1 .. Len(q) - 1 : Tail(q)[i] = q[i + 1]
  <2>1. Len(q) \in Nat \ {0} /\ DOMAIN q = 1 .. Len(q)
    BY LenProperties, EmptySeq
  <2>2. Tail(q) \in Seq(S) /\ Len(Tail(q)) = Len(q) - 1
    BY HeadTailProperties
  <2> QED BY <2>1, <2>2, HeadTailProperties, LenProperties
<1>2. \A i \in 1 .. Len(q) : i = 1 \/ i - 1 \in 1 .. Len(q) - 1
  BY <1>1
<1>3. 1 \in 1 .. Len(q) /\ \A i \in 1 .. Len(q) - 1 : i + 1 \in 1 .. Len(q)
  BY <1>1
<1>4. \A i \in 1 .. Len(q) : i - 1 \in 1 .. Len(q) - 1 => Tail(q)[i - 1] = q[i]
  BY <1>1
<1>5. \A i \in 1 .. Len(q) : q[i] \in S
  BY ElementOfSeq
<1>6. PICK t : t = Tail(q)
  OBVIOUS
<1>7. \A i \in DOMAIN q : q[i] \in {t[j] : j \in DOMAIN t} \cup {q[1]}
  BY <1>1, <1>2, <1>4, <1>6
<1>8. \A j \in DOMAIN t : t[j] \in {q[i] : i \in DOMAIN q}
  BY <1>1, <1>3, <1>6
<1>9. {q[i] : i \in DOMAIN q} = {t[i] : i \in DOMAIN t} \cup {q[1]}
  BY <1>1, <1>3, <1>7, <1>8
<1> QED BY <1>1, <1>3, <1>5, <1>6, <1>9 DEF Range

LEMMA SlackInit == Init => SlackIInv
<1> SUFFICES ASSUME Init PROVE SlackIInv
  OBVIOUS
<1>1. SlackDials \in Nat /\ SeenEventCap \in Nat
  BY SlackAssumption
<1>2. seenEventIds \in Seq(SlackEvents) /\ Len(seenEventIds) = 0 /\ Range(seenEventIds) = {}
  BY EmptySeq DEF Init, Range
<1>3. TypeOK
  <2>1. socket \in [Generations -> {"none", "opening", "open", "closed"}]
    BY DEF Init
  <2>2. published \in [SlackEvents -> 0 .. 2]
    BY DEF Init
  <2>3. /\ Range(seenEventIds) \subseteq SlackEvents /\ Len(seenEventIds) <= SeenEventCap
        /\ 0 \in 0 .. SlackDials + 1 /\ 0 \in 0 .. SlackDials /\ 0 \in 0 .. 2
    BY <1>1, <1>2
  <2> QED BY <2>1, <2>2, <2>3 DEF Init, TypeOK
<1>4. \A e \in SlackEvents : Memory(e)
  BY <1>2 DEF Init, Memory
<1> QED BY <1>1, <1>2, <1>3, <1>4 DEF Init, SlackIInv, GenerationsAreDialed, NeverStranded

\* Steps of the socket leave the events alone, and the other way round.
LEMMA SlackSocketSteps ==
    ASSUME SlackIInv, UNCHANGED eventVars, slackLife' # "unloaded" \/ slackLife' = slackLife,
           slackLife = "unloaded" => slackLife' = "unloaded",
           TypeOK', GenerationsAreDialed', NeverStranded'
    PROVE  SlackIInv'
BY DEF SlackIInv, eventVars, Memory

LEMMA SlackBoot == ASSUME SlackIInv, Boot PROVE SlackIInv'
<1>1. SlackDials \in Nat
  BY SlackAssumption
<1>2. TypeOK'
  BY <1>1 DEF SlackIInv, TypeOK, GenerationsAreDialed, Boot, Dial, Idle, eventVars, Generations
<1>3. GenerationsAreDialed' /\ NeverStranded'
  BY <1>1 DEF SlackIInv, TypeOK, GenerationsAreDialed, NeverStranded, Boot, Dial, Idle,
              Generations
<1> QED BY <1>2, <1>3, SlackSocketSteps DEF Boot, eventVars

LEMMA SlackRedial ==
    ASSUME SlackIInv,
           ReconnectTimer \/ \E g \in Generations : Refresh(g)
    PROVE  SlackIInv'
<1>1. SlackDials \in Nat
  BY SlackAssumption
<1>2. TypeOK' /\ UNCHANGED eventVars /\ UNCHANGED <<slackLife, disabled>>
  BY <1>1 DEF SlackIInv, TypeOK, ReconnectTimer, Refresh, Dial, eventVars, Generations
<1>3. CASE Idle
  BY <1>2, <1>3, SlackSocketSteps
     DEF SlackIInv, GenerationsAreDialed, NeverStranded, Idle, Dial, ReconnectTimer, Refresh
<1>4. CASE ~Idle
  <2>1. /\ socketGen < SlackDials /\ socketGen' = socketGen + 1
        /\ socket' = [socket EXCEPT ![socketGen + 1] = "opening"]
        /\ slackLife = "running"
    BY <1>4 DEF ReconnectTimer, Refresh, Dial, SlackIInv, GenerationsAreDialed, Generations,
                TypeOK, Idle
  <2> QED BY <1>1, <1>2, <1>4, <2>1, SlackSocketSteps
             DEF SlackIInv, TypeOK, GenerationsAreDialed, NeverStranded, Idle, Generations
<1> QED BY <1>3, <1>4

LEMMA SlackSockets ==
    ASSUME SlackIInv, NEW g \in Generations,
           \/ ConnectionsOpen(g) \/ DialFails(g) \/ TokenRefused(g) \/ LinkDisabled(g)
           \/ SocketCloses(g)
    PROVE  SlackIInv'
<1>1. SlackDials \in Nat
  BY SlackAssumption
<1>2. TypeOK' /\ UNCHANGED eventVars /\ UNCHANGED <<slackLife, socketGen>>
  <2>1. UNCHANGED eventVars /\ UNCHANGED <<slackLife, socketGen>>
    BY DEF ConnectionsOpen, DialFails, TokenRefused, LinkDisabled, SocketCloses
  <2>2. disabled' \in BOOLEAN /\ timers' \in 0 .. 2 /\ ws' \in 0 .. SlackDials
    <3>1. disabled \in BOOLEAN /\ timers \in 0 .. 2 /\ ws \in 0 .. SlackDials
      BY DEF SlackIInv, TypeOK
    <3>2. disabled' = disabled \/ disabled' = TRUE
      BY DEF ConnectionsOpen, DialFails, TokenRefused, LinkDisabled, SocketCloses
    <3>3. timers' = timers \/ (timers < 2 /\ timers' = timers + 1)
      BY DEF ConnectionsOpen, DialFails, TokenRefused, LinkDisabled, SocketCloses,
             ScheduleReconnect
    <3>4. ws' = ws \/ ws' = g
      BY DEF ConnectionsOpen, DialFails, TokenRefused, LinkDisabled, SocketCloses
    <3>5. g \in 0 .. SlackDials
      BY <1>1 DEF Generations
    <3>6. timers' \in 0 .. 2
      BY <3>1, <3>3
    <3>7. ws' \in 0 .. SlackDials
      BY <3>1, <3>4, <3>5
    <3> QED BY <3>1, <3>2, <3>6, <3>7
  <2>3. socket' \in [Generations -> {"none", "opening", "open", "closed"}]
    BY DEF SlackIInv, TypeOK, ConnectionsOpen, DialFails, TokenRefused, LinkDisabled,
           SocketCloses
  <2> QED BY <2>1, <2>2, <2>3 DEF SlackIInv, TypeOK, eventVars
<1>3. slackLife # "booting"
  BY DEF SlackIInv, TypeOK, GenerationsAreDialed, ConnectionsOpen, DialFails, TokenRefused,
         LinkDisabled, SocketCloses
<1>4. GenerationsAreDialed' /\ NeverStranded'
  BY <1>1, <1>2, <1>3
     DEF SlackIInv, TypeOK, GenerationsAreDialed, NeverStranded, ConnectionsOpen, DialFails,
         TokenRefused, LinkDisabled, SocketCloses, ScheduleReconnect, Idle, Generations
<1> QED BY <1>2, <1>4, SlackSocketSteps

LEMMA SlackUnload == ASSUME SlackIInv, Unload PROVE SlackIInv'
<1>1. SlackDials \in Nat /\ SeenEventCap \in Nat
  BY SlackAssumption
<1>2. /\ seenEventIds' \in Seq(SlackEvents) /\ Len(seenEventIds') = 0
      /\ Range(seenEventIds') = {}
  BY EmptySeq DEF Unload, Range
<1>3. TypeOK'
  BY <1>1, <1>2 DEF SlackIInv, TypeOK, GenerationsAreDialed, Unload, Generations
<1>4. \A e \in SlackEvents : Memory(e)'
  BY DEF SlackIInv, Unload, Memory
<1>5. GenerationsAreDialed' /\ NeverStranded'
  BY DEF Unload, GenerationsAreDialed, NeverStranded
<1> QED BY <1>2, <1>3, <1>4, <1>5 DEF SlackIInv

\* A frame: of what is remembered now only its event is new, and what was
\* remembered is remembered still or forgotten.
LEMMA SlackRemembers ==
    ASSUME SlackIInv, NEW e \in SlackEvents, e \notin Range(seenEventIds), Remembered(e)
    PROVE  /\ seenEventIds' \in Seq(SlackEvents) /\ Len(seenEventIds') <= SeenEventCap
           /\ Range(seenEventIds') \subseteq Range(seenEventIds) \cup {e}
           /\ Range(seenEventIds) \cup {e} \subseteq Range(seenEventIds') \cup forgotten'
           /\ forgotten \subseteq forgotten' /\ forgotten' \subseteq SlackEvents
<1> DEFINE all == Append(seenEventIds, e)
<1>1. /\ all \in Seq(SlackEvents) /\ Range(all) = Range(seenEventIds) \cup {e}
      /\ Len(all) = Len(seenEventIds) + 1 /\ Len(seenEventIds) \in Nat /\ all # <<>>
  BY RangeAppended, AppendProperties, LenProperties, EmptySeq DEF SlackIInv
<1>2. SeenEventCap \in Nat /\ Len(seenEventIds) <= SeenEventCap
  BY SlackAssumption DEF SlackIInv, TypeOK
<1>3. /\ Tail(all) \in Seq(SlackEvents) /\ Len(Tail(all)) = Len(all) - 1
      /\ Head(all) \in Range(all) /\ Range(all) = Range(Tail(all)) \cup {Head(all)}
      /\ Range(all) \subseteq SlackEvents
  BY <1>1, RangeOfTail, HeadTailProperties
<1>4. \/ seenEventIds' = Tail(all) /\ forgotten' = forgotten \cup {Head(all)}
      \/ seenEventIds' = all /\ forgotten' = forgotten /\ ~(Len(all) > SeenEventCap)
  BY DEF Remembered
<1>5. forgotten \subseteq SlackEvents
  BY DEF SlackIInv, TypeOK
<1> HIDE DEF all
<1>6. CASE seenEventIds' = Tail(all) /\ forgotten' = forgotten \cup {Head(all)}
  BY <1>1, <1>2, <1>3, <1>5, <1>6
<1>7. CASE seenEventIds' = all /\ forgotten' = forgotten /\ ~(Len(all) > SeenEventCap)
  BY <1>1, <1>2, <1>5, <1>7
<1> QED BY <1>4, <1>6, <1>7

LEMMA SlackFrame ==
    ASSUME SlackIInv, NEW g \in Generations, NEW e \in SlackEvents, NEW lost \in BOOLEAN,
           HandleFrame(g, e, lost)
    PROVE  SlackIInv'
<1>1. UNCHANGED <<slackLife, dialVars, published>> /\ GenerationsAreDialed' /\ NeverStranded'
  BY DEF HandleFrame, dialVars, SlackIInv, GenerationsAreDialed, NeverStranded
<1>2. unacked' \subseteq unacked /\ unacked \subseteq unacked' \cup {e}
  BY DEF HandleFrame
<1>3. CASE e \in Range(seenEventIds)
  <2>1. UNCHANGED <<seenEventIds, resolving, forgotten>>
    BY <1>3 DEF HandleFrame
  <2>2. TypeOK'
    BY <1>1, <1>2, <2>1 DEF SlackIInv, TypeOK, dialVars
  <2>3. \A x \in SlackEvents : Memory(x)'
    BY <1>1, <1>2, <1>3, <2>1 DEF SlackIInv, Memory
  <2> QED BY <1>1, <2>1, <2>2, <2>3 DEF SlackIInv
<1>4. CASE e \notin Range(seenEventIds)
  <2>1. Remembered(e) /\ resolving' = resolving \cup {e}
    BY <1>4 DEF HandleFrame
  <2>2. /\ seenEventIds' \in Seq(SlackEvents) /\ Len(seenEventIds') <= SeenEventCap
        /\ Range(seenEventIds') \subseteq Range(seenEventIds) \cup {e}
        /\ Range(seenEventIds) \cup {e} \subseteq Range(seenEventIds') \cup forgotten'
        /\ forgotten \subseteq forgotten' /\ forgotten' \subseteq SlackEvents
    BY <1>4, <2>1, SlackRemembers
  <2>3. TypeOK'
    BY <1>1, <1>2, <2>1, <2>2 DEF SlackIInv, TypeOK, dialVars
  <2>4. ASSUME NEW x \in SlackEvents PROVE Memory(x)'
    <3>1. Memory(x) /\ published[x] \in 0 .. 2
      BY DEF SlackIInv, TypeOK
    <3> QED BY <1>1, <1>2, <1>4, <2>1, <2>2, <3>1 DEF Memory
  <2> QED BY <1>1, <2>2, <2>3, <2>4 DEF SlackIInv
<1> QED BY <1>3, <1>4

LEMMA SlackPublish ==
    ASSUME SlackIInv, NEW e \in SlackEvents, Publish(e) PROVE SlackIInv'
<1>1. /\ UNCHANGED <<slackLife, dialVars, unacked, seenEventIds, forgotten>>
      /\ GenerationsAreDialed' /\ NeverStranded'
  BY DEF Publish, dialVars, SlackIInv, GenerationsAreDialed, NeverStranded
<1>2. /\ resolving' = resolving \ {e} /\ e \in resolving /\ published[e] \in 0 .. 1
      /\ published' \in [SlackEvents -> 0 .. 2]
      /\ published'[e] = IF slackLife = "unloaded" THEN published[e] ELSE published[e] + 1
      /\ \A x \in SlackEvents \ {e} : published'[x] = published[x]
  BY DEF Publish, SlackIInv, TypeOK
<1>3. TypeOK'
  BY <1>1, <1>2 DEF SlackIInv, TypeOK, dialVars
<1>4. ASSUME NEW x \in SlackEvents PROVE Memory(x)'
  <2>1. Memory(x) /\ published[x] \in 0 .. 2
    BY DEF SlackIInv, TypeOK
  <2> QED BY <1>1, <1>2, <2>1 DEF Memory
<1> QED BY <1>1, <1>3, <1>4 DEF SlackIInv

LEMMA SlackNext == SlackIInv /\ [Next]_slackVars => SlackIInv'
<1> SUFFICES ASSUME SlackIInv, [Next]_slackVars PROVE SlackIInv'
  OBVIOUS
<1>1. CASE UNCHANGED slackVars
  BY <1>1 DEF slackVars, SlackIInv, TypeOK, GenerationsAreDialed, NeverStranded, Memory
<1> QED BY <1>1, SlackBoot, SlackRedial, SlackSockets, SlackUnload, SlackFrame, SlackPublish
           DEF Next

LEMMA SlackHolds == SlackIInv => TypeOK /\ NeverStranded /\ EmittedOnce /\ AckedIsEmitted
BY DEF SlackIInv, Memory, EmittedOnce, AckedIsEmitted

----------------------------------------------------------------------------
(* The gateway of Discord *)

LEMMA ExtensionsRunDiscord ==
    ExtensionSpec => Discord!Init /\ [][Discord!Next]_(Discord!discordVars)
<1>1. ExtensionInit => Discord!Init
  BY DEF ExtensionInit
<1>2. [ExtensionNext]_extensionVars => [Discord!Next]_(Discord!discordVars)
  BY DEF ExtensionNext, extensionVars, SlackStep, HostStep, DiscordStep, TelegramStep,
         ReplyStep, BridgeStep, StreamStep, InboxStep, discordVars, Discord!discordVars
<1> QED BY <1>1, <1>2, PTL DEF ExtensionSpec

\* What the bot has handled of its session is what it names in a resume, and
\* what the connection has been sent.
SessionIsFollowed ==
    /\ gateway = "ready" => conn = [session |-> sessionId, sent |-> lastSeq] /\ sessionId # 0
    /\ sessionId <= sessions /\ live \subseteq 1 .. sessions
    /\ sessionId # 0 => lastSeq = Len(handled[sessionId])

HandledInOrder ==
    \A s \in Discord!SessionIds :
        /\ handled[s] = [n \in 1 .. Len(handled[s]) |-> n]
        /\ s > sessions => handled[s] = <<>>

DiscordIInv == Discord!TypeOK /\ Discord!NeverStranded /\ SessionIsFollowed /\ HandledInOrder

LEMMA DiscordBounds ==
    /\ Sessions \in Nat /\ SessionEvents \in Nat \ {0} /\ Connects \in Nat \ {0}
    /\ Discord!SessionIds = 1 .. Sessions
BY PartsAssumption DEF Discord!DiscordAssumption, Discord!SessionIds

LEMMA DiscordHolds ==
    DiscordIInv => Discord!TypeOK /\ Discord!NeverStranded /\ Discord!SessionInOrder
BY DEF DiscordIInv, SessionIsFollowed, HandledInOrder, Discord!SessionInOrder

LEMMA DiscordInit == Discord!Init => DiscordIInv
<1> SUFFICES ASSUME Discord!Init PROVE DiscordIInv
  OBVIOUS
<1>1. \A s \in Discord!SessionIds : handled[s] = <<>>
  BY DEF Discord!Init
<1>2. <<>> \in Seq(1 .. SessionEvents) /\ Len(<<>>) = 0 /\ <<>> = [n \in 1 .. 0 |-> n]
  BY EmptySeq
<1>3. HandledInOrder
  BY <1>1, <1>2 DEF HandledInOrder
<1>4. /\ handled \in [Discord!SessionIds -> Seq(1 .. SessionEvents)]
      /\ log \in [Discord!SessionIds -> 0 .. SessionEvents]
  BY <1>2, DiscordBounds DEF Discord!Init
<1>5. conn \in [session : 0 .. Sessions, sent : 0 .. SessionEvents]
  BY DiscordBounds DEF Discord!Init, Discord!NoSession
<1>6. Discord!TypeOK
  <2>1. /\ sessionId \in 0 .. Sessions /\ lastSeq \in 0 .. SessionEvents /\ dueOpen \in 0 .. 1
        /\ connects \in 0 .. Connects /\ sessions \in 0 .. Sessions
    BY DiscordBounds DEF Discord!Init
  <2> QED BY <1>4, <1>5, <2>1 DEF Discord!Init, Discord!TypeOK
<1> QED BY <1>3, <1>6, DiscordBounds
           DEF Discord!Init, DiscordIInv, SessionIsFollowed, Discord!NeverStranded

\* A dispatch of the number that follows leaves the session in order.
LEMMA NumbersAppended ==
    ASSUME NEW K \in Nat, NEW q \in Seq(1 .. K), q = [n \in 1 .. Len(q) |-> n], Len(q) + 1 <= K
    PROVE  LET r == Append(q, Len(q) + 1)
           IN r \in Seq(1 .. K) /\ Len(r) = Len(q) + 1 /\ r = [n \in 1 .. Len(r) |-> n]
<1>1. Len(q) \in Nat /\ DOMAIN q = 1 .. Len(q) /\ Len(q) + 1 \in 1 .. K
  BY LenProperties
<1>2. PICK r : r = Append(q, Len(q) + 1)
  OBVIOUS
<1>3. /\ r \in Seq(1 .. K) /\ Len(r) = Len(q) + 1
      /\ \A i \in 1 .. Len(q) : r[i] = q[i]
      /\ r[Len(q) + 1] = Len(q) + 1
  BY <1>1, <1>2, AppendProperties
<1>4. DOMAIN r = 1 .. Len(q) + 1 /\ r \in [1 .. Len(q) + 1 -> 1 .. K]
  BY <1>3, LenProperties
<1>5. \A i \in 1 .. Len(q) : q[i] = i
  OBVIOUS
<1>6. \A i \in 1 .. Len(q) + 1 : r[i] = i
  BY <1>1, <1>3, <1>5
<1>7. r = [n \in 1 .. Len(r) |-> n]
  BY <1>3, <1>4, <1>6
<1> QED BY <1>2, <1>3, <1>7

\* Steps that handle nothing and open no session.
LEMMA DiscordQuiet ==
    ASSUME DiscordIInv, UNCHANGED <<handled, lastSeq, sessions>>, live' \subseteq live,
           Discord!TypeOK', Discord!NeverStranded',
           sessionId' \in {0, sessionId},
           gateway' = "ready" =>
               conn' = [session |-> sessionId', sent |-> lastSeq] /\ sessionId' # 0
    PROVE  DiscordIInv'
<1>1. HandledInOrder'
  BY DEF DiscordIInv, HandledInOrder
<1>2. sessions \in Nat
  BY DiscordBounds DEF DiscordIInv, Discord!TypeOK
<1>3. SessionIsFollowed'
  BY <1>2 DEF DiscordIInv, SessionIsFollowed
<1> QED BY <1>1, <1>3 DEF DiscordIInv

LEMMA DiscordOpens ==
    ASSUME DiscordIInv, Discord!OpenGateway \/ Discord!Hello \/ Discord!Beat \/ Discord!Ack
    PROVE  DiscordIInv'
<1>1. UNCHANGED <<handled, lastSeq, sessions, live, sessionId, conn, log>>
  BY DEF Discord!OpenGateway, Discord!Hello, Discord!Beat, Discord!Ack, Discord!clientVars,
         Discord!serverVars
<1>2. /\ dueOpen' \in 0 .. 1 /\ connects' \in 0 .. Connects /\ Discord!NeverStranded'
      /\ closing' = closing
      /\ gateway' = "ready" => gateway = "ready"
  BY DiscordBounds
     DEF DiscordIInv, Discord!TypeOK, Discord!NeverStranded, Discord!OpenGateway, Discord!Hello,
         Discord!Beat, Discord!Ack, Discord!clientVars
<1>3. /\ gateway' \in {"none", "connecting", "greeted", "ready"}
      /\ heartbeat' \in BOOLEAN /\ awaitingAck' \in BOOLEAN /\ resuming' \in BOOLEAN
  BY DEF DiscordIInv, Discord!TypeOK, Discord!OpenGateway, Discord!Hello, Discord!Beat,
         Discord!Ack, Discord!clientVars
<1>4. Discord!TypeOK'
  BY <1>1, <1>2, <1>3 DEF DiscordIInv, Discord!TypeOK
<1> QED BY <1>1, <1>2, <1>4, DiscordQuiet DEF DiscordIInv, SessionIsFollowed

LEMMA DiscordCloses ==
    ASSUME DiscordIInv,
           \/ \E again \in BOOLEAN : Discord!InvalidSession(again)
           \/ \E code \in {"resumable", "unresumable"} : Discord!Closes(code)
           \/ Discord!Unload
    PROVE  DiscordIInv'
<1>1. /\ UNCHANGED <<handled, lastSeq, sessions, log, connects>> /\ live' \subseteq live
      /\ gateway' = "none" /\ conn' = Discord!NoSession
      /\ heartbeat' = FALSE /\ awaitingAck' = FALSE
  BY DEF Discord!InvalidSession, Discord!Closes, Discord!Unload, Discord!ClosedWith,
         Discord!serverVars
<1>2. /\ sessionId' \in {0, sessionId} /\ resuming' \in BOOLEAN /\ closing' \in BOOLEAN
  <2>1. closing \in BOOLEAN /\ resuming \in BOOLEAN
    BY DEF DiscordIInv, Discord!TypeOK
  <2>2. ASSUME NEW again \in BOOLEAN, Discord!InvalidSession(again)
        PROVE  sessionId' \in {0, sessionId} /\ resuming' \in BOOLEAN /\ closing' = closing
    <3>1. CASE again /\ sessionId # 0
      BY <2>2, <3>1 DEF Discord!InvalidSession
    <3>2. CASE again = FALSE \/ sessionId = 0
      <4>1. closing' = closing
        BY <2>2 DEF Discord!InvalidSession
      <4>2. sessionId' = 0
        BY <2>2, <3>2 DEF Discord!InvalidSession
      <4>3. resuming' = FALSE
        BY <2>2, <3>2 DEF Discord!InvalidSession
      <4> QED BY <4>1, <4>2, <4>3
    <3> QED BY <3>1, <3>2
  <2>3. ASSUME NEW code, Discord!Closes(code)
        PROVE  sessionId' \in {0, sessionId} /\ resuming' \in BOOLEAN /\ closing' = closing
    <3>1. Discord!AfterClose(code) /\ closing' = closing
      BY <2>3 DEF Discord!Closes
    <3>2. sessionId' \in {0, sessionId}
      BY <3>1 DEF Discord!AfterClose
    <3>3. resuming' \in {resuming, FALSE} \/ resuming' = (resuming \/ sessionId # 0)
      BY <3>1 DEF Discord!AfterClose
    <3>4. resuming' \in BOOLEAN
      BY <2>1, <3>3
    <3> QED BY <3>1, <3>2, <3>4
  <2>4. CASE Discord!Unload
    BY <2>4 DEF Discord!Unload
  <2> QED BY <2>1, <2>2, <2>3, <2>4
<1>3. /\ dueOpen' \in 0 .. 1 /\ Discord!NeverStranded'
  BY DEF DiscordIInv, Discord!TypeOK, Discord!NeverStranded, Discord!InvalidSession,
         Discord!Closes, Discord!Unload, Discord!ClosedWith
<1>4. Discord!NoSession \in [session : 0 .. Sessions, sent : 0 .. SessionEvents]
  BY DiscordBounds DEF Discord!NoSession
<1>5. Discord!TypeOK'
  <2>1. sessionId' \in 0 .. Sessions /\ live' \subseteq Discord!SessionIds
    BY <1>1, <1>2, DiscordBounds DEF DiscordIInv, Discord!TypeOK
  <2> QED BY <1>1, <1>2, <1>3, <1>4, <2>1 DEF DiscordIInv, Discord!TypeOK
<1> QED BY <1>1, <1>2, <1>3, <1>5, DiscordQuiet

LEMMA DiscordElsewhere ==
    ASSUME DiscordIInv, NEW s \in Discord!SessionIds, Discord!Happens(s) \/ Discord!Expires(s)
    PROVE  DiscordIInv'
<1>1. /\ UNCHANGED <<handled, lastSeq, sessions, sessionId, conn, gateway, closing, heartbeat,
                     awaitingAck, resuming, dueOpen, connects>>
      /\ live' \subseteq live
  BY DEF Discord!Happens, Discord!Expires, Discord!clientVars
<1>2. log' \in [Discord!SessionIds -> 0 .. SessionEvents]
  <2>1. CASE Discord!Happens(s)
    <3>1. log[s] \in 0 .. SessionEvents /\ log[s] < SessionEvents
      BY <2>1 DEF DiscordIInv, Discord!TypeOK, Discord!Happens
    <3>2. log[s] + 1 \in 0 .. SessionEvents
      BY <3>1, DiscordBounds
    <3> QED BY <2>1, <3>2 DEF DiscordIInv, Discord!TypeOK, Discord!Happens
  <2>2. CASE Discord!Expires(s)
    BY <2>2 DEF DiscordIInv, Discord!TypeOK, Discord!Expires
  <2> QED BY <2>1, <2>2
<1>3. Discord!TypeOK'
  BY <1>1, <1>2 DEF DiscordIInv, Discord!TypeOK
<1> QED BY <1>1, <1>3, DiscordQuiet DEF DiscordIInv, SessionIsFollowed, Discord!NeverStranded

LEMMA DiscordResumed == ASSUME DiscordIInv, Discord!Resumed PROVE DiscordIInv'
<1>1. /\ UNCHANGED <<handled, lastSeq, sessions, sessionId, live, log, closing, heartbeat,
                     awaitingAck, dueOpen, connects>>
      /\ gateway = "greeted" /\ gateway' = "ready" /\ resuming' = FALSE
      /\ conn' = [session |-> sessionId, sent |-> lastSeq] /\ sessionId \in live
  BY DEF Discord!Resumed, Discord!serverVars
<1>2. sessionId # 0 /\ sessionId \in 0 .. Sessions /\ lastSeq \in 0 .. SessionEvents
  BY <1>1, DiscordBounds DEF DiscordIInv, Discord!TypeOK
<1>3. Discord!TypeOK'
  BY <1>1, <1>2 DEF DiscordIInv, Discord!TypeOK
<1> QED BY <1>1, <1>2, <1>3, DiscordQuiet DEF DiscordIInv, Discord!NeverStranded

LEMMA DiscordReady == ASSUME DiscordIInv, Discord!Ready PROVE DiscordIInv'
<1> DEFINE n == sessions + 1
<1>1. n \in Discord!SessionIds /\ sessions \in Nat /\ n # 0 /\ n > sessions
  BY DiscordBounds DEF DiscordIInv, Discord!TypeOK, Discord!Ready
<1>2. /\ UNCHANGED <<closing, heartbeat, awaitingAck, dueOpen, connects>>
      /\ gateway = "greeted" /\ gateway' = "ready" /\ sessionId' = n /\ sessions' = n
      /\ conn' = [session |-> n, sent |-> 1] /\ lastSeq' = 1 /\ resuming' = FALSE
      /\ live' = live \cup {n} /\ log' = [log EXCEPT ![n] = 1]
      /\ handled' = [handled EXCEPT ![n] = Append(handled[n], 1)]
  BY DEF Discord!Ready, Discord!Dispatched
<1>3. handled[n] = <<>>
  BY <1>1 DEF DiscordIInv, HandledInOrder
<1>4. /\ Append(<<>>, 1) \in Seq(1 .. SessionEvents) /\ Len(Append(<<>>, 1)) = 1
      /\ Append(<<>>, 1) = [k \in 1 .. Len(Append(<<>>, 1)) |-> k]
  <2>1. /\ <<>> \in Seq(1 .. SessionEvents) /\ Len(<<>>) = 0 /\ <<>> = [k \in 1 .. Len(<<>>) |-> k]
        /\ SessionEvents \in Nat /\ Len(<<>>) + 1 <= SessionEvents /\ Len(<<>>) + 1 = 1
    BY EmptySeq, DiscordBounds
  <2> QED BY <2>1, NumbersAppended
<1>5. /\ handled' \in [Discord!SessionIds -> Seq(1 .. SessionEvents)]
      /\ handled'[n] = Append(<<>>, 1)
      /\ \A s \in Discord!SessionIds \ {n} : handled'[s] = handled[s]
  BY <1>1, <1>2, <1>3, <1>4 DEF DiscordIInv, Discord!TypeOK
<1>6. HandledInOrder'
  <2>1. ASSUME NEW s \in Discord!SessionIds
        PROVE  /\ handled'[s] = [k \in 1 .. Len(handled'[s]) |-> k]
               /\ s > n => handled'[s] = <<>>
    <3>1. CASE s = n
      BY <1>1, <1>4, <1>5, <3>1
    <3>2. CASE s # n
      <4>1. s > n => s > sessions
        BY <1>1, DiscordBounds
      <4>2. handled'[s] = handled[s]
        BY <1>5, <3>2
      <4> QED BY <4>1, <4>2 DEF DiscordIInv, HandledInOrder
    <3> QED BY <3>1, <3>2
  <2> QED BY <1>2, <2>1 DEF HandledInOrder
<1>7. Discord!TypeOK'
  <2>1. log' \in [Discord!SessionIds -> 0 .. SessionEvents]
    <3>1. 1 \in 0 .. SessionEvents
      BY DiscordBounds
    <3> QED BY <1>2, <3>1 DEF DiscordIInv, Discord!TypeOK
  <2>2. conn' \in [session : 0 .. Sessions, sent : 0 .. SessionEvents]
    BY <1>1, <1>2, DiscordBounds
  <2>3. live' \subseteq Discord!SessionIds
    BY <1>1, <1>2 DEF DiscordIInv, Discord!TypeOK
  <2>4. /\ sessionId' \in 0 .. Sessions /\ sessions' \in 0 .. Sessions
        /\ lastSeq' \in 0 .. SessionEvents
    BY <1>1, <1>2, DiscordBounds
  <2> QED BY <1>2, <1>5, <2>1, <2>2, <2>3, <2>4 DEF DiscordIInv, Discord!TypeOK
<1>8. SessionIsFollowed'
  <2>1. live' \subseteq 1 .. n
    BY <1>1, <1>2 DEF DiscordIInv, SessionIsFollowed
  <2> QED BY <1>1, <1>2, <1>4, <1>5, <2>1 DEF SessionIsFollowed
<1> QED BY <1>2, <1>6, <1>7, <1>8 DEF DiscordIInv, Discord!NeverStranded

LEMMA DiscordDispatch == ASSUME DiscordIInv, Discord!Dispatch PROVE DiscordIInv'
<1> DEFINE s == sessionId
           n == lastSeq
<1>1. /\ conn = [session |-> s, sent |-> n] /\ s \in Discord!SessionIds /\ s # 0
      /\ n \in Nat /\ n = Len(handled[s]) /\ n + 1 <= SessionEvents
  <2>1. gateway = "ready" /\ conn.sent < log[conn.session]
    BY DEF Discord!Dispatch
  <2>2. conn = [session |-> s, sent |-> n] /\ s # 0 /\ n = Len(handled[s])
    BY <2>1 DEF DiscordIInv, SessionIsFollowed
  <2>3. s \in Discord!SessionIds /\ n \in Nat
    BY <2>2, DiscordBounds DEF DiscordIInv, Discord!TypeOK
  <2>4. n < log[s] /\ log[s] \in 0 .. SessionEvents
    BY <2>1, <2>2, <2>3 DEF DiscordIInv, Discord!TypeOK
  <2> QED BY <2>2, <2>3, <2>4, DiscordBounds
<1>2. /\ UNCHANGED <<closing, gateway, heartbeat, awaitingAck, sessionId, resuming, dueOpen,
                     connects, sessions, live, log>>
      /\ conn' = [session |-> s, sent |-> n + 1] /\ lastSeq' = n + 1
      /\ handled' = [handled EXCEPT ![s] = Append(handled[s], n + 1)]
  BY <1>1 DEF Discord!Dispatch, Discord!Dispatched, Discord!serverVars
<1>3. handled[s] \in Seq(1 .. SessionEvents) /\ handled[s] = [k \in 1 .. Len(handled[s]) |-> k]
  BY <1>1 DEF DiscordIInv, Discord!TypeOK, HandledInOrder
<1> DEFINE q == Append(handled[s], n + 1)
<1>4. q \in Seq(1 .. SessionEvents) /\ Len(q) = n + 1 /\ q = [k \in 1 .. Len(q) |-> k]
  BY <1>1, <1>3, NumbersAppended, DiscordBounds
<1> HIDE DEF q
<1>5. /\ handled' \in [Discord!SessionIds -> Seq(1 .. SessionEvents)]
      /\ handled'[s] = q
      /\ \A x \in Discord!SessionIds \ {s} : handled'[x] = handled[x]
  BY <1>1, <1>2, <1>4 DEF DiscordIInv, Discord!TypeOK, q
<1>6. HandledInOrder'
  <2>1. s <= sessions /\ sessions \in Nat
    BY DiscordBounds DEF DiscordIInv, SessionIsFollowed, Discord!TypeOK
  <2>2. ASSUME NEW x \in Discord!SessionIds
        PROVE  /\ handled'[x] = [k \in 1 .. Len(handled'[x]) |-> k]
               /\ x > sessions => handled'[x] = <<>>
    <3>1. CASE x = s
      BY <1>1, <1>4, <1>5, <2>1, <3>1, DiscordBounds
    <3>2. CASE x # s
      BY <1>5, <3>2 DEF DiscordIInv, HandledInOrder
    <3> QED BY <3>1, <3>2
  <2> QED BY <1>2, <2>2 DEF HandledInOrder
<1>7. Discord!TypeOK'
  <2>1. conn' \in [session : 0 .. Sessions, sent : 0 .. SessionEvents]
        /\ lastSeq' \in 0 .. SessionEvents
    BY <1>1, <1>2, DiscordBounds
  <2> QED BY <1>2, <1>5, <2>1 DEF DiscordIInv, Discord!TypeOK
<1>8. SessionIsFollowed'
  BY <1>1, <1>2, <1>4, <1>5 DEF DiscordIInv, SessionIsFollowed
<1> QED BY <1>2, <1>6, <1>7, <1>8 DEF DiscordIInv, Discord!NeverStranded

LEMMA DiscordNext == DiscordIInv /\ [Discord!Next]_(Discord!discordVars) => DiscordIInv'
<1> SUFFICES ASSUME DiscordIInv, [Discord!Next]_(Discord!discordVars) PROVE DiscordIInv'
  OBVIOUS
<1>1. CASE UNCHANGED Discord!discordVars
  BY <1>1 DEF Discord!discordVars, DiscordIInv, Discord!TypeOK, Discord!NeverStranded,
              SessionIsFollowed, HandledInOrder
<1> QED BY <1>1, DiscordOpens, DiscordCloses, DiscordElsewhere, DiscordResumed, DiscordReady,
           DiscordDispatch DEF Discord!Next

\* Until it is unloaded or disabled, an adapter has a connection, or one is due.
THEOREM AdaptersRecover == ExtensionSpec => []SocketsRecover
<1>1. ExtensionSpec => [](TypeOK /\ NeverStranded)
  BY SlackInit, SlackNext, SlackHolds, ExtensionsRunSlack, PTL
<1>2. ExtensionSpec => [](Discord!TypeOK /\ Discord!NeverStranded)
  BY DiscordInit, DiscordNext, DiscordHolds, ExtensionsRunDiscord, PTL
<1>3. (TypeOK /\ NeverStranded) /\ (Discord!TypeOK /\ Discord!NeverStranded) => SocketsRecover
  BY DEF SocketsRecover
<1> QED BY <1>1, <1>2, <1>3, PTL

----------------------------------------------------------------------------
(* The polling of Telegram *)

LEMMA ExtensionsRunTelegram ==
    ExtensionSpec => Telegram!Init /\ [][Telegram!Next]_(Telegram!telegramVars)
<1>1. ExtensionInit => Telegram!Init
  BY DEF ExtensionInit
<1>2. [ExtensionNext]_extensionVars => [Telegram!Next]_(Telegram!telegramVars)
  BY DEF ExtensionNext, extensionVars, SlackStep, HostStep, DiscordStep, TelegramStep,
         ReplyStep, BridgeStep, StreamStep, InboxStep, telegramVars, Telegram!telegramVars
<1> QED BY <1>1, <1>2, PTL DEF ExtensionSpec

\* What lies before the offset, here or on disk, or was forgotten, is handled;
\* what lies after it is not handled yet by this load, and by no load at all
\* as long as every load began where the one before it ended.
Handled(u) ==
    /\ u < offset \/ u < onDisk \/ u <= confirmed => Telegram!Tries(u) > 0
    /\ Telegram!Tries(u) <= registered
    /\ u >= offset /\ poll # "unloaded" => Telegram!Tries(u) < registered
    /\ ~unsaved => Telegram!Tries(u) <= 1 /\ (u >= offset => Telegram!Tries(u) = 0)

TelegramIInv ==
    /\ Telegram!TypeOK
    /\ poll = "asked" => asked = offset
    /\ poll = "unloaded" /\ ~unsaved => onDisk = offset
    /\ \A u \in Telegram!UpdateIds : Handled(u)

LEMMA TelegramBounds ==
    /\ Updates \in Nat /\ Loads \in Nat \ {0} /\ Telegram!UpdateIds = 1 .. Updates
BY PartsAssumption DEF Telegram!TelegramAssumption, Telegram!UpdateIds

LEMMA GreaterOfTwo ==
    ASSUME NEW a \in Int, NEW b \in Int
    PROVE  Telegram!Max({a, b}) = IF a >= b THEN a ELSE b
BY DEF Telegram!Max

LEMMA LesserOfTwo ==
    ASSUME NEW a \in Int, NEW b \in Int
    PROVE  Telegram!Min({a, b}) = IF a <= b THEN a ELSE b
BY DEF Telegram!Min

LEMMA TelegramHolds ==
    TelegramIInv => Telegram!TypeOK /\ Telegram!ForgottenWasHandled
                    /\ Telegram!RepeatedOnlyIfUnsaved
<1> SUFFICES ASSUME TelegramIInv
             PROVE  Telegram!TypeOK /\ Telegram!ForgottenWasHandled
                    /\ Telegram!RepeatedOnlyIfUnsaved
  OBVIOUS
<1>1. \A u \in 1 .. confirmed : u \in Telegram!UpdateIds /\ u <= confirmed
  BY TelegramBounds DEF TelegramIInv, Telegram!TypeOK
<1>2. Telegram!ForgottenWasHandled
  BY <1>1 DEF TelegramIInv, Handled, Telegram!ForgottenWasHandled
<1>3. Telegram!RepeatedOnlyIfUnsaved
  <2>1. \A u \in Telegram!UpdateIds : Telegram!Tries(u) \in Nat
    BY TelegramBounds DEF TelegramIInv, Telegram!TypeOK, Telegram!Tries
  <2> QED BY <2>1 DEF TelegramIInv, Handled, Telegram!RepeatedOnlyIfUnsaved
<1> QED BY <1>2, <1>3 DEF TelegramIInv

LEMMA TelegramInit == Telegram!Init => TelegramIInv
<1> SUFFICES ASSUME Telegram!Init PROVE TelegramIInv
  OBVIOUS
<1>1. emitted \in [Telegram!UpdateIds -> 0 .. Loads]
  BY TelegramBounds DEF Telegram!Init
<1>2. Telegram!TypeOK
  <2>1. /\ 1 \in 1 .. Updates + 1 /\ 0 \in 0 .. Updates /\ 0 \in 0 .. Loads
    BY TelegramBounds
  <2> QED BY <1>1, <2>1 DEF Telegram!Init, Telegram!TypeOK
<1>3. \A u \in Telegram!UpdateIds : Handled(u)
  BY TelegramBounds DEF Telegram!Init, Handled, Telegram!Tries
<1> QED BY <1>2, <1>3 DEF Telegram!Init, TelegramIInv

LEMMA TelegramWaits ==
    ASSUME TelegramIInv,
           \/ Telegram!Arrives \/ Telegram!AskFails
           \/ \E ok \in BOOLEAN : Telegram!GetMe(ok)
    PROVE  TelegramIInv'
<1>1. /\ UNCHANGED <<offset, asked, onDisk, confirmed, registered, emitted, skipped, unsaved>>
      /\ poll' \in {"ready", "ended", "backoff", poll}
      /\ poll = "unloaded" <=> poll' = "unloaded"
      /\ poll' = "asked" => poll = "asked"
  BY DEF Telegram!Arrives, Telegram!AskFails, Telegram!GetMe
<1>2. arrived' \in 0 .. Updates
  BY TelegramBounds
     DEF TelegramIInv, Telegram!TypeOK, Telegram!Arrives, Telegram!AskFails, Telegram!GetMe
<1>3. Telegram!TypeOK'
  BY <1>1, <1>2 DEF TelegramIInv, Telegram!TypeOK
<1> QED BY <1>1, <1>3 DEF TelegramIInv, Handled, Telegram!Tries

LEMMA TelegramRegister == ASSUME TelegramIInv, Telegram!Register PROVE TelegramIInv'
<1>1. /\ UNCHANGED <<asked, onDisk, arrived, confirmed, emitted, skipped, unsaved>>
      /\ poll = "unloaded" /\ poll' = "getMe" /\ offset' = onDisk /\ registered < Loads
      /\ registered' = registered + 1
  BY DEF Telegram!Register
<1>2. Telegram!TypeOK'
  BY <1>1, TelegramBounds DEF TelegramIInv, Telegram!TypeOK
<1>3. ASSUME NEW u \in Telegram!UpdateIds PROVE Handled(u)'
  <2>1. Handled(u) /\ Telegram!Tries(u) \in Nat /\ registered \in Nat /\ u \in Nat /\ onDisk \in Nat
    BY TelegramBounds DEF TelegramIInv, Telegram!TypeOK, Telegram!Tries
  <2>2. ~unsaved => onDisk = offset
    BY <1>1 DEF TelegramIInv
  <2>3. Telegram!Tries(u)' = Telegram!Tries(u)
    BY <1>1 DEF Telegram!Tries
  <2> QED BY <1>1, <2>1, <2>2, <2>3 DEF Handled
<1> QED BY <1>1, <1>2, <1>3 DEF TelegramIInv

LEMMA TelegramAsk == ASSUME TelegramIInv, Telegram!Ask PROVE TelegramIInv'
<1>1. /\ UNCHANGED <<offset, onDisk, arrived, registered, emitted, skipped, unsaved>>
      /\ poll' = "asked" /\ poll \in {"ready", "backoff"} /\ asked' = offset
      /\ confirmed' = Telegram!Max({confirmed, Telegram!Min({offset - 1, arrived})})
  BY DEF Telegram!Ask
<1>2. /\ confirmed \in 0 .. Updates /\ offset \in 1 .. Updates + 1 /\ arrived \in 0 .. Updates
      /\ Updates \in Nat
  BY TelegramBounds DEF TelegramIInv, Telegram!TypeOK
<1> DEFINE m == Telegram!Min({offset - 1, arrived})
<1>3. m \in 0 .. Updates /\ m <= offset - 1
  BY <1>2, LesserOfTwo
<1>4. confirmed' \in {confirmed, m}
  <2> HIDE DEF m
  <2> QED BY <1>1, <1>2, <1>3, GreaterOfTwo DEF m
<1> HIDE DEF m
<1>5. confirmed' \in 0 .. Updates
  BY <1>2, <1>3, <1>4
<1>6. Telegram!TypeOK'
  BY <1>1, <1>2, <1>5 DEF TelegramIInv, Telegram!TypeOK
<1>7. ASSUME NEW u \in Telegram!UpdateIds PROVE Handled(u)'
  <2>1. Handled(u) /\ u \in Nat
    BY TelegramBounds DEF TelegramIInv
  <2>2. u <= confirmed' => u <= confirmed \/ u < offset
    BY <1>2, <1>3, <1>4, <2>1
  <2>3. Telegram!Tries(u)' = Telegram!Tries(u)
    BY <1>1 DEF Telegram!Tries
  <2> QED BY <1>1, <2>1, <2>2, <2>3 DEF Handled
<1> QED BY <1>1, <1>6, <1>7 DEF TelegramIInv

LEMMA TelegramAnswer ==
    ASSUME TelegramIInv, NEW n \in 0 .. Updates, NEW thrown \in 0 .. Updates,
           NEW saved \in BOOLEAN, Telegram!Answer(n, thrown, saved)
    PROVE  TelegramIInv'
<1> DEFINE first == Telegram!First
           done == IF thrown = 0 THEN n ELSE thrown
<1>1. /\ confirmed \in 0 .. Updates /\ offset \in 1 .. Updates + 1 /\ arrived \in 0 .. Updates
      /\ onDisk \in 1 .. Updates + 1 /\ Updates \in Nat /\ poll = "asked" /\ asked = offset
      /\ registered \in 0 .. Loads /\ Loads \in Nat
  BY TelegramBounds DEF TelegramIInv, Telegram!TypeOK, Telegram!Answer
<1>2. /\ first \in 1 .. Updates + 1 /\ first >= offset
      /\ \A u \in Nat : u < first => u < offset \/ u <= confirmed
  BY <1>1, GreaterOfTwo DEF Telegram!First
<1>3. /\ UNCHANGED <<asked, arrived, confirmed, registered, unsaved>>
      /\ n \in first - 1 .. arrived /\ (thrown # 0 => thrown \in first .. n)
      /\ offset' = IF n < first THEN offset ELSE done + 1
      /\ emitted' = [u \in Telegram!UpdateIds |->
                        IF u \in first .. n /\ (thrown = 0 \/ u < thrown)
                        THEN emitted[u] + 1 ELSE emitted[u]]
      /\ skipped' = IF thrown = 0 THEN skipped ELSE skipped \cup {thrown}
      /\ onDisk' = IF thrown = 0 /\ n >= first /\ saved THEN offset' ELSE onDisk
      /\ poll' = IF thrown = 0 THEN "ready" ELSE "backoff"
  BY DEF Telegram!Answer, Telegram!Handle
<1> HIDE DEF first
<1>4. /\ done \in first - 1 .. n /\ done \in 0 .. Updates
      /\ n < first => done = first - 1
      /\ n >= first => done >= first
  BY <1>1, <1>2, <1>3
<1>5. ASSUME NEW u \in Telegram!UpdateIds
      PROVE  /\ emitted'[u] = IF u \in first .. done /\ u # thrown
                              THEN emitted[u] + 1 ELSE emitted[u]
             /\ u \in skipped' <=> u \in skipped \/ (u \in first .. done /\ u = thrown)
  <2>1. u \in 1 .. Updates
    BY TelegramBounds
  <2>2. u \in first .. n /\ (thrown = 0 \/ u < thrown) <=> u \in first .. done /\ u # thrown
    BY <1>1, <1>2, <1>3, <1>4, <2>1
  <2>3. u \in skipped' <=> u \in skipped \/ (u \in first .. done /\ u = thrown)
    BY <1>1, <1>2, <1>3, <1>4, <2>1
  <2> HIDE DEF done
  <2> QED BY <1>3, <2>2, <2>3
<1> HIDE DEF done
<1>6. /\ offset' \in 1 .. Updates + 1
      /\ \/ offset' = done + 1 /\ done >= first
         \/ offset' = offset /\ done = first - 1
  BY <1>1, <1>2, <1>3, <1>4
<1>7. onDisk' \in {onDisk, offset'} /\ poll' \in {"ready", "backoff"}
  BY <1>3
<1>8. ASSUME NEW u \in Telegram!UpdateIds
      PROVE  Handled(u)' /\ emitted'[u] \in 0 .. Loads
  <2>1. Handled(u) /\ emitted[u] \in 0 .. Loads /\ u \in Nat
    BY TelegramBounds DEF TelegramIInv, Telegram!TypeOK
  <2>2. Telegram!Tries(u) \in Nat /\ emitted[u] <= Telegram!Tries(u)
    BY <1>1, <2>1 DEF Telegram!Tries
  <2>3. CASE u \in first .. done
    <3>1. u >= offset
      BY <1>1, <1>2, <2>1, <2>3
    <3>2. /\ Telegram!Tries(u)' > 0 /\ Telegram!Tries(u)' <= Telegram!Tries(u) + 1
          /\ Telegram!Tries(u)' \in Nat /\ emitted'[u] \in Nat
          /\ emitted'[u] <= Telegram!Tries(u)'
      BY <1>1, <1>5, <2>1, <2>3 DEF Telegram!Tries
    <3>3. Telegram!Tries(u) < registered /\ (~unsaved => Telegram!Tries(u) = 0)
      BY <1>1, <2>1, <3>1 DEF Handled
    <3>4. ~(u >= offset')
      BY <1>1, <1>2, <1>4, <1>6, <2>1, <2>3
    <3>5. emitted'[u] \in 0 .. Loads
      BY <1>1, <2>2, <3>2, <3>3
    <3>6. Handled(u)'
      BY <1>1, <1>3, <2>1, <2>2, <3>2, <3>3, <3>4 DEF Handled
    <3> QED BY <3>5, <3>6
  <2>4. CASE u \notin first .. done
    <3>1. emitted'[u] = emitted[u] /\ Telegram!Tries(u)' = Telegram!Tries(u)
      BY <1>5, <2>4 DEF Telegram!Tries
    <3>2. u >= offset' => u >= offset
      BY <1>1, <1>2, <1>4, <1>6, <2>1
    <3>3. u < offset' => u < offset \/ u <= confirmed
      BY <1>1, <1>2, <1>4, <1>6, <2>1, <2>4
    <3>4. Telegram!Tries(u)' > 0 \/ ~(u < offset' \/ u < onDisk' \/ u <= confirmed')
      BY <1>3, <1>7, <2>1, <3>1, <3>3 DEF Handled
    <3> QED BY <1>1, <1>3, <1>7, <2>1, <2>2, <3>1, <3>2, <3>4 DEF Handled
  <2> QED BY <2>3, <2>4
<1>9. emitted' \in [Telegram!UpdateIds -> 0 .. Loads] /\ skipped' \subseteq Telegram!UpdateIds
  <2>1. thrown # 0 => thrown \in Telegram!UpdateIds
    BY <1>1, <1>3, TelegramBounds
  <2> QED BY <1>3, <1>8, <2>1 DEF TelegramIInv, Telegram!TypeOK
<1>10. Telegram!TypeOK'
  BY <1>1, <1>3, <1>6, <1>7, <1>9 DEF TelegramIInv, Telegram!TypeOK
<1> QED BY <1>7, <1>8, <1>10 DEF TelegramIInv

LEMMA TelegramEnds ==
    ASSUME TelegramIInv,
           (\E saved \in BOOLEAN : Telegram!Unload(saved)) \/ Telegram!Crash
    PROVE  TelegramIInv'
<1>1. /\ UNCHANGED <<offset, asked, arrived, confirmed, registered, emitted, skipped>>
      /\ poll' = "unloaded" /\ onDisk' \in {onDisk, offset}
      /\ unsaved' = (unsaved \/ onDisk' # offset)
  BY DEF Telegram!Unload, Telegram!Crash
<1>2. unsaved' \in BOOLEAN /\ (~unsaved' => ~unsaved /\ onDisk' = offset)
  BY <1>1
<1>3. Telegram!TypeOK'
  BY <1>1, <1>2 DEF TelegramIInv, Telegram!TypeOK
<1>4. ASSUME NEW u \in Telegram!UpdateIds PROVE Handled(u)'
  <2>1. Handled(u)
    BY DEF TelegramIInv
  <2>2. u < onDisk' => u < onDisk \/ u < offset
    BY <1>1
  <2>3. Telegram!Tries(u)' = Telegram!Tries(u)
    BY <1>1 DEF Telegram!Tries
  <2> QED BY <1>1, <1>2, <2>1, <2>2, <2>3 DEF Handled
<1> QED BY <1>1, <1>2, <1>3, <1>4 DEF TelegramIInv

LEMMA TelegramNext ==
    TelegramIInv /\ [Telegram!Next]_(Telegram!telegramVars) => TelegramIInv'
<1> SUFFICES ASSUME TelegramIInv, [Telegram!Next]_(Telegram!telegramVars) PROVE TelegramIInv'
  OBVIOUS
<1>1. CASE UNCHANGED Telegram!telegramVars
  BY <1>1 DEF Telegram!telegramVars, TelegramIInv, Telegram!TypeOK, Handled, Telegram!Tries
<1> QED BY <1>1, TelegramWaits, TelegramRegister, TelegramAsk, TelegramAnswer, TelegramEnds
           DEF Telegram!Next

\* What comes in by Slack, Discord or Telegram is neither dropped nor handled
\* twice, as far as the adapter's memory and disk reach.
THEOREM NothingLostOrRepeated == ExtensionSpec => []InboundOnce
<1>1. ExtensionSpec => [](EmittedOnce /\ AckedIsEmitted)
  BY SlackInit, SlackNext, SlackHolds, ExtensionsRunSlack, PTL
<1>2. ExtensionSpec => []Discord!SessionInOrder
  BY DiscordInit, DiscordNext, DiscordHolds, ExtensionsRunDiscord, PTL
<1>3. ExtensionSpec => [](Telegram!TypeOK /\ Telegram!ForgottenWasHandled
                          /\ Telegram!RepeatedOnlyIfUnsaved)
  BY TelegramInit, TelegramNext, TelegramHolds, ExtensionsRunTelegram, PTL
<1>4. (EmittedOnce /\ AckedIsEmitted) /\ Discord!SessionInOrder
        /\ (Telegram!TypeOK /\ Telegram!ForgottenWasHandled /\ Telegram!RepeatedOnlyIfUnsaved)
      => InboundOnce
  BY DEF InboundOnce
<1> QED BY <1>1, <1>2, <1>3, <1>4, PTL

----------------------------------------------------------------------------
(* The host of the extensions *)

LEMMA ExtensionsRunHost == ExtensionSpec => Host!Init /\ [][Host!Next]_(Host!hostVars)
<1>1. ExtensionInit => Host!Init
  BY DEF ExtensionInit
<1>2. [ExtensionNext]_extensionVars => [Host!Next]_(Host!hostVars)
  BY DEF ExtensionNext, extensionVars, SlackStep, HostStep, DiscordStep, TelegramStep,
         ReplyStep, BridgeStep, StreamStep, InboxStep, hostVars, Host!hostVars
<1> QED BY <1>1, <1>2, PTL DEF ExtensionSpec

HostPcs == {"idle", "staged", "registering", "starting", "purging", "hook", "rollback",
            "undoing"}
Records == [pc : HostPcs, ext : Exts \cup {"none"}, load : 0 .. MaxLoads,
            kind : Host!OnDisk, again : BOOLEAN, list : SUBSET Host!LoadIds]
Operations == {r \in Records : r.pc \in {"registering", "starting"} => r.load # 0}

HostTypes ==
    /\ Host!TypeOK /\ op \in [Callers -> Operations]
    /\ \A p \in Callers : op[p].pc # "idle" => op[p].ext \in Exts

\* Somebody is in the middle of an operation on x.
About(p, x) == op[p].pc # "idle" /\ op[p].ext = x

\* Load l is in one of the records kept for x.
Holds(x, l) ==
    \/ l \in {current[x], subsOf[x], loaded[x]}
    \/ l \in triggers[x]
    \/ \E p \in Callers : About(p, x) /\ op[p].load = l

\* A load belongs to one extension, so that what is undone for one extension
\* is not the other's; and what is revoked was made.
LoadsAreOwned ==
    /\ \A l \in Host!LoadIds, x \in Exts : Holds(x, l) => l <= loads
    /\ \A l \in Host!LoadIds, x \in Exts, y \in Exts : Holds(x, l) /\ Holds(y, l) => x = y
    /\ \A l \in revoked : l <= loads

Clean(x) == tools[x] = {} /\ triggers[x] = {} /\ current[x] = 0 /\ subsOf[x] = 0
Whole(x, l) ==
    /\ l # 0 /\ current[x] = l /\ subsOf[x] = l /\ triggers[x] = {l}
    /\ l \in onBus /\ l \notin revoked
    /\ \A e \in tools[x] : e[2] = l

Quiet(x) == current[x] = 0 /\ subsOf[x] = 0

Resting(x) ==
    /\ current[x] = subsOf[x] /\ current[x] \in {0, loaded[x]}
    /\ x \notin botched =>
           IF loaded[x] = 0 THEN Clean(x) ELSE Whole(x, loaded[x]) /\ loaded[x] \in running

\* How far an operation that no other overlaps has come.
Underway(p, x) ==
    LET l == op[p].load
    IN  /\ op[p].pc \in {"staged", "registering", "starting", "rollback", "undoing"} =>
               loaded[x] = 0
        /\ op[p].pc = "staged" => Quiet(x) /\ (x \notin botched => Clean(x))
        /\ op[p].pc = "hook" => Clean(x)
        /\ op[p].pc = "registering" =>
               /\ l # 0 /\ current[x] = l /\ subsOf[x] = l /\ l \notin revoked
               /\ x \notin botched => tools[x] = {} /\ triggers[x] = {}
        /\ op[p].pc = "starting" =>
               /\ l # 0 /\ current[x] = l /\ subsOf[x] = l
               /\ x \notin botched => Whole(x, l) /\ l \in op[p].list
        /\ op[p].pc \in {"purging", "undoing"} => Quiet(x)

Sequential(x) ==
    /\ \A p \in Callers, q \in Callers : About(p, x) /\ About(q, x) => p = q
    /\ \A p \in Callers : About(p, x) => Underway(p, x)
    /\ (\A p \in Callers : ~About(p, x)) => Resting(x)

HostIInv ==
    /\ HostTypes /\ Host!RegistriesAgree /\ LoadsAreOwned
    /\ \A x \in Exts \ overlap : Sequential(x)

LEMMA HostBounds ==
    /\ Threshold \in Nat \ {0} /\ MaxLoads \in Nat /\ "none" \notin Exts
    /\ Host!LoadIds = 1 .. MaxLoads /\ 0 \notin Host!LoadIds
BY PartsAssumption DEF Host!HostAssumption, Host!LoadIds

LEMMA NamesOfTools == ASSUME NEW x \in Exts PROVE MCToolsOf[x] \subseteq Host!Names
BY DEF Host!Names

LEMMA BusyCallers == \A x \in Exts : Host!Busy(x) = {p \in Callers : About(p, x)}
BY DEF Host!Busy, About

LEMMA HostHolds ==
    HostIInv => Host!TypeOK /\ Host!RegistriesAgree /\ Host!LoadIsTransactional
<1> SUFFICES ASSUME HostIInv PROVE Host!LoadIsTransactional
  BY DEF HostIInv, HostTypes
<1>1. SUFFICES ASSUME NEW x \in Exts \ overlap, Host!Busy(x) = {}
               PROVE  /\ current[x] = subsOf[x] /\ current[x] \in {0, loaded[x]}
                      /\ x \notin botched =>
                            IF loaded[x] = 0
                            THEN Clean(x)
                            ELSE /\ current[x] = loaded[x] /\ triggers[x] = {loaded[x]}
                                 /\ loaded[x] \in (onBus \cap running) \ revoked
                                 /\ \A n \in MCToolsOf[x] :
                                        byName[n] # <<x, loaded[x]>> => byName[n][1] # x
  BY DEF Host!LoadIsTransactional, Clean
<1>2. Resting(x)
  BY <1>1, BusyCallers DEF HostIInv, Sequential
<1>3. ASSUME x \notin botched, loaded[x] # 0, NEW n \in MCToolsOf[x],
             byName[n] # <<x, loaded[x]>>, byName[n][1] = x
      PROVE  FALSE
  <2>1. n \in Host!Names /\ byName[n] \in (Exts \X Host!LoadIds) \cup {<<"none", 0>>}
    BY NamesOfTools DEF HostIInv, HostTypes, Host!TypeOK, Host!Nobody
  <2>2. byName[n] # Host!Nobody /\ byName[n] \in Exts \X Host!LoadIds
    BY <1>3, <2>1, HostBounds DEF Host!Nobody
  <2>3. <<n, byName[n][2]>> \in tools[x]
    BY <1>3, <2>1, <2>2 DEF HostIInv, Host!RegistriesAgree
  <2>4. byName[n][2] = loaded[x]
    BY <1>2, <1>3, <2>3 DEF Resting, Whole
  <2>5. byName[n] = <<x, loaded[x]>>
    BY <1>3, <2>2, <2>4
  <2> QED BY <1>3, <2>5
<1> QED BY <1>2, <1>3 DEF Resting, Whole

LEMMA HostInit == Host!Init => HostIInv
<1> SUFFICES ASSUME Host!Init PROVE HostIInv
  OBVIOUS
<1>1. Host!Idle \in Operations /\ Host!Idle.pc = "idle"
  BY HostBounds DEF Host!Idle, Operations, Records, HostPcs, Host!OnDisk
<1>2. op \in [Callers -> Operations] /\ \A p \in Callers : op[p].pc = "idle"
  BY <1>1 DEF Host!Init
<1>3. Host!TypeOK
  <2>1. disk \in [Exts -> Host!OnDisk]
    BY DEF Host!Init, Host!OnDisk, Kinds
  <2>2. /\ loaded \in [Exts -> 0 .. MaxLoads] /\ current \in [Exts -> 0 .. MaxLoads]
        /\ subsOf \in [Exts -> 0 .. MaxLoads] /\ failures \in [Exts -> 0 .. Threshold]
    BY HostBounds DEF Host!Init
  <2>3. /\ tools \in [Exts -> SUBSET (Host!Names \X Host!LoadIds)]
        /\ byName \in [Host!Names -> (Exts \X Host!LoadIds) \cup {Host!Nobody}]
        /\ triggers \in [Exts -> SUBSET Host!LoadIds]
        /\ row \in [Exts -> {"none", "active", "inactive", "crashed"}]
    BY DEF Host!Init
  <2>4. 0 \in 0 .. MaxLoads
    BY HostBounds
  <2> QED BY <1>2, <2>1, <2>2, <2>3, <2>4 DEF Host!Init, Host!TypeOK
<1>4. Host!RegistriesAgree
  BY DEF Host!Init, Host!RegistriesAgree
<1>5. LoadsAreOwned
  BY <1>2, HostBounds DEF Host!Init, LoadsAreOwned, Holds, About
<1>6. \A x \in Exts : Sequential(x)
  BY <1>2 DEF Host!Init, Sequential, About, Resting, Clean
<1> QED BY <1>2, <1>3, <1>4, <1>5, <1>6 DEF HostIInv, HostTypes

\* A step of caller p that concerns x, and of other extensions touches nothing.
Confined(p, x) ==
    /\ op[p].pc # "idle" => op[p].ext = x
    /\ (op[p].pc # "idle" => op[p].ext = x)'
    /\ \A q \in Callers \ {p} : op'[q] = op[q]
    /\ \A y \in Exts \ {x} :
           /\ loaded'[y] = loaded[y] /\ current'[y] = current[y] /\ subsOf'[y] = subsOf[y]
           /\ tools'[y] = tools[y] /\ triggers'[y] = triggers[y]
    /\ revoked' \subseteq revoked \cup {current[x]}
    /\ onBus \subseteq onBus' \cup {subsOf[x]}
    /\ running \subseteq running' \cup triggers[x]
    /\ overlap \subseteq overlap'
    /\ \A y \in Exts \ {x} : y \in botched' <=> y \in botched

LEMMA OthersUndisturbed ==
    ASSUME HostIInv, NEW p \in Callers, NEW x \in Exts, Confined(p, x),
           NEW y \in Exts \ overlap', y # x
    PROVE  Sequential(y)'
<1>1. Sequential(y)
  BY DEF HostIInv, Confined
<1>2. /\ loaded'[y] = loaded[y] /\ current'[y] = current[y] /\ subsOf'[y] = subsOf[y]
      /\ tools'[y] = tools[y] /\ triggers'[y] = triggers[y]
      /\ y \in botched' <=> y \in botched
  BY DEF Confined
<1>3. ASSUME NEW q \in Callers PROVE /\ About(q, y)' <=> About(q, y)
                                     /\ About(q, y) => op'[q] = op[q]
  BY DEF Confined, About
<1>4. ASSUME NEW l \in Host!LoadIds, Holds(y, l)
      PROVE  /\ l \in onBus => l \in onBus'
             /\ l \in running => l \in running'
             /\ l \notin revoked => l \notin revoked'
  <2>1. ~Holds(x, l)
    BY <1>4 DEF HostIInv, LoadsAreOwned
  <2>2. l # current[x] /\ l # subsOf[x] /\ l \notin triggers[x]
    BY <2>1 DEF Holds
  <2> QED BY <2>2 DEF Confined
<1>5. ASSUME NEW l \in Host!LoadIds, Whole(y, l) PROVE Whole(y, l)'
  <2>1. Holds(y, l)
    BY <1>5 DEF Whole, Holds
  <2> QED BY <1>2, <1>4, <1>5, <2>1 DEF Whole
<1>6. ASSUME NEW q \in Callers, About(q, y) PROVE Underway(q, y)'
  <2>1. Underway(q, y) /\ op'[q] = op[q]
    BY <1>1, <1>3, <1>6 DEF Sequential
  <2>2. op[q].load \in 0 .. MaxLoads
    BY DEF HostIInv, HostTypes, Operations, Records
  <2>3. op[q].load # 0 => op[q].load \in Host!LoadIds /\ Holds(y, op[q].load)
    BY <1>6, <2>2, HostBounds DEF Holds
  <2>4. op[q].pc = "starting" /\ y \notin botched => Whole(y, op[q].load)'
    BY <1>5, <2>1, <2>3 DEF Underway, Whole
  <2> QED BY <1>2, <1>4, <2>1, <2>3, <2>4 DEF Underway, Clean, Quiet
<1>7. ASSUME Resting(y) PROVE Resting(y)'
  <2>1. loaded[y] \in 0 .. MaxLoads
    BY DEF HostIInv, HostTypes, Host!TypeOK
  <2>2. loaded[y] # 0 => loaded[y] \in Host!LoadIds /\ Holds(y, loaded[y])
    BY <2>1, HostBounds DEF Holds
  <2> QED BY <1>2, <1>4, <1>5, <1>7, <2>2 DEF Resting, Clean
<1> QED BY <1>1, <1>3, <1>6, <1>7 DEF Sequential

LEMMA HostStepKeeps ==
    ASSUME HostIInv, NEW p \in Callers, NEW x \in Exts, Confined(p, x),
           HostTypes', Host!RegistriesAgree', LoadsAreOwned',
           x \notin overlap' => Sequential(x)'
    PROVE  HostIInv'
BY OthersUndisturbed DEF HostIInv

\* No load changes hands.
LEMMA NoNewHolder ==
    ASSUME HostIInv, loads' = loads, revoked' \subseteq revoked \cup {current[z] : z \in Exts},
           HostTypes',
           \A x \in Exts, l \in Host!LoadIds : Holds(x, l)' => Holds(x, l)
    PROVE  LoadsAreOwned'
<1>1. ASSUME NEW l \in revoked' PROVE l <= loads
  <2>1. CASE l \in revoked
    BY <2>1 DEF HostIInv, LoadsAreOwned
  <2>2. CASE \E z \in Exts : l = current[z]
    <3>1. PICK z \in Exts : l = current[z]
      BY <2>2
    <3>2. l \in Host!LoadIds
      BY <1>1 DEF HostTypes, Host!TypeOK
    <3>3. Holds(z, l)
      BY <3>1 DEF Holds
    <3> QED BY <3>2, <3>3 DEF HostIInv, LoadsAreOwned
  <2> QED BY <1>1, <2>1, <2>2
<1> QED BY <1>1 DEF HostIInv, LoadsAreOwned

\* Steps of the files and of the failure log only.
LEMMA HostQuiet ==
    ASSUME HostIInv, UNCHANGED <<loaded, Host!regVars, op, loads, overlap>>, HostTypes'
    PROVE  HostIInv'
<1>1. Host!RegistriesAgree'
  BY DEF HostIInv, Host!RegistriesAgree, Host!regVars
<1>2. LoadsAreOwned'
  BY DEF HostIInv, LoadsAreOwned, Holds, About, Host!regVars
<1>3. \A x \in Exts \ overlap' : Sequential(x)'
  BY DEF HostIInv, Sequential, About, Underway, Resting, Quiet, Clean, Whole, Host!regVars
<1> QED BY <1>1, <1>2, <1>3 DEF HostIInv

LEMMA HostWrite ==
    ASSUME HostIInv, NEW x \in Exts,
           (\E kind \in Kinds : Host!WriteExtension(x, kind)) \/ Host!WindowPasses(x)
    PROVE  HostIInv'
<1>1. /\ UNCHANGED <<row, crashed, loaded, Host!regVars, op, loads, overlap>>
  BY DEF Host!WriteExtension, Host!WindowPasses
<1>2. disk' \in [Exts -> Host!OnDisk]
  BY DEF HostIInv, HostTypes, Host!TypeOK, Host!WriteExtension, Host!WindowPasses, Host!OnDisk,
         Kinds
<1>3. failures' \in [Exts -> 0 .. Threshold]
  <2>1. CASE Host!WindowPasses(x)
    <3>1. failures[x] \in 0 .. Threshold /\ failures[x] > 0
      BY <2>1 DEF HostIInv, HostTypes, Host!TypeOK, Host!WindowPasses
    <3>2. failures[x] - 1 \in 0 .. Threshold
      BY <3>1, HostBounds
    <3> QED BY <2>1, <3>2 DEF HostIInv, HostTypes, Host!TypeOK, Host!WindowPasses
  <2>2. CASE failures' = failures
    BY <2>2 DEF HostIInv, HostTypes, Host!TypeOK
  <2> QED BY <2>1, <2>2 DEF Host!WriteExtension
<1>4. HostTypes'
  BY <1>1, <1>2, <1>3 DEF HostIInv, HostTypes, Host!TypeOK, Host!regVars
<1> QED BY <1>1, <1>4, HostQuiet

\* What a caller's record may become.
LEMMA OperationSet ==
    ASSUME HostTypes, NEW p \in Callers, NEW r \in Operations,
           r.pc # "idle" => r.ext \in Exts, op' = [op EXCEPT ![p] = r]
    PROVE  /\ op' \in [Callers -> Operations] /\ op'[p] = r
           /\ \A q \in Callers \ {p} : op'[q] = op[q]
           /\ \A q \in Callers : op'[q].pc # "idle" => op'[q].ext \in Exts
           /\ \A q \in Callers : op'[q].pc \in HostPcs
<1>1. /\ op' \in [Callers -> Operations] /\ op'[p] = r
      /\ \A q \in Callers \ {p} : op'[q] = op[q]
  BY DEF HostTypes
<1>2. \A q \in Callers : op'[q].pc # "idle" => op'[q].ext \in Exts
  BY <1>1 DEF HostTypes
<1>3. \A q \in Callers : op'[q].pc \in HostPcs
  BY <1>1 DEF Operations, Records
<1> QED BY <1>1, <1>2, <1>3

\* The four records a caller can have.
LEMMA OperationIdle == Host!Idle \in Operations /\ Host!Idle.pc = "idle" /\ Host!Idle.load = 0
BY HostBounds DEF Host!Idle, Operations, Records, HostPcs, Host!OnDisk

LEMMA OperationMoved ==
    ASSUME HostTypes, NEW p \in Callers, op[p].pc # "idle", NEW pc \in HostPcs, Host!Goto(p, pc),
           pc \notin {"registering", "starting"} \/ op[p].pc = "registering"
    PROVE  \E r \in Operations :
               /\ op' = [op EXCEPT ![p] = r] /\ r.pc = pc /\ r.ext = op[p].ext
               /\ r.ext \in Exts /\ r.load = op[p].load /\ r.kind = op[p].kind
               /\ r.again = op[p].again /\ r.list = op[p].list
<1>1. op[p] \in Operations /\ op[p].ext \in Exts
  BY DEF HostTypes
<1> DEFINE r == [op[p] EXCEPT !.pc = pc]
<1>2. /\ r \in Records /\ r.pc = pc /\ r.ext = op[p].ext
      /\ r.load = op[p].load /\ r.kind = op[p].kind /\ r.again = op[p].again
      /\ r.list = op[p].list
  BY <1>1 DEF Operations, Records
<1>3. op' = [op EXCEPT ![p] = r]
  BY DEF Host!Goto
<1>4. r \in Operations
  BY <1>1, <1>2 DEF Operations
<1> QED BY <1>1, <1>2, <1>3, <1>4

LEMMA StagedRecord ==
    ASSUME NEW x \in Exts, NEW k \in Host!OnDisk
    PROVE  LET r == [Host!Idle EXCEPT !.pc = "staged", !.ext = x, !.kind = k]
           IN r \in Operations /\ r.pc = "staged" /\ r.ext = x /\ r.load = 0
<1>1. Host!Idle \in Records /\ Host!Idle.load = 0
  BY OperationIdle DEF Operations
<1> DEFINE r == [Host!Idle EXCEPT !.pc = "staged", !.ext = x, !.kind = k]
<1>2. r \in Records /\ r.pc = "staged" /\ r.ext = x /\ r.load = 0
  BY <1>1 DEF Records, HostPcs
<1> HIDE DEF r
<1>3. r \in Operations
  BY <1>2 DEF Operations
<1> QED BY <1>2, <1>3 DEF r

\* Steps of p's record alone, on a clean extension that is not loaded.
LEMMA HostRecordOnly ==
    ASSUME HostIInv, NEW p \in Callers, NEW x \in Exts, NEW r \in Operations,
           UNCHANGED <<disk, row, loaded, crashed, Host!regVars, failures, loads>>,
           op' = [op EXCEPT ![p] = r], op[p].pc # "idle" => op[p].ext = x,
           r.pc # "idle" => r.ext = x, r.load = 0,
           overlap' \in SUBSET Exts, overlap \subseteq overlap',
           x \notin overlap' => Sequential(x)'
    PROVE  HostIInv'
<1>1. /\ op' \in [Callers -> Operations] /\ op'[p] = r
      /\ \A q \in Callers \ {p} : op'[q] = op[q]
      /\ \A q \in Callers : op'[q].pc # "idle" => op'[q].ext \in Exts
      /\ \A q \in Callers : op'[q].pc \in HostPcs
  BY OperationSet DEF HostIInv
<1>2. HostTypes'
  BY <1>1 DEF HostIInv, HostTypes, Host!TypeOK, Host!regVars, HostPcs
<1>3. Host!RegistriesAgree'
  BY DEF HostIInv, Host!RegistriesAgree, Host!regVars
<1>4. ASSUME NEW y \in Exts, NEW l \in Host!LoadIds, Holds(y, l)' PROVE Holds(y, l)
  <2>1. CASE \E q \in Callers : About(q, y)' /\ op'[q].load = l
    <3>1. PICK q \in Callers : About(q, y)' /\ op'[q].load = l
      BY <2>1
    <3>2. q # p
      BY <1>1, <3>1, HostBounds
    <3> QED BY <1>1, <3>1, <3>2 DEF Holds, About
  <2>2. CASE ~\E q \in Callers : About(q, y)' /\ op'[q].load = l
    BY <1>4, <2>2 DEF Holds, Host!regVars
  <2> QED BY <2>1, <2>2
<1>5. LoadsAreOwned'
  BY <1>2, <1>4, NoNewHolder DEF Host!regVars
<1>6. Confined(p, x)
  BY <1>1 DEF Confined, Host!regVars
<1> QED BY <1>2, <1>3, <1>5, <1>6, HostStepKeeps

LEMMA HostLoad ==
    ASSUME HostIInv, NEW p \in Callers, NEW x \in Exts, Host!Load(p, x)
    PROVE  HostIInv'
<1> DEFINE r == [Host!Idle EXCEPT !.pc = "staged", !.ext = x, !.kind = disk[x]]
<1>1. r \in Operations /\ r.pc = "staged" /\ r.ext = x /\ r.load = 0
  <2>1. disk[x] \in Host!OnDisk
    BY DEF HostIInv, HostTypes, Host!TypeOK
  <2> QED BY <2>1, StagedRecord
<1>2. /\ UNCHANGED <<disk, row, loaded, crashed, Host!regVars, failures, loads>>
      /\ op[p].pc = "idle" /\ loaded[x] = 0 /\ op' = [op EXCEPT ![p] = r]
      /\ overlap' = IF Host!Busy(x) # {} THEN overlap \cup {x} ELSE overlap
  BY DEF Host!Load, Host!Noted
<1> HIDE DEF r
<1>3. overlap' \in SUBSET Exts /\ overlap \subseteq overlap'
  BY <1>2 DEF HostIInv, HostTypes, Host!TypeOK
<1>4. ASSUME x \notin overlap' PROVE Sequential(x)'
  <2>1. x \notin overlap /\ \A q \in Callers : ~About(q, x)
    BY <1>2, <1>4, BusyCallers
  <2>2. Quiet(x) /\ (x \notin botched => Clean(x))
    BY <1>2, <2>1 DEF HostIInv, Sequential, Resting, Quiet
  <2>3. op'[p] = r /\ \A q \in Callers \ {p} : op'[q] = op[q]
    BY <1>1, <1>2 DEF HostIInv, HostTypes
  <2>4. \A q \in Callers : About(q, x)' => q = p
    BY <2>1, <2>3 DEF About
  <2>5. Quiet(x)' /\ (x \notin botched => Clean(x))' /\ loaded'[x] = 0
    BY <1>2, <2>2 DEF Quiet, Clean, Host!regVars
  <2>6. Underway(p, x)' /\ About(p, x)'
    BY <1>1, <2>3, <2>5 DEF Underway, About
  <2> QED BY <2>4, <2>6 DEF Sequential
<1> QED BY <1>1, <1>2, <1>3, <1>4, HostRecordOnly

LEMMA HostSmokeFails ==
    ASSUME HostIInv, NEW p \in Callers, Host!SmokeFails(p), NEW x, x = op[p].ext
    PROVE  HostIInv'
<1>1. /\ UNCHANGED <<disk, row, loaded, crashed, Host!regVars, failures, loads, overlap>>
      /\ op[p].pc = "staged" /\ op' = [op EXCEPT ![p] = Host!Idle] /\ x \in Exts
  BY DEF Host!SmokeFails, HostIInv, HostTypes
<1>2. overlap' \in SUBSET Exts /\ overlap \subseteq overlap'
  BY <1>1 DEF HostIInv, HostTypes, Host!TypeOK
<1>3. ASSUME x \notin overlap' PROVE Sequential(x)'
  <2>1. About(p, x) /\ Sequential(x)
    BY <1>1, <1>3 DEF HostIInv, About
  <2>2. /\ loaded[x] = 0 /\ Quiet(x) /\ (x \notin botched => Clean(x))
        /\ \A q \in Callers : About(q, x) => q = p
    BY <1>1, <2>1 DEF Sequential, Underway
  <2>3. op'[p] = Host!Idle /\ \A q \in Callers \ {p} : op'[q] = op[q]
    BY <1>1, OperationIdle DEF HostIInv, HostTypes
  <2>4. \A q \in Callers : ~About(q, x)'
    BY <2>2, <2>3, OperationIdle DEF About
  <2>5. Resting(x)'
    BY <1>1, <2>2 DEF Resting, Clean, Quiet, Host!regVars
  <2> QED BY <2>4, <2>5 DEF Sequential
<1> QED BY <1>1, <1>2, <1>3, OperationIdle, HostRecordOnly

LEMMA HostSmokePasses ==
    ASSUME HostIInv, NEW p \in Callers, Host!SmokePasses(p),
           NEW x, x = op[p].ext, NEW l, l = loads + 1
    PROVE  HostIInv'
<1> DEFINE r == [op[p] EXCEPT !.pc = "registering", !.load = l]
<1>1. /\ UNCHANGED <<disk, loaded, crashed, revoked, onBus, tools, byName, triggers, running,
                     failures, overlap, botched>>
      /\ op[p].pc = "staged" /\ x \in Exts /\ loads < MaxLoads /\ loads' = l
      /\ row' = [row EXCEPT ![x] = IF row[x] = "none" THEN "active" ELSE row[x]]
      /\ current' = [current EXCEPT ![x] = l] /\ subsOf' = [subsOf EXCEPT ![x] = l]
      /\ op' = [op EXCEPT ![p] = r]
  BY DEF Host!SmokePasses, HostIInv, HostTypes
<1>2. l \in 1 .. MaxLoads /\ l \in Host!LoadIds /\ l # 0 /\ loads \in Nat
  BY <1>1, HostBounds DEF HostIInv, HostTypes, Host!TypeOK
<1>3. r \in Operations /\ r.pc = "registering" /\ r.ext = x /\ r.load = l
  <2>1. op[p] \in Operations
    BY DEF HostIInv, HostTypes
  <2>2. l \in 0 .. MaxLoads
    BY <1>2, HostBounds
  <2> QED BY <1>2, <2>1, <2>2 DEF Operations, Records, HostPcs
<1>4. op[p].ext = x
  OBVIOUS
<1> HIDE DEF r
<1>5. /\ op' \in [Callers -> Operations] /\ op'[p] = r
      /\ \A q \in Callers \ {p} : op'[q] = op[q]
      /\ \A q \in Callers : op'[q].pc # "idle" => op'[q].ext \in Exts
      /\ \A q \in Callers : op'[q].pc \in HostPcs
  BY <1>1, <1>3, OperationSet DEF HostIInv
<1>6. /\ current' \in [Exts -> 0 .. MaxLoads] /\ current'[x] = l
      /\ subsOf' \in [Exts -> 0 .. MaxLoads] /\ subsOf'[x] = l
      /\ \A y \in Exts \ {x} : current'[y] = current[y] /\ subsOf'[y] = subsOf[y]
  <2>1. l \in 0 .. MaxLoads
    BY <1>2, HostBounds
  <2> QED BY <1>1, <2>1 DEF HostIInv, HostTypes, Host!TypeOK
<1>7. HostTypes'
  <2>1. row' \in [Exts -> {"none", "active", "inactive", "crashed"}]
    <3>1. row[x] \in {"none", "active", "inactive", "crashed"}
      BY <1>1 DEF HostIInv, HostTypes, Host!TypeOK
    <3>2. PICK v \in {"none", "active", "inactive", "crashed"} : row' = [row EXCEPT ![x] = v]
      BY <1>1, <3>1
    <3> QED BY <1>1, <3>2 DEF HostIInv, HostTypes, Host!TypeOK
  <2>2. loads' \in 0 .. MaxLoads
    BY <1>1, <1>2, HostBounds
  <2> QED BY <1>1, <1>5, <1>6, <2>1, <2>2 DEF HostIInv, HostTypes, Host!TypeOK, HostPcs
<1>8. Host!RegistriesAgree'
  BY <1>1 DEF HostIInv, Host!RegistriesAgree
<1>9. ASSUME NEW y \in Exts, NEW k \in Host!LoadIds, Holds(y, k)'
      PROVE  Holds(y, k) \/ (y = x /\ k = l)
  <2>1. ASSUME NEW q \in Callers, About(q, y)', op'[q].load = k
        PROVE  Holds(y, k) \/ (y = x /\ k = l)
    <3>1. CASE q = p
      BY <1>3, <1>5, <2>1, <3>1 DEF About
    <3>2. CASE q # p
      BY <1>5, <2>1, <3>2 DEF Holds, About
    <3> QED BY <3>1, <3>2
  <2>2. CASE k \in {current'[y], subsOf'[y], loaded'[y]}
    BY <1>1, <1>6, <2>2 DEF Holds
  <2>3. CASE k \in triggers'[y]
    BY <1>1, <2>3 DEF Holds
  <2> QED BY <1>9, <2>1, <2>2, <2>3 DEF Holds
<1>10. LoadsAreOwned'
  <2>1. \A y \in Exts, k \in Host!LoadIds : Holds(y, k) => k <= loads
    BY DEF HostIInv, LoadsAreOwned
  <2>2. \A y \in Exts : ~Holds(y, l)
    BY <1>2, <2>1
  <2>3. \A y \in Exts, k \in Host!LoadIds : Holds(y, k)' => k <= l
    BY <1>2, <1>9, <2>1, HostBounds
  <2>4. \A k \in Host!LoadIds, y \in Exts, z \in Exts : Holds(y, k)' /\ Holds(z, k)' => y = z
    BY <1>9, <2>2 DEF HostIInv, LoadsAreOwned
  <2>5. \A k \in revoked' : k <= loads'
    <3>1. \A k \in revoked : k \in Host!LoadIds /\ k <= loads
      BY DEF HostIInv, LoadsAreOwned, HostTypes, Host!TypeOK
    <3>2. \A k \in Host!LoadIds : k <= loads => k <= l
      BY <1>2, HostBounds
    <3> QED BY <1>1, <3>1, <3>2
  <2> QED BY <1>1, <2>3, <2>4, <2>5 DEF LoadsAreOwned
<1>11. Confined(p, x)
  BY <1>1, <1>3, <1>4, <1>5, <1>6 DEF Confined
<1>12. ASSUME x \notin overlap' PROVE Sequential(x)'
  <2>1. About(p, x) /\ Sequential(x)
    BY <1>1, <1>4, <1>12 DEF HostIInv, About
  <2>2. /\ loaded[x] = 0 /\ (x \notin botched => Clean(x))
        /\ \A q \in Callers : About(q, x) => q = p
    BY <1>1, <2>1 DEF Sequential, Underway
  <2>3. About(p, x)' /\ \A q \in Callers : About(q, x)' => q = p
    BY <1>3, <1>5, <2>2 DEF About
  <2>4. l \notin revoked'
    BY <1>1, <1>2 DEF HostIInv, LoadsAreOwned
  <2>5. Underway(p, x)'
    BY <1>1, <1>2, <1>3, <1>5, <1>6, <2>2, <2>4 DEF Underway, Clean
  <2> QED BY <2>3, <2>5 DEF Sequential
<1> QED BY <1>1, <1>7, <1>8, <1>10, <1>11, <1>12, HostStepKeeps

\* registerTool: a name that is free is put into both registries.
LEMMA RegisteredAgree ==
    ASSUME HostTypes, Host!RegistriesAgree, NEW x \in Exts, NEW l \in Host!LoadIds,
           Host!Registered(x, l)
    PROVE  /\ Host!RegistriesAgree'
           /\ tools' \in [Exts -> SUBSET (Host!Names \X Host!LoadIds)]
           /\ byName' \in [Host!Names -> (Exts \X Host!LoadIds) \cup {Host!Nobody}]
           /\ \A y \in Exts \ {x} : tools'[y] = tools[y]
           /\ \A e \in tools'[x] : e \in tools[x] \/ e[2] = l
<1> DEFINE free == {n \in MCToolsOf[x] : byName[n] = Host!Nobody}
<1>1. /\ tools' = [tools EXCEPT ![x] = tools[x] \cup (free \X {l})]
      /\ byName' = [n \in Host!Names |-> IF n \in free THEN <<x, l>> ELSE byName[n]]
  BY DEF Host!Registered
<1>2. /\ free \subseteq Host!Names /\ \A n \in free : byName[n] = Host!Nobody
  BY NamesOfTools
<1> HIDE DEF free
<1>3. /\ tools \in [Exts -> SUBSET (Host!Names \X Host!LoadIds)]
      /\ byName \in [Host!Names -> (Exts \X Host!LoadIds) \cup {Host!Nobody}]
  BY DEF HostTypes, Host!TypeOK
<1>4. free \X {l} \subseteq Host!Names \X Host!LoadIds
  BY <1>2
<1>5. /\ tools' \in [Exts -> SUBSET (Host!Names \X Host!LoadIds)]
      /\ tools'[x] = tools[x] \cup (free \X {l})
      /\ \A y \in Exts \ {x} : tools'[y] = tools[y]
  <2> DEFINE t == tools[x] \cup (free \X {l})
  <2>1. t \in SUBSET (Host!Names \X Host!LoadIds)
    BY <1>3, <1>4
  <2>2. tools' = [tools EXCEPT ![x] = t]
    BY <1>1
  <2> HIDE DEF t
  <2>3. /\ tools' \in [Exts -> SUBSET (Host!Names \X Host!LoadIds)] /\ tools'[x] = t
        /\ \A y \in Exts \ {x} : tools'[y] = tools[y]
    BY <1>3, <2>1, <2>2
  <2> QED BY <2>3 DEF t
<1>6. /\ byName' \in [Host!Names -> (Exts \X Host!LoadIds) \cup {Host!Nobody}]
      /\ \A n \in free : byName'[n] = <<x, l>>
      /\ \A n \in Host!Names \ free : byName'[n] = byName[n]
  BY <1>1, <1>2, <1>3
<1>7. ASSUME NEW n \in Host!Names, byName'[n] # Host!Nobody
      PROVE  <<n, byName'[n][2]>> \in tools'[byName'[n][1]]
  <2>1. CASE n \in free
    BY <1>5, <1>6, <2>1
  <2>2. CASE n \notin free
    <3>1. byName'[n] = byName[n] /\ byName[n] \in Exts \X Host!LoadIds
      BY <1>3, <1>6, <1>7, <2>2
    <3>2. <<n, byName[n][2]>> \in tools[byName[n][1]]
      BY <1>7, <3>1 DEF Host!RegistriesAgree
    <3>3. byName[n][1] \in Exts
      BY <3>1
    <3> QED BY <1>5, <3>1, <3>2, <3>3
  <2> QED BY <2>1, <2>2
<1>8. ASSUME NEW y \in Exts, NEW e \in tools'[y] PROVE byName'[e[1]] = <<y, e[2]>>
  <2>1. CASE e \in tools[y]
    <3>1. e[1] \in Host!Names /\ e[2] \in Host!LoadIds /\ byName[e[1]] = <<y, e[2]>>
      BY <1>3, <2>1 DEF Host!RegistriesAgree
    <3>2. byName[e[1]] # Host!Nobody
      BY <3>1, HostBounds DEF Host!Nobody
    <3> QED BY <1>2, <1>6, <3>1, <3>2
  <2>2. CASE e \notin tools[y]
    <3>1. y = x /\ e \in free \X {l}
      BY <1>5, <1>8, <2>2
    <3> QED BY <1>6, <3>1
  <2> QED BY <2>1, <2>2
<1>9. \A e \in tools'[x] : e \in tools[x] \/ e[2] = l
  BY <1>5
<1>10. Host!RegistriesAgree'
  BY <1>7, <1>8 DEF Host!RegistriesAgree
<1> QED BY <1>5, <1>6, <1>9, <1>10

LEMMA EvictedAgree ==
    ASSUME HostTypes, Host!RegistriesAgree, NEW x \in Exts, Host!Evict(x)
    PROVE  /\ Host!RegistriesAgree'
           /\ tools' \in [Exts -> SUBSET (Host!Names \X Host!LoadIds)]
           /\ byName' \in [Host!Names -> (Exts \X Host!LoadIds) \cup {Host!Nobody}]
           /\ triggers' \in [Exts -> SUBSET Host!LoadIds]
           /\ \A y \in Exts \ {x} : tools'[y] = tools[y] /\ triggers'[y] = triggers[y]
           /\ tools'[x] = {} /\ triggers'[x] = {}
           /\ botched' \subseteq Exts /\ \A y \in Exts \ {x} : y \in botched' <=> y \in botched
<1> DEFINE gone(n) == \E l \in Host!LoadIds : <<n, l>> \in tools[x] /\ byName[n] = <<x, l>>
<1>1. /\ tools' = [tools EXCEPT ![x] = {}] /\ triggers' = [triggers EXCEPT ![x] = {}]
      /\ byName' = [n \in Host!Names |-> IF gone(n) THEN Host!Nobody ELSE byName[n]]
  BY DEF Host!Evict
<1>2. /\ tools \in [Exts -> SUBSET (Host!Names \X Host!LoadIds)]
      /\ byName \in [Host!Names -> (Exts \X Host!LoadIds) \cup {Host!Nobody}]
      /\ triggers \in [Exts -> SUBSET Host!LoadIds]
  BY DEF HostTypes, Host!TypeOK
<1>3. \A n \in Host!Names : byName[n] # Host!Nobody /\ byName[n][1] = x => gone(n)
  <2>1. SUFFICES ASSUME NEW n \in Host!Names, byName[n] # Host!Nobody, byName[n][1] = x
                 PROVE  gone(n)
    OBVIOUS
  <2>2. byName[n] \in Exts \X Host!LoadIds
    BY <1>2, <2>1
  <2>3. byName[n] = <<x, byName[n][2]>> /\ byName[n][2] \in Host!LoadIds
    BY <2>1, <2>2
  <2>4. <<n, byName[n][2]>> \in tools[x]
    BY <2>1 DEF Host!RegistriesAgree
  <2> QED BY <2>3, <2>4
<1>4. \A n \in Host!Names : gone(n) => byName[n][1] = x
  OBVIOUS
<1>5. /\ byName' \in [Host!Names -> (Exts \X Host!LoadIds) \cup {Host!Nobody}]
      /\ \A n \in Host!Names : byName'[n] = IF gone(n) THEN Host!Nobody ELSE byName[n]
  BY <1>1, <1>2
<1> HIDE DEF gone
<1>6. /\ tools' \in [Exts -> SUBSET (Host!Names \X Host!LoadIds)]
      /\ triggers' \in [Exts -> SUBSET Host!LoadIds]
      /\ \A y \in Exts \ {x} : tools'[y] = tools[y] /\ triggers'[y] = triggers[y]
      /\ tools'[x] = {} /\ triggers'[x] = {}
  BY <1>1, <1>2
<1>7. ASSUME NEW n \in Host!Names, byName'[n] # Host!Nobody
      PROVE  <<n, byName'[n][2]>> \in tools'[byName'[n][1]]
  <2>1. ~gone(n) /\ byName'[n] = byName[n]
    BY <1>5, <1>7
  <2>2. byName[n][1] # x /\ byName[n][1] \in Exts
    BY <1>2, <1>3, <1>7, <2>1
  <2> QED BY <1>6, <1>7, <2>1, <2>2 DEF Host!RegistriesAgree
<1>8. ASSUME NEW y \in Exts, NEW e \in tools'[y] PROVE byName'[e[1]] = <<y, e[2]>>
  <2>1. y # x /\ e \in tools[y]
    BY <1>6, <1>8
  <2>2. e[1] \in Host!Names /\ byName[e[1]] = <<y, e[2]>>
    BY <1>2, <2>1 DEF Host!RegistriesAgree
  <2>3. ~gone(e[1])
    BY <1>4, <2>1, <2>2
  <2> QED BY <1>5, <2>2, <2>3
<1>9. botched' \subseteq Exts /\ \A y \in Exts \ {x} : y \in botched' <=> y \in botched
  BY DEF Host!Evict, HostTypes, Host!TypeOK
<1> QED BY <1>5, <1>6, <1>7, <1>8, <1>9 DEF Host!RegistriesAgree

LEMMA HostRegister ==
    ASSUME HostIInv, NEW p \in Callers, Host!Register(p), NEW x, x = op[p].ext,
           NEW l, l = op[p].load
    PROVE  HostIInv'
<1>1. /\ UNCHANGED <<disk, row, loaded, crashed, current, revoked, subsOf, running, failures,
                     loads, overlap, botched>>
      /\ op[p].pc = "registering" /\ x \in Exts
      /\ \/ op' = [op EXCEPT ![p].pc = "rollback"]
         \/ l \notin revoked /\ op' = [op EXCEPT ![p].pc = "starting", ![p].list = triggers'[x]]
      /\ l \in revoked => UNCHANGED <<tools, byName, onBus, triggers>>
      /\ l \notin revoked =>
             /\ Host!Registered(x, l) /\ onBus' = onBus \cup {l}
             /\ triggers' = [triggers EXCEPT ![x] = triggers[x] \cup {l}]
  BY DEF Host!Register, HostIInv, HostTypes
<1>2. PICK r \in Operations :
          /\ op' = [op EXCEPT ![p] = r] /\ r.pc \in {"rollback", "starting"}
          /\ r.ext = x /\ r.ext \in Exts /\ r.load = l
          /\ r.pc = "starting" => r.list = triggers'[x]
  <2>1. CASE op' = [op EXCEPT ![p].pc = "rollback"]
    <3>1. Host!Goto(p, "rollback")
      BY <2>1 DEF Host!Goto
    <3>2. op[p].pc # "idle" /\ "rollback" \in HostPcs
      BY <1>1 DEF HostPcs
    <3>3. PICK r \in Operations :
              /\ op' = [op EXCEPT ![p] = r] /\ r.pc = "rollback"
              /\ r.ext = op[p].ext /\ r.ext \in Exts /\ r.load = op[p].load
      BY <3>1, <3>2, OperationMoved DEF HostIInv
    <3> QED BY <3>3
  <2>2. CASE l \notin revoked /\ op' = [op EXCEPT ![p].pc = "starting", ![p].list = triggers'[x]]
    <3> DEFINE s == [op[p] EXCEPT !.pc = "starting", !.list = triggers'[x]]
    <3>1. op[p] \in Operations /\ op[p].load # 0 /\ l \in Host!LoadIds
      BY <1>1, HostBounds DEF HostIInv, HostTypes, Operations, Records
    <3>2. triggers'[x] \subseteq Host!LoadIds
      BY <1>1, <2>2, <3>1 DEF HostIInv, HostTypes, Host!TypeOK
    <3>3. /\ s \in Records /\ s.pc = "starting" /\ s.ext = x /\ s.load = l
          /\ s.list = triggers'[x]
      BY <3>1, <3>2 DEF Operations, Records, HostPcs
    <3>4. op' = [op EXCEPT ![p] = s]
      BY <2>2
    <3> HIDE DEF s
    <3>5. s \in Operations
      BY <3>1, <3>3 DEF Operations
    <3> QED BY <1>1, <3>3, <3>4, <3>5
  <2> QED BY <1>1, <2>1, <2>2
<1>3. op[p].ext = x /\ op[p].load = l /\ l \in 0 .. MaxLoads /\ l # 0
  BY <1>1 DEF HostIInv, HostTypes, Operations, Records
<1>4. /\ op' \in [Callers -> Operations] /\ op'[p] = r
      /\ \A q \in Callers \ {p} : op'[q] = op[q]
      /\ \A q \in Callers : op'[q].pc # "idle" => op'[q].ext \in Exts
      /\ \A q \in Callers : op'[q].pc \in HostPcs
  BY <1>2, OperationSet DEF HostIInv
<1>5. About(p, x) /\ Holds(x, l)
  BY <1>1, <1>3 DEF About, Holds
\* Without an overlap the api is not revoked, and the load is numbered.
<1>6. ASSUME x \notin overlap PROVE l \notin revoked
  BY <1>1, <1>3, <1>5, <1>6 DEF HostIInv, Sequential, Underway
<1>7. CASE l \in revoked
  <2>1. x \in overlap
    BY <1>6, <1>7
  <2>2. l \in revoked => UNCHANGED <<tools, byName, onBus, triggers>>
    BY <1>1
  <2>3. HostTypes'
    BY <1>1, <1>4, <2>2, <1>7 DEF HostIInv, HostTypes, Host!TypeOK, HostPcs
  <2>4. Host!RegistriesAgree'
    BY <2>2, <1>7 DEF HostIInv, Host!RegistriesAgree
  <2>5. \A y \in Exts, k \in Host!LoadIds : Holds(y, k)' => Holds(y, k)
    BY <1>1, <1>2, <1>3, <1>4, <1>5, <2>2, <1>7 DEF Holds, About
  <2>6. LoadsAreOwned'
    BY <1>1, <2>3, <2>5, NoNewHolder
  <2>7. Confined(p, x)
    BY <1>1, <1>2, <1>3, <1>4, <2>2, <1>7 DEF Confined
  <2> QED BY <1>1, <2>1, <2>3, <2>4, <2>6, <2>7, HostStepKeeps
<1>8. CASE l \notin revoked
  <2>1. /\ Host!Registered(x, l) /\ onBus' = onBus \cup {l} /\ l \in Host!LoadIds
        /\ triggers' = [triggers EXCEPT ![x] = triggers[x] \cup {l}]
    BY <1>1, <1>3, <1>8, HostBounds
  <2>2. /\ Host!RegistriesAgree'
        /\ tools' \in [Exts -> SUBSET (Host!Names \X Host!LoadIds)]
        /\ byName' \in [Host!Names -> (Exts \X Host!LoadIds) \cup {Host!Nobody}]
        /\ \A y \in Exts \ {x} : tools'[y] = tools[y]
        /\ \A e \in tools'[x] : e \in tools[x] \/ e[2] = l
    BY <1>1, <2>1, RegisteredAgree DEF HostIInv
  <2>3. /\ triggers' \in [Exts -> SUBSET Host!LoadIds] /\ triggers'[x] = triggers[x] \cup {l}
        /\ \A y \in Exts \ {x} : triggers'[y] = triggers[y]
    BY <1>1, <2>1 DEF HostIInv, HostTypes, Host!TypeOK
  <2>4. HostTypes'
    BY <1>1, <1>4, <2>1, <2>2, <2>3 DEF HostIInv, HostTypes, Host!TypeOK, HostPcs
  <2>5. ASSUME NEW y \in Exts, NEW k \in Host!LoadIds, Holds(y, k)' PROVE Holds(y, k)
    <3>1. CASE k \in {current'[y], subsOf'[y], loaded'[y]}
      BY <1>1, <3>1 DEF Holds
    <3>2. CASE k \in triggers'[y]
      BY <1>5, <2>3, <3>2 DEF Holds
    <3>3. CASE \E q \in Callers : About(q, y)' /\ op'[q].load = k
      BY <1>2, <1>3, <1>4, <1>5, <3>3 DEF Holds, About
    <3> QED BY <2>5, <3>1, <3>2, <3>3 DEF Holds
  <2>6. LoadsAreOwned'
    BY <1>1, <2>4, <2>5, NoNewHolder
  <2>7. Confined(p, x)
    BY <1>1, <1>2, <1>3, <1>4, <2>1, <2>2, <2>3 DEF Confined
  <2>8. ASSUME x \notin overlap' PROVE Sequential(x)'
    <3>1. Sequential(x)
      BY <1>1, <2>8 DEF HostIInv
    <3>2. /\ loaded[x] = 0 /\ current[x] = l /\ subsOf[x] = l
          /\ x \notin botched => tools[x] = {} /\ triggers[x] = {}
          /\ \A q \in Callers : About(q, x) => q = p
      BY <1>1, <1>3, <1>5, <3>1 DEF Sequential, Underway
    <3>3. About(p, x)' /\ \A q \in Callers : About(q, x)' => q = p
      BY <1>2, <1>4, <3>2 DEF About
    <3>4. /\ loaded'[x] = 0 /\ current'[x] = l /\ subsOf'[x] = l
          /\ x \notin botched' => Whole(x, l)' /\ l \in triggers'[x]
      <4>1. l \in onBus' /\ l \notin revoked' /\ current'[x] = l /\ subsOf'[x] = l
            /\ loaded'[x] = 0 /\ botched' = botched
        BY <1>1, <1>8, <2>1, <3>2
      <4>2. x \notin botched => triggers'[x] = {l}
        BY <2>3, <3>2
      <4>3. x \notin botched => \A e \in tools'[x] : e[2] = l
        BY <2>2, <3>2
      <4> QED BY <1>3, <4>1, <4>2, <4>3 DEF Whole
    <3>5. Underway(p, x)'
      BY <1>2, <1>3, <1>4, <3>4 DEF Underway
    <3> QED BY <3>3, <3>5 DEF Sequential
  <2> QED BY <1>1, <2>2, <2>4, <2>6, <2>7, <2>8, HostStepKeeps
<1> QED BY <1>7, <1>8

LEMMA HostStarts ==
    ASSUME HostIInv, NEW p \in Callers, Host!StartTriggers(p), NEW x, x = op[p].ext,
           NEW l, l = op[p].load
    PROVE  HostIInv'
<1>1. /\ UNCHANGED <<disk, crashed, current, revoked, subsOf, onBus, tools, byName, triggers,
                     failures, loads, overlap, botched>>
      /\ op[p].pc = "starting" /\ x \in Exts
      /\ running' = running \cup op[p].list /\ loaded' = [loaded EXCEPT ![x] = l]
      /\ row' = [row EXCEPT ![x] = "active"] /\ op' = [op EXCEPT ![p] = Host!Idle]
  BY DEF Host!StartTriggers, HostIInv, HostTypes
<1>2. op[p].ext = x /\ op[p].load = l /\ l \in 0 .. MaxLoads /\ op[p].list \subseteq Host!LoadIds
  BY DEF HostIInv, HostTypes, Operations, Records
<1>3. /\ op' \in [Callers -> Operations] /\ op'[p] = Host!Idle
      /\ \A q \in Callers \ {p} : op'[q] = op[q]
      /\ \A q \in Callers : op'[q].pc # "idle" => op'[q].ext \in Exts
      /\ \A q \in Callers : op'[q].pc \in HostPcs
  BY <1>1, OperationIdle, OperationSet DEF HostIInv
<1>4. /\ loaded' \in [Exts -> 0 .. MaxLoads] /\ loaded'[x] = l
      /\ \A y \in Exts \ {x} : loaded'[y] = loaded[y]
      /\ row' \in [Exts -> {"none", "active", "inactive", "crashed"}]
      /\ running' \subseteq Host!LoadIds
  BY <1>1, <1>2 DEF HostIInv, HostTypes, Host!TypeOK
<1>5. HostTypes'
  BY <1>1, <1>3, <1>4 DEF HostIInv, HostTypes, Host!TypeOK, HostPcs
<1>6. Host!RegistriesAgree'
  BY <1>1 DEF HostIInv, Host!RegistriesAgree
<1>7. About(p, x) /\ Holds(x, l)
  BY <1>1, <1>2 DEF About, Holds
<1>8. ASSUME NEW y \in Exts, NEW k \in Host!LoadIds, Holds(y, k)' PROVE Holds(y, k)
  <2>1. CASE k \in {current'[y], subsOf'[y], loaded'[y]}
    BY <1>1, <1>4, <1>7, <2>1 DEF Holds
  <2>2. CASE k \in triggers'[y]
    BY <1>1, <2>2 DEF Holds
  <2>3. CASE \E q \in Callers : About(q, y)' /\ op'[q].load = k
    BY <1>3, <2>3, OperationIdle DEF Holds, About
  <2> QED BY <1>8, <2>1, <2>2, <2>3 DEF Holds
<1>9. LoadsAreOwned'
  BY <1>1, <1>5, <1>8, NoNewHolder
<1>10. Confined(p, x)
  BY <1>1, <1>2, <1>3, <1>4, OperationIdle DEF Confined
<1>11. ASSUME x \notin overlap' PROVE Sequential(x)'
  <2>1. Sequential(x)
    BY <1>1, <1>11 DEF HostIInv
  <2>2. /\ current[x] = l /\ subsOf[x] = l /\ l # 0
        /\ x \notin botched => Whole(x, l) /\ l \in op[p].list
        /\ \A q \in Callers : About(q, x) => q = p
    BY <1>1, <1>2, <1>7, <2>1 DEF Sequential, Underway
  <2>3. \A q \in Callers : ~About(q, x)'
    BY <1>3, <2>2, OperationIdle DEF About
  <2>4. /\ current'[x] = l /\ subsOf'[x] = l /\ l # 0
        /\ x \notin botched' => Whole(x, l)' /\ l \in running'
    BY <1>1, <2>2 DEF Whole
  <2>5. Resting(x)'
    BY <1>4, <2>4 DEF Resting
  <2> QED BY <2>3, <2>5 DEF Sequential
<1> QED BY <1>1, <1>5, <1>6, <1>9, <1>10, <1>11, HostStepKeeps

LEMMA HostTriggerFails ==
    ASSUME HostIInv, NEW p \in Callers, Host!TriggerFails(p), NEW x, x = op[p].ext
    PROVE  HostIInv'
<1>1. /\ UNCHANGED <<disk, row, loaded, crashed, current, revoked, subsOf, onBus, tools, byName,
                     triggers, failures, loads, overlap, botched>>
      /\ op[p].pc = "starting" /\ x \in Exts
      /\ \E started \in SUBSET op[p].list : running' = running \cup started
      /\ op' = [op EXCEPT ![p].pc = "rollback", ![p].list = {}]
  BY DEF Host!TriggerFails, HostIInv, HostTypes
<1>2. PICK r \in Operations :
          /\ op' = [op EXCEPT ![p] = r] /\ r.pc = "rollback"
          /\ r.ext = x /\ r.ext \in Exts /\ r.load = op[p].load
  <2> DEFINE s == [op[p] EXCEPT !.pc = "rollback", !.list = {}]
  <2>1. op[p] \in Operations
    BY DEF HostIInv, HostTypes
  <2>2. s \in Records /\ s.pc = "rollback" /\ s.ext = x /\ s.load = op[p].load
    BY <2>1 DEF Operations, Records, HostPcs
  <2>3. op' = [op EXCEPT ![p] = s]
    BY <1>1
  <2> HIDE DEF s
  <2>4. s \in Operations
    BY <2>2 DEF Operations
  <2> QED BY <1>1, <2>2, <2>3, <2>4
<1>3. op[p].ext = x
  OBVIOUS
<1>4. /\ op' \in [Callers -> Operations] /\ op'[p] = r
      /\ \A q \in Callers \ {p} : op'[q] = op[q]
      /\ \A q \in Callers : op'[q].pc # "idle" => op'[q].ext \in Exts
      /\ \A q \in Callers : op'[q].pc \in HostPcs
  BY <1>2, OperationSet DEF HostIInv
<1>5. HostTypes'
  <2>1. op[p].list \subseteq Host!LoadIds
    BY DEF HostIInv, HostTypes, Operations, Records
  <2>2. running' \subseteq Host!LoadIds
    BY <1>1, <2>1 DEF HostIInv, HostTypes, Host!TypeOK
  <2> QED BY <1>1, <1>4, <2>2 DEF HostIInv, HostTypes, Host!TypeOK, HostPcs
<1>6. Host!RegistriesAgree'
  BY <1>1 DEF HostIInv, Host!RegistriesAgree
<1>7. About(p, x)
  BY <1>1, <1>3 DEF About
<1>8. \A y \in Exts, k \in Host!LoadIds : Holds(y, k)' => Holds(y, k)
  BY <1>1, <1>2, <1>4, <1>7 DEF Holds, About
<1>9. LoadsAreOwned'
  BY <1>1, <1>5, <1>8, NoNewHolder
<1>10. Confined(p, x)
  BY <1>1, <1>2, <1>3, <1>4 DEF Confined
<1>11. ASSUME x \notin overlap' PROVE Sequential(x)'
  <2>1. Sequential(x)
    BY <1>1, <1>11 DEF HostIInv
  <2>2. loaded[x] = 0 /\ \A q \in Callers : About(q, x) => q = p
    BY <1>1, <1>7, <2>1 DEF Sequential, Underway
  <2>3. About(p, x)' /\ \A q \in Callers : About(q, x)' => q = p
    BY <1>2, <1>4, <2>2 DEF About
  <2>4. Underway(p, x)'
    BY <1>1, <1>2, <1>4, <2>2 DEF Underway
  <2> QED BY <2>3, <2>4 DEF Sequential
<1> QED BY <1>1, <1>5, <1>6, <1>9, <1>10, <1>11, HostStepKeeps

\* purgeRegistry up to its wait.
LEMMA RevokedSet ==
    ASSUME HostTypes, NEW x \in Exts, Host!Revoke(x)
    PROVE  /\ current' \in [Exts -> 0 .. MaxLoads] /\ current'[x] = 0
           /\ subsOf' \in [Exts -> 0 .. MaxLoads] /\ subsOf'[x] = 0
           /\ \A y \in Exts \ {x} : current'[y] = current[y] /\ subsOf'[y] = subsOf[y]
           /\ revoked' \subseteq Host!LoadIds /\ revoked' \subseteq revoked \cup {current[x]}
           /\ onBus' \subseteq Host!LoadIds /\ onBus \subseteq onBus' \cup {subsOf[x]}
<1>1. 0 \in 0 .. MaxLoads /\ \A c \in 0 .. MaxLoads : c # 0 => c \in Host!LoadIds
  BY HostBounds
<1>2. current[x] \in 0 .. MaxLoads
  BY DEF HostTypes, Host!TypeOK
<1> QED BY <1>1, <1>2 DEF HostTypes, Host!TypeOK, Host!Revoke

LEMMA StoppedSet ==
    ASSUME HostTypes, NEW x \in Exts, Host!Stopped(x) \/ Host!StopThrows(x)
    PROVE  /\ running' \subseteq Host!LoadIds /\ running \subseteq running' \cup triggers[x]
           /\ botched' \subseteq Exts /\ \A y \in Exts \ {x} : y \in botched' <=> y \in botched
           /\ Host!StopThrows(x) => x \in botched'
BY DEF HostTypes, Host!TypeOK, Host!Stopped, Host!StopThrows

\* What every purge begins with; r is what becomes of the caller's record.
LEMMA HostPurges ==
    ASSUME HostIInv, NEW p \in Callers, NEW x \in Exts, NEW r \in Operations,
           UNCHANGED <<disk, loaded, tools, byName, triggers, loads>>,
           op[p].pc # "idle" => op[p].ext = x, r.pc # "idle" => r.ext = x,
           Host!Revoke(x), Host!Stopped(x) \/ Host!StopThrows(x),
           op' = [op EXCEPT ![p] = r],
           r.pc # "idle" => r.load = loaded[x] \/ (About(p, x) /\ r.load = op[p].load),
           crashed' \subseteq Host!LoadIds, failures' \in [Exts -> 0 .. Threshold],
           row' \in [Exts -> {"none", "active", "inactive", "crashed"}],
           overlap' \subseteq Exts, overlap \subseteq overlap',
           x \notin overlap' => \A q \in Callers \ {p} : ~About(q, x),
           \/ r.pc = "purging"
           \/ r.pc = "undoing" /\ (x \notin overlap' => loaded[x] = 0)
           \/ r.pc = "idle" /\ Host!StopThrows(x)
    PROVE  HostIInv'
<1>2. /\ current' \in [Exts -> 0 .. MaxLoads] /\ current'[x] = 0
      /\ subsOf' \in [Exts -> 0 .. MaxLoads] /\ subsOf'[x] = 0
      /\ \A y \in Exts \ {x} : current'[y] = current[y] /\ subsOf'[y] = subsOf[y]
      /\ revoked' \subseteq Host!LoadIds /\ revoked' \subseteq revoked \cup {current[x]}
      /\ onBus' \subseteq Host!LoadIds /\ onBus \subseteq onBus' \cup {subsOf[x]}
  BY RevokedSet DEF HostIInv
<1>1. /\ running' \subseteq Host!LoadIds /\ running \subseteq running' \cup triggers[x]
      /\ botched' \subseteq Exts /\ \A y \in Exts \ {x} : y \in botched' <=> y \in botched
      /\ Host!StopThrows(x) => x \in botched'
  BY StoppedSet DEF HostIInv
<1>3. Host!RegistriesAgree'
  BY DEF HostIInv, Host!RegistriesAgree
<1>4. /\ op' \in [Callers -> Operations] /\ op'[p] = r
      /\ \A q \in Callers \ {p} : op'[q] = op[q]
      /\ \A q \in Callers : op'[q].pc # "idle" => op'[q].ext \in Exts
      /\ \A q \in Callers : op'[q].pc \in HostPcs
  BY OperationSet DEF HostIInv
<1>6. HostTypes'
  BY <1>1, <1>2, <1>4 DEF HostIInv, HostTypes, Host!TypeOK, HostPcs
<1>7. ASSUME NEW y \in Exts, NEW k \in Host!LoadIds, Holds(y, k)' PROVE Holds(y, k)
  <2>1. CASE k \in {current'[y], subsOf'[y], loaded'[y]}
    BY <1>2, <2>1, HostBounds DEF Holds
  <2>2. CASE k \in triggers'[y]
    BY <2>2 DEF Holds
  <2>3. CASE \E q \in Callers : About(q, y)' /\ op'[q].load = k
    BY <1>4, <2>3 DEF Holds, About
  <2> QED BY <1>7, <2>1, <2>2, <2>3 DEF Holds
<1>8. LoadsAreOwned'
  BY <1>2, <1>6, <1>7, NoNewHolder
<1>9. Confined(p, x)
  BY <1>1, <1>2, <1>4 DEF Confined
<1>10. ASSUME x \notin overlap' PROVE Sequential(x)'
  <2>1. \A q \in Callers : About(q, x)' => q = p
    BY <1>4, <1>10 DEF About
  <2>2. Quiet(x)' /\ loaded'[x] = loaded[x]
    BY <1>2 DEF Quiet
  <2>3. CASE r.pc = "idle"
    <3>1. x \in botched'
      BY <1>1, <2>3
    <3>2. \A q \in Callers : ~About(q, x)'
      BY <1>4, <2>1, <2>3 DEF About
    <3>3. Resting(x)'
      BY <2>2, <3>1 DEF Resting, Quiet
    <3> QED BY <3>2, <3>3 DEF Sequential
  <2>4. CASE r.pc # "idle"
    <3>1. About(p, x)'
      BY <1>4, <2>4 DEF About
    <3>2. Underway(p, x)'
      BY <1>4, <1>10, <2>2, <2>4 DEF Underway
    <3> QED BY <2>1, <3>1, <3>2 DEF Sequential
  <2> QED BY <2>3, <2>4
<1> QED BY <1>3, <1>6, <1>8, <1>9, <1>10, HostStepKeeps

LEMMA HostRollback ==
    ASSUME HostIInv, NEW p \in Callers, Host!Rollback(p), NEW x, x = op[p].ext
    PROVE  HostIInv'
<1>1. /\ UNCHANGED <<disk, row, loaded, crashed, tools, byName, triggers, failures, loads, overlap>>
      /\ op[p].pc = "rollback" /\ x \in Exts /\ Host!Revoke(x)
      /\ \/ Host!Stopped(x) /\ Host!Goto(p, "undoing")
         \/ Host!StopThrows(x) /\ op' = [op EXCEPT ![p] = Host!Idle]
  BY DEF Host!Rollback, HostIInv, HostTypes
<1>2. PICK r \in Operations :
          /\ op' = [op EXCEPT ![p] = r] /\ (r.pc # "idle" => r.ext = x /\ r.load = op[p].load)
          /\ r.pc = "undoing" \/ (r.pc = "idle" /\ Host!StopThrows(x))
  <2>1. CASE Host!Goto(p, "undoing")
    BY <1>1, <2>1, OperationMoved DEF HostIInv, HostPcs
  <2>2. CASE Host!StopThrows(x) /\ op' = [op EXCEPT ![p] = Host!Idle]
    BY <2>2, OperationIdle
  <2> QED BY <1>1, <2>1, <2>2
<1>3. About(p, x)
  BY <1>1 DEF About
<1>4. ASSUME x \notin overlap' PROVE loaded[x] = 0 /\ \A q \in Callers \ {p} : ~About(q, x)
  BY <1>1, <1>3, <1>4 DEF HostIInv, Sequential, Underway
<1>5. /\ crashed' \subseteq Host!LoadIds /\ failures' \in [Exts -> 0 .. Threshold]
      /\ row' \in [Exts -> {"none", "active", "inactive", "crashed"}]
      /\ overlap' \subseteq Exts /\ overlap \subseteq overlap'
  BY <1>1 DEF HostIInv, HostTypes, Host!TypeOK
<1> QED BY <1>1, <1>2, <1>3, <1>4, <1>5, HostPurges

LEMMA HostRolledBack ==
    ASSUME HostIInv, NEW p \in Callers, Host!RolledBack(p), NEW x, x = op[p].ext
    PROVE  HostIInv'
<1>1. /\ UNCHANGED <<disk, loaded, crashed, current, revoked, subsOf, onBus, running, failures,
                     loads, overlap>>
      /\ op[p].pc = "undoing" /\ x \in Exts /\ Host!Evict(x)
      /\ row' = [row EXCEPT ![x] = "inactive"] /\ op' = [op EXCEPT ![p] = Host!Idle]
  BY DEF Host!RolledBack, HostIInv, HostTypes
<1>3. /\ Host!RegistriesAgree'
      /\ tools' \in [Exts -> SUBSET (Host!Names \X Host!LoadIds)]
      /\ byName' \in [Host!Names -> (Exts \X Host!LoadIds) \cup {Host!Nobody}]
      /\ triggers' \in [Exts -> SUBSET Host!LoadIds]
      /\ \A y \in Exts \ {x} : tools'[y] = tools[y] /\ triggers'[y] = triggers[y]
      /\ tools'[x] = {} /\ triggers'[x] = {}
      /\ botched' \subseteq Exts /\ \A y \in Exts \ {x} : y \in botched' <=> y \in botched
  BY <1>1, EvictedAgree DEF HostIInv
<1>4. /\ op' \in [Callers -> Operations] /\ op'[p] = Host!Idle
      /\ \A q \in Callers \ {p} : op'[q] = op[q]
      /\ \A q \in Callers : op'[q].pc # "idle" => op'[q].ext \in Exts
      /\ \A q \in Callers : op'[q].pc \in HostPcs
  BY <1>1, OperationIdle, OperationSet DEF HostIInv
<1>5. HostTypes'
  <2>1. row' \in [Exts -> {"none", "active", "inactive", "crashed"}]
    BY <1>1 DEF HostIInv, HostTypes, Host!TypeOK
  <2> QED BY <1>1, <1>3, <1>4, <2>1 DEF HostIInv, HostTypes, Host!TypeOK, HostPcs
<1>6. ASSUME NEW y \in Exts, NEW k \in Host!LoadIds, Holds(y, k)' PROVE Holds(y, k)
  <2>1. CASE k \in {current'[y], subsOf'[y], loaded'[y]}
    BY <1>1, <2>1 DEF Holds
  <2>2. CASE k \in triggers'[y]
    BY <1>3, <2>2 DEF Holds
  <2>3. CASE \E q \in Callers : About(q, y)' /\ op'[q].load = k
    BY <1>4, <2>3, OperationIdle DEF Holds, About
  <2> QED BY <1>6, <2>1, <2>2, <2>3 DEF Holds
<1>7. LoadsAreOwned'
  BY <1>1, <1>5, <1>6, NoNewHolder
<1>8. Confined(p, x)
  BY <1>1, <1>3, <1>4, OperationIdle DEF Confined
<1>9. ASSUME x \notin overlap' PROVE Sequential(x)'
  <2>1. About(p, x) /\ Sequential(x)
    BY <1>1, <1>9 DEF HostIInv, About
  <2>2. loaded[x] = 0 /\ Quiet(x) /\ \A q \in Callers : About(q, x) => q = p
    BY <1>1, <2>1 DEF Sequential, Underway
  <2>3. \A q \in Callers : ~About(q, x)'
    BY <1>4, <2>2, OperationIdle DEF About
  <2>4. Resting(x)'
    BY <1>1, <1>3, <2>2 DEF Resting, Quiet, Clean
  <2> QED BY <2>3, <2>4 DEF Sequential
<1> QED BY <1>1, <1>3, <1>5, <1>7, <1>8, <1>9, HostStepKeeps

LEMMA PurgingRecord ==
    ASSUME HostTypes, NEW x \in Exts, NEW a \in BOOLEAN
    PROVE  /\ Host!Purging(x, a) \in Operations /\ Host!Purging(x, a).pc = "purging"
           /\ Host!Purging(x, a).ext = x /\ Host!Purging(x, a).load = loaded[x]
<1>1. Host!Idle \in Records
  BY OperationIdle DEF Operations
<1>2. loaded[x] \in 0 .. MaxLoads
  BY DEF HostTypes, Host!TypeOK
<1>3. PICK l \in 0 .. MaxLoads : l = loaded[x]
  BY <1>2
<1> DEFINE s == [Host!Idle EXCEPT !.pc = "purging", !.ext = x, !.load = l, !.again = a]
<1>4. s \in Records /\ s.pc = "purging" /\ s.ext = x /\ s.load = l
  BY <1>1 DEF Records, HostPcs
<1>5. Host!Purging(x, a) = s
  BY <1>3 DEF Host!Purging
<1> HIDE DEF s
<1>6. s \in Operations
  BY <1>4 DEF Operations
<1> QED BY <1>3, <1>4, <1>5, <1>6

\* An unload and the circuit breaker: the caller purges, or its purge fails.
LEMMA HostPurgesAnew ==
    ASSUME HostIInv, NEW p \in Callers, NEW x \in Exts, NEW a \in BOOLEAN,
           UNCHANGED <<disk, loaded, tools, byName, triggers, loads>>,
           op[p].pc = "idle", Host!Revoke(x), Host!Noted(x),
           \/ Host!Stopped(x) /\ op' = [op EXCEPT ![p] = Host!Purging(x, a)]
           \/ Host!StopThrows(x) /\ UNCHANGED op,
           crashed' \subseteq Host!LoadIds, failures' \in [Exts -> 0 .. Threshold],
           row' \in [Exts -> {"none", "active", "inactive", "crashed"}]
    PROVE  HostIInv'
<1>1. PICK r \in Operations :
          /\ op' = [op EXCEPT ![p] = r] /\ (r.pc # "idle" => r.ext = x /\ r.load = loaded[x])
          /\ \/ r.pc = "purging" /\ Host!Stopped(x)
             \/ r.pc = "idle" /\ Host!StopThrows(x)
  <2>1. CASE Host!Stopped(x) /\ op' = [op EXCEPT ![p] = Host!Purging(x, a)]
    <3>1. HostTypes
      BY DEF HostIInv
    <3> QED BY <2>1, <3>1, PurgingRecord
  <2>2. CASE Host!StopThrows(x) /\ UNCHANGED op
    <3>1. op[p] \in Operations /\ op' = [op EXCEPT ![p] = op[p]]
      BY <2>2 DEF HostIInv, HostTypes
    <3> QED BY <2>2, <3>1
  <2> QED BY <2>1, <2>2
<1>2. overlap' = IF Host!Busy(x) # {} THEN overlap \cup {x} ELSE overlap
  BY DEF Host!Noted
<1>3. overlap' \subseteq Exts /\ overlap \subseteq overlap'
  BY <1>2 DEF HostIInv, HostTypes, Host!TypeOK
<1>4. x \notin overlap' => \A q \in Callers \ {p} : ~About(q, x)
  BY <1>2, BusyCallers
<1>5. Host!Stopped(x) \/ Host!StopThrows(x)
  BY <1>1
<1> QED BY <1>1, <1>3, <1>4, <1>5, HostPurges

LEMMA HostBeginUnload ==
    ASSUME HostIInv, NEW p \in Callers, NEW x \in Exts, NEW again \in BOOLEAN,
           Host!BeginUnload(p, x, again)
    PROVE  HostIInv'
<1>1. /\ UNCHANGED <<disk, row, loaded, crashed, tools, byName, triggers, failures, loads>>
      /\ op[p].pc = "idle" /\ Host!Revoke(x) /\ Host!Noted(x)
      /\ \/ Host!Stopped(x) /\ op' = [op EXCEPT ![p] = Host!Purging(x, again)]
         \/ Host!StopThrows(x) /\ UNCHANGED op
  BY DEF Host!BeginUnload
<1>2. /\ crashed' \subseteq Host!LoadIds /\ failures' \in [Exts -> 0 .. Threshold]
      /\ row' \in [Exts -> {"none", "active", "inactive", "crashed"}]
  BY <1>1 DEF HostIInv, HostTypes, Host!TypeOK
<1> QED BY <1>1, <1>2, HostPurgesAnew

LEMMA HostReport ==
    ASSUME HostIInv, NEW p \in Callers, NEW x \in Exts, Host!ReportFailure(p, x)
    PROVE  HostIInv'
<1>1. loaded[x] \in 0 .. MaxLoads /\ failures[x] \in 0 .. Threshold
  BY DEF HostIInv, HostTypes, Host!TypeOK
<1>2. CASE failures[x] + 1 < Threshold
  <2>1. /\ UNCHANGED <<disk, loaded, loads, row, crashed, Host!regVars, op, overlap>>
        /\ failures' = [failures EXCEPT ![x] = failures[x] + 1]
    BY <1>2 DEF Host!ReportFailure
  <2>2. failures[x] + 1 \in 0 .. Threshold
    BY <1>1, <1>2, HostBounds
  <2>3. failures' \in [Exts -> 0 .. Threshold]
    BY <2>1, <2>2 DEF HostIInv, HostTypes, Host!TypeOK
  <2>4. HostTypes'
    BY <2>1, <2>3 DEF HostIInv, HostTypes, Host!TypeOK, Host!regVars
  <2> QED BY <2>1, <2>4, HostQuiet
<1>3. CASE ~(failures[x] + 1 < Threshold)
  <2>1. /\ UNCHANGED <<disk, loaded, tools, byName, triggers, loads>>
        /\ op[p].pc = "idle" /\ loaded[x] # 0 /\ Host!Revoke(x) /\ Host!Noted(x)
        /\ \/ Host!Stopped(x) /\ op' = [op EXCEPT ![p] = Host!Purging(x, FALSE)]
           \/ Host!StopThrows(x) /\ UNCHANGED op
        /\ failures' = [failures EXCEPT ![x] = Threshold]
        /\ crashed' = crashed \cup {loaded[x]} /\ row' = [row EXCEPT ![x] = "crashed"]
    BY <1>3 DEF Host!ReportFailure
  <2>2. loaded[x] \in Host!LoadIds /\ Threshold \in 0 .. Threshold
    BY <1>1, <2>1, HostBounds
  <2>3. /\ crashed' \subseteq Host!LoadIds /\ failures' \in [Exts -> 0 .. Threshold]
        /\ row' \in [Exts -> {"none", "active", "inactive", "crashed"}]
    BY <2>1, <2>2 DEF HostIInv, HostTypes, Host!TypeOK
  <2> QED BY <2>1, <2>3, HostPurgesAnew
<1> QED BY <1>2, <1>3

LEMMA HostPurged ==
    ASSUME HostIInv, NEW p \in Callers, Host!Purged(p), NEW x, x = op[p].ext
    PROVE  HostIInv'
<1>1. /\ UNCHANGED <<disk, row, loaded, crashed, current, revoked, subsOf, onBus, running,
                     failures, loads, overlap>>
      /\ op[p].pc = "purging" /\ x \in Exts /\ Host!Evict(x) /\ Host!Goto(p, "hook")
  BY DEF Host!Purged, HostIInv, HostTypes
<1>2. PICK r \in Operations :
          /\ op' = [op EXCEPT ![p] = r] /\ r.pc = "hook"
          /\ r.ext = x /\ r.ext \in Exts /\ r.load = op[p].load
  BY <1>1, OperationMoved DEF HostIInv, HostPcs
<1>3. /\ Host!RegistriesAgree'
      /\ tools' \in [Exts -> SUBSET (Host!Names \X Host!LoadIds)]
      /\ byName' \in [Host!Names -> (Exts \X Host!LoadIds) \cup {Host!Nobody}]
      /\ triggers' \in [Exts -> SUBSET Host!LoadIds]
      /\ \A y \in Exts \ {x} : tools'[y] = tools[y] /\ triggers'[y] = triggers[y]
      /\ tools'[x] = {} /\ triggers'[x] = {}
      /\ botched' \subseteq Exts /\ \A y \in Exts \ {x} : y \in botched' <=> y \in botched
  BY <1>1, EvictedAgree DEF HostIInv
<1>4. /\ op' \in [Callers -> Operations] /\ op'[p] = r
      /\ \A q \in Callers \ {p} : op'[q] = op[q]
      /\ \A q \in Callers : op'[q].pc # "idle" => op'[q].ext \in Exts
      /\ \A q \in Callers : op'[q].pc \in HostPcs
  BY <1>2, OperationSet DEF HostIInv
<1>5. HostTypes'
  BY <1>1, <1>3, <1>4 DEF HostIInv, HostTypes, Host!TypeOK, HostPcs
<1>6. About(p, x)
  BY <1>1 DEF About
<1>7. ASSUME NEW y \in Exts, NEW k \in Host!LoadIds, Holds(y, k)' PROVE Holds(y, k)
  <2>1. CASE k \in {current'[y], subsOf'[y], loaded'[y]}
    BY <1>1, <2>1 DEF Holds
  <2>2. CASE k \in triggers'[y]
    BY <1>3, <2>2 DEF Holds
  <2>3. CASE \E q \in Callers : About(q, y)' /\ op'[q].load = k
    BY <1>2, <1>4, <1>6, <2>3 DEF Holds, About
  <2> QED BY <1>7, <2>1, <2>2, <2>3 DEF Holds
<1>8. LoadsAreOwned'
  BY <1>1, <1>5, <1>7, NoNewHolder
<1>9. Confined(p, x)
  BY <1>1, <1>2, <1>3, <1>4 DEF Confined
<1>10. ASSUME x \notin overlap' PROVE Sequential(x)'
  <2>1. Sequential(x)
    BY <1>1, <1>10 DEF HostIInv
  <2>2. current[x] = 0 /\ subsOf[x] = 0 /\ \A q \in Callers : About(q, x) => q = p
    BY <1>1, <1>6, <2>1 DEF Sequential, Underway, Quiet
  <2>3. About(p, x)' /\ \A q \in Callers : About(q, x)' => q = p
    BY <1>2, <1>4, <2>2 DEF About
  <2>4. Clean(x)'
    BY <1>1, <1>3, <2>2 DEF Clean
  <2>5. Underway(p, x)'
    BY <1>2, <1>4, <2>4 DEF Underway
  <2> QED BY <2>3, <2>5 DEF Sequential
<1> QED BY <1>1, <1>3, <1>5, <1>8, <1>9, <1>10, HostStepKeeps

LEMMA HostUnloaded ==
    ASSUME HostIInv, NEW p \in Callers, Host!Unloaded(p), NEW x, x = op[p].ext
    PROVE  HostIInv'
<1>1. /\ UNCHANGED <<disk, crashed, Host!regVars, failures, loads, overlap>>
      /\ op[p].pc = "hook" /\ x \in Exts /\ loaded' = [loaded EXCEPT ![x] = 0]
      /\ row' = [row EXCEPT ![x] = IF op[p].load \in crashed THEN row[x] ELSE "inactive"]
  BY DEF Host!Unloaded, HostIInv, HostTypes
<1>2. disk[x] \in Host!OnDisk
  BY <1>1 DEF HostIInv, HostTypes, Host!TypeOK
<1>3. PICK r \in Operations :
          /\ op' = [op EXCEPT ![p] = r] /\ r.pc \in {"staged", "idle"}
          /\ r.pc # "idle" => r.ext = x
          /\ r.load = 0
  <2>1. CASE op[p].again
    <3>1. op' = [op EXCEPT ![p] = [Host!Idle EXCEPT !.pc = "staged", !.ext = x, !.kind = disk[x]]]
      BY <2>1 DEF Host!Unloaded
    <3> DEFINE r == [Host!Idle EXCEPT !.pc = "staged", !.ext = x, !.kind = disk[x]]
    <3>2. r \in Operations /\ r.pc = "staged" /\ r.ext = x /\ r.load = 0
      <4>1. x \in Exts
        BY <1>1
      <4>2. PICK k : k = disk[x]
        OBVIOUS
      <4>3. [Host!Idle EXCEPT !.pc = "staged", !.ext = x, !.kind = k] \in Operations
        BY <1>2, <4>1, <4>2, StagedRecord
      <4>4. Host!Idle \in Records /\ Host!Idle.load = 0
        BY OperationIdle DEF Operations
      <4>5. r.pc = "staged" /\ r.ext = x /\ r.load = 0
        BY <4>4 DEF Records
      <4> QED BY <4>2, <4>3, <4>5
    <3> HIDE DEF r
    <3>3. op' = [op EXCEPT ![p] = r]
      BY <3>1 DEF r
    <3> QED BY <3>2, <3>3
  <2>2. CASE ~op[p].again
    <3>1. op' = [op EXCEPT ![p] = Host!Idle]
      BY <2>2 DEF Host!Unloaded
    <3> QED BY <3>1, OperationIdle
  <2> QED BY <2>1, <2>2
<1>4. /\ op' \in [Callers -> Operations] /\ op'[p] = r
      /\ \A q \in Callers \ {p} : op'[q] = op[q]
      /\ \A q \in Callers : op'[q].pc # "idle" => op'[q].ext \in Exts
      /\ \A q \in Callers : op'[q].pc \in HostPcs
  BY <1>1, <1>3, OperationSet DEF HostIInv
<1>5. /\ loaded' \in [Exts -> 0 .. MaxLoads] /\ loaded'[x] = 0
      /\ \A y \in Exts \ {x} : loaded'[y] = loaded[y]
  <2>1. 0 \in 0 .. MaxLoads
    BY HostBounds
  <2> QED BY <1>1, <2>1 DEF HostIInv, HostTypes, Host!TypeOK
<1>6. HostTypes'
  <2>1. row' \in [Exts -> {"none", "active", "inactive", "crashed"}]
    <3>1. row[x] \in {"none", "active", "inactive", "crashed"}
      BY <1>1 DEF HostIInv, HostTypes, Host!TypeOK
    <3>2. PICK v \in {"none", "active", "inactive", "crashed"} : row' = [row EXCEPT ![x] = v]
      BY <1>1, <3>1
    <3> QED BY <1>1, <3>2 DEF HostIInv, HostTypes, Host!TypeOK
  <2> QED BY <1>1, <1>4, <1>5, <2>1 DEF HostIInv, HostTypes, Host!TypeOK, HostPcs, Host!regVars
<1>7. Host!RegistriesAgree'
  BY <1>1 DEF HostIInv, Host!RegistriesAgree, Host!regVars
<1>8. ASSUME NEW y \in Exts, NEW k \in Host!LoadIds, Holds(y, k)' PROVE Holds(y, k)
  <2>1. CASE k \in {current'[y], subsOf'[y], loaded'[y]}
    BY <1>1, <1>5, <2>1, HostBounds DEF Holds, Host!regVars
  <2>2. CASE k \in triggers'[y]
    BY <1>1, <2>2 DEF Holds, Host!regVars
  <2>3. CASE \E q \in Callers : About(q, y)' /\ op'[q].load = k
    <3>1. PICK q \in Callers : About(q, y)' /\ op'[q].load = k
      BY <2>3
    <3>2. q # p
      BY <1>3, <1>4, <3>1, HostBounds
    <3> QED BY <1>4, <3>1, <3>2 DEF Holds, About
  <2> QED BY <1>8, <2>1, <2>2, <2>3 DEF Holds
<1>9. LoadsAreOwned'
  BY <1>1, <1>6, <1>8, NoNewHolder DEF Host!regVars
<1>10. Confined(p, x)
  BY <1>1, <1>3, <1>4, <1>5 DEF Confined, Host!regVars
<1>11. ASSUME x \notin overlap' PROVE Sequential(x)'
  <2>1. About(p, x) /\ Sequential(x)
    BY <1>1, <1>11 DEF HostIInv, About
  <2>2. Clean(x) /\ \A q \in Callers : About(q, x) => q = p
    BY <1>1, <2>1 DEF Sequential, Underway
  <2>3. \A q \in Callers : About(q, x)' => q = p
    BY <1>4, <2>2 DEF About
  <2>4. Clean(x)' /\ Quiet(x)' /\ loaded'[x] = 0
    BY <1>1, <1>5, <2>2 DEF Clean, Quiet, Host!regVars
  <2>5. Resting(x)' /\ (r.pc = "staged" => Underway(p, x)')
    BY <1>4, <2>4 DEF Resting, Quiet, Underway
  <2>6. About(p, x)' => r.pc = "staged"
    BY <1>3, <1>4 DEF About
  <2> QED BY <2>3, <2>5, <2>6 DEF Sequential
<1> QED BY <1>1, <1>6, <1>7, <1>9, <1>10, <1>11, HostStepKeeps

LEMMA HostNext == HostIInv /\ [Host!Next]_(Host!hostVars) => HostIInv'
<1> SUFFICES ASSUME HostIInv, [Host!Next]_(Host!hostVars) PROVE HostIInv'
  OBVIOUS
<1>1. CASE UNCHANGED Host!hostVars
  <2>1. HostTypes'
    BY <1>1 DEF Host!hostVars, HostIInv, HostTypes, Host!TypeOK
  <2> QED BY <1>1, <2>1, HostQuiet DEF Host!hostVars, Host!regVars
<1> QED BY <1>1, HostWrite, HostLoad, HostSmokeFails, HostSmokePasses, HostRegister, HostStarts,
           HostTriggerFails, HostRollback, HostRolledBack, HostBeginUnload, HostPurged,
           HostUnloaded, HostReport
           DEF Host!Next

\* The index of tools and the lists of the extensions agree, whatever is in
\* flight, and between operations an extension is loaded whole or not at all,
\* unless a stop() threw out of its last purge.
THEOREM ExtensionsLoadWhole == ExtensionSpec => []RegistriesAreWhole
<1>1. ExtensionSpec => [](Host!TypeOK /\ Host!RegistriesAgree /\ Host!LoadIsTransactional)
  BY HostInit, HostNext, HostHolds, ExtensionsRunHost, PTL
<1>2. (Host!TypeOK /\ Host!RegistriesAgree /\ Host!LoadIsTransactional) => RegistriesAreWhole
  BY DEF RegistriesAreWhole
<1> QED BY <1>1, <1>2, PTL

----------------------------------------------------------------------
(* The inbox on a terminal *)

LEMMA ExtensionsRunInbox == ExtensionSpec => Tui!Init /\ [][Tui!Next]_(Tui!tuiVars)
<1>1. ExtensionInit => Tui!Init
  BY DEF ExtensionInit
<1>2. [ExtensionNext]_extensionVars => [Tui!Next]_(Tui!tuiVars)
  BY DEF ExtensionNext, extensionVars, SlackStep, HostStep, DiscordStep, TelegramStep,
         ReplyStep, BridgeStep, StreamStep, InboxStep, tuiVars, Tui!tuiVars
<1> QED BY <1>1, <1>2, PTL DEF ExtensionSpec

\* A screen of the right type, and one whose preview is of the row that is
\* selected unless an answer is still to come.
Sound(u) == u \in Tui!Screens /\ u.visible \subseteq DOMAIN u.rows
CaughtUp(u) ==
    u.running /\ u.asked = <<>> /\ Tui!Current(u) # Tui!NoRow => u.detail = Tui!Current(u)

InboxIInv == Tui!TypeOK /\ CaughtUp(screen)

LEMMA InboxBounds == /\ MaxDecisions \in Nat \ {0} /\ MaxKeys \in Nat /\ MaxReplies \in Nat
                     /\ InitialDecisions \subseteq 1..MaxDecisions
                     /\ VoteKeys \subseteq {"approve", "deny", "modify"}
BY PartsAssumption DEF Tui!InboxAssumption

\* The position that is selected is of a row that is shown, and does not
\* depend on what else the screen holds.
LEMMA CurrentIsShown ==
    ASSUME NEW u, Tui!Current(u) # Tui!NoRow
    PROVE  Tui!Current(u) \in u.visible
<1>1. Tui!At(u) # {} /\ Tui!Current(u) = CHOOSE d \in Tui!At(u) : TRUE
  BY DEF Tui!Current
<1>2. Tui!Current(u) \in Tui!At(u)
  BY <1>1
<1> QED BY <1>2 DEF Tui!At

LEMMA SameCurrent ==
    ASSUME NEW u, NEW v, u.visible = v.visible, u.selected = v.selected
    PROVE  Tui!Current(u) = Tui!Current(v)
<1>1. Tui!At(u) = Tui!At(v)
  BY DEF Tui!At
<1> QED BY <1>1 DEF Tui!Current

LEMMA FetchIsSound ==
    ASSUME NEW u, Sound(u)
    PROVE  Sound(Tui!Fetch(u)) /\ CaughtUp(Tui!Fetch(u))
<1>1. PICK r : r = [m |-> "list", all |-> u.all]
  OBVIOUS
<1>2. r \in Tui!Requests
  BY <1>1 DEF Sound, Tui!Screens, Tui!Requests
<1>3. u.asked \in Seq(Tui!Requests)
  BY DEF Sound, Tui!Screens
<1>4. PICK q \in Seq(Tui!Requests) : q = Append(u.asked, r) /\ q # <<>>
  BY <1>2, <1>3, AppendProperties
<1>5. Tui!Fetch(u) = [u EXCEPT !.asked = q]
  BY <1>1, <1>4 DEF Tui!Fetch
<1> QED BY <1>4, <1>5 DEF Sound, CaughtUp, Tui!Screens

\* Whatever is rendered catches up.
LEMMA RenderIsSound ==
    ASSUME NEW u, Sound(u)
    PROVE  Sound(Tui!Render(u)) /\ CaughtUp(Tui!Render(u))
<1>1. CASE Tui!Current(u) = Tui!NoRow
  BY <1>1 DEF Tui!Render, CaughtUp
<1>2. CASE Tui!Current(u) # Tui!NoRow /\ u.detail = Tui!Current(u)
  <2>1. PICK v \in SUBSET Tui!Ids : Tui!Render(u) = [u EXCEPT !.seen = v]
    <3>1. u.detail \in Tui!Ids /\ u.seen \in SUBSET Tui!Ids
      BY <1>2, CurrentIsShown DEF Sound, Tui!Screens
    <3> QED BY <1>2, <3>1 DEF Tui!Render, Tui!Painted
  <2>2. Sound(Tui!Render(u))
    BY <2>1 DEF Sound, Tui!Screens
  <2>3. Tui!Current(Tui!Render(u)) = Tui!Current(u)
    BY <2>1, SameCurrent DEF Sound, Tui!Screens
  <2> QED BY <1>2, <2>1, <2>2, <2>3 DEF CaughtUp, Sound, Tui!Screens
<1>3. CASE Tui!Current(u) # Tui!NoRow /\ u.detail # Tui!Current(u)
  <2>1. PICK d : d = Tui!Current(u)
    OBVIOUS
  <2>2. d \in Tui!Ids /\ d \in DOMAIN u.rows
    BY <1>3, <2>1, CurrentIsShown DEF Sound, Tui!Screens
  <2>3. u.rows[d].unread \in BOOLEAN
    BY <2>2 DEF Sound, Tui!Screens, Tui!Decisions
  <2>4. PICK r : r = [m |-> "get", d |-> d, unread |-> u.rows[d].unread]
    OBVIOUS
  <2>5. r \in Tui!Requests
    BY <2>2, <2>3, <2>4 DEF Tui!Requests
  <2>6. PICK q \in Seq(Tui!Requests) : q = Append(u.asked, r) /\ q # <<>>
    BY <2>5, AppendProperties DEF Sound, Tui!Screens
  <2>7. Tui!Render(u) = [u EXCEPT !.detail = 0, !.asked = q]
    BY <1>3, <2>1, <2>4, <2>6 DEF Tui!Render, Tui!AskDetail
  <2>8. 0 \in 0..MaxDecisions
    BY InboxBounds
  <2> QED BY <2>6, <2>7, <2>8 DEF Sound, CaughtUp, Tui!Screens
<1> QED BY <1>1, <1>2, <1>3

LEMMA CountedAlike == \A S : Tui!Cardinality(S) = Cardinality(S)
BY DEF Cardinality, Tui!Cardinality

LEMMA FilterIsSound ==
    ASSUME NEW u, u \in Tui!Screens
    PROVE  Sound(Tui!ApplyFilter(u))
<1>1. PICK S \in SUBSET Tui!Ids : u.rows \in [S -> Tui!Decisions]
  BY DEF Tui!Screens
<1>2. PICK found : found = {d \in DOMAIN u.rows : u.searching => d \in Matching}
  OBVIOUS
<1>3. found \subseteq DOMAIN u.rows /\ found \in SUBSET Tui!Ids
  BY <1>1, <1>2
<1>4. IsFiniteSet(1..MaxDecisions) /\ Cardinality(1..MaxDecisions) = MaxDecisions
  BY InboxBounds, FS_Interval
<1>5. IsFiniteSet(found) /\ Cardinality(found) <= MaxDecisions
  BY <1>3, <1>4, FS_Subset DEF Tui!Ids
<1>6. Cardinality(found) \in Nat /\ (Cardinality(found) = 0 <=> found = {})
  BY <1>5, FS_CardinalityType, FS_EmptySet
<1>7. u.selected \in 1..MaxDecisions
  BY DEF Tui!Screens, Tui!Ids
<1>8. PICK k \in 1..MaxDecisions :
          k = IF u.selected <= Cardinality(found) THEN u.selected
              ELSE IF found = {} THEN 1 ELSE Cardinality(found)
  BY <1>5, <1>6, <1>7, InboxBounds
<1>9. PICK w : w = [u EXCEPT !.visible = found]
  OBVIOUS
<1>10. w.selected = u.selected
  BY <1>9 DEF Tui!Screens
<1>11. Tui!ApplyFilter(u) = [w EXCEPT !.selected = k]
  BY <1>2, <1>8, <1>9, <1>10, CountedAlike DEF Tui!ApplyFilter
<1>12. w \in Tui!Screens /\ w.visible = found /\ w.rows = u.rows
  BY <1>3, <1>9 DEF Tui!Screens
<1>13. PICK z : z = [w EXCEPT !.selected = k]
  OBVIOUS
<1>14. z \in Tui!Screens /\ z.visible = found /\ z.rows = u.rows
  BY <1>8, <1>12, <1>13 DEF Tui!Screens, Tui!Ids
<1> QED BY <1>3, <1>11, <1>13, <1>14 DEF Sound

\* What is drawn on a sound screen after some of its fields changed.
LEMMA VotedIsSound ==
    ASSUME NEW u, Sound(u)
    PROVE  Sound(Tui!Voted(u)) /\ CaughtUp(Tui!Voted(u))
<1>1. CASE ~Tui!IsOpen(u)
  BY <1>1, RenderIsSound DEF Tui!Voted
<1>2. CASE Tui!IsOpen(u)
  <2>1. PICK r : r = [m |-> "respond", d |-> Tui!Current(u)]
    OBVIOUS
  <2>2. r \in Tui!Requests
    BY <1>2, <2>1, CurrentIsShown DEF Tui!IsOpen, Sound, Tui!Screens, Tui!Requests
  <2>3. PICK q \in Seq(Tui!Requests) : q = Append(u.asked, r) /\ q # <<>>
    BY <2>2, AppendProperties DEF Sound, Tui!Screens
  <2>4. Tui!Voted(u) = [u EXCEPT !.asked = q]
    BY <1>2, <2>1, <2>3 DEF Tui!Voted
  <2> QED BY <2>3, <2>4 DEF Sound, CaughtUp, Tui!Screens
<1> QED BY <1>1, <1>2

\* The answer that comes next is to a request of the right type.
LEMMA PoppedIsSound ==
    ASSUME InboxIInv, NEW r, Tui!Pending(r)
    PROVE  /\ Sound(Tui!Popped)
           /\ Head(screen.asked) \in Tui!Requests /\ Head(screen.asked).m = r
           /\ screen.asked # <<>>
<1>1. screen.asked \in Seq(Tui!Requests) /\ screen.asked # <<>>
  BY DEF InboxIInv, Tui!TypeOK, Tui!Screens, Tui!Pending
<1>2. Head(screen.asked) \in Tui!Requests /\ Tail(screen.asked) \in Seq(Tui!Requests)
  BY <1>1, HeadTailProperties
<1> QED BY <1>1, <1>2 DEF InboxIInv, Tui!TypeOK, Tui!Screens, Tui!Pending, Tui!Popped, Sound

LEMMA InboxInit == Tui!Init => InboxIInv
<1> SUFFICES ASSUME Tui!Init PROVE InboxIInv
  OBVIOUS
<1>1. inbox \in [Tui!Ids -> Tui!Decisions] /\ keys \in 0..MaxKeys /\ replies \in 0..MaxReplies
      /\ cast = {}
  BY InboxBounds DEF Tui!Init, Tui!Decisions
<1>2. Sound(Tui!Blank)
  <2>1. <<>> \in [{} -> Tui!Decisions] /\ {} \in SUBSET Tui!Ids
    OBVIOUS
  <2>2. <<>> \in UNION {[S -> Tui!Decisions] : S \in SUBSET Tui!Ids}
    BY <2>1
  <2>3. Tui!NoPrompt \in Tui!Prompts /\ 1 \in Tui!Ids /\ 0 \in 0..MaxDecisions
    BY InboxBounds DEF Tui!NoPrompt, Tui!Prompts, Tui!Ids
  <2>4. <<>> \in Seq(Tui!Requests)
    OBVIOUS
  <2> QED BY <2>2, <2>3, <2>4 DEF Sound, Tui!Blank, Tui!Screens
<1>3. Sound(screen) /\ CaughtUp(screen)
  BY <1>2, FetchIsSound DEF Tui!Init
<1> QED BY <1>1, <1>3 DEF InboxIInv, Tui!TypeOK, Sound

\* A step leaves the invariant if it leaves the types of the rest and a sound
\* screen that has caught up.
LEMMA InboxStepKeeps ==
    ASSUME InboxIInv, inbox' \in [Tui!Ids -> Tui!Decisions], keys' \in 0..MaxKeys,
           replies' \in 0..MaxReplies, cast' \subseteq (0..MaxDecisions) \X Tui!Ids,
           Sound(screen'), CaughtUp(screen')
    PROVE  InboxIInv'
BY DEF InboxIInv, Tui!TypeOK, Sound, CaughtUp, Tui!Current, Tui!At, Tui!Position

\* The fields that a key sets before the screen is drawn.
Modes == {"normal", "detail", "help", "search", "prompt", "command"}

LEMMA SetIsSound ==
    ASSUME NEW u, Sound(u)
    PROVE  /\ \A m \in Modes : Sound([u EXCEPT !.mode = m])
           /\ \A b \in BOOLEAN : Sound([u EXCEPT !.all = b])
           /\ \A k \in Tui!Ids : Sound([u EXCEPT !.selected = k])
           /\ \A m \in Modes, p \in Tui!Prompts : Sound([u EXCEPT !.mode = m, !.prompt = p])
           /\ \A m \in Modes, p \in Tui!Prompts : Sound([u EXCEPT !.prompt = p, !.mode = m])
           /\ \A m \in Modes, b \in BOOLEAN : Sound([u EXCEPT !.mode = m, !.searching = b])
           /\ \A m \in Modes, b \in BOOLEAN : Sound([u EXCEPT !.searching = b, !.mode = m])
<1>1. \A m \in Modes : Sound([u EXCEPT !.mode = m])
  BY DEF Modes, Sound, Tui!Screens
<1>2. \A b \in BOOLEAN : Sound([u EXCEPT !.all = b])
  BY DEF Sound, Tui!Screens
<1>3. \A k \in Tui!Ids : Sound([u EXCEPT !.selected = k])
  BY DEF Sound, Tui!Screens
<1>4. \A m \in Modes, p \in Tui!Prompts :
          Sound([u EXCEPT !.mode = m, !.prompt = p]) /\ Sound([u EXCEPT !.prompt = p, !.mode = m])
  BY DEF Modes, Sound, Tui!Screens
<1>5. \A m \in Modes, b \in BOOLEAN :
          /\ Sound([u EXCEPT !.mode = m, !.searching = b])
          /\ Sound([u EXCEPT !.searching = b, !.mode = m])
  BY DEF Modes, Sound, Tui!Screens
<1> QED BY <1>1, <1>2, <1>3, <1>4, <1>5

LEMMA InboxMoves ==
    ASSUME InboxIInv, NEW d \in Tui!Ids,
           Tui!Propose(d) \/ Tui!ReplyPosted(d) \/ Tui!ResolvedElsewhere(d)
    PROVE  InboxIInv'
<1>1. Sound(screen) /\ CaughtUp(screen) /\ Tui!TypeOK
  BY DEF InboxIInv, Tui!TypeOK, Sound
<1>2. CASE Tui!Propose(d) \/ Tui!ResolvedElsewhere(d)
  <2>1. inbox' \in [Tui!Ids -> Tui!Decisions]
    BY <1>1, <1>2 DEF Tui!Propose, Tui!ResolvedElsewhere, Tui!TypeOK, Tui!Decisions
  <2> QED BY <1>1, <1>2, <2>1, InboxStepKeeps
          DEF Tui!Propose, Tui!ResolvedElsewhere, Tui!TypeOK
<1>3. CASE Tui!ReplyPosted(d)
  <2>1. inbox' \in [Tui!Ids -> Tui!Decisions]
    BY <1>1, <1>3 DEF Tui!ReplyPosted, Tui!TypeOK, Tui!Decisions
  <2>2. PICK v \in SUBSET Tui!Ids, w \in BOOLEAN :
            screen' = [screen EXCEPT !.seen = v, !.whole = w]
    <3>1. screen.seen \ {d} \in SUBSET Tui!Ids
      BY <1>1 DEF Sound, Tui!Screens
    <3>2. PICK z : z = [screen EXCEPT !.seen = screen.seen \ {d}]
      OBVIOUS
    <3>3. z.whole = screen.whole
      BY <1>1, <3>2 DEF Sound, Tui!Screens
    <3>4. screen' = [screen EXCEPT !.seen = screen.seen \ {d},
                                   !.whole = screen.whole /\ screen.detail # d]
      BY <1>3 DEF Tui!ReplyPosted
    <3> QED BY <3>1, <3>4
  <2>3. Sound(screen')
    BY <1>1, <2>2 DEF Sound, Tui!Screens
  <2>4. Tui!Current(screen') = Tui!Current(screen)
    BY <1>1, <2>2, SameCurrent DEF Sound, Tui!Screens
  <2>5. CaughtUp(screen')
    BY <1>1, <2>2, <2>4 DEF CaughtUp, Sound, Tui!Screens
  <2>6. replies' \in 0..MaxReplies
    BY <1>1, <1>3, InboxBounds DEF Tui!ReplyPosted, Tui!TypeOK
  <2> QED BY <1>1, <1>3, <2>1, <2>3, <2>5, <2>6, InboxStepKeeps DEF Tui!ReplyPosted, Tui!TypeOK
<1> QED BY <1>2, <1>3

LEMMA InboxListed == ASSUME InboxIInv, Tui!ListAnswered PROVE InboxIInv'
<1>1. Sound(Tui!Popped) /\ Head(screen.asked) \in Tui!Requests
  BY PoppedIsSound DEF Tui!ListAnswered
<1>2. PICK S \in SUBSET Tui!Ids : Tui!Listed(Head(screen.asked).all) = [d \in S |-> inbox[d]]
  BY DEF Tui!Listed
<1>3. PICK rows : rows = Tui!Listed(Head(screen.asked).all)
  OBVIOUS
<1>4. rows \in [S -> Tui!Decisions]
  BY <1>2, <1>3 DEF InboxIInv, Tui!TypeOK
<1>5. rows \in UNION {[T -> Tui!Decisions] : T \in SUBSET Tui!Ids}
  BY <1>4
<1>6. [Tui!Popped EXCEPT !.rows = rows] \in Tui!Screens
  BY <1>1, <1>5 DEF Sound, Tui!Screens
<1>7. Sound(screen') /\ CaughtUp(screen')
  BY <1>3, <1>6, FilterIsSound, RenderIsSound DEF Tui!ListAnswered
<1> QED BY <1>7, InboxStepKeeps DEF Tui!ListAnswered, InboxIInv, Tui!TypeOK

LEMMA InboxGot == ASSUME InboxIInv, Tui!GetAnswered PROVE InboxIInv'
<1>1. /\ Sound(Tui!Popped)
      /\ Head(screen.asked) \in Tui!Requests /\ Head(screen.asked).m = "get"
  BY PoppedIsSound DEF Tui!GetAnswered
<1>2. PICK r : r = Head(screen.asked)
  OBVIOUS
<1>3. r.d \in Tui!Ids
  BY <1>1, <1>2 DEF Tui!Requests
<1>4. r.d \in 0..MaxDecisions
  BY <1>3, InboxBounds DEF Tui!Ids
<1>5. PICK got : got = [Tui!Popped EXCEPT !.detail = r.d, !.whole = TRUE]
  OBVIOUS
<1>6. Sound(got)
  BY <1>1, <1>4, <1>5 DEF Sound, Tui!Screens
<1>7. screen' = IF r.unread THEN Tui!Fetch(got) ELSE Tui!Render(got)
  BY <1>2, <1>5 DEF Tui!GetAnswered
<1>8. Sound(screen') /\ CaughtUp(screen')
  BY <1>6, <1>7, FetchIsSound, RenderIsSound
<1>9. inbox' \in [Tui!Ids -> Tui!Decisions]
  <2>1. inbox' = [inbox EXCEPT ![r.d].unread = FALSE]
    BY <1>2 DEF Tui!GetAnswered, Tui!MarkRead
  <2> QED BY <2>1 DEF InboxIInv, Tui!TypeOK, Tui!Decisions
<1> QED BY <1>8, <1>9, InboxStepKeeps DEF Tui!GetAnswered, InboxIInv, Tui!TypeOK

LEMMA InboxResponded == ASSUME InboxIInv, Tui!RespondAnswered PROVE InboxIInv'
<1>1. Sound(Tui!Popped)
  BY PoppedIsSound DEF Tui!RespondAnswered
<1>2. Sound(Tui!Render(Tui!Popped)) /\ CaughtUp(Tui!Render(Tui!Popped))
  BY <1>1, RenderIsSound
<1>3. Sound(screen') /\ CaughtUp(screen')
  BY <1>2, FetchIsSound DEF Tui!RespondAnswered
<1>4. inbox' \in [Tui!Ids -> Tui!Decisions]
  BY DEF Tui!RespondAnswered, InboxIInv, Tui!TypeOK, Tui!Decisions
<1> QED BY <1>3, <1>4, InboxStepKeeps DEF Tui!RespondAnswered, InboxIInv, Tui!TypeOK

LEMMA InboxCast ==
    ASSUME InboxIInv, NEW a \in 0..MaxDecisions, Tui!CastFor(a)
    PROVE  cast' \subseteq (0..MaxDecisions) \X Tui!Ids
<1>1. Tui!IsOpen(screen) => Tui!Current(screen) \in Tui!Ids
  BY CurrentIsShown DEF InboxIInv, Tui!TypeOK, Tui!Screens, Tui!IsOpen
<1> QED BY <1>1 DEF Tui!CastFor, InboxIInv, Tui!TypeOK

\* A key that draws one sound screen.
LEMMA InboxDrawn ==
    ASSUME InboxIInv, NEW u, Sound(u), NEW m, Tui!Key(m),
           Tui!Shown(Tui!Render(u)) \/ Tui!Shown(Tui!Fetch(u))
    PROVE  InboxIInv'
<1>1. Sound(screen') /\ CaughtUp(screen')
  BY RenderIsSound, FetchIsSound DEF Tui!Shown
<1>2. keys' \in 0..MaxKeys
  BY InboxBounds DEF Tui!Key, InboxIInv, Tui!TypeOK
<1> QED BY <1>1, <1>2, InboxStepKeeps DEF Tui!Shown, InboxIInv, Tui!TypeOK

LEMMA InboxSelect ==
    ASSUME InboxIInv,
           \/ \E k \in Tui!Ids : Tui!Move(k)
           \/ \E all \in BOOLEAN : Tui!Refetch(all)
           \/ Tui!OpenDetail \/ Tui!Back
           \/ Tui!BeginSearch \/ Tui!BeginCommand
           \/ \E on \in BOOLEAN : Tui!Search(on)
    PROVE  InboxIInv'
<1>1. Sound(screen)
  BY DEF InboxIInv, Tui!TypeOK, Sound
<1>2. Tui!NoPrompt \in Tui!Prompts
  BY InboxBounds DEF Tui!NoPrompt, Tui!Prompts
<1>3. CASE \E k \in Tui!Ids : Tui!Move(k)
  BY <1>1, <1>2, <1>3, SetIsSound, InboxDrawn DEF Modes, Tui!Move, Tui!Select
<1>4. CASE \E all \in BOOLEAN : Tui!Refetch(all)
  BY <1>1, <1>2, <1>4, SetIsSound, InboxDrawn DEF Modes, Tui!Refetch
<1>5. CASE Tui!OpenDetail
  BY <1>1, <1>2, <1>5, SetIsSound, InboxDrawn DEF Modes, Tui!OpenDetail
<1>6. CASE Tui!Back
  <2>1. Sound([screen EXCEPT !.mode = "normal", !.prompt = Tui!NoPrompt])
    BY <1>1, <1>2, SetIsSound DEF Modes
  <2> QED BY <1>6, <2>1, InboxDrawn DEF Tui!Back
<1>7. CASE Tui!BeginSearch
  <2>1. Sound([screen EXCEPT !.mode = "search", !.searching = FALSE])
    BY <1>1, <1>2, SetIsSound DEF Modes
  <2> QED BY <1>7, <2>1, InboxDrawn DEF Tui!BeginSearch
<1>8. CASE Tui!BeginCommand
  BY <1>1, <1>2, <1>8, SetIsSound, InboxDrawn DEF Modes, Tui!BeginCommand
<1>9. CASE \E on \in BOOLEAN : Tui!Search(on)
  <2>1. PICK on \in BOOLEAN, m \in {"search", "normal"} :
            /\ Tui!Key("search")
            /\ Tui!Shown(Tui!Render(Tui!ApplyFilter(
                   [screen EXCEPT !.searching = on, !.mode = m])))
    BY <1>9 DEF Tui!Search
  <2>2. Sound([screen EXCEPT !.searching = on, !.mode = m])
    BY <1>1, <1>2, SetIsSound DEF Modes
  <2>3. Sound(Tui!ApplyFilter([screen EXCEPT !.searching = on, !.mode = m]))
    BY <2>2, FilterIsSound DEF Sound
  <2> QED BY <2>1, <2>3, InboxDrawn
<1> QED BY <1>3, <1>4, <1>5, <1>6, <1>7, <1>8, <1>9

\* The help and the way out leave the selection, or the screen, alone.
LEMMA InboxLooks == ASSUME InboxIInv, Tui!Help \/ Tui!Quit PROVE InboxIInv'
<1>1. Sound(screen) /\ CaughtUp(screen) /\ keys' \in 0..MaxKeys
  BY InboxBounds DEF InboxIInv, Tui!TypeOK, Sound, Tui!Help, Tui!Quit, Tui!Key
<1>2. CASE Tui!Help
  <2>1. screen' = [screen EXCEPT !.mode = "help"]
    BY <1>2 DEF Tui!Help, Tui!Shown
  <2>2. Tui!Current(screen') = Tui!Current(screen)
    BY <1>1, <2>1, SameCurrent DEF Sound, Tui!Screens
  <2>3. Sound(screen') /\ CaughtUp(screen')
    BY <1>1, <2>1, <2>2 DEF Sound, CaughtUp, Tui!Screens
  <2> QED BY <1>1, <1>2, <2>3, InboxStepKeeps DEF Tui!Help, Tui!Shown, InboxIInv, Tui!TypeOK
<1>3. CASE Tui!Quit
  <2>1. <<>> \in Seq(Tui!Requests)
    OBVIOUS
  <2>2. screen' = [screen EXCEPT !.running = FALSE, !.asked = <<>>]
    BY <1>3 DEF Tui!Quit, Tui!Shown
  <2>3. Sound(screen') /\ CaughtUp(screen')
    BY <1>1, <2>1, <2>2 DEF Sound, CaughtUp, Tui!Screens
  <2> QED BY <1>1, <1>3, <2>3, InboxStepKeeps DEF Tui!Quit, Tui!Shown, InboxIInv, Tui!TypeOK
<1> QED BY <1>2, <1>3

LEMMA InboxPrompt == ASSUME InboxIInv, NEW vote \in VoteKeys, Tui!StartAction(vote)
                     PROVE  InboxIInv'
<1>1. Sound(screen)
  BY DEF InboxIInv, Tui!TypeOK, Sound
<1>2. PICK p : p = [vote |-> vote, step |-> "message", about |-> Tui!Current(screen)]
  OBVIOUS
<1>3. Tui!Current(screen) # Tui!NoRow
  BY DEF Tui!StartAction
<1>4. Tui!Current(screen) \in 0..MaxDecisions
  BY <1>1, <1>3, CurrentIsShown DEF Sound, Tui!Screens, Tui!Ids
<1>5. p \in Tui!Prompts
  BY <1>2, <1>4, InboxBounds DEF Tui!Prompts
<1>6. Sound([screen EXCEPT !.mode = "prompt", !.prompt = p])
  BY <1>1, <1>5, SetIsSound DEF Modes
<1>7. PICK m : Tui!Key(m)
  BY DEF Tui!StartAction
<1>8. \/ Tui!Shown(Tui!Render(screen))
      \/ Tui!Shown(Tui!Render([screen EXCEPT !.mode = "prompt", !.prompt = p]))
  BY <1>2 DEF Tui!StartAction
<1> QED BY <1>1, <1>6, <1>7, <1>8, InboxDrawn

LEMMA InboxCommit == ASSUME InboxIInv, Tui!CommitPrompt \/ Tui!CommitCommand PROVE InboxIInv'
<1>1. Sound(screen) /\ Tui!NoPrompt \in Tui!Prompts
  BY InboxBounds DEF InboxIInv, Tui!TypeOK, Sound, Tui!NoPrompt, Tui!Prompts
<1>2. keys' \in 0..MaxKeys
  <2>1. Tui!Key("prompt") \/ Tui!Key("command")
    BY DEF Tui!CommitPrompt, Tui!CommitCommand
  <2> QED BY <2>1, InboxBounds DEF InboxIInv, Tui!TypeOK, Tui!Key
<1>3. CASE Tui!CommitPrompt
  <2>1. Sound([screen EXCEPT !.prompt.step = "payload"])
    BY <1>1 DEF Sound, Tui!Screens, Tui!Prompts
  <2>2. Sound([screen EXCEPT !.prompt = Tui!NoPrompt, !.mode = "normal"])
    BY <1>1, SetIsSound DEF Modes
  <2>3. \/ screen' = Tui!Render([screen EXCEPT !.prompt.step = "payload"])
        \/ screen' = Tui!Voted([screen EXCEPT !.prompt = Tui!NoPrompt, !.mode = "normal"])
        \/ screen' = Tui!Render(screen)
    BY <1>3 DEF Tui!CommitPrompt
  <2>4. Sound(screen') /\ CaughtUp(screen')
    BY <1>1, <2>1, <2>2, <2>3, RenderIsSound, VotedIsSound
  <2>5. screen.prompt.about \in 0..MaxDecisions
    BY <1>1 DEF Sound, Tui!Screens, Tui!Prompts
  <2>6. UNCHANGED cast \/ Tui!CastFor(screen.prompt.about)
    BY <1>3 DEF Tui!CommitPrompt
  <2>7. cast' \subseteq (0..MaxDecisions) \X Tui!Ids
    BY <2>5, <2>6, InboxCast DEF InboxIInv, Tui!TypeOK
  <2> QED BY <1>2, <1>3, <2>4, <2>7, InboxStepKeeps DEF Tui!CommitPrompt, InboxIInv, Tui!TypeOK
<1>4. CASE Tui!CommitCommand
  <2>1. PICK closed : closed = [screen EXCEPT !.mode = "normal"]
    OBVIOUS
  <2>2. Sound(closed) /\ \A all \in BOOLEAN : Sound([closed EXCEPT !.all = all])
    BY <1>1, <2>1, SetIsSound DEF Modes
  <2>3. \/ screen' = Tui!Render(Tui!Voted(closed)) /\ Tui!CastFor(Tui!Current(screen))
        \/ /\ \E all \in BOOLEAN : screen' = Tui!Render(Tui!Fetch([closed EXCEPT !.all = all]))
           /\ UNCHANGED cast
    BY <1>4, <2>1 DEF Tui!CommitCommand
  <2>4. Sound(screen') /\ CaughtUp(screen')
    BY <2>2, <2>3, RenderIsSound, VotedIsSound, FetchIsSound
  <2>5. Tui!Current(screen) \in 0..MaxDecisions
    BY <1>1, CurrentIsShown, InboxBounds DEF Sound, Tui!Screens, Tui!Ids, Tui!NoRow
  <2>6. cast' \subseteq (0..MaxDecisions) \X Tui!Ids
    BY <2>3, <2>5, InboxCast DEF InboxIInv, Tui!TypeOK
  <2> QED BY <1>2, <1>4, <2>4, <2>6, InboxStepKeeps
          DEF Tui!CommitCommand, InboxIInv, Tui!TypeOK
<1> QED BY <1>3, <1>4

LEMMA InboxNext == InboxIInv /\ [Tui!Next]_(Tui!tuiVars) => InboxIInv'
<1> SUFFICES ASSUME InboxIInv, [Tui!Next]_(Tui!tuiVars) PROVE InboxIInv'
  OBVIOUS
<1>1. CASE UNCHANGED Tui!tuiVars
  <2>1. Sound(screen') /\ CaughtUp(screen')
    BY <1>1 DEF Tui!tuiVars, InboxIInv, Tui!TypeOK, Sound
  <2> QED BY <1>1, <2>1, InboxStepKeeps DEF Tui!tuiVars, InboxIInv, Tui!TypeOK
<1> QED BY <1>1, InboxMoves, InboxListed, InboxGot, InboxResponded, InboxSelect, InboxLooks,
           InboxPrompt, InboxCommit DEF Tui!Next

\* Once no answer is outstanding the inbox shows the replies to the row that
\* is selected, for any number of decisions, keys and replies, and whatever
\* keys and lists come between a request and its answer
\* (cli/inbox-tui.ts:230-260, 316-327).
THEOREM InboxCatchesUp == ExtensionSpec => []InboxIsShown
<1>1. InboxIInv => InboxIsShown
  BY DEF InboxIInv, InboxIsShown, Tui!PreviewCatchesUp, CaughtUp
<1> QED BY <1>1, InboxInit, InboxNext, ExtensionsRunInbox, PTL
=============================================================================
