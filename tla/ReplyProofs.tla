---------------------------- MODULE ReplyProofs ----------------------------
(***************************************************************************)
(* The replies of the starters, for every number of turns, texts, messages *)
(* and calls.  As in ExtensionsProofs one part moves in a behaviour, and   *)
(* what is proved of a part is proved of the whole.                        *)
(*                                                                         *)
(* All three arguments are about whose a text is.  The bridge of Discord   *)
(* keeps what was said by thread, and what it holds is of the turn that    *)
(* runs; a native stream of Slack has shown what its session knows last,   *)
(* and a delta goes on from there; a stream of Telegram has at most one    *)
(* call that may change its message, as long as calls do not race, so that *)
(* the call that ends it finds the message as the one before has left it.  *)
(***************************************************************************)
EXTENDS Extensions, FiniteSetTheorems, SequenceTheorems, TLAPS

----------------------------------------------------------------------------
(* The turns and routes of the Discord bridge *)

LEMMA ExtensionsRunBridge ==
    ExtensionSpec => Bridge!Init /\ [][Bridge!Next]_(Bridge!bridgeVars)
<1>1. ExtensionInit => Bridge!Init
  BY DEF ExtensionInit
<1>2. [ExtensionNext]_extensionVars => [Bridge!Next]_(Bridge!bridgeVars)
  BY DEF ExtensionNext, extensionVars, SlackStep, HostStep, DiscordStep, TelegramStep,
         ReplyStep, BridgeStep, StreamStep, InboxStep, bridgeVars, Bridge!bridgeVars
<1> QED BY <1>1, <1>2, PTL DEF ExtensionSpec

\* The text of a turn that said k things.
Told(k, n) == [i \in 1 .. k |-> n]

\* A chat's thread has the route its messages came in by, from its first
\* turn on; a standing job's thread never has one to reply to.
Routed(t, way, turnOf) ==
    /\ t \in JobThreads => way.kind # "stored" /\ way.origin = 0
    /\ t \notin JobThreads => /\ way.kind \in {"none", "stored"}
                              /\ way.kind = "stored" => way.origin # 0
                              /\ turnOf # 0 => way.kind = "stored"

\* What is kept for a thread is of the turn that runs on it.
OfItsTurn(text, actor, turnOf, words) ==
    IF turnOf = 0 THEN text = <<>>
    ELSE text = Told(words[turnOf], turnOf) /\ (text # <<>> => actor = turnOf)

TurnsAreApart ==
    /\ \A t \in BridgeThreads : inBridge[t] <= begun
    /\ \A t, u \in BridgeThreads : t # u /\ inBridge[t] # 0 => inBridge[t] # inBridge[u]
    /\ \A n \in Bridge!TurnIds : n > begun => said[n] = 0
    /\ \A c \in sends : c.turn <= begun /\ \A t \in BridgeThreads : inBridge[t] # c.turn

BridgeIInv ==
    /\ Bridge!TypeOK /\ Bridge!TurnsDoNotMix /\ TurnsAreApart
    /\ \A t \in BridgeThreads :
           /\ Routed(t, routeOf[t], inBridge[t])
           /\ OfItsTurn(accumulator[t], actorOf[t], inBridge[t], said)

LEMMA BridgeBounds ==
    /\ JobThreads \subseteq BridgeThreads /\ BridgeTurns \in Nat
    /\ Bridge!TurnIds = 1 .. BridgeTurns
    /\ Bridge!NoRoute = [kind |-> "none", origin |-> 0]
BY PartsAssumption DEF Bridge!BridgeAssumption, Bridge!TurnIds, Bridge!NoRoute

LEMMA ToldMore ==
    ASSUME NEW k \in Nat, NEW n \in Bridge!TurnIds
    PROVE  /\ Told(k, n) \in Seq(Bridge!TurnIds)
           /\ Append(Told(k, n), n) = Told(k + 1, n)
           /\ Told(0, n) = <<>>
<1>1. PICK q : q = Told(k, n)
  OBVIOUS
<1>2. q \in [1 .. k -> Bridge!TurnIds] /\ \A i \in 1 .. k : q[i] = n
  BY <1>1 DEF Told
<1>3. q \in Seq(Bridge!TurnIds) /\ Len(q) = k
  BY <1>2
<1>4. PICK r : r = Append(q, n)
  OBVIOUS
<1>5. r \in Seq(Bridge!TurnIds) /\ Len(r) = k + 1 /\ (\A i \in 1 .. k : r[i] = q[i]) /\ r[k + 1] = n
  BY <1>3, <1>4, AppendProperties
<1>6. r \in [1 .. k + 1 -> Bridge!TurnIds] /\ \A i \in 1 .. k + 1 : r[i] = n
  BY <1>2, <1>5, LenProperties
<1>7. r = Told(k + 1, n)
  BY <1>6 DEF Told
<1>8. Told(0, n) = <<>>
  BY DEF Told
<1> QED BY <1>1, <1>3, <1>4, <1>7, <1>8

LEMMA BridgeHolds == BridgeIInv => Bridge!TypeOK /\ Bridge!TurnsDoNotMix
BY DEF BridgeIInv

LEMMA BridgeInit == Bridge!Init => BridgeIInv
<1> SUFFICES ASSUME Bridge!Init PROVE BridgeIInv
  OBVIOUS
<1>1. <<>> \in Seq(Bridge!TurnIds) /\ 0 \in 0 .. BridgeTurns /\ 0 \in Nat
  BY BridgeBounds
<1>2. [kind |-> "none", origin |-> 0] \in Bridge!Routes
  BY <1>1 DEF Bridge!Routes
<1>3. Bridge!TypeOK
  BY <1>1, <1>2, BridgeBounds DEF Bridge!Init, Bridge!TypeOK, Bridge!Outcomes
<1>4. TurnsAreApart /\ Bridge!TurnsDoNotMix
  BY BridgeBounds DEF Bridge!Init, TurnsAreApart, Bridge!TurnsDoNotMix
<1>5. \A t \in BridgeThreads :
          /\ Routed(t, routeOf[t], inBridge[t])
          /\ OfItsTurn(accumulator[t], actorOf[t], inBridge[t], said)
  BY BridgeBounds DEF Bridge!Init, Routed, OfItsTurn
<1> QED BY <1>3, <1>4, <1>5 DEF BridgeIInv

\* A route that is looked up, derived or given up still serves its thread.
LEMMA RouteServes ==
    ASSUME BridgeIInv, NEW t \in BridgeThreads, NEW turnOf \in {0, inBridge[t]},
           \/ routeOf' = routeOf
           \/ routeOf' = Bridge!EvictDerived(t)
           \/ Bridge!GetOrDerive(t) /\ inBridge[t] # 0
    PROVE  /\ routeOf' \in [BridgeThreads -> Bridge!Routes]
           /\ Routed(t, routeOf'[t], turnOf)
           /\ \A u \in BridgeThreads \ {t} : routeOf'[u] = routeOf[u]
<1>1. routeOf \in [BridgeThreads -> Bridge!Routes] /\ Routed(t, routeOf[t], inBridge[t])
  BY DEF BridgeIInv, Bridge!TypeOK
<1>2. Routed(t, routeOf[t], turnOf)
  BY <1>1 DEF Routed
<1>3. ASSUME NEW way \in Bridge!Routes, routeOf' = [routeOf EXCEPT ![t] = way],
             Routed(t, way, turnOf)
      PROVE  /\ routeOf' \in [BridgeThreads -> Bridge!Routes]
             /\ Routed(t, routeOf'[t], turnOf)
             /\ \A u \in BridgeThreads \ {t} : routeOf'[u] = routeOf[u]
  BY <1>1, <1>3
<1>4. CASE routeOf' = routeOf
  BY <1>1, <1>2, <1>4
<1>5. CASE routeOf' = Bridge!EvictDerived(t)
  <2>1. CASE routeOf[t].kind = "derived"
    <3>1. t \in JobThreads
      BY <1>1, <2>1 DEF Routed
    <3>2. PICK way : way = [kind |-> "none", origin |-> 0]
      OBVIOUS
    <3>3. way \in Bridge!Routes /\ Routed(t, way, turnOf)
      BY <3>1, <3>2, BridgeBounds DEF Bridge!Routes, Routed
    <3> QED BY <1>3, <1>5, <2>1, <3>2, <3>3, BridgeBounds DEF Bridge!EvictDerived
  <2> QED BY <1>4, <1>5, <2>1 DEF Bridge!EvictDerived
<1>6. CASE Bridge!GetOrDerive(t) /\ inBridge[t] # 0
  <2>1. CASE routeOf[t].kind = "none"
    <3>1. PICK way : way = [kind |-> "derived", origin |-> 0]
      OBVIOUS
    <3>2. way \in Bridge!Routes
      BY <3>1, BridgeBounds DEF Bridge!Routes
    <3>3. CASE t \in JobThreads
      BY <1>3, <1>6, <2>1, <3>1, <3>2, <3>3 DEF Bridge!GetOrDerive, Routed
    <3>4. CASE t \notin JobThreads
      BY <1>1, <1>6, <2>1, <3>4 DEF Routed
    <3> QED BY <3>3, <3>4
  <2> QED BY <1>4, <1>6, <2>1 DEF Bridge!GetOrDerive
<1> QED BY <1>4, <1>5, <1>6

\* What is left to show of a step that concerns one thread.
LEMMA BridgeStepKeeps ==
    ASSUME BridgeIInv, NEW t \in BridgeThreads, Bridge!TypeOK', Bridge!TurnsDoNotMix', TurnsAreApart',
           Routed(t, routeOf'[t], inBridge'[t]),
           OfItsTurn(accumulator'[t], actorOf'[t], inBridge'[t], said'),
           \A u \in BridgeThreads \ {t} :
               /\ routeOf'[u] = routeOf[u] /\ inBridge'[u] = inBridge[u]
               /\ accumulator'[u] = accumulator[u] /\ actorOf'[u] = actorOf[u]
               /\ inBridge[u] # 0 => said'[inBridge[u]] = said[inBridge[u]]
    PROVE  BridgeIInv'
<1>1. ASSUME NEW u \in BridgeThreads \ {t}
      PROVE  /\ Routed(u, routeOf'[u], inBridge'[u])
             /\ OfItsTurn(accumulator'[u], actorOf'[u], inBridge'[u], said')
  BY <1>1 DEF BridgeIInv, OfItsTurn
<1> QED BY <1>1 DEF BridgeIInv

LEMMA BridgeMessage ==
    ASSUME BridgeIInv, NEW t \in BridgeThreads, Bridge!ChannelMessage(t) PROVE BridgeIInv'
<1> USE DEF Bridge!ChannelMessage
<1>1. PICK way : way = [kind |-> "stored", origin |-> inbound + 1]
  OBVIOUS
<1>2. inbound + 1 \in 0 .. BridgeTurns /\ inbound + 1 # 0
  BY BridgeBounds DEF BridgeIInv, Bridge!TypeOK
<1>3. way \in Bridge!Routes /\ Routed(t, way, inBridge[t])
  BY <1>1, <1>2 DEF Bridge!Routes, Routed
<1>4. routeOf \in [BridgeThreads -> Bridge!Routes] /\ routeOf' = [routeOf EXCEPT ![t] = way]
  BY <1>1 DEF BridgeIInv, Bridge!TypeOK
<1>5. Bridge!TypeOK'
  BY <1>2, <1>3, <1>4 DEF BridgeIInv, Bridge!TypeOK
<1>6. TurnsAreApart' /\ Bridge!TurnsDoNotMix'
  BY DEF BridgeIInv, TurnsAreApart, Bridge!TurnsDoNotMix
<1>7. OfItsTurn(accumulator'[t], actorOf'[t], inBridge'[t], said')
  BY DEF BridgeIInv
<1> QED BY <1>3, <1>4, <1>5, <1>6, <1>7, BridgeStepKeeps

LEMMA BridgeBegins ==
    ASSUME BridgeIInv, NEW t \in BridgeThreads, Bridge!TurnBegins(t) PROVE BridgeIInv'
<1> USE DEF Bridge!TurnBegins
<1>1. PICK n : n = begun + 1
  OBVIOUS
<1>2. /\ n \in Bridge!TurnIds /\ n \in 0 .. BridgeTurns /\ n # 0 /\ begun < n
      /\ \A m \in Nat : m <= begun => m <= n /\ m # n
      /\ \A m \in Nat : m > n => m > begun
  BY <1>1, BridgeBounds DEF BridgeIInv, Bridge!TypeOK
<1>3. /\ begun' = n /\ inBridge' = [inBridge EXCEPT ![t] = n] /\ inBridge[t] = 0
      /\ UNCHANGED <<routeOf, accumulator, actorOf, explicitIn, sends, inbound, said, outcome>>
  BY <1>1
<1>4. Bridge!TypeOK'
  BY <1>2, <1>3 DEF BridgeIInv, Bridge!TypeOK
<1>5. inBridge \in [BridgeThreads -> 0 .. BridgeTurns] /\ sends \subseteq Bridge!BridgeSends
  BY DEF BridgeIInv, Bridge!TypeOK
<1>6. /\ inBridge'[t] = n
      /\ \A u \in BridgeThreads \ {t} : inBridge'[u] = inBridge[u] /\ inBridge[u] # n
  BY <1>2, <1>3, <1>5, BridgeBounds DEF BridgeIInv, TurnsAreApart
<1>7. TurnsAreApart'
  <2>1. \A u \in BridgeThreads : inBridge'[u] <= n
    BY <1>2, <1>5, <1>6, BridgeBounds DEF BridgeIInv, TurnsAreApart
  <2>2. \A u, v \in BridgeThreads : u # v /\ inBridge'[u] # 0 => inBridge'[u] # inBridge'[v]
    <3> SUFFICES ASSUME NEW u \in BridgeThreads, NEW v \in BridgeThreads, u # v,
                        inBridge'[u] # 0
                 PROVE  inBridge'[u] # inBridge'[v]
      OBVIOUS
    <3> QED BY <1>6 DEF BridgeIInv, TurnsAreApart
  <2>3. \A m \in Bridge!TurnIds : m > n => said'[m] = 0
    BY <1>2, <1>3, BridgeBounds DEF BridgeIInv, TurnsAreApart
  <2>4. ASSUME NEW c \in sends'
        PROVE  c.turn <= n /\ \A u \in BridgeThreads : inBridge'[u] # c.turn
    <3>1. c \in sends /\ c.turn <= begun /\ c.turn \in Nat
      BY <1>3, <1>5, <2>4, BridgeBounds DEF BridgeIInv, TurnsAreApart, Bridge!BridgeSends
    <3> QED BY <1>2, <1>6, <3>1 DEF BridgeIInv, TurnsAreApart
  <2> QED BY <1>3, <2>1, <2>2, <2>3, <2>4 DEF TurnsAreApart
<1>8. Bridge!TurnsDoNotMix'
  BY <1>3 DEF BridgeIInv, Bridge!TurnsDoNotMix
<1>9. Routed(t, routeOf'[t], n)
  <2>1. Routed(t, routeOf[t], inBridge[t]) /\ (t \in JobThreads \/ routeOf[t].kind = "stored")
    BY DEF BridgeIInv
  <2> QED BY <1>3, <2>1 DEF Routed
<1>10. OfItsTurn(accumulator'[t], actorOf'[t], n, said')
  <2>1. accumulator[t] = <<>> /\ said[n] = 0
    BY <1>2, <1>3 DEF BridgeIInv, OfItsTurn, TurnsAreApart
  <2> QED BY <1>2, <1>3, <2>1, ToldMore DEF OfItsTurn
<1> QED BY <1>3, <1>4, <1>6, <1>7, <1>8, <1>9, <1>10, BridgeStepKeeps

LEMMA BridgeSays ==
    ASSUME BridgeIInv, NEW t \in BridgeThreads, Bridge!AssistantText(t) PROVE BridgeIInv'
<1>1. PICK n : n = inBridge[t]
  OBVIOUS
<1>2. /\ n # 0 /\ Bridge!GetOrDerive(t)
      /\ accumulator' = [accumulator EXCEPT ![t] = Append(accumulator[t], n)]
      /\ actorOf' = [actorOf EXCEPT ![t] = n]
      /\ said' = [said EXCEPT ![n] = said[n] + 1]
      /\ UNCHANGED <<explicitIn, sends, inBridge, begun, inbound, outcome>>
  BY <1>1 DEF Bridge!AssistantText
<1>3. /\ n \in Bridge!TurnIds /\ n \in 0 .. BridgeTurns /\ n <= begun /\ said[n] \in Nat
      /\ said \in [Bridge!TurnIds -> Nat]
      /\ accumulator \in [BridgeThreads -> Seq(Bridge!TurnIds)]
      /\ actorOf \in [BridgeThreads -> 0 .. BridgeTurns]
      /\ accumulator[t] = Told(said[n], n)
  BY <1>1, <1>2, BridgeBounds DEF BridgeIInv, Bridge!TypeOK, TurnsAreApart, OfItsTurn
<1>4. /\ Append(accumulator[t], n) = Told(said[n] + 1, n)
      /\ Told(said[n] + 1, n) \in Seq(Bridge!TurnIds) /\ said[n] + 1 \in Nat
  <2>1. PICK k \in Nat : k = said[n]
    BY <1>3
  <2>2. n \in Bridge!TurnIds /\ k + 1 \in Nat
    BY <1>3
  <2>3. Append(Told(k, n), n) = Told(k + 1, n) /\ Told(k + 1, n) \in Seq(Bridge!TurnIds)
    BY <2>2, ToldMore
  <2> QED BY <1>3, <2>1, <2>2, <2>3
<1>5. /\ routeOf' \in [BridgeThreads -> Bridge!Routes]
      /\ Routed(t, routeOf'[t], inBridge[t])
      /\ \A u \in BridgeThreads \ {t} : routeOf'[u] = routeOf[u]
  BY <1>1, <1>2, RouteServes
<1>6. /\ accumulator' \in [BridgeThreads -> Seq(Bridge!TurnIds)]
      /\ accumulator'[t] = Told(said[n] + 1, n)
      /\ \A u \in BridgeThreads \ {t} : accumulator'[u] = accumulator[u]
  BY <1>2, <1>3, <1>4
<1>7. /\ said' \in [Bridge!TurnIds -> Nat] /\ said'[n] = said[n] + 1
      /\ \A m \in Bridge!TurnIds \ {n} : said'[m] = said[m]
      /\ actorOf' \in [BridgeThreads -> 0 .. BridgeTurns] /\ actorOf'[t] = n
      /\ \A u \in BridgeThreads \ {t} : actorOf'[u] = actorOf[u]
  BY <1>2, <1>3, <1>4
<1>8. Bridge!TypeOK'
  BY <1>2, <1>5, <1>6, <1>7 DEF BridgeIInv, Bridge!TypeOK
<1>9. TurnsAreApart'
  <2>1. \A m \in Bridge!TurnIds : m > begun => m # n
    BY <1>3, BridgeBounds DEF BridgeIInv, Bridge!TypeOK
  <2> QED BY <1>2, <1>7, <2>1 DEF BridgeIInv, TurnsAreApart
<1>10. Bridge!TurnsDoNotMix'
  <2>1. ASSUME NEW c \in sends PROVE c.turn # n /\ c.turn \in Bridge!TurnIds
    BY <1>1, <2>1 DEF BridgeIInv, TurnsAreApart, Bridge!TypeOK, Bridge!BridgeSends
  <2>2. \A c \in sends : said'[c.turn] = said[c.turn]
    BY <1>7, <2>1
  <2> QED BY <1>2, <2>2 DEF BridgeIInv, Bridge!TurnsDoNotMix
<1>11. OfItsTurn(accumulator'[t], actorOf'[t], inBridge'[t], said')
  BY <1>1, <1>2, <1>6, <1>7 DEF OfItsTurn
<1>12. \A u \in BridgeThreads \ {t} : inBridge[u] # 0 => said'[inBridge[u]] = said[inBridge[u]]
  <2>1. \A u \in BridgeThreads \ {t} : inBridge[u] # n
    BY <1>1, <1>2 DEF BridgeIInv, TurnsAreApart
  <2>2. \A u \in BridgeThreads : inBridge[u] # 0 => inBridge[u] \in Bridge!TurnIds
    BY BridgeBounds DEF BridgeIInv, Bridge!TypeOK
  <2> QED BY <1>7, <2>1, <2>2
<1> QED BY <1>2, <1>5, <1>6, <1>7, <1>8, <1>9, <1>10, <1>11, <1>12, BridgeStepKeeps

LEMMA BridgeExplicit ==
    ASSUME BridgeIInv, NEW t \in BridgeThreads, Bridge!ExplicitSend(t) PROVE BridgeIInv'
<1> USE DEF Bridge!ExplicitSend
<1>1. /\ routeOf' \in [BridgeThreads -> Bridge!Routes]
      /\ Routed(t, routeOf'[t], inBridge[t])
      /\ \A u \in BridgeThreads \ {t} : routeOf'[u] = routeOf[u]
  BY RouteServes
<1>2. Bridge!TypeOK'
  BY <1>1 DEF BridgeIInv, Bridge!TypeOK
<1>3. TurnsAreApart' /\ Bridge!TurnsDoNotMix'
  BY DEF BridgeIInv, TurnsAreApart, Bridge!TurnsDoNotMix
<1>4. OfItsTurn(accumulator'[t], actorOf'[t], inBridge'[t], said')
  BY DEF BridgeIInv
<1> QED BY <1>1, <1>2, <1>3, <1>4, BridgeStepKeeps

\* A turn ends, with or without a send.
TurnOver(t, what, new) ==
    /\ inBridge[t] # 0
    /\ inBridge' = [inBridge EXCEPT ![t] = 0]
    /\ accumulator' = [accumulator EXCEPT ![t] = <<>>]
    /\ actorOf' = [actorOf EXCEPT ![t] = 0] /\ explicitIn' = explicitIn \ {t}
    /\ outcome' = [outcome EXCEPT ![inBridge[t]] = what]
    /\ UNCHANGED <<begun, inbound, said>>
    /\ routeOf' = Bridge!EvictDerived(t) \/ Bridge!GetOrDerive(t)
    /\ sends' = sends \cup new
    /\ \A c \in new : /\ c.turn = inBridge[t] /\ c.text = Told(said[c.turn], c.turn)
                      /\ c.as = c.turn /\ (c.replyTo = 0 <=> c.thread \in JobThreads)

LEMMA BridgeTurnOver ==
    ASSUME BridgeIInv, NEW t \in BridgeThreads, NEW what \in Bridge!Outcomes,
           NEW new \in SUBSET Bridge!BridgeSends, TurnOver(t, what, new)
    PROVE  BridgeIInv'
<1> USE DEF TurnOver
<1>1. /\ inBridge \in [BridgeThreads -> 0 .. BridgeTurns]
      /\ accumulator \in [BridgeThreads -> Seq(Bridge!TurnIds)]
      /\ actorOf \in [BridgeThreads -> 0 .. BridgeTurns]
      /\ outcome \in [Bridge!TurnIds -> Bridge!Outcomes]
      /\ 0 \in 0 .. BridgeTurns /\ <<>> \in Seq(Bridge!TurnIds)
  BY BridgeBounds DEF BridgeIInv, Bridge!TypeOK
<1>2. /\ routeOf' \in [BridgeThreads -> Bridge!Routes]
      /\ Routed(t, routeOf'[t], 0)
      /\ \A u \in BridgeThreads \ {t} : routeOf'[u] = routeOf[u]
  BY RouteServes
<1>3. /\ inBridge' \in [BridgeThreads -> 0 .. BridgeTurns] /\ inBridge'[t] = 0
      /\ \A u \in BridgeThreads \ {t} : inBridge'[u] = inBridge[u]
      /\ accumulator' \in [BridgeThreads -> Seq(Bridge!TurnIds)] /\ accumulator'[t] = <<>>
      /\ \A u \in BridgeThreads \ {t} : accumulator'[u] = accumulator[u]
      /\ actorOf' \in [BridgeThreads -> 0 .. BridgeTurns]
      /\ \A u \in BridgeThreads \ {t} : actorOf'[u] = actorOf[u]
  BY <1>1
<1>4. Bridge!TypeOK'
  BY <1>1, <1>2, <1>3 DEF BridgeIInv, Bridge!TypeOK
<1>5. TurnsAreApart'
  <2>1. \A u \in BridgeThreads : inBridge'[u] <= begun
    BY <1>1, <1>3, BridgeBounds DEF BridgeIInv, TurnsAreApart, Bridge!TypeOK
  <2>2. \A u, v \in BridgeThreads : u # v /\ inBridge'[u] # 0 => inBridge'[u] # inBridge'[v]
    <3> SUFFICES ASSUME NEW u \in BridgeThreads, NEW v \in BridgeThreads, u # v,
                        inBridge'[u] # 0
                 PROVE  inBridge'[u] # inBridge'[v]
      OBVIOUS
    <3> QED BY <1>3 DEF BridgeIInv, TurnsAreApart
  <2>3. ASSUME NEW c \in sends'
        PROVE  c.turn <= begun /\ \A u \in BridgeThreads : inBridge'[u] # c.turn
    <3>1. CASE c \in sends
      <4>1. c.turn # 0
        BY <3>1, BridgeBounds DEF BridgeIInv, Bridge!TypeOK, Bridge!BridgeSends
      <4> QED BY <1>3, <3>1, <4>1 DEF BridgeIInv, TurnsAreApart
    <3>2. CASE c \in new
      <4>1. c.turn = inBridge[t] /\ inBridge[t] <= begun
        BY <3>2 DEF BridgeIInv, TurnsAreApart
      <4> QED BY <1>3, <4>1 DEF BridgeIInv, TurnsAreApart
    <3> QED BY <2>3, <3>1, <3>2
  <2> QED BY <2>1, <2>2, <2>3 DEF BridgeIInv, TurnsAreApart
<1>6. Bridge!TurnsDoNotMix'
  BY DEF BridgeIInv, Bridge!TurnsDoNotMix, Told
<1>7. OfItsTurn(accumulator'[t], actorOf'[t], inBridge'[t], said')
  BY <1>3 DEF OfItsTurn
<1> QED BY <1>2, <1>3, <1>4, <1>5, <1>6, <1>7, BridgeStepKeeps

LEMMA BridgeTurnEnds ==
    ASSUME BridgeIInv, NEW t \in BridgeThreads, Bridge!TurnEnd(t) PROVE BridgeIInv'
<1>1. PICK n : n = inBridge[t]
  OBVIOUS
<1>2. PICK way : way = IF routeOf[t].kind = "none" THEN [kind |-> "derived", origin |-> 0]
                       ELSE routeOf[t]
  OBVIOUS
<1>3. PICK c : c = [turn |-> n, thread |-> t, text |-> accumulator[t], replyTo |-> way.origin,
                    as |-> actorOf[t]]
  OBVIOUS
<1>4. /\ n # 0
      /\ inBridge' = [inBridge EXCEPT ![t] = 0]
      /\ accumulator' = [accumulator EXCEPT ![t] = <<>>]
      /\ actorOf' = [actorOf EXCEPT ![t] = 0] /\ explicitIn' = explicitIn \ {t}
      /\ UNCHANGED <<begun, inbound, said>>
  BY <1>1 DEF Bridge!TurnEnd
<1>5. CASE accumulator[t] # <<>> /\ t \notin explicitIn
  <2>1. /\ sends' = sends \cup {c} /\ routeOf' = [routeOf EXCEPT ![t] = way]
        /\ outcome' = [outcome EXCEPT ![n] = "due"]
    BY <1>1, <1>2, <1>3, <1>5 DEF Bridge!TurnEnd
  <2>2. /\ routeOf \in [BridgeThreads -> Bridge!Routes] /\ Routed(t, routeOf[t], n)
        /\ OfItsTurn(accumulator[t], actorOf[t], n, said)
        /\ n \in Bridge!TurnIds /\ actorOf[t] \in 0 .. BridgeTurns
        /\ accumulator[t] \in Seq(Bridge!TurnIds)
    BY <1>1, <1>4, BridgeBounds DEF BridgeIInv, Bridge!TypeOK
  <2>3. Bridge!GetOrDerive(t)
    BY <1>2, <2>1, <2>2 DEF Bridge!GetOrDerive
  <2>4. way.origin \in 0 .. BridgeTurns /\ (way.origin = 0 <=> t \in JobThreads)
    <3>1. CASE routeOf[t].kind = "none"
      BY <1>2, <1>4, <2>2, <3>1, BridgeBounds DEF Routed
    <3>2. CASE routeOf[t].kind # "none"
      BY <1>2, <1>4, <2>2, <3>2, BridgeBounds DEF Routed, Bridge!Routes
    <3> QED BY <3>1, <3>2
  <2>5. /\ accumulator[t] = Told(said[n], n) /\ actorOf[t] = n
    BY <1>4, <1>5, <2>2 DEF OfItsTurn
  <2>6. {c} \in SUBSET Bridge!BridgeSends
    BY <1>3, <2>2, <2>4 DEF Bridge!BridgeSends
  <2>7. \A d \in {c} : /\ d.turn = inBridge[t] /\ d.text = Told(said[d.turn], d.turn)
                       /\ d.as = d.turn /\ (d.replyTo = 0 <=> d.thread \in JobThreads)
    BY <1>1, <1>3, <2>4, <2>5
  <2>8. "due" \in Bridge!Outcomes
    BY DEF Bridge!Outcomes
  <2>9. TurnOver(t, "due", {c})
    BY <1>1, <1>4, <2>1, <2>3, <2>7 DEF TurnOver
  <2> QED BY <2>6, <2>8, <2>9, BridgeTurnOver
<1>6. CASE ~(accumulator[t] # <<>> /\ t \notin explicitIn)
  <2>1. PICK what : what = IF t \in explicitIn THEN "explicit" ELSE "dropped"
    OBVIOUS
  <2>2. /\ sends' = sends /\ routeOf' = Bridge!EvictDerived(t)
        /\ outcome' = [outcome EXCEPT ![n] = what] /\ what \in Bridge!Outcomes
    BY <1>1, <1>6, <2>1 DEF Bridge!TurnEnd, Bridge!Outcomes
  <2>3. TurnOver(t, what, {})
    BY <1>1, <1>4, <2>2 DEF TurnOver
  <2> QED BY <2>2, <2>3, BridgeTurnOver
<1> QED BY <1>5, <1>6

LEMMA BridgeErrs ==
    ASSUME BridgeIInv, NEW t \in BridgeThreads, Bridge!ChatError(t) PROVE BridgeIInv'
<1>1. TurnOver(t, "dropped", {}) /\ "dropped" \in Bridge!Outcomes
  BY DEF Bridge!ChatError, Bridge!Outcomes, TurnOver
<1> QED BY <1>1, BridgeTurnOver

LEMMA BridgeReturns ==
    ASSUME BridgeIInv, NEW c \in sends, NEW ok \in BOOLEAN, Bridge!SendReturns(c, ok)
    PROVE  BridgeIInv'
<1>1. PICK t : t = c.thread
  OBVIOUS
<1>2. c.turn \in Bridge!TurnIds /\ t \in BridgeThreads
  BY <1>1 DEF BridgeIInv, Bridge!TypeOK, Bridge!BridgeSends
<1>3. PICK what : what = IF ok THEN "succeeded" ELSE "failed"
  OBVIOUS
<1>4. /\ sends' = sends \ {c} /\ routeOf' = Bridge!EvictDerived(t)
      /\ outcome' = [outcome EXCEPT ![c.turn] = what] /\ what \in Bridge!Outcomes
      /\ UNCHANGED <<accumulator, actorOf, explicitIn, inBridge, begun, inbound, said>>
  BY <1>1, <1>3 DEF Bridge!SendReturns, Bridge!Outcomes
<1>5. /\ routeOf' \in [BridgeThreads -> Bridge!Routes]
      /\ Routed(t, routeOf'[t], inBridge[t])
      /\ \A u \in BridgeThreads \ {t} : routeOf'[u] = routeOf[u]
  BY <1>2, <1>4, RouteServes
<1>6. Bridge!TypeOK'
  BY <1>2, <1>4, <1>5 DEF BridgeIInv, Bridge!TypeOK
<1>7. TurnsAreApart' /\ Bridge!TurnsDoNotMix'
  BY <1>4 DEF BridgeIInv, TurnsAreApart, Bridge!TurnsDoNotMix
<1>8. OfItsTurn(accumulator'[t], actorOf'[t], inBridge'[t], said')
  BY <1>2, <1>4 DEF BridgeIInv
<1> QED BY <1>2, <1>4, <1>5, <1>6, <1>7, <1>8, BridgeStepKeeps

LEMMA BridgeNext == BridgeIInv /\ [Bridge!Next]_(Bridge!bridgeVars) => BridgeIInv'
<1> SUFFICES ASSUME BridgeIInv, [Bridge!Next]_(Bridge!bridgeVars) PROVE BridgeIInv'
  OBVIOUS
<1>1. CASE UNCHANGED Bridge!bridgeVars
  BY <1>1 DEF BridgeIInv, TurnsAreApart, Bridge!TypeOK, Bridge!TurnsDoNotMix, Bridge!bridgeVars
<1>2. CASE Bridge!Next
  BY <1>2, BridgeMessage, BridgeBegins, BridgeSays, BridgeExplicit, BridgeTurnEnds, BridgeErrs,
     BridgeReturns DEF Bridge!Next
<1> QED BY <1>1, <1>2

----------------------------------------------------------------------------
(* The stream of Slack *)

LEMMA ExtensionsRunStream ==
    ExtensionSpec => Slack!Init /\ [][Slack!Next]_(Slack!slackStreamVars)
<1>1. ExtensionInit => Slack!Init
  BY DEF ExtensionInit
<1>2. [ExtensionNext]_extensionVars => [Slack!Next]_(Slack!slackStreamVars)
  BY DEF ExtensionNext, extensionVars, SlackStep, HostStep, DiscordStep, TelegramStep,
         ReplyStep, BridgeStep, StreamStep, InboxStep, streamVars, Slack!slackStreamVars,
         Slack!historyVars
<1> QED BY <1>1, <1>2, PTL DEF ExtensionSpec

StreamText == Seq(Slack!StreamPieces)

LEMMA StreamBounds ==
    /\ StreamCalls \in Nat /\ ChunkOf \in Nat \ {0} /\ ChunkCap \in Nat \ {0}
    /\ Slack!Texts \subseteq StreamText /\ <<>> \in Slack!Texts /\ <<>> \in StreamText
<1>1. <<>> \in StreamText
  BY DEF StreamText
<1> QED BY <1>1, PartsAssumption DEF Slack!SlackStreamAssumption, Slack!Texts, StreamText

\* t ends with s, position by position.
Ends(s, t) == Len(s) <= Len(t) /\ \A i \in 1 .. Len(s) : t[Len(t) - Len(s) + i] = s[i]

LEMMA EndsIsSuffix ==
    ASSUME NEW s \in StreamText, NEW t \in StreamText, Ends(s, t) PROVE Slack!IsSuffix(s, t)
<1>1. PICK l : l = Len(s)
  OBVIOUS
<1>2. PICK k : k = Len(t)
  OBVIOUS
<1>3. l \in Nat /\ k \in Nat /\ l <= k /\ \A i \in 1 .. l : t[k - l + i] = s[i]
  BY <1>1, <1>2 DEF Ends, StreamText
<1>4. PICK rs : rs = [i \in 1 .. l |-> s[(l - i) + 1]]
  OBVIOUS
<1>5. PICK rt : rt = [i \in 1 .. k |-> t[(k - i) + 1]]
  OBVIOUS
<1>6. Slack!Reverse(s) = rs /\ Slack!Reverse(t) = rt
  BY <1>1, <1>2, <1>4, <1>5 DEF Slack!Reverse
<1>7. /\ \A i \in 1 .. l : s[i] \in Slack!StreamPieces
      /\ \A i \in 1 .. k : t[i] \in Slack!StreamPieces
  BY <1>1, <1>2 DEF StreamText
<1>8. rs \in StreamText /\ Len(rs) = l /\ rt \in StreamText /\ Len(rt) = k
  <2>1. \A i \in 1 .. l : (l - i) + 1 \in 1 .. l
    BY <1>3
  <2>2. \A i \in 1 .. k : (k - i) + 1 \in 1 .. k
    BY <1>3
  <2>3. rs \in [1 .. l -> Slack!StreamPieces] /\ rt \in [1 .. k -> Slack!StreamPieces]
    BY <1>4, <1>5, <1>7, <2>1, <2>2
  <2> QED BY <1>3, <2>3 DEF StreamText
<1>9. \A i \in 1 .. l : rs[i] = rt[i]
  <2> SUFFICES ASSUME NEW i \in 1 .. l PROVE rs[i] = rt[i]
    OBVIOUS
  <2>1. PICK j : j = (l - i) + 1
    OBVIOUS
  <2>2. j \in 1 .. l /\ (k - i) + 1 = k - l + j /\ i \in 1 .. k
    BY <1>3, <2>1
  <2> QED BY <1>3, <1>4, <1>5, <2>1, <2>2
<1>10. PICK a : a = SubSeq(rs, 1, l)
  OBVIOUS
<1>11. PICK b : b = SubSeq(rt, 1, l)
  OBVIOUS
<1>12. a \in Seq(Slack!StreamPieces) /\ Len(a) = l /\ \A i \in 1 .. l : a[i] = rs[i]
  <2>1. \A i \in 1 .. l : rs[i] \in Slack!StreamPieces
    BY <1>8 DEF StreamText
  <2> QED BY <1>3, <1>10, <2>1, SubSeqProperties
<1>13. b \in Seq(Slack!StreamPieces) /\ Len(b) = l /\ \A i \in 1 .. l : b[i] = rt[i]
  <2>1. \A i \in 1 .. l : rt[i] \in Slack!StreamPieces
    BY <1>3, <1>8 DEF StreamText
  <2> QED BY <1>3, <1>11, <2>1, SubSeqProperties
<1>14. a = b
  BY <1>9, <1>12, <1>13, SeqEqual
<1> QED BY <1>3, <1>6, <1>8, <1>10, <1>11, <1>14 DEF Slack!IsSuffix, Slack!IsPrefix

LEMMA EndsAppended ==
    ASSUME NEW a \in StreamText, NEW s \in StreamText
    PROVE  a \o s \in StreamText /\ Ends(s, a \o s)
<1>1. PICK t : t = a \o s
  OBVIOUS
<1>2. Len(a) \in Nat /\ Len(s) \in Nat
  BY DEF StreamText
<1>3. /\ t \in StreamText /\ Len(t) = Len(a) + Len(s)
      /\ \A i \in 1 .. Len(a) + Len(s) : t[i] = IF i <= Len(a) THEN a[i] ELSE s[i - Len(a)]
  BY <1>1, ConcatProperties DEF StreamText
<1>4. ASSUME NEW i \in 1 .. Len(s) PROVE t[Len(t) - Len(s) + i] = s[i]
  <2>1. PICK j : j = Len(a) + i
    OBVIOUS
  <2>2. j \in 1 .. Len(a) + Len(s) /\ ~(j <= Len(a)) /\ j - Len(a) = i /\ j = Len(t) - Len(s) + i
    BY <1>2, <1>3, <2>1
  <2> QED BY <1>3, <2>2
<1> QED BY <1>1, <1>2, <1>3, <1>4 DEF Ends

LEMMA EndsExtended ==
    ASSUME NEW s \in StreamText, NEW t \in StreamText, NEW d \in StreamText, Ends(s, t)
    PROVE  Ends(s \o d, t \o d)
<1>1. PICK sd : sd = s \o d
  OBVIOUS
<1>2. PICK td : td = t \o d
  OBVIOUS
<1>3. PICK l : l = Len(s)
  OBVIOUS
<1>4. PICK k : k = Len(t)
  OBVIOUS
<1>5. PICK e : e = Len(d)
  OBVIOUS
<1>6. /\ l \in Nat /\ k \in Nat /\ e \in Nat
      /\ l <= k /\ \A i \in 1 .. l : t[k - l + i] = s[i]
  <2>1. l \in Nat /\ k \in Nat /\ e \in Nat
    BY <1>3, <1>4, <1>5, LenProperties DEF StreamText
  <2> QED BY <1>3, <1>4, <2>1 DEF Ends
<1>7. Len(sd) = l + e /\ \A i \in 1 .. l + e : sd[i] = IF i <= l THEN s[i] ELSE d[i - l]
  BY <1>1, <1>3, <1>5, ConcatProperties DEF StreamText
<1>8. Len(td) = k + e /\ \A i \in 1 .. k + e : td[i] = IF i <= k THEN t[i] ELSE d[i - k]
  BY <1>2, <1>4, <1>5, ConcatProperties DEF StreamText
<1>9. ASSUME NEW i \in 1 .. l + e PROVE td[(k + e) - (l + e) + i] = sd[i]
  <2>1. PICK j : j = (k + e) - (l + e) + i
    OBVIOUS
  <2>2. j \in 1 .. k + e /\ j = k - l + i /\ (i <= l <=> j <= k) /\ j - k = i - l
    BY <1>6, <2>1
  <2>3. CASE i <= l
    <3>1. i \in 1 .. l
      BY <1>6, <2>3
    <3> QED BY <1>6, <1>7, <1>8, <2>1, <2>2, <2>3, <3>1
  <2>4. CASE ~(i <= l)
    BY <1>7, <1>8, <2>1, <2>2, <2>4
  <2> QED BY <2>3, <2>4
<1> QED BY <1>1, <1>2, <1>6, <1>7, <1>8, <1>9 DEF Ends

\* What is new of a text completes the last one.
LEMMA DeltaCompletes ==
    ASSUME NEW s \in StreamText, NEW text \in StreamText, Slack!IsPrefix(s, text)
    PROVE  /\ SubSeq(text, Len(s) + 1, Len(text)) \in StreamText
           /\ s \o SubSeq(text, Len(s) + 1, Len(text)) = text
<1>1. PICK l : l = Len(s)
  OBVIOUS
<1>2. PICK k : k = Len(text)
  OBVIOUS
<1>3. /\ l \in Nat /\ k \in Nat /\ l <= k
      /\ \A i \in 1 .. l : s[i] \in Slack!StreamPieces
      /\ \A i \in 1 .. k : text[i] \in Slack!StreamPieces
  BY <1>1, <1>2 DEF StreamText, Slack!IsPrefix
<1>4. \A i \in 1 .. l : s[i] = text[i]
  <2>1. PICK a : a = SubSeq(s, 1, l)
    OBVIOUS
  <2>2. PICK b : b = SubSeq(text, 1, l)
    OBVIOUS
  <2>3. \A i \in 1 .. l : a[i] = s[i]
    BY <1>3, <2>1, SubSeqProperties
  <2>4. \A i \in 1 .. l : b[i] = text[i]
    <3>1. \A i \in 1 .. l : text[i] \in Slack!StreamPieces
      BY <1>3
    <3> QED BY <1>3, <2>2, <3>1, SubSeqProperties
  <2>5. a = b
    BY <1>1, <2>1, <2>2 DEF Slack!IsPrefix
  <2> QED BY <2>3, <2>4, <2>5
<1>5. PICK d : d = SubSeq(text, l + 1, k)
  OBVIOUS
<1>6. d \in StreamText /\ Len(d) = k - l /\ \A i \in 1 .. k - l : d[i] = text[l + i]
  <2>1. \A i \in l + 1 .. k : text[i] \in Slack!StreamPieces
    BY <1>3
  <2>2. /\ d \in Seq(Slack!StreamPieces) /\ Len(d) = IF l + 1 <= k THEN k - (l + 1) + 1 ELSE 0
        /\ \A i \in 1 .. k - (l + 1) + 1 : d[i] = text[l + 1 + i - 1]
    BY <1>3, <1>5, <2>1, SubSeqProperties
  <2> QED BY <1>3, <2>2 DEF StreamText
<1>7. PICK sd : sd = s \o d
  OBVIOUS
<1>8. /\ sd \in Seq(Slack!StreamPieces) /\ Len(sd) = l + (k - l)
      /\ \A i \in 1 .. l + (k - l) : sd[i] = IF i <= l THEN s[i] ELSE d[i - l]
  <2>1. s \in Seq(Slack!StreamPieces) /\ d \in Seq(Slack!StreamPieces)
    BY <1>6 DEF StreamText
  <2>2. /\ sd \in Seq(Slack!StreamPieces) /\ Len(sd) = Len(s) + Len(d)
        /\ \A i \in 1 .. Len(s) + Len(d) : sd[i] = IF i <= Len(s) THEN s[i] ELSE d[i - Len(s)]
    BY <1>7, <2>1, ConcatProperties
  <2>3. Len(s) = l /\ Len(d) = k - l
    BY <1>1, <1>6
  <2> QED BY <2>2, <2>3
<1>9. Len(sd) = k /\ \A i \in 1 .. k : sd[i] = text[i]
  <2>1. l + (k - l) = k
    BY <1>3
  <2>2. ASSUME NEW i \in 1 .. k, ~(i <= l) PROVE d[i - l] = text[i]
    <3>1. i - l \in 1 .. k - l /\ l + (i - l) = i
      BY <1>3, <2>2
    <3> QED BY <1>6, <3>1
  <2>3. \A i \in 1 .. k : i <= l => i \in 1 .. l
    BY <1>3
  <2> QED BY <1>4, <1>8, <2>1, <2>2, <2>3
<1>10. sd = text
  BY <1>2, <1>8, <1>9, SeqEqual DEF StreamText
<1> QED BY <1>1, <1>2, <1>5, <1>6, <1>7, <1>10

\* The new piece of a text brings a reply that ended with the last text up
\* to it.
LEMMA DeltaAppended ==
    ASSUME NEW s, s.last \in StreamText, NEW text \in StreamText, NEW t \in StreamText,
           NEW d, d = Slack!DeltaOf(s, text), Ends(s.last, t)
    PROVE  /\ d \in StreamText /\ t \o d \in StreamText /\ Ends(text, t \o d)
           /\ t = s.last /\ Slack!IsPrefix(s.last, text) => t \o d = text
           /\ d = <<>> => Ends(text, t)
           /\ d = <<>> /\ t = s.last /\ Slack!IsPrefix(s.last, text) => t = text
<1>1. CASE Slack!IsPrefix(s.last, text)
  <2>1. d \in StreamText /\ s.last \o d = text
    BY <1>1, DeltaCompletes DEF Slack!DeltaOf
  <2>2. PICK last \in StreamText : last = s.last
    OBVIOUS
  <2>4. last \o d = text /\ Ends(last, t)
    BY <2>1, <2>2
  <2>5. Ends(last \o d, t \o d)
    BY <2>1, <2>4, EndsExtended
  <2>6. Ends(text, t \o d) /\ t \o d \in StreamText
    BY <2>1, <2>4, <2>5, EndsAppended
  <2>3. d = <<>> => t \o d = t
    BY ConcatEmptySeq DEF StreamText
  <2> QED BY <2>1, <2>3, <2>6
<1>2. CASE ~Slack!IsPrefix(s.last, text)
  <2>1. d = text
    BY <1>2 DEF Slack!DeltaOf
  <2>2. Ends(text, t \o d) /\ t \o d \in StreamText
    BY <2>1, EndsAppended
  <2>3. d = <<>> => t \o d = t
    BY ConcatEmptySeq DEF StreamText
  <2> QED BY <1>2, <2>1, <2>2, <2>3
<1> QED BY <1>1, <1>2

LEMMA ChunksOfText ==
    ASSUME NEW text \in StreamText, NEW n \in Nat
    PROVE  /\ Slack!FirstChunks(text, n) \in StreamText
           /\ Len(text) <= n * ChunkOf => Slack!FirstChunks(text, n) = text
<1>1. PICK l : l = Len(text)
  OBVIOUS
<1>2. l \in Nat /\ \A i \in 1 .. l : text[i] \in Slack!StreamPieces
  BY <1>1 DEF StreamText
<1>3. PICK c : c = n * ChunkOf
  OBVIOUS
<1>4. c \in Nat
  BY <1>3, StreamBounds
<1>5. PICK k : k = IF c < l THEN c ELSE l
  OBVIOUS
<1>6. k \in Nat /\ k <= l /\ (l <= c => k = l)
  BY <1>2, <1>4, <1>5
<1>7. PICK r : r = SubSeq(text, 1, k)
  OBVIOUS
<1>8. r \in Seq(Slack!StreamPieces) /\ Len(r) = k /\ \A i \in 1 .. k : r[i] = text[i]
  <2>1. \A i \in 1 .. k : text[i] \in Slack!StreamPieces
    BY <1>2, <1>6
  <2> QED BY <1>6, <1>7, <2>1, SubSeqProperties
<1>9. Slack!FirstChunks(text, n) = r
  BY <1>1, <1>3, <1>5, <1>7 DEF Slack!FirstChunks
<1>10. k = l => r = text
  BY <1>1, <1>8, SeqEqual DEF StreamText
<1> QED BY <1>1, <1>3, <1>6, <1>8, <1>9, <1>10 DEF StreamText

\* Division, once and for all.
LEMMA ChunksCover ==
    ASSUME NEW l \in Nat, NEW c \in Nat \ {0}, NEW q, q = (l + c - 1) \div c
    PROVE  q \in Nat /\ l <= q * c
<1>1. PICK a : a = l + c - 1
  OBVIOUS
<1>2. a \in Nat /\ a - (c - 1) = l
  BY <1>1
<1>3. q \in Nat /\ a < (q + 1) * c
  BY <1>1, <1>2, SMTT(30)
<1>4. (q + 1) * c = q * c + c /\ q * c \in Nat
  BY <1>3
<1> QED BY <1>2, <1>3, <1>4

LEMMA TimesGrow ==
    ASSUME NEW m \in Nat, NEW n \in Nat, m <= n, NEW c \in Nat PROVE m * c <= n * c
OBVIOUS

LEMMA AllChunks ==
    ASSUME NEW text \in StreamText
    PROVE  /\ Slack!Chunks(text) \in Nat
           /\ Len(text) <= ChunkCap * ChunkOf =>
                  \A n \in Nat : n >= Slack!Chunks(text) => Len(text) <= n * ChunkOf
<1>1. PICK l : l = Len(text)
  OBVIOUS
<1>2. PICK q : q = (l + ChunkOf - 1) \div ChunkOf
  OBVIOUS
<1>3. l \in Nat /\ q \in Nat /\ l <= q * ChunkOf
  <2>1. l \in Nat
    BY <1>1, LenProperties DEF StreamText
  <2>2. PICK k \in Nat \ {0} : k = ChunkOf
    BY StreamBounds
  <2>3. q \in Nat /\ l <= q * k
    BY <1>2, <2>1, <2>2, ChunksCover
  <2> QED BY <2>1, <2>2, <2>3
<1>4. PICK c : c = Slack!Chunks(text)
  OBVIOUS
<1>5. c \in {q, ChunkCap} /\ c \in Nat
  BY <1>1, <1>2, <1>3, <1>4, StreamBounds DEF Slack!Chunks
<1>6. l <= ChunkCap * ChunkOf => l <= c * ChunkOf
  BY <1>3, <1>5
<1>7. ASSUME NEW n \in Nat, n >= c PROVE c * ChunkOf <= n * ChunkOf
  BY <1>5, <1>7, TimesGrow, StreamBounds
<1>8. \A n \in Nat : c * ChunkOf \in Nat /\ n * ChunkOf \in Nat
  BY <1>5, StreamBounds
<1> QED BY <1>1, <1>3, <1>4, <1>5, <1>6, <1>7, <1>8

----------------------------------------------------------------------------
\* A native stream has shown what its session says it has.
SessionShown(s, shown, g, u) ==
    /\ s.ts = 0 => shown = <<>> /\ s.last = <<>>
    /\ s.tier = "native" /\ ~u => Ends(s.last, shown) /\ (g => shown = s.last)

StreamSessions == [tier : {"none", "native", "edit"}, ts : 0 .. 1, last : Slack!Texts]
StreamPosts == [before : StreamText, now : StreamText]

StreamIInv ==
    /\ Slack!TypeOK /\ Slack!ReplyIsWhole
    /\ ended # "" => slackStream = Slack!NoStream
    /\ ended = "" => /\ ~tailLost
                     /\ slackStream.tier = "none" => slackStream = Slack!NoStream
                     /\ SessionShown(slackStream, Slack!Shown, grew, unopened)

LEMMA NoStreamIs ==
    /\ Slack!NoStream = [tier |-> "none", ts |-> 0, last |-> <<>>]
    /\ Slack!NoStream \in StreamSessions
BY StreamBounds DEF Slack!NoStream, StreamSessions

LEMMA StreamTypes ==
    ASSUME StreamIInv
    PROVE  /\ slackStream \in StreamSessions /\ posted \in StreamPosts
           /\ Slack!Shown \in StreamText /\ final \in Slack!Texts
           /\ grew \in BOOLEAN /\ unopened \in BOOLEAN /\ tailLost \in BOOLEAN
<1>1. slackStream \in StreamSessions /\ posted \in StreamPosts
  BY DEF StreamIInv, Slack!TypeOK, StreamSessions, StreamPosts, StreamText
<1>2. posted.before \in StreamText /\ posted.now \in StreamText
  BY <1>1 DEF StreamPosts
<1>3. posted.before \o posted.now \in StreamText
  BY <1>2, EndsAppended
<1> QED BY <1>1, <1>3 DEF Slack!Shown, StreamIInv, Slack!TypeOK

LEMMA StreamHolds == StreamIInv => Slack!TypeOK /\ Slack!ReplyIsWhole
BY DEF StreamIInv

LEMMA StreamInit == Slack!Init => StreamIInv
<1> SUFFICES ASSUME Slack!Init PROVE StreamIInv
  OBVIOUS
<1>1. posted = [before |-> <<>>, now |-> <<>>] /\ slackStream = [tier |-> "none", ts |-> 0, last |-> <<>>]
  BY DEF Slack!Init, Slack!NothingPosted, Slack!NoStream
<1>2. Slack!TypeOK
  <2>1. slackStream \in StreamSessions /\ posted \in StreamPosts
    BY <1>1, StreamBounds DEF StreamSessions, StreamPosts
  <2>2. 0 \in 0 .. StreamCalls
    BY StreamBounds
  <2> QED BY <2>1, <2>2, StreamBounds
          DEF Slack!Init, Slack!TypeOK, StreamSessions, StreamPosts, StreamText
<1>3. Slack!Shown = <<>>
  <2>1. <<>> \o <<>> = <<>>
    BY ConcatEmptySeq, StreamBounds DEF StreamText
  <2> QED BY <1>1, <2>1 DEF Slack!Shown
<1>4. SessionShown(slackStream, Slack!Shown, grew, unopened)
  BY <1>1, <1>3 DEF SessionShown
<1> QED BY <1>2, <1>4 DEF Slack!Init, StreamIInv, Slack!ReplyIsWhole

LEMMA MadeOne == ASSUME StreamIInv, Slack!Made PROVE made' \in 0 .. StreamCalls
<1>1. PICK n : n = made
  OBVIOUS
<1>2. PICK most \in Nat : most = StreamCalls
  BY StreamBounds
<1>3. n \in 0 .. most /\ n < most
  BY <1>1, <1>2 DEF Slack!Made, StreamIInv, Slack!TypeOK
<1>4. n + 1 \in 0 .. most
  BY <1>3
<1> QED BY <1>1, <1>2, <1>4 DEF Slack!Made

\* What is left to show while the reply grows, and when it ends.
LEMMA StreamGoesOn ==
    ASSUME StreamIInv, ended = "", Slack!Made, UNCHANGED <<ended, final, tailLost>>,
           slackStream' \in StreamSessions, slackStream'.tier # "none", posted' \in StreamPosts,
           suspended' \in BOOLEAN, throttled' \in BOOLEAN, grew' \in BOOLEAN, unopened' \in BOOLEAN,
           SessionShown(slackStream', Slack!Shown', grew', unopened')
    PROVE  StreamIInv'
<1>1. made' \in 0 .. StreamCalls
  BY MadeOne
<1>2. Slack!TypeOK'
  BY <1>1 DEF StreamIInv, Slack!TypeOK, StreamSessions, StreamPosts, StreamText
<1>3. Slack!ReplyIsWhole'
  BY DEF Slack!ReplyIsWhole
<1> QED BY <1>2, <1>3 DEF StreamIInv

LEMMA StreamIsOver ==
    ASSUME StreamIInv, Slack!Made, slackStream' = Slack!NoStream,
           ended' \in {"streamed", "sent", "failed", "cancelled"}, final' \in Slack!Texts,
           posted' \in StreamPosts, UNCHANGED <<suspended, throttled, unopened>>,
           grew' \in BOOLEAN, tailLost' \in BOOLEAN,
           ended' = "streamed" /\ ~tailLost' /\ ~unopened =>
               Ends(final', Slack!Shown') /\ (grew' => Slack!Shown' = final'),
           ended' = "sent" /\ Len(final') <= ChunkCap * ChunkOf => Ends(final', Slack!Shown')
    PROVE  StreamIInv'
<1>1. made' \in 0 .. StreamCalls
  BY MadeOne
<1>2. Slack!TypeOK'
  BY <1>1, NoStreamIs DEF StreamIInv, Slack!TypeOK, StreamSessions, StreamPosts, StreamText
<1>3. Slack!Shown' \in StreamText /\ final' \in StreamText
  <2>1. posted'.before \in StreamText /\ posted'.now \in StreamText
    BY DEF StreamPosts
  <2>2. posted'.before \o posted'.now \in StreamText
    BY <2>1, EndsAppended
  <2> QED BY <2>2, StreamBounds DEF Slack!Shown
<1>4. Ends(final', Slack!Shown') => Slack!IsSuffix(final', Slack!Shown')
  BY <1>3, EndsIsSuffix
<1>5. Slack!ReplyIsWhole'
  BY <1>4 DEF Slack!ReplyIsWhole
<1> QED BY <1>2, <1>5 DEF StreamIInv

LEMMA NewSession ==
    ASSUME NEW level \in {"native", "edit"}, NEW s, s = [tier |-> level, ts |-> 0, last |-> <<>>]
    PROVE  s.tier = level /\ s.ts = 0 /\ s.last = <<>> /\ s \in StreamSessions
BY StreamBounds DEF StreamSessions

\* The session of a call.
LEMMA SessionOfCall ==
    ASSUME StreamIInv, ended = "", NEW canNative \in BOOLEAN, NEW s, s = Slack!GetStream(canNative)
    PROVE  /\ s \in StreamSessions /\ s.tier # "none"
           /\ SessionShown(s, Slack!Shown, grew, unopened)
<1>1. CASE slackStream.tier # "none"
  BY <1>1, StreamTypes DEF Slack!GetStream, StreamIInv
<1>2. CASE slackStream.tier = "none"
  <2>1. slackStream = [tier |-> "none", ts |-> 0, last |-> <<>>]
    BY <1>2, NoStreamIs DEF StreamIInv
  <2>2. s = [tier |-> IF canNative THEN "native" ELSE "edit", ts |-> 0, last |-> <<>>]
    BY <1>2 DEF Slack!GetStream, Slack!NoStream
  <2>3. Slack!Shown = <<>>
    BY <2>1 DEF StreamIInv, SessionShown
  <2>4. Ends(<<>>, <<>>)
    <3>1. PICK e \in StreamText : e = <<>>
      BY StreamBounds
    <3>2. e \o e = e /\ Ends(e, e \o e)
      BY EndsAppended, ConcatEmptySeq, <3>1 DEF StreamText
    <3> QED BY <3>1, <3>2
  <2>5. /\ s.tier \in {"native", "edit"} /\ s.ts = 0 /\ s.last = <<>>
        /\ s \in StreamSessions
    <3>1. PICK level : level = IF canNative THEN "native" ELSE "edit"
      OBVIOUS
    <3>2. s = [tier |-> level, ts |-> 0, last |-> <<>>] /\ level \in {"native", "edit"}
      BY <2>2, <3>1
    <3> QED BY <3>2, NewSession
  <2> QED BY <2>3, <2>4, <2>5 DEF SessionShown
<1> QED BY <1>1, <1>2

LEMMA PostsExtended ==
    ASSUME StreamIInv, NEW d \in StreamText, posted' = [posted EXCEPT !.now = posted.now \o d]
    PROVE  posted' \in StreamPosts /\ Slack!Shown' = Slack!Shown \o d
<1>1. posted.before \in StreamText /\ posted.now \in StreamText /\ posted \in StreamPosts
  BY StreamTypes DEF StreamPosts
<1>2. PICK e : e = posted.now \o d
  OBVIOUS
<1>3. e \in StreamText /\ posted' = [posted EXCEPT !.now = e]
  BY <1>1, <1>2, EndsAppended
<1>4. posted' \in StreamPosts /\ posted'.before = posted.before /\ posted'.now = e
  BY <1>1, <1>3 DEF StreamPosts
<1>5. (posted.before \o posted.now) \o d = posted.before \o e
  <2>1. PICK a \in Seq(Slack!StreamPieces) : a = posted.before
    BY <1>1 DEF StreamText
  <2>2. PICK b \in Seq(Slack!StreamPieces) : b = posted.now
    BY <1>1 DEF StreamText
  <2>3. PICK c \in Seq(Slack!StreamPieces) : c = d
    BY DEF StreamText
  <2>4. (a \o b) \o c = a \o (b \o c)
    BY ConcatAssociative
  <2> QED BY <1>2, <2>1, <2>2, <2>3, <2>4
<1> QED BY <1>4, <1>5 DEF Slack!Shown

LEMMA StreamStarts ==
    ASSUME StreamIInv, NEW canNative \in BOOLEAN, NEW ok \in BOOLEAN, Slack!Start(canNative, ok)
    PROVE  StreamIInv'
<1>1. PICK s : s = Slack!GetStream(canNative)
  OBVIOUS
<1>2. /\ ended = "" /\ Slack!Made
      /\ UNCHANGED <<suspended, throttled, ended, final, grew, unopened, tailLost>>
      /\ \/ /\ s.tier = "native" /\ posted' = Slack!Posting(<<>>)
            /\ slackStream' = [s EXCEPT !.ts = 1]
         \/ /\ s.tier = "native" /\ UNCHANGED posted
            /\ slackStream' = [s EXCEPT !.tier = "edit"]
         \/ s.tier = "edit" /\ UNCHANGED posted /\ slackStream' = s
  BY <1>1 DEF Slack!Start, Slack!historyVars
<1>3. /\ s \in StreamSessions /\ s.tier # "none" /\ SessionShown(s, Slack!Shown, grew, unopened)
      /\ Slack!Shown \in StreamText /\ posted \in StreamPosts
      /\ suspended \in BOOLEAN /\ throttled \in BOOLEAN /\ grew \in BOOLEAN /\ unopened \in BOOLEAN
  BY <1>1, <1>2, SessionOfCall, StreamTypes DEF StreamIInv, Slack!TypeOK
<1>4. CASE s.tier = "native" /\ posted' = Slack!Posting(<<>>) /\ slackStream' = [s EXCEPT !.ts = 1]
  <2>1. posted' = [before |-> Slack!Shown, now |-> <<>>]
    BY <1>4 DEF Slack!Posting
  <2>2. Slack!Shown \o <<>> = Slack!Shown
    BY <1>3, ConcatEmptySeq DEF StreamText
  <2>3. posted' \in StreamPosts /\ Slack!Shown' = Slack!Shown
    BY <1>3, <2>1, <2>2, StreamBounds DEF StreamPosts, Slack!Shown
  <2>4. /\ slackStream' \in StreamSessions /\ slackStream'.tier = "native"
        /\ slackStream'.ts = 1 /\ slackStream'.last = s.last
    BY <1>3, <1>4 DEF StreamSessions
  <2>5. SessionShown(slackStream', Slack!Shown', grew, unopened)
    BY <1>3, <1>4, <2>3, <2>4 DEF SessionShown
  <2> QED BY <1>2, <1>3, <2>3, <2>4, <2>5, StreamGoesOn
<1>5. CASE UNCHANGED posted /\ slackStream' \in {s, [s EXCEPT !.tier = "edit"]}
  <2>1. Slack!Shown' = Slack!Shown
    BY <1>5 DEF Slack!Shown
  <2>2. /\ slackStream' \in StreamSessions /\ slackStream'.tier # "none"
        /\ slackStream'.ts = s.ts /\ slackStream'.last = s.last
        /\ slackStream'.tier = "native" => s.tier = "native"
    BY <1>3, <1>5 DEF StreamSessions
  <2>3. SessionShown(slackStream', Slack!Shown', grew, unopened)
    BY <1>3, <2>1, <2>2 DEF SessionShown
  <2> QED BY <1>2, <1>3, <1>5, <2>2, <2>3, StreamGoesOn
<1> QED BY <1>2, <1>4, <1>5

LEMMA StreamUpdates ==
    ASSUME StreamIInv, NEW canNative \in BOOLEAN, NEW text \in StreamTexts \ {<<>>},
           NEW ok \in BOOLEAN, NEW limited \in BOOLEAN, Slack!Update(canNative, text, ok, limited)
    PROVE  StreamIInv'
<1>1. PICK s : s = Slack!GetStream(canNative)
  OBVIOUS
<1>2. PICK native : native = (s.tier = "native" /\ s.ts # 0)
  OBVIOUS
<1>3. /\ ended = "" /\ Slack!Made /\ UNCHANGED <<ended, final, tailLost>>
      /\ \/ slackStream' = s /\ UNCHANGED <<posted, suspended, throttled, grew, unopened>>
         \/ slackStream' = s /\ suspended' = limited /\ UNCHANGED <<posted, throttled, grew, unopened>>
         \/ /\ s.tier = "native" /\ s.ts # 0
            /\ posted' = [posted EXCEPT !.now = @ \o Slack!DeltaOf(s, text)]
            /\ slackStream' = [s EXCEPT !.last = text] /\ throttled' = TRUE
            /\ grew' = (grew /\ Slack!IsPrefix(s.last, text))
            /\ UNCHANGED <<suspended, unopened>>
         \/ /\ ~(s.tier = "native" /\ s.ts # 0)
            /\ posted' = [posted EXCEPT !.now = Slack!FirstChunks(text, 1)]
            /\ slackStream' = [s EXCEPT !.ts = 1, !.last = text] /\ throttled' = TRUE
            /\ unopened' = (unopened \/ s.tier = "native")
            /\ UNCHANGED <<suspended, grew>>
  BY <1>1 DEF Slack!Update
<1>4. /\ s \in StreamSessions /\ s.tier # "none" /\ SessionShown(s, Slack!Shown, grew, unopened)
      /\ Slack!Shown \in StreamText /\ posted \in StreamPosts
      /\ suspended \in BOOLEAN /\ throttled \in BOOLEAN /\ grew \in BOOLEAN /\ unopened \in BOOLEAN
      /\ text \in Slack!Texts /\ text \in StreamText /\ s.last \in StreamText
  <2>1. /\ s \in StreamSessions /\ s.tier # "none"
        /\ SessionShown(s, Slack!Shown, grew, unopened)
    BY <1>1, <1>3, SessionOfCall
  <2>2. s.last \in StreamText
    BY <2>1, StreamBounds DEF StreamSessions
  <2>3. text \in Slack!Texts /\ text \in StreamText
    BY StreamBounds DEF Slack!Texts
  <2>4. suspended \in BOOLEAN /\ throttled \in BOOLEAN
    BY DEF StreamIInv, Slack!TypeOK
  <2> QED BY <2>1, <2>2, <2>3, <2>4, StreamTypes
<1>5. CASE slackStream' = s /\ UNCHANGED <<posted, throttled, grew, unopened>>
           /\ suspended' \in {suspended, limited}
  <2>1. Slack!Shown' = Slack!Shown
    BY <1>5 DEF Slack!Shown
  <2> QED BY <1>3, <1>4, <1>5, <2>1, StreamGoesOn
<1>6. CASE /\ s.tier = "native" /\ s.ts # 0
           /\ posted' = [posted EXCEPT !.now = @ \o Slack!DeltaOf(s, text)]
           /\ slackStream' = [s EXCEPT !.last = text] /\ throttled' = TRUE
           /\ grew' = (grew /\ Slack!IsPrefix(s.last, text))
           /\ UNCHANGED <<suspended, unopened>>
  <2>1. PICK d : d = Slack!DeltaOf(s, text)
    OBVIOUS
  <2>2. /\ slackStream' \in StreamSessions /\ slackStream'.tier = "native"
        /\ slackStream'.ts # 0 /\ slackStream'.last = text
    BY <1>4, <1>6 DEF StreamSessions
  <2>3. d \in StreamText
    <3>1. CASE Slack!IsPrefix(s.last, text)
      BY <1>4, <2>1, <3>1, DeltaCompletes DEF Slack!DeltaOf
    <3>2. CASE ~Slack!IsPrefix(s.last, text)
      BY <1>4, <2>1, <3>2 DEF Slack!DeltaOf
    <3> QED BY <3>1, <3>2
  <2>4. posted' \in StreamPosts /\ Slack!Shown' = Slack!Shown \o d
    BY <1>6, <2>1, <2>3, PostsExtended
  <2>5. ~unopened => Ends(s.last, Slack!Shown) /\ (grew => Slack!Shown = s.last)
    BY <1>4, <1>6 DEF SessionShown
  <2>6. ~unopened => /\ Ends(text, Slack!Shown')
                     /\ grew' => Slack!Shown' = text
    BY <1>4, <1>6, <2>1, <2>4, <2>5, DeltaAppended
  <2>7. SessionShown(slackStream', Slack!Shown', grew', unopened')
    BY <1>6, <2>2, <2>6 DEF SessionShown
  <2>8. grew' \in BOOLEAN
    BY <1>6
  <2> QED BY <1>3, <1>4, <1>6, <2>2, <2>4, <2>7, <2>8, StreamGoesOn
<1>7. CASE /\ ~(s.tier = "native" /\ s.ts # 0)
           /\ posted' = [posted EXCEPT !.now = Slack!FirstChunks(text, 1)]
           /\ slackStream' = [s EXCEPT !.ts = 1, !.last = text] /\ throttled' = TRUE
           /\ unopened' = (unopened \/ s.tier = "native")
           /\ UNCHANGED <<suspended, grew>>
  <2>1. Slack!FirstChunks(text, 1) \in StreamText
    BY <1>4, ChunksOfText
  <2>2. posted' \in StreamPosts
    BY <1>4, <1>7, <2>1 DEF StreamPosts
  <2>3. /\ slackStream' \in StreamSessions /\ slackStream'.tier = s.tier /\ slackStream'.ts = 1
    <3>1. slackStream' = [tier |-> s.tier, ts |-> 1, last |-> text]
      BY <1>4, <1>7 DEF StreamSessions
    <3> QED BY <1>4, <3>1 DEF StreamSessions
  <2>4. SessionShown(slackStream', Slack!Shown', grew', unopened')
    <3>1. slackStream'.ts # 0 /\ (slackStream'.tier = "native" => unopened')
      <4>1. slackStream'.ts # 0 /\ slackStream'.tier = s.tier
        BY <2>3
      <4> QED BY <1>7, <4>1
    <3> QED BY <3>1 DEF SessionShown
  <2>5. unopened' \in BOOLEAN
    BY <1>7
  <2> QED BY <1>3, <1>4, <1>7, <2>2, <2>3, <2>4, <2>5, StreamGoesOn
<1> QED BY <1>3, <1>5, <1>6, <1>7

LEMMA StreamSends ==
    ASSUME StreamIInv, NEW text \in StreamTexts, NEW n \in Nat, Slack!Send(text, n)
    PROVE  StreamIInv'
<1>1. text \in StreamText /\ text \in Slack!Texts /\ Slack!Shown \in StreamText
  BY StreamBounds, StreamTypes DEF Slack!Texts
<1>2. PICK c : c = Slack!FirstChunks(text, n)
  OBVIOUS
<1>3. /\ c \in StreamText
      /\ n = Slack!Chunks(text) /\ Len(text) <= ChunkCap * ChunkOf => c = text
  <2>1. c \in StreamText /\ (Len(text) <= n * ChunkOf => c = text)
    BY <1>1, <1>2, ChunksOfText
  <2>2. n = Slack!Chunks(text) => n >= Slack!Chunks(text)
    BY <1>1, AllChunks
  <2> QED BY <1>1, <2>1, <2>2, AllChunks
<1>4. /\ Slack!Made /\ posted' = [before |-> Slack!Shown, now |-> c]
      /\ ended' = (IF n = Slack!Chunks(text) THEN "sent" ELSE "failed")
      /\ final' = text /\ slackStream' = Slack!NoStream
      /\ UNCHANGED <<suspended, throttled, grew, unopened, tailLost>>
  BY <1>2 DEF Slack!Send, Slack!Posting, Slack!historyVars
<1>5. posted' \in StreamPosts /\ Slack!Shown' = Slack!Shown \o c
  BY <1>1, <1>3, <1>4 DEF StreamPosts, Slack!Shown
<1>6. ended' = "sent" /\ Len(final') <= ChunkCap * ChunkOf => Ends(final', Slack!Shown')
  BY <1>1, <1>3, <1>4, <1>5, EndsAppended
<1>7. grew' \in BOOLEAN /\ tailLost' \in BOOLEAN
  BY <1>4, StreamTypes
<1> QED BY <1>1, <1>4, <1>5, <1>6, <1>7, StreamIsOver

LEMMA StreamFinalized ==
    ASSUME StreamIInv, NEW text \in Slack!Texts, NEW ok \in BOOLEAN, Slack!FinalizeNative(text, ok)
    PROVE  StreamIInv'
<1>1. PICK s : s = slackStream
  OBVIOUS
<1>2. PICK d : d = Slack!DeltaOf(s, text)
  OBVIOUS
<1>3. /\ Slack!Made /\ s.tier = "native" /\ s.ts # 0 /\ slackStream' = Slack!NoStream
      /\ ended' = "streamed" /\ final' = text
      /\ posted' = (IF ok THEN [posted EXCEPT !.now = posted.now \o d] ELSE posted)
      /\ tailLost' = (~ok /\ d # <<>>) /\ grew' = (grew /\ Slack!IsPrefix(s.last, text))
      /\ UNCHANGED <<suspended, throttled, unopened>>
  BY <1>1, <1>2 DEF Slack!FinalizeNative
<1>4. /\ s.last \in StreamText /\ text \in StreamText /\ Slack!Shown \in StreamText
      /\ posted \in StreamPosts
  BY <1>1, StreamTypes, StreamBounds DEF StreamSessions
<1>5. d \in StreamText
  <2>1. CASE Slack!IsPrefix(s.last, text)
    BY <1>2, <1>4, <2>1, DeltaCompletes DEF Slack!DeltaOf
  <2>2. CASE ~Slack!IsPrefix(s.last, text)
    BY <1>2, <1>4, <2>2 DEF Slack!DeltaOf
  <2> QED BY <2>1, <2>2
<1>6. ended = ""
  <2>1. slackStream # Slack!NoStream
    BY <1>1, <1>3, NoStreamIs
  <2> QED BY <2>1 DEF StreamIInv
<1>7. ~unopened => Ends(s.last, Slack!Shown) /\ (grew => Slack!Shown = s.last)
  BY <1>1, <1>3, <1>6 DEF StreamIInv, SessionShown
<1>8. grew' \in BOOLEAN /\ tailLost' \in BOOLEAN
  BY <1>3
<1>9. posted' \in StreamPosts /\ Slack!Shown' = IF ok THEN Slack!Shown \o d ELSE Slack!Shown
  <2>1. CASE ok
    BY <1>3, <1>5, <2>1, PostsExtended
  <2>2. CASE ~ok
    BY <1>3, <1>4, <2>2 DEF Slack!Shown
  <2> QED BY <2>1, <2>2
<1>10. ~tailLost' /\ ~unopened =>
           Ends(text, Slack!Shown') /\ (grew' => Slack!Shown' = text)
  <2> SUFFICES ASSUME ~tailLost', ~unopened
               PROVE  Ends(text, Slack!Shown') /\ (grew' => Slack!Shown' = text)
    OBVIOUS
  <2>1. /\ Ends(text, Slack!Shown \o d)
        /\ Slack!Shown = s.last /\ Slack!IsPrefix(s.last, text) => Slack!Shown \o d = text
        /\ d = <<>> => Ends(text, Slack!Shown)
        /\ d = <<>> /\ Slack!Shown = s.last /\ Slack!IsPrefix(s.last, text) => Slack!Shown = text
    BY <1>2, <1>4, <1>7, DeltaAppended
  <2> QED BY <1>3, <1>7, <1>9, <2>1
<1> QED BY <1>3, <1>8, <1>9, <1>10, StreamIsOver

LEMMA EditFinalized ==
    ASSUME StreamIInv, NEW text \in Slack!Texts, NEW edited \in BOOLEAN, NEW n \in Nat, NEW m \in Nat,
           Slack!FinalizeEdit(text, edited, n, m)
    PROVE  StreamIInv'
<1>1. PICK whole : whole = IF text = <<>> THEN slackStream.last ELSE text
  OBVIOUS
<1>2. PICK first : first = Slack!FirstChunks(whole, 1 + n)
  OBVIOUS
<1>3. PICK again : again = Slack!FirstChunks(whole, m)
  OBVIOUS
<1>4. PICK inPlace : inPlace = IF slackStream.ts # 0 /\ edited THEN posted.before \o first
                               ELSE Slack!Shown
  OBVIOUS
<1>5. PICK done \in BOOLEAN : done = (slackStream.ts # 0 /\ edited /\ 1 + n >= Slack!Chunks(whole))
  OBVIOUS
<1>6. /\ Slack!Made /\ slackStream' = Slack!NoStream /\ final' = whole
      /\ posted' = [before |-> inPlace, now |-> IF done THEN <<>> ELSE again]
      /\ ended' = (IF done \/ m = Slack!Chunks(whole) THEN "sent" ELSE "failed")
      /\ UNCHANGED <<suspended, throttled, grew, unopened, tailLost>>
  BY <1>1, <1>2, <1>3, <1>4, <1>5 DEF Slack!FinalizeEdit, Slack!historyVars
<1>7. /\ whole \in Slack!Texts /\ whole \in StreamText
      /\ posted.before \in StreamText /\ Slack!Shown \in StreamText
      /\ grew \in BOOLEAN /\ tailLost \in BOOLEAN /\ 1 + n \in Nat
  BY <1>1, StreamTypes, StreamBounds DEF StreamSessions, StreamPosts
<1>8. /\ first \in StreamText /\ again \in StreamText
      /\ Len(whole) <= (1 + n) * ChunkOf => first = whole
      /\ Len(whole) <= m * ChunkOf => again = whole
  BY <1>2, <1>3, <1>7, ChunksOfText
<1>9. Len(whole) <= ChunkCap * ChunkOf =>
          /\ 1 + n >= Slack!Chunks(whole) => first = whole
          /\ m = Slack!Chunks(whole) => again = whole
  <2>1. Slack!Chunks(whole) \in Nat /\ (m = Slack!Chunks(whole) => m >= Slack!Chunks(whole))
    BY <1>7, AllChunks
  <2> QED BY <1>7, <1>8, <2>1, AllChunks
<1>10. inPlace \in StreamText /\ posted' \in StreamPosts
  <2>1. inPlace \in StreamText
    BY <1>4, <1>7, <1>8, EndsAppended
  <2> QED BY <1>6, <1>8, <2>1, StreamBounds DEF StreamPosts
<1>11. ended' = "sent" /\ Len(whole) <= ChunkCap * ChunkOf => Ends(whole, Slack!Shown')
  <2> SUFFICES ASSUME ended' = "sent", Len(whole) <= ChunkCap * ChunkOf
               PROVE  Ends(whole, Slack!Shown')
    OBVIOUS
  <2>1. CASE done
    <3>1. Slack!Shown' = inPlace \o <<>>
      BY <1>6, <2>1 DEF Slack!Shown
    <3>2. inPlace \o <<>> = inPlace
      BY <1>10, ConcatEmptySeq DEF StreamText
    <3>3. inPlace = posted.before \o whole
      BY <1>4, <1>5, <1>9, <2>1
    <3> QED BY <1>7, <3>1, <3>2, <3>3, EndsAppended
  <2>2. CASE ~done
    <3>1. Slack!Shown' = inPlace \o whole
      BY <1>6, <1>9, <2>2 DEF Slack!Shown
    <3> QED BY <1>7, <1>10, <3>1, EndsAppended
  <2> QED BY <2>1, <2>2
<1> QED BY <1>6, <1>7, <1>10, <1>11, StreamIsOver

LEMMA StreamCancelled == ASSUME StreamIInv, NEW ok \in BOOLEAN, Slack!Cancel(ok) PROVE StreamIInv'
<1>1. /\ Slack!Made /\ slackStream' = Slack!NoStream /\ ended' = "cancelled"
      /\ posted' \in {posted, [posted EXCEPT !.now = slackStream.last]}
      /\ UNCHANGED <<suspended, throttled, final, grew, unopened, tailLost>>
  BY DEF Slack!Cancel, Slack!historyVars
<1>2. posted' \in StreamPosts
  BY <1>1, StreamTypes, StreamBounds DEF StreamPosts, StreamSessions
<1> QED BY <1>1, <1>2, StreamTypes, StreamIsOver

LEMMA StreamNext == StreamIInv /\ [Slack!Next]_(Slack!slackStreamVars) => StreamIInv'
<1> SUFFICES ASSUME StreamIInv, [Slack!Next]_(Slack!slackStreamVars) PROVE StreamIInv'
  OBVIOUS
<1>1. CASE UNCHANGED Slack!slackStreamVars \/ Slack!Wait
  <2>1. /\ UNCHANGED <<slackStream, posted, made, ended, final, grew, unopened, tailLost>>
        /\ suspended' \in BOOLEAN /\ throttled' \in BOOLEAN
    BY <1>1 DEF Slack!slackStreamVars, Slack!historyVars, Slack!Wait, StreamIInv, Slack!TypeOK
  <2>2. Slack!Shown' = Slack!Shown
    BY <2>1 DEF Slack!Shown
  <2> QED BY <2>1, <2>2 DEF StreamIInv, Slack!TypeOK, Slack!ReplyIsWhole
<1>2. CASE Slack!Next /\ ~Slack!Wait
  <2>1. 0 .. ChunkCap \subseteq Nat
    BY StreamBounds
  <2> QED BY <1>2, <2>1, StreamStarts, StreamUpdates, StreamSends, StreamFinalized, EditFinalized,
             StreamCancelled DEF Slack!Next
<1> QED BY <1>1, <1>2

----------------------------------------------------------------------------
(* The replies of Telegram *)

LEMMA ExtensionsRunReply ==
    ExtensionSpec => Reply!Init /\ [][Reply!Next]_(Reply!streamVars)
<1>1. ExtensionInit => Reply!Init
  BY DEF ExtensionInit
<1>2. [ExtensionNext]_extensionVars => [Reply!Next]_(Reply!streamVars)
  BY DEF ExtensionNext, extensionVars, SlackStep, HostStep, DiscordStep, TelegramStep,
         ReplyStep, BridgeStep, StreamStep, InboxStep, replyVars, Reply!streamVars,
         Reply!bridgeVars, Reply!toolVars, Reply!turnVars
<1> QED BY <1>1, <1>2, PTL DEF ExtensionSpec

\* The messages of a session that show a cursor.
Cursors(s) == {m \in 1 .. Len(messages) : messages[m].s = s /\ messages[m].cursor}

Finals == {c \in calls : c.kind = "finalize"}

\* What a call for a session may be: one that edits has a message to edit.
CallFits(c, o) ==
    /\ c.kind = "start" => c.stage = "api"
    /\ c.kind = "update" => c.stage \in {"draft", "send", "edit"}
    /\ c.kind = "cancel" => c.stage = "edit"
    /\ c.kind = "finalize" => c.stage \in {"send", "edit", "floor"}
    /\ c.kind # "finalize" \/ c.stage = "edit" => c.s # 0
    /\ c.stage = "edit" => o.message # 0

\* A session whose calls did not race: while it is in the map, at most one
\* update is under way and the first one makes its message; afterwards at most
\* one call ends it.  Only the message that it knows has a cursor.
Unraced(o, mine, cursors, open, stick) ==
    /\ cursors \subseteq {o.message}
    /\ open =>
           /\ \A c \in mine : /\ c.kind \in {"start", "update"}
                              /\ c.stage = "send" => o.message = 0
           /\ \A c, d \in mine : c.kind = "update" /\ d.kind = "update" => c = d
    /\ ~open =>
           /\ ~o.presence
           /\ \A c \in mine : /\ c.kind \in {"finalize", "cancel"}
                              /\ ~stick /\ c.stage # "edit" => o.message = 0
           /\ \A c, d \in mine : c = d
           /\ ~stick /\ mine = {} => cursors = {}

SessionHolds(s) ==
    /\ \A c \in calls : c.s = s => CallFits(c, session[s])
    /\ s # 0 => /\ session[s].message # 0 =>
                       /\ session[s].message \in 1 .. Len(messages)
                       /\ messages[session[s].message].s = s
                /\ s \notin raced =>
                       Unraced(session[s], Reply!InFlight(s), Cursors(s), s = stream, s \in stuck)

\* A turn is decided once, by the call that finalizes it.
VerdictsFollow ==
    /\ inTurn => turn \in 1 .. Turns /\ verdict[turn] = "none"
    /\ \A t \in 1 .. Turns : t > turn => verdict[t] = "none"
    /\ \A c \in Finals : c.turn \in 1 .. Turns
    /\ \A c, d \in Finals : c.turn = d.turn => c = d
    /\ \A t \in 1 .. Turns : verdict[t] = "due" <=> \E c \in Finals : c.turn = t

\* A reply that was delivered, of a session without races, is out of reach.
ReplyStays(t) ==
    LET m == reply[t].message
        s == messages[m].s
    IN  verdict[t] = "succeeded" =>
            /\ m \in 1 .. Len(messages)
            /\ s \notin raced =>
                   /\ messages[m].text = reply[t].text /\ ~messages[m].cursor
                   /\ s # 0 => s # stream /\ \A c \in calls : c.s # s

ReplyIInv ==
    /\ Reply!TypeOK /\ VerdictsFollow
    /\ \A m \in 1 .. Len(messages) : messages[m].s \in 0 .. Len(session)
    /\ \A s \in 0 .. Len(session) : SessionHolds(s)
    /\ \A t \in 1 .. Turns : ReplyStays(t)

\* A step that concerns session k alone, or the messages of none when k is 0.
Concerns(k) ==
    /\ Len(session) <= Len(session') /\ Len(messages) <= Len(messages')
    /\ \A s \in 1 .. Len(session') : s # k => s <= Len(session)
    /\ \A s \in 1 .. Len(session) : s # k =>
           /\ session'[s] = session[s]
           /\ s = stream <=> s = stream'
           /\ s \in raced <=> s \in raced'
           /\ s \in stuck <=> s \in stuck'
    /\ \A m \in 1 .. Len(messages) :
           /\ messages'[m].s = messages[m].s
           /\ messages[m].s = 0 \/ messages[m].s # k => messages'[m] = messages[m]
    /\ \A m \in 1 .. Len(messages') : m > Len(messages) => messages'[m].s = k
    /\ \A c \in calls \cup calls' : c.s # k => c \in calls /\ c \in calls'
    /\ raced \subseteq raced'
    /\ k # 0 => k = stream \/ k > Len(session) \/ \E c \in calls : c.s = k

LEMMA ReplyBounds ==
    /\ {Pieces, Turns, Messages, Waiting} \subseteq Nat /\ Private \in BOOLEAN
    /\ Reply!Texts = 0 .. Pieces /\ 0 \in Reply!Texts /\ Reply!NoMessage = 0
BY PartsAssumption DEF Reply!StreamAssumption, Reply!Texts, Reply!NoMessage

LEMMA NoText == 0 \in Reply!Texts /\ 0 + 0 \in Reply!Texts /\ 0 \in 0 .. 1
BY ReplyBounds

LEMMA ReplyTypes ==
    ASSUME Reply!TypeOK
    PROVE  /\ Len(session) \in Nat /\ Len(messages) \in Nat
           /\ DOMAIN session = 1 .. Len(session) /\ DOMAIN messages = 1 .. Len(messages)
           /\ \A s \in 1 .. Len(session) : session[s] \in Reply!SessionType
           /\ \A m \in 1 .. Len(messages) : messages[m] \in Reply!MessageType
           /\ \A c \in calls : c \in Reply!CallType /\ c.s \in 0 .. Len(session)
BY LenProperties, ElementOfSeq DEF Reply!TypeOK

LEMMA ReplyHolds == ReplyIInv => Reply!TypeOK /\ Reply!RepliesLand /\ Reply!NothingLingers
<1> SUFFICES ASSUME ReplyIInv PROVE Reply!TypeOK /\ Reply!RepliesLand /\ Reply!NothingLingers
  OBVIOUS
<1>1. Reply!TypeOK
  BY DEF ReplyIInv
<1>2. /\ DOMAIN session = 1 .. Len(session) /\ DOMAIN messages = 1 .. Len(messages)
      /\ Len(session) \in Nat
  BY <1>1, ReplyTypes
<1>3. Reply!RepliesLand
  BY <1>2 DEF ReplyIInv, VerdictsFollow, Finals, ReplyStays, Reply!RepliesLand
<1>4. ASSUME NEW s \in DOMAIN session \ (raced \cup stuck), s # stream, Reply!InFlight(s) = {}
      PROVE  /\ ~session[s].presence
             /\ \A m \in DOMAIN messages : messages[m].s = s => ~messages[m].cursor
  <2>1. s \in 0 .. Len(session) /\ s # 0 /\ s \notin raced /\ s \notin stuck
    BY <1>2
  <2>2. Unraced(session[s], Reply!InFlight(s), Cursors(s), s = stream, s \in stuck)
    BY <2>1 DEF ReplyIInv, SessionHolds
  <2>3. ~session[s].presence /\ Cursors(s) = {}
    BY <1>4, <2>1, <2>2 DEF Unraced
  <2> QED BY <1>2, <2>3 DEF Cursors
<1> QED BY <1>1, <1>3, <1>4 DEF Reply!NothingLingers

LEMMA ReplyInit == Reply!Init => ReplyIInv
<1> SUFFICES ASSUME Reply!Init PROVE ReplyIInv
  OBVIOUS
<1>1. Len(session) = 0 /\ Len(messages) = 0
  BY DEF Reply!Init
<1>2. Reply!TypeOK
  <2>1. /\ session \in Seq(Reply!SessionType) /\ messages \in Seq(Reply!MessageType)
        /\ stream \in 0 .. Len(session) /\ calls = {} /\ turn \in 0 .. Turns /\ inTurn = FALSE
    BY <1>1, ReplyBounds DEF Reply!Init
  <2>2. verdict \in [1 .. Turns -> {"none", "due", "succeeded", "failed"}]
    BY DEF Reply!Init
  <2>3. reply \in [1 .. Turns -> [message : Nat, text : Reply!Texts]]
    BY ReplyBounds DEF Reply!Init
  <2>4. /\ route = "none" /\ accumulated = 0 /\ partial = 0 /\ lastPushed = 0 /\ ticking = FALSE
        /\ explicitSend = FALSE /\ raced = {} /\ stuck = {} /\ 0 \in 0 .. 1 /\ 0 + 0 = 0
    BY DEF Reply!Init
  <2> QED BY <2>1, <2>2, <2>3, <2>4, ReplyBounds DEF Reply!TypeOK
<1>3. VerdictsFollow
  BY ReplyBounds DEF Reply!Init, VerdictsFollow, Finals
<1>4. \A s \in 0 .. Len(session) : SessionHolds(s)
  BY <1>1 DEF Reply!Init, SessionHolds
<1>5. \A t \in 1 .. Turns : ReplyStays(t)
  BY DEF Reply!Init, ReplyStays
<1> QED BY <1>1, <1>2, <1>3, <1>4, <1>5 DEF ReplyIInv

LEMMA ReplyElsewhere ==
    ASSUME ReplyIInv, Reply!TypeOK', NEW k \in Nat, Concerns(k), NEW s \in 0 .. Len(session'), s # k
    PROVE  SessionHolds(s)'
<1>1. /\ Len(session) \in Nat /\ Len(messages) \in Nat /\ Len(messages') \in Nat /\ Len(session') \in Nat
  BY ReplyTypes, LenProperties DEF ReplyIInv, Reply!TypeOK
<1>2. s \in 0 .. Len(session) /\ SessionHolds(s)
  BY <1>1 DEF ReplyIInv, Concerns
<1>3. \A c : c \in calls' /\ c.s = s <=> c \in calls /\ c.s = s
  BY DEF Concerns
<1>4. CASE s = 0
  BY <1>2, <1>3, <1>4 DEF SessionHolds, CallFits
<1>5. CASE s # 0
  <2>1. s \in 1 .. Len(session)
    BY <1>1, <1>2, <1>5
  <2>2. /\ session'[s] = session[s] /\ (s = stream <=> s = stream')
        /\ (s \in raced <=> s \in raced') /\ (s \in stuck <=> s \in stuck')
    BY <2>1 DEF Concerns
  <2>3. \A c \in calls' : c.s = s => CallFits(c, session'[s])
    BY <1>2, <1>3, <2>2 DEF SessionHolds
  <2>4. Reply!InFlight(s)' = Reply!InFlight(s)
    BY <1>3 DEF Reply!InFlight
  <2>5. Cursors(s)' = Cursors(s)
    <3>1. ASSUME NEW m \in 1 .. Len(messages'), messages'[m].s = s
          PROVE  m \in 1 .. Len(messages) /\ messages'[m] = messages[m]
      BY <1>1, <3>1 DEF Concerns
    <3>2. ASSUME NEW m \in 1 .. Len(messages), messages[m].s = s
          PROVE  m \in 1 .. Len(messages') /\ messages'[m] = messages[m]
      BY <1>1, <3>2 DEF Concerns
    <3> QED BY <3>1, <3>2 DEF Cursors
  <2>6. session'[s].message # 0 =>
            /\ session'[s].message \in 1 .. Len(messages')
            /\ messages'[session'[s].message].s = s
    BY <1>1, <1>2, <1>5, <2>2 DEF SessionHolds, Concerns
  <2>7. s \notin raced' =>
            Unraced(session'[s], Reply!InFlight(s)', Cursors(s)', s = stream', s \in stuck')
    BY <1>2, <1>5, <2>2, <2>4, <2>5 DEF SessionHolds
  <2> QED BY <2>3, <2>6, <2>7 DEF SessionHolds
<1> QED BY <1>4, <1>5

\* What is left to show of a step that concerns one session.
LEMMA ReplyStepKeeps ==
    ASSUME ReplyIInv, Reply!TypeOK', VerdictsFollow', NEW k \in 0 .. Len(session'), Concerns(k),
           SessionHolds(k)',
           \A t \in 1 .. Turns : verdict'[t] = "succeeded" =>
               \/ verdict[t] = "succeeded" /\ reply'[t] = reply[t]
               \/ ReplyStays(t)'
    PROVE  ReplyIInv'
<1>1. /\ Len(session) \in Nat /\ Len(messages) \in Nat /\ Len(messages') \in Nat /\ Len(session') \in Nat
  BY ReplyTypes, LenProperties DEF ReplyIInv, Reply!TypeOK
<1>2. \A s \in 0 .. Len(session') : SessionHolds(s)'
  BY <1>1, ReplyElsewhere
<1>3. ASSUME NEW m \in 1 .. Len(messages') PROVE messages'[m].s \in 0 .. Len(session')
  BY <1>1 DEF ReplyIInv, Concerns
<1>4. ASSUME NEW t \in 1 .. Turns, verdict[t] = "succeeded", reply'[t] = reply[t]
      PROVE  ReplyStays(t)'
  <2>1. PICK m : m = reply[t].message
    OBVIOUS
  <2>2. PICK s : s = messages[m].s
    OBVIOUS
  <2>3. /\ m \in 1 .. Len(messages) /\ s \in 0 .. Len(session)
        /\ s \notin raced => /\ messages[m].text = reply[t].text /\ ~messages[m].cursor
                             /\ s # 0 => s # stream /\ \A c \in calls : c.s # s
    BY <1>4, <2>1, <2>2 DEF ReplyIInv, ReplyStays
  <2>4. m \in 1 .. Len(messages') /\ messages'[m].s = s /\ raced \subseteq raced'
    BY <1>1, <2>2, <2>3 DEF Concerns
  <2>5. ASSUME s \notin raced'
        PROVE  /\ messages'[m].text = reply[t].text /\ ~messages'[m].cursor
               /\ s # 0 => s # stream' /\ \A c \in calls' : c.s # s
    <3>1. s = 0 \/ s # k
      BY <1>1, <2>3, <2>4, <2>5 DEF Concerns
    <3>2. messages'[m] = messages[m]
      BY <2>2, <2>3, <3>1 DEF Concerns
    <3>3. s # 0 => s # stream' /\ \A c \in calls' : c.s # s
      BY <1>1, <2>3, <2>4, <2>5, <3>1 DEF Concerns
    <3> QED BY <2>3, <2>4, <2>5, <3>2, <3>3
  <2> QED BY <1>4, <2>1, <2>4, <2>5 DEF ReplyStays
<1>5. \A t \in 1 .. Turns : ReplyStays(t)'
  BY <1>4 DEF ReplyStays
<1> QED BY <1>2, <1>3, <1>5 DEF ReplyIInv

----------------------------------------------------------------------------

\* A step of the turn that leaves the tool alone.
LEMMA ReplyQuiet ==
    ASSUME ReplyIInv, Reply!TypeOK', VerdictsFollow',
           UNCHANGED <<stream, session, calls, messages, raced, stuck, verdict, reply>>
    PROVE  ReplyIInv'
<1>1. \A s \in 0 .. Len(session) : SessionHolds(s)'
  BY DEF ReplyIInv, SessionHolds, Reply!InFlight, Cursors
<1>2. \A t \in 1 .. Turns : ReplyStays(t)'
  BY DEF ReplyIInv, ReplyStays
<1> QED BY <1>1, <1>2 DEF ReplyIInv

\* The verdicts are not concerned unless a call finalizes.
LEMMA VerdictsUnconcerned ==
    ASSUME ReplyIInv, verdict' = verdict, Finals' = Finals, turn' \in 0 .. Turns,
           \/ turn' = turn /\ (inTurn' => inTurn)
           \/ turn' = turn + 1
    PROVE  VerdictsFollow'
<1>1. turn \in 0 .. Turns /\ turn' \in 0 .. Turns /\ Turns \in Nat
  BY ReplyBounds DEF ReplyIInv, Reply!TypeOK
<1>2. \A t \in 1 .. Turns : t > turn' => verdict'[t] = "none"
  BY <1>1 DEF ReplyIInv, VerdictsFollow
<1>3. inTurn' => turn' \in 1 .. Turns /\ verdict'[turn'] = "none"
  BY <1>1 DEF ReplyIInv, VerdictsFollow
<1> QED BY <1>2, <1>3 DEF ReplyIInv, VerdictsFollow

LEMMA ReplyJobs == ReplyIInv /\ Reply!JobTurn => ReplyIInv'
<1> SUFFICES ASSUME ReplyIInv, Reply!JobTurn PROVE ReplyIInv'
  OBVIOUS
<1>1. /\ turn' = turn + 1 /\ turn' \in 0 .. Turns /\ inTurn' = TRUE
      /\ UNCHANGED <<route, accumulated, partial, lastPushed, ticking, explicitSend>>
      /\ UNCHANGED <<stream, session, calls, messages, raced, stuck, verdict, reply>>
  BY ReplyBounds DEF Reply!JobTurn, Reply!bridgeVars, Reply!toolVars, ReplyIInv, Reply!TypeOK
<1>2. Reply!TypeOK'
  BY <1>1 DEF ReplyIInv, Reply!TypeOK
<1>3. VerdictsFollow'
  BY <1>1, VerdictsUnconcerned DEF Finals
<1> QED BY <1>1, <1>2, <1>3, ReplyQuiet

LEMMA ReplySays ==
    ReplyIInv /\ (Reply!Delta \/ Reply!AssistantText \/ Reply!ExplicitSend) => ReplyIInv'
<1> SUFFICES ASSUME ReplyIInv, Reply!Delta \/ Reply!AssistantText \/ Reply!ExplicitSend PROVE ReplyIInv'
  OBVIOUS
<1>1. /\ UNCHANGED <<stream, session, calls, messages, raced, stuck>>
      /\ UNCHANGED <<turn, inTurn, verdict, reply>>
      /\ Reply!Derived /\ lastPushed' = lastPushed
  BY DEF Reply!Delta, Reply!AssistantText, Reply!ExplicitSend, Reply!toolVars, Reply!turnVars
<1>2. Reply!TypeOK'
  <2>1. route' \in {"none", "stored", "derived"}
    BY <1>1 DEF Reply!Derived, ReplyIInv, Reply!TypeOK
  <2>2. /\ accumulated' \in Reply!Texts /\ partial' \in 0 .. 1
        /\ accumulated' + partial' \in Reply!Texts
    BY ReplyBounds DEF Reply!Delta, Reply!AssistantText, Reply!ExplicitSend, ReplyIInv, Reply!TypeOK
  <2>3. ticking' \in BOOLEAN /\ explicitSend' \in BOOLEAN
    BY DEF Reply!Delta, Reply!AssistantText, Reply!ExplicitSend, ReplyIInv, Reply!TypeOK
  <2> QED BY <1>1, <2>1, <2>2, <2>3 DEF ReplyIInv, Reply!TypeOK
<1>3. turn \in 0 .. Turns
  BY DEF ReplyIInv, Reply!TypeOK
<1>4. VerdictsFollow'
  BY <1>1, <1>3, VerdictsUnconcerned DEF Finals
<1> QED BY <1>1, <1>2, <1>4, ReplyQuiet

LEMMA SessionPut ==
    ASSUME Reply!TypeOK, NEW k \in 1 .. Len(session), NEW o \in Reply!SessionType,
           session' = [session EXCEPT ![k] = o]
    PROVE  /\ session' \in Seq(Reply!SessionType) /\ Len(session') = Len(session)
           /\ session'[k] = o
           /\ \A s \in 1 .. Len(session) : s # k => session'[s] = session[s]
<1>1. session \in Seq(Reply!SessionType)
  BY DEF Reply!TypeOK
<1> QED BY <1>1, ExceptSeq

LEMMA ReplyGetStream ==
    ASSUME ReplyIInv, NEW armed \in BOOLEAN, Reply!GetStream(armed), NEW k, k = Reply!Live
    PROVE  /\ session' \in Seq(Reply!SessionType) /\ k \in 1 .. Len(session') /\ stream' = k
           /\ Len(session) <= Len(session') /\ (stream # 0 => k = stream /\ Len(session') = Len(session))
           /\ stream = 0 => k = Len(session) + 1 /\ Len(session') = Len(session) + 1
           /\ \A s \in 1 .. Len(session) : s # k => session'[s] = session[s]
           /\ session'[k].message = IF stream # 0 THEN session[stream].message ELSE 0
           /\ session'[k].tier = IF stream # 0 THEN session[stream].tier ELSE Reply!NewSession(TRUE).tier
<1>1. /\ session \in Seq(Reply!SessionType) /\ stream \in 0 .. Len(session) /\ Len(session) \in Nat
  BY ReplyTypes DEF ReplyIInv, Reply!TypeOK
<1>2. CASE stream # 0
  <2>1. PICK o : o = [session[stream] EXCEPT !.presence = @ \/ armed]
    OBVIOUS
  <2>2. session[stream] \in Reply!SessionType
    BY <1>1, <1>2, ElementOfSeq
  <2>3. o \in Reply!SessionType /\ o.message = session[stream].message /\ o.tier = session[stream].tier
    BY <2>1, <2>2 DEF Reply!SessionType
  <2>4. session' = [session EXCEPT ![stream] = o]
    BY <1>2, <2>1 DEF Reply!GetStream
  <2>5. k = stream /\ stream' = k
    BY <1>2 DEF Reply!GetStream, Reply!Live
  <2> QED BY <1>1, <1>2, <2>3, <2>4, <2>5, SessionPut DEF ReplyIInv
<1>3. CASE stream = 0
  <2>1. PICK o : o = Reply!NewSession(armed)
    OBVIOUS
  <2>2. o \in Reply!SessionType /\ o.message = 0 /\ o.tier = Reply!NewSession(TRUE).tier
    BY <2>1, ReplyBounds DEF Reply!NewSession, Reply!SessionType
  <2>3. session' = Append(session, o) /\ k = Len(session) + 1 /\ stream' = k
    BY <1>3, <2>1 DEF Reply!GetStream, Reply!Live
  <2>4. /\ session' \in Seq(Reply!SessionType) /\ Len(session') = Len(session) + 1
        /\ \A s \in 1 .. Len(session) : session'[s] = session[s]
        /\ session'[k] = o
    BY <1>1, <2>2, <2>3, AppendProperties
  <2>5. k \in 1 .. Len(session') /\ Len(session) <= Len(session')
    BY <1>1, <2>3, <2>4
  <2>6. \A s \in 1 .. Len(session) : s # k => session'[s] = session[s]
    BY <2>4
  <2>7. /\ session'[k].message = IF stream # 0 THEN session[stream].message ELSE 0
        /\ session'[k].tier = IF stream # 0 THEN session[stream].tier ELSE Reply!NewSession(TRUE).tier
    BY <1>3, <2>2, <2>4
  <2> QED BY <1>3, <2>3, <2>4, <2>5, <2>6, <2>7
<1> QED BY <1>2, <1>3

\* With the stream of the map at hand, or a new one, all is as it was.
LEMMA ReplyStreamAtHand ==
    ASSUME ReplyIInv, NEW armed \in BOOLEAN, Reply!GetStream(armed), NEW k, k = Reply!Live
    PROVE  /\ \A c \in calls : c.s = k => CallFits(c, session'[k])
           /\ session'[k].message # 0 =>
                  /\ session'[k].message \in 1 .. Len(messages)
                  /\ messages[session'[k].message].s = k
           /\ k \notin raced =>
                  Unraced(session'[k], Reply!InFlight(k), Cursors(k), TRUE, k \in stuck)
<1>1. stream \in 0 .. Len(session) /\ Len(session) \in Nat
  BY ReplyTypes DEF ReplyIInv, Reply!TypeOK
<1>2. CASE stream # 0
  <2>1. /\ k = stream /\ k \in 0 .. Len(session) /\ k # 0 /\ session'[k].message = session[k].message
    BY <1>1, <1>2, ReplyGetStream
  <2>2. SessionHolds(k)
    BY <2>1 DEF ReplyIInv
  <2> QED BY <2>1, <2>2 DEF SessionHolds, CallFits, Unraced
<1>3. CASE stream = 0
  <2>1. k = Len(session) + 1 /\ session'[k].message = 0
    BY <1>3, ReplyGetStream
  <2>2. \A c \in calls : c.s # k
    BY <1>1, <2>1, ReplyTypes DEF ReplyIInv
  <2>3. Cursors(k) = {}
    BY <1>1, <2>1 DEF ReplyIInv, Cursors
  <2>4. Reply!InFlight(k) = {}
    BY <2>2 DEF Reply!InFlight
  <2> QED BY <2>1, <2>2, <2>3, <2>4 DEF Unraced
<1> QED BY <1>2, <1>3

\* A stream is taken or made, and calls for it follow.
Uses(k, new) ==
    /\ k = Reply!Live /\ \E armed \in BOOLEAN : Reply!GetStream(armed)
    /\ UNCHANGED <<messages, stuck>> /\ calls' = calls \cup new
    /\ raced' = raced \/ raced' = raced \cup {k}
    /\ \A c \in new :
           /\ c.s = k /\ c.kind \in {"start", "update"} /\ CallFits(c, session'[k])
           /\ k \notin raced' =>
                  /\ c.stage = "send" => session'[k].message = 0
                  /\ c.kind = "update" =>
                         \A d \in calls' : d.s = k /\ d.kind = "update" => d = c

LEMMA ReplyStreamUsed ==
    ASSUME ReplyIInv, NEW k, NEW new \in SUBSET Reply!CallType, Uses(k, new)
    PROVE  /\ k \in 0 .. Len(session') /\ Concerns(k) /\ SessionHolds(k)'
           /\ Finals' = Finals /\ stream' \in 0 .. Len(session')
           /\ session' \in Seq(Reply!SessionType) /\ raced' \subseteq Nat
           /\ calls' \subseteq Reply!CallType /\ \A c \in calls' : c.s \in 0 .. Len(session')
<1>0. PICK armed \in BOOLEAN : k = Reply!Live /\ Reply!GetStream(armed)
  BY DEF Uses
<1>1. /\ session' \in Seq(Reply!SessionType) /\ k \in 1 .. Len(session') /\ stream' = k
      /\ Len(session) <= Len(session') /\ (stream # 0 => k = stream /\ Len(session') = Len(session))
      /\ (stream = 0 => k = Len(session) + 1 /\ Len(session') = Len(session) + 1)
      /\ \A s \in 1 .. Len(session) : s # k => session'[s] = session[s]
  BY <1>0, ReplyGetStream
<1>2. /\ stream \in 0 .. Len(session) /\ Len(session) \in Nat /\ Len(messages) \in Nat
      /\ raced \subseteq Nat /\ Len(session') \in Nat
      /\ \A c \in calls : c \in Reply!CallType /\ c.s \in 0 .. Len(session)
  BY <1>1, ReplyTypes, LenProperties DEF ReplyIInv, Reply!TypeOK
<1>9. /\ UNCHANGED <<messages, stuck>> /\ calls' = calls \cup new
      /\ raced \subseteq raced' /\ \A s \in 1 .. Len(session) : s # k => (s \in raced' <=> s \in raced)
      /\ \A c \in new : c.s = k /\ c.kind \in {"start", "update"} /\ CallFits(c, session'[k])
  BY DEF Uses
<1>3. Concerns(k)
  BY <1>1, <1>2, <1>9 DEF Concerns
<1>4. /\ \A c \in calls : c.s = k => CallFits(c, session'[k])
      /\ session'[k].message # 0 =>
             /\ session'[k].message \in 1 .. Len(messages)
             /\ messages[session'[k].message].s = k
      /\ k \notin raced =>
             Unraced(session'[k], Reply!InFlight(k), Cursors(k), TRUE, k \in stuck)
  BY <1>0, ReplyStreamAtHand
<1>5. Reply!InFlight(k)' = Reply!InFlight(k) \cup new /\ Cursors(k)' = Cursors(k)
  BY <1>9 DEF Reply!InFlight, Cursors
<1>6. ASSUME k \notin raced'
      PROVE  Unraced(session'[k], Reply!InFlight(k)', Cursors(k)', TRUE, k \in stuck')
  <2>1. Unraced(session'[k], Reply!InFlight(k), Cursors(k), TRUE, k \in stuck)
    BY <1>4, <1>6, <1>9
  <2>2. \A c \in Reply!InFlight(k)' : /\ c.kind \in {"start", "update"}
                                      /\ c.stage = "send" => session'[k].message = 0
    BY <1>5, <1>6, <2>1 DEF Unraced, Uses
  <2>3. \A c, d \in Reply!InFlight(k)' : c.kind = "update" /\ d.kind = "update" => c = d
    BY <1>5, <1>6, <2>1 DEF Unraced, Uses, Reply!InFlight
  <2>4. Cursors(k)' \subseteq {session'[k].message}
    BY <1>5, <2>1 DEF Unraced
  <2> QED BY <2>2, <2>3, <2>4 DEF Unraced
<1>7. SessionHolds(k)'
  BY <1>1, <1>4, <1>6, <1>9 DEF SessionHolds
<1>8. Finals' = Finals
  BY <1>9 DEF Finals
<1>10. raced' \subseteq Nat /\ k \in 0 .. Len(session')
  <2>1. raced' = raced \/ raced' = raced \cup {k}
    BY DEF Uses
  <2>2. k \in Nat /\ k \in 0 .. Len(session')
    BY <1>1, <1>2
  <2> QED BY <1>2, <2>1, <2>2
<1> QED BY <1>1, <1>2, <1>3, <1>7, <1>8, <1>9, <1>10

LEMMA ReplyInbound == ReplyIInv /\ Reply!Inbound => ReplyIInv'
<1> SUFFICES ASSUME ReplyIInv, Reply!Inbound PROVE ReplyIInv'
  OBVIOUS
<1>1. PICK k : k = Reply!Live
  OBVIOUS
<1>2. PICK c : c = Reply!Call("start", k, 0, "api")
  OBVIOUS
<1>3. /\ Reply!GetStream(FALSE) /\ calls' = calls \cup {c} /\ route' = "stored" /\ inTurn' = TRUE
      /\ turn' = IF inTurn THEN turn ELSE turn + 1
      /\ inTurn \/ turn < Turns
      /\ UNCHANGED <<accumulated, partial, lastPushed, ticking, explicitSend>>
      /\ UNCHANGED <<messages, verdict, reply, raced, stuck>>
  BY <1>1, <1>2 DEF Reply!Inbound
<1>4. /\ k \in 1 .. Len(session') /\ session' \in Seq(Reply!SessionType) /\ Len(session') \in Nat
  BY <1>1, <1>3, ReplyGetStream, LenProperties
<1>5. /\ c.s = k /\ c.kind = "start" /\ c.stage = "api" /\ c \in Reply!CallType
  BY <1>2, <1>4, ReplyBounds DEF Reply!Call, Reply!CallType
<1>6. CallFits(c, session'[k])
  BY <1>4, <1>5 DEF CallFits
<1>7. /\ k \in 0 .. Len(session') /\ Concerns(k) /\ SessionHolds(k)'
      /\ Finals' = Finals /\ stream' \in 0 .. Len(session')
      /\ session' \in Seq(Reply!SessionType) /\ raced' \subseteq Nat
      /\ calls' \subseteq Reply!CallType /\ \A d \in calls' : d.s \in 0 .. Len(session')
  <2>1. PICK new \in SUBSET Reply!CallType : new = {c}
    BY <1>5
  <2>2. \A d \in new : /\ d.s = k /\ d.kind \in {"start", "update"} /\ CallFits(d, session'[k])
                       /\ d.stage # "send" /\ d.kind # "update"
    BY <1>5, <1>6, <2>1
  <2>3. Uses(k, new)
    BY <1>1, <1>3, <2>1, <2>2 DEF Uses
  <2> QED BY <2>3, ReplyStreamUsed
<1>8. turn \in 0 .. Turns /\ turn' \in 0 .. Turns /\ ((turn' = turn /\ inTurn) \/ turn' = turn + 1)
  BY <1>3, ReplyBounds DEF ReplyIInv, Reply!TypeOK
<1>9. Reply!TypeOK'
  BY <1>3, <1>7, <1>8 DEF ReplyIInv, Reply!TypeOK
<1>10. VerdictsFollow'
  BY <1>3, <1>7, <1>8, VerdictsUnconcerned
<1> QED BY <1>3, <1>7, <1>9, <1>10, ReplyStepKeeps

LEMMA ReplyPush == ReplyIInv /\ Reply!Push => ReplyIInv'
<1> SUFFICES ASSUME ReplyIInv, Reply!Push PROVE ReplyIInv'
  OBVIOUS
<1>1. PICK k : k = Reply!Live
  OBVIOUS
<1>2. PICK text : text = accumulated + partial
  OBVIOUS
<1>3. PICK o : o = IF stream # 0 THEN session[stream] ELSE Reply!NewSession(TRUE)
  OBVIOUS
<1>4. PICK stage : stage = IF o.tier = "draft" THEN "draft"
                           ELSE IF o.message = 0 THEN "send" ELSE "edit"
  OBVIOUS
<1>5. PICK c : c = Reply!Call("update", k, text, stage)
  OBVIOUS
<1>6. /\ Reply!GetStream(TRUE) /\ lastPushed' = text
      /\ UNCHANGED <<route, accumulated, partial, ticking, explicitSend, messages, stuck>>
      /\ UNCHANGED <<turn, inTurn, verdict, reply>>
      /\ \/ UNCHANGED <<calls, raced>>
         \/ /\ calls' = calls \cup {c}
            /\ raced' = IF \E d \in Reply!InFlight(k) : d.kind = "update"
                        THEN raced \cup {k} ELSE raced
  BY <1>1, <1>2, <1>3, <1>4, <1>5, ReplyBounds DEF Reply!Push, Reply!turnVars
<1>7. /\ k \in 1 .. Len(session') /\ Len(session') \in Nat /\ session'[k].message = o.message
  <2>1. Reply!NewSession(TRUE).message = 0
    BY ReplyBounds DEF Reply!NewSession
  <2> QED BY <1>1, <1>3, <1>6, <2>1, ReplyGetStream, LenProperties
<1>8. text \in Reply!Texts /\ turn \in 0 .. Turns
  BY <1>2 DEF ReplyIInv, Reply!TypeOK
<1>9. /\ c.s = k /\ c.kind = "update" /\ c.stage = stage /\ c \in Reply!CallType
  BY <1>4, <1>5, <1>7, <1>8 DEF Reply!Call, Reply!CallType
<1>10. CallFits(c, session'[k]) /\ (c.stage = "send" => session'[k].message = 0)
  BY <1>4, <1>7, <1>9 DEF CallFits
<1>11. PICK new \in SUBSET Reply!CallType : Uses(k, new)
  <2>1. CASE UNCHANGED <<calls, raced>>
    <3>1. Uses(k, {})
      BY <1>1, <1>6, <2>1 DEF Uses
    <3> QED BY <3>1
  <2>2. CASE /\ calls' = calls \cup {c}
             /\ raced' = IF \E d \in Reply!InFlight(k) : d.kind = "update"
                         THEN raced \cup {k} ELSE raced
    <3>1. ASSUME k \notin raced', NEW d \in calls', d.s = k, d.kind = "update" PROVE d = c
      BY <2>2, <3>1 DEF Reply!InFlight
    <3>2. raced' = raced \/ raced' = raced \cup {k}
      BY <2>2
    <3>3. Uses(k, {c})
      BY <1>1, <1>6, <1>9, <1>10, <2>2, <3>1, <3>2 DEF Uses
    <3> QED BY <1>9, <3>3
  <2> QED BY <1>6, <2>1, <2>2
<1>12. /\ k \in 0 .. Len(session') /\ Concerns(k) /\ SessionHolds(k)'
       /\ Finals' = Finals /\ stream' \in 0 .. Len(session')
       /\ session' \in Seq(Reply!SessionType) /\ raced' \subseteq Nat
       /\ calls' \subseteq Reply!CallType /\ \A d \in calls' : d.s \in 0 .. Len(session')
  BY <1>11, ReplyStreamUsed
<1>13. Reply!TypeOK'
  BY <1>6, <1>8, <1>12 DEF ReplyIInv, Reply!TypeOK
<1>14. VerdictsFollow'
  BY <1>6, <1>8, <1>12, VerdictsUnconcerned
<1> QED BY <1>6, <1>12, <1>13, <1>14, ReplyStepKeeps

----------------------------------------------------------------------------
\* The stream of the map comes to its end.

\* What the end of a turn leaves of the tool: the call that ends the stream, if
\* there is one to make.
Concludes(new) ==
    /\ Reply!EndStream /\ UNCHANGED <<messages, stuck>> /\ calls' = calls \cup new
    /\ \A c \in new : /\ c.s = stream /\ c.kind \in {"finalize", "cancel"}
                      /\ CallFits(c, session[stream])
                      /\ c.stage # "edit" => stream = 0 \/ session[stream].message = 0
    /\ \A c, d \in new : c = d
    /\ new = {} => stream = 0 \/ session[stream].message = 0

LEMMA ReplyStreamEnds ==
    ASSUME ReplyIInv, NEW new \in SUBSET Reply!CallType, Concludes(new), NEW k \in Nat, k = stream
    PROVE  /\ k \in 0 .. Len(session') /\ Concerns(k) /\ SessionHolds(k)'
           /\ stream' \in 0 .. Len(session')
           /\ session' \in Seq(Reply!SessionType) /\ raced' \subseteq Nat
           /\ calls' \subseteq Reply!CallType /\ \A c \in calls' : c.s \in 0 .. Len(session')
<1>1. /\ k \in 0 .. Len(session) /\ Len(session) \in Nat /\ Len(messages) \in Nat
      /\ session \in Seq(Reply!SessionType) /\ raced \subseteq Nat
      /\ \A c \in calls : c \in Reply!CallType /\ c.s \in 0 .. Len(session)
  BY ReplyTypes DEF ReplyIInv, Reply!TypeOK
<1>2. /\ stream' = 0 /\ UNCHANGED <<messages, stuck>> /\ calls' = calls \cup new
      /\ raced' = IF k # 0 /\ Reply!InFlight(k) # {} THEN raced \cup {k} ELSE raced
      /\ session' = IF k = 0 THEN session ELSE [session EXCEPT ![k].presence = FALSE]
      /\ \A c \in new : c.s = k /\ CallFits(c, session[k])
  BY DEF Concludes, Reply!EndStream
<1>3. /\ session' \in Seq(Reply!SessionType) /\ Len(session') = Len(session)
      /\ \A s \in 1 .. Len(session) : s # k => session'[s] = session[s]
      /\ k # 0 => session'[k].message = session[k].message /\ ~session'[k].presence
  <2>1. CASE k = 0
    BY <1>1, <1>2, <2>1
  <2>2. CASE k # 0
    <3>1. PICK o : o = [session[k] EXCEPT !.presence = FALSE]
      OBVIOUS
    <3>2. k \in 1 .. Len(session) /\ session[k] \in Reply!SessionType
      BY <1>1, <2>2, ElementOfSeq
    <3>3. o \in Reply!SessionType /\ o.message = session[k].message /\ ~o.presence
      BY <3>1, <3>2 DEF Reply!SessionType
    <3>4. session' = [session EXCEPT ![k] = o]
      BY <1>2, <2>2, <3>1
    <3> QED BY <3>2, <3>3, <3>4, SessionPut DEF ReplyIInv
  <2> QED BY <2>1, <2>2
<1>4. raced' \subseteq Nat /\ raced \subseteq raced' /\ \A s \in 1 .. Len(session) : s # k => (s \in raced <=> s \in raced')
  BY <1>1, <1>2
<1>5. Concerns(k)
  BY <1>1, <1>2, <1>3, <1>4 DEF Concerns
<1>6. SessionHolds(k)
  BY <1>1 DEF ReplyIInv
<1>7. ASSUME k = 0 PROVE SessionHolds(k)'
  BY <1>2, <1>6, <1>7 DEF SessionHolds, CallFits
<1>8. ASSUME k # 0 PROVE SessionHolds(k)'
  <2>1. \A c \in calls' : c.s = k => CallFits(c, session'[k])
    BY <1>2, <1>3, <1>6, <1>8 DEF SessionHolds, CallFits
  <2>2. session'[k].message # 0 =>
            /\ session'[k].message \in 1 .. Len(messages')
            /\ messages'[session'[k].message].s = k
    BY <1>2, <1>3, <1>6, <1>8 DEF SessionHolds
  <2>3. ASSUME k \notin raced'
        PROVE  Unraced(session'[k], Reply!InFlight(k)', Cursors(k)', FALSE, k \in stuck')
    <3>1. Reply!InFlight(k) = {} /\ k \notin raced
      BY <1>2, <1>8, <2>3
    <3>2. Reply!InFlight(k)' = new
      BY <1>2, <3>1 DEF Reply!InFlight
    <3>3. Unraced(session[k], Reply!InFlight(k), Cursors(k), TRUE, k \in stuck)
      BY <1>6, <1>8, <3>1 DEF SessionHolds
    <3>4. Cursors(k)' = Cursors(k) /\ Cursors(k) \subseteq {session'[k].message}
      BY <1>2, <1>3, <1>8, <3>3 DEF Cursors, Unraced
    <3>5. /\ \A c \in new : /\ c.kind \in {"finalize", "cancel"}
                            /\ c.stage # "edit" => session'[k].message = 0
          /\ \A c, d \in new : c = d
      BY <1>3, <1>8 DEF Concludes
    <3>6. new = {} => Cursors(k)' = {}
      <4>1. new = {} => session'[k].message = 0
        BY <1>3, <1>8 DEF Concludes
      <4> QED BY <1>1, <3>4, <4>1 DEF Cursors
    <3> QED BY <1>3, <1>8, <3>2, <3>4, <3>5, <3>6 DEF Unraced
  <2> QED BY <1>2, <1>8, <2>1, <2>2, <2>3 DEF SessionHolds
<1> QED BY <1>1, <1>2, <1>3, <1>4, <1>5, <1>7, <1>8

LEMMA ReplyTurnEnds == ReplyIInv /\ Reply!TurnEnd => ReplyIInv'
<1> SUFFICES ASSUME ReplyIInv, Reply!TurnEnd PROVE ReplyIInv'
  OBVIOUS
<1>1. PICK deliver \in BOOLEAN : deliver = (accumulated > 0 /\ ~explicitSend)
  OBVIOUS
<1>2. PICK c : c = IF deliver
                   THEN [Reply!Call("finalize", stream, accumulated,
                             IF Reply!Streamed THEN "edit" ELSE "send") EXCEPT !.turn = turn]
                   ELSE Reply!Call("cancel", stream, 0, "edit")
  OBVIOUS
<1>3. PICK new : new = IF deliver \/ Reply!Streamed THEN {c} ELSE {}
  OBVIOUS
<1>4. /\ inTurn /\ inTurn' = FALSE /\ ticking' = FALSE /\ partial' = 0 /\ lastPushed' = 0
      /\ accumulated' = 0 /\ explicitSend' = FALSE /\ Reply!EndStream
      /\ calls' = calls \cup new
      /\ verdict' = [verdict EXCEPT ![turn] = IF deliver THEN "due" ELSE @]
      /\ UNCHANGED <<messages, turn, reply, stuck>>
  BY <1>1, <1>2, <1>3 DEF Reply!TurnEnd, Reply!StopStream, Reply!Strip
<1>5. route' \in {"none", "stored", "derived"}
  BY DEF Reply!TurnEnd, ReplyIInv, Reply!TypeOK
<1>6. /\ turn \in 1 .. Turns /\ verdict[turn] = "none"
      /\ verdict \in [1 .. Turns -> {"none", "due", "succeeded", "failed"}]
      /\ stream \in Nat /\ stream \in 0 .. Len(session) /\ accumulated \in Reply!Texts
  BY <1>4, ReplyTypes DEF ReplyIInv, VerdictsFollow, Reply!TypeOK
<1>7. Reply!Streamed <=> stream # 0 /\ session[stream].message # 0
  BY ReplyBounds DEF Reply!Streamed
<1>8. /\ c \in Reply!CallType /\ c.s = stream
      /\ deliver => /\ c.kind = "finalize" /\ c.turn = turn
                    /\ c.stage = IF Reply!Streamed THEN "edit" ELSE "send"
      /\ ~deliver => c.kind = "cancel" /\ c.stage = "edit"
  <2>1. CASE deliver
    <3>1. PICK stage \in {"edit", "send"} : stage = IF Reply!Streamed THEN "edit" ELSE "send"
      OBVIOUS
    <3>2. c = [kind |-> "finalize", s |-> stream, text |-> accumulated, stage |-> stage, turn |-> turn]
      BY <1>2, <2>1, <3>1 DEF Reply!Call
    <3> QED BY <1>6, <2>1, <3>1, <3>2 DEF Reply!CallType
  <2>2. CASE ~deliver
    <3>1. c = [kind |-> "cancel", s |-> stream, text |-> 0, stage |-> "edit", turn |-> 0]
      BY <1>2, <2>2 DEF Reply!Call
    <3> QED BY <1>6, <2>2, <3>1, ReplyBounds DEF Reply!CallType
  <2> QED BY <2>1, <2>2
<1>9. Concludes(new)
  <2>1. ASSUME deliver \/ Reply!Streamed
        PROVE  /\ CallFits(c, session[stream]) /\ c.kind \in {"finalize", "cancel"}
               /\ c.stage # "edit" => stream = 0 \/ session[stream].message = 0
    BY <1>7, <1>8, <2>1 DEF CallFits
  <2> QED BY <1>3, <1>4, <1>7, <1>8, <2>1 DEF Concludes
<1>10. new \in SUBSET Reply!CallType
  BY <1>3, <1>8
<1>11. PICK k \in Nat : k = stream
  BY <1>6
<1>12. /\ k \in 0 .. Len(session') /\ Concerns(k) /\ SessionHolds(k)'
       /\ stream' \in 0 .. Len(session')
       /\ session' \in Seq(Reply!SessionType) /\ raced' \subseteq Nat
       /\ calls' \subseteq Reply!CallType /\ \A d \in calls' : d.s \in 0 .. Len(session')
  BY <1>9, <1>10, <1>11, ReplyStreamEnds
<1>13. Reply!TypeOK'
  <2>1. verdict' \in [1 .. Turns -> {"none", "due", "succeeded", "failed"}]
    BY <1>4, <1>6
  <2>2. /\ accumulated' \in Reply!Texts /\ partial' \in 0 .. 1 /\ lastPushed' \in Reply!Texts
        /\ accumulated' + partial' \in Reply!Texts /\ ticking' \in BOOLEAN /\ explicitSend' \in BOOLEAN
    BY <1>4, NoText
  <2> QED BY <1>4, <1>5, <1>6, <1>12, <2>1, <2>2 DEF ReplyIInv, Reply!TypeOK
<1>14. Finals' = IF deliver THEN Finals \cup {c} ELSE Finals
  BY <1>3, <1>4, <1>8 DEF Finals
<1>15. /\ \A t \in 1 .. Turns : t # turn => verdict'[t] = verdict[t]
       /\ verdict'[turn] = IF deliver THEN "due" ELSE "none"
  BY <1>4, <1>6
<1>16. VerdictsFollow'
  <2>1. /\ \A t \in 1 .. Turns : verdict[t] = "due" <=> \E d \in Finals : d.turn = t
        /\ \A d, e \in Finals : d.turn = e.turn => d = e
        /\ \A d \in Finals : d.turn \in 1 .. Turns
        /\ \A t \in 1 .. Turns : t > turn => verdict[t] = "none"
    BY DEF ReplyIInv, VerdictsFollow
  <2>2. \A d \in Finals : d.turn # turn
    BY <1>6, <2>1
  <2>3. \A t \in 1 .. Turns : verdict'[t] = "due" <=> \E d \in Finals' : d.turn = t
    BY <1>8, <1>14, <1>15, <2>1, <2>2
  <2>4. \A d, e \in Finals' : d.turn = e.turn => d = e
    BY <1>8, <1>14, <2>1, <2>2
  <2>5. \A d \in Finals' : d.turn \in 1 .. Turns
    BY <1>6, <1>8, <1>14, <2>1
  <2>6. \A t \in 1 .. Turns : t > turn' => verdict'[t] = "none"
    BY <1>4, <1>6, <1>15, <2>1
  <2> QED BY <1>4, <2>3, <2>4, <2>5, <2>6 DEF VerdictsFollow
<1>17. \A t \in 1 .. Turns : verdict'[t] = "succeeded" => verdict[t] = "succeeded" /\ reply'[t] = reply[t]
  BY <1>4, <1>15
<1> QED BY <1>12, <1>13, <1>16, <1>17, ReplyStepKeeps

LEMMA ReplyErrs == ReplyIInv /\ Reply!ChatError => ReplyIInv'
<1> SUFFICES ASSUME ReplyIInv, Reply!ChatError PROVE ReplyIInv'
  OBVIOUS
<1>1. /\ inTurn' = FALSE /\ ticking' = FALSE /\ partial' = 0 /\ lastPushed' = 0
      /\ accumulated' = 0 /\ explicitSend' = FALSE
      /\ UNCHANGED <<messages, turn, verdict, reply, stuck>>
      /\ \/ UNCHANGED <<stream, session, calls, raced>>
         \/ Reply!EndStream /\ calls' = calls \cup Reply!Strip
  BY DEF Reply!ChatError, Reply!StopStream
<1>2. route' \in {"none", "stored", "derived"}
  BY DEF Reply!ChatError, ReplyIInv, Reply!TypeOK
<1>3. turn \in 0 .. Turns /\ stream \in Nat
  BY ReplyTypes DEF ReplyIInv, Reply!TypeOK
<1>6. /\ accumulated' \in Reply!Texts /\ partial' \in 0 .. 1 /\ lastPushed' \in Reply!Texts
      /\ accumulated' + partial' \in Reply!Texts /\ ticking' \in BOOLEAN /\ explicitSend' \in BOOLEAN
  BY <1>1, NoText
<1>4. CASE UNCHANGED <<stream, session, calls, raced>>
  <2>1. Reply!TypeOK'
    BY <1>1, <1>2, <1>4, <1>6 DEF ReplyIInv, Reply!TypeOK
  <2>2. VerdictsFollow'
    BY <1>1, <1>3, <1>4, VerdictsUnconcerned DEF Finals
  <2> QED BY <1>1, <1>4, <2>1, <2>2, ReplyQuiet
<1>5. CASE Reply!EndStream /\ calls' = calls \cup Reply!Strip
  <2>1. PICK new : new = Reply!Strip
    OBVIOUS
  <2>2. PICK c : c = [kind |-> "cancel", s |-> stream, text |-> 0, stage |-> "edit", turn |-> 0]
    OBVIOUS
  <2>3. /\ c \in Reply!CallType /\ c.s = stream /\ c.kind = "cancel" /\ c.stage = "edit"
    BY <1>3, <2>2, ReplyBounds DEF Reply!CallType
  <2>4. new = IF stream # 0 /\ session[stream].message # 0 THEN {c} ELSE {}
    BY <2>1, <2>2, ReplyBounds DEF Reply!Strip, Reply!Streamed, Reply!Call
  <2>5. new \in SUBSET Reply!CallType /\ \A d \in new : d = c /\ stream # 0 /\ session[stream].message # 0
    BY <2>3, <2>4
  <2>6. Concludes(new)
    BY <1>1, <1>5, <2>1, <2>3, <2>4, <2>5 DEF Concludes, CallFits
  <2>7. PICK k \in Nat : k = stream
    BY <1>3
  <2>8. /\ k \in 0 .. Len(session') /\ Concerns(k) /\ SessionHolds(k)'
        /\ stream' \in 0 .. Len(session')
        /\ session' \in Seq(Reply!SessionType) /\ raced' \subseteq Nat
        /\ calls' \subseteq Reply!CallType /\ \A d \in calls' : d.s \in 0 .. Len(session')
    BY <2>5, <2>6, <2>7, ReplyStreamEnds
  <2>9. Reply!TypeOK'
    BY <1>1, <1>2, <1>6, <2>8 DEF ReplyIInv, Reply!TypeOK
  <2>10. Finals' = Finals
    BY <1>5, <2>1, <2>3, <2>5 DEF Finals
  <2>11. VerdictsFollow'
    BY <1>1, <1>3, <2>10, VerdictsUnconcerned
  <2> QED BY <1>1, <2>8, <2>9, <2>11, ReplyStepKeeps
<1> QED BY <1>1, <1>4, <1>5

----------------------------------------------------------------------------
\* Telegram answers.

\* The session of a call: one that starts or updates has one.
LEMMA ReplyCall ==
    ASSUME ReplyIInv, NEW c \in calls
    PROVE  /\ c \in Reply!CallType /\ c.s \in 0 .. Len(session) /\ c.s \in Nat
           /\ SessionHolds(c.s) /\ CallFits(c, session[c.s])
           /\ c.s # 0 => c.s \in 1 .. Len(session) /\ session[c.s] \in Reply!SessionType
<1>1. /\ c \in Reply!CallType /\ c.s \in 0 .. Len(session) /\ Len(session) \in Nat
      /\ \A s \in 1 .. Len(session) : session[s] \in Reply!SessionType
  BY ReplyTypes DEF ReplyIInv
<1>2. SessionHolds(c.s)
  BY <1>1 DEF ReplyIInv
<1>3. CallFits(c, session[c.s])
  BY <1>2 DEF SessionHolds
<1> QED BY <1>1, <1>2, <1>3

\* A call returns: what remains of it, what becomes of its session.
LEMMA ReplyStarted ==
    ASSUME ReplyIInv, NEW c \in calls, NEW ok \in BOOLEAN, Reply!StartReturns(c, ok)
    PROVE  ReplyIInv'
<1>1. PICK k : k = c.s
  OBVIOUS
<1>2. PICK o : o = [session[k] EXCEPT
           !.tier = IF ok THEN @ ELSE "edit",
           !.draftOk = @ \/ (ok /\ session[k].tier = "draft"), !.presence = TRUE]
  OBVIOUS
<1>3. /\ c.kind = "start" /\ calls' = calls \ {c} /\ session' = [session EXCEPT ![k] = o]
      /\ UNCHANGED <<route, accumulated, partial, lastPushed, ticking, explicitSend>>
      /\ UNCHANGED <<stream, messages, turn, inTurn, verdict, reply, raced, stuck>>
  <2>1. c.kind = "start" /\ calls' = calls \ {c}
    BY DEF Reply!StartReturns
  <2>2. session' = [session EXCEPT ![k] = o]
    BY <1>1, <1>2 DEF Reply!StartReturns
  <2>3. /\ UNCHANGED <<route, accumulated, partial, lastPushed, ticking, explicitSend>>
        /\ UNCHANGED <<stream, messages, turn, inTurn, verdict, reply, raced, stuck>>
    BY DEF Reply!StartReturns, Reply!bridgeVars, Reply!turnVars
  <2> QED BY <2>1, <2>2, <2>3
<1>4. /\ k # 0 /\ k \in 1 .. Len(session) /\ session[k] \in Reply!SessionType
      /\ SessionHolds(k) /\ k \in Nat
  BY <1>1, <1>3, ReplyCall DEF CallFits
<1>5. o \in Reply!SessionType /\ o.message = session[k].message
  <2>1. PICK tier \in {"draft", "edit"} : tier = IF ok THEN session[k].tier ELSE "edit"
    BY <1>4 DEF Reply!SessionType
  <2>2. PICK first \in BOOLEAN : first = (session[k].draftOk \/ (ok /\ session[k].tier = "draft"))
    OBVIOUS
  <2>3. o = [session[k] EXCEPT !.tier = tier, !.draftOk = first, !.presence = TRUE]
    BY <1>2, <1>4, <2>1, <2>2 DEF Reply!SessionType
  <2> QED BY <1>4, <2>1, <2>2, <2>3 DEF Reply!SessionType
<1>6. /\ session' \in Seq(Reply!SessionType) /\ Len(session') = Len(session) /\ session'[k] = o
      /\ \A s \in 1 .. Len(session) : s # k => session'[s] = session[s]
  BY <1>3, <1>4, <1>5, SessionPut DEF ReplyIInv
<1>7. Reply!TypeOK'
  BY <1>3, <1>6 DEF ReplyIInv, Reply!TypeOK
<1>8. VerdictsFollow'
  <2>1. Finals' = Finals /\ turn \in 0 .. Turns
    BY <1>3 DEF Finals, ReplyIInv, Reply!TypeOK
  <2> QED BY <1>3, <2>1, VerdictsUnconcerned
<1>9. Len(session) \in Nat /\ Len(messages) \in Nat
  BY ReplyTypes DEF ReplyIInv
<1>10. Concerns(k)
  BY <1>1, <1>3, <1>4, <1>6, <1>9 DEF Concerns
<1>11. SessionHolds(k)'
  <2>1. \A d \in calls' : d.s = k => CallFits(d, session'[k])
    BY <1>3, <1>4, <1>5, <1>6 DEF SessionHolds, CallFits
  <2>2. ASSUME k \notin raced'
        PROVE  Unraced(session'[k], Reply!InFlight(k)', Cursors(k)', k = stream', k \in stuck')
    <3>1. Unraced(session[k], Reply!InFlight(k), Cursors(k), k = stream, k \in stuck)
      BY <1>3, <1>4, <2>2 DEF SessionHolds
    <3>2. c \in Reply!InFlight(k)
      BY <1>1 DEF Reply!InFlight
    <3>3. k = stream
      BY <1>3, <3>1, <3>2 DEF Unraced
    <3>4. Reply!InFlight(k)' \subseteq Reply!InFlight(k) /\ Cursors(k)' = Cursors(k)
      BY <1>3 DEF Reply!InFlight, Cursors
    <3> QED BY <1>3, <1>5, <1>6, <3>1, <3>3, <3>4 DEF Unraced
  <2> QED BY <1>3, <1>4, <1>5, <1>6, <2>1, <2>2 DEF SessionHolds
<1>12. k \in 0 .. Len(session')
  BY <1>4, <1>6, <1>9
<1> QED BY <1>3, <1>7, <1>8, <1>10, <1>11, <1>12, ReplyStepKeeps

\* The chat after a message was sent, or one was edited.
LEMMA ReplySent ==
    ASSUME ReplyIInv, NEW text \in Reply!Texts, NEW cursor \in BOOLEAN, NEW k \in Nat,
           Reply!Sent(text, cursor, k), NEW m, m = Len(messages) + 1
    PROVE  /\ messages' \in Seq(Reply!MessageType) /\ Len(messages') = m /\ m \in Nat \ {0}
           /\ messages'[m].text = text /\ messages'[m].cursor = cursor /\ messages'[m].s = k
           /\ \A n \in 1 .. Len(messages) : messages'[n] = messages[n]
           /\ Cursors(k)' = IF cursor THEN Cursors(k) \cup {m} ELSE Cursors(k)
<1>1. PICK new : new = [text |-> text, cursor |-> cursor, s |-> k]
  OBVIOUS
<1>2. /\ new \in Reply!MessageType /\ new.text = text /\ new.cursor = cursor /\ new.s = k
      /\ messages' = Append(messages, new)
  BY <1>1 DEF Reply!Sent, Reply!MessageType
<1>3. messages \in Seq(Reply!MessageType) /\ Len(messages) \in Nat
  BY ReplyTypes DEF ReplyIInv, Reply!TypeOK
<1>4. /\ messages' \in Seq(Reply!MessageType) /\ Len(messages') = m
      /\ \A n \in 1 .. Len(messages) : messages'[n] = messages[n]
      /\ messages'[m] = new
  BY <1>2, <1>3, AppendProperties
<1>5. \A n \in 1 .. m : n \in 1 .. Len(messages) \/ n = m
  BY <1>3
<1>6. m \in 1 .. m /\ m \notin 1 .. Len(messages) /\ \A n \in 1 .. Len(messages) : n \in 1 .. m
  BY <1>3
<1>7. Cursors(k)' = IF cursor THEN Cursors(k) \cup {m} ELSE Cursors(k)
  BY <1>2, <1>4, <1>5, <1>6 DEF Cursors
<1> QED BY <1>2, <1>3, <1>4, <1>7

Edits(m, text, cursor, k) ==
    /\ m \in 1 .. Len(messages) /\ text \in Reply!Texts /\ cursor \in BOOLEAN /\ messages[m].s = k
    /\ Reply!Edited(m, text, cursor)

LEMMA ReplyEdited ==
    ASSUME ReplyIInv, NEW m, NEW text, NEW cursor, NEW k, Edits(m, text, cursor, k)
    PROVE  /\ messages' \in Seq(Reply!MessageType) /\ Len(messages') = Len(messages)
           /\ messages'[m].text = text /\ messages'[m].cursor = cursor
           /\ \A n \in 1 .. Len(messages) : messages'[n].s = messages[n].s
           /\ \A n \in 1 .. Len(messages) : n # m => messages'[n] = messages[n]
           /\ Cursors(k)' = IF cursor THEN Cursors(k) \cup {m} ELSE Cursors(k) \ {m}
<1>1. PICK new : new = [messages[m] EXCEPT !.text = text, !.cursor = cursor]
  OBVIOUS
<1>2. messages \in Seq(Reply!MessageType) /\ Len(messages) \in Nat /\ messages[m] \in Reply!MessageType
  BY ReplyTypes DEF Edits, ReplyIInv, Reply!TypeOK
<1>3. /\ new \in Reply!MessageType /\ new.text = text /\ new.cursor = cursor /\ new.s = k
  BY <1>1, <1>2 DEF Edits, Reply!MessageType
<1>4. messages' = [messages EXCEPT ![m] = new]
  BY <1>1, <1>2 DEF Edits, Reply!Edited
<1>5. /\ messages' \in Seq(Reply!MessageType) /\ Len(messages') = Len(messages)
      /\ messages'[m] = new
      /\ \A n \in 1 .. Len(messages) : n # m => messages'[n] = messages[n]
  BY <1>2, <1>3, <1>4, ExceptSeq DEF Edits
<1>6. \A n \in 1 .. Len(messages) : messages'[n].s = messages[n].s
  BY <1>3, <1>5 DEF Edits
<1>7. Cursors(k)' = IF cursor THEN Cursors(k) \cup {m} ELSE Cursors(k) \ {m}
  BY <1>3, <1>5 DEF Edits, Cursors
<1> QED BY <1>3, <1>5, <1>6, <1>7

LEMMA ReplyUpdated ==
    ASSUME ReplyIInv, NEW c \in calls, NEW ok \in BOOLEAN, Reply!UpdateReturns(c, ok)
    PROVE  ReplyIInv'
<1>1. PICK k : k = c.s
  OBVIOUS
<1>2. PICK o : o = session[k]
  OBVIOUS
<1>3. PICK demoted \in BOOLEAN : demoted = (c.stage = "draft" /\ ~ok /\ ~o.draftOk)
  OBVIOUS
<1>4. PICK p : p = [o EXCEPT
           !.tier = IF demoted THEN "edit" ELSE @,
           !.draftOk = @ \/ (ok /\ c.stage = "draft"),
           !.last = IF ok THEN c.text ELSE @,
           !.message = IF ok /\ c.stage = "send" THEN Len(messages) + 1 ELSE @]
  OBVIOUS
<1>5. PICK d : d = [c EXCEPT !.stage = IF o.message = 0 THEN "send" ELSE "edit"]
  OBVIOUS
<1>6. PICK new : new = IF demoted THEN {d} ELSE {}
  OBVIOUS
<1>7. /\ c.kind = "update" /\ calls' = (calls \ {c}) \cup new
      /\ session' = [session EXCEPT ![k] = p]
      /\ IF ok /\ c.stage = "send" THEN Reply!Sent(c.text, TRUE, k)
         ELSE IF ok /\ c.stage = "edit" THEN Reply!Edited(o.message, c.text, TRUE)
         ELSE UNCHANGED messages
      /\ UNCHANGED <<route, accumulated, partial, lastPushed, ticking, explicitSend>>
      /\ UNCHANGED <<stream, turn, inTurn, verdict, reply, raced, stuck>>
  <2>1. c.kind = "update" /\ calls' = (calls \ {c}) \cup new
    BY <1>1, <1>2, <1>3, <1>5, <1>6, ReplyBounds DEF Reply!UpdateReturns
  <2>2. session' = [session EXCEPT ![k] = p]
    BY <1>1, <1>2, <1>3, <1>4 DEF Reply!UpdateReturns
  <2>3. IF ok /\ c.stage = "send" THEN Reply!Sent(c.text, TRUE, k)
        ELSE IF ok /\ c.stage = "edit" THEN Reply!Edited(o.message, c.text, TRUE)
        ELSE UNCHANGED messages
    BY <1>1, <1>2 DEF Reply!UpdateReturns
  <2>4. /\ UNCHANGED <<route, accumulated, partial, lastPushed, ticking, explicitSend>>
        /\ UNCHANGED <<stream, turn, inTurn, verdict, reply, raced, stuck>>
    BY DEF Reply!UpdateReturns, Reply!bridgeVars, Reply!turnVars
  <2> QED BY <2>1, <2>2, <2>3, <2>4
<1>8. /\ k # 0 /\ k \in 1 .. Len(session) /\ o \in Reply!SessionType /\ k \in Nat
      /\ SessionHolds(k) /\ CallFits(c, o) /\ c \in Reply!CallType
      /\ c.stage \in {"draft", "send", "edit"} /\ c.text \in Reply!Texts
      /\ Len(session) \in Nat /\ Len(messages) \in Nat
  <2>1. c \in Reply!CallType /\ CallFits(c, session[c.s]) /\ SessionHolds(c.s) /\ c.s \in Nat
    BY ReplyCall
  <2>2. c.s # 0 /\ c.stage \in {"draft", "send", "edit"}
    BY <1>7, <2>1 DEF CallFits
  <2>3. c.s \in 1 .. Len(session) /\ session[c.s] \in Reply!SessionType
    BY <2>2, ReplyCall
  <2>4. Len(session) \in Nat /\ Len(messages) \in Nat
    BY ReplyTypes DEF ReplyIInv
  <2> QED BY <1>1, <1>2, <2>1, <2>2, <2>3, <2>4 DEF Reply!CallType
<1>9. /\ p \in Reply!SessionType
      /\ p.message = IF ok /\ c.stage = "send" THEN Len(messages) + 1 ELSE o.message
  <2>1. PICK tier \in {"draft", "edit"} : tier = IF demoted THEN "edit" ELSE o.tier
    BY <1>8 DEF Reply!SessionType
  <2>2. PICK first \in BOOLEAN : first = (o.draftOk \/ (ok /\ c.stage = "draft"))
    OBVIOUS
  <2>3. PICK last \in Reply!Texts : last = IF ok THEN c.text ELSE o.last
    BY <1>8 DEF Reply!SessionType
  <2>4. PICK m \in Nat : m = IF ok /\ c.stage = "send" THEN Len(messages) + 1 ELSE o.message
    BY <1>8 DEF Reply!SessionType
  <2>5. p = [o EXCEPT !.tier = tier, !.draftOk = first, !.last = last, !.message = m]
    BY <1>4, <1>8, <2>1, <2>2, <2>3, <2>4 DEF Reply!SessionType
  <2> QED BY <1>8, <2>1, <2>2, <2>3, <2>4, <2>5 DEF Reply!SessionType
<1>10. /\ session' \in Seq(Reply!SessionType) /\ Len(session') = Len(session) /\ session'[k] = p
       /\ \A s \in 1 .. Len(session) : s # k => session'[s] = session[s]
  BY <1>7, <1>8, <1>9, SessionPut DEF ReplyIInv
<1>11. /\ d \in Reply!CallType /\ d.s = k /\ d.kind = "update"
       /\ d.stage = IF o.message = 0 THEN "send" ELSE "edit"
  <2>1. PICK stage \in {"send", "edit"} : stage = IF o.message = 0 THEN "send" ELSE "edit"
    OBVIOUS
  <2>2. d = [c EXCEPT !.stage = stage]
    BY <1>5, <2>1
  <2> QED BY <1>1, <1>7, <1>8, <2>1, <2>2 DEF Reply!CallType
<1>12. /\ messages' \in Seq(Reply!MessageType) /\ Len(messages) <= Len(messages') /\ Len(messages') \in Nat
       /\ \A n \in 1 .. Len(messages) :
              /\ messages'[n].s = messages[n].s
              /\ messages[n].s # k => messages'[n] = messages[n]
       /\ \A n \in 1 .. Len(messages') : n > Len(messages) => messages'[n].s = k
       /\ p.message # 0 => p.message \in 1 .. Len(messages') /\ messages'[p.message].s = k
       /\ Cursors(k)' \subseteq Cursors(k) \cup {p.message}
  <2>1. o.message # 0 => o.message \in 1 .. Len(messages) /\ messages[o.message].s = k
    BY <1>2, <1>8 DEF SessionHolds
  <2>2. CASE ok /\ c.stage = "send"
    <3>1. PICK m : m = Len(messages) + 1
      OBVIOUS
    <3>2. PICK text \in Reply!Texts, cursor \in BOOLEAN : text = c.text /\ cursor = TRUE
      BY <1>8
    <3>3. Reply!Sent(text, cursor, k)
      BY <1>7, <2>2, <3>2
    <3>4. /\ messages' \in Seq(Reply!MessageType) /\ Len(messages') = m /\ m \in Nat \ {0}
          /\ messages'[m].s = k
          /\ \A n \in 1 .. Len(messages) : messages'[n] = messages[n]
          /\ Cursors(k)' = IF cursor THEN Cursors(k) \cup {m} ELSE Cursors(k)
      BY <1>8, <3>1, <3>3, ReplySent
    <3>5. Cursors(k)' = Cursors(k) \cup {m}
      BY <3>2, <3>4
    <3> QED BY <1>8, <1>9, <2>2, <3>1, <3>4, <3>5
  <2>3. CASE ok /\ c.stage = "edit"
    <3>1. o.message \in 1 .. Len(messages) /\ messages[o.message].s = k /\ c.stage # "send"
      BY <1>8, <2>1, <2>3 DEF CallFits
    <3>2. PICK m \in 1 .. Len(messages) : m = o.message
      BY <3>1
    <3>3. PICK text \in Reply!Texts, cursor \in BOOLEAN : text = c.text /\ cursor = TRUE
      BY <1>8
    <3>4. Edits(m, text, cursor, k)
      BY <1>7, <2>3, <3>1, <3>2, <3>3 DEF Edits
    <3>5. /\ messages' \in Seq(Reply!MessageType) /\ Len(messages') = Len(messages)
          /\ \A n \in 1 .. Len(messages) : messages'[n].s = messages[n].s
          /\ \A n \in 1 .. Len(messages) : n # m => messages'[n] = messages[n]
          /\ Cursors(k)' = IF cursor THEN Cursors(k) \cup {m} ELSE Cursors(k) \ {m}
      BY <3>4, ReplyEdited
    <3>6. Cursors(k)' = Cursors(k) \cup {m}
      BY <3>3, <3>5
    <3> QED BY <1>8, <1>9, <2>1, <3>1, <3>2, <3>5, <3>6
  <2>4. CASE ~ok \/ c.stage = "draft"
    <3>1. messages' = messages /\ p.message = o.message
      BY <1>7, <1>9, <2>4
    <3>2. Cursors(k)' = Cursors(k)
      BY <3>1 DEF Cursors
    <3> QED BY <1>8, <2>1, <3>1, <3>2 DEF ReplyIInv, Reply!TypeOK
  <2> QED BY <1>8, <2>2, <2>3, <2>4
<1>13. calls' \subseteq Reply!CallType /\ \A e \in calls' : e.s \in 0 .. Len(session')
  BY <1>6, <1>7, <1>8, <1>10, <1>11, ReplyTypes DEF ReplyIInv
<1>14. Reply!TypeOK'
  BY <1>7, <1>10, <1>12, <1>13 DEF ReplyIInv, Reply!TypeOK
<1>15. VerdictsFollow'
  <2>1. Finals' = Finals
    BY <1>6, <1>7, <1>11 DEF Finals
  <2>2. turn \in 0 .. Turns
    BY DEF ReplyIInv, Reply!TypeOK
  <2> QED BY <1>7, <2>1, <2>2, VerdictsUnconcerned
<1>16. Concerns(k)
  <2>1. \A e \in calls \cup calls' : e.s # k => e \in calls /\ e \in calls'
    BY <1>1, <1>6, <1>7, <1>11
  <2> QED BY <1>1, <1>7, <1>8, <1>10, <1>12, <2>1 DEF Concerns
<1>17. SessionHolds(k)'
  <2>1. ASSUME NEW e \in calls', e.s = k PROVE CallFits(e, session'[k])
    <3>1. o.message # 0 => p.message # 0
      BY <1>8, <1>9
    <3>2. CASE e \in calls
      <4>1. CallFits(e, o)
        BY <1>2, <1>8, <2>1, <3>2 DEF SessionHolds
      <4> QED BY <1>10, <3>1, <4>1 DEF CallFits
    <3>3. CASE e \notin calls
      <4>1. e = d
        BY <1>6, <1>7, <3>3
      <4> QED BY <1>8, <1>10, <1>11, <3>1, <4>1 DEF CallFits
    <3> QED BY <3>2, <3>3
  <2>2. ASSUME k \notin raced'
        PROVE  Unraced(session'[k], Reply!InFlight(k)', Cursors(k)', k = stream', k \in stuck')
    <3>1. /\ Cursors(k) \subseteq {o.message}
          /\ k = stream
          /\ \A e \in Reply!InFlight(k) : /\ e.kind \in {"start", "update"}
                                          /\ e.stage = "send" => o.message = 0
          /\ \A e, f \in Reply!InFlight(k) : e.kind = "update" /\ f.kind = "update" => e = f
          /\ c \in Reply!InFlight(k)
      <4>1. Unraced(o, Reply!InFlight(k), Cursors(k), k = stream, k \in stuck)
        BY <1>2, <1>7, <1>8, <2>2 DEF SessionHolds
      <4>2. c \in Reply!InFlight(k)
        BY <1>1 DEF Reply!InFlight
      <4> QED BY <1>7, <4>1, <4>2 DEF Unraced
    <3>2. Cursors(k)' \subseteq {p.message}
      <4>1. CASE ok /\ c.stage = "send"
        <5>1. Cursors(k) \subseteq {0}
          BY <3>1, <4>1
        <5>2. Cursors(k) = {}
          BY <5>1 DEF Cursors
        <5> QED BY <1>12, <5>2
      <4>2. CASE ~(ok /\ c.stage = "send")
        BY <1>9, <1>12, <3>1, <4>2
      <4> QED BY <4>1, <4>2
    <3>3. \A e \in Reply!InFlight(k)' : (e = d /\ e \in new) \/ (e \in Reply!InFlight(k) /\ e # c)
      BY <1>6, <1>7 DEF Reply!InFlight
    <3>4. \A e \in Reply!InFlight(k)' : (e.kind = "start" /\ e.stage = "api") \/ (e = d /\ e \in new)
      <4>1. \A e \in Reply!InFlight(k) : e # c => e.kind = "start"
        BY <1>7, <3>1
      <4>2. \A e \in Reply!InFlight(k) : e.kind = "start" => e.stage = "api"
        BY <1>8 DEF SessionHolds, CallFits, Reply!InFlight
      <4> QED BY <3>3, <4>1, <4>2
    <3>5. ASSUME NEW e \in Reply!InFlight(k)'
          PROVE  e.kind \in {"start", "update"} /\ (e.stage = "send" => p.message = 0)
      <4>1. e \in new => demoted
        BY <1>6
      <4>2. demoted => ~ok
        BY <1>3
      <4> QED BY <1>9, <1>11, <3>4, <4>1, <4>2
    <3>6. \A e, f \in Reply!InFlight(k)' : e.kind = "update" /\ f.kind = "update" => e = f
      BY <3>4
    <3> QED BY <1>7, <1>10, <3>1, <3>2, <3>5, <3>6 DEF Unraced
  <2>3. p.message # 0 => p.message \in 1 .. Len(messages') /\ messages'[p.message].s = k
    BY <1>12
  <2> QED BY <1>8, <1>10, <2>1, <2>2, <2>3 DEF SessionHolds
<1>18. k \in 0 .. Len(session')
  BY <1>8, <1>10
<1> QED BY <1>7, <1>14, <1>15, <1>16, <1>17, <1>18, ReplyStepKeeps

\* A call that ends a stream came back, for good or to be tried once more (new).
Answers(c, k, new) ==
    /\ c \in calls /\ c.kind \in {"finalize", "cancel"} /\ c.s = k
    /\ calls' = (calls \ {c}) \cup new
    /\ UNCHANGED <<stream, session, raced>>
    /\ stuck' = stuck \/ (stuck' = stuck \cup {k} /\ k # 0)
    /\ messages' \in Seq(Reply!MessageType) /\ Len(messages) <= Len(messages')
    /\ \A n \in 1 .. Len(messages) :
           /\ messages'[n].s = messages[n].s
           /\ messages[n].s = 0 \/ messages[n].s # k => messages'[n] = messages[n]
    /\ \A n \in 1 .. Len(messages') : n > Len(messages) => messages'[n].s = k
    /\ Cursors(k)' \subseteq Cursors(k)
    /\ c.stage = "edit" /\ k \notin stuck' => session[k].message \notin Cursors(k)'
    /\ \A d, e \in new : d = e
    /\ \A d \in new :
           /\ d \in Reply!CallType /\ d.s = k /\ d.kind = "finalize"
           /\ d.stage \in {"send", "floor"} /\ (c.stage = "edit" => k \in stuck')

LEMMA ReplyAnswered ==
    ASSUME ReplyIInv, NEW c, NEW k, NEW new, Answers(c, k, new)
    PROVE  /\ k \in 0 .. Len(session') /\ Concerns(k) /\ SessionHolds(k)'
           /\ calls' \subseteq Reply!CallType /\ (\A d \in calls' : d.s \in 0 .. Len(session'))
           /\ stuck' \subseteq Nat
           /\ k # 0 /\ k \notin raced =>
                  k # stream /\ \A d \in calls : d.s = k => d = c
<1>1. /\ c \in calls /\ c.kind \in {"finalize", "cancel"} /\ c.s = k
      /\ calls' = (calls \ {c}) \cup new
      /\ session' = session /\ raced' = raced /\ stream' = stream
  BY DEF Answers
<1>2. /\ k \in 0 .. Len(session) /\ k \in Nat /\ SessionHolds(k) /\ CallFits(c, session[k])
      /\ Len(session) \in Nat /\ Len(messages) \in Nat
  BY <1>1, ReplyCall, ReplyTypes DEF ReplyIInv
<1>3. \A d \in new : d \in Reply!CallType /\ d.s = k /\ d.kind = "finalize" /\ d.stage \in {"send", "floor"}
  BY DEF Answers
<1>4. calls' \subseteq Reply!CallType /\ \A d \in calls' : d.s \in 0 .. Len(session')
  BY <1>1, <1>2, <1>3, ReplyTypes DEF ReplyIInv
<1>5. stuck' \subseteq Nat
  BY <1>2 DEF Answers, ReplyIInv, Reply!TypeOK
<1>6. Concerns(k)
  <2>1. \A d \in calls \cup calls' : d.s # k => d \in calls /\ d \in calls'
    BY <1>1, <1>3
  <2>2. \A s \in 1 .. Len(session) : s # k => (s \in stuck <=> s \in stuck')
    BY DEF Answers
  <2>3. /\ Len(messages) <= Len(messages')
        /\ \A n \in 1 .. Len(messages) :
               /\ messages'[n].s = messages[n].s
               /\ messages[n].s = 0 \/ messages[n].s # k => messages'[n] = messages[n]
        /\ \A n \in 1 .. Len(messages') : n > Len(messages) => messages'[n].s = k
    BY DEF Answers
  <2> QED BY <1>1, <1>2, <2>1, <2>2, <2>3 DEF Concerns
<1>7. ASSUME k # 0, k \notin raced
      PROVE  /\ k # stream /\ ~session[k].presence /\ Cursors(k) \subseteq {session[k].message}
             /\ \A d \in calls : d.s = k => d = c
             /\ k \notin stuck /\ c.stage # "edit" => session[k].message = 0
  <2>1. Unraced(session[k], Reply!InFlight(k), Cursors(k), k = stream, k \in stuck)
    BY <1>2, <1>7 DEF SessionHolds
  <2>2. c \in Reply!InFlight(k)
    BY <1>1 DEF Reply!InFlight
  <2>3. k # stream
    BY <1>1, <2>1, <2>2 DEF Unraced
  <2> QED BY <2>1, <2>2, <2>3 DEF Unraced, Reply!InFlight
<1>8. SessionHolds(k)'
  <2>1. ASSUME NEW d \in calls', d.s = k PROVE CallFits(d, session'[k])
    <3>1. CASE d \in calls
      BY <1>1, <1>2, <2>1, <3>1 DEF SessionHolds
    <3>2. CASE d \in new
      BY <1>3, <3>2 DEF CallFits
    <3> QED BY <1>1, <3>1, <3>2
  <2>2. ASSUME k # 0, session'[k].message # 0
        PROVE  /\ session'[k].message \in 1 .. Len(messages')
               /\ messages'[session'[k].message].s = k
    <3>1. session[k].message \in 1 .. Len(messages) /\ messages[session[k].message].s = k
      BY <1>1, <1>2, <2>2 DEF SessionHolds
    <3>2. /\ Len(messages') \in Nat /\ Len(messages) <= Len(messages')
          /\ \A n \in 1 .. Len(messages) : messages'[n].s = messages[n].s
      BY LenProperties DEF Answers
    <3> QED BY <1>1, <1>2, <3>1, <3>2
  <2>3. ASSUME k # 0, k \notin raced'
        PROVE  Unraced(session'[k], Reply!InFlight(k)', Cursors(k)', k = stream', k \in stuck')
    <3>1. Reply!InFlight(k)' = new
      BY <1>1, <1>3, <1>7, <2>3 DEF Reply!InFlight
    <3>2. Cursors(k)' \subseteq {session[k].message}
      BY <1>1, <1>7, <2>3 DEF Answers
    <3>3. k \notin stuck' => k \notin stuck
      BY DEF Answers
    <3>4. k \notin stuck' => \A d \in new : session[k].message = 0
      BY <1>1, <1>7, <2>3, <3>3 DEF Answers
    <3>5. k \notin stuck' => Cursors(k)' = {}
      <4>1. ASSUME k \notin stuck', c.stage = "edit" PROVE Cursors(k)' = {}
        BY <3>2, <4>1 DEF Answers
      <4>2. ASSUME k \notin stuck', c.stage # "edit" PROVE Cursors(k)' = {}
        <5>1. session[k].message = 0
          BY <1>1, <1>7, <2>3, <3>3, <4>2
        <5>2. Cursors(k)' \subseteq {0} /\ 0 \notin Cursors(k)'
          BY <3>2, <5>1 DEF Cursors
        <5> QED BY <5>2
      <4> QED BY <4>1, <4>2
    <3>6. \A d, e \in new : d = e
      BY DEF Answers
    <3> QED BY <1>1, <1>3, <1>7, <2>3, <3>1, <3>2, <3>4, <3>5, <3>6 DEF Unraced
  <2> QED BY <2>1, <2>2, <2>3 DEF SessionHolds
<1> QED BY <1>1, <1>2, <1>4, <1>5, <1>6, <1>7, <1>8

LEMMA ReplyCancelled ==
    ASSUME ReplyIInv, NEW c \in calls, NEW ok \in BOOLEAN, Reply!CancelReturns(c, ok)
    PROVE  ReplyIInv'
<1>1. PICK k : k = c.s
  OBVIOUS
<1>2. /\ c.kind = "cancel" /\ calls' = calls \ {c}
      /\ IF ok THEN Reply!Edited(session[k].message, session[k].last, FALSE) /\ UNCHANGED stuck
         ELSE stuck' = stuck \cup {k} /\ UNCHANGED messages
      /\ UNCHANGED <<route, accumulated, partial, lastPushed, ticking, explicitSend>>
      /\ UNCHANGED <<stream, session, turn, inTurn, verdict, reply, raced>>
  BY <1>1 DEF Reply!CancelReturns, Reply!bridgeVars, Reply!turnVars
<1>3. /\ k \in 1 .. Len(session) /\ session[k] \in Reply!SessionType /\ SessionHolds(k) /\ k \in Nat /\ k # 0
      /\ session[k].message # 0 /\ c.stage = "edit"
  <2>1. CallFits(c, session[k]) /\ SessionHolds(k) /\ k \in Nat
    BY <1>1, ReplyCall
  <2>2. k # 0 /\ c.stage = "edit" /\ session[k].message # 0
    BY <1>1, <1>2, <2>1 DEF CallFits
  <2> QED BY <1>1, <2>1, <2>2, ReplyCall
<1>4. session[k].message \in 1 .. Len(messages) /\ messages[session[k].message].s = k
  BY <1>3 DEF SessionHolds
<1>5. Answers(c, k, {})
  <2>1. CASE ok
    <3>1. PICK m \in 1 .. Len(messages) : m = session[k].message
      BY <1>4
    <3>2. PICK text \in Reply!Texts, cursor \in BOOLEAN : text = session[k].last /\ cursor = FALSE
      BY <1>3 DEF Reply!SessionType
    <3>3. Edits(m, text, cursor, k)
      BY <1>2, <1>4, <2>1, <3>1, <3>2 DEF Edits
    <3>4. /\ messages' \in Seq(Reply!MessageType) /\ Len(messages') = Len(messages)
          /\ \A n \in 1 .. Len(messages) : messages'[n].s = messages[n].s
          /\ \A n \in 1 .. Len(messages) : n # m => messages'[n] = messages[n]
          /\ Cursors(k)' = IF cursor THEN Cursors(k) \cup {m} ELSE Cursors(k) \ {m}
      BY <3>3, ReplyEdited
    <3>5. Cursors(k)' = Cursors(k) \ {m} /\ Len(messages) \in Nat
      BY <3>2, <3>4, ReplyTypes DEF ReplyIInv
    <3> QED BY <1>1, <1>2, <1>3, <1>4, <2>1, <3>1, <3>3, <3>4, <3>5 DEF Answers
  <2>2. CASE ~ok
    <3>1. messages' = messages /\ stuck' = stuck \cup {k}
      BY <1>2, <2>2
    <3>2. messages \in Seq(Reply!MessageType) /\ Len(messages) \in Nat /\ Cursors(k)' = Cursors(k)
      BY <3>1, ReplyTypes DEF ReplyIInv, Reply!TypeOK, Cursors
    <3> QED BY <1>1, <1>2, <1>3, <3>1, <3>2 DEF Answers
  <2> QED BY <2>1, <2>2
<1>6. /\ k \in 0 .. Len(session') /\ Concerns(k) /\ SessionHolds(k)'
      /\ calls' \subseteq Reply!CallType /\ (\A d \in calls' : d.s \in 0 .. Len(session'))
      /\ stuck' \subseteq Nat
  BY <1>5, ReplyAnswered
<1>7. Reply!TypeOK'
  <2>1. messages' \in Seq(Reply!MessageType)
    BY <1>5 DEF Answers
  <2> QED BY <1>2, <1>6, <2>1 DEF ReplyIInv, Reply!TypeOK
<1>8. VerdictsFollow'
  <2>1. Finals' = Finals /\ turn \in 0 .. Turns
    BY <1>2 DEF Finals, ReplyIInv, Reply!TypeOK
  <2> QED BY <1>2, <2>1, VerdictsUnconcerned
<1> QED BY <1>2, <1>6, <1>7, <1>8, ReplyStepKeeps

\* The verdicts when a call to finalize is over.
LEMMA ReplyDelivers ==
    ASSUME ReplyIInv, NEW c \in Finals, NEW result \in {"succeeded", "failed"},
           Reply!Delivered(c, result), UNCHANGED <<turn, inTurn>>
    PROVE  /\ VerdictsFollow' /\ c.turn \in 1 .. Turns
           /\ verdict' \in [1 .. Turns -> {"none", "due", "succeeded", "failed"}]
           /\ verdict'[c.turn] = result /\ \A t \in 1 .. Turns : t # c.turn => verdict'[t] = verdict[t]
           /\ route' \in {"none", "stored", "derived"}
<1>1. /\ calls' = calls \ {c} /\ verdict' = [verdict EXCEPT ![c.turn] = result]
      /\ route' = IF route = "derived" THEN "none" ELSE route
  BY DEF Reply!Delivered
<1>2. /\ c.turn \in 1 .. Turns
      /\ verdict \in [1 .. Turns -> {"none", "due", "succeeded", "failed"}]
      /\ route \in {"none", "stored", "derived"}
  BY DEF ReplyIInv, VerdictsFollow, Reply!TypeOK
<1>3. /\ verdict' \in [1 .. Turns -> {"none", "due", "succeeded", "failed"}]
      /\ verdict'[c.turn] = result
      /\ \A t \in 1 .. Turns : t # c.turn => verdict'[t] = verdict[t]
  BY <1>1, <1>2
<1>4. verdict[c.turn] = "due"
  BY <1>2 DEF ReplyIInv, VerdictsFollow
<1>5. Finals' = Finals \ {c}
  BY <1>1 DEF Finals
<1>6. VerdictsFollow'
  <2>1. inTurn' => turn' \in 1 .. Turns /\ verdict'[turn'] = "none"
    BY <1>3, <1>4 DEF ReplyIInv, VerdictsFollow
  <2>2. \A t \in 1 .. Turns : t > turn' => verdict'[t] = "none"
    BY <1>3, <1>4 DEF ReplyIInv, VerdictsFollow
  <2>3. \A d \in Finals' : d.turn \in 1 .. Turns
    BY <1>5 DEF ReplyIInv, VerdictsFollow
  <2>4. \A d, e \in Finals' : d.turn = e.turn => d = e
    BY <1>5 DEF ReplyIInv, VerdictsFollow
  <2>5. \A t \in 1 .. Turns : verdict'[t] = "due" <=> \E d \in Finals' : d.turn = t
    BY <1>3, <1>5 DEF ReplyIInv, VerdictsFollow
  <2> QED BY <2>1, <2>2, <2>3, <2>4, <2>5 DEF VerdictsFollow
<1> QED BY <1>1, <1>2, <1>3, <1>6

\* What the three ways for a finalize to be over have in common.
Over(c, k, m, result) ==
    /\ Answers(c, k, {}) /\ c \in Finals
    /\ Reply!Delivered(c, result)
    /\ UNCHANGED <<accumulated, partial, lastPushed, ticking, explicitSend, turn, inTurn>>
    /\ result = "failed" => reply' = reply
    /\ result = "succeeded" =>
           /\ reply' = [reply EXCEPT ![c.turn] = [message |-> m, text |-> c.text]]
           /\ m \in 1 .. Len(messages') /\ messages'[m].s = k
           /\ messages'[m].text = c.text /\ ~messages'[m].cursor

LEMMA ReplyOver ==
    ASSUME ReplyIInv, NEW c, NEW k, NEW m, NEW result \in {"succeeded", "failed"},
           Over(c, k, m, result)
    PROVE  ReplyIInv'
<1>1. /\ Answers(c, k, {}) /\ c \in Finals /\ Reply!Delivered(c, result)
      /\ UNCHANGED <<accumulated, partial, lastPushed, ticking, explicitSend, turn, inTurn>>
  BY DEF Over
<1>2. /\ k \in 0 .. Len(session') /\ Concerns(k) /\ SessionHolds(k)'
      /\ calls' \subseteq Reply!CallType /\ (\A d \in calls' : d.s \in 0 .. Len(session'))
      /\ stuck' \subseteq Nat
      /\ k # 0 /\ k \notin raced => k # stream /\ \A d \in calls : d.s = k => d = c
  BY <1>1, ReplyAnswered
<1>3. /\ VerdictsFollow' /\ c.turn \in 1 .. Turns
      /\ verdict' \in [1 .. Turns -> {"none", "due", "succeeded", "failed"}]
      /\ verdict'[c.turn] = result /\ \A t \in 1 .. Turns : t # c.turn => verdict'[t] = verdict[t]
      /\ route' \in {"none", "stored", "derived"}
  BY <1>1, ReplyDelivers
<1>4. /\ messages' \in Seq(Reply!MessageType) /\ calls' = calls \ {c}
      /\ session' = session /\ stream' = stream /\ raced' = raced
  BY <1>1 DEF Answers
<1>5. /\ reply' \in [1 .. Turns -> [message : Nat, text : Reply!Texts]]
      /\ \A t \in 1 .. Turns : t # c.turn => reply'[t] = reply[t]
      /\ result = "succeeded" => reply'[c.turn] = [message |-> m, text |-> c.text]
  <2>1. reply \in [1 .. Turns -> [message : Nat, text : Reply!Texts]] /\ c.text \in Reply!Texts
    BY <1>1, ReplyTypes DEF Finals, ReplyIInv, Reply!TypeOK, Reply!CallType
  <2>2. CASE result = "failed"
    BY <2>1, <2>2 DEF Over
  <2>3. CASE result = "succeeded"
    <3>1. /\ reply' = [reply EXCEPT ![c.turn] = [message |-> m, text |-> c.text]]
          /\ m \in 1 .. Len(messages')
      BY <2>3 DEF Over
    <3>2. m \in Nat
      BY <1>4, <3>1, LenProperties
    <3>3. [message |-> m, text |-> c.text] \in [message : Nat, text : Reply!Texts]
      BY <2>1, <3>2
    <3> QED BY <1>3, <2>1, <3>1, <3>3
  <2> QED BY <2>2, <2>3
<1>6. Reply!TypeOK'
  BY <1>1, <1>2, <1>3, <1>4, <1>5 DEF ReplyIInv, Reply!TypeOK
<1>7. ASSUME result = "succeeded" PROVE ReplyStays(c.turn)'
  <2>1. PICK r : r = [message |-> m, text |-> c.text]
    OBVIOUS
  <2>2. reply'[c.turn] = r /\ r.message = m /\ r.text = c.text
    BY <1>5, <1>7, <2>1
  <2>3. /\ m \in 1 .. Len(messages') /\ messages'[m].s = k
        /\ messages'[m].text = c.text /\ ~messages'[m].cursor
    BY <1>7 DEF Over
  <2>4. k \notin raced' /\ k # 0 => k # stream' /\ \A d \in calls' : d.s # k
    BY <1>2, <1>4
  <2> QED BY <2>2, <2>3, <2>4 DEF ReplyStays
<1>8. ASSUME NEW t \in 1 .. Turns, verdict'[t] = "succeeded"
      PROVE  (verdict[t] = "succeeded" /\ reply'[t] = reply[t]) \/ ReplyStays(t)'
  <2>1. CASE t = c.turn
    BY <1>3, <1>7, <1>8, <2>1
  <2>2. CASE t # c.turn
    BY <1>3, <1>5, <1>8, <2>2
  <2> QED BY <2>1, <2>2
<1> QED BY <1>2, <1>3, <1>6, <1>8, ReplyStepKeeps

LEMMA ReplyFinalized ==
    ASSUME ReplyIInv, NEW c \in calls, NEW ok \in BOOLEAN, Reply!FinalizeReturns(c, ok)
    PROVE  ReplyIInv'
<1>1. PICK k : k = c.s
  OBVIOUS
<1>2. /\ c.kind = "finalize" /\ c \in Finals
      /\ UNCHANGED <<accumulated, partial, lastPushed, ticking, explicitSend>>
      /\ UNCHANGED <<stream, session, turn, inTurn, raced>>
  BY DEF Reply!FinalizeReturns, Finals
<1>3. /\ k \in 0 .. Len(session) /\ k \in Nat /\ SessionHolds(k) /\ c \in Reply!CallType
      /\ c.stage \in {"send", "edit", "floor"} /\ c.text \in Reply!Texts
      /\ c.stage = "edit" => k # 0 /\ session[k].message # 0
      /\ Len(session) \in Nat /\ Len(messages) \in Nat /\ messages \in Seq(Reply!MessageType)
  <2>1. /\ CallFits(c, session[k]) /\ SessionHolds(k) /\ k \in 0 .. Len(session) /\ k \in Nat
        /\ c \in Reply!CallType
    BY <1>1, ReplyCall
  <2>2. Len(session) \in Nat /\ Len(messages) \in Nat /\ messages \in Seq(Reply!MessageType)
    BY ReplyTypes DEF ReplyIInv, Reply!TypeOK
  <2>3. /\ c.stage \in {"send", "edit", "floor"}
        /\ c.stage = "edit" => k # 0 /\ session[k].message # 0
    BY <1>1, <1>2, <2>1 DEF CallFits
  <2> QED BY <2>1, <2>2, <2>3 DEF Reply!CallType
<1>4. PICK cursor \in BOOLEAN, text \in Reply!Texts : cursor = FALSE /\ text = c.text
  BY <1>3
\* the streamed message becomes the reply
<1>5. CASE /\ ok /\ c.stage = "edit"
           /\ Reply!ReplyIs(c, session[k].message)
           /\ Reply!Edited(session[k].message, c.text, FALSE) /\ UNCHANGED stuck
  <2>1. PICK m \in 1 .. Len(messages) : m = session[k].message /\ messages[m].s = k
    BY <1>3, <1>5 DEF SessionHolds
  <2>2. Edits(m, text, cursor, k)
    BY <1>4, <1>5, <2>1 DEF Edits
  <2>3. /\ messages' \in Seq(Reply!MessageType) /\ Len(messages') = Len(messages)
        /\ messages'[m].text = text /\ messages'[m].cursor = cursor
        /\ \A n \in 1 .. Len(messages) : messages'[n].s = messages[n].s
        /\ \A n \in 1 .. Len(messages) : n # m => messages'[n] = messages[n]
        /\ Cursors(k)' = IF cursor THEN Cursors(k) \cup {m} ELSE Cursors(k) \ {m}
    BY <2>2, ReplyEdited
  <2>4. /\ Cursors(k)' = Cursors(k) \ {m} /\ messages'[m].text = c.text /\ ~messages'[m].cursor
        /\ messages'[m].s = k
    BY <1>4, <2>1, <2>3
  <2>5. Reply!Delivered(c, "succeeded") /\ reply' = [reply EXCEPT ![c.turn] = [message |-> m, text |-> c.text]]
    BY <1>5, <2>1 DEF Reply!ReplyIs
  <2>6. Answers(c, k, {})
    BY <1>1, <1>2, <1>3, <1>5, <2>1, <2>3, <2>4, <2>5 DEF Answers, Reply!Delivered
  <2>7. Over(c, k, m, "succeeded")
    BY <1>2, <2>1, <2>3, <2>4, <2>5, <2>6 DEF Over
  <2> QED BY <2>7, ReplyOver
\* the reply is sent
<1>6. CASE /\ ok /\ c.stage # "edit"
           /\ Reply!ReplyIs(c, Len(messages) + 1) /\ Reply!Sent(c.text, FALSE, k) /\ UNCHANGED stuck
  <2>1. PICK m : m = Len(messages) + 1
    OBVIOUS
  <2>2. Reply!Sent(text, cursor, k)
    BY <1>4, <1>6
  <2>3. /\ messages' \in Seq(Reply!MessageType) /\ Len(messages') = m /\ m \in Nat \ {0}
        /\ messages'[m].text = text /\ messages'[m].cursor = cursor /\ messages'[m].s = k
        /\ \A n \in 1 .. Len(messages) : messages'[n] = messages[n]
        /\ Cursors(k)' = IF cursor THEN Cursors(k) \cup {m} ELSE Cursors(k)
    BY <1>3, <2>1, <2>2, ReplySent
  <2>4. /\ Cursors(k)' = Cursors(k) /\ messages'[m].text = c.text /\ ~messages'[m].cursor
        /\ m \in 1 .. Len(messages') /\ Len(messages) <= Len(messages')
        /\ \A n \in 1 .. Len(messages') : n > Len(messages) => n = m
    BY <1>3, <1>4, <2>1, <2>3
  <2>5. Reply!Delivered(c, "succeeded") /\ reply' = [reply EXCEPT ![c.turn] = [message |-> m, text |-> c.text]]
    BY <1>6, <2>1 DEF Reply!ReplyIs
  <2>6. Answers(c, k, {})
    BY <1>1, <1>2, <1>3, <1>6, <2>3, <2>4, <2>5 DEF Answers, Reply!Delivered
  <2>7. Over(c, k, m, "succeeded")
    BY <1>2, <2>3, <2>4, <2>5, <2>6 DEF Over
  <2> QED BY <2>7, ReplyOver
\* what is not an answer to an edit leaves the chat as it is
<1>7. Cursors(k)' = Cursors(k) \/ messages' # messages
  BY DEF Cursors
<1>8. CASE ~ok /\ c.stage = "floor" /\ Reply!Delivered(c, "failed") /\ UNCHANGED <<messages, reply, stuck>>
  <2>1. Answers(c, k, {})
    BY <1>1, <1>2, <1>3, <1>7, <1>8 DEF Answers, Reply!Delivered
  <2>2. Over(c, k, 0, "failed")
    BY <1>2, <1>8, <2>1 DEF Over
  <2> QED BY <2>2, ReplyOver
\* once more, another way
<1>9. CASE /\ ~ok /\ c.stage # "floor"
           /\ calls' = (calls \ {c}) \cup {[c EXCEPT !.stage = Reply!NextStage(c)]}
           /\ stuck' = IF c.stage = "edit" THEN stuck \cup {k} ELSE stuck
           /\ UNCHANGED <<route, verdict, reply, messages>>
  <2>1. PICK stage \in {"send", "floor"} : stage = Reply!NextStage(c)
    BY DEF Reply!NextStage
  <2>2. PICK d : d = [c EXCEPT !.stage = stage]
    OBVIOUS
  <2>3. d \in Reply!CallType /\ d.s = k /\ d.kind = "finalize" /\ d.stage = stage /\ d.turn = c.turn
    BY <1>1, <1>2, <1>3, <2>2 DEF Reply!CallType
  <2>4. calls' = (calls \ {c}) \cup {d}
    BY <1>9, <2>1, <2>2
  <2>5. PICK new : new = {d}
    OBVIOUS
  <2>6. stuck' = stuck \/ (stuck' = stuck \cup {k} /\ k # 0)
    BY <1>3, <1>9
  <2>7. Answers(c, k, new)
    BY <1>1, <1>2, <1>3, <1>7, <1>9, <2>3, <2>4, <2>5, <2>6 DEF Answers
  <2>8. /\ k \in 0 .. Len(session') /\ Concerns(k) /\ SessionHolds(k)'
        /\ calls' \subseteq Reply!CallType /\ (\A e \in calls' : e.s \in 0 .. Len(session'))
        /\ stuck' \subseteq Nat
    BY <2>7, ReplyAnswered
  <2>9. Reply!TypeOK'
    BY <1>2, <1>9, <2>8 DEF ReplyIInv, Reply!TypeOK
  <2>10. VerdictsFollow'
    <3>1. Finals' = (Finals \ {c}) \cup {d}
      BY <2>3, <2>4 DEF Finals
    <3>2. /\ \A e \in Finals : e.turn \in 1 .. Turns
          /\ \A e, f \in Finals : e.turn = f.turn => e = f
          /\ \A t \in 1 .. Turns : verdict[t] = "due" <=> \E e \in Finals : e.turn = t
      BY DEF ReplyIInv, VerdictsFollow
    <3>3. \A e \in Finals' : e.turn \in 1 .. Turns
      BY <1>2, <2>3, <3>1, <3>2
    <3>4. \A e, f \in Finals' : e.turn = f.turn => e = f
      BY <1>2, <2>3, <3>1, <3>2
    <3>5. \A t \in 1 .. Turns : (\E e \in Finals : e.turn = t) <=> \E e \in Finals' : e.turn = t
      BY <1>2, <2>3, <3>1
    <3>6. \A t \in 1 .. Turns : verdict'[t] = "due" <=> \E e \in Finals' : e.turn = t
      BY <1>9, <3>2, <3>5
    <3>7. /\ inTurn' => turn' \in 1 .. Turns /\ verdict'[turn'] = "none"
          /\ \A t \in 1 .. Turns : t > turn' => verdict'[t] = "none"
      BY <1>2, <1>9 DEF ReplyIInv, VerdictsFollow
    <3> QED BY <3>3, <3>4, <3>6, <3>7 DEF VerdictsFollow
  <2> QED BY <1>9, <2>8, <2>9, <2>10, ReplyStepKeeps
<1> QED BY <1>1, <1>5, <1>6, <1>8, <1>9 DEF Reply!FinalizeReturns

LEMMA ReplyNext == ReplyIInv /\ [Reply!Next]_(Reply!streamVars) => ReplyIInv'
<1> SUFFICES ASSUME ReplyIInv, [Reply!Next]_(Reply!streamVars) PROVE ReplyIInv'
  OBVIOUS
<1>1. CASE Reply!Inbound \/ Reply!Push
  BY <1>1, ReplyInbound, ReplyPush
<1>2. CASE Reply!JobTurn
  BY <1>2, ReplyJobs
<1>3. CASE Reply!Delta \/ Reply!AssistantText \/ Reply!ExplicitSend
  BY <1>3, ReplySays
<1>4. CASE Reply!TurnEnd \/ Reply!ChatError
  BY <1>4, ReplyTurnEnds, ReplyErrs
<1>5. CASE \E c \in calls, ok \in BOOLEAN :
               \/ Reply!StartReturns(c, ok) \/ Reply!UpdateReturns(c, ok)
               \/ Reply!FinalizeReturns(c, ok) \/ Reply!CancelReturns(c, ok)
  BY <1>5, ReplyStarted, ReplyUpdated, ReplyFinalized, ReplyCancelled
<1>6. CASE UNCHANGED Reply!streamVars
  <2>1. /\ UNCHANGED <<route, accumulated, partial, lastPushed, ticking, explicitSend, turn, inTurn>>
        /\ UNCHANGED <<stream, session, calls, messages, raced, stuck, verdict, reply>>
    BY <1>6 DEF Reply!streamVars, Reply!bridgeVars, Reply!toolVars, Reply!turnVars
  <2>2. Reply!TypeOK'
    BY <2>1 DEF ReplyIInv, Reply!TypeOK
  <2>3. Finals' = Finals /\ turn \in 0 .. Turns
    BY <2>1 DEF Finals, ReplyIInv, Reply!TypeOK
  <2>4. VerdictsFollow'
    BY <2>1, <2>3, VerdictsUnconcerned
  <2> QED BY <2>1, <2>2, <2>4, ReplyQuiet
<1> QED BY <1>1, <1>2, <1>3, <1>4, <1>5, <1>6 DEF Reply!Next

\* A reply that was said to be delivered is in the chat, whole and as its own
\* turn said it, and what is left of a stream when its calls have returned is
\* nothing: for any number of turns, threads, pieces and messages, and whatever
\* is refused or answered late (starters/templates/telegram-communication.ts,
\* telegram.ts, discord-communication.ts and slack.ts).
THEOREM RepliesComeWhole == ExtensionSpec => []RepliesAreWhole
<1>1. BridgeIInv /\ StreamIInv /\ ReplyIInv => RepliesAreWhole
  BY BridgeHolds, StreamHolds, ReplyHolds DEF RepliesAreWhole
<1>2. ExtensionSpec => []BridgeIInv
  BY BridgeInit, BridgeNext, ExtensionsRunBridge, PTL
<1>3. ExtensionSpec => []StreamIInv
  BY StreamInit, StreamNext, ExtensionsRunStream, PTL
<1>4. ExtensionSpec => []ReplyIInv
  BY ReplyInit, ReplyNext, ExtensionsRunReply, PTL
<1> QED BY <1>1, <1>2, <1>3, <1>4, PTL
=============================================================================
