-------------------------- MODULE AgentLoopProofs --------------------------
(***************************************************************************)
(* The chat loop, for any threads, inputs, budget and limits: an inductive *)
(* invariant that says of each thread what its steps need of it, and of    *)
(* all of them what they do to the budget and to the threads that are kept.*)
(***************************************************************************)
EXTENDS AgentLoop, FiniteSetTheorems, SequenceTheorems, WellFoundedInduction, TLAPS

----------------------------------------------------------------------------
(* What a thread hears *)

\* No input is in both.
Apart(s, u) == \A j \in DOMAIN s, k \in DOMAIN u : s[j].kind = "user" => s[j] # u[k]

\* Inputs for a turn of their own in s came before those in u.
Before(s, u) ==
    \A j \in DOMAIN s, k \in DOMAIN u :
        s[j].kind = "user" /\ u[k].kind = "user"
              /\ s[j].input \notin Extending /\ u[k].input \notin Extending
        => s[j].input < u[k].input

UpTo(s, n) == \A k \in DOMAIN s : s[k].kind = "user" => s[k].input <= n

\* s was heard, u waits for turns, w for the running turn; inputs up to n came.
Faithful(s, u, w, n) ==
    /\ Once(s \o u \o w) /\ InOrder(s \o u)
    /\ UpTo(s, n) /\ UpTo(u, n) /\ UpTo(w, n)

\* Where the elements of a concatenation come from.
LEMMA ConcatIndex ==
    ASSUME NEW S, NEW s \in Seq(S), NEW u \in Seq(S), NEW c, c = s \o u
    PROVE  \E n \in Nat :
               /\ DOMAIN s = 1..n /\ DOMAIN u \subseteq Nat \ {0}
               /\ \A k \in DOMAIN s : k \in DOMAIN c /\ c[k] = s[k]
               /\ \A k \in DOMAIN u : n + k \in DOMAIN c /\ c[n + k] = u[k]
               /\ \A k \in DOMAIN c : k \in DOMAIN s \/ \E i \in DOMAIN u : k = n + i /\ c[k] = u[i]
<1>1. PICK n \in Nat : n = Len(s)
  OBVIOUS
<1>2. PICK l \in Nat : l = Len(u)
  OBVIOUS
<1>3. /\ DOMAIN s = 1..n /\ DOMAIN u = 1..l /\ DOMAIN c = 1..(n + l)
      /\ \A k \in 1..n : c[k] = s[k]
      /\ \A k \in 1..l : c[n + k] = u[k]
  BY <1>1, <1>2
<1>4. \A k \in 1..(n + l) : k \in 1..n \/ (k - n \in 1..l /\ k = n + (k - n))
  OBVIOUS
<1>5. \A k \in 1..l : n + k \in 1..(n + l)
  OBVIOUS
<1>6. \A k \in DOMAIN c : k \in DOMAIN s \/ \E i \in DOMAIN u : k = n + i /\ c[k] = u[i]
  <2> SUFFICES ASSUME NEW k \in 1..(n + l), k \notin 1..n
               PROVE  \E i \in 1..l : k = n + i /\ c[k] = u[i]
    BY <1>3
  <2>1. PICK i : i = k - n
    OBVIOUS
  <2>2. i \in 1..l /\ k = n + i
    BY <1>4, <2>1
  <2>3. c[n + i] = u[i]
    BY <1>3, <2>2
  <2> QED BY <2>2, <2>3
<1>7. \A k \in 1..n : k \in 1..(n + l)
  OBVIOUS
<1>8. \A k \in DOMAIN u : n + k \in DOMAIN c /\ c[n + k] = u[k]
  BY <1>3, <1>5
<1>9. DOMAIN u \subseteq Nat \ {0} /\ \A k \in DOMAIN s : k \in DOMAIN c /\ c[k] = s[k]
  BY <1>3, <1>7
<1>10. DOMAIN s = 1..n
  BY <1>3
<1> HIDE <1>3
<1> QED BY <1>6, <1>8, <1>9, <1>10

\* Once, InOrder and the relations of two sequences go through concatenation.
LEMMA OnceConcat ==
    ASSUME NEW S, NEW s \in Seq(S), NEW u \in Seq(S)
    PROVE  Once(s \o u) <=> Once(s) /\ Once(u) /\ Apart(s, u)
<1> DEFINE c == s \o u
<1>0. PICK n \in Nat :
          /\ DOMAIN s = 1..n /\ DOMAIN u \subseteq Nat \ {0}
          /\ \A k \in DOMAIN s : k \in DOMAIN c /\ c[k] = s[k]
          /\ \A k \in DOMAIN u : n + k \in DOMAIN c /\ c[n + k] = u[k]
          /\ \A k \in DOMAIN c : k \in DOMAIN s \/ \E i \in DOMAIN u : k = n + i /\ c[k] = u[i]
  BY ConcatIndex
<1> HIDE DEF c
<1>1. ASSUME Once(c) PROVE Once(s) /\ Once(u) /\ Apart(s, u)
  <2>1. Once(s)
    BY <1>0, <1>1 DEF Once
  <2>2. Once(u)
    <3> SUFFICES ASSUME NEW j \in DOMAIN u, NEW k \in DOMAIN u, u[j] = u[k], u[j].kind = "user"
                 PROVE  j = k
      BY DEF Once
    <3>1. n + j = n + k
      BY <1>0, <1>1 DEF Once
    <3> QED BY <1>0, <3>1
  <2>3. Apart(s, u)
    <3> SUFFICES ASSUME NEW j \in DOMAIN s, NEW k \in DOMAIN u, s[j] = u[k], s[j].kind = "user"
                 PROVE  FALSE
      BY DEF Apart
    <3>1. j = n + k
      BY <1>0, <1>1 DEF Once
    <3>2. j \in 1..n /\ k \in Nat \ {0}
      BY <1>0
    <3> QED BY <3>1, <3>2
  <2> QED BY <2>1, <2>2, <2>3
<1>2. ASSUME Once(s), Once(u), Apart(s, u) PROVE Once(c)
  <2> SUFFICES ASSUME NEW j \in DOMAIN c, NEW k \in DOMAIN c, c[j] = c[k], c[j].kind = "user"
               PROVE  j = k
    BY DEF Once
  <2>1. CASE j \in DOMAIN s /\ k \in DOMAIN s
    BY <1>0, <1>2, <2>1 DEF Once
  <2>2. CASE j \in DOMAIN s /\ k \notin DOMAIN s
    BY <1>0, <1>2, <2>2 DEF Apart
  <2>3. CASE j \notin DOMAIN s /\ k \in DOMAIN s
    BY <1>0, <1>2, <2>3 DEF Apart
  <2>4. CASE j \notin DOMAIN s /\ k \notin DOMAIN s
    BY <1>0, <1>2, <2>4 DEF Once
  <2> QED BY <2>1, <2>2, <2>3, <2>4
<1> QED BY <1>1, <1>2 DEF c

LEMMA InOrderConcat ==
    ASSUME NEW S, NEW s \in Seq(S), NEW u \in Seq(S)
    PROVE  InOrder(s \o u) <=> InOrder(s) /\ InOrder(u) /\ Before(s, u)
<1> DEFINE c == s \o u
<1>0. PICK n \in Nat :
          /\ DOMAIN s = 1..n /\ DOMAIN u \subseteq Nat \ {0}
          /\ \A k \in DOMAIN s : k \in DOMAIN c /\ c[k] = s[k]
          /\ \A k \in DOMAIN u : n + k \in DOMAIN c /\ c[n + k] = u[k]
          /\ \A k \in DOMAIN c : k \in DOMAIN s \/ \E i \in DOMAIN u : k = n + i /\ c[k] = u[i]
  BY ConcatIndex
<1> HIDE DEF c
<1>1. ASSUME InOrder(c) PROVE InOrder(s) /\ InOrder(u) /\ Before(s, u)
  <2>1. InOrder(s)
    BY <1>0, <1>1 DEF InOrder
  <2>2. InOrder(u)
    <3> SUFFICES ASSUME NEW j \in DOMAIN u, NEW k \in DOMAIN u, j < k,
                        u[j].kind = "user", u[k].kind = "user",
                        u[j].input \notin Extending, u[k].input \notin Extending
                 PROVE  u[j].input < u[k].input
      BY DEF InOrder
    <3>1. n + j < n + k
      BY <1>0
    <3> QED BY <1>0, <1>1, <3>1 DEF InOrder
  <2>3. Before(s, u)
    <3> SUFFICES ASSUME NEW j \in DOMAIN s, NEW k \in DOMAIN u,
                        s[j].kind = "user", u[k].kind = "user",
                        s[j].input \notin Extending, u[k].input \notin Extending
                 PROVE  s[j].input < u[k].input
      BY DEF Before
    <3>1. j \in 1..n /\ k \in Nat \ {0}
      BY <1>0
    <3>2. j < n + k
      BY <3>1
    <3> QED BY <1>0, <1>1, <3>2 DEF InOrder
  <2> QED BY <2>1, <2>2, <2>3
<1>2. ASSUME InOrder(s), InOrder(u), Before(s, u) PROVE InOrder(c)
  <2> SUFFICES ASSUME NEW j \in DOMAIN c, NEW k \in DOMAIN c, j < k,
                      c[j].kind = "user", c[k].kind = "user",
                      c[j].input \notin Extending, c[k].input \notin Extending
               PROVE  c[j].input < c[k].input
    BY DEF InOrder
  <2>1. CASE j \in DOMAIN s /\ k \in DOMAIN s
    BY <1>0, <1>2, <2>1 DEF InOrder
  <2>2. CASE j \in DOMAIN s /\ k \notin DOMAIN s
    BY <1>0, <1>2, <2>2 DEF Before
  <2>3. CASE j \notin DOMAIN s
    <3>1. PICK i \in DOMAIN u : j = n + i /\ c[j] = u[i]
      BY <1>0, <2>3
    <3>2. k \notin DOMAIN s
      BY <1>0, <3>1
    <3>3. PICK l \in DOMAIN u : k = n + l /\ c[k] = u[l]
      BY <1>0, <3>2
    <3>4. i < l
      BY <1>0, <3>1, <3>3
    <3> QED BY <1>2, <3>1, <3>3, <3>4 DEF InOrder
  <2> QED BY <2>1, <2>2, <2>3
<1> QED BY <1>1, <1>2 DEF c

LEMMA PartsConcat ==
    ASSUME NEW S, NEW s \in Seq(S), NEW u \in Seq(S), NEW w, NEW n
    PROVE  /\ Apart(s \o u, w) <=> Apart(s, w) /\ Apart(u, w)
           /\ Apart(w, s \o u) <=> Apart(w, s) /\ Apart(w, u)
           /\ Before(s \o u, w) <=> Before(s, w) /\ Before(u, w)
           /\ Before(w, s \o u) <=> Before(w, s) /\ Before(w, u)
           /\ UpTo(s \o u, n) <=> UpTo(s, n) /\ UpTo(u, n)
           /\ Apart(s, w) <=> Apart(w, s)
<1> DEFINE c == s \o u
<1>0. PICK m \in Nat :
          /\ DOMAIN s = 1..m /\ DOMAIN u \subseteq Nat \ {0}
          /\ \A k \in DOMAIN s : k \in DOMAIN c /\ c[k] = s[k]
          /\ \A k \in DOMAIN u : m + k \in DOMAIN c /\ c[m + k] = u[k]
          /\ \A k \in DOMAIN c : k \in DOMAIN s \/ \E i \in DOMAIN u : k = m + i /\ c[k] = u[i]
  BY ConcatIndex
<1> HIDE DEF c
<1>1. /\ DOMAIN s \subseteq DOMAIN c /\ \A k \in DOMAIN s : c[k] = s[k]
      /\ \A k \in DOMAIN u : \E i \in DOMAIN c : c[i] = u[k]
      /\ \A i \in DOMAIN c : i \in DOMAIN s \/ \E k \in DOMAIN u : c[i] = u[k]
  BY <1>0
<1>2. Apart(c, w) <=> Apart(s, w) /\ Apart(u, w)
  BY <1>1 DEF Apart
<1>3. Apart(w, c) <=> Apart(w, s) /\ Apart(w, u)
  BY <1>1 DEF Apart
<1>4. Before(c, w) <=> Before(s, w) /\ Before(u, w)
  BY <1>1 DEF Before
<1>5. Before(w, c) <=> Before(w, s) /\ Before(w, u)
  BY <1>1 DEF Before
<1>6. UpTo(c, n) <=> UpTo(s, n) /\ UpTo(u, n)
  BY <1>1 DEF UpTo
<1>7. Apart(s, w) <=> Apart(w, s)
  BY DEF Apart
<1> QED BY <1>2, <1>3, <1>4, <1>5, <1>6, <1>7 DEF c

\* Faithful, taken apart.
LEMMA FaithfulParts ==
    ASSUME NEW S, NEW s \in Seq(S), NEW u \in Seq(S), NEW w \in Seq(S), NEW n
    PROVE  Faithful(s, u, w, n) <=>
               /\ Once(s) /\ Once(u) /\ Once(w) /\ Apart(s, u) /\ Apart(s, w) /\ Apart(u, w)
               /\ InOrder(s) /\ InOrder(u) /\ Before(s, u)
               /\ UpTo(s, n) /\ UpTo(u, n) /\ UpTo(w, n)
<1> DEFINE c == s \o u
<1>1. c \in Seq(S)
  OBVIOUS
<1>2. InOrder(c) <=> InOrder(s) /\ InOrder(u) /\ Before(s, u)
  BY InOrderConcat
<1>3. Once(c) <=> Once(s) /\ Once(u) /\ Apart(s, u)
  BY OnceConcat
<1>4. Apart(c, w) <=> Apart(s, w) /\ Apart(u, w)
  BY PartsConcat
<1>5. Once(c \o w) <=> Once(c) /\ Once(w) /\ Apart(c, w)
  <2> HIDE DEF c
  <2> QED BY <1>1, OnceConcat
<1> QED BY <1>2, <1>3, <1>4, <1>5 DEF Faithful

\* What is not from the user.
Unheard == {Text, ToolUse, ToolResult}
Extends(w) == \A k \in DOMAIN w : w[k].kind = "user" /\ w[k].input \in Extending

\* What the kinds of messages are.
LEMMA Messages ==
    /\ \A m \in Message : m.kind = "user" => m.input \in Input /\ m = User(m.input)
    /\ \A m \in Unheard : m \in Message /\ m.kind # "user"
    /\ \A i \in Input : User(i) \in Message /\ User(i).kind = "user" /\ User(i).input = i
    /\ N \in Nat /\ Input \subseteq Nat /\ Extending \subseteq Input
BY LoopAssumption DEF Message, Unheard, User, Text, ToolUse, ToolResult, Input

LEMMA UsersOf ==
    ASSUME NEW p \in Seq(Input)
    PROVE  /\ Users(p) \in Seq(Message) /\ Len(Users(p)) = Len(p)
           /\ \A k \in DOMAIN p : Users(p)[k] = User(p[k]) /\ k \in DOMAIN Users(p)
           /\ \A k \in DOMAIN Users(p) : k \in DOMAIN p
<1>1. /\ Len(p) \in Nat /\ DOMAIN p = 1..Len(p)
      /\ \A k \in 1..Len(p) : p[k] \in Input
  OBVIOUS
<1>2. \A k \in 1..Len(p) : User(p[k]) \in Message
  BY <1>1, Messages
<1>3. Users(p) = [k \in 1..Len(p) |-> User(p[k])]
  BY <1>1 DEF Users
<1>4. Users(p) \in Seq(Message) /\ Len(Users(p)) = Len(p)
  BY <1>1, <1>2, <1>3
<1> QED BY <1>1, <1>3, <1>4

LEMMA UsersGrow ==
    ASSUME NEW p \in Seq(Input)
    PROVE  /\ \A i \in Input : Users(Append(p, i)) = Append(Users(p), User(i))
           /\ p # <<>> => /\ Users(p) # <<>> /\ Head(Users(p)) = User(Head(p))
                          /\ Users(Tail(p)) = Tail(Users(p))
           /\ \A f \in Seq(Input) : Users(p \o f) = Users(p) \o Users(f)
           /\ Users(<<>>) = <<>>
<1>1. ASSUME NEW i \in Input PROVE Users(Append(p, i)) = Append(Users(p), User(i))
  BY Messages DEF Users
<1>2. ASSUME p # <<>>
      PROVE  /\ Users(p) # <<>> /\ Head(Users(p)) = User(Head(p))
             /\ Users(Tail(p)) = Tail(Users(p))
  BY <1>2, UsersOf, Messages DEF Users
<1>3. ASSUME NEW f \in Seq(Input) PROVE Users(p \o f) = Users(p) \o Users(f)
  <2>1. PICK a \in Nat, b \in Nat : a = Len(p) /\ b = Len(f)
    OBVIOUS
  <2>2. PICK c : c = p \o f
    OBVIOUS
  <2>3. /\ c \in Seq(Input) /\ Len(c) = a + b
        /\ \A k \in 1..(a + b) : c[k] = IF k <= a THEN p[k] ELSE f[k - a]
    BY <2>1, <2>2
  <2>4. PICK g, h : g = Users(p) /\ h = Users(f)
    OBVIOUS
  <2>5. /\ g \in Seq(Message) /\ h \in Seq(Message) /\ Len(g) = a /\ Len(h) = b
        /\ \A k \in 1..a : g[k] = User(p[k])
        /\ \A k \in 1..b : h[k] = User(f[k])
    BY <2>1, <2>4, UsersOf
  <2>6. PICK d : d = g \o h
    OBVIOUS
  <2>7. /\ d \in Seq(Message) /\ Len(d) = a + b
        /\ \A k \in 1..(a + b) : d[k] = IF k <= a THEN g[k] ELSE h[k - a]
    <3>1. g \in Seq(Message) /\ h \in Seq(Message) /\ Len(g) = a /\ Len(h) = b
      BY <2>5
    <3> QED BY <2>6, <3>1, ConcatProperties
  <2>8. PICK e : e = Users(c)
    OBVIOUS
  <2>9. /\ e \in Seq(Message) /\ Len(e) = a + b
        /\ \A k \in 1..(a + b) : e[k] = User(c[k])
    BY <2>3, <2>8, UsersOf
  <2>10. \A k \in 1..(a + b) : d[k] = e[k]
    <3> SUFFICES ASSUME NEW k \in 1..(a + b) PROVE d[k] = e[k]
      OBVIOUS
    <3>1. /\ e[k] = User(c[k]) /\ c[k] = (IF k <= a THEN p[k] ELSE f[k - a])
          /\ d[k] = (IF k <= a THEN g[k] ELSE h[k - a])
      BY <2>3, <2>7, <2>9
    <3>2. CASE k <= a
      <4>1. k \in 1..a
        BY <3>2
      <4>2. g[k] = User(p[k])
        BY <2>5, <4>1
      <4> QED BY <3>1, <3>2, <4>2
    <3>3. CASE ~(k <= a)
      <4>1. k - a \in 1..b
        BY <3>3
      <4>2. h[k - a] = User(f[k - a])
        BY <2>5, <4>1
      <4> QED BY <3>1, <3>3, <4>2
    <3> QED BY <3>2, <3>3
  <2>11. d = e
    BY <2>7, <2>9, <2>10, SeqEqual
  <2> QED BY <2>2, <2>4, <2>6, <2>8, <2>11
<1>4. Users(<<>>) = <<>>
  BY DEF Users
<1> QED BY <1>1, <1>2, <1>3, <1>4

\* A sequence of one message, and a message that no earlier one is like.
LEMMA OneMessage ==
    ASSUME NEW x \in Message, NEW n \in Nat
    PROVE  /\ <<x>> \in Seq(Message) /\ Once(<<x>>) /\ InOrder(<<x>>)
           /\ (x \in Unheard => UpTo(<<x>>, n)) /\ (x.kind = "user" /\ x.input <= n => UpTo(<<x>>, n))
           /\ \A s \in Seq(Message) : /\ Append(s, x) = s \o <<x>>
                                      /\ x \in Unheard => Apart(s, <<x>>) /\ Before(s, <<x>>)
                                                          /\ Apart(<<x>>, s) /\ Before(<<x>>, s)
                                      /\ UpTo(s, n) /\ x = User(n + 1) =>
                                             Apart(s, <<x>>) /\ Before(s, <<x>>)
<1>1. PICK o : o = <<x>>
  OBVIOUS
<1>2. o \in Seq(Message) /\ DOMAIN o = {1} /\ o[1] = x
  BY <1>1
<1>3. Once(o) /\ InOrder(o) /\ (x \in Unheard => UpTo(o, n)) /\ (x.kind = "user" /\ x.input <= n => UpTo(o, n))
  BY <1>2, Messages DEF Once, InOrder, UpTo
<1>4. ASSUME NEW s \in Seq(Message)
      PROVE  /\ Append(s, x) = s \o o
             /\ x \in Unheard => Apart(s, o) /\ Before(s, o) /\ Apart(o, s) /\ Before(o, s)
             /\ UpTo(s, n) /\ x = User(n + 1) => Apart(s, o) /\ Before(s, o)
  <2>1. Append(s, x) = s \o o
    BY <1>1
  <2>2. ASSUME x \in Unheard PROVE Apart(s, o) /\ Before(s, o) /\ Apart(o, s) /\ Before(o, s)
    BY <1>2, <2>2, Messages DEF Apart, Before
  <2>3. ASSUME UpTo(s, n), x = User(n + 1) PROVE Apart(s, o) /\ Before(s, o)
    <3>1. \A k \in DOMAIN s : s[k] \in Message
      OBVIOUS
    <3>2. \A k \in DOMAIN s : s[k].kind = "user" => s[k].input < n + 1
      <4> SUFFICES ASSUME NEW k \in DOMAIN s, s[k].kind = "user" PROVE s[k].input < n + 1
        OBVIOUS
      <4>1. s[k].input \in Nat
        BY <3>1, Messages
      <4>2. s[k].input <= n
        BY <2>3 DEF UpTo
      <4> QED BY <4>1, <4>2
    <3>3. x.input = n + 1
      BY <2>3 DEF User
    <3> QED BY <1>2, <3>2, <3>3 DEF Apart, Before
  <2> QED BY <2>1, <2>2, <2>3
<1> QED BY <1>1, <1>2, <1>3, <1>4

\* What the steps of a thread do to what it hears: input is folded in, is
\* promoted, is taken up or arrives, and the model and the tools speak.
LEMMA FaithfulSteps ==
    ASSUME NEW s \in Seq(Message), NEW u \in Seq(Message), NEW w \in Seq(Message), NEW n \in Nat,
           Faithful(s, u, w, n), Extends(w)
    PROVE  /\ Faithful(s \o w, u, <<>>, n) /\ Faithful(s, u \o w, <<>>, n)
           /\ Faithful(<<>>, u, w, n)
           /\ \A m \in Unheard : Faithful(Append(s, m), u, w, n)
           /\ u # <<>> => Faithful(Append(s, Head(u)), Tail(u), w, n)
           /\ n + 1 \in Input =>
                  /\ Faithful(s, Append(u, User(n + 1)), w, n + 1)
                  /\ Faithful(s, u, Append(w, User(n + 1)), n + 1)
<1>0. /\ <<>> \in Seq(Message) /\ s \o w \in Seq(Message) /\ u \o w \in Seq(Message)
      /\ Once(<<>>) /\ InOrder(<<>>) /\ UpTo(<<>>, n)
      /\ \A x : Apart(x, <<>>) /\ Apart(<<>>, x) /\ Before(x, <<>>) /\ Before(<<>>, x)
  BY DEF Once, InOrder, UpTo, Apart, Before
<1>1. InOrder(w) /\ \A x : Before(x, w) /\ Before(w, x)
  BY DEF Extends, InOrder, Before
<1>2. /\ Once(s) /\ Once(u) /\ Once(w) /\ Apart(s, u) /\ Apart(s, w) /\ Apart(u, w)
      /\ InOrder(s) /\ InOrder(u) /\ Before(s, u)
      /\ UpTo(s, n) /\ UpTo(u, n) /\ UpTo(w, n)
  BY FaithfulParts
<1>3. Faithful(<<>>, u, w, n)
  BY <1>0, <1>2, FaithfulParts
<1>4. Faithful(s \o w, u, <<>>, n)
  <2>1. Once(s \o w) /\ InOrder(s \o w) /\ UpTo(s \o w, n)
    BY <1>1, <1>2, OnceConcat, InOrderConcat, PartsConcat
  <2>2. Apart(s \o w, u) /\ Before(s \o w, u)
    BY <1>1, <1>2, PartsConcat
  <2> QED BY <1>0, <1>2, <2>1, <2>2, FaithfulParts
<1>5. Faithful(s, u \o w, <<>>, n)
  <2>1. Once(u \o w) /\ InOrder(u \o w) /\ UpTo(u \o w, n)
    BY <1>1, <1>2, OnceConcat, InOrderConcat, PartsConcat
  <2>2. Apart(s, u \o w) /\ Before(s, u \o w)
    BY <1>1, <1>2, PartsConcat
  <2> QED BY <1>0, <1>2, <2>1, <2>2, FaithfulParts
<1>6. ASSUME NEW m \in Unheard PROVE Faithful(Append(s, m), u, w, n)
  <2>1. PICK o : o = <<m>>
    OBVIOUS
  <2>2. /\ o \in Seq(Message) /\ Append(s, m) = s \o o /\ Once(o) /\ InOrder(o) /\ UpTo(o, n)
        /\ Apart(s, o) /\ Before(s, o) /\ Apart(o, u) /\ Before(o, u) /\ Apart(o, w)
    BY <2>1, OneMessage, Messages
  <2>3. Once(s \o o) /\ InOrder(s \o o) /\ UpTo(s \o o, n)
    BY <1>2, <2>2, OnceConcat, InOrderConcat, PartsConcat
  <2>4. Apart(s \o o, u) /\ Before(s \o o, u) /\ Apart(s \o o, w) /\ s \o o \in Seq(Message)
    BY <1>2, <2>2, PartsConcat
  <2>5. Faithful(s \o o, u, w, n)
    BY <1>2, <2>3, <2>4, FaithfulParts
  <2> QED BY <2>2, <2>5
<1>7. ASSUME u # <<>> PROVE Faithful(Append(s, Head(u)), Tail(u), w, n)
  <2>1. PICK o, v : o = <<Head(u)>> /\ v = Tail(u)
    OBVIOUS
  <2>2. /\ o \in Seq(Message) /\ v \in Seq(Message) /\ u = o \o v
        /\ Append(s, Head(u)) = s \o o
    BY <1>7, <2>1
  <2>3. /\ Once(o) /\ Once(v) /\ Apart(o, v) /\ InOrder(o) /\ InOrder(v) /\ Before(o, v)
        /\ UpTo(o, n) /\ UpTo(v, n)
        /\ Apart(s, o) /\ Apart(s, v) /\ Before(s, o) /\ Before(s, v)
        /\ Apart(o, w) /\ Apart(v, w)
    BY <1>2, <2>2, OnceConcat, InOrderConcat, PartsConcat
  <2>4. Once(s \o o) /\ InOrder(s \o o) /\ UpTo(s \o o, n)
    BY <1>2, <2>2, <2>3, OnceConcat, InOrderConcat, PartsConcat
  <2>5. Apart(s \o o, v) /\ Before(s \o o, v) /\ Apart(s \o o, w) /\ s \o o \in Seq(Message)
    BY <1>2, <2>2, <2>3, PartsConcat
  <2>6. Faithful(s \o o, v, w, n)
    BY <1>2, <2>2, <2>3, <2>4, <2>5, FaithfulParts
  <2> QED BY <2>1, <2>2, <2>6
<1>8. ASSUME n + 1 \in Input
      PROVE  /\ Faithful(s, Append(u, User(n + 1)), w, n + 1)
             /\ Faithful(s, u, Append(w, User(n + 1)), n + 1)
  <2>1. PICK o : o = <<User(n + 1)>>
    OBVIOUS
  <2>2. /\ o \in Seq(Message) /\ Once(o) /\ InOrder(o) /\ UpTo(o, n + 1)
        /\ Append(u, User(n + 1)) = u \o o /\ Append(w, User(n + 1)) = w \o o
        /\ Apart(s, o) /\ Apart(u, o) /\ Apart(w, o) /\ Before(s, o) /\ Before(u, o)
    <3>1. User(n + 1) \in Message /\ User(n + 1).kind = "user" /\ User(n + 1).input <= n + 1
          /\ n + 1 \in Nat
      BY <1>8, Messages
    <3> QED BY <1>2, <2>1, <3>1, OneMessage
  <2>3. Apart(o, w)
    BY <2>2, PartsConcat
  <2>4. UpTo(s, n + 1) /\ UpTo(u, n + 1) /\ UpTo(w, n + 1)
    <3>1. \A x \in Seq(Message) : \A k \in DOMAIN x : x[k] \in Message
      OBVIOUS
    <3>2. \A x \in Seq(Message) : UpTo(x, n) => UpTo(x, n + 1)
      <4> SUFFICES ASSUME NEW x \in Seq(Message), UpTo(x, n),
                          NEW k \in DOMAIN x, x[k].kind = "user"
                   PROVE  x[k].input <= n + 1
        BY DEF UpTo
      <4>1. x[k].input \in Nat
        BY <3>1, Messages
      <4>2. x[k].input <= n
        BY DEF UpTo
      <4> QED BY <4>1, <4>2
    <3> QED BY <1>2, <3>2
  <2>5. /\ Once(u \o o) /\ InOrder(u \o o) /\ UpTo(u \o o, n + 1) /\ u \o o \in Seq(Message)
        /\ Apart(s, u \o o) /\ Before(s, u \o o) /\ Apart(u \o o, w)
    BY <1>2, <2>2, <2>3, <2>4, OnceConcat, InOrderConcat, PartsConcat
  <2>6. /\ Once(w \o o) /\ UpTo(w \o o, n + 1) /\ w \o o \in Seq(Message)
        /\ Apart(s, w \o o) /\ Apart(u, w \o o)
    BY <1>2, <2>2, <2>4, OnceConcat, PartsConcat
  <2>7. Faithful(s, u \o o, w, n + 1)
    BY <1>2, <2>4, <2>5, FaithfulParts
  <2>8. Faithful(s, u, w \o o, n + 1)
    BY <1>2, <2>4, <2>6, FaithfulParts
  <2> QED BY <2>2, <2>7, <2>8
<1> QED BY <1>3, <1>4, <1>5, <1>6, <1>7, <1>8

----------------------------------------------------------------------------
(* Calls of tools and their results *)

\* All calls but the last message are answered.
OpenCall(s) ==
    /\ Len(s) > 0 /\ s[Len(s)] = ToolUse
    /\ \A k \in DOMAIN s :
           /\ s[k] = ToolUse /\ k < Len(s) => s[k + 1] = ToolResult
           /\ s[k] = ToolResult => k > 1 /\ s[k - 1] = ToolUse

\* A history in which calls are answered stays one, except for an open call.
LEMMA AnsweringSteps ==
    ASSUME NEW s \in Seq(Message), Answering(s)
    PROVE  /\ \A x \in Message : x.kind \in {"user", "text"} => Answering(Append(s, x))
           /\ OpenCall(Append(s, ToolUse))
           /\ \A w \in Seq(Message) : Extends(w) => Answering(s \o w)
<1>0. ToolUse \in Message /\ ToolUse.kind = "use" /\ ToolResult.kind = "result"
  BY DEF Message, ToolUse, ToolResult
<1>1. PICK n \in Nat : n = Len(s) /\ DOMAIN s = 1..n
  OBVIOUS
<1>2. ASSUME NEW x \in Message, x.kind \in {"user", "text"} PROVE Answering(Append(s, x))
  <2>1. PICK c : c = Append(s, x)
    OBVIOUS
  <2>2. Len(c) = n + 1 /\ DOMAIN c = 1..(n + 1) /\ c[n + 1] = x /\ \A k \in 1..n : c[k] = s[k]
    BY <1>1, <2>1
  <2>3. x # ToolUse /\ x # ToolResult
    BY <1>0, <1>2
  <2>4. Answering(c)
    BY <1>1, <2>2, <2>3 DEF Answering
  <2> QED BY <2>1, <2>4
<1>3. OpenCall(Append(s, ToolUse))
  <2>1. PICK c : c = Append(s, ToolUse)
    OBVIOUS
  <2>2. /\ Len(c) = n + 1 /\ DOMAIN c = 1..(n + 1) /\ c[n + 1] = ToolUse
        /\ \A k \in 1..n : c[k] = s[k]
    BY <1>0, <1>1, <2>1
  <2>3. ToolUse # ToolResult
    BY <1>0
  <2>4. OpenCall(c)
    BY <1>1, <2>2, <2>3 DEF Answering, OpenCall
  <2> QED BY <2>1, <2>4
<1>4. ASSUME NEW w \in Seq(Message), Extends(w) PROVE Answering(s \o w)
  <2>1. PICK c : c = s \o w
    OBVIOUS
  <2>2. PICK l \in Nat : l = Len(w) /\ DOMAIN w = 1..l
    OBVIOUS
  <2>3. /\ Len(c) = n + l /\ DOMAIN c = 1..(n + l)
        /\ \A k \in 1..(n + l) : c[k] = IF k <= n THEN s[k] ELSE w[k - n]
    BY <1>1, <2>1, <2>2, ConcatProperties
  <2>4. \A k \in 1..(n + l) : ~(k <= n) => c[k] # ToolUse /\ c[k] # ToolResult
    <3> SUFFICES ASSUME NEW k \in 1..(n + l), ~(k <= n) PROVE c[k] # ToolUse /\ c[k] # ToolResult
      OBVIOUS
    <3>1. k - n \in 1..l /\ c[k] = w[k - n]
      BY <2>3
    <3> QED BY <1>0, <1>4, <2>2, <3>1 DEF Extends
  <2>5. Answering(c)
    BY <1>1, <2>2, <2>3, <2>4 DEF Answering
  <2> QED BY <2>1, <2>5
<1> QED BY <1>2, <1>3, <1>4

LEMMA CallIsAnswered ==
    ASSUME NEW s \in Seq(Message), OpenCall(s)
    PROVE  Answering(Append(s, ToolResult))
<1>0. /\ ToolUse.kind = "use" /\ ToolResult.kind = "result" /\ ToolResult \in Message
  BY DEF Message, ToolUse, ToolResult
<1>1. PICK n \in Nat : n = Len(s) /\ DOMAIN s = 1..n
  OBVIOUS
<1>2. PICK c : c = Append(s, ToolResult)
  OBVIOUS
<1>3. /\ Len(c) = n + 1 /\ DOMAIN c = 1..(n + 1) /\ c[n + 1] = ToolResult
      /\ \A k \in 1..n : c[k] = s[k]
  BY <1>0, <1>1, <1>2
<1>4. ToolUse # ToolResult /\ n > 0 /\ c[n] = ToolUse
  BY <1>0, <1>1, <1>3 DEF OpenCall
<1>5. Answering(c)
  BY <1>1, <1>3, <1>4 DEF Answering, OpenCall
<1> QED BY <1>2, <1>5

----------------------------------------------------------------------------
(* One thread *)

\* Rounds are counted, and recorded by the end of the turn.
RoundsAreCounted(th) ==
    /\ th.used <= th.rounds
    /\ th.turn = "calling" => th.rounds = th.used + 1
    /\ th.turn = "tool" => th.rounds = th.used
    /\ th.turn = "idle" => th.used = 0

\* A turn has a worker, and without one only late input waits.
WorkersDrain(th, missedIt) ==
    /\ th.turn # "idle" => th.worker = "draining"
    /\ th.worker # "draining" => ToSet(th.pending) \subseteq missedIt
    /\ th.turn = "idle" => th.inFlight = <<>>

\* The history and the copy of a turn tell what the thread was told, and of
\* each call what came of it.
HistoriesAreSound(th, n) ==
    /\ Faithful(th.messages, Users(th.pending), Users(th.inFlight), n)
    /\ Faithful(th.copy, Users(th.pending), Users(th.inFlight), n)
    /\ ToSet(th.inFlight) \subseteq Extending
    /\ Answering(th.messages)
    /\ th.turn = "idle" => th.copy = <<>>
    /\ th.turn \in {"calling", "returned"} => Answering(th.copy)
    /\ th.turn = "tool" => OpenCall(th.copy)

Sound(th, n, missedIt) ==
    /\ th \in ThreadState /\ RoundsAreCounted(th) /\ WorkersDrain(th, missedIt)
    /\ HistoriesAreSound(th, n)

\* In flight is only what was sent to extend the turn.
LEMMA InFlightExtends ==
    ASSUME NEW f \in Seq(Input), ToSet(f) \subseteq Extending
    PROVE  Extends(Users(f)) /\ Users(f) \in Seq(Message) /\ Users(<<>>) = <<>>
<1>1. \A k \in DOMAIN f : f[k] \in Extending
  BY DEF ToSet
<1>2. \A k \in DOMAIN Users(f) : k \in DOMAIN f /\ Users(f)[k] = User(f[k])
  BY UsersOf
<1>3. \A i \in Extending : User(i).kind = "user" /\ User(i).input = i
  BY Messages
<1>4. Extends(Users(f))
  BY <1>1, <1>2, <1>3 DEF Extends
<1> QED BY <1>4, UsersOf DEF Users

LEMMA FreshIsSound == \A n \in Nat : \A missedIt : Sound(Fresh, n, missedIt)
<1>1. Fresh \in ThreadState /\ RoundsAreCounted(Fresh)
  BY LoopAssumption DEF Fresh, ThreadState, RoundsAreCounted
<1>2. ASSUME NEW missedIt PROVE WorkersDrain(Fresh, missedIt)
  BY DEF Fresh, WorkersDrain, ToSet
<1>3. ASSUME NEW n \in Nat PROVE HistoriesAreSound(Fresh, n)
  <2>1. Fresh.messages = <<>> /\ Fresh.copy = <<>> /\ Fresh.pending = <<>> /\ Fresh.inFlight = <<>>
        /\ Fresh.turn = "idle"
    BY DEF Fresh
  <2>2. Users(<<>>) = <<>>
    BY DEF Users
  <2>3. Faithful(<<>>, <<>>, <<>>, n)
    BY DEF Faithful, Once, InOrder, UpTo
  <2> QED BY <2>1, <2>2, <2>3 DEF HistoriesAreSound, Answering, ToSet
<1> QED BY <1>1, <1>2, <1>3 DEF Sound

LEMMA FaithfulLess ==
    ASSUME NEW s \in Seq(Message), NEW u \in Seq(Message), NEW w \in Seq(Message), NEW n,
           Faithful(s, u, w, n)
    PROVE  Faithful(s, u, <<>>, n)
<1>1. /\ <<>> \in Seq(Message) /\ Once(<<>>) /\ UpTo(<<>>, n) /\ Apart(s, <<>>) /\ Apart(u, <<>>)
  BY DEF Once, UpTo, Apart
<1> QED BY <1>1, FaithfulParts

\* A turn begins, or the wall turns the input away.
LEMMA TakenIsSound ==
    ASSUME NEW n \in Nat, NEW missedIt, NEW th, Sound(th, n, missedIt),
           th.worker = "draining", th.turn = "idle", th.pending # <<>>
    PROVE  LET took == Taken(th)
           IN  /\ Sound(took, n, missedIt) /\ took.worker = "draining" /\ took.used = 0
               /\ took.turn = "idle" \/ (took.turn = "calling" /\ ~Walled)
<1>1. PICK said : said = [th EXCEPT !.pending = Tail(@),
                                    !.messages = Append(@, User(Head(th.pending)))]
  OBVIOUS
<1>a. /\ th \in ThreadState /\ th.pending \in Seq(Input) /\ th.messages \in Seq(Message)
      /\ th.inFlight \in Seq(Input) /\ th.copy \in Seq(Message)
  BY DEF Sound, ThreadState
<1>b. Head(th.pending) \in Input /\ Tail(th.pending) \in Seq(Input)
  BY <1>a
<1>2. User(Head(th.pending)) \in Message /\ User(Head(th.pending)).kind = "user"
  BY <1>b, Messages
<1>c. Append(th.messages, User(Head(th.pending))) \in Seq(Message)
  BY <1>a, <1>2
<1>3. /\ said.pending = Tail(th.pending) /\ said.messages = Append(th.messages, User(Head(th.pending)))
      /\ said.inFlight = th.inFlight /\ said.worker = th.worker /\ said.turn = th.turn
      /\ said.rounds = th.rounds /\ said.aborted = th.aborted /\ said.copy = th.copy
      /\ said.used = th.used /\ said \in ThreadState
  BY <1>1, <1>a, <1>b, <1>c DEF ThreadState
<1>4. PICK s, u, w : /\ s = th.messages /\ u = Users(th.pending) /\ w = Users(th.inFlight)
                     /\ s \in Seq(Message) /\ u \in Seq(Message) /\ w \in Seq(Message)
                     /\ Extends(w) /\ u # <<>> /\ Head(u) = User(Head(th.pending))
                     /\ Users(Tail(th.pending)) = Tail(u)
                     /\ Faithful(s, u, w, n)
  BY <1>a, UsersOf, UsersGrow, InFlightExtends DEF Sound, HistoriesAreSound
<1>5. Faithful(Append(s, Head(u)), Tail(u), w, n) /\ Append(s, Head(u)) \in Seq(Message)
      /\ Tail(u) \in Seq(Message)
  BY <1>4, FaithfulSteps, <1>2
<1>6. Faithful(<<>>, Tail(u), w, n)
  BY <1>4, <1>5, FaithfulSteps
<1>7. Answering(said.messages)
  BY <1>a, <1>2, <1>3, AnsweringSteps DEF Sound, HistoriesAreSound
<1>8. CASE Walled
  <2>1. Taken(th) = said
    BY <1>1, <1>8 DEF Taken
  <2>2. th.copy = <<>> /\ th.used = 0
    BY DEF Sound, HistoriesAreSound, RoundsAreCounted
  <2>3. HistoriesAreSound(said, n)
    BY <1>3, <1>4, <1>5, <1>6, <1>7, <2>2 DEF Sound, HistoriesAreSound
  <2>4. RoundsAreCounted(said) /\ WorkersDrain(said, missedIt)
    BY <1>3 DEF Sound, RoundsAreCounted, WorkersDrain
  <2> QED BY <1>3, <2>1, <2>2, <2>3, <2>4 DEF Sound
<1>9. CASE ~Walled
  <2>1. PICK took : took = [said EXCEPT !.turn = "calling", !.rounds = 1, !.aborted = FALSE,
                                        !.copy = said.messages, !.used = 0]
    OBVIOUS
  <2>2. Taken(th) = took
    BY <1>1, <1>9, <2>1 DEF Taken
  <2>a. 0 \in 0..MaxRounds /\ 1 \in 0..MaxRounds
    BY LoopAssumption
  <2>b. said.messages \in Seq(Message)
    BY <1>3, <1>c
  <2>3. /\ took.pending = said.pending /\ took.messages = said.messages
        /\ took.inFlight = said.inFlight /\ took.worker = said.worker /\ took.turn = "calling"
        /\ took.rounds = 1 /\ took.copy = said.messages /\ took.used = 0 /\ took \in ThreadState
    <3> HIDE DEF Message
    <3>1. said \in ThreadState
      BY <1>3
    <3> QED BY <2>1, <2>a, <2>b, <3>1 DEF ThreadState
  <2>4. HistoriesAreSound(took, n)
    BY <1>3, <1>4, <1>5, <1>7, <2>3 DEF Sound, HistoriesAreSound
  <2>5. RoundsAreCounted(took) /\ WorkersDrain(took, missedIt)
    BY <1>3, <2>3 DEF Sound, RoundsAreCounted, WorkersDrain
  <2> QED BY <1>3, <1>9, <2>2, <2>3, <2>4, <2>5 DEF Sound
<1> QED BY <1>8, <1>9

\* A round is over: what a turn has said so far can be sent to the model.
Between(th, n) ==
    /\ th \in ThreadState /\ th.worker = "draining" /\ th.rounds = th.used
    /\ th.turn # "idle"
    /\ HistoriesAreSound([th EXCEPT !.turn = "returned"], n)

\* The loop of runAgent goes round.
LEMMA NextRoundIsSound ==
    ASSUME NEW n \in Nat, NEW missedIt, NEW th, Between(th, n)
    PROVE  /\ Sound(NextRound(th), n, missedIt) /\ NextRound(th).worker = "draining"
           /\ NextRound(th).used = th.used /\ NextRound(th).turn # "idle"
<1>1. PICK b : b = [th EXCEPT !.turn = "returned"]
  OBVIOUS
<1>2. /\ b \in ThreadState /\ b.turn = "returned" /\ b.pending = th.pending /\ b.messages = th.messages
      /\ b.inFlight = th.inFlight /\ b.worker = "draining" /\ b.rounds = th.used
      /\ b.copy = th.copy /\ b.used = th.used
      /\ HistoriesAreSound(b, n)
  BY <1>1 DEF Between, ThreadState
<1>3. RoundsAreCounted(b) /\ WorkersDrain(b, missedIt)
  BY <1>2 DEF RoundsAreCounted, WorkersDrain, ThreadState
<1>4. CASE th.rounds = MaxRounds
  BY <1>1, <1>2, <1>3, <1>4 DEF NextRound, Sound
<1>5. CASE th.rounds # MaxRounds /\ th.aborted
  <2>1. PICK c : c = [th EXCEPT !.turn = "threw"]
    OBVIOUS
  <2>2. /\ c \in ThreadState /\ c.turn = "threw" /\ c.pending = th.pending /\ c.messages = th.messages
        /\ c.inFlight = th.inFlight /\ c.worker = "draining" /\ c.rounds = th.used
        /\ c.copy = th.copy /\ c.used = th.used
    BY <2>1 DEF Between, ThreadState
  <2>3. Sound(c, n, missedIt)
    BY <1>2, <2>2 DEF Sound, RoundsAreCounted, WorkersDrain, HistoriesAreSound, ThreadState
  <2> QED BY <1>5, <2>1, <2>2, <2>3 DEF NextRound
<1>6. CASE th.rounds # MaxRounds /\ ~th.aborted
  <2>0. /\ th.inFlight \in Seq(Input) /\ th.pending \in Seq(Input) /\ th.copy \in Seq(Message)
        /\ th.messages \in Seq(Message) /\ th.rounds \in 0..MaxRounds
    BY DEF Between, ThreadState
  <2>1. PICK s, u, w : s = th.copy /\ u = Users(th.pending) /\ w = Users(th.inFlight)
    OBVIOUS
  <2>2. /\ s \in Seq(Message) /\ u \in Seq(Message) /\ w \in Seq(Message) /\ Extends(w)
        /\ Faithful(s, u, w, n) /\ Answering(s) /\ Users(<<>>) = <<>>
        /\ Faithful(th.messages, u, w, n)
    BY <1>2, <2>0, <2>1, UsersOf, InFlightExtends DEF HistoriesAreSound
  <2>3. Faithful(s \o w, u, <<>>, n) /\ Answering(s \o w) /\ s \o w \in Seq(Message)
    BY <2>2, FaithfulSteps, AnsweringSteps
  <2>4. Faithful(th.messages, u, <<>>, n)
    BY <2>0, <2>2, FaithfulLess
  <2>5. PICK c : c = [th EXCEPT !.turn = "calling", !.rounds = @ + 1, !.inFlight = <<>>,
                                !.copy = @ \o Users(th.inFlight)]
    OBVIOUS
  <2>6. th.rounds + 1 \in 0..MaxRounds
    BY <1>6, <2>0, LoopAssumption
  <2>7. /\ c \in ThreadState /\ c.turn = "calling" /\ c.pending = th.pending /\ c.messages = th.messages
        /\ c.inFlight = <<>> /\ c.worker = "draining" /\ c.rounds = th.used + 1
        /\ c.copy = s \o w /\ c.used = th.used
    <3>1. PICK x, r : x = s \o w /\ r = th.rounds + 1
      OBVIOUS
    <3>2. c = [th EXCEPT !.turn = "calling", !.rounds = r, !.inFlight = <<>>, !.copy = x]
      BY <2>1, <2>5, <3>1
    <3>3. x \in Seq(Message) /\ r \in 0..MaxRounds /\ <<>> \in Seq(Input)
      BY <2>3, <2>6, <3>1
    <3>4. th \in ThreadState /\ th.worker = "draining" /\ th.rounds = th.used
      BY DEF Between
    <3>5. /\ c \in ThreadState /\ c.turn = "calling" /\ c.pending = th.pending
          /\ c.messages = th.messages
          /\ c.inFlight = <<>> /\ c.worker = "draining" /\ c.rounds = r
          /\ c.copy = x /\ c.used = th.used
      BY <3>2, <3>3, <3>4 DEF ThreadState
    <3> QED BY <3>1, <3>4, <3>5
  <2>8. HistoriesAreSound(c, n)
    BY <1>2, <2>1, <2>2, <2>3, <2>4, <2>7 DEF HistoriesAreSound, ToSet
  <2>9. RoundsAreCounted(c) /\ WorkersDrain(c, missedIt)
    BY <2>0, <2>7 DEF RoundsAreCounted, WorkersDrain, Between, ThreadState
  <2> QED BY <1>6, <2>5, <2>7, <2>8, <2>9 DEF NextRound, Sound
<1> QED BY <1>4, <1>5, <1>6

\* What is sound stays so when more has arrived and more came late.
LEMMA SoundLater ==
    ASSUME NEW n \in Nat, NEW m \in Nat, n <= m, NEW missedIt, NEW missedLater,
           missedIt \subseteq missedLater, NEW th, Sound(th, n, missedIt)
    PROVE  Sound(th, m, missedLater)
<1>1. \A s \in Seq(Message) : UpTo(s, n) => UpTo(s, m)
  <2> SUFFICES ASSUME NEW s \in Seq(Message), UpTo(s, n), NEW k \in DOMAIN s, s[k].kind = "user"
               PROVE  s[k].input <= m
    BY DEF UpTo
  <2>1. s[k] \in Message
    OBVIOUS
  <2>2. s[k].input \in Nat
    BY <2>1, Messages
  <2>3. s[k].input <= n
    BY DEF UpTo
  <2> QED BY <2>2, <2>3
<1>2. /\ th \in ThreadState /\ th.pending \in Seq(Input) /\ th.messages \in Seq(Message)
      /\ th.inFlight \in Seq(Input) /\ th.copy \in Seq(Message)
  BY DEF Sound, ThreadState
<1>3. Users(th.pending) \in Seq(Message) /\ Users(th.inFlight) \in Seq(Message)
  BY <1>2, UsersOf
<1>4. HistoriesAreSound(th, m)
  BY <1>1, <1>2, <1>3 DEF Sound, HistoriesAreSound, Faithful
<1>5. RoundsAreCounted(th) /\ WorkersDrain(th, missedLater)
  BY DEF Sound, WorkersDrain
<1> QED BY <1>2, <1>4, <1>5 DEF Sound

\* What the steps of a turn need of the thread that takes them.
LEMMA Parts ==
    ASSUME NEW n, NEW missedIt, NEW th, Sound(th, n, missedIt)
    PROVE  \E u, w : /\ th \in ThreadState
                     /\ th.pending \in Seq(Input) /\ th.inFlight \in Seq(Input)
                     /\ th.messages \in Seq(Message) /\ th.copy \in Seq(Message)
                     /\ th.rounds \in 0..MaxRounds /\ th.used \in 0..MaxRounds
                     /\ u = Users(th.pending) /\ w = Users(th.inFlight)
                     /\ u \in Seq(Message) /\ w \in Seq(Message) /\ Extends(w)
                     /\ Faithful(th.messages, u, w, n) /\ Faithful(th.copy, u, w, n)
                     /\ ToSet(th.inFlight) \subseteq Extending
                     /\ Answering(th.messages) /\ Users(<<>>) = <<>>
<1>1. /\ th \in ThreadState
      /\ th.pending \in Seq(Input) /\ th.inFlight \in Seq(Input)
      /\ th.messages \in Seq(Message) /\ th.copy \in Seq(Message)
      /\ th.rounds \in 0..MaxRounds /\ th.used \in 0..MaxRounds
  BY DEF Sound, ThreadState
<1>2. /\ Faithful(th.messages, Users(th.pending), Users(th.inFlight), n)
      /\ Faithful(th.copy, Users(th.pending), Users(th.inFlight), n)
      /\ ToSet(th.inFlight) \subseteq Extending /\ Answering(th.messages)
  BY DEF Sound, HistoriesAreSound
<1>3. /\ Users(th.pending) \in Seq(Message) /\ Users(th.inFlight) \in Seq(Message)
      /\ Extends(Users(th.inFlight)) /\ Users(<<>>) = <<>>
  BY <1>1, <1>2, UsersOf, InFlightExtends
<1> QED BY <1>1, <1>2, <1>3

LEMMA AnsweredIsSound ==
    ASSUME NEW n \in Nat, NEW missedIt, NEW th, Sound(th, n, missedIt), th.turn = "calling"
    PROVE  /\ Sound(Answered(th), n, missedIt) /\ Answered(th).worker = "draining"
           /\ Answered(th).used = th.used + 1 /\ Answered(th).turn # "idle"
<1>1. PICK u, w : /\ th \in ThreadState
                  /\ th.pending \in Seq(Input) /\ th.inFlight \in Seq(Input)
                  /\ th.messages \in Seq(Message) /\ th.copy \in Seq(Message)
                  /\ th.rounds \in 0..MaxRounds /\ th.used \in 0..MaxRounds
                  /\ u = Users(th.pending) /\ w = Users(th.inFlight)
                  /\ u \in Seq(Message) /\ w \in Seq(Message) /\ Extends(w)
                  /\ Faithful(th.messages, u, w, n) /\ Faithful(th.copy, u, w, n)
                  /\ ToSet(th.inFlight) \subseteq Extending
                  /\ Answering(th.messages) /\ Users(<<>>) = <<>>
  BY Parts
<1>2. th.rounds = th.used + 1 /\ Answering(th.copy) /\ th.worker = "draining"
  BY DEF Sound, RoundsAreCounted, HistoriesAreSound, WorkersDrain
<1>3. th.used + 1 \in 0..MaxRounds /\ th.rounds \in 0..MaxRounds
  BY <1>1, <1>2
<1>4. Text \in Unheard /\ Text \in Message /\ Text.kind = "text"
  BY Messages DEF Unheard, Text
<1>5. PICK s, r : s = Append(th.copy, Text) /\ r = th.used + 1
  OBVIOUS
<1>6. s \in Seq(Message) /\ Answering(s) /\ Faithful(s, u, w, n) /\ r \in 0..MaxRounds
  BY <1>1, <1>2, <1>3, <1>4, <1>5, AnsweringSteps, FaithfulSteps
<1>7. PICK said : said = [th EXCEPT !.used = @ + 1, !.copy = Append(@, Text)]
  OBVIOUS
<1>8. said = [th EXCEPT !.used = r, !.copy = s]
  BY <1>5, <1>7
<1>9. /\ said \in ThreadState /\ said.used = r /\ said.copy = s /\ said.rounds = r
      /\ said.worker = "draining" /\ said.turn = "calling" /\ said.messages = th.messages
      /\ said.pending = th.pending /\ said.inFlight = th.inFlight
  BY <1>1, <1>2, <1>5, <1>6, <1>8 DEF ThreadState
<1>10. CASE th.inFlight = <<>>
  <2>1. PICK c : c = [said EXCEPT !.turn = "returned"]
    OBVIOUS
  <2>2. /\ c \in ThreadState /\ c.used = r /\ c.copy = s /\ c.rounds = r
        /\ c.worker = "draining" /\ c.turn = "returned" /\ c.messages = th.messages
        /\ c.pending = th.pending /\ c.inFlight = th.inFlight
    BY <1>9, <2>1 DEF ThreadState
  <2>3. HistoriesAreSound(c, n)
    BY <1>1, <1>6, <2>2 DEF HistoriesAreSound
  <2>4. RoundsAreCounted(c) /\ WorkersDrain(c, missedIt)
    BY <1>6, <2>2 DEF RoundsAreCounted, WorkersDrain
  <2>5. Answered(th) = c
    BY <1>7, <1>10, <2>1 DEF Answered
  <2> QED BY <1>5, <2>2, <2>3, <2>4, <2>5 DEF Sound
<1>11. CASE th.inFlight # <<>>
  <2>1. PICK b : b = [said EXCEPT !.inFlight = <<>>, !.copy = @ \o Users(th.inFlight)]
    OBVIOUS
  <2>2. PICK v : v = s \o w
    OBVIOUS
  <2>3. /\ v \in Seq(Message) /\ Answering(v) /\ Faithful(v, u, <<>>, n)
        /\ Faithful(th.messages, u, <<>>, n) /\ <<>> \in Seq(Input)
    BY <1>1, <1>6, <2>2, AnsweringSteps, FaithfulSteps, FaithfulLess
  <2>4. b = [said EXCEPT !.inFlight = <<>>, !.copy = v]
    BY <1>1, <1>9, <2>1, <2>2
  <2>5. /\ b \in ThreadState /\ b.used = r /\ b.copy = v /\ b.rounds = r
        /\ b.worker = "draining" /\ b.turn = "calling" /\ b.messages = th.messages
        /\ b.pending = th.pending /\ b.inFlight = <<>>
    BY <1>9, <2>3, <2>4 DEF ThreadState
  <2>6. PICK c : c = [b EXCEPT !.turn = "returned"]
    OBVIOUS
  <2>7. /\ c.copy = v /\ c.turn = "returned" /\ c.messages = th.messages
        /\ c.pending = th.pending /\ c.inFlight = <<>>
    BY <2>5, <2>6 DEF ThreadState
  <2>8. HistoriesAreSound(c, n)
    BY <1>1, <2>3, <2>7 DEF HistoriesAreSound, ToSet
  <2>9. Between(b, n)
    BY <2>5, <2>6, <2>8 DEF Between
  <2>10. Answered(th) = NextRound(b)
    BY <1>7, <1>11, <2>1 DEF Answered
  <2> QED BY <1>5, <2>5, <2>9, <2>10, NextRoundIsSound
<1> QED BY <1>10, <1>11

\* The threads that the steps of a turn move to.
CallingTool(th) == [th EXCEPT !.turn = "tool", !.used = @ + 1, !.copy = Append(@, ToolUse)]
WithResult(th) == [th EXCEPT !.copy = Append(@, ToolResult)]
Thrown(th) == [th EXCEPT !.turn = "threw"]
Cancelled(th) == [th EXCEPT !.aborted = TRUE]
Recorded(th) == [th EXCEPT !.messages = th.copy]
Ending(th) == [th EXCEPT !.worker = "ending"]

\* Thread th moves to c, which has used as much and is still in its turn.
GoesOn(th, c, n, missedIt) ==
    /\ Sound(c, n, missedIt) /\ c.worker = "draining"
    /\ c.used = th.used /\ c.turn # "idle"

\* A tool is called, and returns.
LEMMA ToolsAreSound ==
    ASSUME NEW n \in Nat, NEW missedIt, NEW th, Sound(th, n, missedIt)
    PROVE  /\ th.turn = "calling" =>
                  /\ Sound(CallingTool(th), n, missedIt) /\ CallingTool(th).worker = "draining"
                  /\ CallingTool(th).used = th.used + 1 /\ CallingTool(th).turn # "idle"
           /\ th.turn = "tool" => GoesOn(th, NextRound(WithResult(th)), n, missedIt)
<1>1. PICK u, w : /\ th \in ThreadState
                  /\ th.pending \in Seq(Input) /\ th.inFlight \in Seq(Input)
                  /\ th.messages \in Seq(Message) /\ th.copy \in Seq(Message)
                  /\ th.rounds \in 0..MaxRounds /\ th.used \in 0..MaxRounds
                  /\ u = Users(th.pending) /\ w = Users(th.inFlight)
                  /\ u \in Seq(Message) /\ w \in Seq(Message) /\ Extends(w)
                  /\ Faithful(th.messages, u, w, n) /\ Faithful(th.copy, u, w, n)
                  /\ ToSet(th.inFlight) \subseteq Extending
                  /\ Answering(th.messages) /\ Users(<<>>) = <<>>
  BY Parts
<1>2. /\ ToolUse \in Unheard /\ ToolUse \in Message
      /\ ToolResult \in Unheard /\ ToolResult \in Message
  BY Messages DEF Unheard
<1>3. ASSUME th.turn = "calling"
      PROVE  /\ Sound(CallingTool(th), n, missedIt) /\ CallingTool(th).worker = "draining"
             /\ CallingTool(th).used = th.used + 1 /\ CallingTool(th).turn # "idle"
  <2>1. th.rounds = th.used + 1 /\ Answering(th.copy) /\ th.worker = "draining"
    BY <1>3 DEF Sound, RoundsAreCounted, HistoriesAreSound, WorkersDrain
  <2>2. PICK s, r : s = Append(th.copy, ToolUse) /\ r = th.used + 1
    OBVIOUS
  <2>3. s \in Seq(Message) /\ OpenCall(s) /\ Faithful(s, u, w, n) /\ r \in 0..MaxRounds
    BY <1>1, <1>2, <2>1, <2>2, AnsweringSteps, FaithfulSteps
  <2>4. PICK c : c = [th EXCEPT !.turn = "tool", !.used = @ + 1, !.copy = Append(@, ToolUse)]
    OBVIOUS
  <2>5. c = [th EXCEPT !.turn = "tool", !.used = r, !.copy = s]
    BY <2>2, <2>4
  <2>6. /\ c \in ThreadState /\ c.used = r /\ c.copy = s /\ c.rounds = r
        /\ c.worker = "draining" /\ c.turn = "tool" /\ c.messages = th.messages
        /\ c.pending = th.pending /\ c.inFlight = th.inFlight
    BY <1>1, <2>1, <2>2, <2>3, <2>5 DEF ThreadState
  <2>7. HistoriesAreSound(c, n)
    BY <1>1, <2>3, <2>6 DEF HistoriesAreSound
  <2>8. RoundsAreCounted(c) /\ WorkersDrain(c, missedIt)
    BY <2>3, <2>6 DEF RoundsAreCounted, WorkersDrain
  <2> QED BY <2>2, <2>4, <2>6, <2>7, <2>8 DEF Sound, CallingTool
<1>4. ASSUME th.turn = "tool"
      PROVE  GoesOn(th, NextRound(WithResult(th)), n, missedIt)
  <2>1. th.rounds = th.used /\ OpenCall(th.copy) /\ th.worker = "draining"
    BY <1>4 DEF Sound, RoundsAreCounted, HistoriesAreSound, WorkersDrain
  <2>2. PICK s : s = Append(th.copy, ToolResult)
    OBVIOUS
  <2>3. s \in Seq(Message) /\ Answering(s) /\ Faithful(s, u, w, n)
    BY <1>1, <1>2, <2>1, <2>2, CallIsAnswered, FaithfulSteps
  <2>4. PICK b : b = [th EXCEPT !.copy = Append(@, ToolResult)]
    OBVIOUS
  <2>5. b = [th EXCEPT !.copy = s]
    BY <2>2, <2>4
  <2>6. /\ b \in ThreadState /\ b.used = th.used /\ b.copy = s /\ b.rounds = th.used
        /\ b.worker = "draining" /\ b.turn = "tool" /\ b.messages = th.messages
        /\ b.pending = th.pending /\ b.inFlight = th.inFlight
    BY <1>1, <1>4, <2>1, <2>3, <2>5 DEF ThreadState
  <2>7. PICK c : c = [b EXCEPT !.turn = "returned"]
    OBVIOUS
  <2>8. /\ c.copy = s /\ c.turn = "returned" /\ c.messages = th.messages
        /\ c.pending = th.pending /\ c.inFlight = th.inFlight
    BY <2>6, <2>7 DEF ThreadState
  <2>9. HistoriesAreSound(c, n)
    BY <1>1, <2>3, <2>8 DEF HistoriesAreSound
  <2>10. Between(b, n)
    BY <2>6, <2>7, <2>9 DEF Between
  <2>11. b = WithResult(th)
    BY <2>4 DEF WithResult
  <2> QED BY <2>6, <2>10, <2>11, NextRoundIsSound DEF GoesOn
<1> QED BY <1>3, <1>4

\* A call of the model fails; a turn is cancelled.
LEMMA TurnsAreSound ==
    ASSUME NEW n \in Nat, NEW missedIt, NEW th, Sound(th, n, missedIt), th.turn # "idle"
    PROVE  GoesOn(th, Thrown(th), n, missedIt) /\ GoesOn(th, Cancelled(th), n, missedIt)
<1>1. th \in ThreadState /\ th.worker = "draining"
  BY DEF Sound, WorkersDrain
<1>2. PICK c : c = [th EXCEPT !.turn = "threw"]
  OBVIOUS
<1>3. /\ c \in ThreadState /\ c.turn = "threw" /\ c.worker = "draining"
      /\ c.used = th.used /\ c.copy = th.copy /\ c.rounds = th.rounds /\ c.messages = th.messages
      /\ c.pending = th.pending /\ c.inFlight = th.inFlight
  BY <1>1, <1>2 DEF ThreadState
<1>4. Sound(c, n, missedIt)
  BY <1>3 DEF Sound, RoundsAreCounted, WorkersDrain, HistoriesAreSound
<1>5. PICK d : d = [th EXCEPT !.aborted = TRUE]
  OBVIOUS
<1>6. /\ d \in ThreadState /\ d.turn = th.turn /\ d.worker = "draining"
      /\ d.used = th.used /\ d.copy = th.copy /\ d.rounds = th.rounds /\ d.messages = th.messages
      /\ d.pending = th.pending /\ d.inFlight = th.inFlight
  BY <1>1, <1>5 DEF ThreadState
<1>7. Sound(d, n, missedIt)
  BY <1>6 DEF Sound, RoundsAreCounted, WorkersDrain, HistoriesAreSound
<1> QED BY <1>2, <1>3, <1>4, <1>5, <1>6, <1>7 DEF GoesOn, Thrown, Cancelled

\* A turn ends: with what it has heard, or with nothing of it, and what is still
\* in flight goes to the end of the queue.
LEMMA ClosedIsSound ==
    ASSUME NEW n \in Nat, NEW missedIt, NEW th, Sound(th, n, missedIt), th.turn # "idle",
           NEW e, e = th \/ (e = Recorded(th) /\ th.turn = "returned")
    PROVE  /\ Sound(Closed(e), n, missedIt) /\ Closed(e).worker = "draining"
           /\ Closed(e).used = 0 /\ Closed(e).turn = "idle"
<1>1. PICK u, w : /\ th \in ThreadState
                  /\ th.pending \in Seq(Input) /\ th.inFlight \in Seq(Input)
                  /\ th.messages \in Seq(Message) /\ th.copy \in Seq(Message)
                  /\ th.rounds \in 0..MaxRounds /\ th.used \in 0..MaxRounds
                  /\ u = Users(th.pending) /\ w = Users(th.inFlight)
                  /\ u \in Seq(Message) /\ w \in Seq(Message) /\ Extends(w)
                  /\ Faithful(th.messages, u, w, n) /\ Faithful(th.copy, u, w, n)
                  /\ ToSet(th.inFlight) \subseteq Extending
                  /\ Answering(th.messages) /\ Users(<<>>) = <<>>
  BY Parts
<1>2. th.worker = "draining" /\ (th.turn = "returned" => Answering(th.copy))
  BY DEF Sound, WorkersDrain, HistoriesAreSound
<1>h. PICK heard : heard = IF e = th THEN th.messages ELSE th.copy
  OBVIOUS
<1>3. heard \in Seq(Message) /\ Faithful(heard, u, w, n) /\ Answering(heard)
  BY <1>1, <1>2, <1>h
<1>4. PICK p, v : p = th.pending \o th.inFlight /\ v = u \o w
  OBVIOUS
<1>5. p \in Seq(Input) /\ Users(p) = v /\ <<>> \in Seq(Input) /\ <<>> \in Seq(Message)
      /\ 0 \in 0..MaxRounds
  <2>1. Users(th.pending \o th.inFlight) = Users(th.pending) \o Users(th.inFlight)
    BY <1>1, UsersGrow
  <2>2. th.pending \o th.inFlight \in Seq(Input)
    BY <1>1
  <2>3. 0 \in 0..MaxRounds
    BY LoopAssumption
  <2> QED BY <1>1, <1>4, <2>1, <2>2, <2>3
<1>6. Faithful(heard, v, <<>>, n) /\ Faithful(<<>>, v, <<>>, n)
  <2>1. Faithful(heard, v, <<>>, n) /\ v \in Seq(Message)
    BY <1>1, <1>3, <1>4, FaithfulSteps
  <2>2. Extends(<<>>)
    BY DEF Extends
  <2> QED BY <1>3, <1>5, <2>1, <2>2, FaithfulSteps
<1>8. /\ e \in ThreadState /\ e.messages = heard /\ e.pending = th.pending
      /\ e.inFlight = th.inFlight /\ e.worker = "draining"
  <2>1. CASE e = th
    BY <1>1, <1>2, <1>h, <2>1
  <2>2. CASE e # th
    <3>1. e = [th EXCEPT !.messages = th.copy] /\ heard = th.copy
      BY <1>h, <2>2 DEF Recorded
    <3> QED BY <1>1, <1>2, <3>1 DEF ThreadState
  <2> QED BY <2>1, <2>2
<1>9. PICK c : c = Closed(e)
  OBVIOUS
<1>10. c = [e EXCEPT !.turn = "idle", !.rounds = 0, !.aborted = FALSE, !.copy = <<>>,
                     !.used = 0, !.inFlight = <<>>, !.pending = p]
  BY <1>4, <1>8, <1>9 DEF Closed
<1>11. /\ c \in ThreadState /\ c.turn = "idle" /\ c.worker = "draining" /\ c.rounds = 0
       /\ c.used = 0 /\ c.copy = <<>> /\ c.messages = heard /\ c.pending = p /\ c.inFlight = <<>>
  BY <1>5, <1>8, <1>10 DEF ThreadState
<1>12. HistoriesAreSound(c, n)
  BY <1>1, <1>3, <1>5, <1>6, <1>11 DEF HistoriesAreSound, ToSet
<1>13. RoundsAreCounted(c) /\ WorkersDrain(c, missedIt)
  BY <1>11 DEF RoundsAreCounted, WorkersDrain
<1> QED BY <1>9, <1>11, <1>12, <1>13 DEF Sound

\* A worker finds nothing to do.
LEMMA EndingIsSound ==
    ASSUME NEW n \in Nat, NEW missedIt, NEW th, Sound(th, n, missedIt),
           th.turn = "idle", th.pending = <<>>
    PROVE  /\ Sound(Ending(th), n, missedIt) /\ Ending(th).worker = "ending"
           /\ Ending(th).used = th.used /\ Ending(th).turn = "idle"
<1>1. PICK c : c = [th EXCEPT !.worker = "ending"]
  OBVIOUS
<1>2. th \in ThreadState
  BY DEF Sound
<1>3. /\ c \in ThreadState /\ c.turn = "idle" /\ c.worker = "ending" /\ c.rounds = th.rounds
      /\ c.used = th.used /\ c.copy = th.copy /\ c.messages = th.messages
      /\ c.pending = <<>> /\ c.inFlight = th.inFlight
  BY <1>1, <1>2 DEF ThreadState
<1>4. HistoriesAreSound(c, n)
  BY <1>3 DEF Sound, HistoriesAreSound
<1>5. RoundsAreCounted(c) /\ WorkersDrain(c, missedIt)
  BY <1>3 DEF Sound, RoundsAreCounted, WorkersDrain, ToSet
<1> QED BY <1>1, <1>3, <1>4, <1>5 DEF Sound, Ending

----------------------------------------------------------------------------
(* The budget *)

\* Every thread is as its steps need it.
ThreadsAreSound == \A t \in Thread : Sound(thread[t], arrived, late)

\* The turns that run, and the rounds they have not handed in yet.
BusyIn(f) == {t \in Thread : f[t].turn # "idle"}
OutstandingIn(f) == {p \in Thread \X (1 .. MaxRounds) : p[2] <= f[p[1]].used}

\* What the running turns may still use was behind the wall when the last of
\* them began.
TurnsFit ==
    spent + Cardinality(BusyIn(thread)) * MaxRounds < Cap + Cardinality(Thread) * MaxRounds

\* A completed fresh job that is kept is in the order of completion.
KeptAreRetained ==
    /\ Len(retained) <= Retention
    /\ \A t \in known \cap Disposable :
           Evictable(thread[t]) => \E k \in DOMAIN retained : retained[k] = t

LoopIInv == TypeOK /\ ThreadsAreSound /\ SpendIsComplete /\ TurnsFit /\ KeptAreRetained

\* There are finitely many turns, and each uses at most MaxRounds.
LEMMA UsesAreFinite ==
    ASSUME NEW f
    PROVE  /\ IsFiniteSet(Thread) /\ Cardinality(Thread) \in Nat /\ MaxRounds \in Nat \ {0}
           /\ IsFiniteSet(OutstandingIn(f)) /\ Cardinality(OutstandingIn(f)) \in Nat
           /\ IsFiniteSet(BusyIn(f)) /\ Cardinality(BusyIn(f)) \in Nat
           /\ Cardinality(BusyIn(f)) <= Cardinality(Thread)
           /\ (\A t \in Thread : f[t].used \in 0..MaxRounds /\ (f[t].used > 0 => f[t].turn # "idle")) =>
                  Cardinality(OutstandingIn(f)) <= Cardinality(BusyIn(f)) * MaxRounds
<1>1. IsFiniteSet(Thread) /\ Cardinality(Thread) \in Nat /\ MaxRounds \in Nat \ {0}
  BY LoopAssumption, FS_CardinalityType
<1>2. IsFiniteSet(1..MaxRounds) /\ Cardinality(1..MaxRounds) = MaxRounds
  BY <1>1, FS_Interval
<1>3. IsFiniteSet(Thread \X (1..MaxRounds)) /\ OutstandingIn(f) \subseteq Thread \X (1..MaxRounds)
  BY <1>1, <1>2, FS_Product DEF OutstandingIn
<1>4. IsFiniteSet(OutstandingIn(f)) /\ Cardinality(OutstandingIn(f)) \in Nat
  BY <1>3, FS_Subset, FS_CardinalityType
<1>5. BusyIn(f) \subseteq Thread
  BY DEF BusyIn
<1>6. /\ IsFiniteSet(BusyIn(f)) /\ Cardinality(BusyIn(f)) \in Nat
      /\ Cardinality(BusyIn(f)) <= Cardinality(Thread)
  BY <1>1, <1>5, FS_Subset, FS_CardinalityType
<1>7. ASSUME \A t \in Thread : f[t].used \in 0..MaxRounds /\ (f[t].used > 0 => f[t].turn # "idle")
      PROVE  Cardinality(OutstandingIn(f)) <= Cardinality(BusyIn(f)) * MaxRounds
  <2>1. PICK B : B = BusyIn(f) \X (1..MaxRounds)
    OBVIOUS
  <2>2. IsFiniteSet(B) /\ Cardinality(B) = Cardinality(BusyIn(f)) * MaxRounds
    BY <1>2, <1>6, <2>1, FS_Product
  <2>3. OutstandingIn(f) \subseteq B
    <3> SUFFICES ASSUME NEW p \in OutstandingIn(f) PROVE p \in B
      OBVIOUS
    <3>1. PICK t \in Thread, k \in 1..MaxRounds : p = <<t, k>> /\ k <= f[t].used
      BY DEF OutstandingIn
    <3>2. f[t].used > 0
      BY <1>1, <1>7, <3>1
    <3>3. t \in BusyIn(f)
      BY <1>7, <3>2 DEF BusyIn
    <3> QED BY <2>1, <3>1, <3>3
  <2> QED BY <2>2, <2>3, FS_Subset
<1> QED BY <1>1, <1>4, <1>6, <1>7

LEMMA CountUpTo == \A r \in Nat : IsFiniteSet(1..r) /\ Cardinality(1..r) = r
<1> SUFFICES ASSUME NEW r \in Nat PROVE IsFiniteSet(1..r) /\ Cardinality(1..r) = r
  OBVIOUS
<1>1. IsFiniteSet(1..r) /\ Cardinality(1..r) = IF 1 > r THEN 0 ELSE r - 1 + 1
  <2>1. 1 \in Int /\ r \in Int
    OBVIOUS
  <2> QED BY <2>1, FS_Interval, Zenon
<1> QED BY <1>1

\* The arithmetic of the wall.
LEMMA StillFits ==
    \A cap, s, r, m, x, y, z \in Nat :
        /\ s + x < cap + z /\ y + m = x /\ r <= s + m => r + y < cap + z
        /\ s < cap /\ y <= z => s + y < cap + z
OBVIOUS

\* One thread uses a round more, or hands in what it has used.
LEMMA UseChanges ==
    ASSUME NEW f, NEW g, NEW t \in Thread, f[t].used \in 0..MaxRounds, g[t].used \in 0..MaxRounds,
           \A u \in Thread : u # t => g[u].used = f[u].used
    PROVE  /\ g[t].used = f[t].used => Cardinality(OutstandingIn(g)) = Cardinality(OutstandingIn(f))
           /\ g[t].used = f[t].used + 1 =>
                  Cardinality(OutstandingIn(g)) = Cardinality(OutstandingIn(f)) + 1
           /\ g[t].used = 0 =>
                  Cardinality(OutstandingIn(g)) + f[t].used = Cardinality(OutstandingIn(f))
<1>0. MaxRounds \in Nat /\ f[t].used \in Nat
  BY LoopAssumption
<1>1. ASSUME g[t].used = f[t].used PROVE OutstandingIn(g) = OutstandingIn(f)
  <2>1. \A p \in Thread \X (1..MaxRounds) : g[p[1]].used = f[p[1]].used
    BY <1>1
  <2> QED BY <2>1 DEF OutstandingIn
<1>2. ASSUME g[t].used = f[t].used + 1
      PROVE  Cardinality(OutstandingIn(g)) = Cardinality(OutstandingIn(f)) + 1
  <2>1. PICK x : x = <<t, f[t].used + 1>>
    OBVIOUS
  <2>2. x \in Thread \X (1..MaxRounds) /\ x[1] = t /\ x[2] = f[t].used + 1
    BY <1>0, <1>2, <2>1
  <2>3. x \notin OutstandingIn(f) /\ x \in OutstandingIn(g)
    BY <1>0, <1>2, <2>2 DEF OutstandingIn
  <2>4. ASSUME NEW p \in Thread \X (1..MaxRounds)
        PROVE  p \in OutstandingIn(g) <=> p \in OutstandingIn(f) \/ p = x
    <3>1. CASE p[1] # t
      BY <2>2, <3>1 DEF OutstandingIn
    <3>2. CASE p[1] = t
      <4>1. p[2] \in 1..MaxRounds /\ p = <<t, p[2]>>
        BY <3>2
      <4>2. p[2] <= f[t].used + 1 <=> p[2] <= f[t].used \/ p[2] = f[t].used + 1
        BY <1>0, <4>1
      <4> QED BY <1>2, <2>1, <3>2, <4>1, <4>2 DEF OutstandingIn
    <3> QED BY <3>1, <3>2
  <2>5. OutstandingIn(g) = OutstandingIn(f) \cup {x}
    <3>1. \A p \in OutstandingIn(f) \cup OutstandingIn(g) : p \in Thread \X (1..MaxRounds)
      BY DEF OutstandingIn
    <3> QED BY <2>2, <2>4, <3>1
  <2> QED BY <2>3, <2>5, FS_AddElement, UsesAreFinite
<1>3. ASSUME g[t].used = 0
      PROVE  Cardinality(OutstandingIn(g)) + f[t].used = Cardinality(OutstandingIn(f))
  <2>1. PICK B : B = {t} \X (1 .. f[t].used)
    OBVIOUS
  <2>2. IsFiniteSet(B) /\ Cardinality(B) = f[t].used
    <3>1. IsFiniteSet({t}) /\ Cardinality({t}) = 1
      BY FS_Singleton
    <3>2. IsFiniteSet(1 .. f[t].used) /\ Cardinality(1 .. f[t].used) = f[t].used
      BY <1>0, CountUpTo
    <3>3. Cardinality(B) = 1 * f[t].used /\ IsFiniteSet(B)
      BY <2>1, <3>1, <3>2, FS_Product
    <3> QED BY <1>0, <3>3
  <2>3. ASSUME NEW p \in Thread \X (1..MaxRounds)
        PROVE  p \in OutstandingIn(f) <=> p \in OutstandingIn(g) \/ p \in B
    <3>1. CASE p[1] # t
      BY <2>1, <3>1 DEF OutstandingIn
    <3>2. CASE p[1] = t
      <4>1. p[2] \in 1..MaxRounds /\ p = <<t, p[2]>>
        BY <3>2
      <4>2. ~(p[2] <= 0) /\ (p \in B <=> p[2] <= f[t].used)
        BY <1>0, <2>1, <4>1
      <4> QED BY <1>3, <3>2, <4>1, <4>2 DEF OutstandingIn
    <3> QED BY <3>1, <3>2
  <2>4. B \subseteq Thread \X (1..MaxRounds)
    BY <1>0, <2>1
  <2>5. OutstandingIn(f) = OutstandingIn(g) \cup B
    <3>1. \A p \in OutstandingIn(f) \cup OutstandingIn(g) : p \in Thread \X (1..MaxRounds)
      BY DEF OutstandingIn
    <3> QED BY <2>3, <2>4, <3>1
  <2>6. OutstandingIn(g) \cap B = {}
    <3> SUFFICES ASSUME NEW p \in OutstandingIn(g), p \in B PROVE FALSE
      OBVIOUS
    <3>1. p \in Thread \X (1..MaxRounds) /\ p[2] <= g[p[1]].used
      BY DEF OutstandingIn
    <3>2. p[1] = t /\ p[2] \in 1..MaxRounds
      BY <2>1, <3>1
    <3> QED BY <1>0, <1>3, <3>1, <3>2
  <2>7. Cardinality({}) = 0 /\ Cardinality(OutstandingIn(g)) \in Nat /\ IsFiniteSet(OutstandingIn(g))
    BY FS_EmptySet, UsesAreFinite
  <2>8. PICK A, C : A = OutstandingIn(g) /\ C = OutstandingIn(f)
    OBVIOUS
  <2>9. Cardinality(C) = Cardinality(A) + Cardinality(B) - Cardinality(A \cap B)
    BY <2>2, <2>5, <2>7, <2>8, FS_Union
  <2>10. Cardinality(C) = Cardinality(A) + f[t].used - 0
    BY <2>2, <2>6, <2>7, <2>8, <2>9
  <2> QED BY <1>0, <2>7, <2>8, <2>10
<1> QED BY <1>1, <1>2, <1>3

\* One turn begins or ends.
LEMMA BusyChanges ==
    ASSUME NEW f, NEW g, NEW t \in Thread,
           \A u \in Thread : u # t => g[u].turn = f[u].turn
    PROVE  /\ (g[t].turn = "idle" <=> f[t].turn = "idle") => BusyIn(g) = BusyIn(f)
           /\ g[t].turn # "idle" /\ f[t].turn = "idle" =>
                  Cardinality(BusyIn(g)) = Cardinality(BusyIn(f)) + 1
           /\ g[t].turn = "idle" /\ f[t].turn # "idle" =>
                  Cardinality(BusyIn(g)) + 1 = Cardinality(BusyIn(f))
<1>1. ASSUME g[t].turn = "idle" <=> f[t].turn = "idle" PROVE BusyIn(g) = BusyIn(f)
  BY <1>1 DEF BusyIn
<1>2. ASSUME g[t].turn # "idle" /\ f[t].turn = "idle"
      PROVE  Cardinality(BusyIn(g)) = Cardinality(BusyIn(f)) + 1
  <2>1. BusyIn(g) = BusyIn(f) \cup {t} /\ t \notin BusyIn(f)
    BY <1>2 DEF BusyIn
  <2> QED BY <2>1, FS_AddElement, UsesAreFinite
<1>3. ASSUME g[t].turn = "idle" /\ f[t].turn # "idle"
      PROVE  Cardinality(BusyIn(g)) + 1 = Cardinality(BusyIn(f))
  <2>1. BusyIn(f) = BusyIn(g) \cup {t} /\ t \notin BusyIn(g)
    BY <1>3 DEF BusyIn
  <2> QED BY <2>1, FS_AddElement, UsesAreFinite
<1> QED BY <1>1, <1>2, <1>3

\* One thread moves, and what it has used moves with it: all that the steps of
\* the loop have in common.
LEMMA LoopBecomes ==
    ASSUME LoopIInv, NEW t \in Thread, NEW th, Becomes(t, th),
           Sound(th, arrived', late'), th.worker # "none",
           arrived' \in 0..N, arrived <= arrived', late \subseteq late', late' \subseteq Input,
           known \subseteq known', known' \subseteq known \cup {t}, retained' = retained,
           \/ th.used = thread[t].used /\ billed' = billed /\ spent' = spent
           \/ th.used = thread[t].used + 1 /\ billed' = billed + 1 /\ spent' = spent
           \/ th.used = 0 /\ billed' = billed /\ spent' = spent + thread[t].used,
           \/ th.turn = "idle" /\ thread[t].turn = "idle" /\ spent' = spent
           \/ th.turn = "idle" /\ thread[t].turn # "idle"
           \/ th.turn # "idle" /\ thread[t].turn # "idle" /\ spent' = spent
           \/ th.turn # "idle" /\ thread[t].turn = "idle" /\ spent' = spent /\ ~Walled
    PROVE  LoopIInv'
<1>1. /\ thread' = [thread EXCEPT ![t] = th] /\ taken' = taken \cup HeardBy(th)
      /\ thread \in [Thread -> ThreadState] /\ th \in ThreadState
      /\ spent \in Nat /\ billed \in Nat /\ arrived \in Nat /\ arrived' \in Nat
  BY LoopAssumption DEF LoopIInv, Becomes, TypeOK, Sound
<1>2. thread' \in [Thread -> ThreadState] /\ thread'[t] = th
      /\ \A u \in Thread : u # t => thread'[u] = thread[u]
  BY <1>1
<1>3. thread[t].used \in 0..MaxRounds /\ th.used \in 0..MaxRounds
      /\ thread'[t].used = th.used /\ thread'[t].turn = th.turn
  BY <1>1, <1>2 DEF ThreadState
<1>4. TypeOK'
  <2>1. HeardBy(th) \subseteq Input
    <3>1. th.messages \in Seq(Message) /\ th.copy \in Seq(Message)
      BY <1>1 DEF ThreadState
    <3>2. \A x \in ToSet(th.messages) \cup ToSet(th.copy) : x \in Message
      BY <3>1 DEF ToSet
    <3> QED BY <3>2, Messages DEF HeardBy
  <2>2. known' \subseteq Thread /\ retained' \in Seq(Disposable)
    BY DEF LoopIInv, TypeOK
  <2>3. spent' \in Nat /\ billed' \in Nat
    BY <1>1, <1>3
  <2>4. taken' \subseteq Input
    BY <1>1, <2>1 DEF LoopIInv, TypeOK
  <2> QED BY <1>2, <2>2, <2>3, <2>4 DEF TypeOK
<1>5. ThreadsAreSound'
  <2> SUFFICES ASSUME NEW u \in Thread PROVE Sound(thread'[u], arrived', late')
    BY DEF ThreadsAreSound
  <2>1. CASE u = t
    BY <1>2, <2>1
  <2>2. CASE u # t
    <3>1. Sound(thread[u], arrived, late)
      BY DEF LoopIInv, ThreadsAreSound
    <3> QED BY <1>1, <1>2, <2>2, <3>1, SoundLater
  <2> QED BY <2>1, <2>2
<1>6. SpendIsComplete'
  <2>1. PICK a, b : a = Cardinality(OutstandingIn(thread)) /\ b = Cardinality(OutstandingIn(thread'))
    OBVIOUS
  <2>2. a \in Nat /\ b \in Nat
    BY <2>1, UsesAreFinite
  <2>3. spent + a = billed
    BY <2>1 DEF LoopIInv, SpendIsComplete, Outstanding, OutstandingIn
  <2>4. /\ th.used = thread[t].used => b = a
        /\ th.used = thread[t].used + 1 => b = a + 1
        /\ th.used = 0 => b + thread[t].used = a
    BY <1>2, <1>3, <2>1, UseChanges
  <2>5. spent' + b = billed'
    BY <1>1, <1>3, <2>2, <2>3, <2>4
  <2> QED BY <2>1, <2>5 DEF SpendIsComplete, Outstanding, OutstandingIn
<1>7. TurnsFit'
  <2>1. PICK a, b, c, m : /\ a = Cardinality(BusyIn(thread)) /\ b = Cardinality(BusyIn(thread'))
                          /\ c = Cardinality(Thread) /\ m = MaxRounds
    OBVIOUS
  <2>2. a \in Nat /\ b \in Nat /\ c \in Nat /\ m \in Nat /\ a <= c /\ b <= c
        /\ Cap \in Nat /\ thread[t].used \in 0..m /\ spent \in Nat
    BY <1>1, <1>3, <2>1, UsesAreFinite, LoopAssumption
  <2>3. spent + a * m < Cap + c * m
    BY <2>1 DEF LoopIInv, TurnsFit
  <2>4. /\ (th.turn = "idle" <=> thread[t].turn = "idle") => b = a
        /\ th.turn # "idle" /\ thread[t].turn = "idle" => b = a + 1
        /\ th.turn = "idle" /\ thread[t].turn # "idle" => b + 1 = a
    BY <1>2, <1>3, <2>1, BusyChanges
  <2>5. spent' + b * m < Cap + c * m
    <3>1. CASE th.turn = "idle" /\ thread[t].turn = "idle"
      BY <2>3, <2>4, <3>1
    <3>2. CASE th.turn = "idle" /\ thread[t].turn # "idle"
      <4>1. b * m + m = a * m /\ spent' <= spent + m
        <5>1. (b + 1) * m = b * m + m
          BY <2>2
        <5> QED BY <1>1, <1>3, <2>2, <2>4, <3>2, <5>1
      <4>2. spent' \in Nat /\ b * m \in Nat /\ a * m \in Nat /\ c * m \in Nat
        BY <1>1, <1>3, <2>2
      <4>3. PICK x, y, z : x = a * m /\ y = b * m /\ z = c * m
        OBVIOUS
      <4>4. x \in Nat /\ y \in Nat /\ z \in Nat /\ y + m = x /\ spent + x < Cap + z
        BY <2>3, <4>1, <4>2, <4>3
      <4>5. spent' + y < Cap + z
        BY <2>2, <4>1, <4>2, <4>4, StillFits
      <4> QED BY <4>3, <4>5
    <3>3. CASE th.turn # "idle" /\ thread[t].turn # "idle"
      BY <2>3, <2>4, <3>3
    <3>4. CASE th.turn # "idle" /\ thread[t].turn = "idle"
      <4>1. spent' = spent /\ ~(spent >= Cap)
        BY <3>4 DEF Walled
      <4>2. b * m <= c * m /\ b * m \in Nat /\ c * m \in Nat
        BY <2>2
      <4>3. PICK y, z : y = b * m /\ z = c * m
        OBVIOUS
      <4>4. y \in Nat /\ z \in Nat /\ y <= z
        BY <4>2, <4>3
      <4>5. spent' \in Nat /\ Cap \in Nat /\ spent' < Cap
        BY <1>1, <2>2, <4>1
      <4>6. spent' + y < Cap + z
        BY <4>1, <4>4, <4>5, StillFits
      <4> QED BY <4>3, <4>6
    <3> QED BY <3>1, <3>2, <3>3, <3>4
  <2> QED BY <2>1, <2>5 DEF TurnsFit
<1>8. KeptAreRetained'
  <2>1. ~Evictable(thread'[t])
    BY <1>2 DEF Evictable
  <2>2. Len(retained') <= Retention
    BY DEF LoopIInv, KeptAreRetained
  <2>3. ASSUME NEW u \in known' \cap Disposable, Evictable(thread'[u])
        PROVE  \E k \in DOMAIN retained' : retained'[k] = u
    <3>1. u # t /\ u \in known \cap Disposable /\ u \in Thread
      BY <2>1, <2>3, LoopAssumption
    <3>2. Evictable(thread[u])
      BY <1>2, <2>3, <3>1
    <3> QED BY <3>1, <3>2 DEF LoopIInv, KeptAreRetained
  <2> QED BY <2>2, <2>3 DEF KeptAreRetained
<1> QED BY <1>4, <1>5, <1>6, <1>7, <1>8 DEF LoopIInv

----------------------------------------------------------------------------
(* Input arrives *)

\* The threads that the steps of the loop move to.
WithInFlight(th, i) == [th EXCEPT !.inFlight = Append(@, i)]
Queued(th, i) == [th EXCEPT !.pending = Append(@, i)]
Woken(th, i) == [Queued(th, i) EXCEPT !.worker = "draining"]

\* What each of them is to th.
FoldsIn(th, c, n, missedIt) ==
    /\ Sound(c, n + 1, missedIt) /\ c.worker = "draining"
    /\ c.used = th.used /\ c.turn # "idle"
Queues(th, c, n, missedIt) ==
    /\ th.worker = "draining" => Sound(c, n + 1, missedIt)
    /\ Sound(c, n + 1, missedIt \cup {n + 1})
    /\ c.worker = th.worker /\ c.used = th.used /\ c.turn = th.turn
Wakes(th, c, n, missedIt) ==
    /\ Sound(c, n + 1, missedIt) /\ c.worker = "draining"
    /\ c.used = th.used /\ c.turn = th.turn /\ th.turn = "idle" /\ c.pending # <<>>

LEMMA AppendedSet ==
    ASSUME NEW S, NEW s \in Seq(S), NEW x \in S
    PROVE  ToSet(Append(s, x)) = ToSet(s) \cup {x}
<1>1. PICK l \in Nat : l = Len(s)
  OBVIOUS
<1>2. PICK c : c = Append(s, x)
  OBVIOUS
<1>3. /\ DOMAIN s = 1..l /\ DOMAIN c = 1..(l + 1) /\ c[l + 1] = x
      /\ \A k \in 1..l : c[k] = s[k]
  BY <1>1, <1>2
<1>4. \A k \in 1..(l + 1) : k \in 1..l \/ k = l + 1
  OBVIOUS
<1>5. l + 1 \in 1..(l + 1) /\ \A k \in 1..l : k \in 1..(l + 1)
  OBVIOUS
<1>6. ToSet(c) = ToSet(s) \cup {x}
  BY <1>3, <1>4, <1>5 DEF ToSet
<1> QED BY <1>2, <1>6

\* An input arrives at a thread: for its running turn, in its queue, or first.
LEMMA ArrivedIsSound ==
    ASSUME NEW n \in Nat, NEW missedIt, NEW th, Sound(th, n, missedIt), n + 1 \in Input
    PROVE  /\ n + 1 \in Extending /\ th.turn # "idle" => FoldsIn(th, WithInFlight(th, n + 1), n, missedIt)
           /\ th.worker # "none" => Queues(th, Queued(th, n + 1), n, missedIt)
           /\ th.worker = "none" => Wakes(th, Woken(th, n + 1), n, missedIt)
<1>1. PICK u, w : /\ th \in ThreadState
                  /\ th.pending \in Seq(Input) /\ th.inFlight \in Seq(Input)
                  /\ th.messages \in Seq(Message) /\ th.copy \in Seq(Message)
                  /\ th.rounds \in 0..MaxRounds /\ th.used \in 0..MaxRounds
                  /\ u = Users(th.pending) /\ w = Users(th.inFlight)
                  /\ u \in Seq(Message) /\ w \in Seq(Message) /\ Extends(w)
                  /\ Faithful(th.messages, u, w, n) /\ Faithful(th.copy, u, w, n)
                  /\ ToSet(th.inFlight) \subseteq Extending
                  /\ Answering(th.messages) /\ Users(<<>>) = <<>>
  BY Parts
<1>2. \A s \in Seq(Input) : ToSet(Append(s, n + 1)) = ToSet(s) \cup {n + 1}
  BY AppendedSet
<1>3. /\ Faithful(th.messages, Append(u, User(n + 1)), w, n + 1)
      /\ Faithful(th.messages, u, Append(w, User(n + 1)), n + 1)
      /\ Faithful(th.copy, Append(u, User(n + 1)), w, n + 1)
      /\ Faithful(th.copy, u, Append(w, User(n + 1)), n + 1)
  BY <1>1, FaithfulSteps
<1>4. PICK p, f : p = Append(th.pending, n + 1) /\ f = Append(th.inFlight, n + 1)
  OBVIOUS
<1>5. /\ p \in Seq(Input) /\ f \in Seq(Input) /\ p # <<>>
      /\ Users(p) = Append(u, User(n + 1)) /\ Users(f) = Append(w, User(n + 1))
      /\ ToSet(p) = ToSet(th.pending) \cup {n + 1} /\ ToSet(f) = ToSet(th.inFlight) \cup {n + 1}
  <2>1. Users(p) = Append(u, User(n + 1)) /\ Users(f) = Append(w, User(n + 1))
    BY <1>1, <1>4, UsersGrow
  <2>2. p \in Seq(Input) /\ f \in Seq(Input) /\ p # <<>>
    <3>1. \A s \in Seq(Input) : Append(s, n + 1) \in Seq(Input) /\ Append(s, n + 1) # <<>>
      OBVIOUS
    <3> QED BY <1>1, <1>4, <3>1
  <2> QED BY <1>1, <1>2, <1>4, <2>1, <2>2
<1>6. /\ th.turn = "idle" => th.copy = <<>> /\ th.inFlight = <<>>
      /\ th.turn \in {"calling", "returned"} => Answering(th.copy)
      /\ th.turn = "tool" => OpenCall(th.copy)
      /\ RoundsAreCounted(th) /\ (th.turn # "idle" => th.worker = "draining")
      /\ th.worker # "draining" => ToSet(th.pending) \subseteq missedIt
  BY DEF Sound, HistoriesAreSound, WorkersDrain
<1>7. ASSUME n + 1 \in Extending, th.turn # "idle",
             NEW c, c = WithInFlight(th, n + 1)
      PROVE  /\ Sound(c, n + 1, missedIt) /\ c.worker = "draining"
             /\ c.used = th.used /\ c.turn # "idle"
  <2>2. c = [th EXCEPT !.inFlight = f]
    BY <1>4, <1>7 DEF WithInFlight
  <2>3. /\ c \in ThreadState /\ c.inFlight = f /\ c.pending = th.pending /\ c.worker = th.worker
        /\ c.turn = th.turn /\ c.rounds = th.rounds /\ c.messages = th.messages
        /\ c.copy = th.copy /\ c.used = th.used
    BY <1>1, <1>5, <2>2 DEF ThreadState
  <2>4. HistoriesAreSound(c, n + 1)
    BY <1>1, <1>3, <1>5, <1>6, <1>7, <2>3 DEF HistoriesAreSound
  <2>5. RoundsAreCounted(c) /\ WorkersDrain(c, missedIt)
    BY <1>6, <1>7, <2>3 DEF RoundsAreCounted, WorkersDrain
  <2> QED BY <1>6, <1>7, <2>3, <2>4, <2>5 DEF Sound
<1>8. ASSUME th.worker # "none", NEW c, c = Queued(th, n + 1)
      PROVE  /\ th.worker = "draining" => Sound(c, n + 1, missedIt)
             /\ Sound(c, n + 1, missedIt \cup {n + 1})
             /\ c.worker = th.worker /\ c.used = th.used /\ c.turn = th.turn
  <2>2. c = [th EXCEPT !.pending = p]
    BY <1>4, <1>8 DEF Queued
  <2>3. /\ c \in ThreadState /\ c.inFlight = th.inFlight /\ c.pending = p /\ c.worker = th.worker
        /\ c.turn = th.turn /\ c.rounds = th.rounds /\ c.messages = th.messages
        /\ c.copy = th.copy /\ c.used = th.used
    BY <1>1, <1>5, <2>2 DEF ThreadState
  <2>4. HistoriesAreSound(c, n + 1)
    BY <1>1, <1>3, <1>5, <1>6, <2>3 DEF HistoriesAreSound
  <2>5. RoundsAreCounted(c) /\ WorkersDrain(c, missedIt \cup {n + 1})
    BY <1>5, <1>6, <2>3 DEF RoundsAreCounted, WorkersDrain
  <2>6. th.worker = "draining" => WorkersDrain(c, missedIt)
    BY <1>6, <2>3 DEF WorkersDrain
  <2> QED BY <2>3, <2>4, <2>5, <2>6 DEF Sound
<1>9. ASSUME th.worker = "none",
             NEW c, c = Woken(th, n + 1)
      PROVE  /\ Sound(c, n + 1, missedIt) /\ c.worker = "draining"
             /\ c.used = th.used /\ c.turn = th.turn /\ th.turn = "idle"
             /\ c.pending # <<>>
  <2>2. c = [[th EXCEPT !.pending = p] EXCEPT !.worker = "draining"]
    BY <1>4, <1>9 DEF Woken, Queued
  <2>3. /\ c \in ThreadState /\ c.inFlight = th.inFlight /\ c.pending = p /\ c.worker = "draining"
        /\ c.turn = th.turn /\ c.rounds = th.rounds /\ c.messages = th.messages
        /\ c.copy = th.copy /\ c.used = th.used
    BY <1>1, <1>5, <2>2 DEF ThreadState
  <2>4. HistoriesAreSound(c, n + 1)
    BY <1>1, <1>3, <1>5, <1>6, <2>3 DEF HistoriesAreSound
  <2>5. RoundsAreCounted(c) /\ WorkersDrain(c, missedIt)
    BY <1>6, <2>3 DEF RoundsAreCounted, WorkersDrain
  <2> QED BY <1>5, <1>6, <1>9, <2>3, <2>4, <2>5 DEF Sound
<1> QED BY <1>7, <1>8, <1>9 DEF FoldsIn, Queues, Wakes

LEMMA ArriveKeeps ==
    ASSUME LoopIInv, NEW t \in Thread, Arrive(t)
    PROVE  LoopIInv'
<1>1. PICK th : th = thread[t]
  OBVIOUS
<1>2. /\ Sound(th, arrived, late) /\ arrived \in Nat /\ arrived + 1 \in Input
      /\ arrived' = arrived + 1 /\ known' = known \cup {t}
      /\ retained' = retained /\ spent' = spent /\ billed' = billed
      /\ late \subseteq Input
  BY <1>1 DEF LoopIInv, ThreadsAreSound, TypeOK, Arrive, Input
<1>3. arrived' \in 0..N /\ arrived <= arrived'
  BY <1>2 DEF Input
<1>4. CASE arrived + 1 \in Extending /\ th.turn # "idle"
  <2>1. late' = late /\ Becomes(t, WithInFlight(th, arrived + 1))
    BY <1>1, <1>4 DEF Arrive, WithInFlight
  <2>2. PICK c : c = WithInFlight(th, arrived + 1)
    OBVIOUS
  <2>3. Sound(c, arrived + 1, late) /\ c.worker = "draining" /\ c.used = th.used /\ c.turn # "idle"
    BY <1>2, <1>4, <2>2, ArrivedIsSound DEF FoldsIn
  <2>4. Sound(c, arrived', late') /\ Becomes(t, c) /\ late \subseteq late' /\ late' \subseteq Input
    BY <1>2, <2>1, <2>2, <2>3
  <2> QED BY <1>1, <1>2, <1>3, <1>4, <2>3, <2>4, LoopBecomes
<1>5. CASE ~(arrived + 1 \in Extending /\ th.turn # "idle") /\ th.worker = "none"
  <2>1. PICK q : q = Woken(th, arrived + 1)
    OBVIOUS
  <2>2. late' = late /\ Becomes(t, Taken(q))
    BY <1>1, <1>5, <2>1 DEF Arrive, Woken, Queued
  <2>3. /\ Sound(q, arrived', late') /\ q.worker = "draining" /\ q.turn = "idle"
        /\ q.pending # <<>> /\ th.turn = "idle"
    <3>1. /\ Sound(q, arrived + 1, late) /\ q.worker = "draining" /\ q.turn = th.turn
          /\ q.pending # <<>> /\ th.turn = "idle"
      BY <1>2, <1>5, <2>1, ArrivedIsSound DEF Wakes
    <3> QED BY <1>2, <2>2, <3>1
  <2>4. /\ Sound(Taken(q), arrived', late') /\ Taken(q).worker = "draining" /\ Taken(q).used = 0
        /\ Taken(q).turn = "idle" \/ (Taken(q).turn = "calling" /\ ~Walled)
    BY <1>2, <2>3, TakenIsSound
  <2>5. th.used = 0
    BY <1>2, <2>3 DEF Sound, RoundsAreCounted
  <2> QED BY <1>1, <1>2, <1>3, <2>2, <2>3, <2>4, <2>5, LoopBecomes
<1>6. CASE ~(arrived + 1 \in Extending /\ th.turn # "idle") /\ th.worker # "none"
  <2>1. PICK q : q = Queued(th, arrived + 1)
    OBVIOUS
  <2>2. /\ late' = IF th.worker = "ending" THEN late \cup {arrived + 1} ELSE late
        /\ Becomes(t, q)
    BY <1>1, <1>6, <2>1 DEF Arrive, Queued
  <2>3. th.worker \in {"draining", "ending"}
    BY <1>2, <1>6 DEF Sound, ThreadState
  <2>4. /\ Sound(q, arrived', late') /\ q.worker = th.worker /\ q.turn = th.turn
        /\ q.used = th.used
    <3>1. /\ th.worker = "draining" => Sound(q, arrived + 1, late)
          /\ Sound(q, arrived + 1, late \cup {arrived + 1})
          /\ q.worker = th.worker /\ q.used = th.used /\ q.turn = th.turn
      BY <1>2, <1>6, <2>1, ArrivedIsSound DEF Queues
    <3> QED BY <1>2, <2>2, <2>3, <3>1
  <2>5. late \subseteq late' /\ late' \subseteq Input
    BY <1>2, <2>2
  <2> QED BY <1>1, <1>2, <1>3, <1>6, <2>2, <2>4, <2>5, LoopBecomes
<1> QED BY <1>4, <1>5, <1>6

----------------------------------------------------------------------------
(* A worker ends *)

\* RemoveFirst removes one occurrence.
LEMMA SelectsOne ==
    ASSUME NEW S, NEW s \in Seq(S), NEW e, \E i \in 1..Len(s) : s[i] = e
    PROVE  \E i \in 1..Len(s) : s[i] = e /\ RemoveFirst(s, e) = RemoveAt(s, i)
<1>1. PICK I : I = {i \in 1..Len(s) : s[i] = e}
  OBVIOUS
<1>2. I \subseteq Nat /\ I # {}
  BY <1>1
<1>3. \E x \in I : \A y \in I : ~(<<y, x>> \in OpToRel(<, Nat))
  BY <1>2, NatLessThanWellFounded, WFMin, Zenon
<1>4. \E x \in I : \A y \in I : x <= y
  <2>1. PICK x \in I : \A y \in I : ~(<<y, x>> \in OpToRel(<, Nat))
    BY <1>3
  <2>2. \A y \in I : x <= y
    <3>1. \A y \in I : ~(y < x)
      BY <1>2, <2>1 DEF OpToRel
    <3>2. \A y \in I : y \in Nat /\ x \in Nat
      BY <1>2
    <3> QED BY <3>1, <3>2
  <2> QED BY <2>2
<1>5. Min(I) \in I
  BY <1>4 DEF Min
<1>6. SelectInSeq(s, LAMBDA v : v = e) = Min(I)
  BY <1>1, <1>2 DEF SelectInSeq
<1>7. RemoveFirst(s, e) = RemoveAt(s, Min(I))
  BY <1>6 DEF RemoveFirst
<1> QED BY <1>1, <1>5, <1>7

LEMMA RemoveFirstKeeps ==
    ASSUME NEW S, NEW s \in Seq(S), NEW e
    PROVE  LET r == RemoveFirst(s, e)
           IN  /\ r \in Seq(S)
               /\ \A k \in DOMAIN s : s[k] # e => \E j \in DOMAIN r : r[j] = s[k]
<1>1. CASE ~ \E i \in 1..Len(s) : s[i] = e
  <2>1. RemoveFirst(s, e) = s
    BY <1>1 DEF RemoveFirst
  <2> QED BY <2>1
<1>2. CASE \E i \in 1..Len(s) : s[i] = e
  <2>1. PICK i \in 1..Len(s) : s[i] = e /\ RemoveFirst(s, e) = RemoveAt(s, i)
    BY <1>2, SelectsOne
  <2>2. PICK n \in Nat : n = Len(s) /\ DOMAIN s = 1..n
    OBVIOUS
  <2>3. PICK a, b : a = SubSeq(s, 1, i - 1) /\ b = SubSeq(s, i + 1, n)
    OBVIOUS
  <2>4. i \in 1..n /\ \A k \in 1..n : s[k] \in S
    BY <2>2
  <2>5. a \in Seq(S) /\ Len(a) = i - 1 /\ \A k \in 1..(i - 1) : a[k] = s[k]
    <3>1. 1 \in Int /\ i - 1 \in Int /\ \A k \in 1..(i - 1) : s[k] \in S
      BY <2>4
    <3>2. /\ a \in Seq(S) /\ Len(a) = IF 1 <= i - 1 THEN i - 1 - 1 + 1 ELSE 0
          /\ \A k \in 1..(i - 1 - 1 + 1) : a[k] = s[1 + k - 1]
      BY <2>3, <3>1, SubSeqProperties
    <3> QED BY <2>4, <3>2
  <2>6. b \in Seq(S) /\ Len(b) = n - i /\ \A k \in 1..(n - i) : b[k] = s[i + k]
    <3>1. i + 1 \in Int /\ n \in Int /\ \A k \in (i + 1)..n : s[k] \in S
      BY <2>4
    <3>2. /\ b \in Seq(S) /\ Len(b) = IF i + 1 <= n THEN n - (i + 1) + 1 ELSE 0
          /\ \A k \in 1..(n - (i + 1) + 1) : b[k] = s[i + 1 + k - 1]
      BY <2>3, <3>1, SubSeqProperties
    <3> QED BY <2>4, <3>2
  <2>7. PICK r : r = a \o b
    OBVIOUS
  <2>8. RemoveFirst(s, e) = r
    BY <2>1, <2>2, <2>3, <2>7 DEF RemoveAt
  <2>9. /\ r \in Seq(S) /\ DOMAIN r = 1..(n - 1)
        /\ \A k \in 1..(n - 1) : r[k] = IF k <= i - 1 THEN a[k] ELSE b[k - (i - 1)]
    <3>1. /\ r \in Seq(S) /\ Len(r) = Len(a) + Len(b)
          /\ \A k \in 1..(Len(a) + Len(b)) : r[k] = IF k <= Len(a) THEN a[k] ELSE b[k - Len(a)]
      BY <2>5, <2>6, <2>7, ConcatProperties
    <3>2. Len(a) = i - 1 /\ Len(a) + Len(b) = n - 1
      BY <2>4, <2>5, <2>6
    <3>3. /\ r \in Seq(S) /\ Len(r) = n - 1
          /\ \A k \in 1..(n - 1) : r[k] = IF k <= i - 1 THEN a[k] ELSE b[k - (i - 1)]
      BY <3>1, <3>2
    <3> QED BY <3>3
  <2>10. ASSUME NEW k \in 1..n, s[k] # e PROVE \E j \in 1..(n - 1) : r[j] = s[k]
    <3>1. CASE k < i
      BY <2>4, <2>5, <2>9, <3>1
    <3>2. CASE k > i
      <4>1. k - 1 \in 1..(n - 1) /\ ~(k - 1 <= i - 1) /\ k - 1 - (i - 1) = k - i
            /\ k - i \in 1..(n - i) /\ i + (k - i) = k
        BY <2>4, <3>2
      <4> QED BY <2>6, <2>9, <4>1
    <3> QED BY <2>1, <2>4, <2>10, <3>1, <3>2
  <2> QED BY <2>2, <2>8, <2>9, <2>10
<1> QED BY <1>1, <1>2

\* What was completed before t is still in the order, after t comes nothing.
LEMMA CompletedKeeps ==
    ASSUME retained \in Seq(Disposable), NEW t \in Disposable
    PROVE  LET c == Completed(t)
           IN  /\ c \in Seq(Disposable)
               /\ \E k \in DOMAIN c : c[k] = t
               /\ \A u \in Disposable :
                      u # t /\ (\E k \in DOMAIN retained : retained[k] = u)
                      => \E k \in DOMAIN c : c[k] = u
<1>1. PICK r : r = RemoveFirst(retained, t)
  OBVIOUS
<1>2. /\ r \in Seq(Disposable)
      /\ \A k \in DOMAIN retained : retained[k] # t => \E j \in DOMAIN r : r[j] = retained[k]
  BY <1>1, RemoveFirstKeeps
<1>3. PICK c : c = Append(r, t)
  OBVIOUS
<1>4. PICK n \in Nat : n = Len(r) /\ DOMAIN r = 1..n
  BY <1>2
<1>5. /\ c \in Seq(Disposable) /\ DOMAIN c = 1..(n + 1) /\ c[n + 1] = t
      /\ \A k \in 1..n : k \in 1..(n + 1) /\ c[k] = r[k]
  BY <1>2, <1>3, <1>4
<1>6. n + 1 \in 1..(n + 1)
  BY <1>4
<1>7. Completed(t) = c
  BY <1>1, <1>3 DEF Completed
<1> QED BY <1>2, <1>4, <1>5, <1>6, <1>7

\* How many of s are beyond the last m, and those last.
Excess(s, m) == IF Len(s) > m THEN Len(s) - m ELSE 0
Latest(s, m) == SubSeq(s, Excess(s, m) + 1, Len(s))

\* Of a sequence the last m elements stay.
LEMMA LatestKeeps ==
    ASSUME NEW S, NEW s \in Seq(S), NEW m \in Nat
    PROVE  /\ Latest(s, m) \in Seq(S) /\ Len(Latest(s, m)) <= m
           /\ \A k \in DOMAIN s :
                  \/ \E j \in DOMAIN Latest(s, m) : Latest(s, m)[j] = s[k]
                  \/ s[k] \in ToSet(SubSeq(s, 1, Excess(s, m)))
<1>1. PICK n \in Nat : n = Len(s) /\ DOMAIN s = 1..n
  OBVIOUS
<1>2. PICK x : x = Excess(s, m)
  OBVIOUS
<1>3. x \in 0..n /\ n - x <= m
  BY <1>1, <1>2 DEF Excess
<1>4. PICK a, b : a = SubSeq(s, 1, x) /\ b = SubSeq(s, x + 1, n)
  OBVIOUS
<1>5. \A k \in 1..n : s[k] \in S
  BY <1>1
<1>6. DOMAIN a = 1..x /\ \A k \in 1..x : a[k] = s[k]
  <2>1. 1 \in Int /\ x \in Int /\ \A k \in 1..x : s[k] \in S
    BY <1>3, <1>5
  <2>2. /\ a \in Seq(S) /\ Len(a) = IF 1 <= x THEN x - 1 + 1 ELSE 0
        /\ \A k \in 1..(x - 1 + 1) : a[k] = s[1 + k - 1]
    BY <1>4, <2>1, SubSeqProperties
  <2> QED BY <1>3, <2>2
<1>7. b \in Seq(S) /\ Len(b) = n - x /\ DOMAIN b = 1..(n - x) /\ \A k \in 1..(n - x) : b[k] = s[x + k]
  <2>1. x + 1 \in Int /\ n \in Int /\ \A k \in (x + 1)..n : s[k] \in S
    BY <1>3, <1>5
  <2>2. /\ b \in Seq(S) /\ Len(b) = IF x + 1 <= n THEN n - (x + 1) + 1 ELSE 0
        /\ \A k \in 1..(n - (x + 1) + 1) : b[k] = s[x + 1 + k - 1]
    BY <1>4, <2>1, SubSeqProperties
  <2> QED BY <1>3, <2>2
<1>8. ASSUME NEW k \in 1..n
      PROVE  (\E j \in DOMAIN b : b[j] = s[k]) \/ s[k] \in ToSet(a)
  <2>1. CASE k <= x
    BY <1>3, <1>6, <2>1 DEF ToSet
  <2>2. CASE k > x
    <3>1. k - x \in 1..(n - x) /\ x + (k - x) = k
      BY <1>3, <2>2
    <3> QED BY <1>7, <3>1
  <2> QED BY <1>3, <2>1, <2>2
<1>9. Len(b) <= m
  BY <1>3, <1>7
<1> QED BY <1>1, <1>2, <1>4, <1>7, <1>8, <1>9 DEF Latest

LEMMA WorkerEndsKeeps ==
    ASSUME LoopIInv, NEW t \in Thread, WorkerEnds(t)
    PROVE  LoopIInv'
<1>1. PICK freed, excess, gone :
          /\ freed = [thread EXCEPT ![t].worker = "none"]
          /\ excess = Excess(Completed(t), Retention)
          /\ gone = {u \in ToSet(SubSeq(Completed(t), 1, excess)) : Evictable(freed[u])}
  OBVIOUS
<1>2. /\ thread[t].worker = "ending"
      /\ IF t \in Disposable
         THEN /\ retained' = SubSeq(Completed(t), excess + 1, Len(Completed(t)))
              /\ known' = known \ gone
              /\ thread' = [u \in Thread |-> IF u \in gone THEN Fresh ELSE freed[u]]
         ELSE thread' = freed /\ UNCHANGED <<known, retained>>
      /\ UNCHANGED <<spent, arrived, billed, taken, late>>
  BY <1>1 DEF WorkerEnds, Kept, Excess
<1>3. /\ thread \in [Thread -> ThreadState] /\ retained \in Seq(Disposable)
      /\ known \subseteq Thread /\ spent \in Nat /\ billed \in Nat /\ arrived \in 0..N /\ arrived \in Nat
      /\ taken \subseteq Input /\ late \subseteq Input /\ Disposable \subseteq Thread
  BY LoopAssumption DEF LoopIInv, TypeOK
<1>4. /\ freed \in [Thread -> ThreadState]
      /\ \A u \in Thread : u # t => freed[u] = thread[u]
      /\ freed[t] = [thread[t] EXCEPT !.worker = "none"]
  <2>1. [thread[t] EXCEPT !.worker = "none"] \in ThreadState
    BY <1>3 DEF ThreadState
  <2> QED BY <1>1, <1>3, <2>1
<1>5. PICK th, c : th = thread[t] /\ c = freed[t]
  OBVIOUS
<1>6. /\ c \in ThreadState /\ c.worker = "none" /\ c.pending = th.pending /\ c.inFlight = th.inFlight
      /\ c.messages = th.messages /\ c.copy = th.copy /\ c.turn = th.turn
      /\ c.rounds = th.rounds /\ c.used = th.used
  <2>1. th \in ThreadState /\ c = [th EXCEPT !.worker = "none"]
    BY <1>3, <1>4, <1>5
  <2> QED BY <2>1 DEF ThreadState
<1>7. Sound(th, arrived, late) /\ th.turn = "idle"
  BY <1>2, <1>5 DEF LoopIInv, ThreadsAreSound, Sound, WorkersDrain
<1>8. Sound(c, arrived, late)
  BY <1>2, <1>5, <1>6, <1>7
     DEF Sound, RoundsAreCounted, WorkersDrain, HistoriesAreSound
<1>9. /\ thread' \in [Thread -> ThreadState]
      /\ \A u \in Thread : \/ thread'[u] = freed[u]
                           \/ t \in Disposable /\ u \in gone /\ Evictable(freed[u]) /\ thread'[u] = Fresh
  <2>1. Fresh \in ThreadState
    BY FreshIsSound DEF Sound
  <2> QED BY <1>1, <1>2, <1>4, <2>1
<1>10. \A u \in Thread : Sound(freed[u], arrived, late)
  BY <1>4, <1>5, <1>8 DEF LoopIInv, ThreadsAreSound
<1>11. \A u \in Thread : thread'[u].used = thread[u].used /\ thread'[u].turn = thread[u].turn
  <2> SUFFICES ASSUME NEW u \in Thread
               PROVE  thread'[u].used = thread[u].used /\ thread'[u].turn = thread[u].turn
    OBVIOUS
  <2>1. freed[u].used = thread[u].used /\ freed[u].turn = thread[u].turn
    BY <1>4, <1>5, <1>6
  <2>2. Evictable(freed[u]) => freed[u].turn = "idle" /\ freed[u].used = 0
    BY <1>10 DEF Evictable, Sound, RoundsAreCounted
  <2>3. Fresh.turn = "idle" /\ Fresh.used = 0
    BY DEF Fresh
  <2> QED BY <1>9, <2>1, <2>2, <2>3
<1>12. TypeOK'
  <2>1. t \in Disposable => retained' \in Seq(Disposable)
    <3> SUFFICES ASSUME t \in Disposable PROVE retained' \in Seq(Disposable)
      OBVIOUS
    <3>1. PICK done, kept : done = Completed(t) /\ kept = SubSeq(done, excess + 1, Len(done))
      OBVIOUS
    <3>2. done \in Seq(Disposable) /\ retained' = kept
      BY <1>2, <1>3, <3>1, CompletedKeeps
    <3>3. kept = Latest(done, Retention) /\ Retention \in Nat
      BY <1>1, <3>1, LoopAssumption DEF Latest
    <3> QED BY <3>2, <3>3, LatestKeeps
  <2>2. retained' \in Seq(Disposable) /\ known' \subseteq Thread
    BY <1>2, <1>3, <2>1
  <2> QED BY <1>2, <1>3, <1>9, <2>2 DEF TypeOK
<1>13. ThreadsAreSound'
  <2> SUFFICES ASSUME NEW u \in Thread PROVE Sound(thread'[u], arrived', late')
    BY DEF ThreadsAreSound
  <2>1. Sound(thread'[u], arrived, late)
    BY <1>3, <1>9, <1>10, FreshIsSound
  <2> QED BY <1>2, <2>1
<1>14. OutstandingIn(thread') = OutstandingIn(thread) /\ BusyIn(thread') = BusyIn(thread)
  <2>1. \A p \in Thread \X (1..MaxRounds) : thread'[p[1]].used = thread[p[1]].used
    BY <1>11
  <2> QED BY <1>11, <2>1 DEF OutstandingIn, BusyIn
<1>15. SpendIsComplete'
  BY <1>2, <1>14 DEF LoopIInv, SpendIsComplete, Outstanding, OutstandingIn
<1>16. TurnsFit'
  BY <1>2, <1>14 DEF LoopIInv, TurnsFit
<1>17. KeptAreRetained'
  <2>1. CASE t \notin Disposable
    <3>1. ASSUME NEW u \in known' \cap Disposable, Evictable(thread'[u])
          PROVE  \E k \in DOMAIN retained' : retained'[k] = u
      BY <1>2, <1>3, <1>4, <2>1, <3>1 DEF LoopIInv, KeptAreRetained
    <3> QED BY <1>2, <2>1, <3>1 DEF LoopIInv, KeptAreRetained
  <2>2. CASE t \in Disposable
    <3>1. PICK done, kept : done = Completed(t) /\ kept = SubSeq(done, excess + 1, Len(done))
      OBVIOUS
    <3>2. /\ done \in Seq(Disposable) /\ (\E k \in DOMAIN done : done[k] = t)
          /\ \A u \in Disposable :
                 u # t /\ (\E k \in DOMAIN retained : retained[k] = u)
                 => \E k \in DOMAIN done : done[k] = u
      BY <1>3, <2>2, <3>1, CompletedKeeps
    <3>3. /\ retained' = kept /\ Len(kept) <= Retention
          /\ \A k \in DOMAIN done :
                 (\E j \in DOMAIN kept : kept[j] = done[k]) \/ done[k] \in ToSet(SubSeq(done, 1, excess))
      <4>1. kept = Latest(done, Retention) /\ excess = Excess(done, Retention)
        BY <1>1, <3>1 DEF Latest
      <4>2. retained' = kept /\ Retention \in Nat
        BY <1>2, <2>2, <3>1, LoopAssumption
      <4> QED BY <3>2, <4>1, <4>2, LatestKeeps
    <3>4. ASSUME NEW u \in known' \cap Disposable, Evictable(thread'[u])
          PROVE  \E k \in DOMAIN retained' : retained'[k] = u
      <4>1. u \in known /\ u \notin gone /\ u \in Thread
        BY <1>2, <1>3, <2>2, <3>4
      <4>2. thread'[u] = freed[u]
        BY <1>9, <4>1
      <4>3. \E k \in DOMAIN done : done[k] = u
        <5>1. CASE u = t
          BY <3>2, <5>1
        <5>2. CASE u # t
          <6>1. Evictable(thread[u])
            BY <1>4, <3>4, <4>1, <4>2, <5>2
          <6>2. \E k \in DOMAIN retained : retained[k] = u
            BY <3>4, <4>1, <6>1 DEF LoopIInv, KeptAreRetained
          <6> QED BY <3>2, <3>4, <5>2, <6>2
        <5> QED BY <5>1, <5>2
      <4>4. u \notin ToSet(SubSeq(done, 1, excess))
        BY <1>1, <3>1, <3>4, <4>1, <4>2
      <4> QED BY <3>3, <4>3, <4>4
    <3> QED BY <3>3, <3>4 DEF KeptAreRetained
  <2> QED BY <2>1, <2>2
<1> QED BY <1>12, <1>13, <1>15, <1>16, <1>17 DEF LoopIInv

----------------------------------------------------------------------------
(* The invariant *)

LEMMA TurnStepKeeps ==
    ASSUME LoopIInv, NEW t \in Thread, Progress(t) \/ Cancel(t), ~WorkerEnds(t)
    PROVE  LoopIInv'
<1>1. PICK th : th = thread[t]
  OBVIOUS
<1>2. /\ Sound(th, arrived, late) /\ arrived \in Nat /\ arrived \in 0..N /\ late \subseteq Input
      /\ spent \in Nat
  BY <1>1, LoopAssumption DEF LoopIInv, ThreadsAreSound, TypeOK
<1>3. arrived' = arrived /\ late' = late /\ known' = known /\ retained' = retained
  BY DEF Progress, Answer, CallTool, CallFails, ToolReturns, Cancel, EndTurn, FailTurn, TakeNext, DrainEnds
<1>4. CASE Answer(t)
  <2>1. th.turn = "calling" /\ Becomes(t, Answered(th)) /\ billed' = billed + 1 /\ spent' = spent
    BY <1>1, <1>4 DEF Answer
  <2>2. /\ Sound(Answered(th), arrived', late') /\ Answered(th).worker = "draining"
        /\ Answered(th).used = th.used + 1 /\ Answered(th).turn # "idle"
    BY <1>2, <1>3, <2>1, AnsweredIsSound
  <2> QED BY <1>1, <1>2, <1>3, <2>1, <2>2, LoopBecomes
<1>5. CASE CallTool(t)
  <2>1. th.turn = "calling" /\ Becomes(t, CallingTool(th)) /\ billed' = billed + 1 /\ spent' = spent
    BY <1>1, <1>5 DEF CallTool, CallingTool
  <2>2. /\ Sound(CallingTool(th), arrived', late') /\ CallingTool(th).worker = "draining"
        /\ CallingTool(th).used = th.used + 1 /\ CallingTool(th).turn # "idle"
    BY <1>2, <1>3, <2>1, ToolsAreSound
  <2> QED BY <1>1, <1>2, <1>3, <2>1, <2>2, LoopBecomes
<1>6. CASE CallFails(t)
  <2>1. th.turn = "calling" /\ Becomes(t, Thrown(th)) /\ billed' = billed /\ spent' = spent
    BY <1>1, <1>6 DEF CallFails, Thrown
  <2>2. GoesOn(th, Thrown(th), arrived', late')
    BY <1>2, <1>3, <2>1, TurnsAreSound
  <2> QED BY <1>1, <1>2, <1>3, <2>1, <2>2, LoopBecomes DEF GoesOn
<1>7. CASE ToolReturns(t)
  <2>1. th.turn = "tool" /\ Becomes(t, NextRound(WithResult(th))) /\ billed' = billed /\ spent' = spent
    BY <1>1, <1>7 DEF ToolReturns, WithResult
  <2>2. GoesOn(th, NextRound(WithResult(th)), arrived', late')
    BY <1>2, <1>3, <2>1, ToolsAreSound
  <2> QED BY <1>1, <1>2, <1>3, <2>1, <2>2, LoopBecomes DEF GoesOn
<1>8. CASE Cancel(t)
  <2>1. th.turn # "idle" /\ Becomes(t, Cancelled(th)) /\ billed' = billed /\ spent' = spent
    BY <1>1, <1>8 DEF Cancel, Cancelled
  <2>2. GoesOn(th, Cancelled(th), arrived', late')
    BY <1>2, <1>3, <2>1, TurnsAreSound
  <2> QED BY <1>1, <1>2, <1>3, <2>1, <2>2, LoopBecomes DEF GoesOn
<1>9. CASE EndTurn(t)
  <2>1. /\ th.turn = "returned" /\ Becomes(t, Closed(Recorded(th)))
        /\ billed' = billed /\ spent' = spent + th.used
    BY <1>1, <1>9 DEF EndTurn, Recorded
  <2>2. PICK c : c = Closed(Recorded(th))
    OBVIOUS
  <2>3. Sound(c, arrived', late') /\ c.worker = "draining" /\ c.used = 0 /\ c.turn = "idle"
    BY <1>2, <1>3, <2>1, <2>2, ClosedIsSound
  <2> QED BY <1>1, <1>2, <1>3, <2>1, <2>2, <2>3, LoopBecomes
<1>10. CASE FailTurn(t)
  <2>1. th.turn = "threw" /\ Becomes(t, Closed(th)) /\ billed' = billed /\ spent' = spent + th.used
    BY <1>1, <1>10 DEF FailTurn
  <2>2. PICK c : c = Closed(th)
    OBVIOUS
  <2>3. Sound(c, arrived', late') /\ c.worker = "draining" /\ c.used = 0 /\ c.turn = "idle"
    BY <1>2, <1>3, <2>1, <2>2, ClosedIsSound
  <2> QED BY <1>1, <1>2, <1>3, <2>1, <2>2, <2>3, LoopBecomes
<1>11. CASE TakeNext(t)
  <2>1. /\ th.turn = "idle" /\ th.worker = "draining" /\ th.pending # <<>>
        /\ Becomes(t, Taken(th)) /\ billed' = billed /\ spent' = spent
    BY <1>1, <1>11 DEF TakeNext
  <2>2. /\ Sound(Taken(th), arrived', late') /\ Taken(th).worker = "draining" /\ Taken(th).used = 0
        /\ Taken(th).turn = "idle" \/ (Taken(th).turn = "calling" /\ ~Walled)
    BY <1>2, <1>3, <2>1, TakenIsSound
  <2>3. th.used = 0
    BY <1>2, <2>1 DEF Sound, RoundsAreCounted
  <2> QED BY <1>1, <1>2, <1>3, <2>1, <2>2, <2>3, LoopBecomes
<1>12. CASE DrainEnds(t)
  <2>1. /\ th.turn = "idle" /\ th.pending = <<>>
        /\ Becomes(t, Ending(th)) /\ billed' = billed /\ spent' = spent
    BY <1>1, <1>12 DEF DrainEnds, Ending
  <2>2. /\ Sound(Ending(th), arrived', late') /\ Ending(th).worker = "ending"
        /\ Ending(th).used = th.used /\ Ending(th).turn = "idle"
    BY <1>2, <1>3, <2>1, EndingIsSound
  <2> QED BY <1>1, <1>2, <1>3, <2>1, <2>2, LoopBecomes
<1> QED BY <1>4, <1>5, <1>6, <1>7, <1>8, <1>9, <1>10, <1>11, <1>12 DEF Progress

LEMMA LoopBegins == Init => LoopIInv
<1> SUFFICES ASSUME Init PROVE LoopIInv
  OBVIOUS
<1>1. /\ thread = [t \in Thread |-> Fresh] /\ known = {} /\ retained = <<>>
      /\ spent = 0 /\ billed = 0 /\ arrived = 0 /\ taken = {} /\ late = {}
  BY DEF Init
<1>2. Sound(Fresh, 0, {}) /\ Fresh \in ThreadState
  BY FreshIsSound DEF Sound
<1>3. TypeOK
  BY <1>1, <1>2, LoopAssumption DEF TypeOK
<1>4. ThreadsAreSound
  BY <1>1, <1>2 DEF ThreadsAreSound
<1>5. \A t \in Thread : thread[t].used = 0 /\ thread[t].turn = "idle"
  BY <1>1 DEF Fresh
<1>6. OutstandingIn(thread) = {} /\ BusyIn(thread) = {}
  BY <1>5 DEF OutstandingIn, BusyIn
<1>7. Cardinality({}) = 0
  BY FS_EmptySet
<1>8. SpendIsComplete
  <2>1. Outstanding = {} /\ spent = 0 /\ billed = 0
    BY <1>1, <1>6 DEF Outstanding, OutstandingIn
  <2> QED BY <1>7, <2>1 DEF SpendIsComplete
<1>9. TurnsFit
  <2>1. PICK c, m : c = Cardinality(Thread) /\ m = MaxRounds
    OBVIOUS
  <2>2. c \in Nat /\ m \in Nat /\ Cap \in Nat \ {0}
    BY <2>1, UsesAreFinite, LoopAssumption
  <2>3. c * m \in Nat /\ 0 * m = 0
    BY <2>2
  <2>4. PICK z : z = c * m
    OBVIOUS
  <2>5. 0 + 0 < Cap + z
    BY <2>2, <2>3, <2>4
  <2>6. spent = 0 /\ Cardinality(BusyIn(thread)) = 0
    BY <1>1, <1>6, <1>7
  <2> QED BY <2>1, <2>3, <2>4, <2>5, <2>6 DEF TurnsFit
<1>10. KeptAreRetained
  BY <1>1, LoopAssumption DEF KeptAreRetained
<1> QED BY <1>3, <1>4, <1>8, <1>9, <1>10 DEF LoopIInv

LEMMA LoopGoesOn == LoopIInv /\ [Next]_vars => LoopIInv'
<1> SUFFICES ASSUME LoopIInv, [Next]_vars PROVE LoopIInv'
  OBVIOUS
<1>1. CASE Next
  <2>1. PICK t \in Thread : Arrive(t) \/ Cancel(t) \/ Progress(t)
    BY <1>1 DEF Next
  <2>2. CASE Arrive(t)
    BY <2>2, ArriveKeeps
  <2>3. CASE WorkerEnds(t)
    BY <2>3, WorkerEndsKeeps
  <2>4. CASE (Progress(t) \/ Cancel(t)) /\ ~WorkerEnds(t)
    BY <2>4, TurnStepKeeps
  <2> QED BY <2>1, <2>2, <2>3, <2>4
<1>2. CASE UNCHANGED vars
  <2>1. TypeOK'
    BY <1>2 DEF LoopIInv, TypeOK, vars
  <2>2. ThreadsAreSound'
    BY <1>2 DEF LoopIInv, ThreadsAreSound, vars
  <2>3. SpendIsComplete'
    BY <1>2 DEF LoopIInv, SpendIsComplete, Outstanding, vars
  <2>4. TurnsFit'
    BY <1>2 DEF LoopIInv, TurnsFit, vars
  <2>5. KeptAreRetained'
    BY <1>2 DEF LoopIInv, KeptAreRetained, vars
  <2> QED BY <2>1, <2>2, <2>3, <2>4, <2>5 DEF LoopIInv
<1> QED BY <1>1, <1>2

LEMMA OverspendBounded == LoopIInv => OverspendIsBounded
<1> SUFFICES ASSUME LoopIInv PROVE OverspendIsBounded
  OBVIOUS
<1>1. PICK o, b, c, m : /\ o = Cardinality(OutstandingIn(thread)) /\ b = Cardinality(BusyIn(thread))
                        /\ c = Cardinality(Thread) /\ m = MaxRounds
  OBVIOUS
<1>2. \A t \in Thread : thread[t].used \in 0..MaxRounds /\ (thread[t].used > 0 => thread[t].turn # "idle")
  <2> SUFFICES ASSUME NEW t \in Thread
               PROVE  thread[t].used \in 0..MaxRounds /\ (thread[t].used > 0 => thread[t].turn # "idle")
    OBVIOUS
  <2>1. thread[t] \in ThreadState /\ RoundsAreCounted(thread[t])
    BY DEF LoopIInv, ThreadsAreSound, Sound
  <2> QED BY <2>1 DEF ThreadState, RoundsAreCounted
<1>3. o \in Nat /\ b \in Nat /\ c \in Nat /\ m \in Nat /\ o <= b * m
  BY <1>1, <1>2, UsesAreFinite
<1>4. spent + b * m < Cap + c * m /\ spent + o = billed
  BY <1>1 DEF LoopIInv, TurnsFit, SpendIsComplete, Outstanding, OutstandingIn
<1>5. spent \in Nat /\ b * m \in Nat /\ c * m \in Nat /\ Cap \in Nat
  BY <1>3, LoopAssumption DEF LoopIInv, TypeOK
<1>6. PICK y, z : y = b * m /\ z = c * m
  OBVIOUS
<1>7. billed < Cap + z
  BY <1>3, <1>4, <1>5, <1>6
<1> QED BY <1>1, <1>6, <1>7 DEF OverspendIsBounded

LEMMA RetentionBounded == LoopIInv => RetentionIsBounded
<1> SUFFICES ASSUME LoopIInv PROVE RetentionIsBounded
  OBVIOUS
<1>1. PICK K : K = {t \in known \cap Disposable : Evictable(thread[t])}
  OBVIOUS
<1>2. PICK n \in Nat : n = Len(retained) /\ DOMAIN retained = 1..n
  BY DEF LoopIInv, TypeOK
<1>3. n <= Retention /\ \A t \in K : \E k \in 1..n : retained[k] = t
  BY <1>1, <1>2 DEF LoopIInv, KeptAreRetained
<1>4. PICK R : R = {retained[k] : k \in 1..n}
  OBVIOUS
<1>5. PICK f : f = [k \in 1..n |-> retained[k]]
  OBVIOUS
<1>6. f \in Surjection(1..n, R)
  BY <1>4, <1>5 DEF Surjection
<1>7. IsFiniteSet(R) /\ Cardinality(R) <= n
  BY <1>6, CountUpTo, FS_Surjection
<1>8. K \subseteq R
  BY <1>3, <1>4
<1>9. Cardinality(K) <= Cardinality(R) /\ Cardinality(K) \in Nat /\ Cardinality(R) \in Nat
  BY <1>7, <1>8, FS_Subset, FS_CardinalityType
<1>10. Cardinality(K) <= Retention
  BY <1>3, <1>7, <1>9, LoopAssumption
<1> QED BY <1>1, <1>10 DEF RetentionIsBounded

LEMMA WaitersServed == LoopIInv => WaitersHaveAWorker
<1> SUFFICES ASSUME LoopIInv, NEW t \in Thread
             PROVE  /\ thread[t].worker = "none" => Waiting(t) \subseteq late
                    /\ thread[t].turn = "idle" => thread[t].inFlight = <<>>
  BY DEF WaitersHaveAWorker
<1>1. WorkersDrain(thread[t], late)
  BY DEF LoopIInv, ThreadsAreSound, Sound
<1>2. ToSet(<<>>) = {}
  BY DEF ToSet
<1> QED BY <1>1, <1>2 DEF WorkersDrain, Waiting

LEMMA HistoriesTell == LoopIInv => HeardOnceInOrder /\ ToolCallsAreAnswered
<1> SUFFICES ASSUME LoopIInv, NEW t \in Thread
             PROVE  /\ InOrder(Transcript(t)) /\ Once(Transcript(t) \o Users(thread[t].inFlight))
                    /\ Answering(thread[t].messages)
                    /\ thread[t].turn = "calling" => Answering(thread[t].copy)
  BY DEF HeardOnceInOrder, ToolCallsAreAnswered
<1>1. HistoriesAreSound(thread[t], arrived)
  BY DEF LoopIInv, ThreadsAreSound, Sound
<1>2. Faithful(Heard(t), Users(thread[t].pending), Users(thread[t].inFlight), arrived)
  BY <1>1 DEF HistoriesAreSound, Heard
<1> QED BY <1>1, <1>2 DEF HistoriesAreSound, Faithful, Transcript

\* The chat loop by itself, for any threads, inputs, budget and limits: it
\* tells the model what was said once and in order, loses no round and bounds
\* what the budget is overdrawn and how many completed threads stay
\* (agent/chat.ts:324-422, 437-934).
THEOREM LoopIsSound ==
    Spec => [](/\ TypeOK /\ HeardOnceInOrder /\ ToolCallsAreAnswered /\ WaitersHaveAWorker
               /\ SpendIsComplete /\ OverspendIsBounded /\ RetentionIsBounded)
<1>1. LoopIInv => /\ TypeOK /\ HeardOnceInOrder /\ ToolCallsAreAnswered /\ WaitersHaveAWorker
                  /\ SpendIsComplete /\ OverspendIsBounded /\ RetentionIsBounded
  BY HistoriesTell, WaitersServed, OverspendBounded, RetentionBounded DEF LoopIInv
<1> QED BY <1>1, LoopBegins, LoopGoesOn, PTL DEF Spec
=============================================================================
