-------------------------- MODULE PerfPairedProofs --------------------------
(***************************************************************************)
(* The two ends of a connection whose owners ask for matching measurements *)
(* take the messages of the other end's measurements in order, none is     *)
(* left over, and neither runs into an assertion.                          *)
(*                                                                         *)
(* What an end will receive is decided before: it is on the connection, or *)
(* the other end has yet to send it.  So the invariant (Flow) says that a  *)
(* connection holds, in order, exactly the messages that belong between    *)
(* the place up to which the one end has sent and the place up to which    *)
(* the other has taken (Filled), where Slots are the places of all         *)
(* messages the commands given so far ask for.  Sound keeps each end's     *)
(* counters within its command, Tempo relates how far the two ends are,    *)
(* TakesTurns is what REQ and REP add.  That the next message an end takes *)
(* is the next one in its own count then follows from Flow alone.          *)
(***************************************************************************)
EXTENDS PerfActorProofs

USE ActorConstants

(* A place in what the two ends are to exchange: the number of a command, and
   of a message of it. *)
Places == Nat \X Nat

Sooner(s, t) == s[1] < t[1] \/ (s[1] = t[1] /\ s[2] < t[2])

NextPlace(s) == <<s[1], s[2] + 1>>

Place(m) == <<m.of, m.count>>

(* The messages w are those of the places S from s up to t, in order, and
   there are none from t up to s. *)
Filled(S, w, s, t) ==
  /\ \A i \in DOMAIN w :
       Place(w[i]) \in S /\ ~Sooner(Place(w[i]), s) /\ Sooner(Place(w[i]), t)
  /\ \A i, j \in DOMAIN w : i < j => Sooner(Place(w[i]), Place(w[j]))
  /\ \A x \in S : ~Sooner(x, s) /\ Sooner(x, t) =>
       \E i \in DOMAIN w : Place(w[i]) = x
  /\ \A x \in S : Sooner(x, t) \/ ~Sooner(x, s)

LEMMA SoonerIsTotal ==
  /\ \A s \in Places : ~Sooner(s, s)
  /\ \A s, t \in Places : s # t => Sooner(s, t) \/ Sooner(t, s)
  /\ \A s, t \in Places : ~(Sooner(s, t) /\ Sooner(t, s))
  /\ \A s, t, u \in Places : Sooner(s, t) /\ Sooner(t, u) => Sooner(s, u)
BY DEF Sooner, Places

LEMMA NextIsNext ==
  /\ \A s \in Places : NextPlace(s) \in Places /\ Sooner(s, NextPlace(s))
  /\ \A s, x \in Places : Sooner(x, NextPlace(s)) <=> x = s \/ Sooner(x, s)
BY DEF Sooner, Places, NextPlace

LEMMA MessagePlace == \A m \in Message : Place(m) \in Places
BY DEF Place, Places, Message

LEMMA FilledSent ==
  ASSUME NEW S \in SUBSET Places, NEW w \in Seq(Message), NEW s \in Places,
         NEW t \in S, NEW m \in Message, Place(m) = t, Filled(S, w, s, t)
  PROVE  Filled(S, Append(w, m), s, NextPlace(t))
<1> DEFINE v == Append(w, m)
<1>1. /\ Len(w) \in Nat /\ Len(v) = Len(w) + 1 /\ DOMAIN v = 1..(Len(w) + 1)
      /\ v[Len(w) + 1] = m /\ \A i \in 1..Len(w) : v[i] = w[i]
  BY AppendProperties
<1>2. DOMAIN w = 1..Len(w)
  OBVIOUS
<1> HIDE DEF v
<1>3. \A x \in Places : Sooner(x, NextPlace(t)) <=> x = t \/ Sooner(x, t)
  BY NextIsNext
<1>4. ~Sooner(t, s) /\ ~Sooner(t, t)
  BY SoonerIsTotal DEF Filled
<1>5. ASSUME NEW i \in DOMAIN v
      PROVE  /\ Place(v[i]) \in S /\ ~Sooner(Place(v[i]), s)
             /\ Sooner(Place(v[i]), NextPlace(t))
  <2>1. CASE i \in DOMAIN w
    BY <1>1, <1>2, <1>3, <2>1 DEF Filled
  <2>2. CASE i = Len(w) + 1
    BY <1>1, <1>3, <1>4, <2>2
  <2> QED BY <1>1, <1>2, <2>1, <2>2
<1>6. ASSUME NEW i \in DOMAIN v, NEW j \in DOMAIN v, i < j
      PROVE  Sooner(Place(v[i]), Place(v[j]))
  <2>1. i \in DOMAIN w
    BY <1>1, <1>2, <1>6
  <2>2. CASE j \in DOMAIN w
    BY <1>1, <1>2, <1>6, <2>1, <2>2 DEF Filled
  <2>3. CASE j = Len(w) + 1
    BY <1>1, <1>2, <2>1, <2>3 DEF Filled
  <2> QED BY <1>1, <1>2, <2>2, <2>3
<1>7. ASSUME NEW x \in S, ~Sooner(x, s), Sooner(x, NextPlace(t))
      PROVE  \E i \in DOMAIN v : Place(v[i]) = x
  <2>1. CASE Sooner(x, t)
    <3>1. PICK i \in DOMAIN w : Place(w[i]) = x
      BY <1>7, <2>1 DEF Filled
    <3> QED BY <1>1, <1>2, <3>1
  <2>2. CASE x = t
    BY <1>1, <2>2
  <2> QED BY <1>3, <1>7, <2>1, <2>2
<1>8. ASSUME NEW x \in S
      PROVE  Sooner(x, NextPlace(t)) \/ ~Sooner(x, s)
  BY <1>3 DEF Filled
<1>9. Filled(S, v, s, NextPlace(t))
  BY <1>5, <1>6, <1>7, <1>8 DEF Filled
<1> QED BY <1>9 DEF v

LEMMA FilledTaken ==
  ASSUME NEW S \in SUBSET Places, NEW w \in Seq(Message), NEW s \in S,
         NEW t \in Places, w # <<>>, Filled(S, w, s, t)
  PROVE  /\ Place(Head(w)) = s
         /\ Filled(S, Tail(w), NextPlace(s), t)
<1> DEFINE v == Tail(w)
<1>1. /\ Len(w) \in Nat /\ Len(w) # 0 /\ Len(v) = Len(w) - 1
      /\ DOMAIN v = 1..(Len(w) - 1) /\ Head(w) = w[1]
      /\ \A i \in 1..(Len(w) - 1) : v[i] = w[i + 1]
  BY HeadTailProperties
<1>2. DOMAIN w = 1..Len(w) /\ 1 \in DOMAIN w
  BY <1>1
<1> HIDE DEF v
<1>3. \A x \in Places : Sooner(x, NextPlace(s)) <=> x = s \/ Sooner(x, s)
  BY NextIsNext
<1>4. Place(w[1]) = s
  <2> DEFINE f == Place(w[1])
  <2>1. f \in Places /\ ~Sooner(f, s) /\ Sooner(f, t)
    BY <1>2 DEF Filled
  <2> HIDE DEF f
  <2>2. f = s \/ Sooner(s, f)
    BY <2>1, SoonerIsTotal
  <2>3. Sooner(s, t) /\ ~Sooner(s, s)
    BY <2>1, <2>2, SoonerIsTotal
  <2>4. PICK i \in DOMAIN w : Place(w[i]) = s
    BY <2>3 DEF Filled
  <2>5. i = 1 \/ 1 < i
    BY <1>2
  <2>6. 1 < i => Sooner(f, s)
    BY <1>2, <2>4 DEF Filled, f
  <2> QED BY <2>1, <2>4, <2>5, <2>6 DEF f
<1>5. \A i \in DOMAIN v : i + 1 \in DOMAIN w /\ 1 < i + 1 /\ v[i] = w[i + 1]
  BY <1>1, <1>2
<1>6. ASSUME NEW i \in DOMAIN v
      PROVE  /\ Place(v[i]) \in S /\ ~Sooner(Place(v[i]), NextPlace(s))
             /\ Sooner(Place(v[i]), t)
  <2> DEFINE y == Place(w[i + 1])
  <2>1. y \in S /\ ~Sooner(y, s) /\ Sooner(y, t)
    BY <1>5 DEF Filled
  <2>2. Sooner(s, y)
    BY <1>2, <1>4, <1>5 DEF Filled
  <2>3. Place(v[i]) = y
    BY <1>5
  <2> HIDE DEF y
  <2>4. y # s
    BY <2>2, SoonerIsTotal
  <2> QED BY <1>3, <2>1, <2>3, <2>4
<1>7. ASSUME NEW i \in DOMAIN v, NEW j \in DOMAIN v, i < j
      PROVE  Sooner(Place(v[i]), Place(v[j]))
  <2>1. i + 1 < j + 1
    BY <1>1, <1>7
  <2> QED BY <1>5, <2>1 DEF Filled
<1>8. ASSUME NEW x \in S, ~Sooner(x, NextPlace(s)), Sooner(x, t)
      PROVE  \E i \in DOMAIN v : Place(v[i]) = x
  <2>1. x # s /\ ~Sooner(x, s)
    BY <1>3, <1>8
  <2>2. PICK j \in DOMAIN w : Place(w[j]) = x
    BY <1>8, <2>1 DEF Filled
  <2>3. j # 1
    BY <1>4, <2>1, <2>2
  <2>4. j - 1 \in DOMAIN v /\ (j - 1) + 1 = j
    BY <1>1, <1>2, <2>3
  <2> QED BY <1>5, <2>2, <2>4
<1>9. ASSUME NEW x \in S
      PROVE  Sooner(x, t) \/ ~Sooner(x, NextPlace(s))
  <2>1. Sooner(s, t)
    BY <1>2, <1>4 DEF Filled
  <2> QED BY <1>3, <2>1 DEF Filled
<1>10. Filled(S, v, NextPlace(s), t)
  BY <1>6, <1>7, <1>8, <1>9 DEF Filled
<1> QED BY <1>1, <1>4, <1>10 DEF v

LEMMA FilledCut ==
  ASSUME NEW S \in SUBSET Places, NEW w \in Seq(Message), NEW s \in Places,
         NEW t \in Places, NEW k \in 0..Len(w), Filled(S, w, s, t)
  PROVE  \E x \in Places : /\ Filled(S, SubSeq(w, 1, k), s, x)
                           /\ x = t \/ Sooner(x, t)
<1>0. Len(w) \in Nat /\ DOMAIN w = 1..Len(w)
  OBVIOUS
<1>1. CASE k = Len(w)
  <2>1. SubSeq(w, 1, k) = w
    BY <1>1
  <2> QED BY <2>1
<1>2. CASE k < Len(w)
  <2> DEFINE v == SubSeq(w, 1, k)  u == Place(w[k + 1])
  <2>1. DOMAIN v = 1..k /\ \A i \in 1..k : v[i] = w[i]
    BY <1>0, SubSeqProperties
  <2>2. k + 1 \in DOMAIN w /\ k \in Nat
    BY <1>0, <1>2
  <2>3. u \in S /\ ~Sooner(u, s) /\ Sooner(u, t)
    BY <2>2 DEF Filled
  <2>4. \A i \in 1..k : i \in DOMAIN w /\ i < k + 1
    BY <1>0, <2>2
  <2> HIDE DEF v
  <2>5. ASSUME NEW i \in DOMAIN v
        PROVE  /\ Place(v[i]) \in S /\ ~Sooner(Place(v[i]), s)
               /\ Sooner(Place(v[i]), u)
    BY <2>1, <2>2, <2>4 DEF Filled
  <2>6. ASSUME NEW i \in DOMAIN v, NEW j \in DOMAIN v, i < j
        PROVE  Sooner(Place(v[i]), Place(v[j]))
    BY <2>1, <2>4, <2>6 DEF Filled
  <2>7. ASSUME NEW x \in S, ~Sooner(x, s), Sooner(x, u)
        PROVE  \E i \in DOMAIN v : Place(v[i]) = x
    <3>1. Sooner(x, t)
      BY <2>3, <2>7, SoonerIsTotal
    <3>2. PICK i \in DOMAIN w : Place(w[i]) = x
      BY <2>7, <3>1 DEF Filled
    <3>3. i = k + 1 \/ k + 1 < i => ~Sooner(x, u)
      <4>1. i = k + 1 => x = u
        BY <3>2
      <4>2. k + 1 < i => Sooner(u, x)
        BY <2>2, <3>2 DEF Filled
      <4> QED BY <2>3, <4>1, <4>2, SoonerIsTotal
    <3>4. i \in 1..k
      BY <1>0, <2>2, <2>7, <3>3
    <3> QED BY <2>1, <3>2, <3>4
  <2>8. ASSUME NEW x \in S
        PROVE  Sooner(x, u) \/ ~Sooner(x, s)
    BY <2>3, SoonerIsTotal
  <2>9. Filled(S, v, s, u)
    BY <2>5, <2>6, <2>7, <2>8 DEF Filled
  <2> HIDE DEF u
  <2>10. \E x \in Places : Filled(S, v, s, x) /\ (x = t \/ Sooner(x, t))
    BY <2>3, <2>9
  <2> QED BY <2>10 DEF v
<1>3. k = Len(w) \/ k < Len(w)
  <2>1. \A n \in Nat : \A i \in 0..n : i = n \/ i < n
    OBVIOUS
  <2> QED BY <1>0, <2>1
<1> QED BY <1>1, <1>2, <1>3, Zenon

(* No place of S from s up to t. *)
Empty(S, s, t) ==
  s = t \/ (Sooner(s, t) /\ \A x \in S : Sooner(x, s) \/ ~Sooner(x, t))

LEMMA FilledFrom ==
  ASSUME NEW S \in SUBSET Places, NEW w, NEW s \in Places, NEW t \in Places,
         NEW u \in Places, Empty(S, s, u), Filled(S, w, s, t)
  PROVE  Filled(S, w, u, t)
<1>1. CASE s = u
  BY <1>1
<1>2. CASE Sooner(s, u) /\ \A x \in S : Sooner(x, s) \/ ~Sooner(x, u)
  <2>1. \A x \in S : Sooner(x, s) <=> Sooner(x, u)
    BY <1>2, SoonerIsTotal
  <2> QED BY <2>1 DEF Filled
<1> QED BY <1>1, <1>2 DEF Empty

LEMMA FilledTo ==
  ASSUME NEW S \in SUBSET Places, NEW w, NEW s \in Places, NEW t \in Places,
         NEW u \in Places, Empty(S, t, u), Filled(S, w, s, t)
  PROVE  Filled(S, w, s, u)
<1>1. CASE t = u
  BY <1>1
<1>2. CASE Sooner(t, u) /\ \A x \in S : Sooner(x, t) \/ ~Sooner(x, u)
  <2>1. \A x \in S : Sooner(x, t) <=> Sooner(x, u)
    BY <1>2, SoonerIsTotal
  <2> QED BY <2>1 DEF Filled
<1> QED BY <1>1, <1>2 DEF Empty

LEMMA FilledGrows ==
  ASSUME NEW S \in SUBSET Places, NEW T \in SUBSET Places, S \subseteq T,
         NEW w, NEW s \in Places, NEW t \in Places, Filled(S, w, s, t),
         \A x \in T \ S : ~Sooner(x, s) /\ ~Sooner(x, t)
  PROVE  Filled(T, w, s, t)
BY DEF Filled

-----------------------------------------------------------------------------

(* The places of the messages of the measurements that the owners gave. *)
Slots ==
  {s \in Places : \E b \in Actors :
     /\ s[1] \in DOMAIN given[b]
     /\ given[b][s[1]].kind \in Measures /\ s[2] < given[b][s[1]].n}

(* The place of the next message b sends, or sends after the answer it waits
   for, and of the next it takes, or takes after it has answered. *)
Sent(b) ==
  <<Number(b), IF sock[b] \in Talkers /\ phase[b] = "recv"
               THEN run[b].count + 1 ELSE run[b].count>>

Got(b) ==
  <<Number(b), IF sock[b] \in Listeners /\ phase[b] = "send"
               THEN run[b].count + 1 ELSE run[b].count>>

(* b may send, and the other end takes what it is sent. *)
Open(b) ==
  sock[b] # "PULL" /\ sock[Peer(b)] # "PUSH" /\ phase[Peer(b)] # "ended"

(* A connection of b holds all that b has sent and the other end not taken; of
   an end that was told to stop, a part of what its owner asked for. *)
Reach(b, l) ==
  \E t \in Places :
    /\ Filled(Slots, wire[b][l], Got(Peer(b)), t)
    /\ IF phase[b] = "ended" THEN ~Sooner(<<Len(given[b]) + 1, 0>>, t)
       ELSE t = Sent(b)

(* A message is of a measurement its owner gave, and has been sent. *)
Meant(b, m) ==
  /\ m.of \in DOMAIN given[b] /\ given[b][m.of].kind \in Measures
  /\ given[b][m.of].size = m.size
  /\ phase[b] # "ended" => Sooner(Place(m), Sent(b))

Flow(b) ==
  /\ sock[b] = "PULL" => \A l \in Lanes : wire[b][l] = <<>>
  /\ Open(b) => \A l \in Lanes : Reach(b, l)
  /\ \A l \in Lanes : \A i \in DOMAIN wire[b][l] : Meant(b, wire[b][l][i])

(* A measurement counts up to its number of messages, and no assertion fails. *)
Beat(b) ==
  /\ phase[b] \in {"idle", "ended"} => run[b].count = 0
  /\ phase[b] \in {"send", "recv"} => run[b].count < Next1(b).n
  /\ phase[b] = "signal" => run[b].count = Next1(b).n
  /\ phase[b] = "signal" \/ run[b].count # 0 => run[b].watch
  /\ sock[b] = "PUSH" => phase[b] # "recv"
  /\ sock[b] = "PULL" => phase[b] # "send"
  /\ phase[b] # "aborted"

(* It counts in order. *)
Tempo(b) == Beat(b) /\ run[b].out = run[b].count /\ run[b].noos = 0

(* A socket that answers has somebody to answer when it is to send and only
   then; a REQ socket has an answer to take when it is to receive. *)
TakesTurns(b) ==
  phase[b] # "ended" =>
    /\ sock[b] \in {"REP", "ROUTER"} => (phase[b] = "send" <=> back[b] # None)
    /\ sock[b] = "REQ" => (phase[b] = "recv" <=> back[b] # None)

InOrder(b) == \A i \in DOMAIN answers[b] : answers[b][i].noos = 0

Sound(b) == Tempo(b) /\ TakesTurns(b) /\ InOrder(b) /\ Flow(b)

Tallied == OneLane /\ Paired => \A b \in Actors : Sound(b)

-----------------------------------------------------------------------------

(* What matches. *)
LEMMA MatchKinds ==
  ASSUME NEW c, NEW d, Match(c, d)
  PROVE  /\ c.n = d.n /\ c.size = d.size
         /\ c.kind \in Measures <=> d.kind \in Measures
         /\ d.kind \in Sends => c.kind \in Recvs
<1>1. PICK pair \in {<<Sends, Recvs>>, <<Yodels, Echos>>,
                      <<{"BIND"}, {"CONNECT"}>>, <<Notes, Notes>>,
                      <<{"$TERM"}, {"$TERM"}>>} :
        \/ c.kind \in pair[1] /\ d.kind \in pair[2]
        \/ d.kind \in pair[1] /\ c.kind \in pair[2]
  BY DEF Match
<1>2. c.n = d.n /\ c.size = d.size
  BY DEF Match
<1>3. \/ pair = <<Sends, Recvs>> \/ pair = <<Yodels, Echos>>
      \/ pair = <<{"BIND"}, {"CONNECT"}>> \/ pair = <<Notes, Notes>>
      \/ pair = <<{"$TERM"}, {"$TERM"}>>
  OBVIOUS
<1>4. c.kind \in Measures <=> d.kind \in Measures
  BY <1>1, <1>3 DEF Measures, Sends, Recvs, Yodels, Echos, Notes
<1>5. d.kind \in Sends => c.kind \in Recvs
  BY <1>1, <1>3 DEF Sends, Recvs, Yodels, Echos, Notes
<1> QED BY <1>2, <1>4, <1>5

(* The places of a measurement of either end. *)
LEMMA SlotOf ==
  ASSUME Typed, Paired, NEW a \in Actors, NEW j \in DOMAIN given[a],
         NEW k \in Nat
  PROVE  <<j, k>> \in Slots <=>
           given[a][j].kind \in Measures /\ k < given[a][j].n
<1>0. given[a] \in Seq(Command) /\ j \in Nat
  BY DEF Typed, Pipework
<1>1. ASSUME NEW b \in Actors, j \in DOMAIN given[b]
      PROVE  /\ given[b][j].n = given[a][j].n
             /\ given[b][j].kind \in Measures <=> given[a][j].kind \in Measures
  <2>1. CASE b = a
    BY <2>1
  <2>2. CASE b # a
    <3>1. Match(given[b][j], given[a][j])
      BY <1>1, <2>2 DEF Paired
    <3> QED BY <3>1, MatchKinds
  <2> QED BY <2>1, <2>2
<1>2. <<j, k>> \in Places
  BY <1>0 DEF Places
<1> DEFINE s == <<j, k>>
<1>3. s[1] = j /\ s[2] = k
  OBVIOUS
<1> HIDE DEF s
<1>4. s \in Slots <=> \E b \in Actors :
        /\ j \in DOMAIN given[b]
        /\ given[b][j].kind \in Measures /\ k < given[b][j].n
  BY <1>2, <1>3 DEF Slots, s
<1> QED BY <1>1, <1>4 DEF s

(* The command that is run is the one of its number. *)
LEMMA NowGiven ==
  ASSUME Typed, NEW a \in Actors
  PROVE  /\ Number(a) \in Nat /\ Number(a) <= Len(given[a]) + 1
         /\ cmds[a] # <<>> =>
              /\ Number(a) \in DOMAIN given[a] /\ Number(a) <= Len(given[a])
              /\ given[a][Number(a)] = Next1(a)
<1> DEFINE c == cmds[a]  g == given[a]
<1>1. c \in Seq(Command) /\ g \in Seq(Command)
  BY DEF Typed, Pipework
<1>2. Len(c) <= Len(g) /\ \A i \in 1..Len(c) : c[i] = g[Len(g) - Len(c) + i]
  BY BacklogOf DEF Typed
<1>3. Number(a) = Len(g) - Len(c) + 1
  BY DEF Number, Done
<1>4. Next1(a) = Head(c)
  BY DEF Next1
<1> HIDE DEF c, g
<1>5. Len(c) \in Nat /\ Len(g) \in Nat /\ DOMAIN g = 1..Len(g)
  BY <1>1
<1>6. c # <<>> => Len(c) # 0 /\ Head(c) = c[1]
  BY <1>1
<1>7. c # <<>> => c[1] = g[Number(a)]
  BY <1>2, <1>3, <1>5, <1>6
<1>8. /\ Number(a) \in Nat /\ Number(a) <= Len(g) + 1
      /\ c # <<>> => Number(a) \in DOMAIN g /\ Number(a) <= Len(g)
  BY <1>2, <1>3, <1>5, <1>6
<1>9. c # <<>> => g[Number(a)] = Next1(a)
  BY <1>4, <1>6, <1>7
<1> QED BY <1>8, <1>9 DEF c, g

(* The places of the measurement under way. *)
LEMMA SlotNow ==
  ASSUME Typed, Paired, NEW a \in Actors, cmds[a] # <<>>, NEW k \in Nat
  PROVE  <<Number(a), k>> \in Slots <=>
           Next1(a).kind \in Measures /\ k < Next1(a).n
BY NowGiven, SlotOf

(* The command that is run is one of a pair. *)
LEMMA ProperNow ==
  ASSUME Typed, Paired, NEW a \in Actors, cmds[a] # <<>>
  PROVE  Proper(a, Next1(a))
BY NowGiven DEF Paired

LEMMA PairedFits == ASSUME Paired PROVE AllFit
BY DEF Paired, AllFit, Proper

(* Places are places. *)
LEMMA PositionTypes ==
  ASSUME Typed, NEW b \in Actors
  PROVE  /\ Sent(b) \in Places /\ Got(b) \in Places
         /\ Slots \in SUBSET Places
<1>1. Number(b) \in Nat /\ run[b].count \in Nat
  BY NowGiven DEF Typed, Machine, Runs
<1> QED BY <1>1 DEF Sent, Got, Places, Slots

(* s is reached before t, or is t. *)
Onward(s, t) == s = t \/ Sooner(s, t)

(* No message moves, and the places that the two ends have reached move over
   nothing. *)
LEMMA FlowSteady ==
  ASSUME Typed, NEW b \in Actors, NEW q \in Actors, q = Peer(b), Flow(b),
         wire'[b] = wire[b], given' = given, sock' = sock,
         phase'[b] = "ended" <=> phase[b] = "ended",
         phase[q] = "ended" => phase'[q] = "ended",
         Sent(b)' \in Places, Got(q)' \in Places,
         phase[b] # "ended" => Onward(Sent(b), Sent(b)'),
         Open(b) /\ phase[b] # "ended" => Empty(Slots, Sent(b), Sent(b)'),
         Open(b)' => Empty(Slots, Got(q), Got(q)')
  PROVE  Flow(b)'
<1>0. /\ Sent(b) \in Places /\ Got(q) \in Places /\ Slots \in SUBSET Places
  BY PositionTypes
<1>1. Slots' = Slots /\ Peer(b)' = q
  BY DEF Slots, Peer
<1>2. ASSUME Open(b)', NEW l \in Lanes
      PROVE  Reach(b, l)'
  <2>1. Open(b)
    BY <1>1, <1>2 DEF Open
  <2>2. PICK t \in Places :
          /\ Filled(Slots, wire[b][l], Got(q), t)
          /\ IF phase[b] = "ended" THEN ~Sooner(<<Len(given[b]) + 1, 0>>, t)
             ELSE t = Sent(b)
    BY <2>1 DEF Flow, Reach
  <2>3. Filled(Slots, wire[b][l], Got(q)', t)
    BY <1>0, <1>2, <2>2, FilledFrom
  <2>4. CASE phase[b] = "ended"
    BY <1>1, <2>2, <2>3, <2>4 DEF Reach
  <2>5. CASE phase[b] # "ended"
    <3>1. Filled(Slots, wire[b][l], Got(q)', Sent(b)')
      BY <1>0, <2>1, <2>2, <2>3, <2>5, FilledTo
    <3> QED BY <1>1, <2>5, <3>1 DEF Reach
  <2> QED BY <2>4, <2>5
<1>3. ASSUME NEW l \in Lanes, NEW i \in DOMAIN wire[b][l]
      PROVE  Meant(b, wire[b][l][i])'
  <2> DEFINE m == wire[b][l][i]
  <2>1. m \in Message /\ Meant(b, m)
    BY <1>3 DEF Flow, Typed, Socketry
  <2>2. Place(m) \in Places
    BY <2>1, MessagePlace
  <2> HIDE DEF m
  <2>3. phase'[b] # "ended" => Sooner(Place(m), Sent(b)')
    BY <1>0, <2>1, <2>2, SoonerIsTotal DEF Meant, Onward
  <2>4. /\ m.of \in DOMAIN given'[b] /\ given'[b][m.of].kind \in Measures
        /\ given'[b][m.of].size = m.size
    BY <2>1 DEF Meant
  <2> QED BY <2>3, <2>4 DEF m, Meant, Place
<1>4. sock'[b] = "PULL" => \A l \in Lanes : wire'[b][l] = <<>>
  BY DEF Flow
<1> QED BY <1>2, <1>3, <1>4 DEF Flow

(* The message of the place that b has reached is sent. *)
LEMMA FlowSent ==
  ASSUME Typed, OneLane, NEW b \in Actors, NEW q \in Actors, q = Peer(b),
         Flow(b), NEW l \in Lanes, NEW m \in Message,
         wire'[b][l] = Append(wire[b][l], m), given' = given, sock' = sock,
         sock[b] # "PULL", phase[b] # "ended", phase'[b] # "ended",
         phase'[q] = phase[q], Got(q)' = Got(q), Sent(b) \in Slots,
         Place(m) = Sent(b), Sent(b)' = NextPlace(Sent(b)),
         m.of \in DOMAIN given[b], given[b][m.of].kind \in Measures,
         given[b][m.of].size = m.size
  PROVE  Flow(b)'
<1>0. /\ Sent(b) \in Places /\ Got(q) \in Places /\ Slots \in SUBSET Places
  BY PositionTypes
<1>1. Slots' = Slots /\ Peer(b)' = q /\ \A k \in Lanes : k = l
  BY TheLane DEF Slots, Peer
<1>2. wire[b][l] \in Seq(Message)
  BY DEF Typed, Socketry
<1>3. ASSUME Open(b)'
      PROVE  Reach(b, l)'
  <2>1. Open(b)
    BY <1>1, <1>3 DEF Open
  <2>2. Filled(Slots, wire[b][l], Got(q), Sent(b))
    BY <2>1 DEF Flow, Reach
  <2>3. Filled(Slots, Append(wire[b][l], m), Got(q), NextPlace(Sent(b)))
    BY <1>0, <1>2, <2>2, FilledSent
  <2>4. NextPlace(Sent(b)) \in Places
    BY <1>0, NextIsNext
  <2> QED BY <1>1, <2>3, <2>4 DEF Reach
<1>4. ASSUME NEW x \in Message, Meant(b, x) \/ x = m
      PROVE  /\ x.of \in DOMAIN given[b] /\ given[b][x.of].kind \in Measures
             /\ given[b][x.of].size = x.size
             /\ Sooner(Place(x), Sent(b)')
  <2>1. Place(x) \in Places
    BY MessagePlace
  <2>2. Place(x) = Sent(b) \/ Sooner(Place(x), Sent(b))
    BY <1>4 DEF Meant
  <2>3. Sooner(Place(x), NextPlace(Sent(b)))
    BY <1>0, <2>1, <2>2, NextIsNext
  <2> QED BY <1>4, <2>3 DEF Meant
<1>5. ASSUME NEW i \in DOMAIN wire'[b][l]
      PROVE  Meant(b, wire[b][l][i])'
  <2> DEFINE w == wire[b][l]  v == Append(w, m)  x == v[i]
  <2>1. /\ Len(w) \in Nat /\ DOMAIN v = 1..(Len(w) + 1) /\ v \in Seq(Message)
        /\ v[Len(w) + 1] = m /\ \A j \in 1..Len(w) : v[j] = w[j]
    BY <1>2, AppendProperties
  <2>2. i \in DOMAIN v /\ wire'[b][l] = v
    BY <1>5
  <2>3. \A j \in 1..Len(w) : Meant(b, w[j])
    BY DEF Flow
  <2> HIDE DEF w, v
  <2>4. x \in Message /\ (Meant(b, x) \/ x = m)
    BY <2>1, <2>2, <2>3
  <2>5. /\ x.of \in DOMAIN given[b] /\ given[b][x.of].kind \in Measures
        /\ given[b][x.of].size = x.size
        /\ Sooner(Place(x), Sent(b)')
    BY <1>4, <2>4
  <2> QED BY <2>2, <2>5 DEF Meant, Place
<1> QED BY <1>1, <1>3, <1>5 DEF Flow

(* The message of the place that the other end has reached is taken. *)
LEMMA FlowTaken ==
  ASSUME Typed, OneLane, NEW b \in Actors, NEW q \in Actors, q = Peer(b),
         Flow(b), NEW l \in Lanes, wire[b][l] # <<>>,
         wire'[b][l] = Tail(wire[b][l]), given' = given, sock' = sock,
         phase'[b] = phase[b], phase[q] # "ended", sock[q] # "PUSH",
         Sent(b)' = Sent(b), Got(q) \in Slots, Got(q)' = NextPlace(Got(q))
  PROVE  Flow(b)'
<1>0. /\ Sent(b) \in Places /\ Got(q) \in Places /\ Slots \in SUBSET Places
  BY PositionTypes
<1>1. Slots' = Slots /\ Peer(b)' = q /\ \A k \in Lanes : k = l
  BY TheLane DEF Slots, Peer
<1>2. wire[b][l] \in Seq(Message) /\ sock[b] # "PULL"
  BY DEF Typed, Socketry, Flow
<1>3. Reach(b, l)'
  <2>1. Open(b)
    BY <1>2 DEF Open
  <2>2. PICK t \in Places :
          /\ Filled(Slots, wire[b][l], Got(q), t)
          /\ IF phase[b] = "ended" THEN ~Sooner(<<Len(given[b]) + 1, 0>>, t)
             ELSE t = Sent(b)
    BY <2>1 DEF Flow, Reach
  <2>3. Filled(Slots, Tail(wire[b][l]), NextPlace(Got(q)), t)
    BY <1>0, <1>2, <2>2, FilledTaken
  <2> QED BY <1>1, <2>2, <2>3 DEF Reach
<1>4. ASSUME NEW i \in DOMAIN wire'[b][l]
      PROVE  Meant(b, wire[b][l][i])'
  <2> DEFINE w == wire[b][l]  v == Tail(w)  x == v[i]
  <2>1. /\ Len(w) \in Nat /\ Len(w) # 0 /\ DOMAIN v = 1..(Len(w) - 1)
        /\ \A j \in 1..(Len(w) - 1) : v[j] = w[j + 1]
    BY <1>2, HeadTailProperties
  <2>2. i \in DOMAIN v /\ wire'[b][l] = v
    BY <1>4
  <2>3. \A j \in 1..Len(w) : Meant(b, w[j])
    BY DEF Flow
  <2> HIDE DEF w, v
  <2>4. Meant(b, x)
    BY <2>1, <2>2, <2>3
  <2> QED BY <2>2, <2>4 DEF Meant, Place
<1> QED BY <1>1, <1>2, <1>3, <1>4 DEF Flow

(* The socket of b is destroyed, and messages may be lost with it. *)
LEMMA FlowCut ==
  ASSUME Typed, NEW b \in Actors, NEW q \in Actors, q = Peer(b), Flow(b),
         \A l \in Lanes : \E k \in 0..Len(wire[b][l]) :
           wire'[b][l] = SubSeq(wire[b][l], 1, k),
         given' = given, sock' = sock, phase[b] # "ended",
         phase'[b] = "ended", phase'[q] = phase[q], Got(q)' = Got(q),
         Number(b) <= Len(given[b])
  PROVE  Flow(b)'
<1>0. /\ Sent(b) \in Places /\ Got(q) \in Places /\ Slots \in SUBSET Places
  BY PositionTypes
<1>1. Slots' = Slots /\ Peer(b)' = q
  BY DEF Slots, Peer
<1>2. ASSUME NEW l \in Lanes
      PROVE  /\ Open(b)' => Reach(b, l)'
             /\ wire[b][l] = <<>> => wire'[b][l] = <<>>
             /\ \A i \in DOMAIN wire'[b][l] : Meant(b, wire[b][l][i])'
  <2> DEFINE w == wire[b][l]
  <2>1. w \in Seq(Message)
    BY DEF Typed, Socketry
  <2>2. PICK k \in 0..Len(w) : wire'[b][l] = SubSeq(w, 1, k)
    OBVIOUS
  <2>3. ASSUME Open(b)'
        PROVE  Reach(b, l)'
    <3>1. Open(b)
      BY <1>1, <2>3 DEF Open
    <3>2. Filled(Slots, w, Got(q), Sent(b))
      BY <3>1 DEF Flow, Reach
    <3> HIDE DEF w
    <3>3. PICK u \in Places : /\ Filled(Slots, SubSeq(w, 1, k), Got(q), u)
                              /\ u = Sent(b) \/ Sooner(u, Sent(b))
      BY <1>0, <2>1, <3>2, FilledCut
    <3>4. ~Sooner(<<Len(given[b]) + 1, 0>>, u)
      <4> DEFINE e == <<Len(given[b]) + 1, 0>>
      <4>1. Number(b) \in Nat
        BY NowGiven
      <4>2. Len(given[b]) \in Nat
        BY DEF Typed, Pipework
      <4>3. Sent(b)[1] = Number(b)
        BY DEF Sent
      <4>4. e[1] = Len(given[b]) + 1 /\ e \in Places
        BY <4>2 DEF Places
      <4>5. Number(b) < Len(given[b]) + 1
        BY <4>1, <4>2
      <4> HIDE DEF e
      <4>6. Sooner(Sent(b), e)
        BY <4>3, <4>4, <4>5 DEF Sooner
      <4>7. ~Sooner(e, u)
        BY <1>0, <3>3, <4>4, <4>6, SoonerIsTotal
      <4> QED BY <4>7 DEF e
    <3> QED BY <1>1, <2>2, <3>3, <3>4 DEF Reach
  <2>4. \A i \in DOMAIN w : Meant(b, w[i])
    BY DEF Flow
  <2> HIDE DEF w
  <2>5. /\ Len(w) \in Nat /\ DOMAIN w = 1..Len(w)
        /\ k \in Nat /\ \A i \in 1..k : i \in 1..Len(w)
    BY <2>1
  <2>6. /\ DOMAIN SubSeq(w, 1, k) = 1..k
        /\ \A i \in 1..k : SubSeq(w, 1, k)[i] = w[i]
    BY <2>1, <2>5, SubSeqProperties
  <2>7. \A i \in DOMAIN wire'[b][l] : Meant(b, wire[b][l][i])'
    BY <2>2, <2>4, <2>5, <2>6 DEF Meant
  <2>8. w = <<>> => wire'[b][l] = <<>>
    BY <2>2
  <2> QED BY <2>3, <2>7, <2>8 DEF w
<1> QED BY <1>2 DEF Flow

-----------------------------------------------------------------------------

(* What the round of the loop does to the phase and the count. *)
LEMMA Round ==
  ASSUME Typed, Paired, NEW a \in Actors, Beat(a),
         phase[a] \in {"send", "recv"}, NEW r \in Runs, Advance(a, r),
         r.count = run[a].count, r.watch = run[a].watch,
         sock' = sock, cmds' = cmds
  PROVE  /\ Beat(a)'
         /\ r.out = r.count /\ r.noos = 0 => Tempo(a)'
         /\ phase'[a] \in Busy
         /\ sock[a] \in {"PUSH", "PULL"} =>
              run'[a].count = run[a].count + 1 /\ phase'[a] # "idle"
         /\ sock[a] \in {"REQ", "DEALER"} /\ phase[a] = "send" =>
              run'[a].count = run[a].count /\ phase'[a] = "recv"
         /\ sock[a] \in {"REQ", "DEALER"} /\ phase[a] = "recv" =>
              run'[a].count = run[a].count + 1 /\ phase'[a] # "recv"
         /\ sock[a] \in {"REP", "ROUTER"} /\ phase[a] = "recv" =>
              run'[a].count = run[a].count /\ phase'[a] = "send"
         /\ sock[a] \in {"REP", "ROUTER"} /\ phase[a] = "send" =>
              run'[a].count = run[a].count + 1 /\ phase'[a] # "send"
<1> DEFINE k == r.count + 1
           s == [r EXCEPT !.count = k, !.out = k,
                          !.watch = @ \/ (k = 1 /\ ~LoopEnds(a, k))]
           kind == Next1(a).kind
           n == Next1(a).n
<1>1. cmds[a] # <<>> /\ kind \in Measures /\ n \in Nat
  BY Current DEF Typed, Machine
<1>2. kind \in MeasuresOf[sock[a]]
  BY <1>1, PairedFits, FitNow
<1>3. n >= 2
  BY <1>1, ProperNow DEF Proper
<1>4. /\ First(kind) = IF sock[a] \in Talkers THEN "send" ELSE "recv"
      /\ kind \in Sends \cup Recvs <=> sock[a] \in {"PUSH", "PULL"}
  BY <1>2, FitKinds
<1>5. /\ r.count \in Nat /\ r.count < n /\ k \in Nat /\ k <= n
      /\ r.count # 0 => r.watch
      /\ LoopEnds(a, k) <=> k = n
  BY <1>1 DEF Beat, LoopEnds, Runs
<1>6. sock[a] \in Types /\ n = Next1(a)'.n
  BY DEF Typed, Pipework, Next1
<1>7. CASE ~RoundEnds(a, k)
  <2>1. /\ run'[a] = r
        /\ phase'[a] = IF phase[a] = "send" THEN "recv" ELSE "send"
    BY <1>7 DEF Advance, Typed, Machine
  <2>2. phase[a] = First(kind) /\ kind \notin Sends \cup Recvs
    BY <1>7 DEF RoundEnds
  <2>3. sock[a] \notin {"PUSH", "PULL"}
    BY <1>4, <2>2
  <2> HIDE DEF kind, n, k
  <2>4. /\ Beat(a)'
        /\ r.out = r.count /\ r.noos = 0 => Tempo(a)'
    BY <1>5, <1>6, <2>1, <2>3 DEF Beat, Tempo
  <2> QED BY <1>4, <1>6, <2>1, <2>2, <2>3, <2>4 DEF Busy, Types, Talkers
<1>8. CASE RoundEnds(a, k)
  <2>1. run' = [run EXCEPT ![a] = s]
    BY <1>8 DEF Advance
  <2>2. phase' = [phase EXCEPT ![a] =
             IF LoopEnds(a, k) THEN "signal" ELSE First(kind)]
    BY <1>8 DEF Advance
  <2>3. phase[a] # First(kind) \/ sock[a] \in {"PUSH", "PULL"}
    BY <1>4, <1>8 DEF RoundEnds
  <2>4. /\ s.count = k /\ s.out = k /\ s.noos = r.noos
        /\ s.watch = (r.watch \/ (k = 1 /\ ~LoopEnds(a, k)))
    BY DEF Runs
  <2> HIDE DEF s, kind, n, k
  <2>5. /\ run'[a] = s
        /\ phase'[a] = IF k = n THEN "signal" ELSE First(kind)
    BY <1>5, <2>1, <2>2 DEF Typed, Machine
  <2>6. s.watch
    <3>1. r.count # 0 \/ (k = 1 /\ ~LoopEnds(a, k))
      BY <1>3, <1>5 DEF k
    <3>2. r.watch \/ (k = 1 /\ ~LoopEnds(a, k))
      BY <1>5, <3>1, Zenon
    <3> QED BY <2>4, <3>2, Zenon
  <2>7. /\ Beat(a)'
        /\ r.noos = 0 => Tempo(a)'
    <3>1. /\ run'[a].out = run'[a].count /\ run'[a].noos = r.noos
          /\ run'[a].watch /\ run'[a].count = k
      BY <2>4, <2>5, <2>6, Zenon
    <3>2. /\ phase'[a] = "signal" => k = n
          /\ phase'[a] \in {"send", "recv"} => k < n
          /\ phase'[a] \notin {"idle", "ended", "aborted"}
      BY <1>1, <1>5, <2>5 DEF First
    <3>3. /\ sock[a] = "PUSH" => phase'[a] # "recv"
          /\ sock[a] = "PULL" => phase'[a] # "send"
      BY <1>4, <2>5 DEF Talkers
    <3> QED BY <1>6, <3>1, <3>2, <3>3 DEF Beat, Tempo
  <2>8. phase'[a] \in {"signal", First(kind)} /\ run'[a].count = k
    BY <2>4, <2>5
  <2> QED BY <1>4, <1>6, <2>3, <2>7, <2>8 DEF Busy, Talkers, Types, k
<1> QED BY <1>7, <1>8

(* So a message that is sent moves the place of the next to send on by one, and
   one that is taken the place of the next to take. *)
LEMMA RoundPlaces ==
  ASSUME Typed, Paired, NEW a \in Actors, Beat(a),
         phase[a] \in {"send", "recv"}, NEW r \in Runs, Advance(a, r),
         r.count = run[a].count, r.watch = run[a].watch,
         sock' = sock, cmds' = cmds, given' = given
  PROVE  /\ phase[a] = "send" =>
              /\ Sent(a) = <<Number(a), run[a].count>>
              /\ Sent(a)' = NextPlace(Sent(a))
              /\ sock[a] # "PUSH" => Got(a)' = Got(a)
         /\ phase[a] = "recv" =>
              /\ Got(a) = <<Number(a), run[a].count>>
              /\ Got(a)' = NextPlace(Got(a))
              /\ sock[a] # "PULL" => Sent(a)' = Sent(a)
              /\ sock[a] = "PULL" => Sent(a)' = NextPlace(Sent(a))
<1>1. /\ sock[a] \in {"PUSH", "PULL"} =>
           run'[a].count = run[a].count + 1 /\ phase'[a] # "idle"
      /\ sock[a] \in {"REQ", "DEALER"} /\ phase[a] = "send" =>
           run'[a].count = run[a].count /\ phase'[a] = "recv"
      /\ sock[a] \in {"REQ", "DEALER"} /\ phase[a] = "recv" =>
           run'[a].count = run[a].count + 1 /\ phase'[a] # "recv"
      /\ sock[a] \in {"REP", "ROUTER"} /\ phase[a] = "recv" =>
           run'[a].count = run[a].count /\ phase'[a] = "send"
      /\ sock[a] \in {"REP", "ROUTER"} /\ phase[a] = "send" =>
           run'[a].count = run[a].count + 1 /\ phase'[a] # "send"
  BY Round
<1>2. Beat(a)'
  BY Round
<1>3. Number(a)' = Number(a) /\ sock[a] \in Types
  BY SameNumber DEF Typed, Pipework
<1>4. /\ sock[a] = "PUSH" => phase[a] # "recv" /\ phase'[a] # "recv"
      /\ sock[a] = "PULL" => phase[a] # "send" /\ phase'[a] # "send"
  BY <1>2 DEF Beat
<1>5. run[a].count \in Nat
  BY DEF Typed, Machine, Runs
<1>6. CASE sock[a] \in {"PUSH", "PULL"}
  BY <1>1, <1>3, <1>4, <1>5, <1>6
  DEF Sent, Got, NextPlace, Talkers, Listeners
<1>7. CASE sock[a] \in {"REQ", "DEALER"}
  BY <1>1, <1>3, <1>5, <1>7 DEF Sent, Got, NextPlace, Talkers, Listeners
<1>8. CASE sock[a] \in {"REP", "ROUTER"}
  BY <1>1, <1>3, <1>5, <1>8 DEF Sent, Got, NextPlace, Talkers, Listeners
<1> QED BY <1>3, <1>6, <1>7, <1>8 DEF Types

(* The end that does not move. *)
LEMMA SpareEnd ==
  ASSUME NEW p \in Actors, Spared(p)
  PROVE  /\ Sent(p)' = Sent(p) /\ Got(p)' = Got(p)
         /\ Beat(p) => Beat(p)'
         /\ Tempo(p) => Tempo(p)'
         /\ TakesTurns(p) => TakesTurns(p)'
         /\ InOrder(p) => InOrder(p)'
<1>1. Sent(p)' = Sent(p) /\ Got(p)' = Got(p)
  BY DEF Spared, Sent, Got
<1>2. Next1(p)' = Next1(p)
  BY DEF Spared, Next1
<1>3. (Beat(p) => Beat(p)') /\ (Tempo(p) => Tempo(p)')
  BY <1>2 DEF Spared, Beat, Tempo
<1>4. TakesTurns(p) => TakesTurns(p)'
  BY DEF Spared, TakesTurns
<1>5. InOrder(p) => InOrder(p)'
  BY DEF Spared, InOrder
<1> QED BY <1>1, <1>3, <1>4, <1>5

(* A command that was run makes way for the next. *)
LEMMA NextNumber ==
  ASSUME Typed, NEW a \in Actors, cmds[a] # <<>>, given' = given,
         cmds' = [cmds EXCEPT ![a] = Tail(@)]
  PROVE  Number(a)' = Number(a) + 1
<1> DEFINE c == cmds[a]  t == Tail(c)
<1>1. c \in Seq(Command) /\ c # <<>> /\ Len(given[a]) \in Nat
  BY DEF Typed, Pipework
<1>2. Len(t) = Len(c) - 1 /\ Len(c) \in Nat
  BY <1>1, HeadTailProperties
<1>3. cmds'[a] = t
  BY DEF Typed, Pipework
<1>4. Number(a) = (Len(given[a]) - Len(c)) + 1
  BY DEF Number, Done
<1>5. Number(a)' = (Len(given[a]) - Len(t)) + 1
  BY <1>3 DEF Number, Done
<1> HIDE DEF c, t
<1> QED BY <1>1, <1>2, <1>4, <1>5

(* No message is left out when the next command comes. *)
LEMMA Skips ==
  ASSUME Typed, Paired, NEW a \in Actors, cmds[a] # <<>>, NEW k \in Nat,
         Next1(a).kind \notin Measures \/ Next1(a).n <= k
  PROVE  /\ <<Number(a), k>> \in Places /\ <<Number(a) + 1, 0>> \in Places
         /\ Empty(Slots, <<Number(a), k>>, <<Number(a) + 1, 0>>)
<1> DEFINE n == Number(a)  s == <<n, k>>  t == <<n + 1, 0>>
<1>1. n \in Nat /\ Next1(a).n \in Nat
  BY NowGiven, Current DEF Typed
<1>2. s \in Places /\ t \in Places /\ Sooner(s, t)
  BY <1>1 DEF Places, Sooner
<1>3. ASSUME NEW x \in Slots, ~Sooner(x, s), Sooner(x, t)
      PROVE  FALSE
  <2>1. x \in Places
    BY PositionTypes
  <2>2. x[1] \in Nat /\ x[2] \in Nat /\ x = <<x[1], x[2]>>
    BY <2>1 DEF Places
  <2>3. x[1] = n /\ x[2] >= k
    BY <1>1, <1>3, <2>2 DEF Sooner
  <2>4. <<n, x[2]>> \in Slots
    BY <1>3, <2>2, <2>3
  <2>5. Next1(a).kind \in Measures /\ x[2] < Next1(a).n
    BY <2>2, <2>4, SlotNow
  <2> QED BY <1>1, <2>2, <2>3, <2>5
<1> QED BY <1>2, <1>3 DEF Empty

(* No message moves at either end. *)
LEMMA FlowBoth ==
  ASSUME Typed, NEW a \in Actors, NEW p \in Actors, p = Peer(a), Peer(p) = a,
         Flow(a), Flow(p), Spared(p), wire' = wire, given' = given,
         phase[a] # "ended", phase'[a] # "ended",
         Sent(a)' \in Places, Got(a)' \in Places,
         Empty(Slots, Sent(a), Sent(a)'), Empty(Slots, Got(a), Got(a)')
  PROVE  Flow(a)' /\ Flow(p)'
<1>1. /\ sock' = sock /\ phase'[p] = phase[p]
      /\ Sent(p)' = Sent(p) /\ Got(p)' = Got(p)
  BY SpareEnd DEF Spared
<1>2. /\ Sent(p) \in Places /\ Got(p) \in Places
      /\ Onward(Sent(a), Sent(a)')
      /\ Onward(Sent(p), Sent(p)')
      /\ Empty(Slots, Sent(p), Sent(p)') /\ Empty(Slots, Got(p), Got(p)')
  BY <1>1, PositionTypes DEF Empty, Onward
<1>3. Flow(a)'
  BY <1>1, <1>2, FlowSteady
<1>4. Flow(p)'
  BY <1>1, <1>2, FlowSteady
<1> QED BY <1>3, <1>4

(* Commands that are not measurements, and the first and the last step of one
   that is, move no message and leave none out. *)
LEMMA RestBeats ==
  ASSUME Typed, Paired, NEW a \in Actors, Beat(a), TakesTurns(a), PerfStep(a),
         Join(a) \/ Note(a) \/ Begin(a) \/ Signal(a)
  PROVE  /\ Beat(a)' /\ TakesTurns(a)'
         /\ wire' = wire /\ phase[a] # "ended" /\ phase'[a] # "ended"
         /\ Sent(a)' \in Places /\ Got(a)' \in Places
         /\ Empty(Slots, Sent(a), Sent(a)') /\ Empty(Slots, Got(a), Got(a)')
<1>0. given' = given /\ sock' = sock
  BY PipeStep DEF Typed
<1>1. /\ cmds[a] # <<>> /\ wire' = wire /\ back' = back
      /\ phase[a] \in {"idle", "signal"}
  BY DEF Join, Note, Begin, Signal, Ready, Typed, Machine
<1>2. /\ Sent(a) = <<Number(a), run[a].count>>
      /\ Got(a) = <<Number(a), run[a].count>>
      /\ run[a].count \in Nat /\ Number(a) \in Nat
  BY <1>1, NowGiven DEF Sent, Got, Typed, Machine, Runs
<1>3. ASSUME cmds' = [cmds EXCEPT ![a] = Tail(@)], phase'[a] = "idle",
             run'[a].count = 0,
             Next1(a).kind \notin Measures \/ Next1(a).n <= run[a].count
      PROVE  /\ Sent(a)' \in Places /\ Got(a)' \in Places
             /\ Empty(Slots, Sent(a), Sent(a)')
             /\ Empty(Slots, Got(a), Got(a)')
             /\ Beat(a)' /\ TakesTurns(a)'
  <2>1. Number(a)' = Number(a) + 1
    BY <1>0, <1>1, <1>3, NextNumber
  <2>2. Sent(a)' = <<Number(a) + 1, 0>> /\ Got(a)' = <<Number(a) + 1, 0>>
    BY <1>3, <2>1 DEF Sent, Got
  <2>3. /\ Sent(a)' \in Places /\ Got(a)' \in Places
        /\ Empty(Slots, Sent(a), Sent(a)') /\ Empty(Slots, Got(a), Got(a)')
    BY <1>1, <1>2, <1>3, <2>2, Skips
  <2>4. Beat(a)' /\ TakesTurns(a)'
    BY <1>0, <1>1, <1>3 DEF Beat, TakesTurns
  <2> QED BY <2>3, <2>4
<1>4. CASE Join(a) \/ Note(a)
  <2>1. /\ phase[a] = "idle" /\ phase'[a] = "idle" /\ run' = run
        /\ cmds' = [cmds EXCEPT ![a] = Tail(@)]
        /\ Next1(a).kind \notin Measures
    BY <1>4 DEF Join, Note, Ready, Finish, Typed, Machine, Joins, Notes,
       Measures, Sends, Recvs, Yodels, Echos
  <2>2. run[a].count = 0
    BY <2>1 DEF Beat
  <2> QED BY <1>1, <1>3, <2>1, <2>2
<1>5. CASE Signal(a)
  <2>1. /\ phase[a] = "signal" /\ phase'[a] = "idle" /\ run'[a] = NoRun
        /\ cmds' = [cmds EXCEPT ![a] = Tail(@)]
    BY <1>5 DEF Signal, Finish, Typed, Machine
  <2>2. run[a].count = Next1(a).n /\ run'[a].count = 0
    BY <2>1 DEF Beat, NoRun
  <2> QED BY <1>1, <1>2, <1>3, <2>1, <2>2
<1>6. CASE Begin(a)
  <2>1. /\ phase[a] = "idle" /\ cmds' = cmds
        /\ Next1(a).kind \in Measures /\ run'[a] = Reset(a)
        /\ phase'[a] = IF Next1(a).n = 0 THEN "signal"
                       ELSE First(Next1(a).kind)
    BY <1>6 DEF Begin, Ready, Typed, Machine
  <2>2. Next1(a).n >= 2 /\ Next1(a).n \in Nat
    BY <1>1, <2>1, ProperNow, Current DEF Proper, Typed
  <2>3. phase'[a] = IF sock[a] \in Talkers THEN "send" ELSE "recv"
    <3>1. Next1(a).kind \in MeasuresOf[sock[a]]
      BY <1>1, <2>1, PairedFits, FitNow
    <3>2. Next1(a).n # 0
      BY <2>2
    <3> QED BY <2>1, <3>1, <3>2, FitKinds
  <2>4. run[a].count = 0 /\ run'[a].count = 0
    BY <2>1 DEF Beat, Reset, NoRun
  <2>5. Number(a)' = Number(a) /\ sock[a] \in Types /\ Next1(a)' = Next1(a)
    BY <1>0, <2>1, SameNumber DEF Typed, Pipework, Next1
  <2>6. Sent(a)' = Sent(a) /\ Got(a)' = Got(a)
    BY <1>0, <1>2, <2>3, <2>4, <2>5, SockKind DEF Sent, Got
  <2>7. Beat(a)'
    BY <1>0, <2>2, <2>3, <2>4, <2>5 DEF Beat, Talkers
  <2>8. TakesTurns(a)'
    BY <1>0, <1>1, <2>1, <2>3 DEF TakesTurns, Talkers
  <2> QED BY <1>1, <2>1, <2>3, <2>6, <2>7, <2>8, PositionTypes DEF Empty
<1> QED BY <1>1, <1>3, <1>4, <1>5, <1>6 DEF Join, Note, Signal, Finish, Typed,
           Machine

(* An answer has what the run has. *)
LEMMA InOrderTold ==
  ASSUME Typed, NEW a \in Actors, InOrder(a), NEW r \in Runs, r.noos = 0,
         Tell(a, r)
  PROVE  InOrder(a)'
<1> DEFINE x == [kind |-> Next1(a).kind, noos |-> r.noos, total |-> r.total,
                 from |-> r.from]
<1>1. answers' = [answers EXCEPT ![a] = Append(@, x)] /\ x.noos = 0
  BY DEF Tell
<1> HIDE DEF x
<1>2. answers'[a] = Append(answers[a], x) /\ answers[a] \in Seq(Answer)
  BY <1>1 DEF Typed, Pipework
<1> QED BY <1>1, <1>2, AppendProperties DEF InOrder

(* So they keep the invariant. *)
LEMMA RestSound ==
  ASSUME Typed, Paired, NEW a \in Actors, NEW p \in Actors, p = Peer(a),
         Peer(p) = a, p # a, Sound(a), Sound(p), PerfStep(a),
         Join(a) \/ Note(a) \/ Begin(a) \/ Signal(a)
  PROVE  Sound(a)' /\ Sound(p)'
<1>0. Spared(p) /\ given' = given /\ sock' = sock
  BY SparedStep, PipeStep DEF Typed
<1>1. /\ Beat(a)' /\ TakesTurns(a)'
      /\ wire' = wire /\ phase[a] # "ended" /\ phase'[a] # "ended"
      /\ Sent(a)' \in Places /\ Got(a)' \in Places
      /\ Empty(Slots, Sent(a), Sent(a)') /\ Empty(Slots, Got(a), Got(a)')
  BY RestBeats DEF Sound, Tempo
<1>2. Flow(a)' /\ Flow(p)'
  BY <1>0, <1>1, FlowBoth DEF Sound
<1>3. run'[a] \in {run[a], NoRun, Reset(a)}
  BY DEF Join, Note, Begin, Signal, Typed, Machine
<1>4. Tempo(a)'
  BY <1>1, <1>3 DEF Sound, Tempo, Reset, NoRun, Beat
<1>5. InOrder(a)'
  <2>1. CASE Note(a) \/ Begin(a)
    BY <2>1 DEF Note, Begin, Sound, InOrder
  <2>2. CASE Join(a)
    BY <2>2, NoRunType, InOrderTold DEF Join, Sound, NoRun
  <2>3. CASE Signal(a)
    BY <2>3, InOrderTold DEF Signal, Sound, Tempo, Typed, Machine
  <2> QED BY <2>1, <2>2, <2>3
<1> QED BY <1>0, <1>1, <1>2, <1>4, <1>5, SpareEnd DEF Sound

(* An end is told to stop. *)
LEMMA TermSound ==
  ASSUME Typed, Paired, NEW a \in Actors, NEW p \in Actors, p = Peer(a),
         Peer(p) = a, p # a, Sound(a), Sound(p), PerfStep(a), Term(a)
  PROVE  Sound(a)' /\ Sound(p)'
<1>0. Spared(p) /\ given' = given /\ sock' = sock
  BY SparedStep, PipeStep DEF Typed
<1>1. PICK keep \in [Lanes -> 0..Hwm] :
        /\ \A l \in Lanes : keep[l] <= Len(wire[a][l])
        /\ wire' = [wire EXCEPT ![a] =
                      [l \in Lanes |-> SubSeq(@[l], 1, keep[l])]]
  BY DEF Term
<1>2. /\ phase[a] = "idle" /\ phase'[a] = "ended" /\ run' = run
      /\ answers' = answers /\ cmds[a] # <<>>
  BY DEF Term, Ready, Typed, Machine
<1>3. /\ wire'[p] = wire[p]
      /\ \A l \in Lanes : wire'[a][l] = SubSeq(wire[a][l], 1, keep[l])
  BY <1>1 DEF Typed, Socketry
<1>4. ASSUME NEW l \in Lanes
      PROVE  keep[l] \in 0..Len(wire[a][l])
  <2>1. Len(wire[a][l]) \in Nat /\ keep[l] \in 0..Hwm /\ Hwm \in Nat
    BY DEF Typed, Socketry
  <2> QED BY <1>1, <2>1
<1>5. \A l \in Lanes : \E k \in 0..Len(wire[a][l]) :
        wire'[a][l] = SubSeq(wire[a][l], 1, k)
  BY <1>3, <1>4
<1>6. /\ phase'[p] = phase[p] /\ Sent(p)' = Sent(p) /\ Got(p)' = Got(p)
      /\ Sent(p) \in Places
  BY <1>0, SpareEnd, PositionTypes DEF Spared
<1>7. Flow(a)'
  <2>1. Number(a) <= Len(given[a])
    BY <1>2, NowGiven
  <2> QED BY <1>0, <1>2, <1>5, <1>6, <2>1, FlowCut DEF Sound
<1>8. Flow(p)'
  <2>1. ~Open(p)'
    BY <1>2 DEF Open, Peer
  <2>2. ASSUME NEW l \in Lanes, NEW i \in DOMAIN wire[p][l]
        PROVE  Meant(p, wire[p][l][i])'
    <3>1. Meant(p, wire[p][l][i])
      BY DEF Sound, Flow
    <3> QED BY <1>0, <1>3, <1>6, <3>1 DEF Meant, Place
  <2> QED BY <1>0, <1>3, <2>1, <2>2 DEF Sound, Flow
<1>9. Tempo(a)' /\ TakesTurns(a)' /\ InOrder(a)'
  BY <1>0, <1>2 DEF Sound, Beat, Tempo, TakesTurns, InOrder
<1> QED BY <1>0, <1>7, <1>8, <1>9, SpareEnd DEF Sound

(* What is sent has its number in the measurement that is run. *)
LEMMA SentNow ==
  ASSUME Typed, Paired, NEW a \in Actors, Beat(a), phase[a] = "send"
  PROVE  /\ OnWire(a) \in Message
         /\ Tempo(a) => Place(OnWire(a)) = <<Number(a), run[a].count>>
         /\ <<Number(a), run[a].count>> \in Slots
         /\ OnWire(a).of = Number(a) /\ OnWire(a).of \in DOMAIN given[a]
         /\ given[a][OnWire(a).of].kind \in Measures
         /\ given[a][OnWire(a).of].size = OnWire(a).size
<1>1. cmds[a] # <<>> /\ Next1(a).kind \in Measures /\ run[a] \in Runs
  BY DEF Typed, Machine
<1>2. OnWire(a) \in Message
  BY <1>1, RunTypes DEF Typed, Runs
<1>3. /\ OnWire(a).of = Number(a) /\ OnWire(a).count = run[a].out
      /\ OnWire(a).size = Next1(a).size
  BY DEF OnWire, Number
<1>4. run[a].count \in Nat /\ run[a].count < Next1(a).n
  BY <1>1 DEF Runs, Beat
<1>5. <<Number(a), run[a].count>> \in Slots
  BY <1>1, <1>4, SlotNow
<1>6. Number(a) \in DOMAIN given[a] /\ given[a][Number(a)] = Next1(a)
  BY <1>1, NowGiven
<1> QED BY <1>1, <1>2, <1>3, <1>5, <1>6 DEF Place, Tempo

(* libzmq sends what there is to send. *)
LEMMA SendsWhole ==
  ASSUME Typed, Paired, NEW a \in Actors, phase[a] = "send", AfterSend(a)
  PROVE  /\ Advance(a, Sender(a)) /\ Sender(a) \in Runs
         /\ Sender(a).count = run[a].count /\ Sender(a).out = run[a].out
         /\ Sender(a).noos = run[a].noos /\ Sender(a).watch = run[a].watch
         /\ cmds' = cmds /\ answers' = answers /\ given' = given
<1>1. cmds[a] # <<>> /\ run[a] \in Runs
  BY DEF Typed, Machine
<1>2. Next1(a).kind \in LibZmq => Next1(a).size > 0
  BY <1>1, ProperNow DEF Proper
<1>3. ~(Next1(a).kind \in LibZmq /\ Next1(a).size = 0)
  BY <1>2
<1>4. /\ Advance(a, Sender(a))
      /\ cmds' = cmds /\ answers' = answers /\ given' = given
  BY <1>3 DEF AfterSend
<1>5. Sender(a) \in Runs
  BY <1>1, RunTypes DEF Typed
<1>6. /\ Sender(a).count = run[a].count /\ Sender(a).out = run[a].out
      /\ Sender(a).noos = run[a].noos /\ Sender(a).watch = run[a].watch
  BY <1>1 DEF Sender, Runs
<1> QED BY <1>4, <1>5, <1>6

(* A talking end sends. *)
LEMMA SendSound ==
  ASSUME Typed, Paired, OneLane, NEW a \in Actors, NEW p \in Actors,
         p = Peer(a), Peer(p) = a, p # a, Sound(a), Sound(p), PerfStep(a),
         SendFrame(a)
  PROVE  Sound(a)' /\ Sound(p)'
<1>0. Spared(p) /\ sock' = sock
  BY SparedStep DEF PerfStep
<1>1. PICK l \in Lanes :
        /\ wire' = [wire EXCEPT ![a][l] = Append(@, OnWire(a))]
        /\ back' = IF sock[a] = "REQ" THEN [back EXCEPT ![a] = l] ELSE back
  BY DEF SendFrame
<1>2. /\ phase[a] = "send" /\ sock[a] \in {"PUSH", "DEALER", "REQ"}
      /\ AfterSend(a) /\ Tempo(a) /\ Beat(a)
  BY DEF SendFrame, Sound, Tempo
<1>3. /\ Advance(a, Sender(a)) /\ Sender(a) \in Runs
      /\ Sender(a).count = run[a].count /\ Sender(a).out = run[a].out
      /\ Sender(a).noos = run[a].noos /\ Sender(a).watch = run[a].watch
      /\ cmds' = cmds /\ answers' = answers /\ given' = given
  BY <1>2, SendsWhole
<1>4. Sender(a).out = Sender(a).count /\ Sender(a).noos = 0
  BY <1>2, <1>3 DEF Beat, Tempo
<1>5. /\ Tempo(a)' /\ phase'[a] \in Busy
      /\ sock[a] \in {"REQ", "DEALER"} => phase'[a] = "recv"
  BY <1>0, <1>2, <1>3, <1>4, Round
<1>6. /\ Sent(a) = <<Number(a), run[a].count>>
      /\ Sent(a)' = NextPlace(Sent(a))
      /\ sock[a] # "PUSH" => Got(a)' = Got(a)
  BY <1>0, <1>2, <1>3, <1>4, RoundPlaces
<1>7. /\ OnWire(a) \in Message /\ Place(OnWire(a)) = Sent(a)
      /\ Sent(a) \in Slots /\ OnWire(a).of \in DOMAIN given[a]
      /\ given[a][OnWire(a).of].kind \in Measures
      /\ given[a][OnWire(a).of].size = OnWire(a).size
  BY <1>2, <1>6, SentNow
<1>8. wire'[p] = wire[p] /\ wire'[a][l] = Append(wire[a][l], OnWire(a))
  BY <1>1 DEF Typed, Socketry
<1>9. /\ phase'[p] = phase[p] /\ Sent(p)' = Sent(p) /\ Got(p)' = Got(p)
      /\ phase'[a] # "ended" /\ phase[a] # "ended" /\ sock[a] # "PULL"
  BY <1>0, <1>2, <1>5, SpareEnd DEF Spared, Busy
<1>10. Flow(a)'
  BY <1>0, <1>3, <1>6, <1>7, <1>8, <1>9, FlowSent DEF Sound
<1>11. Flow(p)'
  <2>1. /\ Sent(p) \in Places /\ Got(a) \in Places
        /\ NextPlace(Got(a)) \in Places
    BY PositionTypes, NextIsNext
  <2>2. Open(p)' => sock[a] # "PUSH"
    BY <1>0 DEF Open, Peer
  <2>3. Got(a)' \in Places
    <3>1. CASE sock[a] # "PUSH"
      BY <1>6, <2>1, <3>1
    <3>2. CASE sock[a] = "PUSH"
      <4>1. Sent(a)' = Got(a)'
        BY <1>0, <1>2, <1>5, <3>2 DEF Sent, Got, Talkers, Listeners, Beat, Tempo
      <4>2. NextPlace(Sent(a)) \in Places
        BY PositionTypes, NextIsNext
      <4> QED BY <1>6, <4>1, <4>2
    <3> QED BY <3>1, <3>2
  <2> QED BY <1>0, <1>3, <1>6, <1>8, <1>9, <2>1, <2>2, <2>3, FlowSteady
          DEF Sound, Onward, Empty
<1>12. TakesTurns(a)'
  BY <1>0, <1>1, <1>2, <1>5 DEF TakesTurns, Typed, Socketry
<1>13. InOrder(a)'
  BY <1>3 DEF Sound, InOrder
<1> QED BY <1>0, <1>5, <1>10, <1>11, <1>12, <1>13, SpareEnd DEF Sound

(* A listening end has room for its answer: what it answers is the last the
   other end has sent, which waits for the answer. *)
LEMMA RoomToAnswer ==
  ASSUME Typed, Paired, NEW a \in Actors, NEW p \in Actors, p = Peer(a),
         Peer(p) = a, p # a, Sound(a), Sound(p), Silent(a),
         phase[a] = "send", sock[a] \in {"REP", "ROUTER"}, Open(a),
         NEW l \in Lanes
  PROVE  wire[a][l] = <<>>
<1> DEFINE w == wire[a][l]  x == Sent(a)  g == Got(p)
<1>1. /\ sock[p] \in {"REQ", "DEALER"} /\ phase[p] # "ended"
      /\ sock[p] \in Talkers /\ sock[p] # "PULL"
  BY SockKind DEF Silent, Listeners, Talkers, Open, Typed, Pipework
<1>2. Open(p)
  BY <1>1 DEF Open
<1>3. Filled(Slots, wire[p][l], Got(a), Sent(p))
  BY <1>1, <1>2 DEF Sound, Flow, Reach
<1>4. /\ x = <<Number(a), run[a].count>> /\ Got(a) = NextPlace(x)
      /\ run[a].count \in Nat
  BY DEF Sent, Got, NextPlace, Talkers, Listeners, Typed, Machine, Runs
<1>5. x \in Slots
  BY <1>4, SentNow DEF Sound, Tempo
<1>6. /\ x \in Places /\ g \in Places /\ Sent(p) \in Places
      /\ Slots \in SUBSET Places
  BY PositionTypes
<1>7. Sent(p) = g \/ Sent(p) = NextPlace(g)
  BY <1>1 DEF Sent, Got, NextPlace, Listeners, Typed, Machine, Runs
<1>8. w \in Seq(Message)
  BY DEF Typed, Socketry
<1>9. Filled(Slots, w, g, x)
  BY DEF Sound, Flow, Reach
<1> HIDE DEF w, x, g
<1>10. Sooner(x, Sent(p))
  <2>1. Sooner(x, Got(a))
    BY <1>4, <1>6, NextIsNext
  <2> QED BY <1>3, <1>5, <2>1 DEF Filled
<1>11. x = g \/ Sooner(x, g)
  BY <1>6, <1>7, <1>10, NextIsNext
<1>12. ASSUME NEW i \in DOMAIN w
       PROVE  FALSE
  <2> DEFINE y == Place(w[i])
  <2>1. y \in Slots /\ ~Sooner(y, g) /\ Sooner(y, x)
    BY <1>9 DEF Filled
  <2> HIDE DEF y
  <2> QED BY <1>6, <1>11, <2>1, SoonerIsTotal
<1>13. w = <<>>
  <2>1. w # <<>> => 1 \in DOMAIN w
    BY <1>8
  <2> QED BY <1>12, <2>1
<1> QED BY <1>13 DEF w

(* A listening end echoes what it took. *)
LEMMA RespondSound ==
  ASSUME Typed, Paired, OneLane, NEW a \in Actors, NEW p \in Actors,
         p = Peer(a), Peer(p) = a, p # a, Sound(a), Sound(p), Silent(a),
         PerfStep(a), Respond(a)
  PROVE  Sound(a)' /\ Sound(p)'
<1>0. Spared(p) /\ sock' = sock
  BY SparedStep DEF PerfStep
<1> DEFINE l == back[a]
<1>1. /\ phase[a] = "send" /\ sock[a] \in {"REP", "ROUTER"}
      /\ l \in Lanes /\ Tempo(a) /\ Beat(a) /\ AfterSend(a)
      /\ back' = [back EXCEPT ![a] = None]
      /\ wire' = IF Len(wire[a][l]) < Hwm
                 THEN [wire EXCEPT ![a][l] = Append(@, OnWire(a))] ELSE wire
  BY DEF Respond, Sound, Tempo, Typed, Socketry
<1> HIDE DEF l
<1>2. /\ Advance(a, Sender(a)) /\ Sender(a) \in Runs
      /\ Sender(a).count = run[a].count /\ Sender(a).out = run[a].out
      /\ Sender(a).noos = run[a].noos /\ Sender(a).watch = run[a].watch
      /\ cmds' = cmds /\ answers' = answers /\ given' = given
  BY <1>1, SendsWhole
<1>3. Sender(a).out = Sender(a).count /\ Sender(a).noos = 0
  BY <1>1, <1>2 DEF Beat, Tempo
<1>4. Tempo(a)' /\ phase'[a] \in Busy /\ phase'[a] # "send"
  BY <1>0, <1>1, <1>2, <1>3, Round
<1>5. /\ Sent(a) = <<Number(a), run[a].count>>
      /\ Sent(a)' = NextPlace(Sent(a)) /\ Got(a)' = Got(a)
  BY <1>0, <1>1, <1>2, <1>3, RoundPlaces
<1>6. /\ OnWire(a) \in Message /\ Place(OnWire(a)) = Sent(a)
      /\ Sent(a) \in Slots /\ OnWire(a).of \in DOMAIN given[a]
      /\ given[a][OnWire(a).of].kind \in Measures
      /\ given[a][OnWire(a).of].size = OnWire(a).size
  BY <1>1, <1>5, SentNow
<1>7. /\ phase'[p] = phase[p] /\ Sent(p)' = Sent(p) /\ Got(p)' = Got(p)
      /\ phase'[a] # "ended" /\ phase[a] # "ended" /\ sock[a] # "PULL"
      /\ wire'[p] = wire[p]
  BY <1>0, <1>1, <1>4, SpareEnd DEF Spared, Busy, Typed, Socketry
<1>8. /\ Sent(a) \in Places /\ Got(a) \in Places /\ Sent(p) \in Places
      /\ Got(p) \in Places /\ NextPlace(Sent(a)) \in Places
      /\ Sooner(Sent(a), NextPlace(Sent(a)))
  BY PositionTypes, NextIsNext
<1>9. Flow(a)'
  <2>1. CASE Len(wire[a][l]) < Hwm
    <3>1. wire'[a][l] = Append(wire[a][l], OnWire(a))
      BY <1>1, <2>1 DEF Typed, Socketry
    <3>2. given' = given /\ Flow(a)
      BY <1>2 DEF Sound
    <3>3. /\ phase'[p] = phase[p] /\ Got(p)' = Got(p) /\ sock[a] # "PULL"
          /\ phase[a] # "ended" /\ phase'[a] # "ended"
      BY <1>7
    <3>4. l \in Lanes /\ sock' = sock /\ Sent(a)' = NextPlace(Sent(a))
      BY <1>0, <1>1, <1>5
    <3> QED BY <1>6, <3>1, <3>2, <3>3, <3>4, FlowSent
  <2>2. CASE ~(Len(wire[a][l]) < Hwm)
    <3>1. wire' = wire /\ wire[a][l] # <<>>
      BY <1>1, <2>2
    <3>2. ~Open(a)
      BY <1>1, <3>1, RoomToAnswer
    <3>3. ~Open(a)'
      BY <1>0, <1>7, <3>2 DEF Open, Peer
    <3>4. Onward(Sent(a), Sent(a)') /\ Sent(a)' \in Places
      BY <1>5, <1>8 DEF Onward
    <3> QED BY <1>0, <1>2, <1>7, <1>8, <3>1, <3>2, <3>3, <3>4, FlowSteady
            DEF Sound
  <2> QED BY <2>1, <2>2
<1>10. Flow(p)'
  BY <1>0, <1>2, <1>5, <1>7, <1>8, FlowSteady DEF Sound, Onward, Empty
<1>11. TakesTurns(a)'
  BY <1>0, <1>1, <1>4 DEF TakesTurns, Typed, Socketry
<1>12. InOrder(a)'
  BY <1>2 DEF Sound, InOrder
<1> QED BY <1>0, <1>4, <1>9, <1>10, <1>11, <1>12, SpareEnd DEF Sound

(* What is taken has the number and the size that are waited for. *)
LEMMA TakesNext ==
  ASSUME Typed, Paired, NEW a \in Actors, NEW p \in Actors, p = Peer(a),
         Peer(p) = a, p # a, Sound(a), Sound(p), NEW l \in Lanes,
         TakeFrame(a, l)
  PROVE  /\ phase[a] = "recv" /\ sock[a] # "PUSH" /\ wire[p][l] # <<>>
         /\ Got(a) = <<Number(a), run[a].count>> /\ Got(a) \in Slots
         /\ Head(wire[p][l]) \in Message
         /\ Head(wire[p][l]).count = run[a].count
         /\ Head(wire[p][l]).size = Next1(a).size
<1> DEFINE w == wire[p][l]  got == Head(w)
<1>0. phase[a] = "recv" /\ w # <<>>
  BY DEF TakeFrame
<1>1. /\ phase[a] = "recv" /\ w # <<>> /\ w \in Seq(Message)
      /\ cmds[a] # <<>> /\ Next1(a).kind \in Measures
      /\ run[a].count \in Nat
  <2>1. w \in Seq(Message)
    BY DEF Typed, Socketry
  <2>2. cmds[a] # <<>> /\ Next1(a).kind \in Measures
    BY <1>0 DEF Typed, Machine
  <2>3. run[a].count \in Nat
    BY DEF Typed, Machine, Runs
  <2> QED BY <1>0, <2>1, <2>2, <2>3
<1>2. /\ sock[a] # "PUSH" /\ sock[p] # "PULL"
      /\ run[a].count < Next1(a).n
  BY <1>1 DEF Sound, Beat, Tempo, Flow
<1>3. Got(a) = <<Number(a), run[a].count>>
  BY <1>1 DEF Got
<1>4. Got(a) \in Slots
  BY <1>1, <1>2, <1>3, SlotNow
<1>5. PICK t \in Places : Filled(Slots, w, Got(a), t)
  <2>1. Open(p)
    BY <1>1, <1>2 DEF Open
  <2> QED BY <2>1 DEF Sound, Flow, Reach
<1>6. Meant(p, w[1])
  <2>1. 1 \in DOMAIN w
    BY <1>1
  <2> QED BY <2>1 DEF Sound, Flow
<1> HIDE DEF w
<1>7. Place(got) = Got(a)
  BY <1>1, <1>4, <1>5, PositionTypes, FilledTaken
<1>8. got \in Message /\ got = w[1]
  BY <1>1
<1>9. got.of = Number(a) /\ got.count = run[a].count
  BY <1>3, <1>7 DEF Place
<1>10. got.size = Next1(a).size
  <2>1. /\ Number(a) \in DOMAIN given[p]
        /\ given[p][Number(a)].size = got.size
    BY <1>6, <1>8, <1>9 DEF Meant
  <2>2. Number(a) \in DOMAIN given[a] /\ given[a][Number(a)] = Next1(a)
    BY <1>1, NowGiven
  <2>3. Match(given[a][Number(a)], given[p][Number(a)])
    BY <2>1, <2>2 DEF Paired
  <2> QED BY <2>1, <2>2, <2>3, MatchKinds
<1> QED BY <1>1, <1>2, <1>3, <1>4, <1>8, <1>9, <1>10 DEF w

(* It is counted in its order. *)
LEMMA RecvSound ==
  ASSUME Typed, Paired, OneLane, NEW a \in Actors, NEW p \in Actors,
         p = Peer(a), Peer(p) = a, p # a, Sound(a), Sound(p), PerfStep(a),
         RecvFrame(a)
  PROVE  Sound(a)' /\ Sound(p)'
<1>0. Spared(p) /\ sock' = sock
  BY SparedStep DEF PerfStep
<1>1. PICK l \in Lanes :
        /\ TakeFrame(a, l)
        /\ Advance(a, Receives(a, Head(wire[p][l])))
        /\ cmds' = cmds /\ given' = given /\ answers' = answers
  BY DEF RecvFrame
<1> DEFINE got == Head(wire[p][l])  r == Receives(a, got)
<1>2. /\ phase[a] = "recv" /\ sock[a] # "PUSH" /\ wire[p][l] # <<>>
      /\ Got(a) = <<Number(a), run[a].count>> /\ Got(a) \in Slots
      /\ got \in Message /\ got.count = run[a].count
      /\ got.size = Next1(a).size
  BY <1>1, TakesNext
<1>3. cmds[a] # <<>> /\ run[a] \in Runs /\ Tempo(a) /\ Beat(a)
  BY <1>2 DEF Typed, Machine, Sound, Tempo
<1> HIDE DEF got
<1>4. r \in Runs
  BY <1>2, <1>3, RunTypes DEF Typed
<1>5. /\ r.count = run[a].count /\ r.out = r.count /\ r.noos = 0
      /\ r.watch = run[a].watch
  BY <1>2, <1>3 DEF Receives, Runs, Beat, Tempo
<1>6. Advance(a, r)
  BY <1>1 DEF got
<1> HIDE DEF r
<1>7. /\ Tempo(a)' /\ phase'[a] \in Busy
      /\ sock[a] \in {"REQ", "DEALER"} => phase'[a] # "recv"
      /\ sock[a] \in {"REP", "ROUTER"} => phase'[a] = "send"
  BY <1>0, <1>1, <1>2, <1>3, <1>4, <1>5, <1>6, Round
<1>8. /\ Got(a)' = NextPlace(Got(a))
      /\ sock[a] # "PULL" => Sent(a)' = Sent(a)
      /\ sock[a] = "PULL" => Sent(a)' = NextPlace(Sent(a))
  BY <1>0, <1>1, <1>2, <1>3, <1>4, <1>5, <1>6, RoundPlaces
<1>9. /\ wire'[a] = wire[a] /\ wire'[p][l] = Tail(wire[p][l])
      /\ back' = [back EXCEPT ![a] =
           IF sock[a] \in {"ROUTER", "REP"} THEN l
           ELSE IF sock[a] = "REQ" THEN None ELSE @]
  BY <1>1 DEF TakeFrame, Typed, Socketry
<1>10. /\ phase'[p] = phase[p] /\ Sent(p)' = Sent(p) /\ Got(p)' = Got(p)
       /\ phase'[a] # "ended" /\ phase[a] # "ended"
  BY <1>0, <1>2, <1>7, SpareEnd DEF Spared, Busy
<1>11. Flow(p)'
  BY <1>0, <1>1, <1>2, <1>8, <1>9, <1>10, FlowTaken DEF Sound
<1>12. Flow(a)'
  <2>1. /\ Sent(a) \in Places /\ NextPlace(Sent(a)) \in Places
        /\ Sooner(Sent(a), NextPlace(Sent(a))) /\ Got(p) \in Places
    BY PositionTypes, NextIsNext
  <2>2. Open(a) => sock[a] # "PULL"
    BY DEF Open
  <2>3. /\ Sent(a)' \in Places /\ Onward(Sent(a), Sent(a)')
        /\ Open(a) => Empty(Slots, Sent(a), Sent(a)')
        /\ Empty(Slots, Got(p), Got(p)')
    BY <1>8, <1>10, <2>1, <2>2 DEF Onward, Empty
  <2> QED BY <1>0, <1>1, <1>9, <1>10, <2>1, <2>3, FlowSteady DEF Sound
<1>13. TakesTurns(a)'
  BY <1>0, <1>7, <1>9 DEF TakesTurns, Typed, Socketry
<1>14. InOrder(a)'
  BY <1>1 DEF Sound, InOrder
<1> QED BY <1>0, <1>7, <1>11, <1>12, <1>13, <1>14, SpareEnd DEF Sound

(* What the owners' commands and the turns of the sockets leave out. *)
LEMMA NoMisuse ==
  ASSUME Typed, Paired, NEW a \in Actors, Beat(a), TakesTurns(a)
  PROVE  /\ ~Unknown(a) /\ ~ResetFails(a) /\ ~SendOutOfTurn(a)
         /\ ~SendToNobody(a) /\ ~RecvOutOfTurn(a) /\ ~SignalUnstarted(a)
<1>1. ~Unknown(a)
  <2> SUFFICES ASSUME Unknown(a) PROVE FALSE
    OBVIOUS
  <2>1. cmds[a] # <<>> /\ Next1(a).kind = "OTHER"
    BY DEF Unknown, Ready
  <2> QED BY <2>1, ProperNow DEF Proper
<1>2. ~ResetFails(a)
  BY DEF ResetFails, Ready, TakesTurns
<1>3. ~SendOutOfTurn(a) /\ ~SendToNobody(a) /\ ~RecvOutOfTurn(a)
  BY DEF SendOutOfTurn, SendToNobody, RecvOutOfTurn, TakesTurns
<1>4. ~SignalUnstarted(a)
  BY DEF SignalUnstarted, Beat
<1> QED BY <1>1, <1>2, <1>3, <1>4

(* What the order of the messages leaves out. *)
LEMMA NoMismatch ==
  ASSUME Typed, Paired, NEW a \in Actors, NEW p \in Actors, p = Peer(a),
         Peer(p) = a, p # a, Sound(a), Sound(p)
  PROVE  ~SizeMismatch(a)
BY TakesNext DEF SizeMismatch

(* Every step of an actor. *)
LEMMA SoundStep ==
  ASSUME Typed, Paired, OneLane, \A b \in Actors : Good(b),
         NEW a \in Actors, \A b \in Actors : Sound(b), PerfStep(a)
  PROVE  \A b \in Actors : Sound(b)'
<1>1. PICK p \in Actors : p = Peer(a) /\ Peer(p) = a /\ p # a
  BY Peers
<1>2. Sound(a) /\ Sound(p) /\ Silent(a)
  BY DEF Good
<1>3. Sound(a)' /\ Sound(p)'
  <2>1. CASE Join(a) \/ Note(a) \/ Begin(a) \/ Signal(a)
    BY <1>1, <1>2, <2>1, RestSound
  <2>2. CASE Term(a)
    BY <1>1, <1>2, <2>2, TermSound
  <2>3. CASE SendFrame(a)
    BY <1>1, <1>2, <2>3, SendSound
  <2>4. CASE Respond(a)
    BY <1>1, <1>2, <2>4, RespondSound
  <2>5. CASE RecvFrame(a)
    BY <1>1, <1>2, <2>5, RecvSound
  <2>6. /\ ~Unknown(a) /\ ~ResetFails(a) /\ ~SendOutOfTurn(a)
        /\ ~SendToNobody(a) /\ ~SizeMismatch(a) /\ ~RecvOutOfTurn(a)
        /\ ~SignalUnstarted(a)
    BY <1>1, <1>2, NoMisuse, NoMismatch DEF Sound, Tempo
  <2> QED BY <2>1, <2>2, <2>3, <2>4, <2>5, <2>6 DEF PerfStep
<1> QED BY <1>1, <1>3, Ends

(* What an end has reached is not beyond what its owner has given. *)
LEMMA NotYet ==
  ASSUME Typed, NEW b \in Actors, Beat(b), NEW x \in Places,
         Len(given[b]) < x[1]
  PROVE  ~Sooner(x, Sent(b)) /\ ~Sooner(x, Got(b))
<1>1. /\ Number(b) \in Nat /\ Len(given[b]) \in Nat
      /\ x[1] \in Nat /\ x[2] \in Nat
  <2>1. Number(b) \in Nat
    BY NowGiven
  <2>2. Len(given[b]) \in Nat
    BY DEF Typed, Pipework
  <2> QED BY <2>1, <2>2 DEF Places
<1>2. CASE cmds[b] # <<>>
  <2>1. Number(b) <= Len(given[b])
    BY <1>2, NowGiven
  <2> QED BY <1>1, <2>1 DEF Sooner, Sent, Got
<1>3. CASE cmds[b] = <<>>
  <2>1. phase[b] \in {"idle", "ended"}
    BY <1>3 DEF Typed, Machine, Phases, Beat
  <2>2. run[b].count = 0
    BY <2>1 DEF Beat
  <2>3. Number(b) <= Len(given[b]) + 1
    BY NowGiven
  <2> QED BY <1>1, <2>1, <2>2, <2>3 DEF Sooner, Sent, Got
<1> QED BY <1>2, <1>3

(* Matching commands have matched since they were given. *)
LEMMA PairedBefore ==
  ASSUME Typed, NEW a \in Actors, NEW c \in Command, Gives(a, c), sock' = sock,
         Paired'
  PROVE  /\ Paired
         /\ given'[a] = Append(given[a], c) /\ given[a] \in Seq(Command)
         /\ \A b \in Actors : b # a => given'[b] = given[b]
         /\ \A b \in Actors : \A i \in DOMAIN given[b] :
              i \in DOMAIN given'[b] /\ given'[b][i] = given[b][i]
<1>1. /\ given' = [given EXCEPT ![a] = Append(@, c)]
      /\ given[a] \in Seq(Command)
  BY DEF Gives, Submit, Typed, Pipework
<1>2. /\ given'[a] = Append(given[a], c)
      /\ \A b \in Actors : b # a => given'[b] = given[b]
  BY <1>1 DEF Typed, Pipework
<1>3. \A i \in DOMAIN given[a] :
        i \in DOMAIN given'[a] /\ given'[a][i] = given[a][i]
  BY <1>1, <1>2, AppendProperties
<1>4. \A b \in Actors : \A i \in DOMAIN given[b] :
        i \in DOMAIN given'[b] /\ given'[b][i] = given[b][i]
  BY <1>2, <1>3
<1>5. ASSUME NEW b \in Actors, NEW i \in DOMAIN given[b]
      PROVE  Proper(b, given[b][i])
  <2>1. Proper(b, given[b][i])'
    BY <1>4 DEF Paired
  <2> QED BY <1>4, <2>1 DEF Proper, Fits
<1>6. ASSUME NEW b \in Actors, NEW d \in Actors, b # d,
             NEW i \in DOMAIN given[b] \cap DOMAIN given[d]
      PROVE  Match(given[b][i], given[d][i])
  <2>1. Match(given'[b][i], given'[d][i])
    BY <1>4, <1>6 DEF Paired
  <2> QED BY <1>4, <1>6, <2>1
<1> QED BY <1>1, <1>2, <1>4, <1>5, <1>6 DEF Paired

(* The places a new command adds are of commands neither end had. *)
LEMMA NewSlots ==
  ASSUME Typed, NEW a \in Actors, NEW c \in Command, Gives(a, c), sock' = sock,
         Paired'
  PROVE  /\ Slots \subseteq Slots' /\ Slots' \in SUBSET Places
         /\ \A x \in Slots' \ Slots : \A b \in Actors : Len(given[b]) < x[1]
<1>1. /\ given'[a] = Append(given[a], c) /\ given[a] \in Seq(Command)
      /\ \A b \in Actors : b # a => given'[b] = given[b]
      /\ \A b \in Actors : \A i \in DOMAIN given[b] :
           i \in DOMAIN given'[b] /\ given'[b][i] = given[b][i]
  BY PairedBefore
<1>2. Slots' \in SUBSET Places
  BY DEF Slots
<1>3. Slots \subseteq Slots'
  <2> SUFFICES ASSUME NEW s \in Slots PROVE s \in Slots'
    OBVIOUS
  <2>1. PICK b \in Actors :
          /\ s[1] \in DOMAIN given[b]
          /\ given[b][s[1]].kind \in Measures /\ s[2] < given[b][s[1]].n
    BY DEF Slots
  <2>2. /\ s[1] \in DOMAIN given'[b]
        /\ given'[b][s[1]].kind \in Measures /\ s[2] < given'[b][s[1]].n
    BY <1>1, <2>1
  <2> QED BY <2>2 DEF Slots
<1>4. ASSUME NEW x \in Slots', x \notin Slots, NEW b \in Actors
      PROVE  Len(given[b]) < x[1]
  <2> DEFINE j == x[1]
  <2>1. x \in Places /\ j \in Nat
    BY <1>2 DEF Places
  <2>2. PICK d \in Actors :
          /\ j \in DOMAIN given'[d]
          /\ given'[d][j].kind \in Measures /\ x[2] < given'[d][j].n
    BY <1>4 DEF Slots
  <2> HIDE DEF j
  <2>3. ASSUME NEW e \in Actors, j \in DOMAIN given[e]
        PROVE  FALSE
    <3>1. j \in DOMAIN given'[e] /\ given'[e][j] = given[e][j]
      BY <1>1, <2>3
    <3>2. /\ given'[e][j].n = given'[d][j].n
          /\ given'[e][j].kind \in Measures
      <4>1. CASE e = d
        BY <2>2, <4>1
      <4>2. CASE e # d
        <5>1. Match(given'[e][j], given'[d][j])
          BY <2>2, <3>1, <4>2 DEF Paired
        <5> QED BY <2>2, <5>1, MatchKinds
      <4> QED BY <4>1, <4>2
    <3>3. given[e][j].kind \in Measures /\ x[2] < given[e][j].n
      BY <2>2, <3>1, <3>2
    <3> QED BY <1>4, <2>1, <2>3, <3>3 DEF Slots, j
  <2>4. d = a /\ j = Len(given[a]) + 1
    <3>1. d = a
      BY <1>1, <2>2, <2>3
    <3>2. j \in 1..(Len(given[a]) + 1) /\ j \notin 1..Len(given[a])
      <4>1. /\ DOMAIN given[a] = 1..Len(given[a])
            /\ DOMAIN given'[a] = 1..(Len(given[a]) + 1)
        BY <1>1, AppendProperties
      <4> QED BY <2>2, <2>3, <3>1, <4>1
    <3> QED BY <1>1, <3>1, <3>2
  <2>5. j \notin DOMAIN given[b] /\ given[b] \in Seq(Command) /\ j # 0
    <3>1. Len(given[a]) \in Nat
      BY <1>1
    <3> QED BY <2>3, <2>4, <3>1 DEF Typed, Pipework
  <2>6. \A s \in Seq(Command) : j \notin DOMAIN s => Len(s) < j
    BY <2>1, <2>5 DEF j
  <2> QED BY <2>5, <2>6 DEF j
<1> QED BY <1>2, <1>3, <1>4

(* The owner gives a command. *)
LEMMA GiveSound ==
  ASSUME Typed, NEW a \in Actors, NEW c \in Command, Gives(a, c), sock' = sock,
         Paired', \A b \in Actors : Sound(b), NEW b \in Actors
  PROVE  Sound(b)'
<1> DEFINE q == Peer(b)
<1>0. q \in Actors /\ q # b
  BY Peers
<1> HIDE DEF q
<1>1. /\ \A d \in Actors : d # a => given'[d] = given[d]
      /\ \A d \in Actors : \A i \in DOMAIN given[d] :
           i \in DOMAIN given'[d] /\ given'[d][i] = given[d][i]
  BY PairedBefore
<1>2. /\ Slots \subseteq Slots' /\ Slots' \in SUBSET Places
      /\ \A x \in Slots' \ Slots : \A d \in Actors : Len(given[d]) < x[1]
  BY NewSlots
<1>3. /\ UNCHANGED <<sock, answers, phase, run, back, wire>>
      /\ cmds' = [cmds EXCEPT ![a] = Append(@, c)] /\ phase[a] # "ended"
  BY DEF Gives, Submit
<1>4. ASSUME NEW d \in Actors
      PROVE  Sent(d)' = Sent(d) /\ Got(d)' = Got(d)
  <2>1. Number(d)' = Number(d)
    BY GiveNumber
  <2> QED BY <1>3, <2>1 DEF Sent, Got
<1>5. ASSUME NEW d \in Actors, phase[d] # "ended", NEW x \in Slots' \ Slots
      PROVE  ~Sooner(x, Sent(d)) /\ ~Sooner(x, Got(d))
  <2>1. x \in Places /\ Len(given[d]) < x[1] /\ Beat(d)
    BY <1>2 DEF Sound, Tempo
  <2> QED BY <1>5, <2>1, NotYet
<1>6. ASSUME Open(b)', NEW l \in Lanes
      PROVE  Reach(b, l)'
  <2>1. Open(b) /\ phase[q] # "ended" /\ Peer(b)' = q
    BY <1>3, <1>6 DEF Open, Peer, q
  <2>2. PICK t \in Places :
          /\ Filled(Slots, wire[b][l], Got(q), t)
          /\ IF phase[b] = "ended" THEN ~Sooner(<<Len(given[b]) + 1, 0>>, t)
             ELSE t = Sent(b)
    BY <2>1 DEF Sound, Flow, Reach, q
  <2>3. ASSUME NEW x \in Slots' \ Slots
        PROVE  ~Sooner(x, Got(q)) /\ ~Sooner(x, t)
    <3>1. ~Sooner(x, Got(q))
      BY <1>0, <1>5, <2>1
    <3>2. CASE phase[b] # "ended"
      BY <1>5, <2>2, <3>1, <3>2
    <3>3. CASE phase[b] = "ended"
      <4> DEFINE e == <<Len(given[b]) + 1, 0>>
      <4>1. x \in Places /\ Len(given[b]) < x[1] /\ Len(given[b]) \in Nat
        BY <1>2 DEF Typed, Pipework
      <4>2. e \in Places /\ ~Sooner(x, e)
        BY <4>1 DEF Places, Sooner
      <4>3. ~Sooner(e, t)
        BY <2>2, <3>3
      <4> HIDE DEF e
      <4>4. ~Sooner(x, t)
        BY <4>1, <4>2, <4>3, SoonerIsTotal
      <4> QED BY <3>1, <4>4
    <3> QED BY <3>2, <3>3
  <2>4. Filled(Slots', wire[b][l], Got(q), t)
    BY <1>0, <1>2, <2>2, <2>3, PositionTypes, FilledGrows
  <2>5. phase[b] = "ended" => given'[b] = given[b]
    BY <1>1, <1>3
  <2> QED BY <1>0, <1>3, <1>4, <2>1, <2>2, <2>4, <2>5 DEF Reach
<1>7. ASSUME NEW l \in Lanes, NEW i \in DOMAIN wire[b][l]
      PROVE  Meant(b, wire[b][l][i])'
  <2> DEFINE m == wire[b][l][i]
  <2>1. Meant(b, m) /\ m = wire'[b][l][i]
    BY <1>3 DEF Sound, Flow
  <2> HIDE DEF m
  <2>2. m.of \in DOMAIN given'[b] /\ given'[b][m.of] = given[b][m.of]
    BY <1>1, <2>1 DEF Meant
  <2>3. /\ given'[b][m.of].kind \in Measures
        /\ given'[b][m.of].size = m.size
        /\ phase'[b] # "ended" => Sooner(Place(m), Sent(b)')
    BY <1>3, <1>4, <2>1, <2>2 DEF Meant
  <2> QED BY <2>1, <2>2, <2>3 DEF Meant, Place
<1>8. Flow(b)'
  BY <1>3, <1>6, <1>7 DEF Sound, Flow
<1>9. Tempo(b)'
  <2>1. phase[b] \in {"send", "recv", "signal"} => Next1(b)' = Next1(b)
    <3> SUFFICES ASSUME phase[b] \in {"send", "recv", "signal"}
                 PROVE  Next1(b)' = Next1(b)
      OBVIOUS
    <3>1. cmds[b] # <<>> /\ cmds[b] \in Seq(Command)
      BY DEF Typed, Machine, Pipework
    <3>2. cmds'[b] = cmds[b] \/ cmds'[b] = Append(cmds[b], c)
      BY <1>3 DEF Typed, Pipework
    <3>3. Head(Append(cmds[b], c)) = Head(cmds[b])
      BY <3>1, AppendProperties
    <3> QED BY <3>2, <3>3 DEF Next1
  <2> QED BY <1>3, <2>1 DEF Sound, Beat, Tempo
<1>10. TakesTurns(b)' /\ InOrder(b)'
  BY <1>3 DEF Sound, TakesTurns, InOrder
<1> QED BY <1>8, <1>9, <1>10 DEF Sound

(* Steps that are none. *)
LEMMA StillSound ==
  ASSUME UNCHANGED vars, NEW b \in Actors, Sound(b)
  PROVE  Sound(b)'
<1>1. Slots' = Slots /\ Next1(b)' = Next1(b)
  BY DEF vars, Slots, Next1
<1>2. ASSUME NEW d \in Actors
      PROVE  Sent(d)' = Sent(d) /\ Got(d)' = Got(d)
  BY SameNumber DEF vars, Sent, Got
<1>3. Tempo(b)' /\ TakesTurns(b)' /\ InOrder(b)'
  BY <1>1 DEF vars, Sound, Beat, Tempo, TakesTurns, InOrder
<1>4. Flow(b)'
  <2>1. Peer(b) \in Actors /\ Peer(b)' = Peer(b)
    BY Peers DEF Peer
  <2>2. ASSUME NEW l \in Lanes
        PROVE  Reach(b, l) => Reach(b, l)'
    BY <1>1, <1>2, <2>1 DEF vars, Reach
  <2>3. ASSUME NEW m
        PROVE  Meant(b, m) => Meant(b, m)'
    BY <1>2 DEF vars, Meant
  <2>4. Open(b)' <=> Open(b)
    BY <2>1 DEF vars, Open
  <2>5. wire' = wire /\ sock' = sock
    BY DEF vars
  <2> QED BY <2>2, <2>3, <2>4, <2>5 DEF Sound, Flow
<1> QED BY <1>3, <1>4 DEF Sound

(* The invariant holds first ... *)
LEMMA TallyInit == Init => Tallied
<1> SUFFICES ASSUME Init, NEW b \in Actors PROVE Sound(b)
  BY DEF Tallied
<1>1. Peer(b) \in Actors
  BY Peers
<1>2. /\ Slots = {} /\ Sent(b) = <<1, 0>> /\ Got(Peer(b)) = <<1, 0>>
  BY <1>1 DEF Init, Slots, Sent, Got, Number, Done, NoRun
<1>3. <<1, 0>> \in Places
  BY DEF Places
<1>4. ASSUME NEW l \in Lanes
      PROVE  wire[b][l] = <<>> /\ Reach(b, l)
  <2>1. wire[b][l] = <<>> /\ phase[b] = "idle"
    BY DEF Init
  <2>2. Filled({}, <<>>, <<1, 0>>, <<1, 0>>)
    BY DEF Filled
  <2> QED BY <1>2, <1>3, <2>1, <2>2 DEF Reach
<1>5. Flow(b)
  BY <1>4 DEF Flow
<1>6. Tempo(b) /\ TakesTurns(b) /\ InOrder(b)
  BY DEF Init, Beat, Tempo, TakesTurns, InOrder, NoRun
<1> QED BY <1>5, <1>6 DEF Sound

(* ... is kept by every step ... *)
LEMMA TallyNext == Typed /\ Ordered /\ Tallied /\ [AnyNext]_vars => Tallied'
<1> SUFFICES ASSUME Typed, Ordered, Tallied, [AnyNext]_vars, OneLane, Paired'
             PROVE  \A b \in Actors : Sound(b)'
  BY DEF Tallied, OneLane
<1>1. ASSUME NEW a \in Actors, NEW c \in Command,
             Gives(a, c), sock' = sock
      PROVE  \A b \in Actors : Sound(b)'
  <2>2. Paired
    BY <1>1, PairedBefore
  <2>3. \A b \in Actors : Sound(b)
    BY <2>2 DEF Tallied
  <2> QED BY <1>1, <2>3, GiveSound
<1>2. ASSUME given' = given, sock' = sock
      PROVE  /\ Paired /\ \A b \in Actors : Sound(b)
             /\ \A b \in Actors : Good(b)
  <2>1. Paired
    BY <1>2 DEF Paired, Proper, Fits
  <2> QED BY <2>1, PairedFits DEF Tallied, Ordered
<1>3. ASSUME NEW a \in Actors, PerfStep(a)
      PROVE  \A b \in Actors : Sound(b)'
  <2>1. given' = given /\ sock' = sock
    BY <1>3, PipeStep DEF Typed
  <2> QED BY <1>2, <1>3, <2>1, SoundStep
<1>4. CASE UNCHANGED vars
  <2>1. given' = given /\ sock' = sock
    BY <1>4 DEF vars
  <2> QED BY <1>2, <1>4, <2>1, StillSound
<1> QED BY <1>1, <1>3, <1>4 DEF AnyNext

(* ... and so always. *)
LEMMA TalliedAlways == AnySpec => [](Typed /\ Tallied)
BY TypesAlways, OrderInit, OrderNext, TallyInit, TallyNext, PTL DEF AnySpec

(* Over one connection the matching measurements of two ends count no message
   out of order: for any commands, numbers and sizes, given at any time, and any
   high-water mark. *)
THEOREM PairedCountsInOrder == Spec => []PairedMeasuresInOrder
<1>1. Tallied => PairedMeasuresInOrder
  BY DEF Tallied, PairedMeasuresInOrder, Sound, InOrder
<1> QED BY <1>1, TalliedAlways, SpecIsAny, PTL

(* Nor does either end fail an assertion: no message has another size than the
   one that is waited for, no socket is used out of its turn, no stopwatch is
   stopped that was not started. *)
NoneAborts == OneLane /\ Paired => \A a \in Actors : phase[a] # "aborted"

THEOREM PairedNeverAborts == Spec => []NoneAborts
<1>1. Tallied => NoneAborts
  BY DEF Tallied, NoneAborts, Sound, Beat, Tempo
<1> QED BY <1>1, TalliedAlways, SpecIsAny, PTL

(* Whoever has run a matching measurement of an end that sends does not only
   send. *)
LEMMA HeardOrNone ==
  ASSUME Typed, Paired, NEW a \in Actors, NEW p \in Actors, p # a,
         Number(p) = Number(a), NEW m \in Message, m.of \in DOMAIN given[a],
         given[a][m.of].kind \in Measures, m.of < Number(a), sock[a] # "PULL"
  PROVE  sock[p] # "PUSH"
<1> SUFFICES ASSUME sock[p] = "PUSH" PROVE FALSE
  OBVIOUS
<1>1. m.of \in DOMAIN given[p]
  <2>1. /\ Number(p) <= Len(given[p]) + 1 /\ Number(p) \in Nat
        /\ given[p] \in Seq(Command) /\ given[a] \in Seq(Command)
    BY NowGiven DEF Typed, Pipework
  <2>2. m.of # 0 /\ m.of \in Nat /\ Len(given[p]) \in Nat
    BY <2>1 DEF Message
  <2>3. m.of \in 1..Len(given[p])
    BY <2>1, <2>2
  <2> QED BY <2>1, <2>3
<1>2. Match(given[a][m.of], given[p][m.of])
  BY <1>1 DEF Paired
<1>3. /\ given[a][m.of].kind \in MeasuresOf[sock[a]]
      /\ given[p][m.of].kind \in MeasuresOf[sock[p]]
  BY <1>1, <1>2, MatchKinds DEF Paired, Proper, Fits
<1>4. given[p][m.of].kind \in Sends
  BY <1>3, FitKinds
<1>5. given[a][m.of].kind \notin Recvs
  <2> DEFINE k == given[a][m.of].kind
  <2>1. k \in MeasuresOf[sock[a]]
    BY <1>3
  <2> HIDE DEF k
  <2>2. /\ sock[a] = "PUSH" => k \in Sends
        /\ k \in Sends \cup Recvs <=> sock[a] \in {"PUSH", "PULL"}
    BY <2>1, FitKinds
  <2>3. k \notin Recvs
    BY <2>2 DEF Sends, Recvs
  <2> QED BY <2>3 DEF k
<1> QED BY <1>2, <1>4, <1>5, MatchKinds

(* When both ends have run as many of the matching commands the one connection
   is empty. *)
LEMMA DrainsTheOne == ASSUME Typed, Tallied, OneLane PROVE WireDrained
<1> SUFFICES ASSUME Paired, \A a, b \in Actors : Done(a) = Done(b),
                    \A a \in Actors : phase[a] = "idle",
                    NEW a \in Actors, NEW l \in Lanes,
                    wire[a][l] # <<>>
             PROVE  FALSE
  BY DEF WireDrained
<1>1. PICK p \in Actors : p = Peer(a) /\ Peer(p) = a /\ p # a
  BY Peers
<1>2. Sound(a) /\ Sound(p)
  BY DEF Tallied
<1>3. wire[a][l] \in Seq(Message) /\ 1 \in DOMAIN wire[a][l]
  BY DEF Typed, Socketry
<1>4. PICK m \in Message : m = wire[a][l][1]
  BY <1>3
<1>5. Meant(a, m)
  BY <1>2, <1>3, <1>4 DEF Sound, Flow
<1>6. /\ Sent(a) = <<Number(a), 0>> /\ Got(p) = <<Number(a), 0>>
      /\ Number(a) \in Nat /\ Number(p) = Number(a)
  BY <1>2, NowGiven DEF Sent, Got, Number, Sound, Beat, Tempo
<1>7. m.of < Number(a)
  BY <1>5, <1>6 DEF Meant, Sooner, Place, Message
<1>8. CASE Open(a)
  <2>1. Filled(Slots, wire[a][l], Got(p), Sent(a))
    BY <1>1, <1>2, <1>8 DEF Sound, Flow, Reach
  <2>2. ~Sooner(Place(m), Got(p)) /\ Sooner(Place(m), Sent(a))
    BY <1>3, <1>4, <2>1 DEF Filled
  <2> QED BY <1>6, <2>2
<1>9. CASE ~Open(a)
  <2>1. sock[a] # "PULL"
    BY <1>2 DEF Sound, Flow
  <2>2. sock[p] = "PUSH"
    BY <1>1, <1>9, <2>1 DEF Open
  <2> QED BY <1>1, <1>5, <1>6, <1>7, <2>1, <2>2, HeardOrNone DEF Meant
<1> QED BY <1>8, <1>9
=============================================================================
