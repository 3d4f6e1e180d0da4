-------------------------- MODULE PerfAnswerProofs --------------------------
(***************************************************************************)
(* What PerfPairedProofs shows of one connection, for any number of them:  *)
(* the owners of matching commands get one answer per command that asks    *)
(* for one, in the order of the commands, each with the whole of the data  *)
(* its measurement was to move, and nothing stays on the connections.      *)
(*                                                                         *)
(* Over several connections the messages of a measurement may overtake     *)
(* each other, so their order says nothing; but the owners then wait for   *)
(* both answers before they ask for more (apart).  Level has what takes    *)
(* the place of the order: the connections of an end hold no more messages *)
(* than it has sent and the other end not taken (Balanced, a count over    *)
(* the places of PerfPairedProofs), and those that will be taken are of    *)
(* the last measurement that was given (Held).  A measurement is given     *)
(* when both ends have run those before it (Caught), so the connections    *)
(* are empty then, and what an end takes is of the measurement it runs     *)
(* (TakesOwn).                                                             *)
(*                                                                         *)
(* Whole says of a measurement under way that total has the data of the    *)
(* messages counted so far, which the kinds add at different points of the *)
(* round (Counted); it holds whatever the owners ask for.  Accounted says  *)
(* that the answers are those Due for the commands run.  The one thing     *)
(* that would break it, a command that ends without an answer because a    *)
(* message had the wrong size, is what the order of the messages, or their *)
(* number, rules out.                                                      *)
(***************************************************************************)
EXTENDS PerfPairedProofs

USE ActorConstants

(* How many commands an actor has run is a number of those given. *)
LEMMA DoneGiven ==
  ASSUME Typed, NEW a \in Actors
  PROVE  Done(a) \in Nat /\ Done(a) <= Len(given[a])
<1> DEFINE m == Len(given[a])  n == Len(cmds[a])
<1>1. m \in Nat /\ n \in Nat /\ n <= m
  BY BacklogOf DEF Typed, Pipework
<1>2. Done(a) = m - n
  BY DEF Done
<1> HIDE DEF m, n
<1>3. Done(a) \in Nat /\ Done(a) <= m
  BY <1>1, <1>2
<1> QED BY <1>3 DEF m

(* How many of the places S are before s. *)
Passed(S, s) == Cardinality({x \in S : Sooner(x, s)})

(* What one has passed the other has: so has it as many. *)
LEMMA PassedWithin ==
  ASSUME NEW S, IsFiniteSet(S), NEW s, NEW t,
         \A x \in S : Sooner(x, s) => Sooner(x, t)
  PROVE  /\ Passed(S, s) \in Nat /\ Passed(S, t) \in Nat
         /\ Passed(S, s) <= Passed(S, t)
<1> DEFINE U == {x \in S : Sooner(x, s)}  V == {x \in S : Sooner(x, t)}
<1>1. U \in SUBSET V /\ V \in SUBSET S
  OBVIOUS
<1>2. Passed(S, s) = Cardinality(U) /\ Passed(S, t) = Cardinality(V)
  BY DEF Passed
<1> HIDE DEF U, V
<1>3. IsFiniteSet(V)
  BY <1>1, FS_Subset
<1>4. IsFiniteSet(U) /\ Cardinality(U) <= Cardinality(V)
  BY <1>1, <1>3, FS_Subset
<1> QED BY <1>2, <1>3, <1>4, FS_CardinalityType

(* The place passed is one more. *)
LEMMA PassedNext ==
  ASSUME NEW S \in SUBSET Places, IsFiniteSet(S), NEW s \in S
  PROVE  Passed(S, s) \in Nat /\ Passed(S, NextPlace(s)) = Passed(S, s) + 1
<1> DEFINE U == {x \in S : Sooner(x, s)}
           V == {x \in S : Sooner(x, NextPlace(s))}
<1>1. V = U \cup {s}
  BY NextIsNext
<1>2. s \notin U
  BY SoonerIsTotal
<1>3. Passed(S, s) = Cardinality(U) /\ Passed(S, NextPlace(s)) = Cardinality(V)
  BY DEF Passed
<1>4. U \in SUBSET S
  OBVIOUS
<1> HIDE DEF U, V
<1>5. IsFiniteSet(U)
  BY <1>4, FS_Subset
<1> QED BY <1>1, <1>2, <1>3, <1>5, FS_AddElement, FS_CardinalityType

(* There is none to pass. *)
LEMMA PassedEmpty ==
  ASSUME NEW S \in SUBSET Places, NEW s \in Places, NEW t \in Places,
         Empty(S, s, t)
  PROVE  Passed(S, t) = Passed(S, s)
<1>1. \A x \in S : Sooner(x, s) <=> Sooner(x, t)
  BY SoonerIsTotal DEF Empty
<1>2. {x \in S : Sooner(x, s)} = {x \in S : Sooner(x, t)}
  BY <1>1
<1> QED BY <1>2 DEF Passed

(* Places that come later count for nothing before. *)
LEMMA PassedGrows ==
  ASSUME NEW S, NEW T, S \subseteq T, NEW s, \A x \in T \ S : ~Sooner(x, s)
  PROVE  Passed(T, s) = Passed(S, s)
<1>1. {x \in S : Sooner(x, s)} = {x \in T : Sooner(x, s)}
  OBVIOUS
<1> QED BY <1>1 DEF Passed

(* What connections w hold. *)
Load(w) == {x \in Lanes \X Nat : x[2] \in 1..Len(w[x[1]])}

LEMMA LoadFinite ==
  ASSUME NEW w \in [Lanes -> Seq(Message)], \A l \in Lanes : Len(w[l]) <= Hwm
  PROVE  /\ IsFiniteSet(Load(w)) /\ Cardinality(Load(w)) \in Nat
         /\ \A l \in Lanes : w[l] # <<>> => Cardinality(Load(w)) # 0
<1>1. IsFiniteSet(Lanes \X (0..Hwm))
  <2>1. IsFiniteSet(Lanes) /\ 0 \in Int /\ Hwm \in Int
    OBVIOUS
  <2>2. IsFiniteSet(0..Hwm)
    BY <2>1, FS_Interval
  <2> QED BY <2>1, <2>2, FS_Product
<1>2. Load(w) \in SUBSET (Lanes \X (0..Hwm))
  <2> SUFFICES ASSUME NEW x \in Load(w) PROVE x \in Lanes \X (0..Hwm)
    OBVIOUS
  <2>1. /\ x \in Lanes \X Nat /\ x[1] \in Lanes
        /\ x[2] \in Nat /\ x[2] <= Len(w[x[1]])
    BY DEF Load
  <2>2. Len(w[x[1]]) \in Nat /\ Len(w[x[1]]) <= Hwm /\ Hwm \in Nat
    BY <2>1
  <2> QED BY <2>1, <2>2
<1>3. IsFiniteSet(Load(w)) /\ Cardinality(Load(w)) \in Nat
  BY <1>1, <1>2, FS_Subset, FS_CardinalityType
<1>4. ASSUME NEW l \in Lanes, w[l] # <<>>
      PROVE  Cardinality(Load(w)) # 0
  <2>1. Len(w[l]) \in Nat /\ Len(w[l]) # 0
    BY <1>4
  <2>2. <<l, 1>> \in Load(w)
    BY <2>1 DEF Load
  <2> QED BY <1>3, <2>2, FS_EmptySet
<1> QED BY <1>3, <1>4

(* A message more on one of them. *)
LEMMA LoadMore ==
  ASSUME NEW w \in [Lanes -> Seq(Message)], NEW v \in [Lanes -> Seq(Message)],
         IsFiniteSet(Load(w)), NEW l \in Lanes, Len(v[l]) = Len(w[l]) + 1,
         \A k \in Lanes : k # l => Len(v[k]) = Len(w[k])
  PROVE  Cardinality(Load(v)) = Cardinality(Load(w)) + 1
<1> DEFINE n == Len(w[l])  e == <<l, n + 1>>
<1>1. n \in Nat
  OBVIOUS
<1>2. ASSUME NEW x \in Lanes \X Nat
      PROVE  x \in Load(v) <=> x \in Load(w) \/ x = e
  <2>1. x = <<x[1], x[2]>> /\ x[1] \in Lanes /\ x[2] \in Nat
    OBVIOUS
  <2>2. x \in Load(v) <=> x[2] \in 1..Len(v[x[1]])
    BY DEF Load
  <2>3. x \in Load(w) <=> x[2] \in 1..Len(w[x[1]])
    BY DEF Load
  <2>4. x = e <=> x[1] = l /\ x[2] = n + 1
    BY <2>1
  <2> QED BY <1>1, <2>1, <2>2, <2>3, <2>4
<1>3. e \in Lanes \X Nat /\ e \notin Load(w)
  BY <1>1 DEF Load
<1>4. Load(v) \in SUBSET (Lanes \X Nat) /\ Load(w) \in SUBSET (Lanes \X Nat)
  BY DEF Load
<1> HIDE DEF e
<1>5. Load(v) = Load(w) \cup {e}
  BY <1>2, <1>3, <1>4
<1> QED BY <1>3, <1>5, FS_AddElement

(* No more on any of them. *)
LEMMA LoadLess ==
  ASSUME NEW w \in [Lanes -> Seq(Message)], NEW v \in [Lanes -> Seq(Message)],
         IsFiniteSet(Load(w)), \A k \in Lanes : Len(v[k]) <= Len(w[k])
  PROVE  IsFiniteSet(Load(v)) /\ Cardinality(Load(v)) <= Cardinality(Load(w))
<1>1. Load(v) \in SUBSET Load(w)
  <2> SUFFICES ASSUME NEW x \in Load(v) PROVE x \in Load(w)
    OBVIOUS
  <2>1. x \in Lanes \X Nat /\ x[1] \in Lanes /\ x[2] \in 1..Len(v[x[1]])
    BY DEF Load
  <2>2. Len(v[x[1]]) \in Nat /\ Len(w[x[1]]) \in Nat
    BY <2>1
  <2>3. x[2] \in 1..Len(w[x[1]])
    BY <2>1, <2>2
  <2> QED BY <2>1, <2>3 DEF Load
<1> QED BY <1>1, FS_Subset

-----------------------------------------------------------------------------

(* No more than what b has sent and the other end has not taken is on the
   connections of b, on all of them together. *)
Balanced(b) ==
  Open(b) => Cardinality(Load(wire[b])) + Passed(Slots, Got(Peer(b)))
               <= Passed(Slots, Sent(b))

(* A message is of a measurement that b has begun, and if the other end will
   take it, of the last that the owner gave. *)
Held(b, m) ==
  /\ m.of \in DOMAIN given[b] /\ given[b][m.of].kind \in Measures
  /\ given[b][m.of].size = m.size
  /\ m.of < Number(b) \/ (m.of = Number(b) /\ phase[b] \in Busy)
  /\ Open(b) => \A j \in DOMAIN given[b] :
                  m.of < j => given[b][j].kind \notin Measures

Laden(b) == \A l \in Lanes : \A i \in DOMAIN wire[b][l] : Held(b, wire[b][l][i])

(* Two ends that wait for each other. *)
BothListen(b) == sock[b] \in Listeners /\ sock[Peer(b)] \in Listeners

Calm(b) ==
  /\ BothListen(b) => phase[b] # "send"
  /\ BothListen(b) \/ sock[b] = "PULL" => \A l \in Lanes : wire[b][l] = <<>>

(* A measurement was given when both ends had run those before it. *)
Separate(b) ==
  \A i, j \in DOMAIN given[b] :
    i < j /\ given[b][i].kind \in Measures /\ given[b][j].kind \in Measures
      => \A q \in Actors : i < Number(q)

Level(b) ==
  /\ Beat(b) /\ TakesTurns(b) /\ Calm(b)
  /\ Balanced(b) /\ Laden(b) /\ Separate(b)

Levelled ==
  Paired /\ apart => IsFiniteSet(Slots) /\ \A b \in Actors : Level(b)

-----------------------------------------------------------------------------

(* What connections hold is a number. *)
LEMMA LoadTypes ==
  ASSUME Typed, NEW b \in Actors
  PROVE  /\ wire[b] \in [Lanes -> Seq(Message)]
         /\ IsFiniteSet(Load(wire[b])) /\ Cardinality(Load(wire[b])) \in Nat
         /\ \A l \in Lanes :
              wire[b][l] # <<>> => Cardinality(Load(wire[b])) # 0
<1>1. /\ wire[b] \in [Lanes -> Seq(Message)]
      /\ \A l \in Lanes : Len(wire[b][l]) <= Hwm
  BY DEF Typed, Socketry
<1> QED BY <1>1, LoadFinite

(* An end runs its commands in their order. *)
LEMMA NumberGrows ==
  ASSUME Typed, NEW a \in Actors, PerfStep(a), NEW q \in Actors
  PROVE  /\ Number(q) \in Nat
         /\ Number(q)' = Number(q) \/ Number(q)' = Number(q) + 1
<1>0. given' = given /\ Number(q) \in Nat
  BY PipeStep, NowGiven DEF Typed
<1>1. CASE q # a
  BY <1>0, <1>1, SparedStep DEF Spared
<1>2. CASE q = a
  <2>1. cmds' = cmds \/ Answered(a) \/ Dropped(a)
    BY PipeStep DEF Typed
  <2>2. CASE cmds' = cmds
    BY <1>0, <2>2, SameNumber
  <2>3. CASE Answered(a) \/ Dropped(a)
    <3>1. cmds[a] # <<>> /\ cmds' = [cmds EXCEPT ![a] = Tail(@)]
      BY <2>3 DEF Answered, Dropped
    <3> QED BY <1>0, <1>2, <3>1, NextNumber
  <2> QED BY <2>1, <2>2, <2>3
<1> QED BY <1>1, <1>2

(* What was given one after the other stays so. *)
LEMMA SeparateKept ==
  ASSUME Typed, NEW a \in Actors, PerfStep(a), NEW b \in Actors, Separate(b)
  PROVE  Separate(b)'
<1>1. given' = given
  BY PipeStep DEF Typed
<1>2. \A q \in Actors : Number(q) \in Nat /\ Number(q)' >= Number(q)
  BY NumberGrows
<1>3. ASSUME NEW i \in DOMAIN given[b], NEW q \in Actors, i < Number(q)
      PROVE  i < Number(q)'
  <2>1. i \in Nat
    BY DEF Typed, Pipework
  <2>2. Number(q)' \in Nat
    BY NumberGrows
  <2> QED BY <1>2, <1>3, <2>1, <2>2
<1> QED BY <1>1, <1>3 DEF Separate

(* Messages that stay on the connections are of what they were. *)
LEMMA LadenKept ==
  ASSUME Typed, NEW a \in Actors, PerfStep(a), NEW b \in Actors, Laden(b),
         phase[b] \in Busy => phase'[b] \in Busy \/ Number(b)' # Number(b),
         Open(b)' => Open(b),
         \A l \in Lanes : \A i \in DOMAIN wire'[b][l] :
           \/ \E j \in DOMAIN wire[b][l] : wire'[b][l][i] = wire[b][l][j]
           \/ Held(b, wire[b][l][i])'
  PROVE  Laden(b)'
<1>1. given' = given
  BY PipeStep DEF Typed
<1>2. ASSUME NEW m \in Message, Held(b, m)
      PROVE  Held(b, m)'
  <2>1. m.of \in Nat
    BY DEF Message
  <2>2. m.of < Number(b)' \/ (m.of = Number(b)' /\ phase'[b] \in Busy)
    BY <1>2, <2>1, NumberGrows DEF Held
  <2> QED BY <1>1, <1>2, <2>2 DEF Held
<1>3. ASSUME NEW l \in Lanes, NEW i \in DOMAIN wire'[b][l]
      PROVE  Held(b, wire[b][l][i])'
  <2> SUFFICES ASSUME NEW j \in DOMAIN wire[b][l],
                      wire'[b][l][i] = wire[b][l][j]
               PROVE  Held(b, wire[b][l][i])'
    OBVIOUS
  <2>2. wire[b][l][j] \in Message /\ Held(b, wire[b][l][j])
    BY DEF Laden, Typed, Socketry
  <2>3. PICK m \in Message : m = wire[b][l][j]
    BY <2>2
  <2>4. Held(b, m)'
    BY <1>2, <2>2, <2>3
  <2> QED BY <2>3, <2>4 DEF Held
<1> QED BY <1>3 DEF Laden

(* The balance of an end is kept when its connections hold no more and the two
   ends move over nothing. *)
LEMMA BalancedKept ==
  ASSUME Typed, IsFiniteSet(Slots), NEW b \in Actors, NEW q \in Actors,
         q = Peer(b), Balanced(b), sock' = sock, given' = given,
         Open(b)' => Open(b),
         Cardinality(Load(wire'[b])) \in Nat,
         Cardinality(Load(wire'[b])) <= Cardinality(Load(wire[b])),
         Open(b) => /\ Sent(b)' \in Places /\ Got(q)' \in Places
                    /\ Empty(Slots, Sent(b), Sent(b)')
                    /\ Empty(Slots, Got(q), Got(q)')
  PROVE  Balanced(b)'
<1> SUFFICES ASSUME Open(b)'
             PROVE  (Cardinality(Load(wire[b])) + Passed(Slots, Got(Peer(b)))
                       <= Passed(Slots, Sent(b)))'
  BY DEF Balanced
<1>1. Slots' = Slots /\ Peer(b)' = q
  BY DEF Slots, Peer
<1>2. /\ Sent(b) \in Places /\ Got(q) \in Places /\ Slots \in SUBSET Places
  BY PositionTypes
<1>3. /\ Passed(Slots, Sent(b)') = Passed(Slots, Sent(b))
      /\ Passed(Slots, Got(q)') = Passed(Slots, Got(q))
  <2>1. /\ Sent(b)' \in Places /\ Got(q)' \in Places
        /\ Empty(Slots, Sent(b), Sent(b)') /\ Empty(Slots, Got(q), Got(q)')
    OBVIOUS
  <2> QED BY <1>2, <2>1, PassedEmpty
<1>4. /\ Passed(Slots, Sent(b)) \in Nat /\ Passed(Slots, Got(q)) \in Nat
  BY PassedWithin
<1>5. /\ Cardinality(Load(wire[b])) + Passed(Slots, Got(q))
           <= Passed(Slots, Sent(b))
      /\ Cardinality(Load(wire[b])) \in Nat
  BY LoadTypes DEF Balanced
<1>6. /\ Passed(Slots, Sent(b))' = Passed(Slots, Sent(b))
      /\ Passed(Slots, Got(Peer(b)))' = Passed(Slots, Got(q))
  BY <1>1, <1>3 DEF Passed
<1>7. Cardinality(Load(wire[b]))' = Cardinality(Load(wire'[b]))
  BY DEF Load
<1> QED BY <1>4, <1>5, <1>6, <1>7

(* It is kept when b sends the message of its place. *)
LEMMA BalancedSent ==
  ASSUME Typed, IsFiniteSet(Slots), NEW b \in Actors, NEW q \in Actors,
         q = Peer(b), Balanced(b), sock' = sock, given' = given,
         phase'[q] = phase[q], Got(q)' = Got(q),
         Cardinality(Load(wire'[b])) \in Nat,
         Cardinality(Load(wire'[b])) <= Cardinality(Load(wire[b])) + 1,
         Sent(b) \in Slots, Sent(b)' = NextPlace(Sent(b))
  PROVE  Balanced(b)'
<1> SUFFICES ASSUME Open(b)'
             PROVE  (Cardinality(Load(wire[b])) + Passed(Slots, Got(Peer(b)))
                       <= Passed(Slots, Sent(b)))'
  BY DEF Balanced
<1>1. Slots' = Slots /\ Peer(b)' = q
  BY DEF Slots, Peer
<1>2. Open(b) /\ Slots \in SUBSET Places
  BY <1>1, PositionTypes DEF Open
<1>3. /\ Passed(Slots, Sent(b)) \in Nat /\ Passed(Slots, Got(q)) \in Nat
      /\ Passed(Slots, Sent(b)') = Passed(Slots, Sent(b)) + 1
  BY <1>2, PassedNext, PassedWithin
<1>4. /\ Cardinality(Load(wire[b])) + Passed(Slots, Got(q))
           <= Passed(Slots, Sent(b))
      /\ Cardinality(Load(wire[b])) \in Nat
  BY <1>2, LoadTypes DEF Balanced
<1>5. /\ Passed(Slots, Sent(b))' = Passed(Slots, Sent(b)) + 1
      /\ Passed(Slots, Got(Peer(b)))' = Passed(Slots, Got(q))
      /\ Cardinality(Load(wire[b]))' = Cardinality(Load(wire'[b]))
  BY <1>1, <1>3 DEF Passed, Load
<1> QED BY <1>3, <1>4, <1>5

(* It is kept when the other end takes a message. *)
LEMMA BalancedTaken ==
  ASSUME Typed, IsFiniteSet(Slots), NEW b \in Actors, NEW q \in Actors,
         q = Peer(b), Balanced(b), sock' = sock, given' = given,
         phase[q] # "ended", Sent(b)' = Sent(b),
         Cardinality(Load(wire'[b])) \in Nat,
         Cardinality(Load(wire[b])) = Cardinality(Load(wire'[b])) + 1,
         Got(q) \in Slots, Got(q)' = NextPlace(Got(q))
  PROVE  Balanced(b)'
<1> SUFFICES ASSUME Open(b)'
             PROVE  (Cardinality(Load(wire[b])) + Passed(Slots, Got(Peer(b)))
                       <= Passed(Slots, Sent(b)))'
  BY DEF Balanced
<1>1. Slots' = Slots /\ Peer(b)' = q
  BY DEF Slots, Peer
<1>2. Open(b) /\ Slots \in SUBSET Places
  BY <1>1, PositionTypes DEF Open
<1>3. /\ Passed(Slots, Sent(b)) \in Nat /\ Passed(Slots, Got(q)) \in Nat
      /\ Passed(Slots, Got(q)') = Passed(Slots, Got(q)) + 1
  BY <1>2, PassedNext, PassedWithin
<1>4. Cardinality(Load(wire[b])) + Passed(Slots, Got(q))
        <= Passed(Slots, Sent(b))
  BY <1>2 DEF Balanced
<1>5. /\ Passed(Slots, Sent(b))' = Passed(Slots, Sent(b))
      /\ Passed(Slots, Got(Peer(b)))' = Passed(Slots, Got(q)) + 1
      /\ Cardinality(Load(wire[b]))' = Cardinality(Load(wire'[b]))
  BY <1>1, <1>3 DEF Passed, Load
<1> QED BY <1>3, <1>4, <1>5

(* What a message more and a message less make of what connections hold. *)
LEMMA LoadSent ==
  ASSUME Typed, NEW b \in Actors, NEW l \in Lanes, NEW m \in Message,
         wire'[b] = [wire[b] EXCEPT ![l] = Append(@, m)]
  PROVE  /\ Cardinality(Load(wire'[b])) \in Nat
         /\ Cardinality(Load(wire'[b])) = Cardinality(Load(wire[b])) + 1
<1> DEFINE w == wire[b]  v == wire'[b]
<1>1. /\ w \in [Lanes -> Seq(Message)] /\ IsFiniteSet(Load(w))
      /\ Cardinality(Load(w)) \in Nat
  BY LoadTypes
<1>2. v = [w EXCEPT ![l] = Append(@, m)]
  OBVIOUS
<1> HIDE DEF w, v
<1>3. v \in [Lanes -> Seq(Message)] /\ v[l] = Append(w[l], m)
  BY <1>1, <1>2
<1>4. Len(v[l]) = Len(w[l]) + 1 /\ \A k \in Lanes : k # l => v[k] = w[k]
  BY <1>1, <1>2, <1>3, AppendProperties
<1>5. Cardinality(Load(v)) = Cardinality(Load(w)) + 1
  BY <1>1, <1>3, <1>4, LoadMore
<1> QED BY <1>1, <1>5 DEF w, v

LEMMA LoadTaken ==
  ASSUME Typed, NEW b \in Actors, NEW l \in Lanes, wire[b][l] # <<>>,
         wire'[b] = [wire[b] EXCEPT ![l] = Tail(@)]
  PROVE  /\ Cardinality(Load(wire'[b])) \in Nat
         /\ Cardinality(Load(wire[b])) = Cardinality(Load(wire'[b])) + 1
<1> DEFINE w == wire[b]  v == wire'[b]
<1>1. /\ w \in [Lanes -> Seq(Message)] /\ IsFiniteSet(Load(w)) /\ w[l] # <<>>
  BY LoadTypes
<1>2. v = [w EXCEPT ![l] = Tail(@)]
  OBVIOUS
<1> HIDE DEF w, v
<1>3. /\ Len(Tail(w[l])) = Len(w[l]) - 1 /\ Len(w[l]) \in Nat
      /\ Tail(w[l]) \in Seq(Message)
  BY <1>1, HeadTailProperties
<1>4. v \in [Lanes -> Seq(Message)] /\ v[l] = Tail(w[l])
  BY <1>1, <1>2, <1>3
<1>5. Len(w[l]) = Len(v[l]) + 1 /\ \A k \in Lanes : k # l => v[k] = w[k]
  BY <1>1, <1>2, <1>3, <1>4
<1>6. \A k \in Lanes : Len(v[k]) <= Len(w[k])
  <2> TAKE k \in Lanes
  <2>1. Len(w[k]) \in Nat /\ Len(v[k]) \in Nat
    BY <1>1, <1>4
  <2>2. k = l \/ v[k] = w[k]
    BY <1>5
  <2> QED BY <1>5, <2>1, <2>2
<1>7. IsFiniteSet(Load(v))
  BY <1>1, <1>4, <1>6, LoadLess
<1>8. Cardinality(Load(w)) = Cardinality(Load(v)) + 1
  BY <1>1, <1>4, <1>5, <1>7, LoadMore
<1>9. Cardinality(Load(v)) \in Nat
  BY <1>7, FS_CardinalityType
<1> QED BY <1>8, <1>9 DEF w, v

-----------------------------------------------------------------------------

(* What a step of a has to keep besides for the invariant. *)
LEMMA LevelKept ==
  ASSUME Typed, NEW a \in Actors, NEW p \in Actors, p = Peer(a), Peer(p) = a,
         p # a, Level(a), Level(p), PerfStep(a),
         Beat(a)', TakesTurns(a)', Laden(a)', Balanced(a)', Balanced(p)',
         BothListen(a) => phase'[a] # "send",
         BothListen(a) \/ sock[a] = "PULL" =>
           \A l \in Lanes : wire'[a][l] = <<>>,
         \A l \in Lanes :
           \/ wire'[p][l] = wire[p][l]
           \/ wire[p][l] # <<>> /\ wire'[p][l] = Tail(wire[p][l])
  PROVE  Level(a)' /\ Level(p)'
<1>0. Spared(p) /\ sock' = sock /\ Peer(a)' = p /\ Peer(p)' = a
  BY SparedStep DEF PerfStep, Peer
<1>1. phase[a] # "ended"
  BY DEF PerfStep, Join, Note, Term, Unknown, Begin, ResetFails, Ready,
     SendFrame, Respond, SendOutOfTurn, SendToNobody, RecvFrame, SizeMismatch,
     TakeFrame, RecvOutOfTurn, Signal, SignalUnstarted
<1>2. Separate(a)' /\ Separate(p)'
  BY SeparateKept DEF Level
<1>3. Calm(a)'
  BY <1>0 DEF Calm, BothListen
<1>4. \A l \in Lanes : \A i \in DOMAIN wire'[p][l] :
        \E j \in DOMAIN wire[p][l] : wire'[p][l][i] = wire[p][l][j]
  <2> TAKE l \in Lanes
  <2>1. CASE wire'[p][l] = wire[p][l]
    BY <2>1
  <2>2. CASE wire[p][l] # <<>> /\ wire'[p][l] = Tail(wire[p][l])
    <3>1. wire[p][l] \in Seq(Message)
      BY DEF Typed, Socketry
    <3>2. ASSUME NEW w \in Seq(Message), w # <<>>, NEW i \in DOMAIN Tail(w)
          PROVE  i + 1 \in DOMAIN w /\ Tail(w)[i] = w[i + 1]
      BY <3>2
    <3> QED BY <2>2, <3>1, <3>2
  <2> QED BY <2>1, <2>2
<1>5. Laden(p)'
  <2>1. Open(p)' => Open(p)
    BY <1>0, <1>1 DEF Open
  <2>2. phase[p] \in Busy => phase'[p] \in Busy
    BY <1>0 DEF Spared
  <2> QED BY <1>4, <2>1, <2>2, LadenKept DEF Level
<1>6. Calm(p)'
  <2>1. \A l \in Lanes : wire[p][l] = <<>> => wire'[p][l] = <<>>
    OBVIOUS
  <2> QED BY <1>0, <2>1 DEF Calm, BothListen, Spared, Level
<1>7. Beat(p)' /\ TakesTurns(p)'
  BY <1>0, SpareEnd DEF Level
<1> QED BY <1>2, <1>3, <1>5, <1>6, <1>7 DEF Level

(* Commands that are not measurements, and the first and the last step of one
   that is. *)
LEMMA RestLevel ==
  ASSUME Typed, Paired, IsFiniteSet(Slots), NEW a \in Actors,
         NEW p \in Actors, p = Peer(a), Peer(p) = a, p # a,
         Level(a), Level(p), PerfStep(a),
         Join(a) \/ Note(a) \/ Begin(a) \/ Signal(a)
  PROVE  Level(a)' /\ Level(p)'
<1>0. Spared(p) /\ given' = given /\ sock' = sock
  BY SparedStep, PipeStep DEF Typed
<1>1. /\ Beat(a)' /\ TakesTurns(a)'
      /\ wire' = wire /\ phase[a] # "ended" /\ phase'[a] # "ended"
      /\ Sent(a)' \in Places /\ Got(a)' \in Places
      /\ Empty(Slots, Sent(a), Sent(a)') /\ Empty(Slots, Got(a), Got(a)')
  BY RestBeats DEF Level
<1>2. /\ phase'[p] = phase[p] /\ Sent(p)' = Sent(p) /\ Got(p)' = Got(p)
      /\ Sent(p) \in Places /\ Got(p) \in Places
      /\ Empty(Slots, Sent(p), Sent(p)') /\ Empty(Slots, Got(p), Got(p)')
  BY <1>0, SpareEnd, PositionTypes DEF Spared, Empty
<1>3. /\ Cardinality(Load(wire'[a])) \in Nat
      /\ Cardinality(Load(wire'[a])) <= Cardinality(Load(wire[a]))
      /\ Cardinality(Load(wire'[p])) \in Nat
      /\ Cardinality(Load(wire'[p])) <= Cardinality(Load(wire[p]))
  <2>1. /\ Cardinality(Load(wire[a])) \in Nat
        /\ Cardinality(Load(wire[p])) \in Nat
    BY LoadTypes
  <2> QED BY <1>1, <2>1
<1>4. (Open(a)' => Open(a)) /\ (Open(p)' => Open(p))
  BY <1>0, <1>1, <1>2 DEF Open, Peer
<1>5. Balanced(a)'
  BY <1>0, <1>1, <1>2, <1>3, <1>4, BalancedKept DEF Level
<1>6. Balanced(p)'
  BY <1>0, <1>1, <1>2, <1>3, <1>4, BalancedKept DEF Level
<1>7. Laden(a)'
  <2>1. phase[a] \in Busy => phase'[a] \in Busy \/ Number(a)' # Number(a)
    <3>1. CASE Signal(a)
      <4>1. cmds[a] # <<>> /\ cmds' = [cmds EXCEPT ![a] = Tail(@)]
        BY <3>1 DEF Signal, Finish, Typed, Machine
      <4>2. Number(a)' = Number(a) + 1 /\ Number(a) \in Nat
        BY <1>0, <4>1, NextNumber, NowGiven
      <4> QED BY <4>2
    <3>2. CASE Join(a) \/ Note(a) \/ Begin(a)
      BY <3>2 DEF Join, Note, Begin, Ready, Busy
    <3> QED BY <3>1, <3>2
  <2> QED BY <1>1, <1>4, <2>1, LadenKept DEF Level
<1>8. BothListen(a) => phase'[a] # "send"
  <2>1. phase[a] \in {"idle", "signal"} /\ back' = back
    BY DEF Join, Note, Begin, Signal, Ready
  <2>2. sock[a] \in {"REP", "ROUTER"} => phase'[a] # "send"
    BY <1>0, <1>1, <2>1 DEF Level, TakesTurns
  <2>3. sock[a] = "PULL" => phase'[a] # "send"
    BY <1>0, <1>1 DEF Beat
  <2> QED BY <2>2, <2>3 DEF BothListen, Listeners
<1>9. BothListen(a) \/ sock[a] = "PULL" => \A l \in Lanes : wire'[a][l] = <<>>
  BY <1>1 DEF Level, Calm
<1> QED BY <1>1, <1>5, <1>6, <1>7, <1>8, <1>9, LevelKept

(* An end is told to stop. *)
LEMMA TermLevel ==
  ASSUME Typed, Paired, IsFiniteSet(Slots), NEW a \in Actors,
         NEW p \in Actors, p = Peer(a), Peer(p) = a, p # a,
         Level(a), Level(p), PerfStep(a), Term(a)
  PROVE  Level(a)' /\ Level(p)'
<1>0. Spared(p) /\ given' = given /\ sock' = sock
  BY SparedStep, PipeStep DEF Typed
<1>1. PICK keep \in [Lanes -> 0..Hwm] :
        /\ \A l \in Lanes : keep[l] <= Len(wire[a][l])
        /\ wire' = [wire EXCEPT ![a] =
                      [l \in Lanes |-> SubSeq(@[l], 1, keep[l])]]
  BY DEF Term
<1>2. /\ phase[a] = "idle" /\ phase'[a] = "ended" /\ run' = run
      /\ cmds[a] # <<>> /\ cmds' = [cmds EXCEPT ![a] = Tail(@)]
      /\ Next1(a).kind = "$TERM"
  BY DEF Term, Ready, Typed, Machine
<1>3. /\ wire'[p] = wire[p]
      /\ wire'[a] = [l \in Lanes |-> SubSeq(wire[a][l], 1, keep[l])]
  BY <1>1 DEF Typed, Socketry
<1>4. ASSUME NEW l \in Lanes
      PROVE  /\ wire'[a][l] \in Seq(Message)
             /\ Len(wire'[a][l]) <= Len(wire[a][l])
             /\ wire[a][l] = <<>> => wire'[a][l] = <<>>
             /\ \A i \in DOMAIN wire'[a][l] :
                  i \in DOMAIN wire[a][l] /\ wire'[a][l][i] = wire[a][l][i]
  <2> DEFINE w == wire[a][l]  k == keep[l]
  <2>1. w \in Seq(Message) /\ k \in 0..Hwm /\ Hwm \in Nat /\ k <= Len(w)
    BY <1>1 DEF Typed, Socketry
  <2>2. wire'[a][l] = SubSeq(w, 1, k)
    BY <1>3
  <2> HIDE DEF w, k
  <2>3. k \in Nat /\ Len(w) \in Nat /\ DOMAIN w = 1..Len(w)
    BY <2>1
  <2>4. \A i \in 1..k : i \in 1..Len(w)
    BY <2>1, <2>3
  <2>5. /\ SubSeq(w, 1, k) \in Seq(Message) /\ Len(SubSeq(w, 1, k)) = k
        /\ DOMAIN SubSeq(w, 1, k) = 1..k
        /\ \A i \in 1..k : SubSeq(w, 1, k)[i] = w[i]
    BY <2>1, <2>3, <2>4, SubSeqProperties
  <2>6. w = <<>> => k = 0
    BY <2>1, <2>3
  <2>7. k = 0 => SubSeq(w, 1, k) = <<>>
    BY <2>5
  <2> QED BY <2>1, <2>2, <2>3, <2>4, <2>5, <2>6, <2>7 DEF w
<1>5. /\ Cardinality(Load(wire'[a])) \in Nat
      /\ Cardinality(Load(wire'[a])) <= Cardinality(Load(wire[a]))
  <2>1. wire'[a] \in [Lanes -> Seq(Message)]
    BY <1>3, <1>4
  <2> QED BY <1>4, <2>1, LoadTypes, LoadLess, FS_CardinalityType
<1>6. /\ run[a].count = 0 /\ Number(a) \in Nat /\ Number(a)' = Number(a) + 1
      /\ Next1(a).kind \notin Measures
  <2>1. run[a].count = 0
    BY <1>2 DEF Level, Beat
  <2> QED BY <1>0, <1>2, <2>1, NowGiven, NextNumber
          DEF Measures, Sends, Recvs, Yodels, Echos
<1>7. /\ Sent(a)' \in Places /\ Empty(Slots, Sent(a), Sent(a)')
  <2>1. Sent(a) = <<Number(a), 0>> /\ Sent(a)' = <<Number(a) + 1, 0>>
    BY <1>2, <1>6 DEF Sent
  <2> QED BY <1>2, <1>6, <2>1, Skips
<1>8. /\ phase'[p] = phase[p] /\ Got(p)' = Got(p) /\ Got(p) \in Places
      /\ Empty(Slots, Got(p), Got(p)')
  BY <1>0, SpareEnd, PositionTypes DEF Spared, Empty
<1>9. Open(a)' => Open(a)
  BY <1>0, <1>8 DEF Open, Peer
<1>10. Balanced(a)'
  BY <1>0, <1>5, <1>7, <1>8, <1>9, BalancedKept DEF Level
<1>11. Balanced(p)'
  BY <1>2 DEF Balanced, Open, Peer
<1>12. Laden(a)'
  <2>1. phase[a] \notin Busy
    BY <1>2 DEF Busy
  <2> QED BY <1>4, <1>9, <2>1, LadenKept DEF Level
<1>13. Beat(a)' /\ TakesTurns(a)'
  BY <1>0, <1>2, <1>6 DEF Beat, TakesTurns
<1>14. BothListen(a) \/ sock[a] = "PULL" => \A l \in Lanes : wire'[a][l] = <<>>
  BY <1>4 DEF Level, Calm
<1>15. \A l \in Lanes : wire'[p][l] = wire[p][l]
  BY <1>3
<1> QED BY <1>2, <1>10, <1>11, <1>12, <1>13, <1>14, <1>15, LevelKept

(* A message is sent, or dropped, by an end that is to send. *)
LEMMA SendLevel ==
  ASSUME Typed, Paired, IsFiniteSet(Slots), NEW a \in Actors,
         NEW p \in Actors, p = Peer(a), Peer(p) = a, p # a,
         Level(a), Level(p), PerfStep(a), SendFrame(a) \/ Respond(a)
  PROVE  Level(a)' /\ Level(p)'
<1>0. Spared(p) /\ sock' = sock
  BY SparedStep DEF PerfStep
<1>1. /\ phase[a] = "send"
      /\ sock[a] \in {"PUSH", "DEALER", "REQ", "REP", "ROUTER"}
      /\ AfterSend(a) /\ Beat(a)
      /\ \E l \in Lanes :
           \/ wire' = [wire EXCEPT ![a][l] = Append(@, OnWire(a))]
           \/ wire' = wire
  BY DEF SendFrame, Respond, Level, Typed, Socketry
<1>2. /\ Advance(a, Sender(a)) /\ Sender(a) \in Runs
      /\ Sender(a).count = run[a].count /\ Sender(a).watch = run[a].watch
      /\ cmds' = cmds /\ answers' = answers /\ given' = given
  BY <1>1, SendsWhole
<1>3. /\ Beat(a)' /\ phase'[a] \in Busy
      /\ sock[a] \in {"REQ", "DEALER"} => phase'[a] = "recv"
      /\ sock[a] \in {"REP", "ROUTER"} => phase'[a] # "send"
  BY <1>0, <1>1, <1>2, Round
<1>4. /\ Sent(a) = <<Number(a), run[a].count>>
      /\ Sent(a)' = NextPlace(Sent(a))
      /\ sock[a] # "PUSH" => Got(a)' = Got(a)
  BY <1>0, <1>1, <1>2, RoundPlaces
<1>5. /\ OnWire(a) \in Message /\ Sent(a) \in Slots
      /\ OnWire(a).of = Number(a) /\ OnWire(a).of \in DOMAIN given[a]
      /\ given[a][OnWire(a).of].kind \in Measures
      /\ given[a][OnWire(a).of].size = OnWire(a).size
  BY <1>1, <1>4, SentNow
<1>6. PICK l \in Lanes :
        \/ wire' = [wire EXCEPT ![a][l] = Append(@, OnWire(a))]
        \/ wire' = wire
  BY <1>1
<1>7. /\ wire'[p] = wire[p]
      /\ \/ wire'[a] = [wire[a] EXCEPT ![l] = Append(@, OnWire(a))]
         \/ wire'[a] = wire[a]
  BY <1>6 DEF Typed, Socketry
<1>8. /\ Cardinality(Load(wire'[a])) \in Nat
      /\ Cardinality(Load(wire'[a])) <= Cardinality(Load(wire[a])) + 1
  <2>1. Cardinality(Load(wire[a])) \in Nat
    BY LoadTypes
  <2>2. CASE wire'[a] = wire[a]
    BY <2>1, <2>2
  <2>3. CASE wire'[a] = [wire[a] EXCEPT ![l] = Append(@, OnWire(a))]
    BY <1>5, <2>1, <2>3, LoadSent
  <2> QED BY <1>7, <2>2, <2>3
<1>9. /\ phase'[p] = phase[p] /\ Sent(p)' = Sent(p) /\ Got(p)' = Got(p)
      /\ Sent(p) \in Places /\ Got(a) \in Places
  BY <1>0, SpareEnd, PositionTypes DEF Spared
<1>10. Balanced(a)'
  BY <1>0, <1>2, <1>4, <1>5, <1>8, <1>9, BalancedSent DEF Level
<1>11. Balanced(p)'
  <2>1. /\ Cardinality(Load(wire'[p])) \in Nat
        /\ Cardinality(Load(wire'[p])) <= Cardinality(Load(wire[p]))
    BY <1>7, LoadTypes
  <2>2. Open(p) => sock[a] # "PUSH"
    BY DEF Open
  <2>3. Open(p)' => Open(p)
    BY <1>0, <1>1 DEF Open, Peer
  <2>4. Open(p) => /\ Sent(p)' \in Places /\ Got(a)' \in Places
                   /\ Empty(Slots, Sent(p), Sent(p)')
                   /\ Empty(Slots, Got(a), Got(a)')
    BY <1>4, <1>9, <2>2 DEF Empty
  <2> QED BY <1>0, <1>2, <2>1, <2>3, <2>4, BalancedKept DEF Level
<1>12. Held(a, OnWire(a))
  <2>1. ASSUME NEW j \in DOMAIN given[a], Number(a) < j,
               given[a][j].kind \in Measures
        PROVE  FALSE
    <3>1. Number(a) < Number(a)
      BY <1>5, <2>1 DEF Level, Separate
    <3> QED BY <3>1, NowGiven
  <2> QED BY <1>1, <1>5, <2>1 DEF Held, Busy
<1>13. Laden(a)'
  <2>1. ASSUME NEW k \in Lanes, NEW i \in DOMAIN wire'[a][k]
        PROVE  \/ \E j \in DOMAIN wire[a][k] : wire'[a][k][i] = wire[a][k][j]
               \/ wire'[a][k][i] = OnWire(a)
    <3>1. \/ wire'[a][k] = wire[a][k]
          \/ wire'[a][k] = Append(wire[a][k], OnWire(a))
      BY <1>7 DEF Typed, Socketry
    <3>2. wire[a][k] \in Seq(Message)
      BY DEF Typed, Socketry
    <3>3. ASSUME NEW w \in Seq(Message), NEW m \in Message,
                 NEW n \in DOMAIN Append(w, m)
          PROVE  \/ n \in DOMAIN w /\ Append(w, m)[n] = w[n]
                 \/ Append(w, m)[n] = m
      BY AppendProperties
    <3>4. CASE wire'[a][k] = wire[a][k]
      BY <3>4
    <3>5. CASE wire'[a][k] = Append(wire[a][k], OnWire(a))
      <4>1. i \in DOMAIN Append(wire[a][k], OnWire(a))
        BY <3>5
      <4> QED BY <1>5, <3>2, <3>3, <3>5, <4>1
    <3> QED BY <3>1, <3>4, <3>5
  <2>2. ASSUME NEW m \in Message, m = OnWire(a)
        PROVE  Held(a, m)'
    <3>1. Number(a)' = Number(a)
      BY <1>2, SameNumber
    <3>2. Open(a)' => Open(a)
      BY <1>0, <1>9 DEF Open, Peer
    <3> QED BY <1>2, <1>3, <1>5, <1>12, <2>2, <3>1, <3>2 DEF Held
  <2>3. PICK m \in Message : m = OnWire(a)
    BY <1>5
  <2>4. ASSUME NEW k \in Lanes, NEW i \in DOMAIN wire'[a][k],
               wire'[a][k][i] = OnWire(a)
        PROVE  Held(a, wire[a][k][i])'
    <3>1. wire'[a][k][i] = m /\ Held(a, m)'
      BY <2>2, <2>3, <2>4
    <3> QED BY <3>1 DEF Held
  <2>5. Open(a)' => Open(a)
    BY <1>0, <1>9 DEF Open, Peer
  <2> QED BY <1>3, <2>1, <2>4, <2>5, LadenKept DEF Level
<1>14. TakesTurns(a)'
  <2>1. CASE SendFrame(a)
    <3>1. /\ sock[a] \in {"PUSH", "DEALER", "REQ"}
          /\ \E k \in Lanes : back' = IF sock[a] = "REQ"
                                      THEN [back EXCEPT ![a] = k] ELSE back
      BY <2>1 DEF SendFrame
    <3> QED BY <1>0, <1>3, <3>1 DEF TakesTurns, Typed, Socketry
  <2>2. CASE Respond(a)
    <3>1. /\ sock[a] \in {"REP", "ROUTER"} /\ back' = [back EXCEPT ![a] = None]
      BY <2>2 DEF Respond
    <3> QED BY <1>0, <1>3, <3>1 DEF TakesTurns, Typed, Socketry
  <2> QED BY <2>1, <2>2
<1>15. ~BothListen(a) /\ sock[a] # "PULL"
  BY <1>1 DEF Level, Calm
<1> QED BY <1>3, <1>7, <1>10, <1>11, <1>13, <1>14, <1>15, LevelKept

(* A message that is taken is of the measurement that is run. *)
LEMMA TakesOwn ==
  ASSUME Typed, Paired, IsFiniteSet(Slots), NEW a \in Actors,
         NEW p \in Actors, p = Peer(a), Peer(p) = a, p # a,
         Level(a), Level(p), NEW l \in Lanes, TakeFrame(a, l)
  PROVE  /\ phase[a] = "recv" /\ sock[a] # "PUSH" /\ wire[p][l] # <<>>
         /\ Got(a) \in Slots /\ ~BothListen(a)
         /\ Head(wire[p][l]) \in Message
         /\ Head(wire[p][l]).of = Number(a)
         /\ Head(wire[p][l]).size = Next1(a).size
<1> DEFINE w == wire[p][l]  got == Head(w)  n == Number(a)
<1>1. phase[a] = "recv" /\ w # <<>>
  BY DEF TakeFrame
<1>2. /\ w \in Seq(Message) /\ cmds[a] # <<>> /\ Next1(a).kind \in Measures
      /\ run[a].count \in Nat /\ run[a].count < Next1(a).n
  BY <1>1 DEF Typed, Socketry, Machine, Runs, Level, Beat
<1>3. /\ sock[a] # "PUSH" /\ sock[p] # "PULL" /\ ~BothListen(a) /\ Open(p)
  <2>1. sock[a] # "PUSH" /\ phase[a] # "ended"
    BY <1>1 DEF Level, Beat
  <2>2. sock[p] # "PULL" /\ ~BothListen(p)
    BY <1>1 DEF Level, Calm
  <2> QED BY <2>1, <2>2 DEF Open, BothListen
<1>4. Got(a) = <<n, run[a].count>> /\ Got(a) \in Slots
  <2>1. Got(a) = <<n, run[a].count>>
    BY <1>1 DEF Got
  <2> QED BY <1>2, <2>1, SlotNow
<1>5. got \in Message /\ got = w[1] /\ Held(p, got)
  <2>1. 1 \in DOMAIN w /\ got = w[1] /\ got \in Message
    BY <1>1, <1>2
  <2> QED BY <2>1 DEF Level, Laden
<1> HIDE DEF w, got
<1>6. Sooner(Got(a), Sent(p))
  <2> SUFFICES ASSUME ~Sooner(Got(a), Sent(p)) PROVE FALSE
    OBVIOUS
  <2>1. Cardinality(Load(wire[p])) \in Nat /\ Cardinality(Load(wire[p])) # 0
    BY <1>1, LoadTypes DEF w
  <2>2. Cardinality(Load(wire[p])) + Passed(Slots, Got(a))
          <= Passed(Slots, Sent(p))
    BY <1>3 DEF Level, Balanced
  <2>3. /\ Got(a) \in Places /\ Sent(p) \in Places /\ Slots \in SUBSET Places
    BY PositionTypes
  <2>4. \A x \in Slots : Sooner(x, Sent(p)) => Sooner(x, Got(a))
    BY <2>3, SoonerIsTotal
  <2>5. /\ Passed(Slots, Sent(p)) \in Nat /\ Passed(Slots, Got(a)) \in Nat
        /\ Passed(Slots, Sent(p)) <= Passed(Slots, Got(a))
    BY <2>4, PassedWithin
  <2> QED BY <2>1, <2>2, <2>5
<1>7. n \in DOMAIN given[a] /\ given[a][n] = Next1(a) /\ n \in Nat
  BY <1>2, NowGiven
<1>8. n \in DOMAIN given[p]
  <2>1. /\ Number(p) \in Nat /\ Number(p) <= Len(given[p]) + 1
        /\ given[p] \in Seq(Command)
    BY NowGiven DEF Typed, Pipework
  <2>2. n <= Len(given[p])
    <3> SUFFICES ASSUME Len(given[p]) < n PROVE FALSE
      BY <1>7, <2>1
    <3>1. <<n, run[a].count>> \in Places /\ Beat(p)
      BY <1>2, <1>7 DEF Places, Level
    <3>2. ~Sooner(<<n, run[a].count>>, Sent(p))
      BY <3>1, NotYet
    <3> QED BY <1>4, <1>6, <3>2
  <2>3. n # 0
    BY <1>7 DEF Typed, Pipework
  <2> QED BY <1>7, <2>1, <2>2, <2>3
<1>9. /\ given[p][n].kind \in Measures /\ given[p][n].size = Next1(a).size
  <2>1. Match(given[a][n], given[p][n])
    BY <1>7, <1>8 DEF Paired
  <2> QED BY <1>2, <1>7, <2>1, MatchKinds
<1>10. got.of = n
  <2>1. /\ got.of \in DOMAIN given[p] /\ given[p][got.of].kind \in Measures
        /\ got.of \in Nat /\ ~(got.of < n)
    BY <1>3, <1>5, <1>8, <1>9 DEF Held, Message
  <2>2. ~(n < got.of)
    <3> SUFFICES ASSUME n < got.of PROVE FALSE
      OBVIOUS
    <3>1. n < Number(a)
      BY <1>8, <1>9, <2>1 DEF Level, Separate
    <3> QED BY <1>7, <3>1
  <2> QED BY <1>7, <2>1, <2>2
<1>11. got.size = Next1(a).size
  BY <1>5, <1>9, <1>10 DEF Held
<1> QED BY <1>1, <1>3, <1>4, <1>5, <1>10, <1>11 DEF w, got

(* So it is counted, whatever its number. *)
LEMMA RecvLevel ==
  ASSUME Typed, Paired, IsFiniteSet(Slots), NEW a \in Actors,
         NEW p \in Actors, p = Peer(a), Peer(p) = a, p # a,
         Level(a), Level(p), PerfStep(a), RecvFrame(a)
  PROVE  Level(a)' /\ Level(p)'
<1>0. Spared(p) /\ sock' = sock
  BY SparedStep DEF PerfStep
<1>1. PICK l \in Lanes :
        /\ TakeFrame(a, l)
        /\ Advance(a, Receives(a, Head(wire[p][l])))
        /\ cmds' = cmds /\ given' = given
  BY DEF RecvFrame
<1> DEFINE got == Head(wire[p][l])  r == Receives(a, got)
<1>2. /\ phase[a] = "recv" /\ sock[a] # "PUSH" /\ wire[p][l] # <<>>
      /\ Got(a) \in Slots /\ ~BothListen(a) /\ got \in Message
  BY <1>1, TakesOwn
<1>3. cmds[a] # <<>> /\ run[a] \in Runs /\ Beat(a)
  BY <1>2 DEF Typed, Machine, Level
<1> HIDE DEF got
<1>4. r \in Runs
  BY <1>2, <1>3, RunTypes DEF Typed
<1>5. r.count = run[a].count /\ r.watch = run[a].watch
  BY <1>3 DEF Receives, Runs
<1>6. Advance(a, r)
  BY <1>1 DEF got
<1> HIDE DEF r
<1>7. /\ Beat(a)' /\ phase'[a] \in Busy
      /\ sock[a] \in {"REQ", "DEALER"} => phase'[a] # "recv"
      /\ sock[a] \in {"REP", "ROUTER"} => phase'[a] = "send"
  BY <1>0, <1>1, <1>2, <1>3, <1>4, <1>5, <1>6, Round
<1>8. /\ Got(a)' = NextPlace(Got(a))
      /\ sock[a] # "PULL" => Sent(a)' = Sent(a)
  BY <1>0, <1>1, <1>2, <1>3, <1>4, <1>5, <1>6, RoundPlaces
<1>9. /\ wire'[a] = wire[a]
      /\ wire'[p] = [wire[p] EXCEPT ![l] = Tail(@)]
      /\ back' = [back EXCEPT ![a] =
           IF sock[a] \in {"ROUTER", "REP"} THEN l
           ELSE IF sock[a] = "REQ" THEN None ELSE @]
  BY <1>1 DEF TakeFrame, Typed, Socketry
<1>10. /\ phase'[p] = phase[p] /\ Sent(p)' = Sent(p) /\ Got(p)' = Got(p)
       /\ phase'[a] # "ended" /\ phase[a] # "ended"
       /\ Sent(a) \in Places /\ Got(p) \in Places
  BY <1>0, <1>2, <1>7, SpareEnd, PositionTypes DEF Spared, Busy
<1>11. /\ Cardinality(Load(wire'[p])) \in Nat
       /\ Cardinality(Load(wire[p])) = Cardinality(Load(wire'[p])) + 1
  BY <1>2, <1>9, LoadTaken
<1>12. Balanced(p)'
  BY <1>0, <1>1, <1>2, <1>8, <1>10, <1>11, BalancedTaken DEF Level
<1>13. Open(a)' => Open(a)
  BY <1>0, <1>10 DEF Open, Peer
<1>14. Balanced(a)'
  <2>1. Open(a) => sock[a] # "PULL"
    BY DEF Open
  <2>2. Open(a) => /\ Sent(a)' \in Places /\ Got(p)' \in Places
                   /\ Empty(Slots, Sent(a), Sent(a)')
                   /\ Empty(Slots, Got(p), Got(p)')
    BY <1>8, <1>10, <2>1 DEF Empty
  <2>3. /\ Cardinality(Load(wire'[a])) \in Nat
        /\ Cardinality(Load(wire'[a])) <= Cardinality(Load(wire[a]))
    BY <1>9, LoadTypes
  <2> QED BY <1>0, <1>1, <1>13, <2>2, <2>3, BalancedKept DEF Level
<1>15. Laden(a)'
  BY <1>7, <1>9, <1>13, LadenKept DEF Level
<1>16. TakesTurns(a)'
  BY <1>0, <1>7, <1>9 DEF TakesTurns, Typed, Socketry
<1>17. sock[a] = "PULL" => \A k \in Lanes : wire'[a][k] = <<>>
  BY <1>9 DEF Level, Calm
<1>18. \A k \in Lanes :
         \/ wire'[p][k] = wire[p][k]
         \/ wire[p][k] # <<>> /\ wire'[p][k] = Tail(wire[p][k])
  BY <1>2, <1>9 DEF Typed, Socketry
<1> QED BY <1>2, <1>7, <1>12, <1>14, <1>15, <1>16, <1>17, <1>18, LevelKept

(* And no message has another size than the one that is waited for. *)
LEMMA NoMismatchApart ==
  ASSUME Typed, Paired, IsFiniteSet(Slots), NEW a \in Actors,
         NEW p \in Actors, p = Peer(a), Peer(p) = a, p # a,
         Level(a), Level(p)
  PROVE  ~SizeMismatch(a)
BY TakesOwn DEF SizeMismatch

(* Every step of an actor. *)
LEMMA LevelStep ==
  ASSUME Typed, Paired, IsFiniteSet(Slots), NEW a \in Actors,
         \A b \in Actors : Level(b), PerfStep(a)
  PROVE  IsFiniteSet(Slots)' /\ \A b \in Actors : Level(b)'
<1>1. PICK p \in Actors : p = Peer(a) /\ Peer(p) = a /\ p # a
  BY Peers
<1>2. Level(a) /\ Level(p)
  OBVIOUS
<1>3. Level(a)' /\ Level(p)'
  <2>1. CASE Join(a) \/ Note(a) \/ Begin(a) \/ Signal(a)
    BY <1>1, <1>2, <2>1, RestLevel
  <2>2. CASE Term(a)
    BY <1>1, <1>2, <2>2, TermLevel
  <2>3. CASE SendFrame(a) \/ Respond(a)
    BY <1>1, <1>2, <2>3, SendLevel
  <2>4. CASE RecvFrame(a)
    BY <1>1, <1>2, <2>4, RecvLevel
  <2>5. /\ ~Unknown(a) /\ ~ResetFails(a) /\ ~SendOutOfTurn(a)
        /\ ~SendToNobody(a) /\ ~SizeMismatch(a) /\ ~RecvOutOfTurn(a)
        /\ ~SignalUnstarted(a)
    BY <1>1, <1>2, NoMisuse, NoMismatchApart DEF Level
  <2> QED BY <2>1, <2>2, <2>3, <2>4, <2>5 DEF PerfStep
<1>4. Slots' = Slots
  BY PipeStep DEF Typed, Slots
<1> QED BY <1>1, <1>3, <1>4, Ends

-----------------------------------------------------------------------------

(* A measurement that is given while the owners keep apart comes when both ends
   have run those before it. *)
LEMMA Caught ==
  ASSUME Typed, Paired, NEW a \in Actors, NEW c \in Command, Gives(a, c),
         apart', c.kind \in Measures, NEW i \in DOMAIN given[a],
         given[a][i].kind \in Measures, NEW q \in Actors
  PROVE  i < Number(q)
<1> SUFFICES ASSUME ~(i < Number(q)) PROVE FALSE
  OBVIOUS
<1> DEFINE g == given[a]  h == given[q]  d == Done(q)
           M == {k \in DOMAIN g : g[k].kind \in Measures}
           D == {k \in 1..d : h[k].kind \in Measures}
<1>1. /\ g \in Seq(Command) /\ h \in Seq(Command) /\ d \in Nat /\ d <= Len(h)
      /\ d < i /\ i \in 1..Len(g)
  <2>1. d \in Nat /\ d <= Len(h) /\ Number(q) = d + 1
    BY DoneGiven DEF Number
  <2>2. g \in Seq(Command) /\ h \in Seq(Command)
    BY DEF Typed, Pipework
  <2> QED BY <2>1, <2>2
<1>2. Measured(SubSeq(h, 1, d)) >= Measured(g)
  BY DEF Gives, Submit
<1>3. Measured(g) = Cardinality(M)
  BY DEF Measured
<1>4. Measured(SubSeq(h, 1, d)) = Cardinality(D)
  <2> DEFINE s == SubSeq(h, 1, d)
  <2>1. \A k \in 1..d : k \in 1..Len(h)
    BY <1>1
  <2>2. DOMAIN s = 1..d /\ \A k \in 1..d : s[k] = h[k]
    BY <1>1, <2>1, SubSeqProperties
  <2> HIDE DEF s
  <2>3. {k \in DOMAIN s : s[k].kind \in Measures} = D
    BY <2>2
  <2> QED BY <2>3 DEF Measured, s
<1>5. i \in M /\ M \in SUBSET (1..Len(g)) /\ Len(g) \in Nat
  BY <1>1
<1>6. D \in SUBSET (M \ {i})
  <2> SUFFICES ASSUME NEW k \in D PROVE k \in M /\ k # i
    OBVIOUS
  <2>1. k \in DOMAIN g /\ k \in DOMAIN h /\ k # i
    BY <1>1
  <2>2. CASE q = a
    BY <2>1, <2>2
  <2>3. CASE q # a
    <3>1. Match(h[k], g[k])
      BY <2>1, <2>3 DEF Paired
    <3> QED BY <2>1, <3>1, MatchKinds
  <2> QED BY <2>1, <2>2, <2>3
<1> HIDE DEF M, D, g, h, d
<1>7. IsFiniteSet(M)
  <2>1. IsFiniteSet(1..Len(g))
    BY <1>5, FS_Interval
  <2> QED BY <1>5, <2>1, FS_Subset
<1>8. /\ IsFiniteSet(M \ {i}) /\ Cardinality(M \ {i}) = Cardinality(M) - 1
  BY <1>5, <1>7, FS_RemoveElement
<1>9. IsFiniteSet(D) /\ Cardinality(D) <= Cardinality(M \ {i})
  BY <1>6, <1>8, FS_Subset
<1>10. Cardinality(M) \in Nat /\ Cardinality(D) \in Nat
  BY <1>7, <1>9, FS_CardinalityType
<1> QED BY <1>2, <1>3, <1>4, <1>8, <1>9, <1>10

(* It adds as many places as it has messages. *)
LEMMA SlotsFinite ==
  ASSUME Typed, NEW a \in Actors, NEW c \in Command, Gives(a, c), sock' = sock,
         Paired', IsFiniteSet(Slots)
  PROVE  IsFiniteSet(Slots')
<1> DEFINE g == given[a]  n == Len(g) + 1  Box == {n} \X (0..c.n)
<1>1. /\ given'[a] = Append(g, c) /\ g \in Seq(Command)
      /\ \A b \in Actors : b # a => given'[b] = given[b]
      /\ c.n \in Nat /\ Len(g) \in Nat
  <2>1. c.n \in Nat
    BY DEF Command
  <2> QED BY <2>1, PairedBefore
<1>2. IsFiniteSet(Box)
  <2>1. IsFiniteSet({n})
    BY FS_Singleton
  <2>2. 0 \in Int /\ c.n \in Int
    BY <1>1
  <2>3. IsFiniteSet(0..c.n)
    BY <2>2, FS_Interval
  <2> QED BY <2>1, <2>3, FS_Product
<1>3. IsFiniteSet(Slots \cup Box)
  BY <1>2, FS_Union
<1>4. Slots' \in SUBSET (Slots \cup Box)
  <2> SUFFICES ASSUME NEW x \in Slots', x \notin Slots PROVE x \in Box
    OBVIOUS
  <2>1. x \in Places
    BY DEF Slots
  <2>2. PICK d \in Actors :
          /\ x[1] \in DOMAIN given'[d]
          /\ given'[d][x[1]].kind \in Measures /\ x[2] < given'[d][x[1]].n
    BY DEF Slots
  <2>3. ~(/\ x[1] \in DOMAIN given[d]
          /\ given[d][x[1]].kind \in Measures /\ x[2] < given[d][x[1]].n)
    BY <2>1 DEF Slots
  <2>4. d = a
    BY <1>1, <2>2, <2>3
  <2>5. /\ DOMAIN given'[a] = 1..(Len(g) + 1) /\ given'[a][Len(g) + 1] = c
        /\ \A i \in 1..Len(g) : i \in DOMAIN g /\ given'[a][i] = g[i]
    BY <1>1, AppendProperties
  <2>6. x[1] \in 1..(Len(g) + 1) /\ x[1] \notin 1..Len(g)
    BY <2>2, <2>3, <2>4, <2>5
  <2>7. x[1] = n
    BY <1>1, <2>6
  <2>8. x[2] \in Nat /\ x[2] < c.n /\ x = <<x[1], x[2]>>
    BY <2>1, <2>2, <2>4, <2>5, <2>7 DEF Places
  <2> QED BY <1>1, <2>7, <2>8
<1> QED BY <1>3, <1>4, FS_Subset

(* The owner gives a command: if it is a measurement, all that its end has sent
   has been taken. *)
LEMMA GiveLevel ==
  ASSUME Typed, NEW a \in Actors, NEW c \in Command, Gives(a, c), sock' = sock,
         Paired', apart', IsFiniteSet(Slots), \A b \in Actors : Level(b),
         NEW b \in Actors
  PROVE  Level(b)'
<1>0. PICK q \in Actors : q = Peer(b) /\ Peer(q) = b /\ q # b
  BY Peers
<1>1. /\ Paired /\ given'[a] = Append(given[a], c) /\ given[a] \in Seq(Command)
      /\ \A d \in Actors : d # a => given'[d] = given[d]
      /\ \A d \in Actors : \A i \in DOMAIN given[d] :
           i \in DOMAIN given'[d] /\ given'[d][i] = given[d][i]
  BY PairedBefore
<1>2. /\ Slots \subseteq Slots' /\ Slots' \in SUBSET Places
      /\ \A x \in Slots' \ Slots : \A d \in Actors : Len(given[d]) < x[1]
  BY NewSlots
<1>3. /\ UNCHANGED <<sock, answers, phase, run, back, wire>>
      /\ cmds' = [cmds EXCEPT ![a] = Append(@, c)]
  BY DEF Gives, Submit
<1>4. ASSUME NEW d \in Actors
      PROVE  /\ Sent(d)' = Sent(d) /\ Got(d)' = Got(d)
             /\ Number(d)' = Number(d) /\ Number(d) \in Nat
  <2>1. Number(d)' = Number(d) /\ Number(d) \in Nat
    BY GiveNumber, NowGiven
  <2> QED BY <1>3, <2>1 DEF Sent, Got
<1>5. ASSUME NEW d \in Actors, NEW x \in Slots' \ Slots
      PROVE  ~Sooner(x, Sent(d)) /\ ~Sooner(x, Got(d))
  <2>1. x \in Places /\ Len(given[d]) < x[1] /\ Beat(d)
    BY <1>2 DEF Level
  <2> QED BY <2>1, NotYet
<1>6. (Open(b)' <=> Open(b)) /\ Peer(b)' = q
  BY <1>0, <1>3 DEF Open, Peer
<1>7. \A i \in DOMAIN given'[b] :
        i \in DOMAIN given[b] \/ (b = a /\ given'[b][i] = c)
  <2>1. CASE b = a
    <3>1. \A i \in DOMAIN Append(given[a], c) :
            i \in DOMAIN given[a] \/ Append(given[a], c)[i] = c
      BY <1>1, AppendProperties
    <3> QED BY <1>1, <2>1, <3>1
  <2>2. CASE b # a
    BY <1>1, <2>2
  <2> QED BY <2>1, <2>2
<1>8. Balanced(b)'
  <2> SUFFICES ASSUME Open(b)'
               PROVE  (Cardinality(Load(wire[b])) + Passed(Slots, Got(Peer(b)))
                         <= Passed(Slots, Sent(b)))'
    BY DEF Balanced
  <2>1. /\ Passed(Slots', Sent(b)) = Passed(Slots, Sent(b))
        /\ Passed(Slots', Got(q)) = Passed(Slots, Got(q))
    BY <1>2, <1>5, PassedGrows
  <2>2. Cardinality(Load(wire[b])) + Passed(Slots, Got(q))
          <= Passed(Slots, Sent(b))
    BY <1>0, <1>6 DEF Level, Balanced
  <2>3. /\ Passed(Slots, Sent(b))' = Passed(Slots', Sent(b))
        /\ Passed(Slots, Got(Peer(b)))' = Passed(Slots', Got(q))
        /\ Cardinality(Load(wire[b]))' = Cardinality(Load(wire[b]))
    BY <1>3, <1>4, <1>6 DEF Passed, Load
  <2> QED BY <2>1, <2>2, <2>3
<1>9. ASSUME b = a, c.kind \in Measures, Open(b), NEW l \in Lanes
      PROVE  wire[b][l] = <<>>
  <2>1. \A x \in Slots : Sooner(x, Sent(b)) => Sooner(x, Got(q))
    <3> SUFFICES ASSUME NEW x \in Slots, Sooner(x, Sent(b))
                 PROVE  Sooner(x, Got(q))
      OBVIOUS
    <3>1. x \in Places /\ x = <<x[1], x[2]>> /\ x[1] \in Nat /\ x[2] \in Nat
      BY <1>2 DEF Places
    <3>2. ~(Len(given[b]) < x[1])
      BY <3>1, NotYet DEF Level
    <3>3. x[1] # 0
      BY DEF Slots, Typed, Pipework
    <3>4. x[1] \in DOMAIN given[b]
      <4>1. Len(given[b]) \in Nat /\ DOMAIN given[b] = 1..Len(given[b])
        BY DEF Typed, Pipework
      <4> QED BY <3>1, <3>2, <3>3, <4>1
    <3>5. given[b][x[1]].kind \in Measures
      BY <1>1, <3>1, <3>4, SlotOf
    <3>6. x[1] < Number(q)
      BY <1>1, <1>9, <3>4, <3>5, Caught
    <3> QED BY <3>6 DEF Sooner, Got
  <2>2. /\ Passed(Slots, Sent(b)) \in Nat /\ Passed(Slots, Got(q)) \in Nat
        /\ Passed(Slots, Sent(b)) <= Passed(Slots, Got(q))
    BY <2>1, PassedWithin
  <2>3. Cardinality(Load(wire[b])) + Passed(Slots, Got(q))
          <= Passed(Slots, Sent(b))
    BY <1>0, <1>9 DEF Level, Balanced
  <2>4. /\ Cardinality(Load(wire[b])) \in Nat
        /\ wire[b][l] # <<>> => Cardinality(Load(wire[b])) # 0
    BY LoadTypes
  <2> QED BY <2>2, <2>3, <2>4
<1>10. Laden(b)'
  <2> SUFFICES ASSUME NEW l \in Lanes, NEW i \in DOMAIN wire[b][l]
               PROVE  Held(b, wire[b][l][i])'
    BY <1>3 DEF Laden
  <2> DEFINE m == wire[b][l][i]
  <2>1. Held(b, m) /\ m = wire'[b][l][i]
    BY <1>3 DEF Level, Laden
  <2>2. ~(b = a /\ c.kind \in Measures /\ Open(b))
    BY <1>9
  <2> HIDE DEF m
  <2>3. m.of \in DOMAIN given'[b] /\ given'[b][m.of] = given[b][m.of]
    <3>1. m.of \in DOMAIN given[b]
      BY <2>1 DEF Held
    <3> QED BY <1>1, <3>1
  <2>4. Open(b) => \A j \in DOMAIN given'[b] :
                     m.of < j => given'[b][j].kind \notin Measures
    BY <1>1, <1>7, <2>1, <2>2 DEF Held
  <2>5. m.of < Number(b)' \/ (m.of = Number(b)' /\ phase'[b] \in Busy)
    BY <1>3, <1>4, <2>1 DEF Held
  <2> QED BY <1>6, <2>1, <2>3, <2>4, <2>5 DEF Held
<1>11. Separate(b)'
  <2> SUFFICES ASSUME NEW i \in DOMAIN given'[b], NEW j \in DOMAIN given'[b],
                      i < j, given'[b][i].kind \in Measures,
                      given'[b][j].kind \in Measures, NEW d \in Actors
               PROVE  i < Number(d)
    BY <1>4 DEF Separate
  <2>1. i \in DOMAIN given[b]
    <3>1. CASE b = a
      <4>1. /\ DOMAIN given'[a] = 1..(Len(given[a]) + 1)
            /\ Len(given[a]) \in Nat /\ DOMAIN given[a] = 1..Len(given[a])
        BY <1>1, AppendProperties
      <4> QED BY <3>1, <4>1
    <3>2. CASE b # a
      BY <1>1, <3>2
    <3> QED BY <3>1, <3>2
  <2>2. given[b][i].kind \in Measures
    BY <1>1, <2>1
  <2>3. CASE j \in DOMAIN given[b]
    BY <1>1, <2>1, <2>2, <2>3 DEF Level, Separate
  <2>4. CASE b = a /\ given'[b][j] = c
    BY <1>1, <2>1, <2>2, <2>4, Caught
  <2> QED BY <1>7, <2>3, <2>4
<1>12. Beat(b)' /\ TakesTurns(b)' /\ Calm(b)'
  <2>1. phase[b] \in {"send", "recv", "signal"} => Next1(b)' = Next1(b)
    <3> SUFFICES ASSUME phase[b] \in {"send", "recv", "signal"}
                 PROVE  Next1(b)' = Next1(b)
      OBVIOUS
    <3>1. cmds[b] # <<>> /\ cmds[b] \in Seq(Command)
      BY DEF Typed, Machine, Pipework
    <3>2. cmds'[b] = cmds[b] \/ cmds'[b] = Append(cmds[b], c)
      BY <1>3 DEF Typed, Pipework
    <3>3. Head(Append(cmds[b], c)) = Head(cmds[b])
      BY <3>1, AppendProperties
    <3> QED BY <3>2, <3>3 DEF Next1
  <2> QED BY <1>0, <1>3, <1>6, <2>1
          DEF Level, Beat, TakesTurns, Calm, BothListen
<1> QED BY <1>8, <1>10, <1>11, <1>12 DEF Level

(* The invariant holds first ... *)
LEMMA LevelInit == Init => Levelled
<1> SUFFICES ASSUME Init, NEW b \in Actors
             PROVE  IsFiniteSet(Slots) /\ Level(b)
  BY DEF Levelled
<1>1. PICK q \in Actors : q = Peer(b)
  BY Peers
<1>2. Slots = {} /\ Sent(b) = <<1, 0>> /\ Got(q) = <<1, 0>>
  BY DEF Init, Slots, Sent, Got, Number, Done, NoRun
<1>3. \A l \in Lanes : wire[b][l] = <<>>
  BY DEF Init
<1>4. IsFiniteSet({}) /\ Cardinality({}) = 0
  BY FS_EmptySet
<1>5. Balanced(b)
  <2>1. Load(wire[b]) = {}
    BY <1>3 DEF Load
  <2>2. \A s : Passed({}, s) = 0
    BY <1>4 DEF Passed
  <2> QED BY <1>1, <1>2, <1>4, <2>1, <2>2 DEF Balanced
<1>6. Laden(b) /\ Separate(b)
  BY <1>3 DEF Init, Laden, Separate
<1>7. Beat(b) /\ TakesTurns(b) /\ Calm(b)
  BY <1>3 DEF Init, Beat, TakesTurns, Calm, NoRun
<1> QED BY <1>2, <1>4, <1>5, <1>6, <1>7 DEF Level

(* ... is kept by steps that are none ... *)
LEMMA LevelStill ==
  ASSUME UNCHANGED vars, NEW b \in Actors, Level(b)
  PROVE  Level(b)'
<1>1. Slots' = Slots /\ Next1(b)' = Next1(b)
  BY DEF vars, Slots, Next1
<1>2. ASSUME NEW d \in Actors
      PROVE  Sent(d)' = Sent(d) /\ Got(d)' = Got(d) /\ Number(d)' = Number(d)
  BY SameNumber DEF vars, Sent, Got
<1>3. PICK q \in Actors : q = Peer(b)
  BY Peers
<1>4. Peer(b)' = q /\ (Open(b)' <=> Open(b))
  BY <1>3 DEF vars, Peer, Open
<1>5. Beat(b)' /\ TakesTurns(b)' /\ Calm(b)'
  BY <1>1, <1>3, <1>4
  DEF vars, Level, Beat, TakesTurns, Calm, BothListen
<1>6. Balanced(b)'
  <2>1. /\ Passed(Slots, Sent(b))' = Passed(Slots, Sent(b))
        /\ Passed(Slots, Got(Peer(b)))' = Passed(Slots, Got(q))
        /\ Cardinality(Load(wire[b]))' = Cardinality(Load(wire[b]))
    BY <1>1, <1>2, <1>4 DEF vars, Passed, Load
  <2> QED BY <1>3, <1>4, <2>1 DEF Level, Balanced
<1>7. Separate(b)'
  BY <1>2 DEF vars, Level, Separate
<1>8. Laden(b)'
  <2>1. ASSUME NEW m
        PROVE  Held(b, m) => Held(b, m)'
    BY <1>2, <1>4 DEF vars, Held
  <2> QED BY <2>1 DEF vars, Level, Laden
<1> QED BY <1>5, <1>6, <1>7, <1>8 DEF Level

(* Only an owner goes on too soon. *)
LEMMA ApartKept == ASSUME NEW a \in Actors, PerfStep(a) PROVE apart' = apart
<1>1. Join(a) \/ Note(a) \/ Term(a) \/ Begin(a) \/ Signal(a) => apart' = apart
  BY DEF Join, Note, Term, Begin, Signal
<1>2. SendFrame(a) \/ Respond(a) \/ SendOutOfTurn(a) => apart' = apart
  BY DEF SendFrame, Respond, SendOutOfTurn, AfterSend, Abort
<1>3. RecvFrame(a) \/ SizeMismatch(a) => apart' = apart
  BY DEF RecvFrame, SizeMismatch, Abort
<1>4. \/ Unknown(a) \/ ResetFails(a) \/ SendToNobody(a) \/ RecvOutOfTurn(a)
      \/ SignalUnstarted(a)
      => apart' = apart
  BY DEF Unknown, ResetFails, SendToNobody, RecvOutOfTurn, SignalUnstarted,
     Abort
<1> QED BY <1>1, <1>2, <1>3, <1>4 DEF PerfStep

(* ... and by every step ... *)
LEMMA LevelNext == Typed /\ Levelled /\ [AnyNext]_vars => Levelled'
<1> SUFFICES ASSUME Typed, Levelled, [AnyNext]_vars, Paired', apart'
             PROVE  IsFiniteSet(Slots)' /\ \A b \in Actors : Level(b)'
  BY DEF Levelled
<1>1. ASSUME NEW a \in Actors, NEW c \in Command,
             Gives(a, c), sock' = sock
      PROVE  IsFiniteSet(Slots)' /\ \A b \in Actors : Level(b)'
  <2>2. Paired
    BY <1>1, PairedBefore
  <2>3. apart
    BY <1>1 DEF Gives, Submit
  <2>4. IsFiniteSet(Slots) /\ \A b \in Actors : Level(b)
    BY <2>2, <2>3 DEF Levelled
  <2>5. IsFiniteSet(Slots')
    BY <1>1, <2>4, SlotsFinite
  <2>6. \A b \in Actors : Level(b)'
    BY <1>1, <2>4, GiveLevel
  <2> QED BY <2>5, <2>6
<1>2. ASSUME given' = given, sock' = sock, apart' = apart
      PROVE  Paired /\ IsFiniteSet(Slots) /\ \A b \in Actors : Level(b)
  <2>1. Paired
    BY <1>2 DEF Paired, Proper, Fits
  <2> QED BY <1>2, <2>1 DEF Levelled
<1>3. ASSUME NEW a \in Actors, PerfStep(a)
      PROVE  IsFiniteSet(Slots)' /\ \A b \in Actors : Level(b)'
  <2>1. given' = given /\ sock' = sock /\ apart' = apart
    BY <1>3, PipeStep, ApartKept DEF Typed
  <2> QED BY <1>2, <1>3, <2>1, LevelStep
<1>4. CASE UNCHANGED vars
  <2>1. given' = given /\ sock' = sock /\ apart' = apart /\ Slots' = Slots
    BY <1>4 DEF vars, Slots
  <2> QED BY <1>2, <1>4, <2>1, LevelStill
<1> QED BY <1>1, <1>3, <1>4 DEF AnyNext

(* ... and so always. *)
LEMMA LevelledAlways == AnySpec => [](Typed /\ Levelled)
BY TypesAlways, LevelInit, LevelNext, PTL DEF AnySpec

-----------------------------------------------------------------------------

(* Either every message has been counted off, or the one at the head of a
   connection is held for a measurement still to come. *)
LEMMA AnyDrains == AnySpec => []WireDrained
<1>1. ASSUME Typed, Levelled, Paired, apart,
             \A a, b \in Actors : Done(a) = Done(b),
             \A a \in Actors : phase[a] = "idle",
             NEW a \in Actors, NEW l \in Lanes
      PROVE  wire[a][l] = <<>>
  <2>1. PICK p \in Actors : p = Peer(a) /\ Peer(p) = a /\ p # a
    BY Peers
  <2>2. Level(a) /\ Level(p)
    BY <1>1 DEF Levelled
  <2>3. /\ Sent(a) = <<Number(a), 0>> /\ Got(p) = <<Number(a), 0>>
        /\ Number(a) \in Nat /\ Number(p) = Number(a)
    BY <1>1, <2>2, NowGiven DEF Sent, Got, Number, Level, Beat
  <2>4. CASE Open(a)
    <3>1. Cardinality(Load(wire[a])) + Passed(Slots, Got(p))
            <= Passed(Slots, Got(p))
      BY <2>1, <2>2, <2>3, <2>4 DEF Level, Balanced
    <3>2. Passed(Slots, Got(p)) \in Nat
      BY <1>1, PassedWithin DEF Levelled
    <3>3. /\ Cardinality(Load(wire[a])) \in Nat
          /\ wire[a][l] # <<>> => Cardinality(Load(wire[a])) # 0
      BY <1>1, LoadTypes
    <3> QED BY <3>1, <3>2, <3>3
  <2>5. CASE ~Open(a)
    <3> SUFFICES ASSUME wire[a][l] # <<>> PROVE FALSE
      OBVIOUS
    <3>1. wire[a][l] \in Seq(Message) /\ 1 \in DOMAIN wire[a][l]
      BY <1>1 DEF Typed, Socketry
    <3>2. PICK m \in Message : m = wire[a][l][1]
      BY <3>1
    <3>3. Held(a, m)
      BY <2>2, <3>1, <3>2 DEF Level, Laden
    <3>4. m.of < Number(a)
      BY <1>1, <3>3 DEF Held, Busy
    <3>5. sock[a] # "PULL"
      BY <2>2 DEF Level, Calm
    <3>6. sock[p] = "PUSH"
      BY <1>1, <2>1, <2>5, <3>5 DEF Open
    <3> QED BY <1>1, <2>1, <2>3, <3>3, <3>4, <3>5, <3>6, HeardOrNone DEF Held
  <2> QED BY <2>4, <2>5
<1>2. Typed /\ Levelled => (apart => WireDrained)
  BY <1>1 DEF WireDrained
<1>3. Typed /\ Tallied => (OneLane => WireDrained)
  BY DrainsTheOne
<1>4. Typed /\ Tallied /\ Levelled => WireDrained
  BY <1>2, <1>3 DEF WireDrained
<1> QED BY <1>4, TalliedAlways, LevelledAlways, PTL

(* When both ends have run as many of the matching commands their connections
   are empty, over any number of them. *)
THEOREM PairedDrainsTheWire == Spec => []WireDrained
BY SpecIsAny, AnyDrains

-----------------------------------------------------------------------------

(* The answers due for no commands, and for one more. *)
LEMMA DueNext ==
  ASSUME NEW g, NEW j \in Nat
  PROVE  /\ IsFiniteSet({i \in 1..j : IsAnswered(g[i])})
         /\ Due(g, j) \in Nat
         /\ Due(g, 0) = 0
         /\ Due(g, j + 1) =
              IF IsAnswered(g[j + 1]) THEN Due(g, j) + 1 ELSE Due(g, j)
<1> DEFINE D == {i \in 1..j : IsAnswered(g[i])}
           E == {i \in 1..(j + 1) : IsAnswered(g[i])}
<1>1. IsFiniteSet(D)
  <2>1. IsFiniteSet(1..j)
    BY FS_Interval
  <2>2. D \in SUBSET (1..j)
    OBVIOUS
  <2> HIDE DEF D
  <2> QED BY <2>1, <2>2, FS_Subset
<1>2. j + 1 \notin D
  OBVIOUS
<1>3. E = IF IsAnswered(g[j + 1]) THEN D \cup {j + 1} ELSE D
  <2>1. 1..(j + 1) = (1..j) \cup {j + 1}
    OBVIOUS
  <2> QED BY <2>1
<1>4. Due(g, 0) = 0
  <2>1. {i \in 1..0 : IsAnswered(g[i])} = {}
    OBVIOUS
  <2> QED BY <2>1, FS_EmptySet DEF Due
<1>5. Due(g, j) = Cardinality(D) /\ Due(g, j + 1) = Cardinality(E)
  BY DEF Due
<1> HIDE DEF D, E
<1>6. Cardinality(D) \in Nat
  BY <1>1, FS_CardinalityType
<1>7. Cardinality(D \cup {j + 1}) = Cardinality(D) + 1
  BY <1>1, <1>2, FS_AddElement
<1> QED BY <1>1, <1>3, <1>4, <1>5, <1>6, <1>7 DEF D

(* The answer to a command is among those due. *)
LEMMA DueWithin ==
  ASSUME NEW g, NEW j \in Nat, NEW k \in 1..j, IsAnswered(g[k])
  PROVE  Due(g, k) \in 1..Due(g, j)
<1> DEFINE D == {i \in 1..j : IsAnswered(g[i])}
           E == {i \in 1..k : IsAnswered(g[i])}
<1>1. IsFiniteSet(D) /\ Due(g, j) \in Nat /\ Due(g, k) \in Nat
  <2>1. k \in Nat
    OBVIOUS
  <2> QED BY <2>1, DueNext, Zenon
<1>2. E \in SUBSET D
  OBVIOUS
<1>3. Due(g, j) = Cardinality(D) /\ Due(g, k) = Cardinality(E)
  BY DEF Due
<1>4. k \in E
  OBVIOUS
<1> HIDE DEF D, E
<1>5. IsFiniteSet(E) /\ Cardinality(E) <= Cardinality(D)
  BY <1>1, <1>2, FS_Subset
<1>6. Cardinality(E) # 0
  BY <1>4, <1>5, FS_EmptySet
<1> QED BY <1>1, <1>3, <1>5, <1>6

(* Commands that are given later are nobody's answer before. *)
LEMMA DueSame ==
  ASSUME NEW g, NEW h, NEW j \in Nat, \A i \in 1..j : g[i] = h[i]
  PROVE  Due(g, j) = Due(h, j)
<1>1. {i \in 1..j : IsAnswered(g[i])} = {i \in 1..j : IsAnswered(h[i])}
  OBVIOUS
<1> QED BY <1>1 DEF Due

(* One message more. *)
LEMMA OneMore == \A c, s \in Nat : (c + 1) * s = c * s + s /\ 0 * s = 0
OBVIOUS

-----------------------------------------------------------------------------

(* The messages whose data total has: those counted, and the one of this round
   when its data was added before it is counted. *)
Counted(a) ==
  IF \/ phase[a] = "recv" /\ Next1(a).kind = "RLAT"
     \/ phase[a] = "send" /\ Next1(a).kind \in Echos
  THEN run[a].count + 1 ELSE run[a].count

(* A measurement that is at its end has the whole of its data. *)
Whole(a) ==
  /\ phase[a] \in {"send", "recv"} =>
       /\ run[a].count < Next1(a).n
       /\ run[a].total = Counted(a) * Next1(a).size
  /\ phase[a] = "recv" => Next1(a).kind \notin Sends
  /\ phase[a] = "send" => Next1(a).kind \notin Recvs
  /\ phase[a] = "signal" => run[a].total = Next1(a).n * Next1(a).size

(* A BIND or CONNECT has no data. *)
Plain(a) ==
  \A i \in DOMAIN given[a] : given[a][i].kind \in Joins =>
    given[a][i].n = 0 /\ given[a][i].size = 0

(* One answer per command that is answered, with the whole of its data. *)
Accounted(a) ==
  /\ Len(answers[a]) = Due(given[a], Done(a))
  /\ \A j \in 1..Done(a) : IsAnswered(given[a][j]) =>
       LET answer == answers[a][Due(given[a], j)] IN
       /\ answer.kind = given[a][j].kind
       /\ answer.total = given[a][j].n * given[a][j].size

-----------------------------------------------------------------------------

(* The round of the loop adds to total what it counts. *)
LEMMA RoundWhole ==
  ASSUME Typed, NEW a \in Actors, phase[a] \in {"send", "recv"}, Whole(a),
         NEW r \in Runs, Advance(a, r), r.count = run[a].count,
         r.total = IF (phase[a] = "send" <=>
                         Next1(a).kind \in Sends \cup {"RLAT"})
                   THEN run[a].total + Next1(a).size ELSE run[a].total,
         cmds' = cmds
  PROVE  Whole(a)'
<1> DEFINE k == r.count + 1
           s == [r EXCEPT !.count = k, !.out = k,
                          !.watch = @ \/ (k = 1 /\ ~LoopEnds(a, k))]
           kind == Next1(a).kind
           n == Next1(a).n
           size == Next1(a).size
           total == run[a].total
<1>1. /\ kind \in Measures /\ n \in Nat /\ size \in Nat /\ r.count \in Nat
      /\ k \in Nat /\ r.count < n /\ total \in Nat
      /\ r.count = run[a].count
  <2>1. cmds[a] # <<>> /\ kind \in Measures
    BY DEF Typed, Machine
  <2>2. n \in Nat /\ size \in Nat
    BY <2>1, Current DEF Typed
  <2>3. run[a] \in Runs /\ r.count \in Nat /\ run[a].total \in Nat
    BY DEF Typed, Machine, Runs
  <2> QED BY <2>1, <2>2, <2>3 DEF Whole
<1>2. total = Counted(a) * size
  BY DEF Whole
<1>3. k * size = r.count * size + size
  <2> HIDE DEF size
  <2> QED BY <1>1, OneMore
<1>4. Next1(a)' = Next1(a)
  BY DEF Next1
<1>5. CASE ~RoundEnds(a, k)
  <2>1. /\ run'[a] = r
        /\ phase'[a] = IF phase[a] = "send" THEN "recv" ELSE "send"
    BY <1>5 DEF Advance, Typed, Machine
  <2>2. /\ phase[a] = First(kind) /\ kind \in Yodels \cup Echos
    BY <1>1, <1>5 DEF RoundEnds, Measures
  <2>3. Counted(a) = r.count
    BY <1>1, <2>2 DEF Counted, First, Yodels, Echos, Recvs
  <2>4. r.total = Counted(a)' * size
    <3>1. CASE kind = "RLAT"
      <4>1. r.total = total + size /\ Counted(a)' = k
        BY <1>4, <2>1, <2>2, <3>1 DEF Counted, First, Echos, Recvs, Sends
      <4> QED BY <1>2, <1>3, <2>3, <4>1
    <3>2. CASE kind = "YODEL"
      <4>1. r.total = total /\ Counted(a)' = r.count
        BY <1>4, <2>1, <2>2, <3>2 DEF Counted, First, Echos, Recvs, Sends
      <4> QED BY <1>2, <2>3, <4>1
    <3>3. CASE kind \in Echos
      <4>1. r.total = total + size /\ Counted(a)' = k
        BY <1>4, <2>1, <2>2, <3>3 DEF Counted, First, Echos, Recvs, Sends
      <4> QED BY <1>2, <1>3, <2>3, <4>1
    <3> QED BY <2>2, <3>1, <3>2, <3>3 DEF Yodels
  <2>5. kind \notin Sends /\ kind \notin Recvs
    BY <2>2 DEF Sends, Recvs, Yodels, Echos
  <2> HIDE DEF k, kind, n, size, total
  <2>6. phase'[a] # "signal"
    BY <2>1
  <2> QED BY <1>1, <1>4, <2>1, <2>4, <2>5, <2>6 DEF Whole, kind, n, size
<1>6. CASE RoundEnds(a, k)
  <2>1. run' = [run EXCEPT ![a] = s]
    BY <1>6 DEF Advance
  <2>2. phase' = [phase EXCEPT ![a] =
             IF LoopEnds(a, k) THEN "signal" ELSE First(kind)]
    BY <1>6 DEF Advance
  <2>3. s.count = k /\ s.total = r.total
    BY DEF Runs
  <2>4. phase[a] # First(kind) \/ kind \in Sends \cup Recvs
    BY <1>6 DEF RoundEnds
  <2> HIDE DEF s
  <2>5. /\ run'[a].count = k /\ run'[a].total = r.total
        /\ phase'[a] = IF k = n THEN "signal" ELSE First(kind)
    BY <2>1, <2>2, <2>3 DEF Typed, Machine, LoopEnds
  <2>6. r.total = k * size
    <3>1. CASE kind \in Sends \cup Recvs
      <4>1. r.total = total + size /\ Counted(a) = r.count
        BY <3>1 DEF Counted, Whole, Sends, Recvs, Echos
      <4> QED BY <1>2, <1>3, <4>1
    <3>2. CASE kind = "RLAT"
      <4>1. r.total = total /\ Counted(a) = k
        BY <2>4, <3>2 DEF Counted, First, Echos, Recvs, Sends
      <4> QED BY <1>2, <4>1
    <3>3. CASE kind = "YODEL"
      <4>1. r.total = total + size /\ Counted(a) = r.count
        BY <2>4, <3>3 DEF Counted, First, Echos, Recvs, Sends
      <4> QED BY <1>2, <1>3, <4>1
    <3>4. CASE kind \in Echos
      <4>1. r.total = total /\ Counted(a) = k
        BY <2>4, <3>4 DEF Counted, First, Echos, Recvs, Sends
      <4> QED BY <1>2, <4>1
    <3> QED BY <1>1, <3>1, <3>2, <3>3, <3>4 DEF Measures, Yodels
  <2>7. phase'[a] = First(kind) => Counted(a)' = k
    BY <1>4, <2>5 DEF Counted, First, Echos, Recvs
  <2>8. /\ First(kind) = "recv" => kind \notin Sends
        /\ First(kind) = "send" => kind \notin Recvs
        /\ First(kind) \in {"send", "recv"}
    BY DEF First, Sends, Recvs, Echos
  <2>9. k # n => k < n
    BY <1>1
  <2> HIDE DEF k, kind, n, size, total
  <2> QED BY <1>4, <2>5, <2>6, <2>7, <2>8, <2>9 DEF Whole, kind, n, size
<1> QED BY <1>5, <1>6

(* Every step of the actor. *)
LEMMA WholeStep ==
  ASSUME Typed, NEW a \in Actors, PerfStep(a), Whole(a)
  PROVE  Whole(a)'
<1>1. CASE phase'[a] \in {"idle", "ended", "aborted"}
  BY <1>1 DEF Whole
<1>2. CASE Begin(a)
  <2> DEFINE n == Next1(a).n  size == Next1(a).size  kind == Next1(a).kind
  <2>1. /\ cmds[a] # <<>> /\ Next1(a)' = Next1(a)
        /\ run'[a].total = 0 /\ run'[a].count = 0
        /\ phase'[a] = IF n = 0 THEN "signal" ELSE First(kind)
    <3>1. cmds[a] # <<>> /\ cmds' = cmds /\ run'[a] = Reset(a)
      BY <1>2 DEF Begin, Ready, Typed, Machine
    <3>2. phase'[a] = IF n = 0 THEN "signal" ELSE First(kind)
      BY <1>2 DEF Begin, Typed, Machine
    <3> QED BY <3>1, <3>2 DEF Reset, NoRun, Next1
  <2>2. n \in Nat /\ size \in Nat
    BY <2>1, Current DEF Typed
  <2>3. /\ First(kind) = "recv" => kind \notin Sends /\ kind # "RLAT"
        /\ First(kind) = "send" => kind \notin Recvs /\ kind \notin Echos
    BY DEF First, Sends, Recvs, Echos
  <2> HIDE DEF n, size, kind
  <2>4. phase'[a] \in {"send", "recv"} => Counted(a)' = 0 /\ 0 < n
    BY <2>1, <2>2, <2>3 DEF Counted, kind
  <2>5. 0 * size = 0
    BY <2>2, OneMore
  <2>6. phase'[a] = "signal" => n = 0
    BY <2>1 DEF First
  <2>7. phase'[a] \in {"send", "recv"} => phase'[a] = First(kind)
    BY <2>1
  <2>8. /\ phase'[a] \in {"send", "recv"} =>
             run'[a].count < n /\ run'[a].total = Counted(a)' * size
        /\ phase'[a] = "signal" => run'[a].total = n * size
        /\ phase'[a] = "recv" => kind \notin Sends
        /\ phase'[a] = "send" => kind \notin Recvs
    BY <2>1, <2>3, <2>4, <2>5, <2>6, <2>7
  <2> QED BY <2>1, <2>8 DEF Whole, n, size, kind
<1>3. CASE /\ SendFrame(a) \/ Respond(a) \/ SendOutOfTurn(a)
           /\ phase'[a] # "aborted"
  <2> DEFINE r == Sender(a)
  <2>1. phase[a] = "send" /\ cmds' = cmds
    BY <1>3 DEF SendFrame, Respond, SendOutOfTurn, AfterSend, Abort
  <2>2. Advance(a, r)
    <3>1. ~Abort(a)
      BY <1>3 DEF Abort, Typed, Machine
    <3> QED BY <1>3, <3>1 DEF SendFrame, Respond, SendOutOfTurn, AfterSend
  <2>3. run[a] \in Runs /\ cmds[a] # <<>>
    BY <2>1 DEF Typed, Machine
  <2>4. r \in Runs
    BY <2>3, RunTypes DEF Typed
  <2>5. /\ r.count = run[a].count
        /\ r.total = IF Next1(a).kind \in Sends \cup {"RLAT"}
                     THEN run[a].total + Next1(a).size ELSE run[a].total
    BY <2>3 DEF Sender, Runs
  <2> HIDE DEF r
  <2> QED BY <2>1, <2>2, <2>4, <2>5, RoundWhole
<1>4. CASE RecvFrame(a)
  <2>1. PICK p \in Actors : p = Peer(a)
    BY Peers
  <2>2. PICK l \in Lanes :
          /\ TakeFrame(a, l) /\ cmds' = cmds
          /\ Head(wire[p][l]).size = Next1(a).size
          /\ Advance(a, Receives(a, Head(wire[p][l])))
    BY <1>4, <2>1 DEF RecvFrame
  <2> DEFINE got == Head(wire[p][l])  r == Receives(a, got)
  <2>3. phase[a] = "recv" /\ wire[p][l] # <<>> /\ wire[p][l] \in Seq(Message)
    BY <2>1, <2>2 DEF TakeFrame, Typed, Socketry
  <2>4. got \in Message /\ got.size = Next1(a).size /\ Advance(a, r)
    BY <2>2, <2>3
  <2> HIDE DEF got
  <2>5. run[a] \in Runs /\ cmds[a] # <<>> /\ Next1(a).kind \notin Sends
    BY <2>3 DEF Typed, Machine, Whole
  <2>6. r \in Runs
    BY <2>4, <2>5, RunTypes DEF Typed
  <2>7. /\ r.count = run[a].count
        /\ r.total = IF Next1(a).kind = "RLAT"
                     THEN run[a].total ELSE run[a].total + Next1(a).size
    BY <2>4, <2>5 DEF Receives, Runs
  <2> HIDE DEF r
  <2>8. r.total = IF (phase[a] = "send" <=>
                        Next1(a).kind \in Sends \cup {"RLAT"})
                  THEN run[a].total + Next1(a).size ELSE run[a].total
    BY <2>3, <2>5, <2>7
  <2> QED BY <2>2, <2>3, <2>4, <2>6, <2>7, <2>8, RoundWhole
<1>5. CASE Join(a) \/ Note(a) \/ Term(a) \/ Signal(a)
  BY <1>1, <1>5 DEF Join, Note, Term, Signal, Finish, Typed, Machine
<1>6. CASE Unknown(a) \/ ResetFails(a) \/ SendToNobody(a) \/ RecvOutOfTurn(a)
           \/ SignalUnstarted(a)
  BY <1>1, <1>6 DEF Unknown, ResetFails, SendToNobody, RecvOutOfTurn,
     SignalUnstarted, Abort, Typed, Machine
<1>7. CASE SizeMismatch(a)
  <2>1. Abort(a) \/ Finish(a)
    BY <1>7 DEF SizeMismatch
  <2> QED BY <1>1, <2>1 DEF Abort, Finish, Typed, Machine
<1> QED BY <1>1, <1>2, <1>3, <1>4, <1>5, <1>6, <1>7 DEF PerfStep

(* The command an actor has taken is the next of those its owner gave. *)
LEMMA DoneNext ==
  ASSUME Typed, NEW a \in Actors, given' = given,
         cmds[a] # <<>>, cmds' = [cmds EXCEPT ![a] = Tail(@)]
  PROVE  /\ Done(a) \in Nat /\ Done(a)' = Done(a) + 1
         /\ given[a][Done(a) + 1] = Next1(a)
<1> DEFINE d == Done(a)
<1>1. Number(a) = d + 1 /\ Number(a) \in Nat /\ Number(a)' = Done(a)' + 1
  BY NowGiven DEF Number
<1>2. Number(a)' = Number(a) + 1
  BY NextNumber
<1>3. Done(a) \in Int /\ Done(a)' \in Int
  <2>1. /\ Len(given[a]) \in Nat /\ Len(cmds[a]) \in Nat
        /\ Len(Tail(cmds[a])) \in Nat
    BY HeadTailProperties DEF Typed, Pipework
  <2>2. cmds'[a] = Tail(cmds[a])
    BY DEF Typed, Pipework
  <2> QED BY <2>1, <2>2 DEF Done
<1>4. d \in Nat
  <2>1. Len(cmds[a]) <= Len(given[a])
    BY BacklogOf DEF Typed
  <2> QED BY <1>3, <2>1 DEF Done, Typed, Pipework
<1> QED BY <1>1, <1>2, <1>3, <1>4, NowGiven

(* A command is taken, and answered if it is one that is answered. *)
LEMMA AccountsTaken ==
  ASSUME Typed, NEW a \in Actors, Accounted(a), given' = given,
         cmds[a] # <<>>, cmds' = [cmds EXCEPT ![a] = Tail(@)],
         IF IsAnswered(Next1(a))
         THEN \E x \in Answer :
                /\ answers' = [answers EXCEPT ![a] = Append(@, x)]
                /\ x.kind = Next1(a).kind
                /\ x.total = Next1(a).n * Next1(a).size
         ELSE answers' = answers
  PROVE  Accounted(a)'
<1> DEFINE d == Done(a)  g == given[a]  c == Next1(a)  u == answers[a]
           v == answers'[a]
           Right(y, k) == y.kind = g[k].kind /\ y.total = g[k].n * g[k].size
<1>1. d \in Nat /\ Done(a)' = d + 1 /\ g[d + 1] = c
  BY DoneNext
<1>2. /\ u \in Seq(Answer) /\ Len(u) = Due(g, d)
      /\ \A j \in 1..d : IsAnswered(g[j]) => Right(u[Due(g, j)], j)
  BY DEF Accounted, Typed, Pipework
<1>3. /\ Due(g, d) \in Nat
      /\ Due(g, d + 1) = IF IsAnswered(c) THEN Due(g, d) + 1 ELSE Due(g, d)
  BY <1>1, DueNext
<1>4. \A j \in 1..d : IsAnswered(g[j]) => Due(g, j) \in 1..Len(u)
  BY <1>1, <1>2, DueWithin
<1>5. /\ Len(v) = Due(g, d + 1) /\ \A i \in 1..Len(u) : v[i] = u[i]
      /\ IsAnswered(c) => Right(v[Len(u) + 1], d + 1)
  <2>1. CASE ~IsAnswered(c)
    BY <1>2, <1>3, <2>1
  <2>2. CASE IsAnswered(c)
    <3>1. PICK x \in Answer : /\ answers' = [answers EXCEPT ![a] = Append(@, x)]
                              /\ x.kind = c.kind /\ x.total = c.n * c.size
      BY <2>2
    <3>2. v = Append(u, x)
      BY <3>1 DEF Typed, Pipework
    <3>3. Right(x, d + 1)
      BY <1>1, <3>1
    <3> HIDE DEF u, v, c, Right
    <3>4. /\ Len(v) = Len(u) + 1 /\ v[Len(u) + 1] = x
          /\ \A i \in 1..Len(u) : v[i] = u[i]
      BY <1>2, <3>2, AppendProperties
    <3> QED BY <1>2, <1>3, <2>2, <3>3, <3>4
  <2> QED BY <2>1, <2>2
<1> HIDE DEF u, v, Right
<1>6. ASSUME NEW j \in 1..(d + 1), IsAnswered(g[j])
      PROVE  Right(v[Due(g, j)], j)
  <2>1. CASE j \in 1..d
    BY <1>2, <1>4, <1>5, <1>6, <2>1
  <2>2. CASE j = d + 1
    <3>1. IsAnswered(c)
      BY <1>1, <1>6, <2>2
    <3>2. Due(g, j) = Len(u) + 1
      BY <1>2, <1>3, <2>2, <3>1
    <3> QED BY <1>5, <2>2, <3>1, <3>2
  <2>3. j \in 1..d \/ j = d + 1
    BY <1>1
  <2> QED BY <2>1, <2>2, <2>3
<1> QED BY <1>1, <1>5, <1>6 DEF Accounted, Right, v

(* No data for a BIND or CONNECT that is run. *)
LEMMA PlainNow ==
  ASSUME Typed, NEW a \in Actors, Plain(a), cmds[a] # <<>>,
         Next1(a).kind \in Joins
  PROVE  Next1(a).n * Next1(a).size = 0
<1>1. Next1(a).n = 0 /\ Next1(a).size = 0
  BY NowGiven DEF Plain
<1> QED BY <1>1

(* An actor that takes no message of a size it does not wait for has answered
   whatever it has run. *)
LEMMA AccountedStep ==
  ASSUME Typed, NEW a \in Actors, PerfStep(a), Whole(a), Plain(a),
         Accounted(a), ~SizeMismatch(a)
  PROVE  Accounted(a)'
<1>0. given' = given
  BY PipeStep DEF Typed
<1>1. CASE Join(a)
  <2> DEFINE x == [kind |-> Next1(a).kind, noos |-> 0, total |-> 0,
                   from |-> {}]
  <2>1. /\ cmds[a] # <<>> /\ Next1(a).kind \in Joins
        /\ cmds' = [cmds EXCEPT ![a] = Tail(@)]
        /\ answers' = [answers EXCEPT ![a] = Append(@, x)]
    BY <1>1 DEF Join, Ready, Finish, Tell, NoRun
  <2>2. x \in Answer /\ x.kind = Next1(a).kind /\ x.total = 0
    BY <2>1 DEF Answer
  <2> HIDE DEF x
  <2>3. IsAnswered(Next1(a)) /\ x.total = Next1(a).n * Next1(a).size
    BY <2>1, <2>2, PlainNow DEF IsAnswered
  <2> QED BY <1>0, <2>1, <2>2, <2>3, AccountsTaken
<1>2. CASE Signal(a)
  <2> DEFINE x == [kind |-> Next1(a).kind, noos |-> run[a].noos,
                   total |-> run[a].total, from |-> run[a].from]
  <2>1. /\ phase[a] = "signal"
        /\ cmds' = [cmds EXCEPT ![a] = Tail(@)]
        /\ answers' = [answers EXCEPT ![a] = Append(@, x)]
    BY <1>2 DEF Signal, Finish, Tell
  <2>2. cmds[a] # <<>> /\ Next1(a).kind \in Measures /\ run[a] \in Runs
    BY <2>1 DEF Typed, Machine
  <2>3. /\ x \in Answer /\ x.kind = Next1(a).kind
        /\ x.total = Next1(a).n * Next1(a).size
    BY <2>1, <2>2 DEF Answer, Runs, Whole
  <2> HIDE DEF x
  <2>4. IsAnswered(Next1(a))
    BY <2>2 DEF IsAnswered
  <2> QED BY <1>0, <2>1, <2>2, <2>3, <2>4, AccountsTaken
<1>3. CASE Note(a) \/ Term(a)
  <2>1. /\ cmds[a] # <<>> /\ Next1(a).kind \in Notes \cup {"$TERM"}
        /\ cmds' = [cmds EXCEPT ![a] = Tail(@)] /\ answers' = answers
    BY <1>3 DEF Note, Term, Ready, Finish
  <2>2. ~IsAnswered(Next1(a))
    BY <2>1 DEF IsAnswered, Notes, Joins, Measures, Sends, Recvs, Yodels, Echos
  <2> QED BY <1>0, <2>1, <2>2, AccountsTaken
<1>4. CASE cmds' = cmds /\ answers' = answers
  BY <1>0, <1>4 DEF Accounted, Done
<1>5. Begin(a) \/ RecvFrame(a) => cmds' = cmds /\ answers' = answers
  BY DEF Begin, RecvFrame
<1>6. SendFrame(a) \/ Respond(a) \/ SendOutOfTurn(a) =>
        cmds' = cmds /\ answers' = answers
  BY DEF SendFrame, Respond, SendOutOfTurn, AfterSend, Abort
<1>7. \/ Unknown(a) \/ ResetFails(a) \/ SendToNobody(a) \/ RecvOutOfTurn(a)
      \/ SignalUnstarted(a)
      => cmds' = cmds /\ answers' = answers
  BY DEF Unknown, ResetFails, SendToNobody, RecvOutOfTurn, SignalUnstarted,
     Abort
<1> QED BY <1>1, <1>2, <1>3, <1>4, <1>5, <1>6, <1>7 DEF PerfStep

(* A step of the other end. *)
LEMMA AccountsSpared ==
  ASSUME NEW p \in Actors, Spared(p), given' = given
  PROVE  /\ Whole(p) => Whole(p)'
         /\ Accounted(p) => Accounted(p)'
<1>1. Next1(p)' = Next1(p)
  BY DEF Spared, Next1
<1>2. Whole(p) => Whole(p)'
  BY <1>1 DEF Spared, Whole, Counted
<1>3. Accounted(p) => Accounted(p)'
  BY DEF Spared, Accounted, Done
<1> QED BY <1>2, <1>3

(* An actor has done no more when its owner has given it a command. *)
LEMMA DoneGives ==
  ASSUME Typed, NEW a \in Actors, NEW c \in Command, Gives(a, c),
         NEW b \in Actors
  PROVE  Done(b)' = Done(b)
<1>1. /\ given'[b] = given[b] \/ given'[b] = Append(given[b], c)
      /\ cmds'[b] = cmds[b] \/ cmds'[b] = Append(cmds[b], c)
      /\ given[b] \in Seq(Command) /\ cmds[b] \in Seq(Command)
  BY DEF Gives, Submit, Typed, Pipework
<1>2. Number(b)' = Number(b)
  BY GiveNumber
<1>3. Len(cmds'[b]) \in Nat /\ Len(given'[b]) \in Nat
  <2>1. /\ Len(given[b]) \in Nat /\ Len(Append(given[b], c)) \in Nat
        /\ Len(cmds[b]) \in Nat /\ Len(Append(cmds[b], c)) \in Nat
    BY <1>1, AppendProperties
  <2> QED BY <1>1, <2>1
<1>4. Done(b)' \in Int
  BY <1>3 DEF Done
<1>5. Done(b) \in Nat
  BY DoneGiven
<1> QED BY <1>2, <1>4, <1>5 DEF Number

(* The owner's step. *)
LEMMA AccountsGiven ==
  ASSUME Typed, NEW a \in Actors, NEW c \in Command,
         Gives(a, c), sock' = sock, NEW b \in Actors
  PROVE  /\ Whole(b) => Whole(b)'
         /\ Plain(b) => Plain(b)'
         /\ Accounted(b) => Accounted(b)'
<1>1. /\ given[b] \in Seq(Command) /\ cmds[b] \in Seq(Command)
      /\ c.kind \in Joins => c.n = 0 /\ c.size = 0
  BY DEF Gives, Typed, Pipework, JoinCommands
<1>2. /\ answers' = answers /\ phase' = phase /\ run' = run
      /\ given'[b] = given[b] \/ given'[b] = Append(given[b], c)
      /\ cmds'[b] = cmds[b] \/ cmds'[b] = Append(cmds[b], c)
  BY DEF Gives, Submit, Typed, Pipework
<1>3. \A i \in 1..Len(given[b]) : given'[b][i] = given[b][i]
  BY <1>1, <1>2, AppendProperties
<1>4. Whole(b) => Whole(b)'
  <2>1. phase[b] \in {"send", "recv", "signal"} => Next1(b)' = Next1(b)
    <3>1. cmds[b] # <<>> => Head(Append(cmds[b], c)) = Head(cmds[b])
      BY <1>1, AppendProperties
    <3> QED BY <1>2, <3>1 DEF Next1, Typed, Machine
  <2> QED BY <1>2, <2>1 DEF Whole, Counted
<1>5. Plain(b) => Plain(b)'
  <2> SUFFICES ASSUME Plain(b), NEW i \in DOMAIN given'[b],
                      given'[b][i].kind \in Joins
               PROVE  given'[b][i].n = 0 /\ given'[b][i].size = 0
    BY DEF Plain
  <2>1. i \in DOMAIN given[b] \/ given'[b][i] = c
    BY <1>1, <1>2, AppendProperties
  <2>2. i \in DOMAIN given[b] => given'[b][i] = given[b][i]
    BY <1>1, <1>3
  <2> QED BY <1>1, <2>1, <2>2 DEF Plain
<1>6. Accounted(b) => Accounted(b)'
  <2> DEFINE d == Done(b)  g == given[b]  h == given'[b]
  <2>1. d \in Nat /\ d <= Len(g) /\ Len(g) \in Nat
    BY <1>1, DoneGiven
  <2>2. Done(b)' = d
    BY DoneGives
  <2>3. \A i \in 1..d : h[i] = g[i]
    BY <1>3, <2>1
  <2> HIDE DEF d, g, h
  <2>4. \A j \in 0..d : Due(h, j) = Due(g, j)
    <3> TAKE j \in 0..d
    <3>1. \A i \in 1..j : h[i] = g[i]
      BY <2>1, <2>3
    <3> QED BY <2>1, <3>1, DueSame
  <2>5. Due(h, d) = Due(g, d) /\ \A j \in 1..d : Due(h, j) = Due(g, j)
    BY <2>1, <2>4
  <2> QED BY <1>2, <2>2, <2>3, <2>5 DEF Accounted, d, g, h
<1> QED BY <1>4, <1>5, <1>6

(* What is kept whatever the owners ask for ... *)
Weighed == \A b \in Actors : Whole(b) /\ Plain(b)

LEMMA WeighedInit == Init => Weighed
BY DEF Init, Weighed, Whole, Plain

LEMMA WeighedNext == Typed /\ Weighed /\ [AnyNext]_vars => Weighed'
<1> SUFFICES ASSUME Typed, Weighed, [AnyNext]_vars, NEW b \in Actors
             PROVE  Whole(b)' /\ Plain(b)'
  BY DEF Weighed
<1>1. ASSUME NEW a \in Actors, NEW c \in Command,
             Gives(a, c), sock' = sock
      PROVE  Whole(b)' /\ Plain(b)'
  BY <1>1, AccountsGiven DEF Weighed
<1>2. ASSUME NEW a \in Actors, PerfStep(a)
      PROVE  Whole(b)' /\ Plain(b)'
  <2>1. given' = given
    BY <1>2, PipeStep DEF Typed
  <2>2. CASE b = a
    BY <1>2, <2>1, <2>2, WholeStep DEF Weighed, Plain
  <2>3. CASE b # a
    BY <1>2, <2>1, <2>3, SparedStep, AccountsSpared DEF Weighed, Plain
  <2> QED BY <2>2, <2>3
<1>3. CASE UNCHANGED vars
  BY <1>3 DEF vars, Weighed, Whole, Plain, Counted, Next1
<1> QED BY <1>1, <1>2, <1>3 DEF AnyNext

(* ... and what is when their commands match. *)
Answering ==
  Paired /\ (OneLane \/ apart) => \A b \in Actors : Accounted(b)

LEMMA AnsweringInit == Init => Answering
<1> SUFFICES ASSUME Init, NEW b \in Actors PROVE Accounted(b)
  BY DEF Answering
<1>1. Done(b) = 0 /\ answers[b] = <<>>
  BY DEF Init, Done
<1>2. Due(given[b], 0) = 0
  BY DueNext
<1> QED BY <1>1, <1>2 DEF Accounted

LEMMA AnsweringNext ==
  Typed /\ Tallied /\ Levelled /\ Weighed /\ Answering /\ [AnyNext]_vars
    => Answering'
<1> SUFFICES ASSUME Typed, Tallied, Levelled, Weighed, Answering, [AnyNext]_vars,
                    Paired', OneLane \/ apart', NEW b \in Actors
             PROVE  Accounted(b)'
  BY DEF Answering, OneLane
<1>1. ASSUME NEW a \in Actors, NEW c \in Command,
             Gives(a, c), sock' = sock
      PROVE  Accounted(b)'
  <2>2. Paired
    BY <1>1, PairedBefore
  <2>3. OneLane \/ apart
    BY <1>1 DEF Gives, Submit
  <2> QED BY <1>1, <2>2, <2>3, AccountsGiven DEF Answering
<1>2. ASSUME given' = given, sock' = sock, apart' = apart
      PROVE  /\ Paired /\ \A d \in Actors : Accounted(d)
             /\ \/ \A d \in Actors : Sound(d)
                \/ IsFiniteSet(Slots) /\ \A d \in Actors : Level(d)
  <2>1. Paired
    BY <1>2 DEF Paired, Proper, Fits
  <2> QED BY <1>2, <2>1 DEF Answering, Tallied, Levelled
<1>3. ASSUME NEW a \in Actors, PerfStep(a)
      PROVE  Accounted(b)'
  <2>1. given' = given /\ sock' = sock /\ apart' = apart
    BY <1>3, PipeStep, ApartKept DEF Typed
  <2>2. /\ Paired /\ \A d \in Actors : Accounted(d)
        /\ \/ \A d \in Actors : Sound(d)
           \/ IsFiniteSet(Slots) /\ \A d \in Actors : Level(d)
    BY <1>2, <2>1
  <2>3. CASE b = a
    <3>1. ~SizeMismatch(a)
      BY <2>2, Peers, NoMismatch, NoMismatchApart
    <3> QED BY <1>3, <2>2, <2>3, <3>1, AccountedStep DEF Weighed
  <2>4. CASE b # a
    BY <1>3, <2>1, <2>2, <2>4, SparedStep, AccountsSpared
  <2> QED BY <2>3, <2>4
<1>4. CASE UNCHANGED vars
  <2>1. given' = given /\ sock' = sock /\ apart' = apart /\ Spared(b)
    BY <1>4 DEF vars, Spared, Number, Done
  <2> QED BY <1>2, <2>1, AccountsSpared
<1>5. CASE AnyNext
  BY <1>1, <1>3, <1>5 DEF AnyNext
<1> QED BY <1>4, <1>5

LEMMA AnsweringAlways == AnySpec => [](Tallied /\ Levelled /\ Answering)
<1>1. Typed /\ Tallied /\ Levelled /\ Weighed /\ Answering /\ [AnyNext]_vars
        => Answering'
  BY AnsweringNext
<1> QED BY TypesAlways, TalliedAlways, LevelledAlways, WeighedInit, WeighedNext,
           AnsweringInit, <1>1, PTL DEF AnySpec

(* Each command run has its answer, and nothing is mistaken for another. *)
LEMMA AnyGetAnswers == AnySpec => []PairedMeasuresAnswered
<1>1. ASSUME Tallied, Levelled, Answering, Paired, OneLane \/ apart,
             NEW a \in Actors
      PROVE  phase[a] # "aborted" /\ Accounted(a)
  <2>1. Beat(a)
    BY <1>1 DEF Tallied, Levelled, Sound, Tempo, Level
  <2> QED BY <1>1, <2>1 DEF Beat, Answering
<1>2. Tallied /\ Levelled /\ Answering => PairedMeasuresAnswered
  BY <1>1 DEF PairedMeasuresAnswered, Accounted
<1> QED BY <1>2, AnsweringAlways, PTL

(* The owners of matching commands get from each end one answer per command, in
   order, with the whole of the data counted, and no actor dies: over one
   connection whatever they do when, over several when they wait for both
   answers. *)
THEOREM PairedGetAnswers == Spec => []PairedMeasuresAnswered
BY SpecIsAny, AnyGetAnswers
=============================================================================
