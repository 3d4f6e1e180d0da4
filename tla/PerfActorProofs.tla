-------------------------- MODULE PerfActorProofs --------------------------
(***************************************************************************)
(* Type correctness of PerfActor and its refinement of PerfPipe, for any   *)
(* sockets, connections, high-water mark and commands; last, what the      *)
(* count of messages out of order is good for.                             *)
(*                                                                         *)
(* The types alone are not inductive: OnWire numbers a message with the    *)
(* commands that have been run, which is a natural number because the      *)
(* commands in the pipe are the last of those given (Backlog), and a       *)
(* measurement under way has its command at the head of the pipe, which    *)
(* the owner only adds to at the end (Machine).                            *)
(***************************************************************************)
EXTENDS PerfActor, TLAPS, SequenceTheorems, FiniteSetTheorems

USE ActorConstants

(* There are two ends, and each is the other's peer. *)
LEMMA Peers ==
  \A a \in Actors : Peer(a) \in Actors /\ Peer(a) # a /\ Peer(Peer(a)) = a
BY DEF Peer

(* The proofs are for owners that give any command at any time, until the
   actor has ended: those of PerfActor, and the applications of ZperfApi. *)
Gives(a, c) ==
  /\ c.kind \in Joins => c \in JoinCommands
  /\ phase[a] # "ended"
  /\ Submit(a, c)

AnyNext ==
  \E a \in Actors :
    \/ \E c \in Command : Gives(a, c) /\ UNCHANGED sock
    \/ PerfStep(a)

AnySpec == Init /\ [][AnyNext]_vars

(* What an owner of PerfActor gives is a command. *)
LEMMA OfferTypes ==
  ASSUME NEW t \in Types, NEW c \in Offers[t] \cup JoinCommands
  PROVE  c \in Command /\ (c.kind \in Joins => c \in JoinCommands)
<1>1. CASE c \in Offers[t]
  BY <1>1
<1>2. CASE c \in JoinCommands
  BY <1>2 DEF JoinCommands, Command, Kinds, Joins
<1> QED BY <1>1, <1>2

(* TypeOK in parts. *)
Pipework ==
  /\ sock \in [Actors -> Types]
  /\ cmds \in [Actors -> Seq(Command)]
  /\ answers \in [Actors -> Seq(Answer)]
  /\ given \in [Actors -> Seq(Command)]
  /\ apart \in BOOLEAN

Socketry ==
  /\ joined \in [Actors -> Joins \cup {None}]
  /\ back \in [Actors -> Lanes \cup {None}]
  /\ wire \in [Actors -> [Lanes -> Seq(Message)]]
  /\ \A a \in Actors : \A l \in Lanes : Len(wire[a][l]) <= Hwm

Machine ==
  /\ phase \in [Actors -> Phases]
  /\ run \in [Actors -> Runs]
  /\ \A a \in Actors : phase[a] \in {"send", "recv", "signal"} =>
       cmds[a] # <<>> /\ Next1(a).kind \in Measures

(* The commands in a pipe are the last that its owner gave. *)
Backlog ==
  \A a \in Actors :
    /\ Len(cmds[a]) <= Len(given[a])
    /\ \A i \in 1..Len(cmds[a]) : cmds[a][i] = given[a][Done(a) + i]

(* TypeOK in parts: the pipes, the sockets and the loop of a measurement. *)
LEMMA TypeParts == TypeOK <=> Pipework /\ Socketry /\ Machine
BY DEF TypeOK, Pipework, Socketry, Machine

(* A pipe after one of its ends has read or written. *)
LEMMA PipeTypes ==
  ASSUME NEW S, NEW f \in [Actors -> Seq(S)], NEW a \in Actors, NEW x \in S
  PROVE  /\ [f EXCEPT ![a] = Append(@, x)] \in [Actors -> Seq(S)]
         /\ f[a] # <<>> => [f EXCEPT ![a] = Tail(@)] \in [Actors -> Seq(S)]
<1>1. Append(f[a], x) \in Seq(S)
  OBVIOUS
<1>2. f[a] # <<>> => Tail(f[a]) \in Seq(S)
  BY HeadTailProperties
<1> QED BY <1>1, <1>2

(* The command of a measurement under way. *)
LEMMA Current ==
  ASSUME Pipework, NEW a \in Actors, cmds[a] # <<>>
  PROVE  /\ Next1(a) \in Command /\ Next1(a).kind \in Kinds
         /\ Next1(a).n \in Nat /\ Next1(a).size \in Nat
<1>1. cmds[a] \in Seq(Command)
  BY DEF Pipework
<1>2. Next1(a) \in Command
  BY <1>1, HeadTailProperties DEF Next1
<1> QED BY <1>2 DEF Command

(* What an actor tells its owner is an answer. *)
LEMMA AnswerTypes ==
  ASSUME Pipework, Socketry, Machine, NEW a \in Actors,
         cmds[a] # <<>>, Next1(a).kind \in Joins \cup Measures,
         NEW r \in Runs, Tell(a, r)
  PROVE  answers' \in [Actors -> Seq(Answer)]
<1> DEFINE x == [kind |-> Next1(a).kind, noos |-> r.noos, total |-> r.total,
                 from |-> r.from]
<1>1. x \in Answer
  BY DEF Runs, Answer
<1>2. answers' = [answers EXCEPT ![a] = Append(@, x)]
  BY DEF Tell
<1> HIDE DEF x
<1> QED BY <1>1, <1>2, PipeTypes DEF Pipework

(* s_reset leaves a run. *)
LEMMA NoRunType == NoRun \in Runs
BY DEF NoRun, Runs

(* The round of a measurement that r describes goes on, or the next begins. *)
LEMMA AdvanceTypes ==
  ASSUME Pipework, Machine, NEW a \in Actors, phase[a] \in {"send", "recv"},
         NEW r \in Runs, Advance(a, r)
  PROVE  /\ run' \in [Actors -> Runs]
         /\ phase' = [phase EXCEPT ![a] = phase'[a]]
         /\ phase'[a] \in {"send", "recv", "signal"}
<1> DEFINE k == r.count + 1
           s == [r EXCEPT !.count = k, !.out = k,
                          !.watch = @ \/ (k = 1 /\ ~LoopEnds(a, k))]
<1>1. k \in Nat /\ s \in Runs
  <2>1. r.count \in Nat /\ r.watch \in BOOLEAN
    BY DEF Runs
  <2>2. (r.watch \/ (k = 1 /\ ~LoopEnds(a, k))) \in BOOLEAN
    OBVIOUS
  <2>3. k \in Nat
    BY <2>1
  <2> HIDE DEF k
  <2> QED BY <2>2, <2>3 DEF Runs
<1>2. First(Next1(a).kind) \in {"send", "recv", "signal"}
  BY DEF First
<1>3. CASE ~RoundEnds(a, k)
  BY <1>3 DEF Advance, Machine, Phases
<1>4. CASE RoundEnds(a, k)
  <2>1. /\ run' = [run EXCEPT ![a] = s]
        /\ phase' = [phase EXCEPT ![a] =
             IF LoopEnds(a, k) THEN "signal" ELSE First(Next1(a).kind)]
    BY <1>4 DEF Advance
  <2> HIDE DEF s, k
  <2> QED BY <1>1, <1>2, <2>1 DEF Machine
<1> QED BY <1>3, <1>4

(* The fields a measurement keeps stay a run as it sends and receives, and what
   it sends is a message. *)
LEMMA RunTypes ==
  ASSUME Pipework, Socketry, Machine, Backlog, NEW a \in Actors,
         cmds[a] # <<>>
  PROVE  /\ Sender(a) \in Runs /\ Reset(a) \in Runs
         /\ \A got \in Message : Receives(a, got) \in Runs
         /\ run[a].out \in Nat => OnWire(a) \in Message
<1>1. run[a] \in Runs
  BY DEF Machine
<1>2. Next1(a).size \in Nat
  BY Current
<1>3. Sender(a) \in Runs
  <2> DEFINE total == IF Next1(a).kind \in Sends \cup {"RLAT"}
                      THEN run[a].total + Next1(a).size ELSE run[a].total
  <2>1. total \in Nat
    BY <1>1, <1>2 DEF Runs
  <2>2. Sender(a) = [run[a] EXCEPT !.total = total]
    BY DEF Sender
  <2> HIDE DEF total
  <2> QED BY <1>1, <2>1, <2>2 DEF Runs
<1>4. Reset(a) \in Runs
  BY DEF Reset, NoRun, Runs
<1>5. ASSUME NEW got \in Message
      PROVE  Receives(a, got) \in Runs
  <2>1. got.count \in Nat /\ got.size \in Nat /\ got.of \in Nat
    BY DEF Message
  <2> DEFINE noos == IF got.count = run[a].count THEN run[a].noos
                     ELSE run[a].noos + 1
             total == IF Next1(a).kind = "RLAT" THEN run[a].total
                      ELSE run[a].total + got.size
             out == IF Next1(a).kind = "SLAT" THEN got.count ELSE run[a].out
             from == run[a].from \cup {got.of}
  <2>2. /\ noos \in Nat
        /\ total \in Nat
        /\ out \in Nat
    <3>1. run[a].noos \in Nat /\ run[a].total \in Nat /\ run[a].out \in Nat
      BY <1>1 DEF Runs
    <3>2. noos \in Nat
      BY <3>1
    <3>3. total \in Nat
      BY <2>1, <3>1
    <3>4. out \in Nat
      BY <2>1, <3>1
    <3> QED BY <3>2, <3>3, <3>4
  <2>3. from \in SUBSET Nat
    BY <1>1, <2>1 DEF Runs
  <2>4. Receives(a, got) = [run[a] EXCEPT !.noos = noos, !.total = total,
                                          !.out = out, !.from = from]
    BY DEF Receives
  <2> HIDE DEF noos, total, out, from
  <2> QED BY <1>1, <2>2, <2>3, <2>4 DEF Runs
<1>6. run[a].out \in Nat => OnWire(a) \in Message
  <2>1. Done(a) \in Nat
    BY DEF Done, Pipework, Backlog
  <2> QED BY <1>2, <2>1 DEF OnWire, Message
<1> QED BY <1>3, <1>4, <1>5, <1>6

(* A step of one actor leaves the machine of the other as it is. *)
LEMMA MachineStep ==
  ASSUME Machine, NEW a \in Actors, NEW p \in Phases,
         phase' = [phase EXCEPT ![a] = p], run' \in [Actors -> Runs],
         \A b \in Actors : b # a => cmds'[b] = cmds[b],
         p \in {"send", "recv", "signal"} => cmds'[a] = cmds[a],
         p \in {"send", "recv", "signal"} =>
           cmds[a] # <<>> /\ Next1(a).kind \in Measures
  PROVE  Machine'
<1>1. phase' \in [Actors -> Phases]
  BY DEF Machine
<1>2. ASSUME NEW b \in Actors, phase'[b] \in {"send", "recv", "signal"}
      PROVE  cmds'[b] # <<>> /\ Next1(b)'.kind \in Measures
  <2>1. CASE b = a
    BY <1>2, <2>1 DEF Machine, Next1
  <2>2. CASE b # a
    BY <1>2, <2>2 DEF Machine, Next1
  <2> QED BY <2>1, <2>2
<1> QED BY <1>1, <1>2 DEF Machine

(* perf_actor is ready for the next command. *)
LEMMA FinishTypes ==
  ASSUME Pipework, Machine, NEW a \in Actors, cmds[a] # <<>>, Finish(a),
         run' \in [Actors -> Runs]
  PROVE  cmds' \in [Actors -> Seq(Command)] /\ Machine'
<1>1. cmds' = [cmds EXCEPT ![a] = Tail(@)]
  BY DEF Finish
<1>2. cmds' \in [Actors -> Seq(Command)]
  <2>1. Tail(cmds[a]) \in Seq(Command)
    BY HeadTailProperties DEF Pipework
  <2> QED BY <1>1, <2>1 DEF Pipework
<1>3. \A b \in Actors : b # a => cmds'[b] = cmds[b]
  BY <1>1 DEF Pipework
<1>4. phase' = [phase EXCEPT ![a] = "idle"] /\ "idle" \in Phases
  BY DEF Finish, Phases
<1> QED BY <1>2, <1>3, <1>4, MachineStep

(* The process dies of an assertion. *)
LEMMA AbortTypes ==
  ASSUME Pipework, Machine, NEW a \in Actors, Abort(a),
         run' \in [Actors -> Runs]
  PROVE  Machine'
<1>1. /\ phase' = [phase EXCEPT ![a] = "aborted"] /\ "aborted" \in Phases
      /\ cmds' = cmds
  BY DEF Abort, Phases
<1> QED BY <1>1, MachineStep

(* The loop of a measurement goes on, or comes to its end. *)
LEMMA AdvanceMachine ==
  ASSUME Pipework, Machine, NEW a \in Actors, phase[a] \in {"send", "recv"},
         NEW r \in Runs, Advance(a, r), cmds' = cmds
  PROVE  Machine'
<1>1. /\ run' \in [Actors -> Runs]
      /\ phase' = [phase EXCEPT ![a] = phase'[a]]
      /\ phase'[a] \in {"send", "recv", "signal"}
  BY AdvanceTypes
<1>2. cmds[a] # <<>> /\ Next1(a).kind \in Measures
  BY DEF Machine
<1>3. PICK p \in Phases : phase' = [phase EXCEPT ![a] = p]
  BY <1>1 DEF Phases
<1> QED BY <1>1, <1>2, <1>3, MachineStep

(* A connection that was written to, read or cut short. *)
LEMMA WireTypes ==
  ASSUME Socketry, NEW a \in Actors, NEW l \in Lanes, NEW w \in Seq(Message),
         Len(w) <= Hwm, wire' = [wire EXCEPT ![a][l] = w]
  PROVE  /\ wire' \in [Actors -> [Lanes -> Seq(Message)]]
         /\ \A b \in Actors : \A m \in Lanes : Len(wire'[b][m]) <= Hwm
<1>1. wire' \in [Actors -> [Lanes -> Seq(Message)]]
  BY DEF Socketry
<1>2. ASSUME NEW b \in Actors, NEW m \in Lanes
      PROVE  wire'[b][m] = IF b = a /\ m = l THEN w ELSE wire[b][m]
  BY DEF Socketry
<1>3. ASSUME NEW b \in Actors, NEW m \in Lanes
      PROVE  Len(wire'[b][m]) <= Hwm
  <2>1. CASE b = a /\ m = l
    BY <1>2, <2>1
  <2>2. CASE ~(b = a /\ m = l)
    BY <1>2, <2>2 DEF Socketry
  <2> QED BY <2>1, <2>2
<1> QED BY <1>1, <1>3

(* The types, action by action. *)
LEMMA PerfTypes ==
  ASSUME Pipework, Socketry, Machine, Backlog, NEW a \in Actors, PerfStep(a)
  PROVE  Pipework' /\ Socketry' /\ Machine'
<1>0. sock' = sock
  BY DEF PerfStep
<1>1. CASE Join(a)
  <2>1. /\ cmds[a] # <<>> /\ Next1(a).kind \in Joins
        /\ UNCHANGED <<run, back, wire, given, apart>>
        /\ joined' \in {joined, [joined EXCEPT ![a] = Next1(a).kind]}
    BY <1>1 DEF Join, Ready
  <2>2. cmds' \in [Actors -> Seq(Command)] /\ Machine'
    BY <1>1, <2>1, FinishTypes DEF Join, Machine
  <2>3. answers' \in [Actors -> Seq(Answer)]
    BY <1>1, <2>1, AnswerTypes, NoRunType DEF Join
  <2>4. joined' \in [Actors -> Joins \cup {None}]
    BY <2>1 DEF Socketry
  <2> QED BY <1>0, <2>1, <2>2, <2>3, <2>4 DEF Pipework, Socketry
<1>2. CASE Note(a)
  <2>1. /\ cmds[a] # <<>>
        /\ UNCHANGED <<answers, run, joined, back, wire, given, apart>>
    BY <1>2 DEF Note, Ready
  <2>2. cmds' \in [Actors -> Seq(Command)] /\ Machine'
    BY <1>2, <2>1, FinishTypes DEF Note, Machine
  <2> QED BY <1>0, <2>1, <2>2 DEF Pipework, Socketry
<1>3. CASE Term(a)
  <2>1. /\ cmds[a] # <<>> /\ cmds' = [cmds EXCEPT ![a] = Tail(@)]
        /\ phase' = [phase EXCEPT ![a] = "ended"]
        /\ joined' = [joined EXCEPT ![a] = None]
        /\ UNCHANGED <<answers, run, back, given, apart>>
    BY <1>3 DEF Term, Ready
  <2>2. PICK keep \in [Lanes -> 0..Hwm] :
          /\ \A l \in Lanes : keep[l] <= Len(wire[a][l])
          /\ wire' = [wire EXCEPT ![a] =
                        [l \in Lanes |-> SubSeq(@[l], 1, keep[l])]]
    BY <1>3 DEF Term
  <2>3. cmds' \in [Actors -> Seq(Command)]
    <3>1. Tail(cmds[a]) \in Seq(Command)
      BY <2>1, HeadTailProperties DEF Pipework
    <3> QED BY <2>1, <3>1 DEF Pipework
  <2>4. Machine'
    BY <2>1, MachineStep DEF Machine, Phases, Pipework
  <2>5. \A l \in Lanes : /\ SubSeq(wire[a][l], 1, keep[l]) \in Seq(Message)
                         /\ Len(SubSeq(wire[a][l], 1, keep[l])) <= Hwm
    <3> TAKE l \in Lanes
    <3>1. wire[a][l] \in Seq(Message) /\ Hwm \in Nat
      BY DEF Socketry
    <3>2. keep[l] \in 0..Hwm /\ keep[l] <= Len(wire[a][l])
      BY <2>2
    <3>3. \A i \in 1..keep[l] : wire[a][l][i] \in Message
      BY <3>1, <3>2
    <3>4. /\ SubSeq(wire[a][l], 1, keep[l]) \in Seq(Message)
          /\ Len(SubSeq(wire[a][l], 1, keep[l])) = keep[l]
      BY <3>1, <3>2, <3>3, SubSeqProperties
    <3> QED BY <3>2, <3>4
  <2>6. wire' \in [Actors -> [Lanes -> Seq(Message)]]
    BY <2>2, <2>5 DEF Socketry
  <2>7. ASSUME NEW b \in Actors, NEW l \in Lanes
        PROVE  Len(wire'[b][l]) <= Hwm
    BY <2>2, <2>5 DEF Socketry
  <2>8. joined' \in [Actors -> Joins \cup {None}]
    BY <2>1 DEF Socketry
  <2> QED BY <1>0, <2>1, <2>3, <2>4, <2>6, <2>7, <2>8 DEF Pipework, Socketry
<1>4. CASE Unknown(a) \/ ResetFails(a) \/ SendToNobody(a) \/ RecvOutOfTurn(a)
           \/ SignalUnstarted(a)
  <2>1. Abort(a) /\ UNCHANGED <<run, back, wire>>
    BY <1>4 DEF Unknown, ResetFails, SendToNobody, RecvOutOfTurn,
       SignalUnstarted
  <2>2. Machine'
    BY <2>1, AbortTypes DEF Machine
  <2> QED BY <1>0, <2>1, <2>2 DEF Abort, Pipework, Socketry
<1>5. CASE Begin(a)
  <2>1. /\ cmds[a] # <<>> /\ Next1(a).kind \in Measures
        /\ run' = [run EXCEPT ![a] = Reset(a)]
        /\ phase' = [phase EXCEPT ![a] =
             IF Next1(a).n = 0 THEN "signal" ELSE First(Next1(a).kind)]
        /\ UNCHANGED <<cmds, answers, joined, back, wire, given, apart>>
    BY <1>5 DEF Begin, Ready
  <2>2. run' \in [Actors -> Runs]
    BY <2>1, RunTypes DEF Machine
  <2>3. PICK p \in Phases : phase' = [phase EXCEPT ![a] = p]
    BY <2>1 DEF First, Phases
  <2>4. Machine'
    BY <2>1, <2>2, <2>3, MachineStep
  <2> QED BY <1>0, <2>1, <2>4 DEF Pipework, Socketry
<1>s. ASSUME phase[a] = "send", AfterSend(a)
      PROVE  Pipework' /\ Machine' /\ joined' = joined
  <2>1. cmds[a] # <<>>
    BY <1>s DEF Machine
  <2>2. UNCHANGED <<cmds, answers, joined, given, apart>>
    BY <1>s DEF AfterSend, Abort
  <2>3. CASE Abort(a) /\ UNCHANGED run
    BY <1>0, <2>2, <2>3, AbortTypes DEF Pipework, Machine
  <2>4. CASE Advance(a, Sender(a))
    BY <1>0, <1>s, <2>1, <2>2, <2>4, AdvanceMachine, RunTypes DEF Pipework
  <2> QED BY <1>s, <2>3, <2>4 DEF AfterSend
<1>w. ASSUME phase[a] = "send", NEW l \in Lanes, Len(wire[a][l]) < Hwm
      PROVE  /\ Append(wire[a][l], OnWire(a)) \in Seq(Message)
             /\ Len(Append(wire[a][l], OnWire(a))) <= Hwm
  <2>1. OnWire(a) \in Message
    BY <1>w, RunTypes DEF Machine, Runs
  <2>2. wire[a][l] \in Seq(Message) /\ Hwm \in Nat
    BY DEF Socketry
  <2> QED BY <1>w, <2>1, <2>2, AppendProperties
<1>6. CASE SendFrame(a)
  <2>1. PICK l \in Lanes :
          /\ Len(wire[a][l]) < Hwm
          /\ wire' = [wire EXCEPT ![a][l] = Append(@, OnWire(a))]
          /\ back' = IF sock[a] = "REQ" THEN [back EXCEPT ![a] = l] ELSE back
    BY <1>6 DEF SendFrame
  <2>2. phase[a] = "send" /\ AfterSend(a)
    BY <1>6 DEF SendFrame
  <2>3. wire' = [wire EXCEPT ![a][l] = Append(wire[a][l], OnWire(a))]
    BY <2>1 DEF Socketry
  <2>4. /\ wire' \in [Actors -> [Lanes -> Seq(Message)]]
        /\ \A b \in Actors : \A m \in Lanes : Len(wire'[b][m]) <= Hwm
    BY <1>w, <2>1, <2>2, <2>3, WireTypes
  <2>5. back' \in [Actors -> Lanes \cup {None}]
    BY <2>1 DEF Socketry
  <2> QED BY <1>s, <2>2, <2>4, <2>5 DEF Socketry
<1>7. CASE Respond(a)
  <2>1. /\ phase[a] = "send" /\ AfterSend(a) /\ back[a] # None
        /\ back' = [back EXCEPT ![a] = None]
        /\ wire' = IF Len(wire[a][back[a]]) < Hwm
                   THEN [wire EXCEPT ![a][back[a]] = Append(@, OnWire(a))]
                   ELSE wire
    BY <1>7 DEF Respond
  <2>2. back[a] \in Lanes
    BY <2>1 DEF Socketry
  <2>3. /\ wire' \in [Actors -> [Lanes -> Seq(Message)]]
        /\ \A b \in Actors : \A m \in Lanes : Len(wire'[b][m]) <= Hwm
    <3>1. CASE Len(wire[a][back[a]]) < Hwm
      <4>1. wire' = [wire EXCEPT ![a][back[a]] =
                       Append(wire[a][back[a]], OnWire(a))]
        BY <2>1, <2>2, <3>1 DEF Socketry
      <4> QED BY <1>w, <2>1, <2>2, <3>1, <4>1, WireTypes
    <3>2. CASE ~(Len(wire[a][back[a]]) < Hwm)
      BY <2>1, <3>2 DEF Socketry
    <3> QED BY <3>1, <3>2
  <2>4. back' \in [Actors -> Lanes \cup {None}]
    BY <2>1 DEF Socketry
  <2> QED BY <1>s, <2>1, <2>3, <2>4 DEF Socketry
<1>8. CASE SendOutOfTurn(a)
  <2>1. /\ phase[a] = "send" /\ cmds[a] # <<>> /\ UNCHANGED <<back, wire>>
        /\ UNCHANGED <<cmds, answers, joined, given, apart>>
        /\ (Abort(a) /\ UNCHANGED run) \/ Advance(a, Sender(a))
    BY <1>8 DEF SendOutOfTurn, Abort, Machine
  <2>2. Machine'
    BY <2>1, AbortTypes, AdvanceMachine, RunTypes DEF Machine
  <2> QED BY <1>0, <2>1, <2>2 DEF Pipework, Socketry
<1>t. ASSUME NEW l \in Lanes, TakeFrame(a, l)
      PROVE  /\ cmds[a] # <<>> /\ phase[a] = "recv"
             /\ Head(wire[Peer(a)][l]) \in Message
             /\ wire' \in [Actors -> [Lanes -> Seq(Message)]]
             /\ \A b \in Actors : \A m \in Lanes : Len(wire'[b][m]) <= Hwm
             /\ back' \in [Actors -> Lanes \cup {None}]
  <2>1. /\ phase[a] = "recv" /\ wire[Peer(a)][l] # <<>>
        /\ wire' = [wire EXCEPT ![Peer(a)][l] = Tail(@)]
        /\ back' = [back EXCEPT ![a] =
              IF sock[a] \in {"ROUTER", "REP"} THEN l
              ELSE IF sock[a] = "REQ" THEN None ELSE @]
    BY <1>t DEF TakeFrame
  <2>2. Peer(a) \in Actors
    BY Peers
  <2>3. /\ wire[Peer(a)][l] \in Seq(Message) /\ Len(wire[Peer(a)][l]) <= Hwm
        /\ Hwm \in Nat
    BY <2>2 DEF Socketry
  <2>4. /\ Head(wire[Peer(a)][l]) \in Message
        /\ Tail(wire[Peer(a)][l]) \in Seq(Message)
        /\ Len(Tail(wire[Peer(a)][l])) <= Hwm
    BY <2>1, <2>3, HeadTailProperties
  <2>5. wire' = [wire EXCEPT ![Peer(a)][l] = Tail(wire[Peer(a)][l])]
    BY <2>1, <2>2 DEF Socketry
  <2>6. /\ wire' \in [Actors -> [Lanes -> Seq(Message)]]
        /\ \A b \in Actors : \A m \in Lanes : Len(wire'[b][m]) <= Hwm
    BY <2>2, <2>4, <2>5, WireTypes
  <2>7. back' \in [Actors -> Lanes \cup {None}]
    BY <2>1 DEF Socketry
  <2>8. cmds[a] # <<>>
    BY <2>1 DEF Machine
  <2> QED BY <2>1, <2>4, <2>6, <2>7, <2>8
<1>9. CASE RecvFrame(a)
  <2>1. PICK l \in Lanes :
          /\ TakeFrame(a, l)
          /\ Advance(a, Receives(a, Head(wire[Peer(a)][l])))
    BY <1>9 DEF RecvFrame
  <2>2. UNCHANGED <<cmds, answers, joined, given, apart>>
    BY <1>9 DEF RecvFrame
  <2>3. Receives(a, Head(wire[Peer(a)][l])) \in Runs
    BY <1>t, <2>1, RunTypes
  <2>4. Machine'
    BY <1>t, <2>1, <2>2, <2>3, AdvanceMachine
  <2> QED BY <1>0, <1>t, <2>1, <2>2, <2>4 DEF Pipework, Socketry
<1>10. CASE SizeMismatch(a)
  <2>1. PICK l \in Lanes :
          /\ TakeFrame(a, l)
          /\ IF Next1(a).kind \in LibZmq
             THEN Abort(a) /\ UNCHANGED run
             ELSE /\ Finish(a)
                  /\ run' = [run EXCEPT ![a] = NoRun]
                  /\ UNCHANGED <<answers, joined, given, apart>>
    BY <1>10 DEF SizeMismatch
  <2>2. run' \in [Actors -> Runs]
    BY <2>1, NoRunType DEF Machine
  <2>3. UNCHANGED <<answers, joined, given, apart>>
    BY <2>1 DEF Abort
  <2>4. CASE Abort(a)
    <3>1. Machine' /\ cmds' = cmds
      BY <2>2, <2>4, AbortTypes DEF Abort
    <3> QED BY <1>0, <1>t, <2>1, <2>3, <3>1 DEF Pipework, Socketry
  <2>5. CASE Finish(a)
    <3>1. Machine' /\ cmds' \in [Actors -> Seq(Command)]
      BY <1>t, <2>1, <2>2, <2>5, FinishTypes
    <3> QED BY <1>0, <1>t, <2>1, <2>3, <3>1 DEF Pipework, Socketry
  <2> QED BY <2>1, <2>4, <2>5
<1>11. CASE Signal(a)
  <2>1. /\ phase[a] = "signal" /\ Tell(a, run[a]) /\ Finish(a)
        /\ run' = [run EXCEPT ![a] = NoRun]
        /\ UNCHANGED <<joined, back, wire, given, apart>>
    BY <1>11 DEF Signal
  <2>2. cmds[a] # <<>> /\ Next1(a).kind \in Measures
    BY <2>1 DEF Machine
  <2>3. run[a] \in Runs /\ run' \in [Actors -> Runs]
    BY <2>1, NoRunType DEF Machine
  <2>4. cmds' \in [Actors -> Seq(Command)] /\ Machine'
    BY <2>1, <2>2, <2>3, FinishTypes
  <2>5. answers' \in [Actors -> Seq(Answer)]
    BY <2>1, <2>2, <2>3, AnswerTypes
  <2> QED BY <1>0, <2>1, <2>4, <2>5 DEF Pipework, Socketry
<1> QED BY <1>1, <1>2, <1>3, <1>4, <1>5, <1>6, <1>7, <1>8, <1>9, <1>10, <1>11
        DEF PerfStep

(* What a step of the actor does to its pipe. *)
Answered(a) ==
  /\ cmds[a] # <<>> /\ Next1(a).kind \in Joins \cup Measures
  /\ cmds' = [cmds EXCEPT ![a] = Tail(@)]
  /\ \E x \in Answer : /\ x.kind = Next1(a).kind
                       /\ answers' = [answers EXCEPT ![a] = Append(@, x)]

Dropped(a) ==
  /\ cmds[a] # <<>> /\ Next1(a).kind \notin Joins
  /\ cmds' = [cmds EXCEPT ![a] = Tail(@)]
  /\ answers' = answers

(* An answer is one message at the end of the pipe, of the kind of the command
   that was run. *)
LEMMA TellsOne ==
  ASSUME NEW a \in Actors, Next1(a).kind \in Joins \cup Measures,
         NEW r \in Runs, Tell(a, r)
  PROVE  \E x \in Answer : /\ x.kind = Next1(a).kind
                           /\ answers' = [answers EXCEPT ![a] = Append(@, x)]
<1> DEFINE x == [kind |-> Next1(a).kind, noos |-> r.noos, total |-> r.total,
                 from |-> r.from]
<1>1. x \in Answer /\ x.kind = Next1(a).kind
  BY DEF Runs, Answer
<1>2. answers' = [answers EXCEPT ![a] = Append(@, x)]
  BY DEF Tell
<1> HIDE DEF x
<1> QED BY <1>1, <1>2

(* What a step of an actor does to the pipes: it takes the command and answers
   it, takes it without an answer, or leaves both pipes alone. *)
LEMMA PipeStep ==
  ASSUME Machine, NEW a \in Actors, PerfStep(a)
  PROVE  /\ given' = given /\ apart' = apart /\ sock' = sock
         /\ (cmds' = cmds /\ answers' = answers) \/ Answered(a) \/ Dropped(a)
<1>0. sock' = sock
  BY DEF PerfStep
<1>1. CASE Join(a)
  <2>1. cmds[a] # <<>> /\ Next1(a).kind \in Joins /\ Tell(a, NoRun)
    BY <1>1 DEF Join, Ready
  <2>2. cmds' = [cmds EXCEPT ![a] = Tail(@)] /\ given' = given /\ apart' = apart
    BY <1>1 DEF Join, Finish
  <2> QED BY <1>0, <2>1, <2>2, TellsOne, NoRunType DEF Answered
<1>2. CASE Signal(a)
  <2>1. /\ cmds[a] # <<>> /\ Next1(a).kind \in Measures /\ run[a] \in Runs
        /\ Tell(a, run[a])
    BY <1>2 DEF Signal, Machine
  <2>2. cmds' = [cmds EXCEPT ![a] = Tail(@)] /\ given' = given /\ apart' = apart
    BY <1>2 DEF Signal, Finish
  <2> QED BY <1>0, <2>1, <2>2, TellsOne DEF Answered
<1>3. CASE Note(a) \/ Term(a)
  <2>1. /\ cmds[a] # <<>> /\ Next1(a).kind \in Notes \cup {"$TERM"}
        /\ cmds' = [cmds EXCEPT ![a] = Tail(@)]
        /\ answers' = answers /\ given' = given /\ apart' = apart
    BY <1>3 DEF Note, Term, Ready, Finish
  <2> QED BY <1>0, <2>1 DEF Dropped, Notes, Joins
<1>4. CASE SizeMismatch(a)
  <2>1. PICK l \in Lanes :
          /\ phase[a] = "recv"
          /\ IF Next1(a).kind \in LibZmq
             THEN Abort(a) /\ UNCHANGED run
             ELSE /\ Finish(a)
                  /\ UNCHANGED <<answers, joined, given, apart>>
    BY <1>4 DEF SizeMismatch, TakeFrame
  <2>2. cmds[a] # <<>> /\ Next1(a).kind \in Measures
    BY <2>1 DEF Machine
  <2>3. Next1(a).kind \notin Joins
    BY <2>2 DEF Measures, Sends, Recvs, Yodels, Echos, Joins
  <2>4. CASE Abort(a)
    BY <1>0, <2>4 DEF Abort
  <2>5. CASE Finish(a) /\ UNCHANGED <<answers, joined, given, apart>>
    BY <1>0, <2>2, <2>3, <2>5 DEF Finish, Dropped
  <2> QED BY <2>1, <2>4, <2>5
<1>5. CASE Unknown(a) \/ ResetFails(a) \/ SendToNobody(a) \/ RecvOutOfTurn(a)
           \/ SignalUnstarted(a)
  BY <1>0, <1>5
  DEF Unknown, ResetFails, SendToNobody, RecvOutOfTurn, SignalUnstarted, Abort
<1>6. CASE Begin(a) \/ RecvFrame(a)
  BY <1>0, <1>6 DEF Begin, RecvFrame
<1>7. CASE SendFrame(a) \/ Respond(a) \/ SendOutOfTurn(a)
  BY <1>0, <1>7 DEF SendFrame, Respond, SendOutOfTurn, AfterSend, Abort
<1> QED BY <1>1, <1>2, <1>3, <1>4, <1>5, <1>6, <1>7 DEF PerfStep

(* The owner's command is at the end of the pipe, and the actor's step leaves
   those behind the first in their places. *)
LEMMA Tailing ==
  ASSUME NEW S, NEW c \in Seq(S), NEW g \in Seq(S), Len(c) <= Len(g),
         \A i \in 1..Len(c) : c[i] = g[Len(g) - Len(c) + i]
  PROVE  /\ c # <<>> =>
              /\ Len(Tail(c)) <= Len(g)
              /\ \A i \in 1..Len(Tail(c)) :
                   Tail(c)[i] = g[Len(g) - Len(Tail(c)) + i]
         /\ \A x \in S :
              /\ Len(Append(c, x)) <= Len(Append(g, x))
              /\ \A i \in 1..Len(Append(c, x)) :
                   Append(c, x)[i] =
                     Append(g, x)[Len(Append(g, x)) - Len(Append(c, x)) + i]
<1>0. Len(c) \in Nat /\ Len(g) \in Nat
  OBVIOUS
<1>1. ASSUME c # <<>>
      PROVE  /\ Len(Tail(c)) <= Len(g)
             /\ \A i \in 1..Len(Tail(c)) :
                  Tail(c)[i] = g[Len(g) - Len(Tail(c)) + i]
  <2> DEFINE t == Tail(c)
  <2>1. t \in Seq(S) /\ Len(t) = Len(c) - 1 /\ Len(t) \in Nat
    BY <1>1, HeadTailProperties
  <2>2. \A i \in 1..Len(t) : t[i] = c[i + 1]
    BY <1>1, HeadTailProperties
  <2> HIDE DEF t
  <2>3. Len(t) <= Len(g)
    BY <1>0, <2>1
  <2>4. \A i \in 1..Len(t) : t[i] = g[Len(g) - Len(t) + i]
    <3> TAKE i \in 1..Len(t)
    <3>1. i + 1 \in 1..Len(c)
      BY <1>0, <2>1
    <3>2. c[i + 1] = g[Len(g) - Len(c) + (i + 1)]
      BY <3>1
    <3>3. Len(g) - Len(c) + (i + 1) = Len(g) - Len(t) + i
      BY <1>0, <2>1
    <3> QED BY <2>2, <3>2, <3>3
  <2> QED BY <2>3, <2>4 DEF t
<1>2. ASSUME NEW x \in S
      PROVE  /\ Len(Append(c, x)) <= Len(Append(g, x))
             /\ \A i \in 1..Len(Append(c, x)) :
                  Append(c, x)[i] =
                    Append(g, x)[Len(Append(g, x)) - Len(Append(c, x)) + i]
  <2> DEFINE u == Append(c, x)  v == Append(g, x)
  <2>1. /\ Len(u) = Len(c) + 1 /\ Len(v) = Len(g) + 1
        /\ u[Len(c) + 1] = x /\ v[Len(g) + 1] = x
        /\ \A i \in 1..Len(c) : u[i] = c[i]
        /\ \A i \in 1..Len(g) : v[i] = g[i]
    BY AppendProperties
  <2> HIDE DEF u, v
  <2>2. Len(u) <= Len(v)
    BY <1>0, <2>1
  <2>3. \A i \in 1..Len(u) : u[i] = v[Len(v) - Len(u) + i]
    <3> TAKE i \in 1..Len(u)
    <3>1. Len(v) - Len(u) + i = Len(g) - Len(c) + i
      BY <1>0, <2>1
    <3>2. CASE i \in 1..Len(c)
      <4>1. Len(g) - Len(c) + i \in 1..Len(g)
        BY <1>0, <3>2
      <4> QED BY <2>1, <3>1, <3>2, <4>1
    <3>3. CASE i = Len(c) + 1
      BY <1>0, <2>1, <3>1, <3>3
    <3> QED BY <1>0, <2>1, <3>2, <3>3
  <2> QED BY <2>2, <2>3 DEF u, v
<1> QED BY <1>1, <1>2

(* The commands in the pipe are the last that were given. *)
LEMMA BacklogOf ==
  ASSUME NEW a \in Actors
  PROVE  Backlog => /\ Len(cmds[a]) <= Len(given[a])
                    /\ \A i \in 1..Len(cmds[a]) :
                         cmds[a][i] = given[a][Len(given[a]) - Len(cmds[a]) + i]
BY DEF Backlog, Done

(* They still are, when the actor takes one or the owner gives one. *)
LEMMA BacklogStep ==
  ASSUME Pipework, Backlog, NEW a \in Actors, NEW c \in Command,
         \/ cmds' = cmds /\ given' = given
         \/ /\ cmds[a] # <<>> /\ cmds' = [cmds EXCEPT ![a] = Tail(@)]
            /\ given' = given
         \/ /\ cmds' = [cmds EXCEPT ![a] = Append(@, c)]
            /\ given' = [given EXCEPT ![a] = Append(@, c)]
  PROVE  Backlog'
<1> SUFFICES ASSUME NEW b \in Actors
             PROVE  /\ Len(cmds'[b]) <= Len(given'[b])
                    /\ \A i \in 1..Len(cmds'[b]) :
                         cmds'[b][i] =
                           given'[b][Len(given'[b]) - Len(cmds'[b]) + i]
  BY DEF Backlog, Done
<1> DEFINE q == cmds[b]  g == given[b]
<1>1. q \in Seq(Command) /\ g \in Seq(Command)
  BY DEF Pipework
<1>2. Len(q) <= Len(g) /\ \A i \in 1..Len(q) : q[i] = g[Len(g) - Len(q) + i]
  BY BacklogOf
<1>3. \/ cmds'[b] = q /\ given'[b] = g
      \/ q # <<>> /\ cmds'[b] = Tail(q) /\ given'[b] = g
      \/ cmds'[b] = Append(q, c) /\ given'[b] = Append(g, c)
  BY DEF Pipework
<1> HIDE DEF q, g
<1>4. CASE cmds'[b] = q /\ given'[b] = g
  BY <1>2, <1>4, Zenon
<1>5. CASE q # <<>> /\ cmds'[b] = Tail(q) /\ given'[b] = g
  <2>1. /\ Len(Tail(q)) <= Len(g)
        /\ \A i \in 1..Len(Tail(q)) : Tail(q)[i] = g[Len(g) - Len(Tail(q)) + i]
    BY <1>1, <1>2, <1>5, Tailing
  <2> QED BY <1>5, <2>1, Zenon
<1>6. CASE cmds'[b] = Append(q, c) /\ given'[b] = Append(g, c)
  <2>1. /\ Len(Append(q, c)) <= Len(Append(g, c))
        /\ \A i \in 1..Len(Append(q, c)) :
             Append(q, c)[i] =
               Append(g, c)[Len(Append(g, c)) - Len(Append(q, c)) + i]
    <3>1. \A x \in Command :
            /\ Len(Append(q, x)) <= Len(Append(g, x))
            /\ \A i \in 1..Len(Append(q, x)) :
                 Append(q, x)[i] =
                   Append(g, x)[Len(Append(g, x)) - Len(Append(q, x)) + i]
      BY <1>1, <1>2, Tailing
    <3> QED BY <3>1, Zenon
  <2> QED BY <1>6, <2>1, Zenon
<1> QED BY <1>3, <1>4, <1>5, <1>6

(* The owner's step. *)
LEMMA GiveTypes ==
  ASSUME Pipework, Socketry, Machine, Backlog, NEW a \in Actors,
         NEW c \in Command, Gives(a, c), sock' = sock
  PROVE  Pipework' /\ Socketry' /\ Machine' /\ Backlog'
<1>1. /\ cmds' = [cmds EXCEPT ![a] = Append(@, c)]
      /\ given' = [given EXCEPT ![a] = Append(@, c)]
      /\ UNCHANGED <<answers, phase, run, joined, back, wire>>
      /\ apart' \in BOOLEAN
  BY DEF Gives, Submit, Pipework
<1>2. /\ cmds' \in [Actors -> Seq(Command)]
      /\ given' \in [Actors -> Seq(Command)]
  BY <1>1, PipeTypes DEF Pipework
<1>3. Pipework' /\ Socketry'
  BY <1>1, <1>2 DEF Pipework, Socketry
<1>4. ASSUME NEW b \in Actors, phase[b] \in {"send", "recv", "signal"}
      PROVE  cmds'[b] # <<>> /\ Next1(b)'.kind \in Measures
  <2>1. cmds[b] # <<>> /\ Next1(b).kind \in Measures /\ cmds[b] \in Seq(Command)
    BY <1>4 DEF Machine, Pipework
  <2>2. Append(cmds[b], c) # <<>> /\ Head(Append(cmds[b], c)) = Head(cmds[b])
    BY <2>1, AppendProperties
  <2> QED BY <1>1, <2>1, <2>2 DEF Next1, Pipework
<1>5. Machine'
  BY <1>1, <1>4 DEF Machine
<1>6. Backlog'
  BY <1>1, BacklogStep
<1> QED BY <1>3, <1>5, <1>6

Typed == Pipework /\ Socketry /\ Machine /\ Backlog

(* The invariant of the types holds first ... *)
LEMMA TypesInit == Init => Typed
<1> SUFFICES ASSUME Init PROVE Typed
  OBVIOUS
<1>1. Pipework
  BY DEF Init, Pipework
<1>2. Socketry
  BY DEF Init, Socketry
<1>3. Machine
  BY NoRunType DEF Init, Machine, Phases
<1>4. Backlog
  BY DEF Init, Backlog
<1> QED BY <1>1, <1>2, <1>3, <1>4 DEF Typed

(* ... is kept by every step ... *)
LEMMA TypesNext == Typed /\ [AnyNext]_vars => Typed'
<1> SUFFICES ASSUME Typed, [AnyNext]_vars PROVE Typed'
  OBVIOUS
<1>1. ASSUME NEW a \in Actors, NEW c \in Command,
             Gives(a, c), sock' = sock
      PROVE  Typed'
  <2> QED BY <1>1, GiveTypes DEF Typed
<1>2. ASSUME NEW a \in Actors, PerfStep(a)
      PROVE  Typed'
  <2>1. Pipework' /\ Socketry' /\ Machine'
    BY <1>2, PerfTypes DEF Typed
  <2>2. /\ given' = given
        /\ \/ cmds' = cmds
           \/ cmds[a] # <<>> /\ cmds' = [cmds EXCEPT ![a] = Tail(@)]
    BY <1>2, PipeStep DEF Typed, Answered, Dropped
  <2>3. Backlog'
    <3>1. [kind |-> "BIND", n |-> 0, size |-> 0] \in Command
      BY DEF Command, Kinds, Joins
    <3> QED BY <2>2, <3>1, BacklogStep DEF Typed
  <2> QED BY <2>1, <2>3 DEF Typed
<1>3. CASE UNCHANGED vars
  BY <1>3 DEF vars, Typed, Pipework, Socketry, Machine, Backlog, Next1, Done
<1> QED BY <1>1, <1>2, <1>3 DEF AnyNext

(* ... and so always. *)
LEMMA TypesAlways == AnySpec => []Typed
BY TypesInit, TypesNext, PTL DEF AnySpec

(* The owners of PerfActor are such owners. *)
LEMMA SpecIsAny == Spec => AnySpec
<1>1. Typed /\ [Next]_vars => [AnyNext]_vars
  <2> SUFFICES ASSUME Typed, Next PROVE AnyNext
    OBVIOUS
  <2>1. ASSUME NEW a \in Actors, NEW c \in Offers[sock[a]] \cup JoinCommands,
               Give(a, c), UNCHANGED sock
        PROVE  AnyNext
    <3>1. sock[a] \in Types
      BY DEF Typed, Pipework
    <3>2. c \in Command /\ (c.kind \in Joins => c \in JoinCommands)
      BY <3>1, OfferTypes
    <3> QED BY <2>1, <3>2 DEF Give, Gives, AnyNext
  <2> QED BY <2>1 DEF Next, AnyNext
<1>2. Typed /\ [Next]_vars => Typed'
  BY <1>1, TypesNext
<1> QED BY <1>1, <1>2, TypesInit, PTL DEF Spec, AnySpec

(* Every variable keeps its type and no connection holds more than its
   high-water mark, for any number of connections, any commands and any
   high-water mark. *)
THEOREM ActorTypes == Spec => []TypeOK
<1>1. Typed => TypeOK
  BY TypeParts DEF Typed
<1> QED BY <1>1, TypesAlways, SpecIsAny, PTL

-----------------------------------------------------------------------------
(* PerfPipe sees the class of a command, and of an answer. *)
ClassOf(x) == Class(x.kind)

Seen == INSTANCE PipeImages WITH Of <- ClassOf

Classes(s) == Seen!Image(s)

(* A pipe and the classes of its messages. *)
LEMMA ClassesOf ==
  ASSUME NEW S, NEW s \in Seq(S)
  PROVE  /\ s # <<>> => /\ Classes(s) # <<>>
                        /\ Head(Classes(s)) = Class(Head(s).kind)
                        /\ Classes(Tail(s)) = Tail(Classes(s))
         /\ \A x \in S :
              Classes(Append(s, x)) = Append(Classes(s), Class(x.kind))
<1>1. \A x \in S : ClassOf(x) \in Pipes!Kinds
  BY DEF ClassOf, Class, Pipes!Kinds
<1> QED BY <1>1, Seen!ImageOf DEF Classes, ClassOf

(* What the refinement maps the two pipes of the actors to. *)
Queue == [a \in Actors |-> Classes(cmds[a])]
Out == [a \in Actors |-> Classes(answers[a])]

(* Giving a command is PerfPipe's Submit. *)
LEMMA GiveIsSubmit ==
  ASSUME Typed, NEW a \in Actors, NEW c \in Command, Gives(a, c)
  PROVE  Pipes!Submit(a)
<1>1. cmds' = [cmds EXCEPT ![a] = Append(cmds[a], c)] /\ answers' = answers
  BY DEF Gives, Submit
<1>2. \A b \in Actors : cmds'[b] = IF b = a THEN Append(cmds[a], c) ELSE cmds[b]
  BY <1>1 DEF Typed, Pipework
<1>3. Classes(Append(cmds[a], c)) = Append(Classes(cmds[a]), Class(c.kind))
  <2>1. cmds[a] \in Seq(Command)
    BY DEF Typed, Pipework
  <2> QED BY <2>1, ClassesOf
<1>4. Queue' = [Queue EXCEPT ![a] = Append(Queue[a], Class(c.kind))]
  BY <1>2, <1>3 DEF Queue
<1>5. Class(c.kind) \in Pipes!Kinds
  BY DEF Class, Pipes!Kinds
<1>6. Out' = Out
  BY <1>1 DEF Out
<1> QED BY <1>4, <1>5, <1>6 DEF Pipes!Submit, Queue, Out, Classes, Seen!Image,
           ClassOf

(* The end of a command that is answered is PerfPipe's Answer. *)
LEMMA AnsweredIsAnswer ==
  ASSUME Typed, NEW a \in Actors, Answered(a)
  PROVE  Pipes!Answer(a)
<1>1. /\ cmds[a] \in Seq(Command) /\ cmds[a] # <<>>
      /\ answers[a] \in Seq(Answer)
  BY DEF Typed, Pipework, Answered
<1>2. PICK x \in Answer : /\ x.kind = Next1(a).kind
                          /\ answers' = [answers EXCEPT ![a] = Append(@, x)]
  BY DEF Answered
<1>3. /\ \A b \in Actors :
           cmds'[b] = IF b = a THEN Tail(cmds[a]) ELSE cmds[b]
      /\ \A b \in Actors :
           answers'[b] = IF b = a THEN Append(answers[a], x) ELSE answers[b]
  BY <1>2 DEF Typed, Pipework, Answered
<1>4. /\ Classes(cmds[a]) # <<>>
      /\ Head(Classes(cmds[a])) = Class(Next1(a).kind)
      /\ Classes(Tail(cmds[a])) = Tail(Classes(cmds[a]))
  BY <1>1, ClassesOf DEF Next1
<1>5. Classes(Append(answers[a], x)) =
        Append(Classes(answers[a]), Class(x.kind))
  BY <1>1, ClassesOf
<1>6. Class(Next1(a).kind) # "NOTE"
  BY DEF Answered, Class
<1>7. Queue[a] = Classes(cmds[a]) /\ Out[a] = Classes(answers[a])
  BY DEF Queue, Out
<1>8. Queue' = [Queue EXCEPT ![a] = Tail(Queue[a])]
  BY <1>3, <1>4 DEF Queue
<1>9. Out' = [Out EXCEPT ![a] = Append(Out[a], Head(Queue[a]))]
  <2>1. Append(Out[a], Head(Queue[a])) = Classes(Append(answers[a], x))
    BY <1>2, <1>4, <1>5, <1>7
  <2>2. Out' = [b \in Actors |-> Classes(answers'[b])]
    BY DEF Out
  <2>3. \A b \in Actors : Classes(answers'[b]) =
          IF b = a THEN Append(Out[a], Head(Queue[a])) ELSE Out[b]
    BY <1>3, <2>1 DEF Out
  <2> HIDE DEF Classes
  <2>4. Out = [b \in Actors |-> Out[b]]
    BY DEF Out
  <2> QED BY <2>2, <2>3, <2>4
<1> QED BY <1>4, <1>6, <1>7, <1>8, <1>9 DEF Pipes!Answer, Queue, Out, Classes,
           Seen!Image, ClassOf

(* The end of a command that is not answered is PerfPipe's Skip. *)
LEMMA DroppedIsSkip ==
  ASSUME Typed, NEW a \in Actors, Dropped(a)
  PROVE  Pipes!Skip(a)
<1>1. cmds[a] \in Seq(Command) /\ cmds[a] # <<>>
  BY DEF Typed, Pipework, Dropped
<1>2. \A b \in Actors : cmds'[b] = IF b = a THEN Tail(cmds[a]) ELSE cmds[b]
  BY DEF Typed, Pipework, Dropped
<1>3. /\ Classes(cmds[a]) # <<>>
      /\ Head(Classes(cmds[a])) = Class(Next1(a).kind)
      /\ Classes(Tail(cmds[a])) = Tail(Classes(cmds[a]))
  BY <1>1, ClassesOf DEF Next1
<1>4. Class(Next1(a).kind) # "SOCKET"
  BY DEF Dropped, Class
<1>5. Queue[a] = Classes(cmds[a])
  BY DEF Queue
<1>6. Queue' = [Queue EXCEPT ![a] = Tail(Queue[a])]
  BY <1>2, <1>3 DEF Queue
<1>7. Out' = Out
  BY DEF Dropped, Out
<1> QED BY <1>3, <1>4, <1>5, <1>6, <1>7 DEF Pipes!Skip, Queue, Out, Classes,
           Seen!Image, ClassOf

(* Every step of an actor, or of its owner, is one of PerfPipe or none. *)
LEMMA AnyIsPipe == AnySpec => PerfIsPipe
<1>1. Init => Pipes!Init
  BY DEF Init, Pipes!Init, Class
<1>2. Typed /\ [AnyNext]_vars => [Pipes!Next]_Pipes!vars
  <2> SUFFICES ASSUME Typed, [AnyNext]_vars
               PROVE  Pipes!Next \/ UNCHANGED Pipes!vars
    OBVIOUS
  <2>1. ASSUME cmds' = cmds, answers' = answers
        PROVE  UNCHANGED Pipes!vars
    BY <2>1 DEF Pipes!vars
  <2>2. ASSUME NEW a \in Actors, NEW c \in Command, Gives(a, c)
        PROVE  Pipes!Next
    BY <2>2, GiveIsSubmit DEF Pipes!Next
  <2>3. ASSUME NEW a \in Actors, PerfStep(a)
        PROVE  Pipes!Next \/ UNCHANGED Pipes!vars
    <3>1. \/ cmds' = cmds /\ answers' = answers
          \/ Answered(a) \/ Dropped(a)
      BY <2>3, PipeStep DEF Typed
    <3> QED BY <2>1, <3>1, AnsweredIsAnswer, DroppedIsSkip DEF Pipes!Next
  <2>4. CASE UNCHANGED vars
    BY <2>1, <2>4 DEF vars
  <2> QED BY <2>2, <2>3, <2>4 DEF AnyNext
<1> QED BY <1>1, <1>2, TypesAlways, PTL DEF AnySpec, PerfIsPipe, Pipes!Spec

(* To its owner a perf actor is a FIFO of commands with at most one answer
   each, in the order of the commands: PerfActor implements PerfPipe, for any
   sockets, any commands and any other end. *)
THEOREM ActorIsPipe == Spec => PerfIsPipe
BY SpecIsAny, AnyIsPipe

-----------------------------------------------------------------------------
(***************************************************************************)
(* noos is good for what it is there for: over one connection a receiving  *)
(* end with no message out of order counted one measurement only.          *)
(*                                                                         *)
(* The property speaks of answers; what keeps it true is on the            *)
(* connections.  The numbers of the messages a talking end sends grow by   *)
(* one within a measurement and start again at zero, so a message whose    *)
(* number is not zero comes from the measurement of the one before it      *)
(* (InRuns), and a receiving end that took all of its messages in order    *)
(* has as next message one of the same measurement, or one numbered zero   *)
(* that it will count out of order (Hearing).  Turns and Silent are what   *)
(* the sockets add: a REQ socket starts a measurement with its answer      *)
(* taken, and two listening ends never send.                               *)
(***************************************************************************)

(* The sockets of the ends that start an exchange, and of those that wait. *)
Talkers == {"PUSH", "REQ", "DEALER"}
Listeners == {"PULL", "REP", "ROUTER"}

(* The owners asked for the sockets' own measurements. *)
AllFit == \A a \in Actors : \A i \in DOMAIN given[a] : Fits(a, given[a][i])

(* The number of the command that b is running. *)
Number(b) == Done(b) + 1

(* b has sent a message of its measurement and may send another. *)
Continues(b) ==
  (phase[b] = "send" /\ run[b].out # 0) \/ phase[b] = "recv"

(* What follows the first i messages of the connection, there already or yet to
   be sent, is of measurement o of b or is numbered zero. *)
Sequel(b, l, i, o) ==
  IF i < Len(wire[b][l])
  THEN wire[b][l][i + 1].count # 0 => wire[b][l][i + 1].of = o
  ELSE Continues(b) => Number(b) = o

(* A message not numbered zero is of the measurement of the one before it. *)
InRuns(b) ==
  sock[b] \in Talkers =>
    \A l \in Lanes : \A i \in 1..Len(wire[b][l]) :
      Sequel(b, l, i, wire[b][l][i].of)

(* A REQ socket that is not waiting for an answer has none to take. *)
Turns(b) ==
  sock[b] = "REQ" /\ phase[b] \in {"idle", "send", "signal"} => back[b] = None

(* What a has counted is of measurement o, and so is what it will count. *)
OneSource(a, l, o) ==
  /\ run[a].from \subseteq {o}
  /\ run[a].from # {} => /\ Sequel(Peer(a), l, 0, o)
                         /\ phase[a] = "recv" => run[a].count # 0

Busy == {"recv", "send", "signal"}

(* So it is for a receiving end that has counted nothing out of order. *)
Hearing(a) ==
  /\ sock[a] \in Listeners /\ sock[Peer(a)] \in Talkers
  /\ phase[a] \in Busy /\ run[a].noos = 0
  => \A l \in Lanes : \E o \in Nat : OneSource(a, l, o)

(* Two ends that wait for each other exchange nothing. *)
Silent(a) ==
  sock[a] \in Listeners /\ sock[Peer(a)] \in Listeners
  => /\ phase[a] # "send" /\ run[a].from = {}
     /\ \A l \in Lanes : wire[a][l] = <<>>

(* NoosDetectsMixing of the answers given. *)
Told(a) ==
  \A i \in DOMAIN answers[a] :
    answers[a][i].kind \in Recvs \cup Echos /\ answers[a][i].noos = 0
      => \E o \in Nat : answers[a][i].from \subseteq {o}

Good(a) == InRuns(a) /\ Turns(a) /\ Hearing(a) /\ Silent(a) /\ Told(a)

Ordered == OneLane /\ AllFit => \A a \in Actors : Good(a)

(* OneLane is about the only connection there is. *)
LEMMA TheLane ==
  ASSUME OneLane
  PROVE  \A l, m \in Lanes : l = m
<1>1. IsFiniteSet(Lanes)
  OBVIOUS
<1> QED BY <1>1, FS_Singleton DEF OneLane

(* There is no third actor. *)
LEMMA Ends ==
  ASSUME NEW a \in Actors, NEW b \in Actors
  PROVE  b = a \/ b = Peer(a)
BY DEF Peer

(* A socket type starts the exchange or waits for it. *)
LEMMA SockKind == \A t \in Types : t \in Talkers <=> t \notin Listeners
BY DEF Types, Talkers, Listeners

(* The first of the last of g is in g. *)
LEMMA FirstOfLast ==
  ASSUME NEW S, NEW c \in Seq(S), NEW g \in Seq(S), Len(c) <= Len(g),
         \A i \in 1..Len(c) : c[i] = g[Len(g) - Len(c) + i], c # <<>>
  PROVE  \E j \in DOMAIN g : Head(c) = g[j]
<1>1. 1 \in 1..Len(c) /\ Head(c) = c[1]
  OBVIOUS
<1>2. Head(c) = g[Len(g) - Len(c) + 1]
  BY <1>1
<1>3. Len(g) - Len(c) + 1 \in DOMAIN g
  BY <1>1
<1> QED BY <1>2, <1>3

(* The command an actor runs, or is about to run, fits its socket. *)
LEMMA FitNow ==
  ASSUME Typed, AllFit, NEW a \in Actors, cmds[a] # <<>>,
         Next1(a).kind \in Measures
  PROVE  Next1(a).kind \in MeasuresOf[sock[a]]
<1>1. /\ cmds[a] \in Seq(Command) /\ given[a] \in Seq(Command)
      /\ Len(cmds[a]) <= Len(given[a])
      /\ \A i \in 1..Len(cmds[a]) :
           cmds[a][i] = given[a][Len(given[a]) - Len(cmds[a]) + i]
  BY BacklogOf DEF Typed, Pipework
<1>2. PICK j \in DOMAIN given[a] : Head(cmds[a]) = given[a][j]
  <2> DEFINE c == cmds[a]  g == given[a]
  <2>1. c \in Seq(Command) /\ g \in Seq(Command) /\ c # <<>>
    BY <1>1
  <2>2. Len(c) <= Len(g) /\ \A i \in 1..Len(c) : c[i] = g[Len(g) - Len(c) + i]
    BY <1>1, Zenon
  <2> HIDE DEF c, g
  <2>3. \E j \in DOMAIN g : Head(c) = g[j]
    BY <2>1, <2>2, FirstOfLast
  <2> QED BY <2>3 DEF c, g
<1>3. Fits(a, given[a][j])
  BY <1>2 DEF AllFit
<1> QED BY <1>2, <1>3 DEF Fits, Next1

(* What fits the sockets. *)
LEMMA FitKinds ==
  ASSUME Typed, NEW a \in Actors, NEW k \in MeasuresOf[sock[a]]
  PROVE  /\ sock[a] = "PUSH" => k \in Sends
         /\ sock[a] = "PULL" => k \in Recvs
         /\ sock[a] \in {"REQ", "DEALER"} => k \in Yodels
         /\ sock[a] \in {"REP", "ROUTER"} => k \in Echos
         /\ First(k) = IF sock[a] \in Talkers THEN "send" ELSE "recv"
         /\ k \in Recvs \cup Echos <=> sock[a] \in Listeners
         /\ k \in Sends \cup Recvs <=> sock[a] \in {"PUSH", "PULL"}
<1>1. sock[a] \in Types
  BY DEF Typed, Pipework
<1>2. CASE sock[a] = "PUSH"
  BY <1>2 DEF MeasuresOf, First, Sends, Recvs, Yodels, Echos, Talkers, Listeners
<1>3. CASE sock[a] = "PULL"
  BY <1>3 DEF MeasuresOf, First, Sends, Recvs, Yodels, Echos, Talkers, Listeners
<1>4. CASE sock[a] = "REQ"
  BY <1>4 DEF MeasuresOf, First, Sends, Recvs, Yodels, Echos, Talkers, Listeners
<1>5. CASE sock[a] = "REP"
  BY <1>5 DEF MeasuresOf, First, Sends, Recvs, Yodels, Echos, Talkers, Listeners
<1>6. CASE sock[a] = "DEALER"
  BY <1>6 DEF MeasuresOf, First, Sends, Recvs, Yodels, Echos, Talkers, Listeners
<1>7. CASE sock[a] = "ROUTER"
  BY <1>7 DEF MeasuresOf, First, Sends, Recvs, Yodels, Echos, Talkers, Listeners
<1> QED BY <1>1, <1>2, <1>3, <1>4, <1>5, <1>6, <1>7 DEF Types

(* b goes on with the measurement it was in, if with any. *)
Steady(b) == Continues(b)' => Continues(b) /\ Number(b)' = Number(b)

(* What is to follow a message stays so while nothing is sent or taken. *)
LEMMA SequelSteady ==
  ASSUME NEW b \in Actors, NEW l \in Lanes, wire'[b][l] = wire[b][l],
         Steady(b)
  PROVE  \A i, o : Sequel(b, l, i, o) => Sequel(b, l, i, o)'
BY DEF Sequel, Steady

(* A message of the measurement under way continues the one before it, and is
   followed by its own. *)
LEMMA SequelSent ==
  ASSUME Typed, NEW b \in Actors, NEW l \in Lanes, NEW m \in Message,
         wire'[b][l] = Append(wire[b][l], m), m.of = Number(b),
         m.count # 0 => Continues(b), Number(b)' = Number(b)
  PROVE  /\ \A i \in 0..Len(wire[b][l]) : \A o :
              Sequel(b, l, i, o) => Sequel(b, l, i, o)'
         /\ (\A i \in 1..Len(wire[b][l]) : Sequel(b, l, i, wire[b][l][i].of)) =>
              \A i \in 1..Len(wire'[b][l]) : Sequel(b, l, i, wire[b][l][i].of)'
<1> DEFINE w == wire[b][l]  v == Append(w, m)
<1>1. w \in Seq(Message)
  BY DEF Typed, Socketry
<1>2. /\ Len(v) = Len(w) + 1 /\ v[Len(w) + 1] = m /\ Len(w) \in Nat
      /\ \A i \in 1..Len(w) : v[i] = w[i]
  BY <1>1, AppendProperties
<1>3. wire'[b][l] = v
  OBVIOUS
<1> HIDE DEF v
<1>4. ASSUME NEW i \in 0..Len(w), NEW o, Sequel(b, l, i, o)
      PROVE  Sequel(b, l, i, o)'
  <2>0. i < Len(v)
    BY <1>2
  <2> SUFFICES ASSUME v[i + 1].count # 0 PROVE v[i + 1].of = o
    BY <1>3, <2>0 DEF Sequel
  <2>1. CASE i < Len(w)
    <3>1. v[i + 1] = w[i + 1]
      BY <1>2, <2>1
    <3> QED BY <1>4, <2>1, <3>1 DEF Sequel
  <2>2. CASE i = Len(w)
    <3>1. v[i + 1] = m
      BY <1>2, <2>2
    <3>2. Continues(b) => Number(b) = o
      BY <1>2, <1>4, <2>2 DEF Sequel
    <3> QED BY <3>1, <3>2
  <2> QED BY <1>2, <2>1, <2>2
<1>5. ASSUME \A i \in 1..Len(w) : Sequel(b, l, i, w[i].of),
             NEW i \in 1..Len(v)
      PROVE  Sequel(b, l, i, wire[b][l][i].of)'
  <2>1. CASE i \in 1..Len(w)
    <3>1. v[i] = w[i] /\ i \in 0..Len(w) /\ i < Len(v)
      BY <1>2, <2>1
    <3>2. Sequel(b, l, i, v[i].of)
      BY <1>5, <2>1, <3>1
    <3>3. v[i + 1].count # 0 => v[i + 1].of = v[i].of
      <4>1. ASSUME NEW o, o = v[i].of
            PROVE  v[i + 1].count # 0 => v[i + 1].of = o
        <5>1. Sequel(b, l, i, o)
          BY <3>2, <4>1
        <5>2. Sequel(b, l, i, o)'
          BY <1>4, <3>1, <5>1
        <5> QED BY <1>3, <3>1, <5>2 DEF Sequel
      <4> QED BY <4>1
    <3> QED BY <1>3, <3>1, <3>3 DEF Sequel
  <2>2. CASE i = Len(w) + 1
    <3>1. v[i] = m /\ ~(i < Len(v))
      BY <1>2, <2>2
    <3> QED BY <1>3, <3>1 DEF Sequel
  <2> QED BY <1>2, <2>1, <2>2
<1> QED BY <1>3, <1>4, <1>5

(* With the first message taken the others move up. *)
LEMMA SequelTaken ==
  ASSUME Typed, NEW b \in Actors, NEW l \in Lanes, wire[b][l] # <<>>,
         wire'[b][l] = Tail(wire[b][l]), Steady(b)
  PROVE  /\ \A i \in 0..(Len(wire[b][l]) - 1) : \A o :
              Sequel(b, l, i + 1, o) => Sequel(b, l, i, o)'
         /\ (\A i \in 1..Len(wire[b][l]) : Sequel(b, l, i, wire[b][l][i].of)) =>
              \A i \in 1..Len(wire'[b][l]) : Sequel(b, l, i, wire[b][l][i].of)'
<1> DEFINE w == wire[b][l]  v == Tail(w)
<1>1. w \in Seq(Message) /\ w # <<>>
  BY DEF Typed, Socketry
<1>2. /\ Len(v) = Len(w) - 1 /\ Len(v) \in Nat /\ Len(w) \in Nat
      /\ \A i \in 1..Len(v) : v[i] = w[i + 1]
  BY <1>1, HeadTailProperties
<1>3. wire'[b][l] = v
  OBVIOUS
<1> HIDE DEF v
<1>4. ASSUME NEW i \in 0..(Len(w) - 1), NEW o, Sequel(b, l, i + 1, o)
      PROVE  Sequel(b, l, i, o)'
  <2>1. CASE i < Len(v)
    <3>0. i + 1 \in 1..Len(v) /\ i + 1 < Len(w)
      BY <1>2, <2>1
    <3>1. i + 1 < Len(w) /\ v[i + 1] = w[(i + 1) + 1]
      BY <1>2, <3>0
    <3>2. w[(i + 1) + 1].count # 0 => w[(i + 1) + 1].of = o
      BY <1>4, <3>1 DEF Sequel
    <3> QED BY <1>3, <2>1, <3>1, <3>2 DEF Sequel
  <2>2. CASE ~(i < Len(v))
    <3>1. ~(i + 1 < Len(w))
      BY <1>2, <2>2
    <3>2. Continues(b) => Number(b) = o
      BY <1>4, <3>1 DEF Sequel
    <3> QED BY <1>3, <2>2, <3>2 DEF Sequel, Steady
  <2> QED BY <2>1, <2>2
<1>5. ASSUME \A i \in 1..Len(w) : Sequel(b, l, i, w[i].of),
             NEW i \in 1..Len(v)
      PROVE  Sequel(b, l, i, wire[b][l][i].of)'
  <2>1. i \in 0..(Len(w) - 1) /\ v[i] = w[i + 1] /\ i + 1 \in 1..Len(w)
    BY <1>2
  <2>2. ASSUME NEW o, o = v[i].of
        PROVE  /\ i < Len(v) => (v[i + 1].count # 0 => v[i + 1].of = o)
               /\ ~(i < Len(v)) => (Continues(b)' => Number(b)' = o)
    <3>1. Sequel(b, l, i + 1, w[i + 1].of)
      BY <1>5, <2>1
    <3>2. Sequel(b, l, i + 1, o)
      BY <2>1, <2>2, <3>1
    <3>3. Sequel(b, l, i, o)'
      BY <1>4, <2>1, <3>2
    <3> QED BY <1>3, <3>3 DEF Sequel
  <2> QED BY <1>3, <2>2 DEF Sequel
<1> QED BY <1>3, <1>4, <1>5

(* A connection that loses its last messages as the socket is destroyed keeps
   the first ones, and nothing more will follow. *)
LEMMA SequelCut ==
  ASSUME Typed, NEW b \in Actors, NEW l \in Lanes,
         NEW k \in 0..Len(wire[b][l]),
         wire'[b][l] = SubSeq(wire[b][l], 1, k), ~Continues(b)'
  PROVE  /\ \A i \in 0..k : \A o : Sequel(b, l, i, o) => Sequel(b, l, i, o)'
         /\ (\A i \in 1..Len(wire[b][l]) : Sequel(b, l, i, wire[b][l][i].of)) =>
              \A i \in 1..Len(wire'[b][l]) : Sequel(b, l, i, wire[b][l][i].of)'
<1> DEFINE w == wire[b][l]  v == SubSeq(w, 1, k)
<1>1. w \in Seq(Message) /\ Len(w) \in Nat
  BY DEF Typed, Socketry
<1>2. Len(v) = k /\ \A i \in 1..k : v[i] = w[i]
  BY <1>1, SubSeqProperties
<1>3. wire'[b][l] = v
  OBVIOUS
<1> HIDE DEF v
<1>4. ASSUME NEW i \in 0..k, NEW o, Sequel(b, l, i, o)
      PROVE  Sequel(b, l, i, o)'
  <2>1. CASE i < k
    <3>0. i + 1 \in 1..k /\ i < Len(w) /\ k \in Nat
      BY <1>1, <2>1
    <3>1. i < Len(w) /\ v[i + 1] = w[i + 1]
      BY <1>2, <3>0
    <3> QED BY <1>2, <1>3, <1>4, <2>1, <3>1 DEF Sequel
  <2>2. CASE ~(i < k)
    BY <1>2, <1>3, <2>2 DEF Sequel
  <2> QED BY <2>1, <2>2
<1>5. ASSUME \A i \in 1..Len(w) : Sequel(b, l, i, w[i].of),
             NEW i \in 1..Len(v)
      PROVE  Sequel(b, l, i, wire[b][l][i].of)'
  <2>1. i \in 0..k /\ v[i] = w[i] /\ i \in 1..Len(w)
    BY <1>1, <1>2
  <2>2. ASSUME NEW o, o = v[i].of
        PROVE  i < Len(v) => (v[i + 1].count # 0 => v[i + 1].of = o)
    <3>1. Sequel(b, l, i, w[i].of)
      BY <1>5, <2>1
    <3>2. Sequel(b, l, i, o)
      BY <2>1, <2>2, <3>1
    <3>3. Sequel(b, l, i, o)'
      BY <1>4, <2>1, <3>2
    <3> QED BY <1>3, <3>3 DEF Sequel
  <2> QED BY <1>3, <2>2 DEF Sequel
<1> QED BY <1>3, <1>4, <1>5

(* A connection on which nothing is sent or taken. *)
LEMMA InRunsSteady ==
  ASSUME Typed, NEW b \in Actors, InRuns(b), sock' = sock,
         wire'[b] = wire[b], sock[b] \in Talkers => Steady(b)
  PROVE  InRuns(b)'
<1> SUFFICES ASSUME sock[b] \in Talkers, NEW l \in Lanes,
                    NEW i \in 1..Len(wire[b][l])
             PROVE  Sequel(b, l, i, wire[b][l][i].of)'
  BY DEF InRuns
<1>1. \A o : Sequel(b, l, i, o) => Sequel(b, l, i, o)'
  BY SequelSteady
<1>2. ASSUME NEW o, o = wire[b][l][i].of
      PROVE  Sequel(b, l, i, o)'
  <2>1. Sequel(b, l, i, o)
    BY <1>2 DEF InRuns
  <2> QED BY <1>1, <2>1
<1> QED BY <1>2 DEF Sequel

(* A receiving end that takes nothing. *)
LEMMA HearingKept ==
  ASSUME NEW a \in Actors, Hearing(a), sock' = sock,
         phase'[a] \in Busy => phase[a] \in Busy,
         run'[a].noos = run[a].noos, run'[a].from = run[a].from,
         phase'[a] = "recv" =>
           (phase[a] = "recv" /\ run'[a].count = run[a].count)
             \/ run'[a].count # 0,
         sock[Peer(a)] \in Talkers => \A l \in Lanes : \A o :
           Sequel(Peer(a), l, 0, o) => Sequel(Peer(a), l, 0, o)'
  PROVE  Hearing(a)'
<1> SUFFICES ASSUME sock[a] \in Listeners, sock[Peer(a)] \in Talkers,
                    phase'[a] \in Busy, run[a].noos = 0, NEW l \in Lanes
             PROVE  \E o \in Nat : OneSource(a, l, o)'
  BY DEF Hearing, Peer
<1>1. PICK o \in Nat : OneSource(a, l, o)
  BY DEF Hearing
<1>2. OneSource(a, l, o)'
  BY <1>1 DEF OneSource, Peer
<1> QED BY <1>2

(* What the other end's step leaves alone. *)
Spared(p) ==
  /\ sock' = sock
  /\ phase'[p] = phase[p] /\ run'[p] = run[p] /\ answers'[p] = answers[p]
  /\ back'[p] = back[p] /\ cmds'[p] = cmds[p] /\ Number(p)' = Number(p)

(* The other end of the one that moves. *)
LEMMA Bystander ==
  ASSUME NEW a \in Actors, NEW p \in Actors, p = Peer(a), Peer(p) = a,
         Spared(p), Good(p),
         sock[a] \in Talkers => \A l \in Lanes : \A o :
           Sequel(a, l, 0, o) => Sequel(a, l, 0, o)'
  PROVE  Turns(p)' /\ Hearing(p)' /\ Told(p)' /\ Steady(p)
<1>1. Turns(p)' /\ Told(p)'
  BY DEF Spared, Good, Turns, Told
<1>2. Steady(p)
  BY DEF Spared, Steady, Continues
<1>3. Hearing(p)'
  BY HearingKept DEF Spared, Good
<1> QED BY <1>1, <1>2, <1>3

(* No step of one end moves the other. *)
LEMMA SparedStep ==
  ASSUME Typed, NEW a \in Actors, NEW p \in Actors, p # a, PerfStep(a)
  PROVE  Spared(p)
<1>1. /\ given' = given /\ sock' = sock
      /\ cmds'[p] = cmds[p] /\ answers'[p] = answers[p]
  <2>1. (cmds' = cmds /\ answers' = answers) \/ Answered(a) \/ Dropped(a)
    BY PipeStep DEF Typed
  <2> QED BY <2>1, PipeStep DEF Answered, Dropped, Typed, Pipework
<1>2. Number(p)' = Number(p)
  BY <1>1 DEF Number, Done
<1>3. ASSUME NEW r, Advance(a, r)
      PROVE  phase'[p] = phase[p] /\ run'[p] = run[p]
  BY <1>3 DEF Advance, Typed, Machine
<1>4. CASE Join(a) \/ Note(a) \/ Term(a) \/ Begin(a) \/ Signal(a)
  BY <1>1, <1>2, <1>4
  DEF Join, Note, Term, Begin, Signal, Finish, Spared, Typed, Machine
<1>5. ASSUME Abort(a), run' = run
      PROVE  phase'[p] = phase[p] /\ run'[p] = run[p]
  BY <1>5 DEF Abort, Typed, Machine
<1>6. CASE Unknown(a) \/ ResetFails(a) \/ SendToNobody(a) \/ RecvOutOfTurn(a)
           \/ SignalUnstarted(a)
  BY <1>1, <1>2, <1>5, <1>6
  DEF Unknown, ResetFails, SendToNobody, RecvOutOfTurn, SignalUnstarted, Spared
<1>7. CASE SendFrame(a) \/ Respond(a) \/ SendOutOfTurn(a)
  <2>1. (Abort(a) /\ run' = run) \/ Advance(a, Sender(a))
    BY <1>7 DEF SendFrame, Respond, SendOutOfTurn, AfterSend
  <2>2. back'[p] = back[p]
    BY <1>7 DEF SendFrame, Respond, SendOutOfTurn, Typed, Socketry
  <2> QED BY <1>1, <1>2, <1>3, <1>5, <2>1, <2>2 DEF Spared
<1>8. CASE RecvFrame(a) \/ SizeMismatch(a)
  <2>1. \/ \E r : Advance(a, r)
        \/ Abort(a) /\ run' = run
        \/ Finish(a) /\ run' = [run EXCEPT ![a] = NoRun]
    BY <1>8 DEF RecvFrame, SizeMismatch
  <2>2. back'[p] = back[p]
    BY <1>8 DEF RecvFrame, SizeMismatch, TakeFrame, Typed, Socketry
  <2>3. phase'[p] = phase[p] /\ run'[p] = run[p]
    BY <1>3, <1>5, <2>1 DEF Finish, Typed, Machine
  <2> QED BY <1>1, <1>2, <2>2, <2>3 DEF Spared
<1> QED BY <1>4, <1>6, <1>7, <1>8 DEF PerfStep

(* Steps that touch no connection. *)
LEMMA RestKeeps ==
  ASSUME Typed, NEW a \in Actors, NEW p \in Actors, p = Peer(a), Peer(p) = a,
         Good(a), Good(p), Spared(p), wire' = wire, back' = back,
         sock[a] \in Talkers => ~Continues(a)',
         phase'[a] \in Busy => run'[a].from = {},
         phase'[a] \in {"idle", "send", "signal"} =>
           phase[a] \in {"idle", "signal"},
         sock[a] \in Listeners => phase'[a] # "send",
         run'[a].from = run[a].from \/ run'[a].from = {},
         Told(a)'
  PROVE  Good(a)' /\ Good(p)'
<1>0. sock' = sock
  BY DEF Spared
<1>1. sock[a] \in Talkers => Steady(a)
  BY DEF Steady
<1>2. InRuns(a)'
  BY <1>0, <1>1, InRunsSteady DEF Good
<1>3. Turns(a)'
  BY <1>0 DEF Good, Turns
<1>4. Hearing(a)'
  <2> SUFFICES ASSUME phase'[a] \in Busy, NEW l \in Lanes
               PROVE  \E o \in Nat : OneSource(a, l, o)'
    BY DEF Hearing
  <2>1. OneSource(a, l, 0)'
    BY DEF OneSource
  <2> QED BY <2>1
<1>5. Silent(a)'
  BY <1>0 DEF Good, Silent, Peer
<1>6. sock[a] \in Talkers => \A l \in Lanes : \A o :
        Sequel(a, l, 0, o) => Sequel(a, l, 0, o)'
  BY <1>1, SequelSteady
<1>7. Turns(p)' /\ Hearing(p)' /\ Told(p)' /\ Steady(p)
  BY <1>6, Bystander
<1>8. InRuns(p)'
  BY <1>0, <1>7, InRunsSteady DEF Good
<1>9. Silent(p)'
  BY DEF Good, Spared, Silent, Peer
<1> QED BY <1>2, <1>3, <1>4, <1>5, <1>7, <1>8, <1>9 DEF Good

(* Commands that are not measurements, and the first and the last step of one
   that is. *)
LEMMA RestStep ==
  ASSUME Typed, AllFit, OneLane, NEW a \in Actors, NEW p \in Actors,
         p = Peer(a), Peer(p) = a, p # a, Good(a), Good(p), PerfStep(a),
         \/ Join(a) \/ Note(a) \/ Begin(a) \/ Signal(a)
         \/ Unknown(a) \/ ResetFails(a) \/ SendToNobody(a) \/ RecvOutOfTurn(a)
         \/ SignalUnstarted(a)
         \/ Abort(a) /\ run' = run /\ wire' = wire /\ back' = back
  PROVE  Good(a)' /\ Good(p)'
<1>0. Spared(p)
  BY SparedStep
<1>1. CASE Join(a) \/ Note(a)
  <2>1. /\ phase[a] = "idle" /\ phase'[a] = "idle" /\ wire' = wire
        /\ back' = back /\ run' = run /\ cmds[a] # <<>>
    BY <1>1 DEF Join, Note, Ready, Finish, Typed, Machine
  <2>2. Told(a)'
    <3>1. CASE Note(a)
      BY <3>1 DEF Note, Good, Told
    <3>2. CASE Join(a)
      <4>1. Tell(a, NoRun) /\ Next1(a).kind \in Joins
        BY <3>2 DEF Join, Ready
      <4>2. PICK x \in Answer :
              /\ x.kind = Next1(a).kind
              /\ answers' = [answers EXCEPT ![a] = Append(@, x)]
        BY <4>1, NoRunType, TellsOne
      <4>3. x.kind \notin Recvs \cup Echos
        BY <4>1, <4>2 DEF Joins, Recvs, Echos
      <4>4. answers'[a] = Append(answers[a], x) /\ answers[a] \in Seq(Answer)
        BY <4>2 DEF Typed, Pipework
      <4> QED BY <4>3, <4>4 DEF Good, Told
    <3> QED BY <1>1, <3>1, <3>2
  <2> QED BY <1>0, <2>1, <2>2, RestKeeps DEF Busy, Continues
<1>2. CASE Begin(a)
  <2>1. /\ phase[a] = "idle" /\ wire' = wire /\ back' = back
        /\ answers' = answers /\ cmds[a] # <<>>
        /\ Next1(a).kind \in Measures
        /\ run'[a] = Reset(a)
        /\ phase'[a] = IF Next1(a).n = 0 THEN "signal"
                       ELSE First(Next1(a).kind)
    BY <1>2 DEF Begin, Ready, Typed, Machine
  <2>2. First(Next1(a).kind) = IF sock[a] \in Talkers THEN "send" ELSE "recv"
    BY <2>1, FitNow, FitKinds
  <2>3. run'[a].from = {} /\ run'[a].out = 0
    BY <2>1 DEF Reset, NoRun
  <2>4. sock[a] \in Types
    BY DEF Typed, Pipework
  <2>5. Told(a)'
    BY <2>1 DEF Good, Told
  <2>6. sock[a] \in Talkers => ~Continues(a)'
    BY <2>1, <2>2, <2>3 DEF Continues
  <2>7. sock[a] \in Listeners => phase'[a] # "send"
    BY <2>1, <2>2, <2>4, SockKind
  <2> QED BY <1>0, <2>1, <2>3, <2>5, <2>6, <2>7, RestKeeps
<1>3. CASE Signal(a)
  <2>1. /\ phase[a] = "signal" /\ phase'[a] = "idle" /\ wire' = wire
        /\ back' = back /\ run'[a] = NoRun /\ Tell(a, run[a])
        /\ run[a] \in Runs /\ cmds[a] # <<>> /\ Next1(a).kind \in Measures
    BY <1>3 DEF Signal, Finish, Typed, Machine
  <2>2. Told(a)'
    <3> DEFINE x == [kind |-> Next1(a).kind, noos |-> run[a].noos,
                     total |-> run[a].total, from |-> run[a].from]
    <3>1. answers' = [answers EXCEPT ![a] = Append(@, x)]
      BY <2>1 DEF Tell
    <3>2. x \in Answer
      BY <2>1 DEF Runs, Answer
    <3>3. x.kind \in Recvs \cup Echos /\ x.noos = 0 =>
            \E o \in Nat : x.from \subseteq {o}
      <4> SUFFICES ASSUME Next1(a).kind \in Recvs \cup Echos, run[a].noos = 0
                   PROVE  \E o \in Nat : run[a].from \subseteq {o}
        OBVIOUS
      <4>1. sock[a] \in Listeners
        BY <2>1, FitNow, FitKinds
      <4>2. CASE sock[p] \in Talkers
        <5>1. PICK l \in Lanes : TRUE
          <6>1. Lanes # {}
            BY FS_EmptySet DEF OneLane
          <6> QED BY <6>1
        <5>2. PICK o \in Nat : OneSource(a, l, o)
          BY <2>1, <4>1, <4>2 DEF Good, Hearing, Busy
        <5> QED BY <5>2 DEF OneSource
      <4>3. CASE sock[p] \in Listeners
        BY <4>1, <4>3 DEF Good, Silent
      <4> QED BY <4>2, <4>3, SockKind DEF Typed, Pipework
    <3> HIDE DEF x
    <3>4. answers'[a] = Append(answers[a], x) /\ answers[a] \in Seq(Answer)
      BY <3>1 DEF Typed, Pipework
    <3> QED BY <3>2, <3>3, <3>4 DEF Good, Told
  <2> QED BY <1>0, <2>1, <2>2, RestKeeps DEF Busy, Continues, NoRun
<1>4. ASSUME Abort(a), run' = run, wire' = wire, back' = back
      PROVE  Good(a)' /\ Good(p)'
  <2>1. phase'[a] = "aborted" /\ answers' = answers
    BY <1>4 DEF Abort, Typed, Machine
  <2>2. Told(a)'
    BY <2>1 DEF Good, Told
  <2> QED BY <1>0, <1>4, <2>1, <2>2, RestKeeps DEF Busy, Continues
<1>5. CASE Unknown(a) \/ ResetFails(a) \/ SendToNobody(a) \/ RecvOutOfTurn(a)
           \/ SignalUnstarted(a)
  BY <1>4, <1>5
  DEF Unknown, ResetFails, SendToNobody, RecvOutOfTurn, SignalUnstarted
<1> QED BY <1>1, <1>2, <1>3, <1>4, <1>5

(* A measurement has its number until its command leaves the pipe. *)
LEMMA SameNumber ==
  ASSUME NEW a \in Actors, cmds' = cmds, given' = given
  PROVE  Number(a)' = Number(a)
BY DEF Number, Done

(* The socket is destroyed and messages may be lost with it. *)
LEMMA TermStep ==
  ASSUME Typed, NEW a \in Actors, NEW p \in Actors, p = Peer(a), Peer(p) = a,
         p # a, Good(a), Good(p), PerfStep(a), Term(a)
  PROVE  Good(a)' /\ Good(p)'
<1>0. Spared(p) /\ sock' = sock
  BY SparedStep DEF PerfStep
<1>1. PICK keep \in [Lanes -> 0..Hwm] :
        /\ \A l \in Lanes : keep[l] <= Len(wire[a][l])
        /\ wire' = [wire EXCEPT ![a] =
                      [l \in Lanes |-> SubSeq(@[l], 1, keep[l])]]
  BY DEF Term
<1>2. /\ phase'[a] = "ended" /\ run' = run /\ answers' = answers
      /\ ~Continues(a)'
  BY DEF Term, Typed, Machine, Continues
<1>3. /\ wire'[p] = wire[p]
      /\ \A l \in Lanes : wire'[a][l] = SubSeq(wire[a][l], 1, keep[l])
  BY <1>1 DEF Typed, Socketry
<1>4. ASSUME NEW l \in Lanes
      PROVE  keep[l] \in 0..Len(wire[a][l])
  <2>1. Len(wire[a][l]) \in Nat /\ keep[l] \in 0..Hwm /\ Hwm \in Nat
    BY DEF Typed, Socketry
  <2> QED BY <1>1, <2>1
<1>5. ASSUME NEW l \in Lanes
      PROVE  /\ \A o : Sequel(a, l, 0, o) => Sequel(a, l, 0, o)'
             /\ (\A i \in 1..Len(wire[a][l]) :
                   Sequel(a, l, i, wire[a][l][i].of)) =>
                  \A i \in 1..Len(wire'[a][l]) :
                    Sequel(a, l, i, wire[a][l][i].of)'
  <2>1. 0 \in 0..keep[l]
    BY <1>4
  <2> QED BY <1>2, <1>3, <1>4, <2>1, SequelCut
<1>6. InRuns(a)'
  BY <1>0, <1>5 DEF Good, InRuns
<1>7. Turns(a)' /\ Hearing(a)' /\ Told(a)'
  BY <1>2 DEF Good, Turns, Hearing, Told, Busy
<1>8. Silent(a)'
  <2> SUFFICES ASSUME sock[a] \in Listeners, sock[p] \in Listeners
               PROVE  /\ phase'[a] # "send" /\ run'[a].from = {}
                      /\ \A l \in Lanes : wire'[a][l] = <<>>
    BY <1>0 DEF Silent, Peer
  <2>1. phase'[a] # "send" /\ run'[a].from = {}
    BY <1>2 DEF Good, Silent
  <2>2. ASSUME NEW l \in Lanes
        PROVE  wire'[a][l] = <<>>
    <3>1. wire[a][l] = <<>>
      BY DEF Good, Silent
    <3>2. keep[l] = 0
      BY <1>4, <3>1
    <3> QED BY <1>3, <3>1, <3>2
  <2> QED BY <2>1, <2>2
<1>9. Turns(p)' /\ Hearing(p)' /\ Told(p)' /\ Steady(p)
  BY <1>0, <1>5, Bystander
<1>10. InRuns(p)'
  BY <1>0, <1>3, <1>9, InRunsSteady DEF Good
<1>11. Silent(p)'
  BY <1>0, <1>3 DEF Good, Spared, Silent, Peer
<1> QED BY <1>6, <1>7, <1>8, <1>9, <1>10, <1>11 DEF Good

(* What is done with the round of the loop that a message ended, or not. *)
LEMMA Advanced ==
  ASSUME Typed, AllFit, NEW a \in Actors, phase[a] \in {"send", "recv"},
         NEW r \in Runs, Advance(a, r)
  PROVE  /\ run'[a].from = r.from /\ run'[a].noos = r.noos
         /\ phase[a] = "recv" => phase'[a] # "recv" \/ run'[a].count # 0
         /\ phase[a] = "send" /\ sock[a] \in Listeners => run'[a].count # 0
         /\ phase[a] = "send" /\ sock[a] \in {"REQ", "DEALER"} =>
              phase'[a] = "recv"
         /\ phase'[a] \in Busy
<1> DEFINE k == r.count + 1
           s == [r EXCEPT !.count = k, !.out = k,
                          !.watch = @ \/ (k = 1 /\ ~LoopEnds(a, k))]
           kind == Next1(a).kind
<1>1. cmds[a] # <<>> /\ kind \in Measures
  BY DEF Typed, Machine
<1>2. kind \in MeasuresOf[sock[a]]
  BY <1>1, FitNow
<1>3. /\ sock[a] \in Talkers => First(kind) = "send"
      /\ sock[a] \in {"REQ", "DEALER"} => kind \notin Sends \cup Recvs
      /\ sock[a] \in Listeners => First(kind) = "recv"
  BY <1>2, FitKinds, SockKind DEF Talkers, Listeners, Typed, Pipework
<1>4. r.count \in Nat /\ k # 0
  BY DEF Runs
<1>5. s.from = r.from /\ s.noos = r.noos /\ s.count = k
  BY DEF Runs
<1>6. CASE ~RoundEnds(a, k)
  <2>1. /\ run'[a] = r
        /\ phase'[a] = IF phase[a] = "send" THEN "recv" ELSE "send"
    BY <1>6 DEF Advance, Typed, Machine
  <2>2. phase[a] = First(kind)
    BY <1>6 DEF RoundEnds
  <2> QED BY <1>3, <2>1, <2>2 DEF Busy
<1>7. CASE RoundEnds(a, k)
  <2>1. run' = [run EXCEPT ![a] = s]
    BY <1>7 DEF Advance
  <2>2. phase' = [phase EXCEPT ![a] =
             IF LoopEnds(a, k) THEN "signal" ELSE First(kind)]
    BY <1>7 DEF Advance
  <2>3. phase'[a] \in Busy
    BY <2>2 DEF Typed, Machine, First, Busy
  <2>4. phase[a] = "send" => sock[a] \notin {"REQ", "DEALER"}
    BY <1>3, <1>7 DEF RoundEnds, Talkers
  <2> HIDE DEF s, k
  <2>5. run'[a] = s
    BY <2>1 DEF Typed, Machine
  <2> QED BY <1>4, <1>5, <2>3, <2>4, <2>5
<1> QED BY <1>6, <1>7

(* A talking end sends. *)
LEMMA SendStep ==
  ASSUME Typed, AllFit, OneLane, NEW a \in Actors, NEW p \in Actors,
         p = Peer(a), Peer(p) = a, p # a, Good(a), Good(p), PerfStep(a),
         SendFrame(a)
  PROVE  Good(a)' /\ Good(p)'
<1>0. Spared(p) /\ sock' = sock
  BY SparedStep DEF PerfStep
<1>1. PICK l \in Lanes :
        wire' = [wire EXCEPT ![a][l] = Append(@, OnWire(a))]
  BY DEF SendFrame
<1>2. /\ phase[a] = "send" /\ sock[a] \in Talkers
      /\ (Abort(a) /\ run' = run) \/ Advance(a, Sender(a))
      /\ cmds' = cmds /\ given' = given /\ answers' = answers
  BY DEF SendFrame, AfterSend, Abort, Talkers
<1>3. cmds[a] # <<>> /\ run[a] \in Runs
  BY <1>2 DEF Typed, Machine
<1>4. Sender(a) \in Runs /\ OnWire(a) \in Message
  BY <1>3, RunTypes DEF Typed, Runs
<1>5. OnWire(a).of = Number(a) /\ OnWire(a).count = run[a].out
  BY DEF OnWire, Number
<1>6. Number(a)' = Number(a)
  BY <1>2, SameNumber
<1>7. wire'[p] = wire[p] /\ wire'[a][l] = Append(wire[a][l], OnWire(a))
  BY <1>1 DEF Typed, Socketry
<1>8. /\ \A i \in 0..Len(wire[a][l]) : \A o :
           Sequel(a, l, i, o) => Sequel(a, l, i, o)'
      /\ (\A i \in 1..Len(wire[a][l]) : Sequel(a, l, i, wire[a][l][i].of)) =>
           \A i \in 1..Len(wire'[a][l]) : Sequel(a, l, i, wire[a][l][i].of)'
  BY <1>2, <1>4, <1>5, <1>6, <1>7, SequelSent DEF Continues
<1>9. \A m \in Lanes : m = l
  BY TheLane
<1>10. InRuns(a)'
  BY <1>0, <1>2, <1>8, <1>9 DEF Good, InRuns
<1>11. Turns(a)'
  <2>1. CASE Abort(a)
    BY <2>1 DEF Abort, Turns, Typed, Machine
  <2>2. CASE Advance(a, Sender(a))
    <3>1. sock[a] = "REQ" => phase'[a] = "recv"
      BY <1>2, <1>4, <2>2, Advanced
    <3> QED BY <1>0, <3>1 DEF Turns
  <2> QED BY <1>2, <2>1, <2>2
<1>12. Hearing(a)' /\ Silent(a)' /\ Silent(p)'
  BY <1>0, <1>2, SockKind
     DEF Hearing, Silent, Peer, Talkers, Listeners
<1>13. Told(a)'
  BY <1>2 DEF Good, Told
<1>14. \A m \in Lanes : \A o : Sequel(a, m, 0, o) => Sequel(a, m, 0, o)'
  <2>1. 0 \in 0..Len(wire[a][l])
    BY DEF Typed, Socketry
  <2> QED BY <1>8, <1>9, <2>1
<1>15. Turns(p)' /\ Hearing(p)' /\ Told(p)' /\ Steady(p)
  BY <1>0, <1>14, Bystander
<1>16. InRuns(p)'
  BY <1>0, <1>7, <1>15, InRunsSteady DEF Good
<1> QED BY <1>10, <1>11, <1>12, <1>13, <1>15, <1>16 DEF Good

(* A listening end echoes, or fails to. *)
LEMMA AnswerStep ==
  ASSUME Typed, AllFit, OneLane, NEW a \in Actors, NEW p \in Actors,
         p = Peer(a), Peer(p) = a, p # a, Good(a), Good(p), PerfStep(a),
         Respond(a) \/ SendOutOfTurn(a)
  PROVE  Good(a)' /\ Good(p)'
<1>0. Spared(p) /\ sock' = sock
  BY SparedStep DEF PerfStep
<1>1. /\ phase[a] = "send" /\ answers' = answers
      /\ (Abort(a) /\ run' = run) \/ Advance(a, Sender(a))
      /\ sock[a] \in {"REP", "ROUTER"}
           \/ (sock[a] = "REQ" /\ back[a] # None)
  BY DEF Respond, SendOutOfTurn, AfterSend, Abort
<1>2. /\ sock[a] \in Listeners /\ sock[a] \notin Talkers
      /\ sock[a] # "REQ"
  BY <1>1 DEF Good, Turns, Listeners, Talkers
<1>3. wire'[p] = wire[p]
  BY DEF Respond, SendOutOfTurn, Typed, Socketry
<1>4. InRuns(a)' /\ Turns(a)' /\ Told(a)'
  BY <1>0, <1>1, <1>2 DEF Good, InRuns, Turns, Told
<1>5. sock[p] \in Talkers
  BY <1>1, <1>2, SockKind DEF Good, Silent, Typed, Pipework
<1>6. Silent(a)' /\ Silent(p)'
  BY <1>0, <1>5, SockKind DEF Silent, Peer, Talkers, Listeners
<1>7. Turns(p)' /\ Hearing(p)' /\ Told(p)' /\ Steady(p)
  BY <1>0, <1>2, Bystander
<1>8. InRuns(p)'
  BY <1>0, <1>3, <1>7, InRunsSteady DEF Good
<1>9. \A l \in Lanes : \A o : Sequel(p, l, 0, o) => Sequel(p, l, 0, o)'
  BY <1>3, <1>7, SequelSteady
<1>10. Hearing(a)'
  <2>1. CASE Abort(a)
    BY <2>1 DEF Abort, Hearing, Busy, Typed, Machine
  <2>2. CASE Advance(a, Sender(a))
    <3>1. cmds[a] # <<>> /\ run[a] \in Runs
      BY <1>1 DEF Typed, Machine
    <3>2. Sender(a) \in Runs
      BY <3>1, RunTypes DEF Typed
    <3>3. Sender(a).from = run[a].from /\ Sender(a).noos = run[a].noos
      BY <3>1 DEF Sender, Runs
    <3>4. /\ run'[a].from = run[a].from /\ run'[a].noos = run[a].noos
          /\ run'[a].count # 0
      BY <1>1, <1>2, <2>2, <3>2, <3>3, Advanced
    <3>5. phase[a] \in Busy
      BY <1>1 DEF Busy
    <3> QED BY <1>0, <1>9, <3>4, <3>5, HearingKept DEF Good
  <2> QED BY <1>1, <2>1, <2>2
<1> QED BY <1>4, <1>6, <1>7, <1>8, <1>10 DEF Good

(* A message of the only connection is taken. *)
LEMMA TakeKeeps ==
  ASSUME Typed, OneLane, NEW a \in Actors, NEW p \in Actors,
         p = Peer(a), Peer(p) = a, p # a, Good(a), Good(p), Spared(p),
         NEW l \in Lanes, TakeFrame(a, l), answers' = answers,
         sock[a] \in Talkers => Steady(a)
  PROVE  /\ sock[a] \in Talkers \/ sock[p] \in Talkers
         /\ InRuns(a)' /\ Turns(a)' /\ Silent(a)' /\ Told(a)'
         /\ Good(p)'
         /\ sock[p] \in Talkers => \A o :
              o = Head(wire[p][l]).of => Sequel(p, l, 0, o)'
<1>0. sock' = sock /\ \A m \in Lanes : m = l
  BY TheLane DEF Spared
<1>1. /\ phase[a] = "recv" /\ wire[p][l] # <<>>
      /\ wire' = [wire EXCEPT ![p][l] = Tail(@)]
      /\ sock[a] = "REQ" => back'[a] = None
  BY DEF TakeFrame, Typed, Socketry
<1>2. wire'[a] = wire[a] /\ wire'[p][l] = Tail(wire[p][l])
  BY <1>1 DEF Typed, Socketry
<1>3. sock[a] \in Talkers \/ sock[p] \in Talkers
  BY <1>1, SockKind DEF Good, Silent, Typed, Pipework
<1>4. Silent(a)' /\ Silent(p)'
  BY <1>0, <1>3 DEF Silent, Peer, Talkers, Listeners
<1>5. InRuns(a)' /\ Turns(a)' /\ Told(a)'
  BY <1>0, <1>1, <1>2, InRunsSteady DEF Good, Turns, Told
<1>6. Turns(p)' /\ Hearing(p)' /\ Told(p)' /\ Steady(p)
  BY <1>2, SequelSteady, Bystander
<1>7. /\ \A i \in 0..(Len(wire[p][l]) - 1) : \A o :
           Sequel(p, l, i + 1, o) => Sequel(p, l, i, o)'
      /\ (\A i \in 1..Len(wire[p][l]) : Sequel(p, l, i, wire[p][l][i].of)) =>
           \A i \in 1..Len(wire'[p][l]) : Sequel(p, l, i, wire[p][l][i].of)'
  BY <1>1, <1>2, <1>6, SequelTaken
<1>8. InRuns(p)'
  BY <1>0, <1>7 DEF Good, InRuns
<1>9. ASSUME sock[p] \in Talkers, NEW o, o = Head(wire[p][l]).of
      PROVE  Sequel(p, l, 0, o)'
  <2>1. /\ 1 \in 1..Len(wire[p][l]) /\ Head(wire[p][l]) = wire[p][l][1]
        /\ 0 \in 0..(Len(wire[p][l]) - 1)
    BY <1>1 DEF Typed, Socketry
  <2>2. Sequel(p, l, 1, o)
    BY <1>9, <2>1 DEF Good, InRuns
  <2>3. Sequel(p, l, 0 + 1, o)
    BY <2>2
  <2> QED BY <1>7, <2>1, <2>3
<1> QED BY <1>3, <1>4, <1>5, <1>6, <1>8, <1>9 DEF Good

(* A message of the right size is counted. *)
LEMMA RecvStep ==
  ASSUME Typed, AllFit, OneLane, NEW a \in Actors, NEW p \in Actors,
         p = Peer(a), Peer(p) = a, p # a, Good(a), Good(p), PerfStep(a),
         RecvFrame(a)
  PROVE  Good(a)' /\ Good(p)'
<1>0. Spared(p) /\ sock' = sock
  BY SparedStep DEF PerfStep
<1>1. PICK l \in Lanes :
        /\ TakeFrame(a, l)
        /\ Advance(a, Receives(a, Head(wire[p][l])))
        /\ cmds' = cmds /\ given' = given /\ answers' = answers
  BY DEF RecvFrame
<1> DEFINE got == Head(wire[p][l])
<1>2. phase[a] = "recv" /\ wire[p][l] # <<>> /\ wire[p][l] \in Seq(Message)
  BY <1>1 DEF TakeFrame, Typed, Socketry
<1>3. cmds[a] # <<>> /\ run[a] \in Runs
  BY <1>2 DEF Typed, Machine
<1>4. got \in Message /\ got.of \in Nat /\ got = wire[p][l][1]
      /\ 0 < Len(wire[p][l])
  <2> DEFINE w == wire[p][l]
  <2>1. w \in Seq(Message) /\ w # <<>>
    BY <1>2
  <2> HIDE DEF w
  <2>2. Head(w) \in Message /\ Head(w) = w[1] /\ 0 < Len(w)
    BY <2>1
  <2>3. \A m \in Message : m.of \in Nat
    BY DEF Message
  <2> QED BY <2>2, <2>3 DEF w
<1>5. Receives(a, got) \in Runs
  BY <1>3, <1>4, RunTypes DEF Typed
<1>6. Steady(a)
  BY <1>1, <1>2, SameNumber DEF Steady, Continues
<1>7. /\ InRuns(a)' /\ Turns(a)' /\ Silent(a)' /\ Told(a)' /\ Good(p)'
      /\ sock[p] \in Talkers => \A o : o = got.of => Sequel(p, l, 0, o)'
  BY <1>0, <1>1, <1>6, TakeKeeps
<1>8. Hearing(a)'
  <2> HIDE DEF got
  <2>1. /\ run'[a].from = Receives(a, got).from
        /\ run'[a].noos = Receives(a, got).noos
        /\ phase'[a] # "recv" \/ run'[a].count # 0
    BY <1>1, <1>2, <1>5, Advanced DEF got
  <2>2. /\ Receives(a, got).from = run[a].from \cup {got.of}
        /\ Receives(a, got).noos = 0 =>
             run[a].noos = 0 /\ got.count = run[a].count
    BY <1>3 DEF Receives, Runs
  <2> SUFFICES ASSUME sock[a] \in Listeners, sock[p] \in Talkers,
                      run'[a].noos = 0, NEW m \in Lanes
               PROVE  \E o \in Nat : OneSource(a, m, o)'
    BY <1>0 DEF Hearing, Peer
  <2>3. m = l
    BY TheLane
  <2>4. run[a].noos = 0 /\ got.count = run[a].count
    BY <2>1, <2>2
  <2>5. PICK o \in Nat : OneSource(a, l, o)
    BY <1>2, <2>4 DEF Good, Hearing, Busy
  <2>6. run[a].from \subseteq {got.of}
    <3> SUFFICES ASSUME run[a].from # {} PROVE got.of = o
      BY <2>5 DEF OneSource
    <3>1. Sequel(p, l, 0, o) /\ run[a].count # 0
      BY <1>2, <2>5 DEF OneSource
    <3>2. wire[p][l][0 + 1] = got
      BY <1>4 DEF got
    <3> QED BY <1>4, <2>4, <3>1, <3>2 DEF Sequel
  <2>7. ASSUME NEW q, q = got.of
        PROVE  OneSource(a, l, q)'
    <3>1. Sequel(p, l, 0, q)'
      BY <1>7, <2>7
    <3>2. run'[a].from \subseteq {q}
      BY <2>1, <2>2, <2>6, <2>7
    <3> QED BY <2>1, <3>1, <3>2 DEF OneSource, Peer
  <2>8. got.of \in Nat
    BY <1>4 DEF got
  <2>9. PICK q \in Nat : q = got.of
    BY <2>8
  <2> QED BY <2>3, <2>7, <2>9
<1> QED BY <1>7, <1>8 DEF Good

(* A message of the wrong size ends the measurement without a result. *)
LEMMA MismatchStep ==
  ASSUME Typed, AllFit, OneLane, NEW a \in Actors, NEW p \in Actors,
         p = Peer(a), Peer(p) = a, p # a, Good(a), Good(p), PerfStep(a),
         SizeMismatch(a)
  PROVE  Good(a)' /\ Good(p)'
<1>0. Spared(p) /\ sock' = sock
  BY SparedStep DEF PerfStep
<1>1. PICK l \in Lanes : TakeFrame(a, l)
  BY DEF SizeMismatch
<1>2. phase'[a] \in {"idle", "aborted"} /\ answers' = answers
  BY DEF SizeMismatch, Abort, Finish, Typed, Machine
<1>3. Steady(a)
  BY <1>2 DEF Steady, Continues
<1>4. InRuns(a)' /\ Turns(a)' /\ Silent(a)' /\ Told(a)' /\ Good(p)'
  BY <1>0, <1>1, <1>2, <1>3, TakeKeeps
<1>5. Hearing(a)'
  BY <1>2 DEF Hearing, Busy
<1> QED BY <1>4, <1>5 DEF Good

(* Every step of an actor. *)
LEMMA GoodStep ==
  ASSUME Typed, AllFit, OneLane, NEW a \in Actors,
         \A b \in Actors : Good(b), PerfStep(a)
  PROVE  \A b \in Actors : Good(b)'
<1>1. PICK p \in Actors : p = Peer(a) /\ Peer(p) = a /\ p # a
  BY Peers
<1>2. Good(a) /\ Good(p)
  OBVIOUS
<1>3. Good(a)' /\ Good(p)'
  <2>1. CASE Join(a) \/ Note(a) \/ Begin(a) \/ Signal(a)
             \/ Unknown(a) \/ ResetFails(a) \/ SendToNobody(a)
             \/ RecvOutOfTurn(a) \/ SignalUnstarted(a)
    BY <1>1, <1>2, <2>1, RestStep
  <2>2. CASE Term(a)
    BY <1>1, <1>2, <2>2, TermStep
  <2>3. CASE SendFrame(a)
    BY <1>1, <1>2, <2>3, SendStep
  <2>4. CASE Respond(a) \/ SendOutOfTurn(a)
    BY <1>1, <1>2, <2>4, AnswerStep
  <2>5. CASE RecvFrame(a)
    BY <1>1, <1>2, <2>5, RecvStep
  <2>6. CASE SizeMismatch(a)
    BY <1>1, <1>2, <2>6, MismatchStep
  <2> QED BY <2>1, <2>2, <2>3, <2>4, <2>5, <2>6 DEF PerfStep
<1> QED BY <1>1, <1>3, Ends

(* What no measurement sees changes nothing. *)
LEMMA StillGood ==
  ASSUME Typed, \A b \in Actors : Good(b),
         UNCHANGED <<sock, answers, phase, run, back, wire>>,
         \A b \in Actors : Number(b)' = Number(b)
  PROVE  \A b \in Actors : Good(b)'
<1> SUFFICES ASSUME NEW b \in Actors PROVE Good(b)'
  OBVIOUS
<1>1. Peer(b) \in Actors
  BY Peers
<1>2. ASSUME NEW x \in Actors
      PROVE  Continues(x)' <=> Continues(x)
  BY DEF Continues
<1>3. ASSUME NEW x \in Actors, NEW l, NEW i, NEW o
      PROVE  Sequel(x, l, i, o)' <=> Sequel(x, l, i, o)
  BY <1>2 DEF Sequel
<1>4. InRuns(b)'
  BY <1>2, InRunsSteady DEF Good, Steady
<1>5. Hearing(b)'
  BY <1>1, <1>3, HearingKept DEF Good
<1>6. Turns(b)' /\ Silent(b)' /\ Told(b)'
  BY DEF Good, Turns, Silent, Told, Peer
<1> QED BY <1>4, <1>5, <1>6 DEF Good

(* A command that is given leaves the number of the one that is run. *)
LEMMA GiveNumber ==
  ASSUME Typed, NEW a \in Actors, NEW c \in Command, Gives(a, c),
         NEW x \in Actors
  PROVE  Number(x)' = Number(x)
<1>0. /\ cmds' = [cmds EXCEPT ![a] = Append(@, c)]
      /\ given' = [given EXCEPT ![a] = Append(@, c)]
  BY DEF Gives, Submit
<1>1. cmds[x] \in Seq(Command) /\ given[x] \in Seq(Command)
  BY DEF Typed, Pipework
<1>2. \/ cmds'[x] = cmds[x] /\ given'[x] = given[x]
      \/ /\ cmds'[x] = Append(cmds[x], c)
         /\ given'[x] = Append(given[x], c)
  BY <1>0 DEF Typed, Pipework
<1>3. /\ Len(Append(cmds[x], c)) = Len(cmds[x]) + 1 /\ Len(cmds[x]) \in Nat
      /\ Len(Append(given[x], c)) = Len(given[x]) + 1 /\ Len(given[x]) \in Nat
  BY <1>1, AppendProperties
<1>4. CASE cmds'[x] = cmds[x] /\ given'[x] = given[x]
  BY <1>4 DEF Number, Done
<1>5. CASE /\ cmds'[x] = Append(cmds[x], c)
           /\ given'[x] = Append(given[x], c)
  <2> DEFINE m == Len(cmds[x])  n == Len(given[x])
             i == Len(cmds'[x])  j == Len(given'[x])
  <2>1. i = m + 1 /\ j = n + 1 /\ m \in Nat /\ n \in Nat
    BY <1>3, <1>5
  <2>2. Number(x) = (n - m) + 1 /\ Number(x)' = (j - i) + 1
    BY DEF Number, Done
  <2> HIDE DEF m, n, i, j
  <2> QED BY <2>1, <2>2
<1> QED BY <1>2, <1>4, <1>5

(* The owner gives a command. *)
LEMMA GiveStep ==
  ASSUME Typed, NEW a \in Actors, NEW c \in Command, Gives(a, c),
         sock' = sock, \A b \in Actors : Good(b)
  PROVE  \A b \in Actors : Good(b)'
<1>1. /\ cmds' = [cmds EXCEPT ![a] = Append(@, c)]
      /\ given' = [given EXCEPT ![a] = Append(@, c)]
      /\ UNCHANGED <<answers, phase, run, joined, back, wire>>
  BY DEF Gives, Submit
<1>2. \A x \in Actors : Number(x)' = Number(x)
  BY GiveNumber
<1> QED BY <1>1, <1>2, StillGood

(* What does not fit stays among the commands. *)
LEMMA FitBefore ==
  ASSUME Typed, [AnyNext]_vars, AllFit'
  PROVE  AllFit
<1>1. CASE given' = given /\ sock' = sock
  BY <1>1 DEF AllFit, Fits
<1>2. ASSUME NEW a \in Actors, NEW c, Gives(a, c), sock' = sock
      PROVE  AllFit
  <2> SUFFICES ASSUME NEW b \in Actors, NEW i \in DOMAIN given[b]
               PROVE  Fits(b, given[b][i])
    BY DEF AllFit
  <2>1. /\ given' = [given EXCEPT ![a] = Append(@, c)]
        /\ given[b] \in Seq(Command)
    BY <1>2 DEF Gives, Submit, Typed, Pipework
  <2>2. i \in DOMAIN given'[b] /\ given'[b][i] = given[b][i]
    BY <2>1 DEF Typed, Pipework
  <2>3. Fits(b, given[b][i])'
    BY <2>2 DEF AllFit
  <2> QED BY <1>2, <2>2, <2>3 DEF AllFit, Fits
<1>3. ASSUME NEW a \in Actors, PerfStep(a)
      PROVE  given' = given /\ sock' = sock
  BY <1>3, PipeStep DEF Typed
<1> QED BY <1>1, <1>2, <1>3 DEF AnyNext, vars

(* The invariant holds first ... *)
LEMMA OrderInit == Init => Ordered
<1> SUFFICES ASSUME Init, NEW a \in Actors PROVE Good(a)
  BY DEF Ordered
<1>1. Peer(a) \in Actors
  BY Peers
<1>2. Continues(a) = FALSE /\ Continues(Peer(a)) = FALSE
  BY <1>1 DEF Init, Continues
<1>3. InRuns(a) /\ Turns(a) /\ Told(a)
  BY DEF Init, InRuns, Turns, Told
<1>4. Silent(a)
  BY DEF Init, Silent, NoRun
<1>5. Hearing(a)
  BY DEF Init, Hearing, Busy
<1> QED BY <1>3, <1>4, <1>5 DEF Good

(* ... and is kept by every step. *)
LEMMA OrderNext == Typed /\ Ordered /\ [AnyNext]_vars => Ordered'
<1> SUFFICES ASSUME Typed, Ordered, [AnyNext]_vars, OneLane, AllFit'
             PROVE  \A b \in Actors : Good(b)'
  BY DEF Ordered, OneLane
<1>1. AllFit /\ \A b \in Actors : Good(b)
  BY FitBefore DEF Ordered
<1>2. ASSUME NEW a \in Actors, NEW c \in Command,
             Gives(a, c), sock' = sock
      PROVE  \A b \in Actors : Good(b)'
  BY <1>1, <1>2, GiveStep
<1>3. ASSUME NEW a \in Actors, PerfStep(a)
      PROVE  \A b \in Actors : Good(b)'
  BY <1>1, <1>3, GoodStep
<1>4. CASE UNCHANGED vars
  <2>1. UNCHANGED <<sock, answers, phase, run, back, wire, cmds, given>>
    BY <1>4 DEF vars
  <2>2. \A x \in Actors : Number(x)' = Number(x)
    BY <2>1, SameNumber
  <2> QED BY <1>1, <2>1, <2>2, StillGood
<1> QED BY <1>2, <1>3, <1>4 DEF AnyNext

(* Over one connection, with commands that fit the sockets, the result of a
   receiving end with no message out of order counted messages of one
   measurement of the other end only: for any commands given at any time, any
   number of messages in any measurement, and any high-water mark. *)
THEOREM NoosCountsOneMeasurement == Spec => []NoosDetectsMixing
<1>1. Ordered => NoosDetectsMixing
  <2> SUFFICES ASSUME Ordered, OneLane, AllFit, NEW a \in Actors,
                      NEW i \in DOMAIN answers[a],
                      answers[a][i].kind \in Recvs \cup Echos,
                      answers[a][i].noos = 0
               PROVE  Cardinality(answers[a][i].from) <= 1
    BY DEF NoosDetectsMixing, AllFit
  <2>1. PICK o \in Nat : answers[a][i].from \subseteq {o}
    BY DEF Ordered, Good, Told
  <2> DEFINE from == answers[a][i].from
  <2>2. from = {} \/ from = {o}
    BY <2>1
  <2> HIDE DEF from
  <2>3. Cardinality({}) = 0 /\ Cardinality({o}) = 1
    BY FS_EmptySet, FS_Singleton, Zenon
  <2>4. Cardinality(from) = 0 \/ Cardinality(from) = 1
    BY <2>2, <2>3, Zenon
  <2>5. Cardinality(from) <= 1
    BY <2>4
  <2> QED BY <2>5 DEF from
<1> QED BY <1>1, TypesAlways, OrderInit, OrderNext, SpecIsAny, PTL DEF AnySpec
====
