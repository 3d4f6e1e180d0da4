----------------------------- MODULE PerfActor -----------------------------
(***************************************************************************)
(* Two perf actors (perf.cpp) whose measurement sockets are connected to   *)
(* each other.  Each runs the commands of its pipe one after the other in  *)
(* its own thread; a measurement is a loop of blocking sends and receives  *)
(* of counted messages, and ends with one answer on the pipe, with none    *)
(* when a message had the wrong size, or with the death of the process.    *)
(*                                                                         *)
(* ZeroMQ is external: a connection is a FIFO that holds Hwm messages, a   *)
(* REQ or REP socket sends and receives in turn, a ROUTER needs the id     *)
(* frame of the peer.  A message is [count, size]; "of" is history.        *)
(***************************************************************************)
EXTENDS Naturals, Sequences, FiniteSets

CONSTANTS
  Actors,    \* the two ends
  SockPairs, \* the pairs of socket types the ends may be created with
  Offers,    \* socket type -> commands the owner may give after the first
  Lanes,     \* connections between the sockets (zperfcli: nconnects)
  Hwm,       \* messages a connection holds
  MaxCmds,   \* bound: commands an owner gives
  None

Sends  == {"SEND", "STHR"}
Recvs  == {"RECV", "RTHR"}
Yodels == {"YODEL", "RLAT"}
Echos  == {"ECHO", "SLAT"}
Measures == Sends \cup Recvs \cup Yodels \cup Echos
LibZmq == {"SLAT", "RLAT", "STHR", "RTHR"}
Joins == {"BIND", "CONNECT"}
Notes == {"BATCH", "VERBOSE"}
Kinds == Measures \cup Joins \cup Notes \cup {"$TERM", "OTHER"}
Types == {"PUSH", "PULL", "REQ", "REP", "DEALER", "ROUTER"}
Command == [kind : Kinds, n : Nat, size : Nat]

ASSUME ActorConstants ==
  /\ \E a, b \in Actors : a # b /\ Actors = {a, b}
  /\ SockPairs \subseteq [Actors -> Types]
  /\ Offers \in [Types -> SUBSET Command]
  /\ \A t \in Types : \A c \in Offers[t] :
       /\ c.kind \notin Joins
       /\ t = "PUSH" => c.kind \notin Recvs \cup Yodels \cup Echos
       /\ t = "PULL" => c.kind \notin Sends \cup Yodels \cup Echos
       /\ t \in {"DEALER", "ROUTER"} => c.kind \notin LibZmq
  /\ IsFiniteSet(Lanes) /\ None \notin Lanes
  /\ Hwm \in Nat \ {0}
  /\ MaxCmds \in Nat

VARIABLES
  sock,    \* actor -> type of its measurement socket
  cmds,    \* actor -> commands in its pipe, the one being run included
  answers, \* actor -> what it has written to the pipe
  phase,   \* "idle", the next step of a measurement, "ended" or "aborted"
  run,     \* actor -> the fields s_reset clears
  joined,  \* actor -> how its socket is joined to the other, or None
  back,    \* ROUTER: connection of idframe; REP, REQ: where the answer goes
           \* or comes from
  wire,    \* actor -> connection -> messages it sent, not yet received
  given,   \* history: actor -> commands its owner gave
  apart    \* history: every measurement was given when both ends had finished
           \* the ones before

vars == <<sock, cmds, answers, phase, run, joined, back, wire, given, apart>>

Peer(a) == CHOOSE b \in Actors : b # a

Linked == \A a \in Actors : joined[a] # None

(* A socket that has bound reaches nobody before the other end connects. *)
Reaches(a) == joined[a] = "CONNECT" \/ (joined[a] = "BIND" /\ Linked)

(* out is the count the next message is sent with, watch the stopwatch. *)
Runs == [count : Nat, out : Nat, noos : Nat, total : Nat, watch : BOOLEAN,
         from : SUBSET Nat]
NoRun == [count |-> 0, out |-> 0, noos |-> 0, total |-> 0, watch |-> FALSE,
          from |-> {}]
Phases == {"idle", "send", "recv", "signal", "ended", "aborted"}
Message == [count : Nat, size : Nat, of : Nat]
Answer == [kind : Joins \cup Measures, noos : Nat, total : Nat,
           from : SUBSET Nat]

Init ==
  /\ sock \in SockPairs
  /\ cmds = [a \in Actors |-> <<>>]
  /\ answers = [a \in Actors |-> <<>>]
  /\ phase = [a \in Actors |-> "idle"]
  /\ run = [a \in Actors |-> NoRun]
  /\ joined = [a \in Actors |-> None]
  /\ back = [a \in Actors |-> None]
  /\ wire = [a \in Actors |-> [l \in Lanes |-> <<>>]]
  /\ given = [a \in Actors |-> <<>>]
  /\ apart = TRUE

-----------------------------------------------------------------------------
(* The owner *)

Done(a) == Len(given[a]) - Len(cmds[a])

Measured(commands) ==
  Cardinality({i \in DOMAIN commands : commands[i].kind \in Measures})

Submit(a, c) ==
  /\ cmds' = [cmds EXCEPT ![a] = Append(@, c)]
  /\ given' = [given EXCEPT ![a] = Append(@, c)]
  /\ apart' = (apart /\ (c.kind \in Measures => \A b \in Actors :
       Measured(SubSeq(given[b], 1, Done(b))) >= Measured(given[a])))
  /\ UNCHANGED <<answers, phase, run, joined, back, wire>>

(* Owners bind one end and connect the other, first and once (s_bookends,
   zperfcli); CONNECT stands for the connects to all the lanes. *)
Give(a, c) ==
  /\ Len(given[a]) < MaxCmds
  /\ phase[a] \notin {"ended", "aborted"}
  /\ \A i \in 1..Len(cmds[a]) : cmds[a][i].kind # "$TERM"
  /\ given[a] = <<>> <=> c.kind \in Joins
  /\ c.kind \in Joins /\ given[Peer(a)] # <<>> =>
       given[Peer(a)][1].kind # c.kind
  /\ Submit(a, c)

-----------------------------------------------------------------------------
(* perf_recv_api: commands that are not measurements *)

Next1(a) == Head(cmds[a])

Ready(a, kinds) ==
  phase[a] = "idle" /\ cmds[a] # <<>> /\ Next1(a).kind \in kinds

(* Mutants: the loop of perf_actor goes on in the measurement, or with the
   same command. *)
FinishInPhase(a) ==
  cmds' = [cmds EXCEPT ![a] = Tail(@)] /\ UNCHANGED phase
FinishAgain(a) == phase' = [phase EXCEPT ![a] = "idle"] /\ UNCHANGED cmds

Finish(a) ==
  /\ cmds' = [cmds EXCEPT ![a] = Tail(@)]
  /\ phase' = [phase EXCEPT ![a] = "idle"]

Tell(a, r) ==
  answers' = [answers EXCEPT ![a] =
    Append(@, [kind |-> Next1(a).kind, noos |-> r.noos, total |-> r.total,
               from |-> r.from])]

(* zsock_bind and zsock_connect may fail, and are answered either way. *)
Join(a) ==
  /\ Ready(a, Joins)
  /\ Finish(a)
  /\ Tell(a, NoRun)
  /\ joined' \in {joined, [joined EXCEPT ![a] = Next1(a).kind]}
  /\ UNCHANGED <<run, back, wire, given, apart>>

Note(a) ==
  /\ Ready(a, Notes)
  /\ Finish(a)
  /\ UNCHANGED <<answers, run, joined, back, wire, given, apart>>

(* perf_destroy: zsock_destroy does not linger, what is queued may be lost. *)
Term(a) ==
  /\ Ready(a, {"$TERM"})
  /\ cmds' = [cmds EXCEPT ![a] = Tail(@)]
  /\ phase' = [phase EXCEPT ![a] = "ended"]
  /\ joined' = [joined EXCEPT ![a] = None]
  /\ \E keep \in [Lanes -> 0..Hwm] :
       /\ \A l \in Lanes : keep[l] <= Len(wire[a][l])
       /\ wire' = [wire EXCEPT ![a] =
                     [l \in Lanes |-> SubSeq(@[l], 1, keep[l])]]
  /\ UNCHANGED <<answers, run, back, given, apart>>

Abort(a) ==
  /\ phase' = [phase EXCEPT ![a] = "aborted"]
  /\ UNCHANGED <<cmds, answers, joined, given, apart>>

Unknown(a) ==
  /\ Ready(a, {"OTHER"})
  /\ Abort(a)
  /\ UNCHANGED <<run, back, wire>>

-----------------------------------------------------------------------------
(* Measurements: s_reset and the head of the loop *)

First(kind) == IF kind \in Echos \cup Recvs THEN "recv" ELSE "send"

StartsLate == {"ECHO", "RECV", "RTHR"}

(* Mutant: the loop begins at one. *)
ResetToOne(a) ==
  [NoRun EXCEPT !.watch = Next1(a).kind \notin StartsLate, !.count = 1]

Reset(a) == [NoRun EXCEPT !.watch = Next1(a).kind \notin StartsLate]

Begin(a) ==
  /\ Ready(a, Measures)
  /\ sock[a] = "ROUTER" => back[a] = None
  /\ run' = [run EXCEPT ![a] = Reset(a)]
  /\ phase' = [phase EXCEPT ![a] =
       IF Next1(a).n = 0 THEN "signal" ELSE First(Next1(a).kind)]
  /\ UNCHANGED <<cmds, answers, joined, back, wire, given, apart>>

(* assert (!self->idframe) fails. *)
ResetFails(a) ==
  /\ Ready(a, Measures)
  /\ sock[a] = "ROUTER" /\ back[a] # None
  /\ Abort(a)
  /\ UNCHANGED <<run, back, wire>>

(* Mutants: YODEL does not wait for the last echo; a loop of one message
   less; RECV alone is one short; RECV tests count <= nmsgs. *)
RoundEndsEarly(a, k) ==
  \/ phase[a] # First(Next1(a).kind)
  \/ Next1(a).kind \in Sends \cup Recvs
  \/ phase[a] = "send" /\ k = Next1(a).n
LoopEndsEarly(a, k) == k + 1 >= Next1(a).n
LoopEndsShort(a, k) ==
  k = Next1(a).n - IF Next1(a).kind = "RECV" THEN 1 ELSE 0
LoopEndsLate(a, k) ==
  k = Next1(a).n + IF Next1(a).kind = "RECV" THEN 1 ELSE 0

RoundEnds(a, k) ==
  \/ phase[a] # First(Next1(a).kind)
  \/ Next1(a).kind \in Sends \cup Recvs

LoopEnds(a, k) == k = Next1(a).n

(* The message is dealt with: the next step of the same round of the loop,
   the next round, which may start the stopwatch, or s_signal. *)
Advance(a, r) ==
  LET k == r.count + 1 IN
     IF ~RoundEnds(a, k)
     THEN /\ run' = [run EXCEPT ![a] = r]
          /\ phase' = [phase EXCEPT ![a] =
                         IF phase[a] = "send" THEN "recv" ELSE "send"]
     ELSE /\ run' = [run EXCEPT ![a] =
                       [r EXCEPT !.count = k, !.out = k,
                                 !.watch = @ \/ (k = 1 /\ ~LoopEnds(a, k))]]
          /\ phase' = [phase EXCEPT ![a] =
               IF LoopEnds(a, k) THEN "signal" ELSE First(Next1(a).kind)]

-----------------------------------------------------------------------------
(* s_send, and the sends of the libzmq variants *)

Sender(a) ==
  LET cmd == Next1(a) IN
  [run[a] EXCEPT !.total = IF cmd.kind \in Sends \cup {"RLAT"}
                           THEN @ + cmd.size ELSE @]

OnWire(a) == [count |-> run[a].out, size |-> Next1(a).size,
              of |-> Done(a) + 1]

(* assert (rc = msgsize) fails for empty messages. *)
AfterSend(a) ==
  IF Next1(a).kind \in LibZmq /\ Next1(a).size = 0
  THEN Abort(a) /\ UNCHANGED run
  ELSE /\ Advance(a, Sender(a))
       /\ UNCHANGED <<cmds, answers, joined, given, apart>>

(* A socket that chooses the connection itself, and blocks without room. *)
SendFrame(a) ==
  /\ phase[a] = "send" /\ Reaches(a)
  /\ sock[a] \in {"PUSH", "DEALER", "REQ"}
  /\ sock[a] = "REQ" => back[a] = None
  /\ \E l \in Lanes :
       /\ Len(wire[a][l]) < Hwm
       /\ wire' = [wire EXCEPT ![a][l] = Append(@, OnWire(a))]
       /\ back' = IF sock[a] = "REQ" THEN [back EXCEPT ![a] = l] ELSE back
  /\ AfterSend(a)

(* A socket that answers on the connection of the last message, and drops
   the message when that has no room. *)
Respond(a) ==
  /\ phase[a] = "send"
  /\ sock[a] \in {"REP", "ROUTER"} /\ back[a] # None
  /\ wire' = IF Len(wire[a][back[a]]) < Hwm
             THEN [wire EXCEPT ![a][back[a]] = Append(@, OnWire(a))] ELSE wire
  /\ back' = [back EXCEPT ![a] = None]
  /\ AfterSend(a)

(* EFSM: zmsg_send fails, which s_send does not look at. *)
SendOutOfTurn(a) ==
  /\ phase[a] = "send"
  /\ \/ sock[a] = "REQ" /\ back[a] # None
     \/ sock[a] = "REP" /\ back[a] = None
  /\ IF Next1(a).kind \in LibZmq
     THEN Abort(a) /\ UNCHANGED run
     ELSE Advance(a, Sender(a)) /\ UNCHANGED <<cmds, answers, joined, given, apart>>
  /\ UNCHANGED <<back, wire>>

(* zmsg_prepend of a frame that is NULL. *)
SendToNobody(a) ==
  /\ phase[a] = "send"
  /\ sock[a] = "ROUTER" /\ back[a] = None
  /\ Abort(a)
  /\ UNCHANGED <<run, back, wire>>

-----------------------------------------------------------------------------
(* s_recv, and the receives of the libzmq variants *)

(* Mutant: the count is not compared. *)
ReceivesAny(a, got) ==
  [run[a] EXCEPT !.total = @ + got.size, !.from = @ \cup {got.of},
     !.out = IF Next1(a).kind = "SLAT" THEN got.count ELSE @]

Receives(a, got) ==
  [run[a] EXCEPT
     !.noos = IF got.count = run[a].count THEN @ ELSE @ + 1,
     !.total = IF Next1(a).kind = "RLAT" THEN @ ELSE @ + got.size,
     !.out = IF Next1(a).kind = "SLAT" THEN got.count ELSE @,
     !.from = @ \cup {got.of}]

TakeFrame(a, l) ==
  /\ phase[a] = "recv"
  /\ joined[a] # None /\ wire[Peer(a)][l] # <<>>
  /\ sock[a] = "REQ" => back[a] = l
  /\ sock[a] = "REP" => back[a] = None
  /\ wire' = [wire EXCEPT ![Peer(a)][l] = Tail(@)]
  /\ back' = [back EXCEPT ![a] =
       IF sock[a] \in {"ROUTER", "REP"} THEN l
       ELSE IF sock[a] = "REQ" THEN None ELSE @]

RecvFrame(a) ==
  \E l \in Lanes :
    LET got == Head(wire[Peer(a)][l]) IN
    /\ TakeFrame(a, l)
    /\ got.size = Next1(a).size
    /\ Advance(a, Receives(a, got))
    /\ UNCHANGED <<cmds, answers, joined, given, apart>>

(* s_recv returns NULL and the measurement -1; the libzmq variants assert. *)
SizeMismatch(a) ==
  \E l \in Lanes :
    /\ TakeFrame(a, l)
    /\ Head(wire[Peer(a)][l]).size # Next1(a).size
    /\ IF Next1(a).kind \in LibZmq
       THEN Abort(a) /\ UNCHANGED run
       ELSE /\ Finish(a)
            /\ run' = [run EXCEPT ![a] = NoRun]
            /\ UNCHANGED <<answers, joined, given, apart>>

(* EFSM: zmsg_recv returns NULL, which zmsg_pop asserts it does not. *)
RecvOutOfTurn(a) ==
  /\ phase[a] = "recv"
  /\ \/ sock[a] = "REQ" /\ back[a] = None
     \/ sock[a] = "REP" /\ back[a] # None
  /\ Abort(a)
  /\ UNCHANGED <<run, back, wire>>

-----------------------------------------------------------------------------
(* s_signal *)

Signal(a) ==
  /\ phase[a] = "signal"
  /\ run[a].watch
  /\ Tell(a, run[a])
  /\ Finish(a)
  /\ run' = [run EXCEPT ![a] = NoRun]
  /\ UNCHANGED <<joined, back, wire, given, apart>>

(* zmq_stopwatch_stop (NULL) *)
SignalUnstarted(a) ==
  /\ phase[a] = "signal"
  /\ ~run[a].watch
  /\ Abort(a)
  /\ UNCHANGED <<run, back, wire>>

-----------------------------------------------------------------------------

JoinCommands == [kind : Joins, n : {0}, size : {0}]

PerfStep(a) ==
  /\ \/ Join(a) \/ Note(a) \/ Term(a) \/ Unknown(a)
     \/ Begin(a) \/ ResetFails(a)
     \/ SendFrame(a) \/ Respond(a) \/ SendOutOfTurn(a) \/ SendToNobody(a)
     \/ RecvFrame(a) \/ SizeMismatch(a) \/ RecvOutOfTurn(a)
     \/ Signal(a) \/ SignalUnstarted(a)
  /\ UNCHANGED sock

Next ==
  \E a \in Actors :
    \/ \E c \in Offers[sock[a]] \cup JoinCommands :
         Give(a, c) /\ UNCHANGED sock
    \/ PerfStep(a)

Spec == Init /\ [][Next]_vars

(* Each actor has a thread of its own. *)
FairSpec == Spec /\ \A a \in Actors : WF_vars(PerfStep(a))

-----------------------------------------------------------------------------
(* Properties *)

(* Every variable has its type, and no connection holds more than its HWM. *)
TypeOK ==
  /\ sock \in [Actors -> Types]
  /\ cmds \in [Actors -> Seq(Command)]
  /\ answers \in [Actors -> Seq(Answer)]
  /\ phase \in [Actors -> Phases]
  /\ run \in [Actors -> Runs]
  /\ joined \in [Actors -> Joins \cup {None}]
  /\ back \in [Actors -> Lanes \cup {None}]
  /\ wire \in [Actors -> [Lanes -> Seq(Message)]]
  /\ given \in [Actors -> Seq(Command)]
  /\ apart \in BOOLEAN
  /\ \A a \in Actors : \A l \in Lanes : Len(wire[a][l]) <= Hwm
  /\ \A a \in Actors : phase[a] \in {"send", "recv", "signal"} =>
       cmds[a] # <<>> /\ Next1(a).kind \in Measures

(* Two commands that the two ends are to run against each other. *)
Match(c, d) ==
  /\ c.n = d.n /\ c.size = d.size
  /\ \E pair \in {<<Sends, Recvs>>, <<Yodels, Echos>>, <<{"BIND"}, {"CONNECT"}>>,
                   <<Notes, Notes>>, <<{"$TERM"}, {"$TERM"}>>} :
       \/ c.kind \in pair[1] /\ d.kind \in pair[2]
       \/ d.kind \in pair[1] /\ c.kind \in pair[2]

(* README.org, "Sockets", with the DEALER of the selftest. *)
MeasuresOf == [PUSH |-> Sends, PULL |-> Recvs, REQ |-> Yodels,
               REP |-> Echos, DEALER |-> {"YODEL"}, ROUTER |-> {"ECHO"}]

Fits(a, c) == c.kind \in Measures => c.kind \in MeasuresOf[sock[a]]

(* Commands that fit the socket, of more than the one message that leaves the
   stopwatch of the receivers stopped, and with data where libzmq needs it. *)
Proper(a, c) ==
  /\ Fits(a, c)
  /\ c.kind \in Measures => c.n >= 2
  /\ c.kind \in LibZmq => c.size > 0
  /\ c.kind # "OTHER"

Paired ==
  /\ \A a \in Actors : \A i \in DOMAIN given[a] : Proper(a, given[a][i])
  /\ \A a, b \in Actors : a # b =>
       \A i \in DOMAIN given[a] \cap DOMAIN given[b] :
         Match(given[a][i], given[b][i])

OneLane == Cardinality(Lanes) = 1

IsAnswered(c) == c.kind \in Joins \cup Measures

(* How many of an owner's first j commands are answered. *)
Due(commands, j) == Cardinality({i \in 1..j : IsAnswered(commands[i])})

(* Owners that give the two ends matching commands get from each end, in
   order, one answer per command with the whole of the data counted, and no
   actor dies: over one connection whatever the two threads and the owners
   do when (README: "a sequence of measurements and these do not have any
   additional coordination requirements"), over several when the owners wait
   for both answers before they go on. *)
PairedMeasuresAnswered ==
  Paired /\ (OneLane \/ apart) =>
    \A a \in Actors :
      /\ phase[a] # "aborted"
      /\ Len(answers[a]) = Due(given[a], Done(a))
      /\ \A j \in 1..Done(a) : IsAnswered(given[a][j]) =>
           LET answer == answers[a][Due(given[a], j)] IN
           /\ answer.kind = given[a][j].kind
           /\ answer.total = given[a][j].n * given[a][j].size

(* Over one connection the matching measurements never count a message out
   of order, even when an end is a whole measurement ahead of the other: the
   selftest's assert (noos == 0). *)
PairedMeasuresInOrder ==
  Paired /\ OneLane =>
    \A a \in Actors : \A i \in DOMAIN answers[a] : answers[a][i].noos = 0

(* When both ends have run as many matching commands nothing is left on the
   connections for the next measurement to take for its own. *)
WireDrained ==
  /\ Paired /\ (OneLane \/ apart)
  /\ \A a, b \in Actors : Done(a) = Done(b)
  /\ \A a \in Actors : phase[a] = "idle"
  => \A a \in Actors : \A l \in Lanes : wire[a][l] = <<>>

(* noos is good for what it is there for: over one connection the result of
   a receiving end (RECV, ECHO and their variants) with no message out of
   order counted messages of one measurement of the other end only, whatever
   numbers and sizes the owners asked for of the sockets' own measurements,
   and however the last one ended.  A yodeling end has no such promise: SLAT
   sends back the count it got, not its own. *)
NoosDetectsMixing ==
  /\ OneLane
  /\ \A a \in Actors : \A i \in DOMAIN given[a] : Fits(a, given[a][i])
  => \A a \in Actors : \A i \in DOMAIN answers[a] :
       answers[a][i].kind \in Recvs \cup Echos /\ answers[a][i].noos = 0
         => Cardinality(answers[a][i].from) <= 1

(* Matching commands are run to their end, for sockets that were connected
   and ends that were not told to stop, with more messages than a connection
   holds. *)
Together ==
  /\ Paired /\ OneLane /\ Linked
  /\ \A a, b \in Actors : Len(given[a]) = Len(given[b])
  /\ \A a \in Actors : \A i \in DOMAIN given[a] : given[a][i].kind # "$TERM"

PairedMeasuresEnd ==
  Together ~> (~Together \/ \A a \in Actors : cmds[a] = <<>>)

Class(kind) == IF kind \in Joins THEN "SOCKET"
               ELSE IF kind \in Measures THEN "MEASURE" ELSE "NOTE"

Pipes == INSTANCE PerfPipe WITH
  Perfs <- Actors,
  queue <- [a \in Actors |->
              [i \in DOMAIN cmds[a] |-> Class(cmds[a][i].kind)]],
  out <- [a \in Actors |->
            [i \in DOMAIN answers[a] |-> Class(answers[a][i].kind)]]

(* To its owner a perf actor is a FIFO of commands with at most one answer
   each, in order, whatever the other end and the connections do. *)
PerfIsPipe == Pipes!Spec
=============================================================================
