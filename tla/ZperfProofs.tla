---------------------------- MODULE ZperfProofs ----------------------------
(***************************************************************************)
(* The programs of ZperfCli, for any applications that keep to the rules   *)
(* of ApiConstants and any zperfcli that keep to those of CliConstants.    *)
(*                                                                         *)
(* A program is an owner as the proofs of the actors take one (Gives): it  *)
(* gives nothing to an actor it has destroyed, since what the actor was    *)
(* told its thread has asked for (Asked).                                  *)
(***************************************************************************)
EXTENDS ZperfCli, PerfAnswerProofs

(* What does not change. *)
Fixed ==
  /\ Legal(program)
  /\ TwoProcesses => MainOrder(program)

Counters ==
  /\ pc \in [Threads -> Nat]
  /\ sent \in [Threads -> BOOLEAN]

(* A thread has come past a call, or waits in it. *)
Past(t, i) == i < pc[t] \/ (i = pc[t] /\ sent[t])

ToldToEnd(a) ==
  phase[a] = "ended" \/ \E i \in DOMAIN cmds[a] : cmds[a][i].kind = "$TERM"

(* An actor is told to end by the call that destroys it. *)
Asked ==
  \A a \in Actors : ToldToEnd(a) =>
    \E t \in Threads : \E i \in DOMAIN program[t] :
      /\ program[t][i].op = "destroy" /\ program[t][i].on = a
      /\ pc[t] = 0 \/ Past(t, i)

Programmed == Typed /\ Fixed /\ Counters /\ Asked

(* The call a thread is at. *)
LEMMA AtCall ==
  ASSUME Fixed, Counters, NEW t \in Threads, NEW ops, At(t, ops)
  PROVE  /\ pc[t] \in DOMAIN program[t] /\ pc[t] \in Nat \ {0}
         /\ Now(t) = program[t][pc[t]] /\ Now(t).op \in ops
         /\ Now(t).on \in Actors
<1>1. DOMAIN program[t] = 1..Len(program[t]) /\ Len(program[t]) \in Nat
  BY DEF Fixed, Legal, Threads
<1>2. pc[t] \in Nat \ {0} /\ pc[t] <= Len(program[t]) /\ Now(t).op \in ops
  BY DEF At, Dead, Counters
<1>3. pc[t] \in DOMAIN program[t]
  BY <1>1, <1>2
<1> QED BY <1>2, <1>3 DEF Fixed, Legal, Threads, Now

(* What a call does to the thread that makes it. *)
Moves(t) ==
  /\ pc[t] # 0 /\ program' = program /\ sock' = sock
  /\ \/ Return(t)
     \/ Dies(t)
     \/ ~sent[t] /\ sent' = [sent EXCEPT ![t] = TRUE] /\ pc' = pc

(* No thread comes past fewer calls than before. *)
LEMMA StillPast ==
  ASSUME Counters, NEW t \in Threads, Moves(t) \/ UNCHANGED <<program, pc, sent>>
  PROVE  /\ Threads' = Threads /\ Counters'
         /\ \A u \in Threads :
              /\ pc'[u] = 0 \/ (pc[u] # 0 /\ pc'[u] >= pc[u])
              /\ \A i \in Nat \ {0} :
                   pc[u] = 0 \/ Past(u, i) => pc'[u] = 0 \/ Past(u, i)'
<1>1. program' = program /\ Threads' = Threads
  BY DEF Moves, Threads
<1>2. Counters'
  <2>1. CASE Return(t)
    BY <1>1, <2>1 DEF Counters, Return
  <2>2. CASE Dies(t)
    BY <1>1, <2>2 DEF Counters, Dies
  <2>3. CASE ~Return(t) /\ ~Dies(t)
    BY <1>1, <2>3 DEF Counters, Moves
  <2> QED BY <2>1, <2>2, <2>3
<1> QED BY <1>1, <1>2 DEF Counters, Past, Moves, Return, Dies

(* A step of an actor tells it nothing. *)
LEMMA PerfTellsNothing ==
  ASSUME Typed, NEW a \in Actors, PerfStep(a), NEW b \in Actors, ToldToEnd(b)'
  PROVE  ToldToEnd(b)
<1>1. CASE b # a
  BY <1>1, SparedStep DEF Spared, ToldToEnd
<1>2. CASE b = a
  <2>1. cmds[a] \in Seq(Command)
    BY DEF Typed, Pipework
  <2>2. cmds'[a] = cmds[a] \/ (cmds[a] # <<>> /\ cmds'[a] = Tail(cmds[a]))
    BY PipeStep DEF Answered, Dropped, Typed, Pipework
  <2>3. \A i \in DOMAIN cmds'[a] : \E j \in DOMAIN cmds[a] :
          cmds'[a][i] = cmds[a][j]
    <3>1. ASSUME cmds[a] # <<>>, NEW i \in DOMAIN Tail(cmds[a])
          PROVE  i + 1 \in DOMAIN cmds[a] /\ Tail(cmds[a])[i] = cmds[a][i + 1]
      BY <2>1, <3>1
    <3> QED BY <2>2, <3>1
  <2>4. phase'[a] = "ended" => phase[a] = "ended" \/ Ready(a, {"$TERM"})
    <3>1. Typed /\ phase \in [Actors -> Phases]
      BY DEF Typed, Machine
    <3>2. CASE Join(a) \/ Note(a) \/ Term(a) \/ Begin(a) \/ Signal(a)
      BY <3>1, <3>2 DEF Join, Note, Term, Begin, Signal, Finish, First
    <3>3. ASSUME Abort(a) PROVE phase'[a] # "ended"
      BY <3>1, <3>3 DEF Abort
    <3>4. ASSUME NEW r, Advance(a, r) PROVE phase'[a] # "ended"
      BY <3>1, <3>4 DEF Advance, First
    <3>5. CASE \/ Unknown(a) \/ ResetFails(a) \/ SendToNobody(a)
               \/ RecvOutOfTurn(a) \/ SignalUnstarted(a)
      BY <3>3, <3>5 DEF Unknown, ResetFails, SendToNobody, RecvOutOfTurn,
         SignalUnstarted
    <3>6. CASE SendFrame(a) \/ Respond(a) \/ SendOutOfTurn(a)
      BY <3>3, <3>4, <3>6 DEF SendFrame, Respond, SendOutOfTurn, AfterSend
    <3>7. CASE RecvFrame(a) \/ SizeMismatch(a)
      BY <3>1, <3>3, <3>4, <3>7 DEF RecvFrame, SizeMismatch, Finish
    <3> QED BY <3>2, <3>5, <3>6, <3>7 DEF PerfStep
  <2>5. Ready(a, {"$TERM"}) => ToldToEnd(a)
    <3>1. cmds[a] # <<>> => 1 \in DOMAIN cmds[a] /\ cmds[a][1] = Head(cmds[a])
      BY <2>1
    <3> QED BY <3>1 DEF Ready, Next1, ToldToEnd
  <2> QED BY <1>2, <2>3, <2>4, <2>5 DEF ToldToEnd
<1> QED BY <1>1, <1>2

(* What a call gives is a command, to an actor that has not been destroyed. *)
LEMMA CallGives ==
  ASSUME Programmed, NEW t \in Threads, At(t, Submits), ~sent[t] \/
         At(t, {"set_batch", "initiate"}), Submit(Now(t).on, Now(t).cmd)
  PROVE  Now(t).cmd \in Command /\ Gives(Now(t).on, Now(t).cmd)
<1> DEFINE a == Now(t).on  c == Now(t).cmd  i == pc[t]
<1>1. /\ i \in DOMAIN program[t] /\ i \in Nat \ {0}
      /\ Now(t) = program[t][i] /\ Now(t).op \in Submits /\ a \in Actors
  BY AtCall DEF Programmed
<1>2. c \in Command /\ (Now(t).op \in {"bind", "connect"} => c \in JoinCommands)
  BY <1>1 DEF Programmed, Fixed, Legal, Threads
<1>3. Now(t).op \notin {"bind", "connect"} => c.kind \notin Joins
  BY <1>1 DEF Programmed, Fixed, Legal, Threads, Submits, Joins, Measures, Notes,
     Sends, Recvs, Yodels, Echos
<1>4. phase[a] # "ended"
  <2> SUFFICES ASSUME phase[a] = "ended" PROVE FALSE
    OBVIOUS
  <2>1. PICK u \in Threads : \E j \in DOMAIN program[u] :
          /\ program[u][j].op = "destroy" /\ program[u][j].on = a
          /\ pc[u] = 0 \/ Past(u, j)
    BY <1>1 DEF Programmed, Asked, ToldToEnd
  <2>2. PICK j \in DOMAIN program[u] :
          /\ program[u][j].op = "destroy" /\ program[u][j].on = a
          /\ pc[u] = 0 \/ Past(u, j)
    BY <2>1
  <2>3. u = t /\ (j < i => Now(t).op = "zyre_stop")
    BY <1>1, <2>2 DEF Programmed, Fixed, Legal, Threads
  <2>4. j = i /\ sent[t]
    BY <1>1, <2>2, <2>3 DEF Past, Submits
  <2> QED BY <1>1, <2>2, <2>3, <2>4 DEF At
<1> QED BY <1>2, <1>3, <1>4 DEF Gives

(* A call gives its command to an actor, or leaves both actors alone. *)
LEMMA CallMoves ==
  ASSUME Programmed, NEW t \in Threads, ApiStep(t)
  PROVE  /\ Moves(t)
         /\ \/ UNCHANGED pipe
            \/ /\ Now(t).on \in Actors /\ Now(t).cmd \in Command
               /\ Gives(Now(t).on, Now(t).cmd)
               /\ Now(t).cmd.kind = "$TERM" =>
                    /\ pc[t] \in DOMAIN program[t] /\ Now(t) = program[t][pc[t]]
                    /\ Now(t).op = "destroy" /\ pc' = pc /\ sent'[t]
<1>0. Fixed /\ Counters /\ sock' = sock
  BY DEF Programmed, ApiStep
<1>1. CASE SetBatch(t) \/ Initiate(t)
  <2>1. At(t, Submits) /\ At(t, {"set_batch", "initiate"}) /\ Return(t)
    BY <1>1 DEF SetBatch, Initiate, At, Submits
  <2>2. Submit(Now(t).on, Now(t).cmd) /\ program' = program
    BY <1>1 DEF SetBatch, Initiate
  <2>3. Now(t).cmd \in Command /\ Gives(Now(t).on, Now(t).cmd)
    BY <2>1, <2>2, CallGives
  <2>4. /\ pc[t] \in DOMAIN program[t] /\ pc[t] # 0 /\ Now(t) = program[t][pc[t]]
        /\ Now(t).op \in {"set_batch", "initiate"} /\ Now(t).on \in Actors
    BY <1>0, <2>1, AtCall
  <2>5. Now(t).cmd.kind # "$TERM"
    BY <1>0, <2>4 DEF Fixed, Legal, Threads, Measures, Notes, Sends, Recvs, Yodels,
       Echos
  <2> QED BY <1>0, <2>1, <2>2, <2>3, <2>4, <2>5 DEF Moves
<1>2. CASE Ask(t)
  <2>1. /\ At(t, Submits) /\ At(t, {"bind", "connect", "destroy"}) /\ ~sent[t]
        /\ Submit(Now(t).on, Now(t).cmd) /\ program' = program
        /\ sent' = [sent EXCEPT ![t] = TRUE] /\ pc' = pc
    BY <1>2 DEF Ask, At, Submits
  <2>2. Now(t).cmd \in Command /\ Gives(Now(t).on, Now(t).cmd)
    BY <2>1, CallGives
  <2>3. /\ pc[t] \in DOMAIN program[t] /\ pc[t] # 0 /\ Now(t) = program[t][pc[t]]
        /\ Now(t).op \in {"bind", "connect", "destroy"} /\ Now(t).on \in Actors
    BY <1>0, <2>1, AtCall
  <2>4. Now(t).op \in {"bind", "connect"} => Now(t).cmd.kind # "$TERM"
    BY <1>0, <2>3 DEF Fixed, Legal, Threads, JoinCommands, Joins
  <2>5. sent'[t]
    BY <1>0, <2>1 DEF Counters
  <2> QED BY <1>0, <2>1, <2>2, <2>3, <2>4, <2>5 DEF Moves
<1>3. CASE Finalize(t) \/ Joined(t) \/ Misread(t) \/ Destroyed(t)
  <2>1. UNCHANGED pipe /\ program' = program /\ (Return(t) \/ Dies(t))
    BY <1>3 DEF Finalize, Joined, Misread, Destroyed
  <2>2. pc[t] # 0
    BY <1>3 DEF Finalize, Joined, Misread, Destroyed, At, Dead
  <2> QED BY <1>0, <2>1, <2>2 DEF Moves
<1> QED BY <1>1, <1>2, <1>3 DEF ApiStep

(* A step of the programs, as the actors and the threads see it. *)
LEMMA CliMoves ==
  ASSUME Programmed, CliNext
  PROVE  \/ \E t \in Threads : ApiStep(t) /\ UNCHANGED zyre
         \/ \E t \in Threads :
              /\ ZyreStart(t) \/ ZyreStop(t) \/ WaitForPeerExit(t)
              /\ UNCHANGED vars
              /\ Moves(t) \/ UNCHANGED <<program, pc, sent>>
         \/ /\ \E t \in Threads : Finds(t) \/ Misses(t)
            /\ UNCHANGED <<vars, api>>
         \/ \E a \in Actors : PerfStep(a) /\ UNCHANGED <<api, zyre>>
<1>1. ASSUME NEW t \in Threads,
             ZyreStart(t) \/ ZyreStop(t) \/ WaitForPeerExit(t), UNCHANGED vars
      PROVE  Moves(t) \/ UNCHANGED <<program, pc, sent>>
  <2>1. pc[t] # 0 /\ program' = program /\ sock' = sock
    BY <1>1 DEF ZyreStart, ZyreStop, WaitForPeerExit, At, Dead, vars
  <2> QED BY <1>1, <2>1 DEF ZyreStart, ZyreStop, WaitForPeerExit, Moves
<1>2. ASSUME NEW t \in Threads, Finds(t) \/ Misses(t)
      PROVE  UNCHANGED <<vars, api>>
  BY <1>2 DEF Finds, Misses
<1> QED BY <1>1, <1>2 DEF CliNext, CliStep, ActorStep

(* An owner that gives a command tells an actor to end by "$TERM" only. *)
LEMMA GiveTells ==
  ASSUME Typed, NEW a \in Actors, NEW c \in Command, Submit(a, c),
         NEW b \in Actors, ToldToEnd(b)'
  PROVE  ToldToEnd(b) \/ (b = a /\ c.kind = "$TERM")
<1>1. cmds[b] \in Seq(Command) /\ phase' = phase
  BY DEF Submit, Typed, Pipework
<1>2. cmds'[b] = cmds[b] \/ (b = a /\ cmds'[b] = Append(cmds[b], c))
  BY DEF Submit, Typed, Pipework
<1>3. \A i \in DOMAIN Append(cmds[b], c) :
        Append(cmds[b], c)[i] = c
        \/ (i \in DOMAIN cmds[b] /\ Append(cmds[b], c)[i] = cmds[b][i])
  BY <1>1, AppendProperties
<1> QED BY <1>1, <1>2, <1>3 DEF ToldToEnd

(* What an actor was told its thread has asked for, as long as the thread comes
   past no fewer calls. *)
LEMMA AskedStays ==
  ASSUME Programmed, NEW t \in Threads,
         Moves(t) \/ UNCHANGED <<program, pc, sent>>,
         \A b \in Actors : ToldToEnd(b)' =>
           \/ ToldToEnd(b)
           \/ \E i \in DOMAIN program[t] :
                /\ program[t][i].op = "destroy" /\ program[t][i].on = b
                /\ Past(t, i)'
  PROVE  Asked'
<1> SUFFICES ASSUME NEW b \in Actors, ToldToEnd(b)'
             PROVE  \E u \in Threads : \E i \in DOMAIN program[u] :
                      /\ program[u][i].op = "destroy" /\ program[u][i].on = b
                      /\ pc'[u] = 0 \/ Past(u, i)'
  <2>1. program' = program
    BY DEF Moves
  <2> QED BY <2>1 DEF Asked, Threads
<1>1. CASE ToldToEnd(b)
  <2>1. PICK u \in Threads : \E i \in DOMAIN program[u] :
          /\ program[u][i].op = "destroy" /\ program[u][i].on = b
          /\ pc[u] = 0 \/ Past(u, i)
    BY <1>1 DEF Programmed, Asked
  <2>2. PICK i \in DOMAIN program[u] :
          /\ program[u][i].op = "destroy" /\ program[u][i].on = b
          /\ pc[u] = 0 \/ Past(u, i)
    BY <2>1
  <2>3. i \in Nat \ {0}
    BY DEF Programmed, Fixed, Legal, Threads
  <2>4. pc'[u] = 0 \/ Past(u, i)'
    BY <2>2, <2>3, StillPast DEF Programmed
  <2> QED BY <2>2, <2>4
<1>2. CASE ~ToldToEnd(b)
  BY <1>2
<1> QED BY <1>1, <1>2

(* A program is such an owner, first ... *)
LEMMA ProgrammedInit == CliInit => Programmed
<1> SUFFICES ASSUME CliInit PROVE Programmed
  OBVIOUS
<1>1. Typed
  BY TypesInit DEF CliInit, ApiInit
<1>2. Fixed
  BY ApiConstants, CliConstants DEF CliInit, ApiInit, Fixed, TwoProcesses, Threads
<1>3. Counters
  BY DEF CliInit, ApiInit, Counters
<1>4. Asked
  BY DEF CliInit, ApiInit, Init, Asked, ToldToEnd
<1> QED BY <1>1, <1>2, <1>3, <1>4 DEF Programmed

(* ... and after every step. *)
LEMMA ProgrammedNext ==
  Programmed /\ [CliNext]_cliVars => Programmed' /\ [AnyNext]_vars
<1> SUFFICES ASSUME Programmed, [CliNext]_cliVars
             PROVE  Programmed' /\ [AnyNext]_vars
  OBVIOUS
<1>0. Typed /\ Fixed /\ Counters
  BY DEF Programmed
<1>1. ASSUME [AnyNext]_vars, program' = program, Counters', Asked'
      PROVE  Programmed'
  <2>1. Typed'
    BY <1>0, <1>1, TypesNext
  <2>2. Fixed'
    BY <1>0, <1>1 DEF Fixed, TwoProcesses, Threads
  <2> QED BY <1>1, <2>1, <2>2 DEF Programmed
<1>2. ASSUME NEW t \in Threads, ApiStep(t)
      PROVE  Programmed' /\ [AnyNext]_vars
  <2>1. Moves(t)
    BY <1>2, CallMoves
  <2>2. Counters' /\ program' = program /\ sock' = sock
    BY <1>0, <2>1, StillPast DEF Moves
  <2>3. CASE UNCHANGED pipe
    <3>1. UNCHANGED vars /\ \A b \in Actors : ToldToEnd(b)' => ToldToEnd(b)
      BY <2>2, <2>3 DEF pipe, vars, ToldToEnd
    <3>2. Asked'
      BY <2>1, <3>1, AskedStays
    <3> QED BY <1>1, <2>2, <3>1, <3>2
  <2>4. CASE ~UNCHANGED pipe
    <3> DEFINE a == Now(t).on  c == Now(t).cmd  i == pc[t]
    <3>1. /\ a \in Actors /\ c \in Command /\ Gives(a, c)
          /\ c.kind = "$TERM" =>
               /\ i \in DOMAIN program[t] /\ Now(t) = program[t][i]
               /\ Now(t).op = "destroy" /\ pc' = pc /\ sent'[t]
      BY <1>2, <2>4, CallMoves
    <3>2. [AnyNext]_vars
      BY <2>2, <3>1 DEF AnyNext
    <3>3. ASSUME NEW b \in Actors, ToldToEnd(b)'
          PROVE  ToldToEnd(b) \/ (b = a /\ c.kind = "$TERM")
      BY <1>0, <3>1, <3>3, GiveTells DEF Gives
    <3>4. c.kind = "$TERM" => Past(t, i)'
      BY <3>1 DEF Past
    <3>5. Asked'
      BY <2>1, <3>1, <3>3, <3>4, AskedStays
    <3> QED BY <1>1, <2>2, <3>2, <3>5
  <2> QED BY <2>3, <2>4
<1>3. ASSUME NEW t \in Threads, UNCHANGED vars,
             Moves(t) \/ UNCHANGED <<program, pc, sent>>
      PROVE  Programmed' /\ [AnyNext]_vars
  <2>1. program' = program /\ Counters'
    BY <1>0, <1>3, StillPast DEF Moves
  <2>2. \A b \in Actors : ToldToEnd(b)' => ToldToEnd(b)
    BY <1>3 DEF vars, ToldToEnd
  <2>3. Asked'
    BY <1>3, <2>2, AskedStays
  <2> QED BY <1>1, <1>3, <2>1, <2>3
<1>4. ASSUME NEW a \in Actors, PerfStep(a), UNCHANGED api
      PROVE  Programmed' /\ [AnyNext]_vars
  <2>1. \A b \in Actors : ToldToEnd(b)' => ToldToEnd(b)
    BY <1>0, <1>4, PerfTellsNothing
  <2>2. UNCHANGED <<program, pc, sent>> /\ Counters' /\ Threads' = Threads
    BY <1>0, <1>4 DEF api, Counters, Threads
  <2>3. Asked'
    <3>1. \A u \in Threads : \A i : Past(u, i)' = Past(u, i)
      BY <2>2 DEF Past
    <3> QED BY <2>1, <2>2, <3>1 DEF Programmed, Asked
  <2> QED BY <1>1, <1>4, <2>2, <2>3 DEF AnyNext
<1>5. ASSUME UNCHANGED <<vars, api>>
      PROVE  Programmed' /\ [AnyNext]_vars
  <2>1. UNCHANGED <<program, pc, sent>> /\ Counters' /\ Threads' = Threads
    BY <1>0, <1>5 DEF api, Counters, Threads
  <2>2. Asked'
    BY <1>5, <2>1 DEF Programmed, Asked, Past, ToldToEnd, vars
  <2> QED BY <1>1, <1>5, <2>1, <2>2
<1>6. CASE UNCHANGED cliVars
  BY <1>5, <1>6 DEF cliVars
<1>7. CASE CliNext
  BY <1>2, <1>3, <1>4, <1>5, <1>7, CliMoves
<1> QED BY <1>6, <1>7

LEMMA CliIsProgrammed == CliSpec => []Programmed
BY ProgrammedInit, ProgrammedNext, PTL DEF CliSpec

(* Whatever the threads do when, to the actors they are owners. *)
LEMMA CliIsAny == CliSpec => AnySpec
<1>1. CliInit => Init
  BY DEF CliInit, ApiInit
<1> QED BY <1>1, ProgrammedInit, ProgrammedNext, PTL DEF CliSpec, AnySpec

(* To the threads of an application, and to two zperfcli, each perf actor is
   the FIFO of commands and answers of PerfPipe. *)
THEOREM CliActorIsPipe == CliSpec => PerfIsPipe
BY CliIsAny, AnyIsPipe

(* Programs whose measurements match get an answer to each, with the whole of
   the data counted, and no actor dies: over one connection whatever the two
   processes do when, over several when nothing is initiated before both ends
   have finished what came before. *)
THEOREM CliGetsAnswers == CliSpec => []PairedMeasuresAnswered
BY CliIsAny, AnyGetAnswers

(* And nothing is left on the connections for their next measurement. *)
THEOREM CliDrainsTheWire == CliSpec => []WireDrained
BY CliIsAny, AnyDrains

-----------------------------------------------------------------------------
(* The other's node is gone, or will not be seen again, only when the other
   has its result. *)
Finished(t) == HasResult(t) \/ Dead(t)

Ordering(t) ==
  /\ node[t] = "stopped" => Finished(t)
  /\ found[t] # "unseen" => node[Other(t)] # "new"
  /\ found[t] = "exited" => Finished(Other(t))
  /\ \A i \in DOMAIN events[t] : events[t][i] = "EXIT" => found[t] = "exited"
  /\ \A i \in DOMAIN program[t] :
       program[t][i].op = "wait" /\ i < pc[t] => found[t] = "exited"
  /\ Waits(t) => \A a \in Owned(t) : ToldToEnd(a) => found[t] = "exited"

Nodes ==
  /\ node \in [Threads -> {"new", "started", "stopped"}]
  /\ found \in [Threads -> {"unseen", "entered", "exited"}]
  /\ events \in [Threads -> Seq({"ENTER", "EXIT"})]

Met == Nodes /\ (TwoProcesses => \A t \in Threads : Ordering(t))

(* There are two threads, and each is the other's other. *)
LEMMA Others ==
  ASSUME TwoProcesses, NEW t \in Threads
  PROVE  Other(t) \in Threads /\ Other(t) # t
<1>1. \E u \in Threads : u # t
  <2> SUFFICES ASSUME Threads = {t} PROVE FALSE
    OBVIOUS
  <2>1. Cardinality({t}) = 1
    BY FS_Singleton
  <2>2. Cardinality(Threads) = 2
    BY DEF TwoProcesses
  <2>3. Cardinality({t}) = 2
    BY <2>2, Zenon
  <2> QED BY <2>1, <2>3
<1> QED BY <1>1 DEF Other

(* A process that has its result, or has died, stays so. *)
LEMMA FinishedStays ==
  ASSUME Programmed, CliNext, NEW t \in Threads, Finished(t)
  PROVE  Finished(t)'
<1>0. Fixed /\ Counters /\ Typed
  BY DEF Programmed
<1>1. ASSUME program' = program, pc'[t] = 0 \/ (pc[t] # 0 /\ pc'[t] >= pc[t]),
             phase' = phase \/ \E a \in Actors : PerfStep(a)
      PROVE  Finished(t)'
  <2>1. CASE pc'[t] = 0
    BY <2>1 DEF Finished, Dead
  <2>2. CASE pc'[t] # 0 /\ HasResult(t)
    <3>1. /\ DOMAIN program[t] = 1..Len(program[t]) /\ Len(program[t]) \in Nat
          /\ pc[t] \in Nat /\ pc'[t] >= pc[t]
      BY <1>0, <1>1, <2>2 DEF Fixed, Legal, Counters, Threads
    <3>2. pc'[t] \in Nat
      <4>1. \/ \E u \in Threads : Moves(u) \/ UNCHANGED <<program, pc, sent>>
            \/ UNCHANGED <<program, pc, sent>>
        BY CliMoves, CallMoves DEF api
      <4> QED BY <1>0, <1>1, <4>1, StillPast DEF Counters, Threads
    <3>3. \A i \in DOMAIN program[t] : pc[t] > i => pc'[t] > i
      BY <3>1, <3>2
    <3> QED BY <1>1, <2>2, <3>3 DEF Finished, HasResult
  <2>3. CASE pc'[t] # 0 /\ Dead(t)
    <3>1. PICK a \in Owned(t) : phase[a] = "aborted"
      BY <1>1, <2>3 DEF Dead
    <3>2. a \in Actors
      BY <1>0 DEF Owned, Fixed, Legal, Threads
    <3>3. ~PerfStep(a)
      <4>1. ~(Join(a) \/ Note(a) \/ Term(a) \/ Unknown(a))
        BY <3>1 DEF Join, Note, Term, Unknown, Ready
      <4>2. ~(Begin(a) \/ ResetFails(a))
        BY <3>1 DEF Begin, ResetFails, Ready
      <4>3. ~(\/ SendFrame(a) \/ Respond(a) \/ SendOutOfTurn(a)
              \/ SendToNobody(a))
        BY <3>1 DEF SendFrame, Respond, SendOutOfTurn, SendToNobody
      <4>4. ~(RecvFrame(a) \/ SizeMismatch(a) \/ RecvOutOfTurn(a))
        BY <3>1 DEF RecvFrame, SizeMismatch, RecvOutOfTurn, TakeFrame
      <4>5. ~(Signal(a) \/ SignalUnstarted(a))
        BY <3>1 DEF Signal, SignalUnstarted
      <4> QED BY <4>1, <4>2, <4>3, <4>4, <4>5 DEF PerfStep
    <3>4. phase'[a] = phase[a]
      BY <1>0, <1>1, <3>2, <3>3, SparedStep DEF Spared
    <3> QED BY <1>1, <3>1, <3>4 DEF Finished, Dead, Owned
  <2> QED BY <2>1, <2>2, <2>3 DEF Finished
<1>2. ASSUME NEW u \in Threads, Moves(u) \/ UNCHANGED <<program, pc, sent>>
      PROVE  program' = program /\ (pc'[t] = 0 \/ (pc[t] # 0 /\ pc'[t] >= pc[t]))
  BY <1>0, <1>2, StillPast DEF Moves
<1>3. ASSUME NEW u \in Threads, ApiStep(u)
      PROVE  phase' = phase
  BY <1>3, CallMoves DEF pipe, Gives, Submit
<1>4. ASSUME NEW u \in Threads, ApiStep(u)
      PROVE  Finished(t)'
  BY <1>1, <1>2, <1>3, <1>4, CallMoves
<1>5. ASSUME NEW u \in Threads, UNCHANGED vars,
             Moves(u) \/ UNCHANGED <<program, pc, sent>>
      PROVE  Finished(t)'
  BY <1>1, <1>2, <1>5 DEF vars
<1>6. ASSUME UNCHANGED api, phase' = phase \/ \E a \in Actors : PerfStep(a)
      PROVE  Finished(t)'
  BY <1>1, <1>2, <1>6 DEF api
<1> QED BY <1>4, <1>5, <1>6, CliMoves DEF vars

(* Ordering after a step, conjunct by conjunct. *)
LEMMA OrderingAfter ==
  ASSUME NEW t \in Threads, program' = program,
         node'[t] = "stopped" => Finished(t)',
         found'[t] # "unseen" => node'[Other(t)] # "new",
         found'[t] = "exited" => Finished(Other(t))',
         \A i \in DOMAIN events'[t] :
           events'[t][i] = "EXIT" => found'[t] = "exited",
         \A i \in DOMAIN program[t] :
           program[t][i].op = "wait" /\ i < pc'[t] => found'[t] = "exited",
         Waits(t) =>
           \A a \in Owned(t) : ToldToEnd(a)' => found'[t] = "exited"
  PROVE  Ordering(t)'
<1>1. /\ Other(t)' = Other(t) /\ Waits(t)' = Waits(t) /\ Owned(t)' = Owned(t)
  BY DEF Threads, Other, Waits, Owned
<1>2. found'[t] # "unseen" => node'[Other(t)'] # "new"
  BY <1>1
<1>3. found'[t] = "exited" => Finished(Other(t))'
  BY <1>1
<1>4. Waits(t)' => \A a \in Owned(t)' : ToldToEnd(a)' => found'[t] = "exited"
  BY <1>1
<1> HIDE DEF Finished, ToldToEnd
<1> QED BY <1>2, <1>3, <1>4 DEF Ordering

(* The calls on Zyre and the events, one by one. *)
LEMMA OrderingStarts ==
  ASSUME Programmed, Met, TwoProcesses, NEW u \in Threads,
         ZyreStart(u) \/ ZyreStop(u) \/ WaitForPeerExit(u), UNCHANGED vars,
         NEW t \in Threads, Finished(t) => Finished(t)',
         Finished(Other(t)) => Finished(Other(t))'
  PROVE  Ordering(t)'
<1>0. Fixed /\ Counters /\ Nodes /\ Ordering(t)
  BY DEF Programmed, Met
<1>1. /\ program' = program /\ Threads' = Threads /\ Other(t)' = Other(t)
      /\ Waits(t)' = Waits(t) /\ Owned(t)' = Owned(t)
      /\ \A a \in Actors : ToldToEnd(a)' => ToldToEnd(a)
  BY DEF ZyreStart, ZyreStop, WaitForPeerExit, Threads, Other, Waits, Owned,
     ToldToEnd, vars
<1>2. Other(t) \in Threads
  BY Others
<1>3. /\ Waits(t) => \A a \in Owned(t) : ToldToEnd(a)' => found[t] = "exited"
      /\ found[t] # "unseen" => node[Other(t)] # "new"
      /\ found[t] = "exited" => Finished(Other(t))'
      /\ node[t] = "stopped" => Finished(t)'
  <2>1. Owned(t) \subseteq Actors
    BY <1>0 DEF Owned, Fixed, Legal, Threads
  <2> QED BY <1>0, <1>1, <2>1 DEF Ordering
<1>4. /\ pc[u] \in DOMAIN program[u] /\ pc[u] \in Nat \ {0}
      /\ Now(u) = program[u][pc[u]]
      /\ Now(u).op \in {"zyre_start", "zyre_stop", "wait"}
      /\ ZyreStart(u) => Now(u).op = "zyre_start"
      /\ ZyreStop(u) => Now(u).op = "zyre_stop"
  BY <1>0, AtCall DEF ZyreStart, ZyreStop, WaitForPeerExit
<1>5. CASE ZyreStart(u) \/ ZyreStop(u)
  <2>1. /\ UNCHANGED <<found, events, want>> /\ Return(u)
        /\ \/ Now(u).op = "zyre_start" /\ node' = [node EXCEPT ![u] = "started"]
           \/ Now(u).op = "zyre_stop" /\ node' = [node EXCEPT ![u] = "stopped"]
    BY <1>4, <1>5 DEF ZyreStart, ZyreStop
  <2>2. node'[Other(t)] = "new" => node[Other(t)] = "new"
    BY <1>0, <1>2, <2>1 DEF Nodes
  <2>3. node'[t] = "stopped" => Finished(t)'
    <3>1. CASE node[t] = "stopped"
      BY <1>0, <3>1 DEF Ordering
    <3>2. CASE node[t] # "stopped" /\ node'[t] = "stopped"
      <4>1. t = u /\ Now(t).op = "zyre_stop" /\ pc'[t] = pc[t] + 1
        BY <1>0, <2>1, <3>2 DEF Nodes, Return, Counters
      <4>2. \A j \in DOMAIN program[t] :
              program[t][j].op = "finalize" => j < pc[t] /\ j \in Nat
        BY <1>0, <1>4, <4>1 DEF Fixed, MainOrder, Legal, Threads
      <4>3. HasResult(t)'
        BY <1>1, <1>4, <4>1, <4>2 DEF HasResult
      <4> QED BY <4>3 DEF Finished
    <3> QED BY <3>1, <3>2
  <2>4. \A i \in DOMAIN program[t] :
          program[t][i].op = "wait" /\ i < pc'[t] => i < pc[t]
    BY <1>0, <1>4, <2>1 DEF Return, Counters, Fixed, Legal, Threads
  <2> QED BY <1>0, <1>1, <1>3, <2>1, <2>2, <2>3, <2>4, OrderingAfter DEF Ordering
<1>6. CASE WaitForPeerExit(u)
  <2>1. /\ UNCHANGED <<node, found>> /\ events[u] # <<>>
        /\ events' = [events EXCEPT ![u] = Tail(@)]
        /\ pc' = pc \/ (Return(u) /\ Head(events[u]) = "EXIT")
    BY <1>6 DEF WaitForPeerExit, Heard
  <2>2. events[u] \in Seq({"ENTER", "EXIT"})
    BY <1>0 DEF Nodes
  <2>3. \A i \in DOMAIN events'[t] : events'[t][i] = "EXIT" => found[t] = "exited"
    <3>1. ASSUME NEW i \in DOMAIN Tail(events[u])
          PROVE  i + 1 \in DOMAIN events[u] /\ Tail(events[u])[i] = events[u][i + 1]
      BY <2>1, <2>2, <3>1
    <3>2. events'[t] = events[t] \/ (t = u /\ events'[t] = Tail(events[u]))
      BY <1>0, <2>1 DEF Nodes
    <3> QED BY <1>0, <3>1, <3>2 DEF Ordering
  <2>4. \A i \in DOMAIN program[t] :
          program[t][i].op = "wait" /\ i < pc'[t] => found[t] = "exited"
    <3>1. CASE pc'[t] = pc[t]
      BY <1>0, <3>1 DEF Ordering
    <3>2. CASE pc'[t] # pc[t]
      <4>1. t = u /\ Head(events[u]) = "EXIT"
        BY <1>0, <2>1, <3>2 DEF Return, Counters
      <4>2. 1 \in DOMAIN events[u] /\ events[u][1] = "EXIT"
        BY <2>1, <2>2, <4>1
      <4> QED BY <1>0, <4>1, <4>2 DEF Ordering
    <3> QED BY <3>1, <3>2
  <2> QED BY <1>0, <1>1, <1>3, <2>1, <2>3, <2>4, OrderingAfter DEF Ordering
<1> QED BY <1>5, <1>6

(* The nodes find and miss each other. *)
LEMMA OrderingFinds ==
  ASSUME Programmed, Met, TwoProcesses, NEW u \in Threads, Finds(u) \/ Misses(u),
         NEW t \in Threads, Finished(t) => Finished(t)',
         Finished(Other(t)) => Finished(Other(t))'
  PROVE  Ordering(t)'
<1>0. Fixed /\ Nodes /\ Ordering(t)
  BY DEF Programmed, Met
<1>1. /\ UNCHANGED <<node, want, vars, api>>
      /\ \A a \in Actors : ToldToEnd(a)' => ToldToEnd(a)
  BY DEF Finds, Misses, ToldToEnd, vars
<1>2. Other(t) \in Threads /\ Owned(t) \subseteq Actors
  BY <1>0, Others DEF Owned, Fixed, Legal, Threads
<1>3. program' = program /\ pc' = pc
  BY <1>1 DEF api
<1>4. CASE t # u
  <2>1. found'[t] = found[t] /\ events'[t] = events[t]
    BY <1>0, <1>4 DEF Finds, Misses, Nodes
  <2> QED BY <1>0, <1>1, <1>2, <1>3, <2>1, OrderingAfter DEF Ordering
<1>5. CASE t = u /\ Finds(u)
  <2>1. /\ found[t] = "unseen" /\ found'[t] = "entered"
        /\ events'[t] = Append(events[t], "ENTER")
        /\ node[Other(t)] = "started"
    BY <1>0, <1>5 DEF Finds, Nodes, Alive
  <2>2. events[t] \in Seq({"ENTER", "EXIT"})
    BY <1>0 DEF Nodes
  <2>3. \A i \in DOMAIN events'[t] : events'[t][i] # "EXIT"
    <3>1. \A i \in DOMAIN events[t] : events[t][i] # "EXIT"
      BY <1>0, <2>1 DEF Ordering
    <3> QED BY <2>1, <2>2, <3>1, AppendProperties
  <2> QED BY <1>0, <1>1, <1>2, <1>3, <2>1, <2>3, OrderingAfter DEF Ordering
<1>6. CASE t = u /\ Misses(u)
  <2>1. /\ found[t] = "entered" /\ found'[t] = "exited"
        /\ node[Other(t)] # "started" \/ Dead(Other(t))
    BY <1>0, <1>6 DEF Misses, Nodes, Alive
  <2>2. Finished(Other(t))
    <3>1. node[Other(t)] # "started" => node[Other(t)] = "stopped"
      BY <1>0, <1>2, <2>1 DEF Ordering, Nodes
    <3> QED BY <1>2, <2>1, <3>1 DEF Met, Ordering, Finished
  <2> QED BY <1>0, <1>1, <1>2, <1>3, <2>1, <2>2, OrderingAfter DEF Ordering
<1> QED BY <1>4, <1>5, <1>6

(* A call on an actor: one that destroys it has waited. *)
LEMMA OrderingCalls ==
  ASSUME Programmed, Met, TwoProcesses, NEW u \in Threads, ApiStep(u),
         UNCHANGED zyre,
         NEW t \in Threads, Finished(t) => Finished(t)',
         Finished(Other(t)) => Finished(Other(t))'
  PROVE  Ordering(t)'
<1>0. Typed /\ Fixed /\ Counters /\ Nodes /\ Ordering(t)
  BY DEF Programmed, Met
<1>1. UNCHANGED <<node, found, events, want>> /\ program' = program
  BY CallMoves DEF zyre, Moves
<1>2. Owned(t) \subseteq Actors
  BY <1>0 DEF Owned, Fixed, Legal, Threads
<1>3. \A i \in DOMAIN program[t] :
        program[t][i].op = "wait" /\ i < pc'[t] => found[t] = "exited"
  <2> SUFFICES ASSUME NEW i \in DOMAIN program[t],
                      program[t][i].op = "wait", i < pc'[t]
               PROVE  found[t] = "exited"
    OBVIOUS
  <2>1. i \in Nat \ {0}
    BY <1>0 DEF Fixed, Legal, Threads
  <2>2. i < pc[t] \/ (t = u /\ Return(u) /\ i = pc[u])
    BY <1>0, <2>1, CallMoves DEF Moves, Return, Dies, Counters
  <2>3. Return(u) /\ i = pc[u] => program[u][i].op # "wait"
    BY DEF ApiStep, SetBatch, Initiate, Finalize, Ask, Joined, Misread,
       Destroyed, At, Now
  <2> QED BY <1>0, <2>2, <2>3 DEF Ordering
<1>4. Waits(t) => \A a \in Owned(t) : ToldToEnd(a)' => found[t] = "exited"
  <2> SUFFICES ASSUME Waits(t), NEW a \in Owned(t), ToldToEnd(a)'
               PROVE  found[t] = "exited"
    OBVIOUS
  <2>1. CASE ToldToEnd(a)
    BY <1>0, <2>1 DEF Ordering
  <2>2. CASE ~ToldToEnd(a)
    <3>1. /\ Now(u).on = a /\ pc[u] \in DOMAIN program[u]
          /\ Now(u) = program[u][pc[u]] /\ Now(u).op = "destroy"
      <4>1. ~UNCHANGED pipe
        BY <2>2 DEF pipe, ToldToEnd
      <4>2. /\ Now(u).on \in Actors /\ Now(u).cmd \in Command
            /\ Gives(Now(u).on, Now(u).cmd)
            /\ Now(u).cmd.kind = "$TERM" =>
                 /\ pc[u] \in DOMAIN program[u] /\ Now(u) = program[u][pc[u]]
                 /\ Now(u).op = "destroy"
        BY <4>1, CallMoves
      <4> QED BY <1>0, <1>2, <2>2, <4>2, GiveTells DEF Gives
    <3>2. u = t
      <4>1. PICK i \in DOMAIN program[t] : program[t][i].on = a
        BY DEF Owned
      <4> QED BY <1>0, <3>1, <4>1 DEF Fixed, Legal, Threads
    <3>3. PICK i \in DOMAIN program[t] : program[t][i].op = "wait"
      BY DEF Waits
    <3>4. i < pc[t]
      BY <1>0, <3>1, <3>2, <3>3 DEF Fixed, MainOrder, Threads
    <3> QED BY <1>0, <3>3, <3>4 DEF Ordering
  <2> QED BY <2>1, <2>2
<1> QED BY <1>0, <1>1, <1>3, <1>4, OrderingAfter DEF Ordering

(* An actor's step tells nobody to end and moves no thread. *)
LEMMA OrderingActs ==
  ASSUME Programmed, Met, TwoProcesses, UNCHANGED <<api, zyre>>,
         \A a \in Actors : ToldToEnd(a)' => ToldToEnd(a),
         NEW t \in Threads, Finished(t) => Finished(t)',
         Finished(Other(t)) => Finished(Other(t))'
  PROVE  Ordering(t)'
<1>1. UNCHANGED <<program, pc, node, found, events>>
  BY DEF api, zyre
<1>2. Owned(t) \subseteq Actors
  BY DEF Programmed, Owned, Fixed, Legal, Threads
<1> QED BY <1>1, <1>2, OrderingAfter DEF Met, Ordering

LEMMA MetInit == CliInit => Met
<1> SUFFICES ASSUME CliInit PROVE Met
  OBVIOUS
<1>1. Nodes
  BY DEF CliInit, Nodes
<1>2. ASSUME NEW t \in Threads PROVE Ordering(t)
  <2>1. \A a \in Actors : ~ToldToEnd(a)
    BY DEF CliInit, ApiInit, Init, ToldToEnd
  <2>2. Owned(t) \subseteq Actors
    BY ProgrammedInit DEF Programmed, Owned, Fixed, Legal, Threads
  <2>3. \A i \in DOMAIN program[t] : ~(i < pc[t])
    BY ProgrammedInit DEF Programmed, Fixed, Legal, Threads, CliInit, ApiInit
  <2> QED BY <2>1, <2>2, <2>3 DEF CliInit, Ordering
<1> QED BY <1>1, <1>2 DEF Met

LEMMA MetNext == Programmed /\ Met /\ [CliNext]_cliVars => Met'
<1> SUFFICES ASSUME Programmed, Met, [CliNext]_cliVars PROVE Met'
  OBVIOUS
<1>0. Typed /\ Counters /\ Nodes
  BY DEF Programmed, Met
<1>1. CASE UNCHANGED cliVars
  <2>1. /\ UNCHANGED <<program, pc, phase, cmds, node, found, events>>
        /\ Threads' = Threads
    BY <1>1 DEF cliVars, vars, api, zyre, Threads
  <2>2. Nodes' = Nodes /\ TwoProcesses' = TwoProcesses
    BY <2>1 DEF Nodes, TwoProcesses
  <2>3. ASSUME NEW t \in Threads PROVE Ordering(t)' = Ordering(t)
    BY <2>1 DEF Ordering, Finished, HasResult, Dead, Other, Owned, Waits,
       ToldToEnd, Threads
  <2> QED BY <2>1, <2>2, <2>3 DEF Met
<1>2. CASE CliNext
  <2>1. program' = program /\ Threads' = Threads
    <3>1. \/ \E t \in Threads : Moves(t) \/ UNCHANGED <<program, pc, sent>>
          \/ UNCHANGED <<program, pc, sent>>
      BY <1>2, CliMoves, CallMoves DEF api
    <3> QED BY <3>1 DEF Moves, Threads
  <2>2. ASSUME NEW t \in Threads, TwoProcesses
        PROVE  Ordering(t)'
    <3>1. /\ Other(t) \in Threads /\ (Finished(t) => Finished(t)')
          /\ Finished(Other(t)) => Finished(Other(t))'
      <4>1. PICK o \in Threads : o = Other(t)
        BY <2>2, Others
      <4>2. (Finished(t) => Finished(t)') /\ (Finished(o) => Finished(o)')
        BY <1>2, FinishedStays
      <4>3. Other(t)' = o
        BY <2>1, <4>1 DEF Other
      <4> QED BY <4>1, <4>2, <4>3
    <3>2. ASSUME UNCHANGED <<api, zyre>>, NEW a \in Actors, PerfStep(a)
          PROVE  Ordering(t)'
      <4>1. \A b \in Actors : ToldToEnd(b)' => ToldToEnd(b)
        BY <1>0, <3>2, PerfTellsNothing
      <4> QED BY <2>2, <3>1, <3>2, <4>1, OrderingActs
    <3> QED BY <1>2, <2>2, <3>1, <3>2, CliMoves, OrderingStarts, OrderingFinds,
               OrderingCalls
  <2>3. Nodes'
    <3>1. CASE UNCHANGED zyre
      BY <1>0, <2>1, <3>1 DEF Nodes, zyre
    <3>2. ASSUME NEW t \in Threads, ZyreStart(t) \/ ZyreStop(t)
          PROVE  Nodes'
      BY <1>0, <2>1, <3>2 DEF Nodes, ZyreStart, ZyreStop
    <3>3. ASSUME NEW t \in Threads, WaitForPeerExit(t)
          PROVE  Nodes'
      <4>1. events[t] # <<>> /\ events[t] \in Seq({"ENTER", "EXIT"})
        BY <1>0, <3>3 DEF Nodes, WaitForPeerExit
      <4>2. Tail(events[t]) \in Seq({"ENTER", "EXIT"})
        BY <4>1
      <4> QED BY <1>0, <2>1, <3>3, <4>2 DEF Nodes, WaitForPeerExit
    <3>4. ASSUME NEW t \in Threads, Finds(t) \/ Misses(t)
          PROVE  Nodes'
      <4>1. \A e \in {"ENTER", "EXIT"} :
              Append(events[t], e) \in Seq({"ENTER", "EXIT"})
        BY <1>0, AppendProperties DEF Nodes
      <4> QED BY <1>0, <2>1, <3>4, <4>1 DEF Nodes, Finds, Misses
    <3> QED BY <1>2, <3>1, <3>2, <3>3, <3>4, CliMoves DEF zyre
  <2>4. TwoProcesses' = TwoProcesses
    BY <2>1 DEF TwoProcesses
  <2> QED BY <2>1, <2>2, <2>3, <2>4 DEF Met
<1> QED BY <1>1, <1>2

(* A zperfcli that waits for the other destroys its socket, and with it what is
   still queued, only when the other has its result or has died: however late
   the nodes find each other, whatever is heard before the wait begins, for any
   measurements and any high-water mark. *)
THEOREM WaitKeepsTheSender == CliSpec => []SenderOutlivesItsData
<1>1. Met => SenderOutlivesItsData
  <2> SUFFICES ASSUME Met, TwoProcesses, NEW t \in Threads, Waits(t),
                      NEW a \in Owned(t), phase[a] = "ended"
               PROVE  HasResult(Other(t)) \/ Dead(Other(t))
    BY DEF SenderOutlivesItsData
  <2> QED BY DEF Met, Ordering, ToldToEnd, Finished
<1> QED BY <1>1, CliIsProgrammed, MetInit, MetNext, PTL DEF CliSpec

-----------------------------------------------------------------------------
(* Whose answer finalize takes. *)
Complete(a) == Len(answers[a]) = Due(given[a], Done(a))

(* While none is missing each answer is of the command at its place. *)
Named(a) ==
  /\ Len(answers[a]) <= Due(given[a], Done(a))
  /\ Complete(a) => \A k \in DOMAIN answers[a] : \E i \in 1..Done(a) :
       /\ IsAnswered(given[a][i]) /\ Due(given[a], i) = k
       /\ answers[a][k].kind = given[a][i].kind

(* The size is that of the last measurement. *)
Sized(a) ==
  \A i \in DOMAIN given[a] :
    /\ given[a][i].kind \in Measures
    /\ \A j \in DOMAIN given[a] : i < j => given[a][j].kind \notin Measures
    => last[a].msgsize = given[a][i].size

(* The result is of the measurement whose answer was taken last. *)
Shown(a) ==
  last[a].name # "none" /\ Complete(a) => \E i \in 1..Done(a) :
    /\ given[a][i].kind \in Measures /\ Due(given[a], i) = taken[a]
    /\ last[a].name = given[a][i].kind
    /\ last[a].nbytes = answers[a][taken[a]].total

(* No answer to a join is left to be taken. *)
NoJoin(a) ==
  \A i \in DOMAIN given[a] :
    given[a][i].kind \in Joins => Due(given[a], i) <= taken[a]

(* None is, but of the join the thread waits for. *)
AtJoin(t, a) ==
  /\ pc[t] \in DOMAIN program[t] /\ sent[t]
  /\ Now(t).op \in {"bind", "connect"} /\ Now(t).on = a

Joining(t, a) ==
  pc[t] # 0 /\ Complete(a) =>
    \/ NoJoin(a)
    \/ /\ AtJoin(t, a)
       /\ \A i \in DOMAIN given[a] : given[a][i].kind \in Joins =>
            i = Len(given[a]) \/ Due(given[a], i) <= taken[a]

(* A result has been read by a finalize. *)
Finalized(t, a) ==
  last[a].name # "none" /\ pc[t] # 0 => \E i \in DOMAIN program[t] :
    program[t][i].op = "finalize" /\ program[t][i].on = a /\ i < pc[t]

Results == [name : Joins \cup Measures \cup {"none"}, nbytes : Nat, noos : Nat,
            msgsize : Nat]

Reading ==
  /\ taken \in [Actors -> Nat]
  /\ last \in [Actors -> Results]
  /\ \A a \in Actors : taken[a] <= Len(answers[a])

Readable ==
  /\ Reading
  /\ \A a \in Actors : Named(a) /\ Sized(a) /\ Shown(a)
  /\ \A t \in Threads : \A a \in Owned(t) : Joining(t, a) /\ Finalized(t, a)

(* Of two answered commands the later has more before it. *)
LEMMA DueLater ==
  ASSUME NEW g, NEW i \in Nat \ {0}, NEW j \in Nat, i < j, IsAnswered(g[i]),
         IsAnswered(g[j])
  PROVE  Due(g, i) < Due(g, j)
<1>1. j - 1 \in Nat /\ i \in 1..(j - 1)
  OBVIOUS
<1>2. Due(g, i) \in 1..Due(g, j - 1) /\ Due(g, j - 1) \in Nat
  BY <1>1, DueWithin, DueNext
<1>3. Due(g, (j - 1) + 1) = Due(g, j - 1) + 1
  <2>1. (j - 1) + 1 = j
    OBVIOUS
  <2> QED BY <1>1, <2>1, DueNext
<1>4. Due(g, j) = Due(g, j - 1) + 1
  BY <1>3
<1> QED BY <1>2, <1>4

(* A step of an actor: what it has answered it has answered, and an answer more
   is to the next of its commands. *)
LEMMA NamedStep ==
  ASSUME Typed, NEW b \in Actors, PerfStep(b), NEW a \in Actors, Named(a)
  PROVE  /\ Named(a)' /\ given' = given
         /\ Complete(a)' => Complete(a)
         /\ Len(answers[a]) <= Len(answers'[a])
         /\ \A k \in DOMAIN answers[a] : answers'[a][k] = answers[a][k]
         /\ Done(a) \in Nat /\ Done(a)' \in Nat /\ Done(a) <= Done(a)'
<1> DEFINE d == Done(a)  g == given[a]  u == answers[a]  v == answers'[a]
<1>0. given' = given /\ d \in Nat /\ u \in Seq(Answer) /\ Due(g, d) \in Nat
  BY PipeStep, DoneGiven, DueNext DEF Typed, Pipework
<1>1. CASE cmds'[a] = cmds[a] /\ v = u
  <2>1. Done(a)' = d
    BY <1>0, <1>1 DEF Done
  <2> QED BY <1>0, <1>1, <2>1 DEF Named, Complete
<1>2. CASE a = b /\ (Answered(a) \/ Dropped(a))
  <2>1. /\ Done(a)' = d + 1 /\ g[d + 1] = Next1(a)
        /\ Due(g, d + 1) =
             IF IsAnswered(Next1(a)) THEN Due(g, d) + 1 ELSE Due(g, d)
    <3>1. cmds[a] # <<>> /\ cmds' = [cmds EXCEPT ![a] = Tail(@)]
      BY <1>2 DEF Answered, Dropped
    <3>2. Done(a)' = d + 1 /\ g[d + 1] = Next1(a)
      BY <1>0, <3>1, DoneNext
    <3>3. Due(g, d + 1) = IF IsAnswered(g[d + 1]) THEN Due(g, d) + 1 ELSE Due(g, d)
      BY <1>0, DueNext
    <3> QED BY <3>2, <3>3
  <2>2. CASE Dropped(a)
    <3>1. v = u
      BY <2>2 DEF Dropped
    <3> QED BY <1>0, <2>1, <3>1 DEF Named, Complete
  <2>3. CASE Answered(a)
    <3>1. IsAnswered(Next1(a))
      BY <2>3 DEF Answered, IsAnswered
    <3>2. PICK x \in Answer : x.kind = Next1(a).kind /\ v = Append(u, x)
      BY <2>3 DEF Answered, Typed, Pipework
    <3> HIDE DEF u, v
    <3>3. /\ Len(v) = Len(u) + 1 /\ v[Len(u) + 1] = x /\ Len(u) \in Nat
          /\ DOMAIN u = 1..Len(u) /\ DOMAIN v = 1..(Len(u) + 1)
          /\ \A k \in 1..Len(u) : v[k] = u[k]
      BY <1>0, <3>2, AppendProperties
    <3>4. Complete(a)' => Complete(a)
      BY <1>0, <2>1, <3>1, <3>3 DEF Complete, u, v
    <3>5. ASSUME Complete(a), NEW k \in DOMAIN v
          PROVE  \E i \in 1..(d + 1) :
                   /\ IsAnswered(g[i]) /\ Due(g, i) = k
                   /\ v[k].kind = g[i].kind
      <4>1. CASE k \in 1..Len(u)
        <5>1. PICK i \in 1..d : /\ IsAnswered(g[i]) /\ Due(g, i) = k
                                /\ u[k].kind = g[i].kind
          BY <3>3, <3>5, <4>1 DEF Named, u
        <5> QED BY <1>0, <3>3, <4>1, <5>1
      <4>2. CASE k = Len(u) + 1
        <5>1. Len(u) = Due(g, d)
          BY <3>5 DEF Complete, u
        <5>2. /\ d + 1 \in 1..(d + 1) /\ IsAnswered(g[d + 1])
              /\ Due(g, d + 1) = k /\ v[k].kind = g[d + 1].kind
          BY <1>0, <2>1, <3>1, <3>2, <3>3, <4>2, <5>1
        <5> QED BY <5>2
      <4> QED BY <3>3, <4>1, <4>2
    <3>6. Len(v) <= Due(g, d + 1)
      BY <1>0, <2>1, <3>1, <3>3 DEF Named, u
    <3>7. Named(a)'
      BY <1>0, <2>1, <3>4, <3>5, <3>6 DEF Named, v
    <3> QED BY <1>0, <2>1, <3>3, <3>4, <3>7 DEF u, v
  <2> QED BY <1>2, <2>2, <2>3
<1>3. CASE a # b
  BY <1>1, <1>3, SparedStep DEF Spared
<1>4. a = b => (cmds' = cmds /\ answers' = answers) \/ Answered(a) \/ Dropped(a)
  BY PipeStep DEF Typed
<1> QED BY <1>1, <1>2, <1>3, <1>4

(* A step of an actor keeps what has been read of both. *)
LEMMA ActsRead ==
  ASSUME Programmed, Readable, NEW b \in Actors, PerfStep(b), UNCHANGED api
  PROVE  Readable'
<1>0. /\ Typed /\ Fixed /\ UNCHANGED <<program, pc, sent, taken, last>>
      /\ Threads' = Threads /\ Reading
  BY DEF Programmed, Readable, api, Threads
<1>1. ASSUME NEW a \in Actors
      PROVE  /\ Named(a)' /\ Sized(a)' /\ Shown(a)' /\ taken[a] <= Len(answers'[a])
             /\ NoJoin(a)' = NoJoin(a) /\ (Complete(a)' => Complete(a))
  <2>1. /\ Named(a)' /\ given' = given
        /\ Complete(a)' => Complete(a)
        /\ Len(answers[a]) <= Len(answers'[a])
        /\ \A k \in DOMAIN answers[a] : answers'[a][k] = answers[a][k]
        /\ Done(a) \in Nat /\ Done(a)' \in Nat /\ Done(a) <= Done(a)'
    BY <1>0, NamedStep DEF Readable
  <2>2. /\ taken[a] \in Nat /\ taken[a] <= Len(answers[a])
        /\ answers[a] \in Seq(Answer) /\ Len(answers'[a]) \in Nat
    <3>1. Typed'
      <4>1. [AnyNext]_vars
        BY DEF AnyNext
      <4> QED BY <1>0, <4>1, TypesNext
    <3> QED BY <1>0, <3>1 DEF Reading, Typed, Pipework
  <2>3. Shown(a)'
    <3> SUFFICES ASSUME last[a].name # "none", Complete(a)
                 PROVE  \E i \in 1..Done(a)' :
                          /\ given[a][i].kind \in Measures
                          /\ Due(given[a], i) = taken[a]
                          /\ last[a].name = given[a][i].kind
                          /\ last[a].nbytes = answers'[a][taken[a]].total
      BY <1>0, <2>1 DEF Shown
    <3>1. PICK i \in 1..Done(a) :
            /\ given[a][i].kind \in Measures /\ Due(given[a], i) = taken[a]
            /\ last[a].name = given[a][i].kind
            /\ last[a].nbytes = answers[a][taken[a]].total
      BY DEF Readable, Shown
    <3>2. i \in Nat /\ i \in 1..i /\ IsAnswered(given[a][i])
      BY <2>1, <3>1 DEF IsAnswered
    <3>3. taken[a] \in 1..Due(given[a], i) /\ i \in 1..Done(a)'
      BY <2>1, <3>1, <3>2, DueWithin
    <3>4. taken[a] \in DOMAIN answers[a]
      BY <2>2, <3>3
    <3> QED BY <2>1, <3>1, <3>3, <3>4
  <2>4. Sized(a)' = Sized(a) /\ NoJoin(a)' = NoJoin(a)
    BY <1>0, <2>1 DEF Sized, NoJoin
  <2> QED BY <2>1, <2>2, <2>3, <2>4 DEF Readable
<1>2. given' = given
  BY <1>0, PipeStep DEF Typed
<1>3. Reading'
  BY <1>0, <1>1 DEF Reading
<1>4. ASSUME NEW t \in Threads, NEW a \in Owned(t)
      PROVE  Joining(t, a)' /\ Finalized(t, a)'
  <2>1. Joining(t, a) /\ Finalized(t, a) /\ a \in Actors
    BY <1>0 DEF Readable, Owned, Fixed, Legal, Threads
  <2>2. Finalized(t, a)' /\ AtJoin(t, a)' = AtJoin(t, a)
    BY <1>0, <2>1 DEF Finalized, AtJoin, Now
  <2>3. NoJoin(a)' = NoJoin(a) /\ (Complete(a)' => Complete(a))
    BY <1>1, <2>1
  <2> QED BY <1>0, <1>2, <2>1, <2>2, <2>3 DEF Joining
<1>5. \A t \in Threads : Owned(t)' = Owned(t)
  BY <1>0 DEF Owned
<1> QED BY <1>0, <1>1, <1>3, <1>4, <1>5 DEF Readable

(* What a call does not touch of an actor. *)
Same(a) ==
  /\ given'[a] = given[a] /\ cmds'[a] = cmds[a] /\ answers'[a] = answers[a]
  /\ taken'[a] = taken[a] /\ last'[a] = last[a]

LEMMA SameReads ==
  ASSUME NEW a, Same(a)
  PROVE  /\ Complete(a)' = Complete(a) /\ NoJoin(a)' = NoJoin(a)
         /\ Named(a) => Named(a)'
         /\ Sized(a) => Sized(a)'
         /\ Shown(a) => Shown(a)'
<1>1. Done(a)' = Done(a)
  BY DEF Same, Done
<1>2. Complete(a)' = Complete(a)
  BY <1>1 DEF Same, Complete
<1> QED BY <1>1, <1>2 DEF Same, NoJoin, Named, Sized, Shown

(* Who moves has not gone back. *)
LEMMA MovesOn ==
  ASSUME Fixed, Counters, NEW t \in Threads, Moves(t), NEW u \in Threads
  PROVE  /\ program' = program /\ (pc'[u] = 0 \/ (pc[u] # 0 /\ pc'[u] >= pc[u]))
         /\ pc'[u] \in Nat /\ pc[u] \in Nat
         /\ u # t => pc'[u] = pc[u] /\ sent'[u] = sent[u]
<1>1. Counters' /\ Threads' = Threads
  BY StillPast
<1> QED BY <1>1, StillPast DEF Counters, Moves, Return, Dies

LEMMA FinalizedElse ==
  ASSUME Fixed, Counters, NEW t \in Threads, Moves(t), NEW u \in Threads, NEW a,
         last'[a] = last[a] \/ last'[a].name = "none", Finalized(u, a)
  PROVE  Finalized(u, a)'
<1>1. /\ program' = program /\ (pc'[u] = 0 \/ (pc[u] # 0 /\ pc'[u] >= pc[u]))
      /\ pc'[u] \in Nat /\ pc[u] \in Nat
  BY MovesOn
<1> SUFFICES ASSUME last'[a].name # "none", pc'[u] # 0
             PROVE  \E i \in DOMAIN program[u] :
                      /\ program[u][i].op = "finalize"
                      /\ program[u][i].on = a /\ i < pc'[u]
  BY <1>1 DEF Finalized
<1>2. PICK i \in DOMAIN program[u] :
        /\ program[u][i].op = "finalize" /\ program[u][i].on = a /\ i < pc[u]
  BY <1>1 DEF Finalized
<1>3. i \in Nat
  BY DEF Fixed, Legal, Threads
<1> QED BY <1>1, <1>2, <1>3

(* Nor of the reading of another actor than the one that is called. *)
LEMMA ReadsElse ==
  ASSUME Fixed, Counters, NEW t \in Threads, Moves(t), NEW u \in Threads, NEW a,
         Same(a), Joining(u, a), Finalized(u, a), ~(u = t /\ AtJoin(t, a))
  PROVE  Joining(u, a)' /\ Finalized(u, a)'
<1>1. /\ program' = program /\ (pc'[u] = 0 \/ (pc[u] # 0 /\ pc'[u] >= pc[u]))
      /\ pc'[u] \in Nat /\ pc[u] \in Nat
      /\ u # t => pc'[u] = pc[u] /\ sent'[u] = sent[u]
  BY MovesOn
<1>2. Complete(a)' = Complete(a) /\ NoJoin(a)' = NoJoin(a)
  BY SameReads
<1>3. Joining(u, a)'
  <2>1. CASE NoJoin(a)
    BY <1>2, <2>1 DEF Joining
  <2>2. CASE ~NoJoin(a) /\ u # t
    <3>1. AtJoin(u, a)' = AtJoin(u, a)
      BY <1>1, <2>2 DEF AtJoin, Now
    <3> QED BY <1>1, <1>2, <2>2, <3>1 DEF Joining, Same
  <2>3. CASE ~NoJoin(a) /\ u = t
    BY <1>1, <1>2, <2>3 DEF Joining
  <2> QED BY <2>1, <2>2, <2>3
<1>4. Finalized(u, a)'
  BY FinalizedElse DEF Same
<1> QED BY <1>3, <1>4

(* A call is of one actor, and only its thread calls that. *)
LEMMA OneThread ==
  ASSUME Fixed, NEW t \in Threads, NEW i \in DOMAIN program[t],
         NEW u \in Threads, program[t][i].on \in Owned(u)
  PROVE  u = t
<1>1. PICK j \in DOMAIN program[u] : program[u][j].on = program[t][i].on
  BY DEF Owned
<1> QED BY <1>1 DEF Fixed, Legal, Threads

(* It leaves the reading of the other actor alone. *)
LEMMA ReadsOfOthers ==
  ASSUME Programmed, Readable, NEW t \in Threads, Moves(t),
         NEW ops, At(t, ops), NEW a, a = Now(t).on,
         \A b \in Actors \ {a} : Same(b),
         Reading', Named(a)', Sized(a)', Shown(a)', Joining(t, a)', Finalized(t, a)'
  PROVE  Readable'
<1>1. Fixed /\ Counters /\ program' = program /\ Threads' = Threads
  BY DEF Programmed, Moves, Threads
<1>2. pc[t] \in DOMAIN program[t] /\ Now(t) = program[t][pc[t]]
  BY <1>1, AtCall
<1>3. \A b \in Actors : Named(b)' /\ Sized(b)' /\ Shown(b)'
  BY SameReads DEF Readable
<1>4. ASSUME NEW u \in Threads, NEW b \in Owned(u)
      PROVE  Joining(u, b)' /\ Finalized(u, b)'
  <2>1. b \in Actors /\ Joining(u, b) /\ Finalized(u, b)
    BY <1>1 DEF Readable, Owned, Fixed, Legal, Threads
  <2>2. CASE b = a
    <3>1. u = t
      BY <1>1, <1>2, <2>2, OneThread
    <3> QED BY <2>2, <3>1
  <2>3. CASE b # a
    BY <1>1, <2>1, <2>3, ReadsElse DEF AtJoin
  <2> QED BY <2>2, <2>3
<1> QED
  <2>1. \A u \in Threads : Owned(u)' = Owned(u)
    BY <1>1 DEF Owned
  <2> QED BY <1>1, <1>3, <1>4, <2>1 DEF Readable

(* A step that gives nothing and takes nothing, at a call that is not a join. *)
LEMMA StillReads ==
  ASSUME Programmed, Readable, NEW t \in Threads,
         UNCHANGED <<given, cmds, answers, taken, last>>, Moves(t),
         NEW ops, At(t, ops), ops \cap {"bind", "connect"} = {}
  PROVE  Readable'
<1>0. Fixed /\ Counters /\ program' = program /\ Threads' = Threads
  BY DEF Programmed, Moves, Threads
<1>1. Now(t).op \notin {"bind", "connect"}
  BY DEF At
<1>2. \A a : Same(a)
  BY DEF Same
<1>3. \A a \in Actors : Named(a)' /\ Sized(a)' /\ Shown(a)'
  BY <1>2, SameReads DEF Readable
<1>4. ASSUME NEW u \in Threads, NEW a \in Owned(u)
      PROVE  Joining(u, a)' /\ Finalized(u, a)'
  <2>1. Joining(u, a) /\ Finalized(u, a)
    BY DEF Readable
  <2> QED BY <1>0, <1>1, <1>2, <2>1, ReadsElse DEF AtJoin
<1>5. Reading'
  BY DEF Readable, Reading
<1>6. \A u \in Threads : Owned(u)' = Owned(u)
  BY <1>0 DEF Owned
<1> QED BY <1>0, <1>3, <1>4, <1>5, <1>6 DEF Readable

(* What a command given adds to the commands. *)
LEMMA GiveReads ==
  ASSUME Programmed, Readable, NEW a \in Actors, NEW c \in Command, Gives(a, c),
         taken' = taken
  PROVE  /\ Named(a)' /\ Complete(a)' = Complete(a)
         /\ last'[a] = last[a] => Shown(a)'
         /\ c.kind \notin Measures /\ last'[a] = last[a] => Sized(a)'
         /\ c.kind \in Measures /\ last'[a].msgsize = c.size => Sized(a)'
         /\ c.kind \notin Joins /\ NoJoin(a) => NoJoin(a)'
         /\ NoJoin(a) => \A i \in DOMAIN given'[a] : given'[a][i].kind \in Joins =>
              i = Len(given'[a]) \/ Due(given'[a], i) <= taken'[a]
<1> DEFINE g == given[a]  h == given'[a]  n == Len(given[a])
<1>1. /\ g \in Seq(Command) /\ h = Append(g, c) /\ answers' = answers
      /\ taken[a] \in Nat
  BY DEF Gives, Submit, Programmed, Typed, Pipework, Readable, Reading
<1>2. /\ n \in Nat /\ Len(h) = n + 1 /\ h[n + 1] = c
      /\ DOMAIN g = 1..n /\ DOMAIN h = 1..(n + 1)
      /\ \A i \in 1..n : h[i] = g[i]
  BY <1>1, AppendProperties
<1>3. Done(a)' = Done(a) /\ Done(a) \in Nat /\ Done(a) <= n
  BY DoneGives, DoneGiven DEF Programmed
<1> HIDE DEF g, h, n
<1>4. ASSUME NEW i \in 0..n PROVE Due(h, i) = Due(g, i)
  BY <1>2, DueSame
<1>5. Due(h, Done(a)) = Due(g, Done(a))
  BY <1>3, <1>2, <1>4
<1>6. Complete(a)' = Complete(a)
  BY <1>1, <1>3, <1>5 DEF Complete, g, h
<1>7. \A i \in 1..Done(a) : h[i] = g[i] /\ Due(h, i) = Due(g, i)
  BY <1>2, <1>3, <1>4
<1>8. Named(a)'
  <2>1. Named(a)
    BY DEF Readable
  <2>2. Len(answers[a]) <= Due(h, Done(a))
    BY <1>5, <2>1 DEF Named, g
  <2>3. ASSUME Complete(a), NEW k \in DOMAIN answers[a]
        PROVE  \E i \in 1..Done(a) : /\ IsAnswered(h[i]) /\ Due(h, i) = k
                                     /\ answers[a][k].kind = h[i].kind
    <3>1. PICK i \in 1..Done(a) : /\ IsAnswered(g[i]) /\ Due(g, i) = k
                                  /\ answers[a][k].kind = g[i].kind
      BY <2>1, <2>3 DEF Named, g
    <3> QED BY <1>7, <3>1
  <2> QED BY <1>1, <1>3, <1>6, <2>2, <2>3 DEF Named, h
<1>9. last'[a] = last[a] => Shown(a)'
  BY <1>1, <1>3, <1>6, <1>7 DEF Readable, Shown, g, h
<1>10. ASSUME c.kind \notin Measures, last'[a] = last[a] PROVE Sized(a)'
  <2> SUFFICES ASSUME NEW i \in 1..(n + 1), h[i].kind \in Measures,
                      \A j \in 1..(n + 1) : i < j => h[j].kind \notin Measures
               PROVE  last[a].msgsize = h[i].size
    BY <1>2, <1>10 DEF Sized, h
  <2>1. i \in 1..n
    BY <1>2, <1>10
  <2>2. \A j \in 1..n : i < j => g[j].kind \notin Measures
    BY <1>2
  <2> QED BY <1>2, <2>1, <2>2 DEF Readable, Sized, g
<1>11. ASSUME c.kind \in Measures, last'[a].msgsize = c.size PROVE Sized(a)'
  <2> SUFFICES ASSUME NEW i \in 1..(n + 1), h[i].kind \in Measures,
                      \A j \in 1..(n + 1) : i < j => h[j].kind \notin Measures
               PROVE  c.size = h[i].size
    BY <1>2, <1>11 DEF Sized, h
  <2> QED BY <1>2, <1>11
<1>12. c.kind \notin Joins /\ NoJoin(a) => NoJoin(a)'
  BY <1>1, <1>2, <1>4 DEF NoJoin, g, h
<1>13. NoJoin(a) => \A i \in DOMAIN h : h[i].kind \in Joins =>
         i = Len(h) \/ Due(h, i) <= taken'[a]
  BY <1>1, <1>2, <1>4 DEF NoJoin, g
<1> QED BY <1>6, <1>8, <1>9, <1>10, <1>11, <1>12, <1>13 DEF h

(* A call that sends: set_batch, initiate, bind, connect, destroy. *)
LEMMA SendReads ==
  ASSUME Programmed, Readable, NEW t \in Threads,
         SetBatch(t) \/ Initiate(t) \/ Ask(t), UNCHANGED sock
  PROVE  Readable'
<1> DEFINE c == Now(t).cmd  i == pc[t]
<1> PICK a : a = Now(t).on
  OBVIOUS
<1>0. Typed /\ Fixed /\ Counters /\ ApiStep(t)
  BY DEF Programmed, ApiStep
<1>1. /\ At(t, Submits) /\ (~sent[t] \/ At(t, {"set_batch", "initiate"}))
      /\ Submit(a, c) /\ taken' = taken
  BY DEF SetBatch, Initiate, Ask, At, Submits
<1>2. /\ i \in DOMAIN program[t] /\ i \in Nat \ {0} /\ Now(t) = program[t][i]
      /\ Now(t).op \in Submits /\ a \in Actors
  BY <1>0, <1>1, AtCall
<1>3. c \in Command /\ Gives(a, c) /\ Moves(t)
  BY <1>0, <1>1, CallGives, CallMoves
<1>4. /\ c.kind \in Joins <=> Now(t).op \in {"bind", "connect"}
      /\ c.kind \in Measures <=> Now(t).op = "initiate"
  BY <1>0, <1>2 DEF Fixed, Legal, Threads, Submits, JoinCommands, Joins, Measures,
     Notes, Sends, Recvs, Yodels, Echos
<1>5. /\ \A b \in Actors \ {a} : Same(b)
      /\ last' = IF Initiate(t) THEN [last EXCEPT ![a] = Fresh(c)] ELSE last
      /\ Initiate(t) => Now(t).op = "initiate"
  <2>1. \A b \in Actors \ {a} : given'[b] = given[b] /\ cmds'[b] = cmds[b]
    BY <1>0, <1>1 DEF Submit, Typed, Pipework
  <2>2. Initiate(t) => Now(t).op = "initiate"
    BY DEF Initiate, At
  <2>3. last' = IF Initiate(t) THEN [last EXCEPT ![a] = Fresh(c)] ELSE last
    BY DEF SetBatch, Initiate, Ask
  <2>4. answers' = answers
    BY <1>1 DEF Submit
  <2> QED BY <1>1, <2>1, <2>2, <2>3, <2>4 DEF Same, Readable, Reading
<1>6. /\ last'[a] = IF Initiate(t) THEN Fresh(c) ELSE last[a]
      /\ last' \in [Actors -> Results]
  <2>1. Fresh(c) \in Results
    BY <1>3 DEF Fresh, Cleared, Results, Command
  <2> QED BY <1>2, <1>5, <2>1 DEF Readable, Reading
<1>7. Fresh(c).name = "none" /\ Fresh(c).msgsize = c.size
  BY DEF Fresh, Cleared
<1>8. Now(t).op = "initiate" <=> Initiate(t)
  BY <1>5 DEF SetBatch, Ask, At
<1>9. Reading'
  BY <1>1, <1>6 DEF Readable, Reading, Submit
<1>10. Named(a)' /\ Sized(a)'
  BY <1>3, <1>1, <1>2, <1>4, <1>6, <1>7, <1>8, GiveReads
<1>11. Shown(a)'
  <2>1. CASE Initiate(t)
    BY <2>1, <1>6, <1>7 DEF Shown
  <2>2. CASE ~Initiate(t)
    BY <1>1, <1>2, <1>3, <1>6, <2>2, GiveReads
  <2> QED BY <2>1, <2>2
<1>12. a \in Owned(t) /\ Joining(t, a) /\ Finalized(t, a)
  BY <1>2 DEF Owned, Readable
<1>13. Finalized(t, a)'
  BY <1>0, <1>3, <1>6, <1>7, <1>12, FinalizedElse
<1>14. Joining(t, a)'
  <2>1. /\ Complete(a)' = Complete(a) /\ (c.kind \notin Joins /\ NoJoin(a) => NoJoin(a)')
        /\ NoJoin(a) => \A k \in DOMAIN given'[a] : given'[a][k].kind \in Joins =>
              k = Len(given'[a]) \/ Due(given'[a], k) <= taken'[a]
    BY <1>1, <1>2, <1>3, GiveReads
  <2>2. ~AtJoin(t, a)
    BY <1>1 DEF AtJoin, At
  <2>3. Complete(a) => NoJoin(a)
    BY <1>2, <1>12, <2>2 DEF Joining
  <2>4. CASE c.kind \notin Joins
    BY <2>1, <2>3, <2>4 DEF Joining
  <2>5. CASE c.kind \in Joins
    <3>1. Ask(t)
      BY <1>4, <2>5 DEF SetBatch, Initiate, At
    <3>2. AtJoin(t, a)'
      BY <1>0, <1>2, <1>4, <2>5, <3>1 DEF Ask, AtJoin, Now, Counters
    <3> QED BY <2>1, <2>3, <3>2 DEF Joining
  <2> QED BY <2>4, <2>5
<1> QED BY <1>1, <1>3, <1>5, <1>9, <1>10, <1>11, <1>13, <1>14, ReadsOfOthers

(* The next answer, and what it leaves of the answers to joins. *)
LEMMA TakeReads ==
  ASSUME Programmed, Readable, NEW a \in Actors, HasAnswer(a), TakeAnswer(a),
         UNCHANGED <<given, cmds, answers>>, last'[a].msgsize = last[a].msgsize
  PROVE  /\ taken' \in [Actors -> Nat] /\ taken'[a] = taken[a] + 1
         /\ taken[a] \in Nat
         /\ \A b \in Actors : taken'[b] <= Len(answers[b])
         /\ NextAnswer(a) \in Answer /\ taken'[a] \in DOMAIN answers[a]
         /\ Complete(a)' = Complete(a) /\ Done(a)' = Done(a)
         /\ Named(a)' /\ Sized(a)' /\ (NoJoin(a) => NoJoin(a)')
         /\ \A i \in DOMAIN given[a] : Due(given[a], i) \in Nat
<1>1. /\ taken \in [Actors -> Nat] /\ \A b \in Actors : taken[b] <= Len(answers[b])
      /\ answers[a] \in Seq(Answer) /\ given[a] \in Seq(Command)
  BY DEF Readable, Reading, Programmed, Typed, Pipework
<1>2. /\ taken' \in [Actors -> Nat] /\ taken'[a] = taken[a] + 1
      /\ \A b \in Actors : taken'[b] = IF b = a THEN taken[a] + 1 ELSE taken[b]
  BY <1>1 DEF TakeAnswer
<1>3. taken[a] + 1 \in DOMAIN answers[a] /\ taken[a] + 1 <= Len(answers[a])
  BY <1>1 DEF HasAnswer
<1>4. NextAnswer(a) \in Answer
  BY <1>1, <1>3 DEF NextAnswer
<1>5. Done(a)' = Done(a)
  BY DEF Done
<1>6. Complete(a)' = Complete(a)
  BY <1>5 DEF Complete
<1>7. Named(a)' /\ Sized(a)'
  BY <1>5, <1>6 DEF Readable, Named, Sized
<1>8. ASSUME NEW i \in DOMAIN given[a] PROVE Due(given[a], i) \in Nat
  <2>1. i \in Nat
    BY <1>1
  <2> QED BY <2>1, DueNext
<1>9. NoJoin(a) => NoJoin(a)'
  BY <1>1, <1>2, <1>8 DEF NoJoin
<1> QED BY <1>1, <1>2, <1>3, <1>4, <1>5, <1>6, <1>7, <1>8, <1>9

(* finalize: the answer is to a measurement, since none to a join is left. *)
LEMMA FinalizeReads ==
  ASSUME Programmed, Readable, NEW t \in Threads, Finalize(t), UNCHANGED sock
  PROVE  Readable'
<1> PICK a : a = Now(t).on
  OBVIOUS
<1> DEFINE i == pc[t]  k == taken[a] + 1
<1>0. Typed /\ Fixed /\ Counters /\ Moves(t)
  <2>1. ApiStep(t)
    BY DEF ApiStep
  <2> QED BY <2>1, CallMoves DEF Programmed
<1>1. At(t, {"finalize"})
  BY DEF Finalize
<1>2. /\ i \in DOMAIN program[t] /\ i \in Nat \ {0} /\ Now(t) = program[t][i]
      /\ Now(t).op = "finalize" /\ a \in Actors
  BY <1>0, <1>1, AtCall
<1>3. /\ HasAnswer(a) /\ TakeAnswer(a) /\ UNCHANGED pipe /\ program' = program
      /\ Return(t)
      /\ last' = [last EXCEPT ![a] =
           [name |-> NextAnswer(a).kind, nbytes |-> NextAnswer(a).total,
            noos |-> NextAnswer(a).noos, msgsize |-> @.msgsize]]
  BY DEF Finalize
<1>4. /\ UNCHANGED <<given, cmds, answers>> /\ last[a] \in Results
      /\ last \in [Actors -> Results] /\ taken \in [Actors -> Nat]
  BY <1>2, <1>3 DEF pipe, Readable, Reading
<1>5. last'[a] = [name |-> NextAnswer(a).kind, nbytes |-> NextAnswer(a).total,
                  noos |-> NextAnswer(a).noos, msgsize |-> last[a].msgsize]
  BY <1>2, <1>3, <1>4
<1>6. last'[a].msgsize = last[a].msgsize
  BY <1>5
<1>7. /\ taken' \in [Actors -> Nat] /\ taken'[a] = k /\ taken[a] \in Nat
      /\ \A b \in Actors : taken'[b] <= Len(answers[b])
      /\ NextAnswer(a) \in Answer /\ k \in DOMAIN answers[a]
      /\ Complete(a)' = Complete(a) /\ Done(a)' = Done(a)
      /\ Named(a)' /\ Sized(a)' /\ (NoJoin(a) => NoJoin(a)')
  BY <1>2, <1>3, <1>4, <1>6, TakeReads
<1>8. last'[a] \in Results /\ last' \in [Actors -> Results]
  <2>1. last'[a] \in Results
    BY <1>4, <1>5, <1>7 DEF Results, Answer
  <2>2. [name |-> NextAnswer(a).kind, nbytes |-> NextAnswer(a).total,
         noos |-> NextAnswer(a).noos, msgsize |-> last[a].msgsize] \in Results
    BY <1>5, <2>1
  <2> QED BY <1>2, <1>3, <1>4, <2>1, <2>2
<1>9. Reading'
  BY <1>4, <1>7, <1>8 DEF Reading
<1>10. a \in Owned(t) /\ Joining(t, a) /\ Finalized(t, a)
  BY <1>2 DEF Owned, Readable
<1>11. Complete(a) => NoJoin(a)
  BY <1>2, <1>10 DEF Joining, AtJoin
<1>12. Joining(t, a)'
  BY <1>7, <1>11 DEF Joining
<1>13. Finalized(t, a)'
  BY <1>0, <1>2, <1>3 DEF Finalized, Return, Counters
<1>14. Shown(a)'
  <2> SUFFICES ASSUME Complete(a)
               PROVE  \E j \in 1..Done(a) :
                        /\ given[a][j].kind \in Measures
                        /\ Due(given[a], j) = k
                        /\ last'[a].name = given[a][j].kind
                        /\ last'[a].nbytes = answers[a][k].total
    BY <1>4, <1>7 DEF Shown
  <2>1. PICK j \in 1..Done(a) :
          /\ IsAnswered(given[a][j]) /\ Due(given[a], j) = k
          /\ answers[a][k].kind = given[a][j].kind
    BY <1>2, <1>7 DEF Readable, Named
  <2>2. given[a][j].kind \notin Joins
    <3>1. j \in DOMAIN given[a]
      BY <1>0, <1>2, DoneGiven DEF Typed, Pipework
    <3> QED BY <1>7, <1>11, <2>1, <3>1 DEF NoJoin
  <2> QED BY <1>5, <2>1, <2>2 DEF IsAnswered, NextAnswer
<1>15. \A b \in Actors \ {a} : Same(b)
  <2>1. \A b \in Actors \ {a} : taken'[b] = taken[b] /\ last'[b] = last[b]
    BY <1>3, <1>4 DEF TakeAnswer
  <2> QED BY <1>4, <2>1 DEF Same
<1> QED BY <1>0, <1>1, <1>7, <1>9, <1>12, <1>13, <1>14, <1>15, ReadsOfOthers

(* bind and connect: no result has been read, and no other join is left. *)
LEMMA JoinReads ==
  ASSUME Programmed, Readable, NEW t \in Threads, Joined(t) \/ Misread(t),
         UNCHANGED sock
  PROVE  Readable'
<1> PICK a : a = Now(t).on
  OBVIOUS
<1> DEFINE i == pc[t]  k == taken[a] + 1
<1>0. Typed /\ Fixed /\ Counters /\ Moves(t)
  <2>1. ApiStep(t)
    BY DEF ApiStep
  <2> QED BY <2>1, CallMoves DEF Programmed
<1>1. At(t, {"bind", "connect"})
  BY DEF Joined, Misread
<1>2. /\ i \in DOMAIN program[t] /\ i \in Nat \ {0} /\ Now(t) = program[t][i]
      /\ Now(t).op \in {"bind", "connect"} /\ a \in Actors
  BY <1>0, <1>1, AtCall
<1>3. /\ HasAnswer(a) /\ TakeAnswer(a) /\ UNCHANGED pipe /\ program' = program
      /\ last' = last
      /\ Dies(t) \/ (NextAnswer(a).kind = Now(t).cmd.kind /\ Return(t))
  BY DEF Joined, Misread
<1>4. /\ UNCHANGED <<given, cmds, answers>> /\ taken \in [Actors -> Nat]
      /\ last'[a].msgsize = last[a].msgsize /\ given[a] \in Seq(Command)
  BY <1>0, <1>2, <1>3 DEF pipe, Readable, Reading, Typed, Pipework
<1>5. /\ taken' \in [Actors -> Nat] /\ taken'[a] = k /\ taken[a] \in Nat
      /\ \A b \in Actors : taken'[b] <= Len(answers[b])
      /\ k \in DOMAIN answers[a]
      /\ Complete(a)' = Complete(a) /\ Done(a)' = Done(a)
      /\ Named(a)' /\ Sized(a)' /\ (NoJoin(a) => NoJoin(a)')
      /\ \A j \in DOMAIN given[a] : Due(given[a], j) \in Nat
  BY <1>2, <1>3, <1>4, TakeReads
<1>6. Reading'
  BY <1>3, <1>4, <1>5 DEF Readable, Reading
<1>7. a \in Owned(t) /\ Joining(t, a) /\ Finalized(t, a)
  BY <1>2 DEF Owned, Readable
<1>8. Shown(a)'
  <2>1. last[a].name = "none"
    <3> SUFFICES ASSUME last[a].name # "none" PROVE FALSE
      OBVIOUS
    <3>1. PICK j \in DOMAIN program[t] :
            program[t][j].op = "finalize" /\ program[t][j].on = a /\ j < i
      BY <1>2, <1>7 DEF Finalized
    <3> QED BY <1>0, <1>2, <3>1 DEF Fixed, Legal, Threads
  <2> QED BY <1>3, <2>1 DEF Shown
<1>9. Finalized(t, a)'
  BY <1>0, <1>3, <1>7, FinalizedElse
<1>10. Joining(t, a)'
  <2> SUFFICES ASSUME Complete(a), ~Dies(t) PROVE NoJoin(a)'
    BY <1>0, <1>5 DEF Joining, Dies, Counters
  <2>1. CASE NoJoin(a)
    BY <1>5, <2>1
  <2>2. CASE ~NoJoin(a)
    <3>1. \A j \in DOMAIN given[a] : given[a][j].kind \in Joins =>
            j = Len(given[a]) \/ Due(given[a], j) <= taken[a]
      BY <1>2, <1>7, <2>2 DEF Joining
    <3>2. answers[a][k].kind \in Joins
      BY <1>0, <1>2, <1>3 DEF NextAnswer, Fixed, Legal, Threads, Submits,
         JoinCommands
    <3>3. PICK j \in 1..Done(a) :
            /\ IsAnswered(given[a][j]) /\ Due(given[a], j) = k
            /\ answers[a][k].kind = given[a][j].kind
      BY <1>2, <1>5 DEF Readable, Named
    <3>4. j \in DOMAIN given[a] /\ given[a][j].kind \in Joins
      <4>1. Done(a) \in Nat /\ Done(a) <= Len(given[a])
        BY <1>0, <1>2, DoneGiven
      <4>2. DOMAIN given[a] = 1..Len(given[a]) /\ Len(given[a]) \in Nat
        BY <1>4
      <4> QED BY <3>2, <3>3, <4>1, <4>2
    <3>5. j = Len(given[a])
      BY <1>5, <3>1, <3>3, <3>4
    <3>6. \A l \in DOMAIN given[a] : given[a][l].kind \in Joins =>
            Due(given[a], l) <= k
      BY <1>5, <3>1, <3>3, <3>5
    <3> QED BY <1>4, <1>5, <3>6 DEF NoJoin
  <2> QED BY <2>1, <2>2
<1>11. \A b \in Actors \ {a} : Same(b)
  BY <1>3, <1>4 DEF TakeAnswer, Same
<1> QED BY <1>0, <1>1, <1>5, <1>6, <1>8, <1>9, <1>10, <1>11, ReadsOfOthers

LEMMA ReadableInit == CliInit => Readable
<1> SUFFICES ASSUME CliInit PROVE Readable
  OBVIOUS
<1>1. /\ taken = [a \in Actors |-> 0] /\ last = [a \in Actors |-> Cleared]
      /\ given = [a \in Actors |-> <<>>] /\ cmds = [a \in Actors |-> <<>>]
      /\ answers = [a \in Actors |-> <<>>]
  BY DEF CliInit, ApiInit, Init
<1>2. Cleared \in Results /\ Cleared.name = "none"
  BY DEF Cleared, Results
<1>3. Reading
  BY <1>1, <1>2 DEF Reading
<1>4. ASSUME NEW a \in Actors
      PROVE  Named(a) /\ Sized(a) /\ Shown(a) /\ NoJoin(a)
  <2>1. Done(a) = 0 /\ Len(answers[a]) = 0
    BY <1>1 DEF Done
  <2>2. 0 \in Nat
    OBVIOUS
  <2>3. Due(given[a], 0) = 0
    BY <2>2, DueNext
  <2> QED BY <1>1, <1>2, <2>1, <2>3 DEF Named, Sized, Shown, NoJoin
<1>5. ASSUME NEW t \in Threads, NEW a \in Owned(t)
      PROVE  Joining(t, a) /\ Finalized(t, a)
  <2>1. a \in Actors
    BY ProgrammedInit DEF Programmed, Owned, Fixed, Legal, Threads
  <2> QED BY <1>1, <1>2, <1>4, <2>1 DEF Joining, Finalized
<1> QED BY <1>3, <1>4, <1>5 DEF Readable

LEMMA ReadableNext == Programmed /\ Readable /\ [CliNext]_cliVars => Readable'
<1> SUFFICES ASSUME Programmed, Readable, [CliNext]_cliVars PROVE Readable'
  OBVIOUS
<1>0. ASSUME UNCHANGED <<vars, api>> PROVE Readable'
  <2>1. /\ UNCHANGED <<given, cmds, answers, taken, last, program, pc, sent>>
        /\ Threads' = Threads
    BY <1>0 DEF vars, api, Threads
  <2>2. \A a : Same(a)
    BY <2>1 DEF Same
  <2>3. \A a \in Actors : Named(a)' /\ Sized(a)' /\ Shown(a)'
    BY <2>2, SameReads DEF Readable
  <2>4. ASSUME NEW t \in Threads, NEW a \in Owned(t)
        PROVE  Joining(t, a)' /\ Finalized(t, a)'
    <3>1. Complete(a)' = Complete(a) /\ NoJoin(a)' = NoJoin(a)
      BY <2>2, SameReads
    <3>2. AtJoin(t, a)' = AtJoin(t, a)
      BY <2>1 DEF AtJoin, Now
    <3> QED BY <2>1, <3>1, <3>2 DEF Readable, Joining, Finalized
  <2>5. Reading'
    BY <2>1 DEF Readable, Reading
  <2>6. \A t \in Threads : Owned(t)' = Owned(t)
    BY <2>1 DEF Owned
  <2> QED BY <2>1, <2>3, <2>4, <2>5, <2>6 DEF Readable
<1>1. ASSUME NEW t \in Threads, ApiStep(t) PROVE Readable'
  <2>1. CASE Destroyed(t)
    <3>1. UNCHANGED <<given, cmds, answers, taken, last>> /\ At(t, {"destroy"})
      BY <2>1 DEF Destroyed, pipe
    <3>2. Moves(t)
      BY <1>1, CallMoves
    <3> QED BY <3>1, <3>2, StillReads
  <2> QED BY <1>1, <2>1, SendReads, FinalizeReads, JoinReads DEF ApiStep
<1>2. ASSUME NEW t \in Threads, UNCHANGED vars,
             ZyreStart(t) \/ ZyreStop(t) \/ WaitForPeerExit(t),
             Moves(t) \/ UNCHANGED <<program, pc, sent>>
      PROVE  Readable'
  <2>1. /\ UNCHANGED <<given, cmds, answers, taken, last>>
        /\ At(t, {"zyre_start", "zyre_stop", "wait"})
    BY <1>2 DEF ZyreStart, ZyreStop, WaitForPeerExit, At, vars
  <2>2. CASE Moves(t)
    BY <2>1, <2>2, StillReads
  <2>3. CASE UNCHANGED <<program, pc, sent>>
    BY <1>0, <1>2, <2>1, <2>3 DEF api
  <2> QED BY <1>2, <2>2, <2>3
<1>3. CASE UNCHANGED cliVars
  BY <1>0, <1>3 DEF cliVars
<1>4. CASE CliNext
  BY <1>0, <1>1, <1>2, <1>4, CliMoves, ActsRead
<1> QED BY <1>3, <1>4

(* What the getters return is of one measurement, the one whose answer the last
   finalize took, by its name, with the whole of its data where measurements do
   not mix, and of its size unless another was initiated meanwhile: for any
   programs that keep to the rules, over any high-water mark, whether or not
   the two ends match, as long as no measurement went unanswered. *)
THEOREM LastIsOfOne == CliSpec => []LastIsOfOneMeasurement
<1>1. ASSUME Programmed, Readable, PairedMeasuresAnswered
      PROVE  LastIsOfOneMeasurement
  <2> SUFFICES ASSUME NEW a \in Actors, last[a].name # "none",
                      Len(answers[a]) = Due(given[a], Done(a))
               PROVE  \E i \in DOMAIN given[a] :
                 /\ IsAnswered(given[a][i]) /\ Due(given[a], i) = taken[a]
                 /\ last[a].name = given[a][i].kind
                 /\ Paired /\ (OneLane \/ apart) =>
                      last[a].nbytes = given[a][i].n * given[a][i].size
                 /\ Due(given[a], Len(given[a])) = taken[a] =>
                      last[a].msgsize = given[a][i].size
    BY DEF LastIsOfOneMeasurement
  <2>1. PICK i \in 1..Done(a) :
          /\ given[a][i].kind \in Measures /\ Due(given[a], i) = taken[a]
          /\ last[a].name = given[a][i].kind
          /\ last[a].nbytes = answers[a][taken[a]].total
    BY <1>1 DEF Readable, Shown, Complete
  <2>2. /\ given[a] \in Seq(Command) /\ Done(a) \in Nat /\ Done(a) <= Len(given[a])
        /\ DOMAIN given[a] = 1..Len(given[a]) /\ Len(given[a]) \in Nat
    BY <1>1, DoneGiven DEF Programmed, Typed, Pipework
  <2>3. i \in DOMAIN given[a] /\ i \in Nat \ {0} /\ IsAnswered(given[a][i])
    BY <2>1, <2>2 DEF IsAnswered
  <2>4. Paired /\ (OneLane \/ apart) =>
          last[a].nbytes = given[a][i].n * given[a][i].size
    BY <1>1, <2>1, <2>3 DEF PairedMeasuresAnswered
  <2>5. ASSUME Due(given[a], Len(given[a])) = taken[a]
        PROVE  last[a].msgsize = given[a][i].size
    <3>1. ASSUME NEW j \in DOMAIN given[a], i < j, given[a][j].kind \in Measures
          PROVE  FALSE
      <4>1. j \in 1..Len(given[a]) /\ j \in Nat /\ IsAnswered(given[a][j])
        BY <2>2, <3>1 DEF IsAnswered
      <4>2. Due(given[a], i) < Due(given[a], j)
        BY <2>3, <3>1, <4>1, DueLater
      <4>3. Due(given[a], j) \in 1..Due(given[a], Len(given[a]))
        BY <2>2, <4>1, DueWithin
      <4>4. Due(given[a], Len(given[a])) \in Nat
        BY <2>2, DueNext
      <4> QED BY <2>1, <2>5, <4>2, <4>3, <4>4
    <3> QED BY <1>1, <2>1, <2>3, <3>1 DEF Readable, Sized
  <2> QED BY <2>1, <2>3, <2>4, <2>5
<1>2. CliSpec => []PairedMeasuresAnswered
  BY CliGetsAnswers
<1> QED BY <1>1, <1>2, CliIsProgrammed, ReadableInit, ReadableNext, PTL
        DEF CliSpec
=============================================================================
