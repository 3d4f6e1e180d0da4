------------------------------ MODULE ZperfApi ------------------------------
(***************************************************************************)
(* The zperf API (zperf.cpp) over the two perf actors of PerfActor: the    *)
(* threads of an application, each running a program of calls.  bind and   *)
(* connect send a command and wait for its answer, initiate and set_batch  *)
(* only send, finalize waits for the next answer whatever it is, measure   *)
(* is initiate and finalize, and destroy waits for the actor's end.        *)
(***************************************************************************)
EXTENDS PerfActor

CONSTANT Programs  \* what applications do: socket types, and per thread the
                   \* calls [op, on, cmd] it makes

Submits == {"set_batch", "initiate", "bind", "connect", "destroy"}

(* An actor is used from one thread, joined before a result of it is read, and
   not used once it is destroyed. *)
Legal(calls) ==
  \A t \in DOMAIN calls :
    /\ Len(calls[t]) \in Nat /\ DOMAIN calls[t] = 1..Len(calls[t])
    /\ \A i \in DOMAIN calls[t] :
         LET call == calls[t][i] IN
         /\ call.on \in Actors
         /\ call.op \in Submits => call.cmd \in Command
         /\ call.op \in {"bind", "connect"} => call.cmd \in JoinCommands
         /\ call.op = "initiate" => call.cmd.kind \in Measures
         /\ call.op = "set_batch" => call.cmd.kind \in Notes
         /\ call.op = "destroy" => call.cmd.kind = "$TERM"
         /\ \A u \in DOMAIN calls : \A j \in DOMAIN calls[u] :
              calls[u][j].on = call.on =>
                /\ u = t
                /\ calls[u][j].op = "destroy" /\ j < i => call.op = "zyre_stop"
                /\ calls[u][j].op = "finalize" /\ j < i =>
                     call.op \notin {"bind", "connect"}

ASSUME ApiConstants ==
  \A p \in Programs : p.sock \in SockPairs /\ Legal(p.calls)

VARIABLES
  program,  \* thread -> its calls
  pc,       \* thread -> the call it is at; 0 when its process has died
  sent,     \* thread -> the call has sent its command, and waits
  taken,    \* actor -> answers read from its pipe
  last      \* actor -> what the getters return

pipe == <<cmds, answers, phase, run, joined, back, wire, given, apart>>
api == <<program, pc, sent, taken, last>>

Threads == DOMAIN program
Owned(t) == {program[t][i].on : i \in DOMAIN program[t]}
ThreadOf(a) == CHOOSE t \in Threads : a \in Owned(t)

Cleared == [name |-> "none", nbytes |-> 0, noos |-> 0, msgsize |-> 0]

ApiInit ==
  /\ Init
  /\ \E p \in Programs : sock = p.sock /\ program = p.calls
  /\ pc = [t \in Threads |-> 1]
  /\ sent = [t \in Threads |-> FALSE]
  /\ taken = [a \in Actors |-> 0]
  /\ last = [a \in Actors |-> Cleared]

-----------------------------------------------------------------------------

(* An assertion of an actor ends the whole process, one of the API the actors
   with it. *)
Dead(t) == pc[t] = 0 \/ \E a \in Owned(t) : phase[a] = "aborted"

Now(t) == program[t][pc[t]]
At(t, ops) == ~Dead(t) /\ pc[t] <= Len(program[t]) /\ Now(t).op \in ops

Return(t) ==
  /\ pc' = [pc EXCEPT ![t] = @ + 1]
  /\ sent' = [sent EXCEPT ![t] = FALSE]

(* An assertion, or the exception of a zperfcli that failed to bind. *)
Dies(t) ==
  /\ pc' = [pc EXCEPT ![t] = 0]
  /\ UNCHANGED sent

HasAnswer(a) == taken[a] < Len(answers[a])
NextAnswer(a) == answers[a][taken[a] + 1]
TakeAnswer(a) == taken' = [taken EXCEPT ![a] = @ + 1]

-----------------------------------------------------------------------------

SetBatch(t) ==
  /\ At(t, {"set_batch"})
  /\ Submit(Now(t).on, Now(t).cmd)
  /\ Return(t)
  /\ UNCHANGED <<program, taken, last>>

(* Mutant: s_clear_last after the size is set. *)
FreshCleared(cmd) == Cleared

Fresh(cmd) == [Cleared EXCEPT !.msgsize = cmd.size]

Initiate(t) ==
  /\ At(t, {"initiate"})
  /\ Submit(Now(t).on, Now(t).cmd)
  /\ last' = [last EXCEPT ![Now(t).on] = Fresh(Now(t).cmd)]
  /\ Return(t)
  /\ UNCHANGED <<program, taken>>

(* s_set_last leaves msgsize as the last initiate set it. *)
Finalize(t) ==
  LET a == Now(t).on IN
  /\ At(t, {"finalize"})
  /\ HasAnswer(a) /\ TakeAnswer(a)
  /\ last' = [last EXCEPT ![a] =
       [name |-> NextAnswer(a).kind, nbytes |-> NextAnswer(a).total,
        noos |-> NextAnswer(a).noos, msgsize |-> @.msgsize]]
  /\ Return(t)
  /\ UNCHANGED <<program, pipe>>

(* bind, connect and zactor_destroy send, and wait.  One connect stands for the
   loop over nconnects of zperfcli: all connections of Lanes come with it. *)
Ask(t) ==
  /\ At(t, {"bind", "connect", "destroy"}) /\ ~sent[t]
  /\ Submit(Now(t).on, Now(t).cmd)
  /\ sent' = [sent EXCEPT ![t] = TRUE]
  /\ UNCHANGED <<program, pc, taken, last>>

(* bind returns NULL for an answer with a negative port, and the program stops
   there as zperfcli does; nobody looks at what connect returns. *)
Joined(t) ==
  LET a == Now(t).on IN
  /\ At(t, {"bind", "connect"}) /\ sent[t]
  /\ HasAnswer(a) /\ TakeAnswer(a)
  /\ NextAnswer(a).kind = Now(t).cmd.kind
  /\ IF Now(t).op = "bind" /\ joined[a] = None THEN Dies(t) ELSE Return(t)
  /\ UNCHANGED <<program, last, pipe>>

(* assert (streq (cmd, "BIND")): the answer is an earlier measurement's. *)
Misread(t) ==
  LET a == Now(t).on IN
  /\ At(t, {"bind", "connect"}) /\ sent[t]
  /\ HasAnswer(a) /\ TakeAnswer(a)
  /\ NextAnswer(a).kind # Now(t).cmd.kind
  /\ Dies(t)
  /\ UNCHANGED <<program, last, pipe>>

Destroyed(t) ==
  /\ At(t, {"destroy"}) /\ sent[t]
  /\ phase[Now(t).on] = "ended"
  /\ Return(t)
  /\ UNCHANGED <<program, taken, last, pipe>>

ApiStep(t) ==
  /\ \/ SetBatch(t) \/ Initiate(t) \/ Finalize(t)
     \/ Ask(t) \/ Joined(t) \/ Misread(t) \/ Destroyed(t)
  /\ UNCHANGED sock

ActorStep(a) == ~Dead(ThreadOf(a)) /\ PerfStep(a) /\ UNCHANGED api

-----------------------------------------------------------------------------
(* Properties *)

(* What the getters return is of one measurement, as long as every measurement
   that ended was answered: the one whose answer the last finalize took, by its
   name and, where measurements do not mix, with the whole of its data; and of
   the size it was initiated with, unless another was initiated meanwhile. *)
LastIsOfOneMeasurement ==
  \A a \in Actors :
    last[a].name # "none" /\ Len(answers[a]) = Due(given[a], Done(a)) =>
      \E i \in DOMAIN given[a] :
        LET c == given[a][i] IN
        /\ IsAnswered(c) /\ Due(given[a], i) = taken[a]
        /\ last[a].name = c.kind
        /\ Paired /\ (OneLane \/ apart) => last[a].nbytes = c.n * c.size
        /\ Due(given[a], Len(given[a])) = taken[a] => last[a].msgsize = c.size
=============================================================================
