------------------------------ MODULE ZperfCli ------------------------------
(***************************************************************************)
(* Programs of ZperfApi that are two zperfcli processes (zperfcli.cpp):    *)
(* each starts a Zyre node, makes its socket, runs one measurement, may    *)
(* wait for the other's node to exit, destroys the socket and stops the    *)
(* node.  The wait is what keeps a sender alive until its queues have      *)
(* drained (README.org, "Coordination").                                   *)
(*                                                                         *)
(* Zyre is external: two nodes that are both started find each other, in   *)
(* their own time; a node that has found another learns that it went.      *)
(***************************************************************************)
EXTENDS ZperfApi

(* main waits for the other's node, if it does, before it destroys the socket,
   and stops its own when it has the result. *)
MainOrder(calls) ==
  \A t \in DOMAIN calls : \A i, j \in DOMAIN calls[t] :
    /\ calls[t][i].op = "destroy" /\ calls[t][j].op = "wait" => j < i
    /\ calls[t][i].op = "zyre_stop" /\ calls[t][j].op = "finalize" => j < i

ASSUME CliConstants ==
  \A p \in Programs : Cardinality(DOMAIN p.calls) = 2 => MainOrder(p.calls)

VARIABLES
  node,    \* thread -> its Zyre node: "new", "started", "stopped"
  found,   \* thread -> the other's node: "unseen", "entered", "exited"
  events,  \* thread -> events of its node it has not read
  want     \* thread -> wait_for_peer_exit knows the uuid it waits for

zyre == <<node, found, events, want>>
cliVars == <<vars, api, zyre>>

Other(t) == CHOOSE u \in Threads : u # t
Alive(t) == node[t] = "started" /\ ~Dead(t)

CliInit ==
  /\ ApiInit
  /\ node = [t \in Threads |-> "new"]
  /\ found = [t \in Threads |-> "unseen"]
  /\ events = [t \in Threads |-> <<>>]
  /\ want = [t \in Threads |-> FALSE]

-----------------------------------------------------------------------------
(* main *)

ZyreStart(t) ==
  /\ At(t, {"zyre_start"})
  /\ node' = [node EXCEPT ![t] = "started"]
  /\ Return(t)
  /\ UNCHANGED <<found, events, want, program, taken, last>>

ZyreStop(t) ==
  /\ At(t, {"zyre_stop"})
  /\ node' = [node EXCEPT ![t] = "stopped"]
  /\ Return(t)
  /\ UNCHANGED <<found, events, want, program, taken, last>>

(* Mutant: the ENTER of the peer is enough. *)
HeardEarly(t) == want'[t]

(* The peer that entered under the name given exits. *)
Heard(t) == Head(events[t]) = "EXIT" /\ want[t]

(* wait_for_peer_exit: one event.  ENTER under the name wanted tells the uuid,
   events of any other are passed over, and nothing ends the wait but EXIT. *)
WaitForPeerExit(t) ==
  /\ At(t, {"wait"})
  /\ events[t] # <<>>
  /\ events' = [events EXCEPT ![t] = Tail(@)]
  /\ want' = [want EXCEPT ![t] =
       @ \/ (Head(events[t]) = "ENTER" /\ Now(t).cmd = "peer")]
  /\ IF Heard(t) THEN Return(t) ELSE UNCHANGED <<pc, sent>>
  /\ UNCHANGED <<node, found, program, taken, last>>

CliStep(t) ==
  \/ (ZyreStart(t) \/ ZyreStop(t) \/ WaitForPeerExit(t)) /\ UNCHANGED vars
  \/ ApiStep(t) /\ UNCHANGED zyre

-----------------------------------------------------------------------------
(* Zyre *)

Finds(t) ==
  /\ Alive(t) /\ Alive(Other(t)) /\ found[t] = "unseen"
  /\ found' = [found EXCEPT ![t] = "entered"]
  /\ events' = [events EXCEPT ![t] = Append(@, "ENTER")]
  /\ UNCHANGED <<node, want, vars, api>>

Misses(t) ==
  /\ Alive(t) /\ ~Alive(Other(t)) /\ found[t] = "entered"
  /\ found' = [found EXCEPT ![t] = "exited"]
  /\ events' = [events EXCEPT ![t] = Append(@, "EXIT")]
  /\ UNCHANGED <<node, want, vars, api>>

CliNext ==
  \/ \E t \in Threads : CliStep(t) \/ Finds(t) \/ Misses(t)
  \/ \E a \in Actors : ActorStep(a) /\ UNCHANGED zyre

AnyThread == UNION {DOMAIN p.calls : p \in Programs}

(* The threads and the actors run, and Zyre beacons until it is heard. *)
CliSpec ==
  /\ CliInit /\ [][CliNext]_cliVars
  /\ \A t \in AnyThread :
       /\ WF_cliVars(t \in Threads /\ CliStep(t))
       /\ WF_cliVars(t \in Threads /\ (Finds(t) \/ Misses(t)))
  /\ \A a \in Actors : WF_cliVars(ActorStep(a) /\ UNCHANGED zyre)

-----------------------------------------------------------------------------
(* Properties *)

TwoProcesses == Cardinality(Threads) = 2

Waits(t) == \E i \in DOMAIN program[t] :
  program[t][i].op = "wait" /\ program[t][i].cmd = "peer"

HasResult(t) == \A i \in DOMAIN program[t] :
  program[t][i].op = "finalize" => pc[t] > i

(* A zperfcli that was told to wait for the other destroys its socket, and with
   it what is still queued, only when the other has its result: however late
   the nodes find each other, and whatever was heard before the wait began. *)
SenderOutlivesItsData ==
  TwoProcesses =>
    \A t \in Threads :
      Waits(t) /\ (\E a \in Owned(t) : phase[a] = "ended") =>
        HasResult(Other(t)) \/ Dead(Other(t))

(* The calls of a kind on an actor, and how many come before the i-th. *)
CallsOn(a, op) ==
  LET t == ThreadOf(a) IN
  SelectSeq(program[t], LAMBDA call : call.op = op /\ call.on = a)

Before(t, i, a, op) == Cardinality({j \in 1..i :
  program[t][j].op = op /\ program[t][j].on = a})

Pairs ==
  \A a \in Actors :
    LET mine == CallsOn(a, "initiate")
        others == CallsOn(Peer(a), "initiate")
    IN /\ Len(mine) = Len(others)
       /\ \A i \in DOMAIN mine :
            Proper(a, mine[i].cmd) /\ Match(mine[i].cmd, others[i].cmd)

(* One thread finalizes a measurement only once it has initiated the other
   end's ("This interleaving is required to avoid the deadlock",
   README.org:92), and destroys an end only when both are finalized. *)
Interleaves(t) ==
  \A i \in DOMAIN program[t] :
    LET call == program[t][i] IN
    \A a \in Actors \ {call.on} :
      /\ call.op \in {"initiate", "finalize"} => Before(t, i, call.on, "bind")
           + Before(t, i, call.on, "connect") = 1
      /\ call.op = "finalize" =>
           Before(t, i, a, "initiate") >= Before(t, i, call.on, "finalize")
      /\ call.op = "destroy" =>
           \A b \in Actors :
             Before(t, i, b, "finalize") = Len(CallsOn(b, "initiate"))

(* Of two processes the one that sends the last message waits, and only it. *)
Coordinated ==
  \A a \in Actors :
    Waits(ThreadOf(a)) <=>
      CallsOn(a, "initiate")[1].cmd.kind \in Sends \cup Echos

Orderly ==
  Pairs /\ IF TwoProcesses THEN Coordinated
           ELSE \A t \in Threads : Interleaves(t)

Unjoined == \E a \in Actors :
  joined[a] = None /\ phase[a] # "ended" /\ taken[a] > 0

(* The other's node went before Zyre had found it: nothing will tell. *)
Unseen(t) == At(t, {"wait"}) /\ found[t] = "unseen" /\ ~Alive(Other(t))

(* Programs that keep to the README's coordination come to their end, with one
   connection or with one measurement at a time over several; what can keep
   them is an address that fails, and a peer that was done before it was
   found. *)
ProgramsEnd ==
  Orderly ~>
    \/ \A t \in Threads : pc[t] > Len(program[t])
    \/ Unjoined \/ ~(OneLane \/ apart)
    \/ TwoProcesses /\ \E t \in Threads : Unseen(t)
=============================================================================
