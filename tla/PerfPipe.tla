------------------------------ MODULE PerfPipe ------------------------------
(***************************************************************************)
(* What perf actors promise on their pipes, whatever they do on their      *)
(* measurement sockets: a pipe is a FIFO of commands, answered one after   *)
(* the other, each at most once.  A SOCKET command (BIND, CONNECT) is      *)
(* always answered before the next one is looked at, a NOTE never, a       *)
(* MEASURE may not be.  PerfActor implements this, and it is all that      *)
(* PerfServer takes from a perf.                                           *)
(***************************************************************************)
EXTENDS Sequences

CONSTANT Perfs

Kinds == {"SOCKET", "MEASURE", "NOTE"}

VARIABLES
  queue, \* perf -> kinds of the commands in its pipe
  out    \* perf -> kinds of the answers in its pipe

vars == <<queue, out>>

Init ==
  /\ queue = [p \in Perfs |-> <<>>]
  /\ out = [p \in Perfs |-> <<>>]

Submit(p) ==
  /\ \E k \in Kinds : queue' = [queue EXCEPT ![p] = Append(@, k)]
  /\ UNCHANGED out

Answer(p) ==
  /\ queue[p] # <<>> /\ Head(queue[p]) # "NOTE"
  /\ queue' = [queue EXCEPT ![p] = Tail(@)]
  /\ out' = [out EXCEPT ![p] = Append(@, Head(queue[p]))]

Skip(p) ==
  /\ queue[p] # <<>> /\ Head(queue[p]) # "SOCKET"
  /\ queue' = [queue EXCEPT ![p] = Tail(@)]
  /\ UNCHANGED out

Read(p) ==
  /\ out[p] # <<>>
  /\ out' = [out EXCEPT ![p] = Tail(@)]
  /\ UNCHANGED queue

(* The actor ended: what it has answered is gone. *)
Close(p) ==
  /\ queue[p] = <<>>
  /\ out' = [out EXCEPT ![p] = <<>>]
  /\ UNCHANGED queue

Next == \E p \in Perfs :
  Submit(p) \/ Answer(p) \/ Skip(p) \/ Read(p) \/ Close(p)

Spec == Init /\ [][Next]_vars
=============================================================================
