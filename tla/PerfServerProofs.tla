-------------------------- MODULE PerfServerProofs --------------------------
(***************************************************************************)
(* The safety properties of PerfServer for any clients, perfs, addresses   *)
(* and pipe capacity.  The inductive invariant is                          *)
(*   TypeOK /\ Objects /\ Counts /\ Order                                  *)
(* and is proved a layer at a time: types and one object per address, the  *)
(* balance of each waiting list with its pipes, then the order of the list *)
(* and the state of the clients in it.  The first three layers also show   *)
(* that the server implements PerfPipe, and all of them that it implements *)
(* ServerPeer for every client.                                            *)
(***************************************************************************)
EXTENDS PerfServerPeers, TLAPS, SequenceTheorems, FiniteSetTheorems

USE ServerConstants

(* A peer has a client object exactly when its machine has a state, and no
   two peers share one. *)
Objects ==
  /\ \A c \in Clients : fsm[c] = "none" <=> addr[c] = NoAddr
  /\ \A c, d \in Clients : addr[c] = addr[d] /\ addr[c] # NoAddr => c = d

(* A client object made at a free address is that peer's alone. *)
LEMMA EnterTypes ==
  ASSUME TypeOK, Objects, NEW c \in Clients, NEW a \in ObjectOf(c),
         NEW s \in States \ {"none"}, Enter(c, a, s)
  PROVE  /\ fsm' \in [Clients -> States]
         /\ addr' \in [Clients -> Addrs \cup {NoAddr}]
         /\ stale' \subseteq Addrs
         /\ Objects'
  BY DEF TypeOK, Objects, ObjectOf, Enter, States

(* A client object that is freed leaves the others as they are. *)
LEMMA LeaveTypes ==
  ASSUME TypeOK, Objects, NEW c \in Clients, Leave(c)
  PROVE  /\ fsm' \in [Clients -> States]
         /\ addr' \in [Clients -> Addrs \cup {NoAddr}]
         /\ stale' \subseteq Addrs
         /\ Objects'
  BY DEF TypeOK, Objects, Leave, InList, States

(* zperf_msg_recv leaves a message object a message object. *)
LEMMA ReceivedType ==
  ASSUME TypeOK, NEW m \in Requests
  PROVE  Received(m) \in Message
  BY DEF TypeOK, Requests, Plain, Creates, Named, Sockets, Measures, Received,
         Message, Idents, AnySize

(* A request other than HELLO never takes a client out of have_perf. *)
LEMMA GoesType ==
  ASSUME NEW t, NEW s \in States
  PROVE  /\ Goes(t, s) \in States
         /\ s # "none" => Goes(t, s) # "none"
         /\ s = "have_perf" /\ t # "HELLO" => Goes(t, s) = "have_perf"
  BY DEF Goes, States
-----------------------------------------------------------------------------
(* Type correctness *)

(* Which requests change nothing but the machine of the peer. *)
Chat(c, m) ==
  \/ Hello(c, m) \/ Ping(c, m) \/ Goodbye(c, m) \/ LookupPerf(c, m)
  \/ FailRequest(c, m) \/ RejectRequest(c, m)

Machine(c) ==
  \/ \E a \in ObjectOf(c), s \in States \ {"none"} :
       /\ fsm[c] = "have_perf" => s = "have_perf"
       /\ Enter(c, a, s)
  \/ Leave(c)

(* The machine of a peer runs in one of its states. *)
LEMMA StateOfType ==
  ASSUME TypeOK, NEW c \in Clients
  PROVE  /\ StateOf(c) \in States \ {"none"}
         /\ fsm[c] # "none" => StateOf(c) = fsm[c]
  BY DEF TypeOK, StateOf, States

(* What a step of the machine of c alone may do. *)
LEMMA ChatIsMachine ==
  ASSUME TypeOK, NEW c \in Clients, NEW m \in Requests, Chat(c, m)
  PROVE  /\ Machine(c)
         /\ UNCHANGED <<srv, perf, pipes>>
         /\ msg' \in Message
         /\ reply' \in Reply
<1> USE ReceivedType, StateOfType, GoesType
<1>1. CASE Hello(c, m)
  <2>1. PICK a \in ObjectOf(c) : Enter(c, a, Goes(m.type, StateOf(c)))
    BY <1>1 DEF Hello
  <2>2. /\ Goes(m.type, StateOf(c)) \in States \ {"none"}
        /\ fsm[c] # "have_perf"
    BY <1>1 DEF Hello, States
  <2> QED BY <1>1, <2>1, <2>2 DEF Hello, Machine, Send, Reply, ReplyIds
<1>2. CASE Ping(c, m)
  <2>1. PICK a \in ObjectOf(c) : Enter(c, a, Goes(m.type, StateOf(c)))
    BY <1>2 DEF Ping
  <2>2. /\ Goes(m.type, StateOf(c)) \in States \ {"none"}
        /\ fsm[c] = "have_perf" => Goes(m.type, StateOf(c)) = "have_perf"
    BY <1>2 DEF Ping, States
  <2> QED BY <1>2, <2>1, <2>2 DEF Ping, Machine, Send, Reply, ReplyIds
<1>3. CASE Goodbye(c, m)
  BY <1>3 DEF Goodbye, Machine, Send, Reply, ReplyIds
<1>4. CASE LookupPerf(c, m)
  <2>1. fsm[c] # "none" /\ m.type # "HELLO"
    BY <1>4 DEF LookupPerf, Accepted, StateOf
  <2>2. /\ Goes(m.type, fsm[c]) \in States \ {"none"}
        /\ fsm[c] = "have_perf" => Goes(m.type, fsm[c]) = "have_perf"
    BY <2>1 DEF TypeOK
  <2>3. addr[c] \in ObjectOf(c)
    BY <2>1 DEF ObjectOf
  <2> QED BY <1>4, <2>2, <2>3 DEF LookupPerf, Machine, Send, Reply, ReplyIds
<1>5. CASE FailRequest(c, m)
  BY <1>5 DEF FailRequest, Raise, Machine, Send, Reply, ReplyIds
<1>6. CASE RejectRequest(c, m)
  BY <1>6 DEF RejectRequest, Reject, Machine, Send, Reply, ReplyIds, Message,
              Status
<1> QED BY <1>1, <1>2, <1>3, <1>4, <1>5, <1>6 DEF Chat

(* What a step of one machine does keeps the clients' types. *)
LEMMA MachineTypes ==
  ASSUME TypeOK, Objects, NEW c \in Clients, Machine(c)
  PROVE  /\ fsm' \in [Clients -> States]
         /\ addr' \in [Clients -> Addrs \cup {NoAddr}]
         /\ stale' \subseteq Addrs
         /\ Objects'
  BY EnterTypes, LeaveTypes DEF Machine

(* A blocked send is not the mark of no blocked send. *)
LEMMA BlockedIsNotNot == \A b \in Blocked : b # NotBlocked
  BY DEF Blocked, NotBlocked

(* The server starts with its variables in their types. *)
LEMMA TypeInit == Init => TypeOK /\ Objects
  BY BlockedIsNotNot
     DEF Init, TypeOK, Objects, Message, Reply, NoReply, ReplyIds, Idents,
         AnySize, States, Status

(* No step, of the server or of a perf, takes a variable out of its type. *)
LEMMA TypeStep == TypeOK /\ Objects /\ [Next]_vars => TypeOK' /\ Objects'
<1> SUFFICES ASSUME TypeOK, Objects, [Next]_vars
             PROVE  TypeOK' /\ Objects'
  OBVIOUS
<1>0. NoReply \in Reply
  BY DEF NoReply, Reply, ReplyIds
<1>1. ASSUME NEW c \in Clients, NEW m \in Requests, HandleProtocol(c, m)
      PROVE  TypeOK' /\ Objects'
  <2>1. CASE Chat(c, m)
    BY <2>1, ChatIsMachine, MachineTypes DEF TypeOK, pipes
  <2>2. CASE CreatePerf(c, m)
    <3>1. Goes(m.type, fsm[c]) \in States \ {"none"} /\ addr[c] \in ObjectOf(c)
      BY <2>2, GoesType DEF CreatePerf, Accepted, StateOf, ObjectOf, TypeOK
    <3>2. PICK a \in ObjectOf(c), s \in States \ {"none"} : Enter(c, a, s)
      BY <2>2, <3>1 DEF CreatePerf
    <3>3. msg' \in Message
      BY <2>2, ReceivedType DEF CreatePerf, Message, Idents
    <3>4. reply' \in Reply
      BY <2>2 DEF CreatePerf, Send, Reply, ReplyIds
    <3>5. perf' \in [Perfs -> {"none", "live", "dead"}]
      BY <2>2 DEF CreatePerf, TypeOK
    <3> QED BY <2>2, <3>2, <3>3, <3>4, <3>5, EnterTypes
            DEF TypeOK, CreatePerf, pipes
  <2>3. CASE CommandPerf(c, m)
    <3> DEFINE p == m.ident
               cmd == [kind |-> m.type, by |-> c,
                       msgsize |-> IF m.type = "MEASURE" THEN m.msgsize
                                   ELSE NoSize]
    <3>1. p \in Perfs
      BY <2>3 DEF CommandPerf, Found
    <3>2. cmd \in Command
      BY <2>3 DEF CommandPerf, Command, Requests, Plain, Creates, Named,
                  Sockets, Measures, AnySize
    <3>3. addr[c] \in Addrs
      BY <2>3 DEF CommandPerf, Accepted, StateOf, TypeOK, Objects
    <3>4. msg' \in Message /\ reply' \in Reply
      BY <2>3, <1>0, ReceivedType DEF CommandPerf, Silent
    <3>5. Objects' /\ UNCHANGED <<fsm, addr, perf, replies, skew, stale>>
      BY <2>3 DEF CommandPerf, Objects
    <3> HIDE DEF cmd, p
    <3>6. CASE Writable(p)
      <4>1. /\ cmds' = [cmds EXCEPT ![p] = Append(@, cmd)]
            /\ waiting' = [waiting EXCEPT ![p] = Append(@, addr[c])]
            /\ UNCHANGED <<srv, sending>>
        BY <2>3, <3>6 DEF CommandPerf, cmd, p, Enqueue
      <4>2. /\ cmds' \in [Perfs -> Seq(Command)]
            /\ waiting' \in [Perfs -> Seq(Addrs)]
            /\ \A q \in Perfs : Len(cmds'[q]) <= PipeCap
        BY <3>1, <3>2, <3>3, <3>6, <4>1 DEF TypeOK, Writable
      <4> QED BY <3>4, <3>5, <4>1, <4>2 DEF TypeOK
    <3>7. CASE ~Writable(p)
      <4>1. /\ srv' = "sending"
            /\ sending' = [to |-> p, cmd |-> cmd, ptr |-> addr[c]]
            /\ UNCHANGED <<cmds, waiting>>
        BY <2>3, <3>7 DEF CommandPerf, cmd, p
      <4>2. sending' \in Blocked
        BY <3>1, <3>2, <3>3, <4>1 DEF Blocked
      <4> QED BY <3>4, <3>5, <4>1, <4>2, BlockedIsNotNot DEF TypeOK
    <3> QED BY <3>6, <3>7
  <2> QED BY <1>1, <2>1, <2>2, <2>3 DEF HandleProtocol, Chat
<1>2. ASSUME NEW c \in Clients, HandleMalformed(c) \/ HandleTicket(c)
      PROVE  TypeOK' /\ Objects'
  <2>1. Machine(c)
    BY <1>2 DEF HandleMalformed, HandleTicket, Machine, States
  <2> QED BY <1>2, <2>1, <1>0, MachineTypes
          DEF HandleMalformed, HandleTicket, TypeOK, Silent, pipes
<1>3. CASE SendReturns
  <2>1. sending \in Blocked
    BY <1>3 DEF SendReturns, TypeOK
  <2> DEFINE p == sending.to
  <2>2. p \in Perfs /\ sending.cmd \in Command /\ sending.ptr \in Addrs
    BY <2>1 DEF Blocked
  <2>3. /\ cmds' \in [Perfs -> Seq(Command)]
        /\ waiting' \in [Perfs -> Seq(Addrs)]
        /\ \A q \in Perfs : Len(cmds'[q]) <= PipeCap
    BY <1>3, <2>2 DEF SendReturns, Enqueue, Writable, TypeOK
  <2> QED BY <1>3, <2>3, <1>0 DEF SendReturns, TypeOK, Objects, Silent
<1>4. ASSUME NEW p \in Perfs, PerfAnswers(p)
      PROVE  TypeOK' /\ Objects'
  <2>1. Head(cmds[p]) \in Command /\ Tail(cmds[p]) \in Seq(Command)
        /\ Len(Tail(cmds[p])) = Len(cmds[p]) - 1
    BY <1>4 DEF PerfAnswers, TypeOK
  <2>2. PICK r \in Answer : replies' = [replies EXCEPT ![p] = Append(@, r)]
    BY <1>4, <2>1 DEF PerfAnswers, Command, Answer
  <2>3. replies' \in [Perfs -> Seq(Answer)]
    BY <2>2 DEF TypeOK
  <2>4. /\ cmds' \in [Perfs -> Seq(Command)]
        /\ \A q \in Perfs : Len(cmds'[q]) <= PipeCap
    BY <1>4, <2>1 DEF PerfAnswers, TypeOK
  <2> QED BY <1>4, <2>3, <2>4, <1>0 DEF PerfAnswers, TypeOK, Objects, Silent
<1>5. ASSUME NEW p \in Perfs, PerfGivesUp(p)
      PROVE  TypeOK' /\ Objects'
  <2>1. Tail(cmds[p]) \in Seq(Command) /\ Len(Tail(cmds[p])) = Len(cmds[p]) - 1
    BY <1>5 DEF PerfGivesUp, TypeOK
  <2>2. /\ cmds' \in [Perfs -> Seq(Command)]
        /\ \A q \in Perfs : Len(cmds'[q]) <= PipeCap
        /\ skew' \in [Perfs -> Nat]
    BY <1>5, <2>1 DEF PerfGivesUp, TypeOK
  <2> QED BY <1>5, <2>2, <1>0 DEF PerfGivesUp, TypeOK, Objects, Silent
<1>6. ASSUME NEW p \in Perfs, PopAnswer(p), Pending(p)
      PROVE  replies' \in [Perfs -> Seq(Answer)] /\ waiting' \in [Perfs -> Seq(Addrs)]
  BY <1>6 DEF PopAnswer, Pending, TypeOK
<1>7. ASSUME NEW p \in Perfs, HandleFailure(p)
      PROVE  TypeOK' /\ Objects'
  BY <1>7, <1>6, <1>0 DEF HandleFailure, EndLoop, TypeOK, Objects, Pending,
     Silent, States
<1>8. ASSUME NEW p \in Perfs, HandleAnswer(p)
      PROVE  TypeOK' /\ Objects'
  <2>1. PICK c \in Clients :
          IF fsm[c] = "have_perf"
          THEN /\ Send(c, ReturnId(Head(replies[p]).kind))
               /\ UNCHANGED <<msg, fsm, addr, stale>>
          ELSE Reject(c, msg)
    BY <1>8 DEF HandleAnswer
  <2>2. CASE fsm[c] = "have_perf"
    <3>1. reply' \in Reply
      BY <2>1, <2>2 DEF Send, ReturnId, Reply, ReplyIds
    <3> QED BY <1>8, <1>6, <2>1, <2>2, <3>1 DEF HandleAnswer, TypeOK, Objects,
               Pending
  <2>3. CASE fsm[c] # "have_perf"
    <3>0. Reject(c, msg) /\ msg \in Message
      BY <2>1, <2>3 DEF TypeOK
    <3>1. reply' \in Reply /\ msg' \in Message /\ Machine(c)
      BY <3>0 DEF Reject, Send, Reply, ReplyIds, Message, Status, Machine
    <3> QED BY <1>8, <1>6, <3>1, MachineTypes DEF HandleAnswer, TypeOK, Pending
  <2> QED BY <2>2, <2>3
<1>9. ASSUME NEW p \in Perfs, HandleDangling(p)
      PROVE  TypeOK' /\ Objects'
  BY <1>9, <1>6, <1>0 DEF HandleDangling, TypeOK, Objects, Pending, Silent
<1>10. CASE HandleTerm
  BY <1>10, <1>0 DEF HandleTerm, EndLoop, TypeOK, Objects, Silent, States
<1>11. ASSUME NEW p \in Perfs, DestroyPerf(p)
       PROVE  TypeOK' /\ Objects'
  BY <1>11, <1>0 DEF DestroyPerf, TypeOK, Objects, Silent
<1>12. CASE Stop
  BY <1>12, <1>0 DEF Stop, TypeOK, Objects, Silent, pipes
<1>13. ASSUME NEW p \in Perfs, PerfAborts(p)
       PROVE  TypeOK' /\ Objects'
  BY <1>13, <1>0 DEF PerfAborts, TypeOK, Objects, Silent
<1>14. CASE UNCHANGED vars
  BY <1>14 DEF TypeOK, Objects, vars
<1> QED BY <1>1, <1>2, <1>3, <1>4, <1>5, <1>7, <1>8, <1>9, <1>10, <1>11, <1>12,
           <1>13, <1>14 DEF Next, Ended

(* Every variable keeps its type, for any number of peers and perfs. *)
THEOREM TypeCorrect == Spec => [](TypeOK /\ Objects)
  BY TypeInit, TypeStep, PTL DEF Spec
-----------------------------------------------------------------------------
(* The waiting lists are as long as the answers still to come *)

Unused(p) ==
  cmds[p] = <<>> /\ replies[p] = <<>> /\ waiting[p] = <<>> /\ skew[p] = 0

Counts ==
  /\ WaiterForEveryAnswer
  /\ Serving => \A p \in Perfs : perf[p] = "none" => Unused(p)
  /\ srv = "sending" => /\ perf[sending.to] # "none"
                        /\ Len(waiting[sending.to]) < MaxWaiting

Balanced(q) == Len(waiting[q]) = Len(replies[q]) + Len(cmds[q]) + skew[q]

(* The balance of all perfs is what WaiterForEveryAnswer says of each. *)
LEMMA BalanceIs ==
  /\ WaiterForEveryAnswer <=> \A q \in Perfs : perf[q] # "none" => Balanced(q)
  /\ WaiterForEveryAnswer' <=>
       \A q \in Perfs : perf'[q] # "none" => Balanced(q)'
  BY DEF WaiterForEveryAnswer, Balanced, Outstanding

(* It is enough to look at the one perf a step is about. *)
LEMMA BalanceOfOne ==
  ASSUME WaiterForEveryAnswer, NEW p \in Perfs, perf'[p] # "none" => Balanced(p)',
         \A q \in Perfs \ {p} :
           /\ perf'[q] = perf[q] /\ cmds'[q] = cmds[q] /\ skew'[q] = skew[q]
           /\ replies'[q] = replies[q] /\ waiting'[q] = waiting[q]
  PROVE  WaiterForEveryAnswer'
<1> SUFFICES ASSUME NEW q \in Perfs, perf'[q] # "none" PROVE Balanced(q)'
  BY BalanceIs
<1>1. CASE q = p
  BY <1>1
<1>2. CASE q # p
  BY <1>2, BalanceIs DEF Balanced
<1> QED BY <1>1, <1>2

(* A command joins the pipe of p and a client joins its waiting list. *)
LEMMA JoinCounts ==
  ASSUME TypeOK, Counts, Serving, NEW p \in Perfs, NEW cmd \in Command,
         NEW a \in Addrs, perf[p] # "none",
         cmds' = [cmds EXCEPT ![p] = Append(@, cmd)],
         waiting' = [waiting EXCEPT ![p] = Append(@, a)],
         srv' = "running", UNCHANGED <<perf, replies, skew>>
  PROVE  Counts'
<1>1. /\ Len(cmds'[p]) = Len(cmds[p]) + 1
      /\ Len(waiting'[p]) = Len(waiting[p]) + 1
      /\ \A q \in Perfs \ {p} : cmds'[q] = cmds[q] /\ waiting'[q] = waiting[q]
  BY DEF TypeOK
<1>2. WaiterForEveryAnswer'
  <2>0. Balanced(p)
    BY BalanceIs DEF Counts
  <2>1. Balanced(p)'
    BY <1>1, <2>0 DEF Balanced, TypeOK
  <2> QED BY <1>1, <2>1, BalanceOfOne DEF Counts
<1>3. \A q \in Perfs : perf'[q] = "none" => Unused(q)'
  BY <1>1 DEF Counts, Unused
<1> QED BY <1>2, <1>3 DEF Counts

(* An answer of p is read and the head of its waiting list popped. *)
LEMMA PopCounts ==
  ASSUME TypeOK, Counts, NEW p \in Perfs, Pending(p), PopAnswer(p),
         srv' # "sending", UNCHANGED <<perf, cmds, skew>>
  PROVE  Counts'
<1>1. /\ Len(replies'[p]) = Len(replies[p]) - 1
      /\ Len(waiting'[p]) = Len(waiting[p]) - 1
      /\ \A q \in Perfs \ {p} :
           replies'[q] = replies[q] /\ waiting'[q] = waiting[q]
  BY DEF TypeOK, Pending, PopAnswer
<1>3. Serving /\ perf[p] # "none"
  BY DEF Pending, Serving, Counts, Unused
<1>2. WaiterForEveryAnswer'
  <2>0. Balanced(p)
    BY <1>3, BalanceIs DEF Counts
  <2>1. Balanced(p)'
    BY <1>1, <2>0 DEF Balanced, TypeOK
  <2> QED BY <1>1, <2>1, BalanceOfOne DEF Counts
<1>4. \A q \in Perfs : perf'[q] = "none" => Unused(q)'
  BY <1>1, <1>3 DEF Counts, Unused
<1> QED BY <1>2, <1>4 DEF Counts

(* No step gets the waiting list of a perf out of balance with its pipes. *)
LEMMA CountsStep == TypeOK /\ Objects /\ Counts /\ [Next]_vars => Counts'
<1> SUFFICES ASSUME TypeOK, Objects, Counts, [Next]_vars
             PROVE  Counts'
  OBVIOUS
<1> USE DEF Serving
<1>0. ASSUME UNCHANGED <<srv, perf, pipes>> PROVE Counts'
  BY <1>0 DEF Counts, WaiterForEveryAnswer, Outstanding, Unused, pipes
<1>1. ASSUME NEW c \in Clients, NEW m \in Requests, HandleProtocol(c, m)
      PROVE  Counts'
  <2>1. CASE Chat(c, m)
    BY <2>1, <1>0, ChatIsMachine
  <2>2. CASE CreatePerf(c, m)
    <3>1. PICK p \in Perfs :
            /\ perf[p] = "none"
            /\ perf' = [perf EXCEPT ![p] = IF m.known THEN "live" ELSE "dead"]
      BY <2>2 DEF CreatePerf
    <3>2. srv = "running" /\ UNCHANGED <<srv, pipes>>
      BY <1>1, <2>2 DEF HandleProtocol, CreatePerf
    <3>3. \A q \in Perfs \ {p} : perf'[q] = perf[q]
      BY <3>1 DEF TypeOK
    <3>4. Unused(p) /\ perf'[p] # "none"
      BY <3>1, <3>2 DEF Counts, TypeOK
    <3>5. Balanced(p)'
      BY <3>2, <3>4 DEF Balanced, Unused, pipes
    <3>6. WaiterForEveryAnswer'
      BY <3>2, <3>3, <3>5, BalanceOfOne DEF Counts, pipes
    <3> QED BY <3>2, <3>3, <3>4, <3>6 DEF Counts, Unused, pipes
  <2>3. CASE CommandPerf(c, m)
    <3> DEFINE p == m.ident
               cmd == [kind |-> m.type, by |-> c,
                       msgsize |-> IF m.type = "MEASURE" THEN m.msgsize
                                   ELSE NoSize]
    <3>1. p \in Perfs /\ perf[p] # "none"
      BY <2>3 DEF CommandPerf, Found
    <3>2. cmd \in Command
      BY <2>3 DEF CommandPerf, Command, Requests, Plain, Creates, Named,
                  Sockets, Measures, AnySize
    <3>3. addr[c] \in Addrs
      BY <2>3 DEF CommandPerf, Accepted, StateOf, TypeOK, Objects
    <3>4. /\ Len(waiting[p]) < MaxWaiting
          /\ UNCHANGED <<perf, replies, skew>>
          /\ srv = "running"
      BY <1>1, <2>3 DEF CommandPerf, HandleProtocol
    <3> HIDE DEF cmd, p
    <3>5. CASE Writable(p)
      <4>1. /\ cmds' = [cmds EXCEPT ![p] = Append(@, cmd)]
            /\ waiting' = [waiting EXCEPT ![p] = Append(@, addr[c])]
            /\ srv' = srv
        BY <2>3, <3>5 DEF CommandPerf, cmd, p, Enqueue
      <4> QED BY <3>1, <3>2, <3>3, <3>4, <4>1, JoinCounts
    <3>6. CASE ~Writable(p)
      <4>1. /\ srv' = "sending"
            /\ sending' = [to |-> p, cmd |-> cmd, ptr |-> addr[c]]
            /\ UNCHANGED <<cmds, waiting>>
        BY <2>3, <3>6 DEF CommandPerf, cmd, p
      <4> QED BY <3>1, <3>4, <4>1
              DEF Counts, WaiterForEveryAnswer, Outstanding, Unused
    <3> QED BY <3>5, <3>6
  <2> QED BY <1>1, <2>1, <2>2, <2>3 DEF HandleProtocol, Chat
<1>2. ASSUME NEW c \in Clients, HandleMalformed(c) \/ HandleTicket(c)
      PROVE  Counts'
  BY <1>2, <1>0 DEF HandleMalformed, HandleTicket
<1>3. CASE SendReturns
  <2>1. sending \in Blocked /\ srv = "sending"
    BY <1>3 DEF SendReturns, TypeOK
  <2>2. /\ sending.to \in Perfs /\ sending.cmd \in Command
        /\ sending.ptr \in Addrs /\ perf[sending.to] # "none"
    BY <2>1 DEF Blocked, Counts
  <2> QED BY <1>3, <2>1, <2>2, JoinCounts DEF SendReturns, Enqueue
<1>4. ASSUME NEW p \in Perfs, PerfAnswers(p)
      PROVE  Counts'
  <2>1. /\ Len(cmds'[p]) = Len(cmds[p]) - 1
        /\ \A q \in Perfs \ {p} : cmds'[q] = cmds[q]
    BY <1>4 DEF PerfAnswers, TypeOK
  <2>3. Head(cmds[p]) \in Command
    BY <1>4 DEF PerfAnswers, TypeOK
  <2>4. PICK ok \in BOOLEAN :
          replies' = [replies EXCEPT ![p] =
             Append(@, [kind |-> Head(cmds[p]).kind, by |-> Head(cmds[p]).by,
                        msgsize |-> Head(cmds[p]).msgsize, ok |-> ok])]
    BY <1>4 DEF PerfAnswers
  <2>5. [kind |-> Head(cmds[p]).kind, by |-> Head(cmds[p]).by,
         msgsize |-> Head(cmds[p]).msgsize, ok |-> ok] \in Answer
    BY <2>3 DEF Command, Answer
  <2>6. /\ Len(replies'[p]) = Len(replies[p]) + 1
        /\ \A q \in Perfs \ {p} : replies'[q] = replies[q]
    BY <2>4, <2>5 DEF TypeOK
  <2>7. perf[p] # "none" /\ UNCHANGED <<srv, perf, waiting, sending, skew>>
    BY <1>4 DEF PerfAnswers
  <2>0. Balanced(p)
    BY <2>7, BalanceIs DEF Counts
  <2>8. Balanced(p)'
    BY <2>0, <2>1, <2>6, <2>7 DEF Balanced, TypeOK
  <2>9. WaiterForEveryAnswer'
    BY <2>1, <2>6, <2>7, <2>8, BalanceOfOne DEF Counts
  <2> QED BY <2>1, <2>6, <2>7, <2>9 DEF Counts, Unused
<1>5. ASSUME NEW p \in Perfs, PerfGivesUp(p)
      PROVE  Counts'
  <2>1. /\ Len(cmds'[p]) = Len(cmds[p]) - 1
        /\ skew'[p] = skew[p] + 1
        /\ \A q \in Perfs \ {p} : cmds'[q] = cmds[q] /\ skew'[q] = skew[q]
    BY <1>5 DEF PerfGivesUp, TypeOK
  <2>2. perf[p] # "none" /\ UNCHANGED <<srv, perf, waiting, sending, replies>>
    BY <1>5 DEF PerfGivesUp
  <2>3. WaiterForEveryAnswer'
    <3>0. Balanced(p)
      BY <2>2, BalanceIs DEF Counts
    <3>1. Balanced(p)'
      BY <2>1, <2>2, <3>0 DEF Balanced, TypeOK
    <3> QED BY <2>1, <2>2, <3>1, BalanceOfOne DEF Counts
  <2> QED BY <2>1, <2>2, <2>3 DEF Counts, Unused
<1>6. ASSUME NEW p \in Perfs,
             HandleFailure(p) \/ HandleAnswer(p) \/ HandleDangling(p)
      PROVE  Counts'
  BY <1>6, PopCounts
     DEF HandleFailure, EndLoop, HandleAnswer, HandleDangling, Pending
<1>7. CASE HandleTerm
  BY <1>7 DEF HandleTerm, EndLoop, Counts, WaiterForEveryAnswer, Outstanding
<1>8. ASSUME NEW p \in Perfs, DestroyPerf(p)
      PROVE  Counts'
  <2>1. perf'[p] = "none" /\ srv' = "stopping"
    BY <1>8 DEF DestroyPerf, TypeOK
  <2>2. \A q \in Perfs \ {p} :
          /\ perf'[q] = perf[q] /\ cmds'[q] = cmds[q] /\ skew'[q] = skew[q]
          /\ replies'[q] = replies[q] /\ waiting'[q] = waiting[q]
    BY <1>8 DEF DestroyPerf, TypeOK
  <2> QED BY <2>1, <2>2 DEF Counts, WaiterForEveryAnswer, Outstanding
<1>9. CASE Stop
  BY <1>9 DEF Stop, Counts, WaiterForEveryAnswer, Outstanding, pipes
<1>10. ASSUME NEW p \in Perfs, PerfAborts(p)
       PROVE  Counts'
  BY <1>10
     DEF PerfAborts, Counts, WaiterForEveryAnswer, Outstanding, Serving
<1>11. CASE UNCHANGED vars
  BY <1>11, <1>0 DEF vars, pipes
<1> QED BY <1>1, <1>2, <1>3, <1>4, <1>5, <1>6, <1>7, <1>8, <1>9, <1>10, <1>11
        DEF Next, Ended

(* zlist_pop finds a client for every answer a perf sends. *)
THEOREM AssertClientHolds == Spec => []WaiterForEveryAnswer
<1>1. Init => Counts
  BY DEF Init, Counts, WaiterForEveryAnswer, Outstanding, Unused
<1>2. Counts => WaiterForEveryAnswer
  BY DEF Counts
<1> QED BY <1>1, <1>2, TypeInit, TypeStep, CountsStep, PTL DEF Spec

(* Up to two pipes' worth of unanswered commands never lock the server up. *)
THEOREM SendHasCredit == Spec => []SendCanReturn
<1>1. TypeOK /\ Counts => SendCanReturn
  <2> SUFFICES ASSUME TypeOK, Counts, MaxWaiting <= 2 * PipeCap,
                      srv = "sending", perf[sending.to] = "live",
                      ~ Writable(sending.to)
               PROVE  Len(replies[sending.to]) < PipeCap
    BY DEF SendCanReturn
  <2> DEFINE p == sending.to
  <2>1. p \in Perfs
    BY DEF TypeOK, Blocked
  <2>2. Len(cmds[p]) = PipeCap
    BY <2>1 DEF TypeOK, Writable
  <2>3. Balanced(p) /\ Len(waiting[p]) < MaxWaiting
    BY <2>1, BalanceIs DEF Counts
  <2>4. Len(replies[p]) + PipeCap < 2 * PipeCap
    BY <2>1, <2>2, <2>3 DEF Balanced, TypeOK
  <2> QED BY <2>1, <2>4 DEF TypeOK
<1>2. Init => Counts
  BY DEF Init, Counts, WaiterForEveryAnswer, Outstanding, Unused
<1> QED BY <1>1, <1>2, TypeInit, TypeStep, CountsStep, PTL DEF Spec
-----------------------------------------------------------------------------
(* Who waits, and in which order *)

Held(a) == \E c \in Clients : addr[c] = a /\ fsm[c] = "have_perf"

HeldNext(a) == \E c \in Clients : addr'[c] = a /\ fsm'[c] = "have_perf"

Order ==
  /\ WaitersKeepTheirPerf
  /\ WaitersInOrder
  /\ srv = "sending" => /\ addr[sending.cmd.by] = sending.ptr
                        /\ fsm[sending.cmd.by] = "have_perf"

(* The objects that wait stay where they are, in have_perf, or become stale. *)
Kept ==
  /\ stale \subseteq stale'
  /\ \A a \in Addrs : InList(a) /\ a \notin stale' =>
       /\ Held(a) => HeldNext(a)
       /\ \A d \in Clients : addr[d] = a => addr'[d] = a

(* A machine's step keeps the client of a pointer that waits, and its state,
   unless it frees the object. *)
LEMMA MachineKeeps ==
  ASSUME TypeOK, Objects, NEW c \in Clients, Machine(c)
  PROVE  Kept
<1> SUFFICES ASSUME NEW a \in Addrs, InList(a), a \notin stale'
             PROVE  /\ stale \subseteq stale'
                    /\ Held(a) => HeldNext(a)
                    /\ \A d \in Clients : addr[d] = a => addr'[d] = a
  BY DEF Kept, Machine, Enter, Leave
<1>1. stale \subseteq stale'
  BY DEF Machine, Enter, Leave
<1>2. \A d \in Clients \ {c} : addr'[d] = addr[d] /\ fsm'[d] = fsm[d]
  BY DEF Machine, Enter, Leave, TypeOK
<1>3. ASSUME addr[c] = a
      PROVE  addr'[c] = a /\ (fsm[c] = "have_perf" => fsm'[c] = "have_perf")
  <2>1. fsm[c] # "none"
    BY <1>3 DEF Objects, TypeOK
  <2>2. ~ Leave(c)
    BY <1>3, <2>1 DEF Leave
  <2>3. PICK b \in ObjectOf(c), s \in States \ {"none"} :
          /\ fsm[c] = "have_perf" => s = "have_perf"
          /\ Enter(c, b, s)
    BY <2>2 DEF Machine
  <2> QED BY <1>3, <2>1, <2>3 DEF ObjectOf, Enter, TypeOK
<1>4. \A d \in Clients : addr[d] = a => addr'[d] = a
  BY <1>2, <1>3
<1>5. Held(a) => HeldNext(a)
  BY <1>2, <1>3 DEF Held, HeldNext
<1> QED BY <1>1, <1>4, <1>5

(* Every waiting pointer is an address, every waiter asked for something. *)
LEMMA AskedType ==
  ASSUME TypeOK, Counts, Serving, NEW p \in Perfs, skew[p] = 0,
         NEW i \in 1..Len(waiting[p])
  PROVE  /\ perf[p] # "none"
         /\ i \in 1 .. Len(replies[p]) + Len(cmds[p])
         /\ Asked(p, i) \in Clients
<1>1. perf[p] # "none"
  BY DEF Counts, Unused, TypeOK
<1>2. Balanced(p)
  BY <1>1, BalanceIs DEF Counts
<1>3. i \in 1 .. Len(replies[p]) + Len(cmds[p])
  BY <1>2 DEF Balanced, TypeOK
<1>4. CASE i <= Len(replies[p])
  <2>1. replies[p][i] \in Answer
    BY <1>4 DEF TypeOK
  <2> QED BY <1>1, <1>3, <1>4, <2>1 DEF Asked, Answer
<1>5. CASE ~(i <= Len(replies[p]))
  <2>1. cmds[p][i - Len(replies[p])] \in Command
    BY <1>3, <1>5 DEF TypeOK
  <2> QED BY <1>1, <1>3, <1>5, <2>1 DEF Asked, Command
<1> QED BY <1>4, <1>5

(* Order follows for the pointers that were there before the step. *)
LEMMA KeptOrder ==
  ASSUME TypeOK, Counts, Order, Kept, Serving, srv' # "sending",
         UNCHANGED pipes
  PROVE  Order'
<1> USE DEF pipes
<1>1. \A p \in Perfs : \A i \in 1..Len(waiting[p]) :
        waiting[p][i] \in Addrs /\ InList(waiting[p][i])
  BY DEF TypeOK, InList
<1>2. WaitersKeepTheirPerf'
  <2> SUFFICES ASSUME NEW p \in Perfs, NEW i \in 1..Len(waiting[p]),
                      waiting[p][i] \notin stale'
               PROVE  HeldNext(waiting[p][i])
    BY DEF WaitersKeepTheirPerf, HeldNext
  <2>1. Held(waiting[p][i])
    BY DEF Order, WaitersKeepTheirPerf, Held, Kept
  <2> QED BY <1>1, <2>1 DEF Kept
<1>3. WaitersInOrder'
  <2> SUFFICES ASSUME NEW p \in Perfs, skew[p] = 0,
                      NEW i \in 1..Len(waiting[p]), waiting[p][i] \notin stale'
               PROVE  addr'[Asked(p, i)] = waiting[p][i]
    BY DEF WaitersInOrder, Asked
  <2>1. addr[Asked(p, i)] = waiting[p][i] /\ Asked(p, i) \in Clients
    BY AskedType DEF Order, WaitersInOrder, Kept
  <2> QED BY <1>1, <2>1 DEF Kept
<1> QED BY <1>2, <1>3 DEF Order

(* The asker of a new command is put at the end of the list. *)
LEMMA JoinOrder ==
  ASSUME TypeOK, Counts, Order, Serving, NEW p \in Perfs, NEW cmd \in Command,
         NEW a \in Addrs, addr[cmd.by] = a, fsm[cmd.by] = "have_perf",
         perf[p] # "none",
         cmds' = [cmds EXCEPT ![p] = Append(@, cmd)],
         waiting' = [waiting EXCEPT ![p] = Append(@, a)],
         srv' = "running", UNCHANGED <<fsm, addr, replies, skew, stale>>
  PROVE  Order'
<1>1. /\ cmds'[p] = Append(cmds[p], cmd) /\ waiting'[p] = Append(waiting[p], a)
      /\ \A q \in Perfs \ {p} : cmds'[q] = cmds[q] /\ waiting'[q] = waiting[q]
  BY DEF TypeOK
<1>2. cmd.by \in Clients
  BY DEF Command
<1>3. ASSUME NEW i \in 1..Len(waiting'[p])
      PROVE  \/ i \in 1..Len(waiting[p]) /\ waiting'[p][i] = waiting[p][i]
             \/ i = Len(waiting[p]) + 1 /\ waiting'[p][i] = a
  BY <1>1 DEF TypeOK
<1>4. WaitersKeepTheirPerf'
  <2> SUFFICES ASSUME NEW q \in Perfs, NEW i \in 1..Len(waiting'[q]),
                      waiting'[q][i] \notin stale
               PROVE  Held(waiting'[q][i])
    BY DEF WaitersKeepTheirPerf, Held
  <2>1. Held(a)
    BY <1>2 DEF Held
  <2>2. \A r \in Perfs : \A j \in 1..Len(waiting[r]) :
          waiting[r][j] \notin stale => Held(waiting[r][j])
    BY DEF Order, WaitersKeepTheirPerf, Held
  <2> QED BY <1>1, <1>3, <2>1, <2>2
<1>5. WaitersInOrder'
  <2> SUFFICES ASSUME NEW q \in Perfs, skew[q] = 0,
                      NEW i \in 1..Len(waiting'[q]), waiting'[q][i] \notin stale
               PROVE  addr[Asked(q, i)'] = waiting'[q][i]
    BY DEF WaitersInOrder
  <2>1. ASSUME i \in 1..Len(waiting[q]), waiting'[q][i] = waiting[q][i]
        PROVE  addr[Asked(q, i)'] = waiting'[q][i]
    <3>1. i \in 1 .. Len(replies[q]) + Len(cmds[q])
      BY <2>1, AskedType
    <3>2. Asked(q, i)' = Asked(q, i)
      BY <1>1, <3>1 DEF Asked, TypeOK
    <3> QED BY <2>1, <3>2 DEF Order, WaitersInOrder
  <2>2. ASSUME q = p, i = Len(waiting[p]) + 1, waiting'[p][i] = a
        PROVE  addr[Asked(q, i)'] = waiting'[q][i]
    <3>1. Balanced(p)
      BY BalanceIs DEF Counts
    <3>2. i - Len(replies[p]) = Len(cmds[p]) + 1 /\ ~(i <= Len(replies[p]))
      BY <2>2, <3>1 DEF Balanced, TypeOK
    <3>3. cmds'[p][Len(cmds[p]) + 1] = cmd
      BY <1>1 DEF TypeOK
    <3>4. Asked(p, i)' = cmd.by
      BY <3>2, <3>3 DEF Asked
    <3> QED BY <2>2, <3>4
  <2>3. q # p => waiting'[q] = waiting[q]
    BY <1>1
  <2> QED BY <1>3, <2>1, <2>2, <2>3
<1> QED BY <1>4, <1>5 DEF Order

(* The head of the list and the oldest answer go together. *)
LEMMA PopOrder ==
  ASSUME TypeOK, Counts, Order, Kept, NEW p \in Perfs, Pending(p), PopAnswer(p),
         srv' # "sending", UNCHANGED <<cmds, skew>>
  PROVE  Order'
<1>1. /\ replies'[p] = Tail(replies[p]) /\ replies[p] # <<>>
      /\ waiting'[p] = Tail(waiting[p]) /\ waiting[p] # <<>>
      /\ \A q \in Perfs \ {p} :
           replies'[q] = replies[q] /\ waiting'[q] = waiting[q]
  BY DEF TypeOK, Pending, PopAnswer
<1>2. Serving
  BY DEF Serving, Pending
<1>3. ASSUME NEW i \in 1..Len(waiting'[p])
      PROVE  i + 1 \in 1..Len(waiting[p]) /\ waiting'[p][i] = waiting[p][i + 1]
  BY <1>1 DEF TypeOK
<1>4. \A q \in Perfs : \A i \in 1..Len(waiting[q]) :
        waiting[q][i] \in Addrs /\ InList(waiting[q][i])
  BY DEF TypeOK, InList
<1>5. WaitersKeepTheirPerf'
  <2> SUFFICES ASSUME NEW q \in Perfs, NEW i \in 1..Len(waiting'[q]),
                      waiting'[q][i] \notin stale'
               PROVE  HeldNext(waiting'[q][i])
    BY DEF WaitersKeepTheirPerf, HeldNext
  <2>1. \A r \in Perfs : \A j \in 1..Len(waiting[r]) :
          waiting[r][j] \notin stale' => HeldNext(waiting[r][j])
    <3> SUFFICES ASSUME NEW r \in Perfs, NEW j \in 1..Len(waiting[r]),
                        waiting[r][j] \notin stale'
                 PROVE  HeldNext(waiting[r][j])
      OBVIOUS
    <3>1. Held(waiting[r][j])
      BY <1>2 DEF Order, WaitersKeepTheirPerf, Held, Kept
    <3> QED BY <1>4, <3>1 DEF Kept
  <2>2. CASE q = p
    <3>1. i + 1 \in 1..Len(waiting[p]) /\ waiting'[p][i] = waiting[p][i + 1]
      BY <2>2, <1>3
    <3> QED BY <2>1, <2>2, <3>1
  <2>3. CASE q # p
    <3>1. waiting'[q] = waiting[q]
      BY <1>1, <2>3
    <3> QED BY <2>1, <3>1
  <2> QED BY <2>2, <2>3
<1>6. WaitersInOrder'
  <2> SUFFICES ASSUME NEW q \in Perfs, skew[q] = 0,
                      NEW i \in 1..Len(waiting'[q]), waiting'[q][i] \notin stale'
               PROVE  addr'[Asked(q, i)'] = waiting'[q][i]
    BY DEF WaitersInOrder
  <2> DEFINE j == IF q = p THEN i + 1 ELSE i
  <2>1. j \in 1..Len(waiting[q]) /\ waiting'[q][i] = waiting[q][j]
    BY <1>1, <1>3
  <2>2. j \in 1 .. Len(replies[q]) + Len(cmds[q]) /\ Asked(q, j) \in Clients
    BY <1>2, <2>1, AskedType
  <2>3. Asked(q, i)' = Asked(q, j)
    <3>1. CASE q # p
      BY <1>1, <3>1 DEF Asked
    <3>2. CASE q = p
      <4>1. /\ Len(replies'[p]) = Len(replies[p]) - 1 /\ Len(replies[p]) \in Nat
            /\ Len(cmds[p]) \in Nat
        BY <1>1 DEF TypeOK
      <4>2. i \in Nat \ {0} /\ i <= Len(replies'[p]) <=> i + 1 <= Len(replies[p])
        BY <4>1, <3>2, <1>3
      <4>3. CASE i + 1 <= Len(replies[p])
        <5>1. Tail(replies[p])[i] = replies[p][i + 1]
          BY <4>1, <4>2, <4>3, <1>1 DEF TypeOK
        <5> QED BY <1>1, <3>2, <4>2, <4>3, <5>1 DEF Asked
      <4>4. CASE ~(i + 1 <= Len(replies[p]))
        <5>1. i - Len(replies'[p]) = (i + 1) - Len(replies[p])
          BY <4>1
        <5>2. Asked(p, i)' = cmds[p][i - Len(replies'[p])].by
          BY <4>2, <4>4 DEF Asked
        <5>3. Asked(p, i + 1) = cmds[p][(i + 1) - Len(replies[p])].by
          BY <4>4 DEF Asked
        <5> QED BY <3>2, <5>1, <5>2, <5>3
      <4> QED BY <4>3, <4>4
    <3> QED BY <3>1, <3>2
  <2>4. addr[Asked(q, j)] = waiting[q][j]
    BY <1>2, <2>1 DEF Order, WaitersInOrder, Kept
  <2> QED BY <1>4, <2>1, <2>2, <2>3, <2>4 DEF Kept
<1> QED BY <1>5, <1>6 DEF Order

(* The loop has ended: nothing is asked of the waiting lists any more. *)
LEMMA EndedOrder == ~Serving' => Order'
  BY DEF Serving, Order, WaitersKeepTheirPerf, WaitersInOrder

(* A step that touches no client object keeps the waiting clients. *)
LEMMA SameClients == UNCHANGED <<fsm, addr, stale>> => Kept
  BY DEF Kept, Held, HeldNext

(* The i-th of a tail is the next of the whole. *)
LEMMA TailAt ==
  ASSUME NEW S, NEW s \in Seq(S), s # <<>>, NEW k \in 1..Len(Tail(s))
  PROVE  Tail(s)[k] = s[k + 1]
  OBVIOUS

(* No step puts a waiting list in another order than the commands, or takes
   a waiting client out of have_perf without freeing it. *)
LEMMA OrderStep == TypeOK /\ Objects /\ Counts /\ Order /\ [Next]_vars => Order'
<1> SUFFICES ASSUME TypeOK, Objects, Counts, Order, [Next]_vars
             PROVE  Order'
  OBVIOUS
<1>1. ASSUME NEW c \in Clients, NEW m \in Requests, HandleProtocol(c, m)
      PROVE  Order'
  <2>0. srv = "running" /\ Serving
    BY <1>1 DEF HandleProtocol, Serving
  <2>1. CASE Chat(c, m)
    BY <2>0, <2>1, ChatIsMachine, MachineKeeps, KeptOrder
  <2>2. CASE CreatePerf(c, m)
    <3>1. /\ Goes(m.type, fsm[c]) = "have_perf" /\ addr[c] \in ObjectOf(c)
          /\ "have_perf" \in States \ {"none"}
      BY <2>2 DEF CreatePerf, Goes, Accepted, StateOf, ObjectOf, States
    <3>2. Machine(c)
      BY <2>2, <3>1 DEF CreatePerf, Machine
    <3> QED BY <2>0, <2>2, <3>2, MachineKeeps, KeptOrder DEF CreatePerf
  <2>3. CASE CommandPerf(c, m)
    <3> DEFINE p == m.ident
               cmd == [kind |-> m.type, by |-> c,
                       msgsize |-> IF m.type = "MEASURE" THEN m.msgsize
                                   ELSE NoSize]
    <3>1. p \in Perfs /\ perf[p] # "none"
      BY <2>3 DEF CommandPerf, Found
    <3>2. cmd \in Command /\ cmd.by = c
      BY <2>3 DEF CommandPerf, Command, Requests, Plain, Creates, Named,
                  Sockets, Measures, AnySize
    <3>3. addr[c] \in Addrs /\ fsm[c] = "have_perf"
      <4>1. StateOf(c) \in {"start", "connected", "have_perf"}
        BY StateOfType DEF States
      <4>2. StateOf(c) = "have_perf"
        BY <2>3, <4>1 DEF CommandPerf, Accepted
      <4>3. fsm[c] = "have_perf"
        BY <4>2 DEF StateOf
      <4> QED BY <4>3 DEF TypeOK, Objects
    <3>4. UNCHANGED <<fsm, addr, replies, skew, stale>>
      BY <2>3 DEF CommandPerf
    <3> HIDE DEF cmd, p
    <3>5. CASE Writable(p)
      <4>1. /\ cmds' = [cmds EXCEPT ![p] = Append(@, cmd)]
            /\ waiting' = [waiting EXCEPT ![p] = Append(@, addr[c])]
            /\ srv' = srv
        BY <2>3, <3>5 DEF CommandPerf, cmd, p, Enqueue
      <4> QED BY <2>0, <3>1, <3>2, <3>3, <3>4, <4>1, JoinOrder
    <3>6. CASE ~Writable(p)
      <4>1. /\ srv' = "sending"
            /\ sending' = [to |-> p, cmd |-> cmd, ptr |-> addr[c]]
            /\ UNCHANGED <<cmds, waiting>>
        BY <2>3, <3>6 DEF CommandPerf, cmd, p
      <4>2. sending'.cmd.by = c /\ sending'.ptr = addr[c]
        BY <3>2, <4>1
      <4>3. WaitersKeepTheirPerf' /\ WaitersInOrder'
        BY <2>0, <3>4, <4>1
           DEF Order, WaitersKeepTheirPerf, WaitersInOrder, Asked
      <4> QED BY <3>3, <3>4, <4>2, <4>3 DEF Order
    <3> QED BY <3>5, <3>6
  <2> QED BY <1>1, <2>1, <2>2, <2>3 DEF HandleProtocol, Chat
<1>2. ASSUME NEW c \in Clients, HandleMalformed(c) \/ HandleTicket(c)
      PROVE  Order'
  <2>1. Machine(c) /\ srv = "running" /\ UNCHANGED <<srv, pipes>>
    BY <1>2 DEF HandleMalformed, HandleTicket, Machine, States
  <2> QED BY <2>1, MachineKeeps, KeptOrder DEF Serving
<1>3. CASE SendReturns
  <2>1. sending \in Blocked /\ srv = "sending"
    BY <1>3 DEF SendReturns, TypeOK
  <2>2. /\ sending.to \in Perfs /\ sending.cmd \in Command
        /\ sending.ptr \in Addrs /\ perf[sending.to] # "none"
        /\ addr[sending.cmd.by] = sending.ptr
        /\ fsm[sending.cmd.by] = "have_perf"
    BY <2>1 DEF Blocked, Counts, Order
  <2> QED BY <1>3, <2>1, <2>2, JoinOrder DEF SendReturns, Enqueue, Serving
<1>4. ASSUME NEW p \in Perfs, PerfAnswers(p)
      PROVE  Order'
  <2>1. PICK ok \in BOOLEAN :
          replies' = [replies EXCEPT ![p] =
             Append(@, [kind |-> Head(cmds[p]).kind, by |-> Head(cmds[p]).by,
                        msgsize |-> Head(cmds[p]).msgsize, ok |-> ok])]
    BY <1>4 DEF PerfAnswers
  <2> DEFINE r == [kind |-> Head(cmds[p]).kind, by |-> Head(cmds[p]).by,
                   msgsize |-> Head(cmds[p]).msgsize, ok |-> ok]
  <2>2. r.by = cmds[p][1].by /\ r \in Answer
    <3>1. Head(cmds[p]) \in Command /\ Head(cmds[p]) = cmds[p][1]
      BY <1>4 DEF PerfAnswers, TypeOK
    <3> QED BY <3>1 DEF Command, Answer
  <2>3. /\ cmds' = [cmds EXCEPT ![p] = Tail(@)] /\ cmds[p] # <<>>
        /\ UNCHANGED <<srv, fsm, addr, waiting, sending, skew, stale>>
    BY <1>4 DEF PerfAnswers
  <2>4. replies' = [replies EXCEPT ![p] = Append(@, r)]
    BY <2>1
  <2> HIDE DEF r
  <2>5. /\ replies'[p] = Append(replies[p], r) /\ cmds'[p] = Tail(cmds[p])
        /\ \A q \in Perfs \ {p} : replies'[q] = replies[q] /\ cmds'[q] = cmds[q]
    BY <2>3, <2>4 DEF TypeOK
  <2>6. ASSUME NEW q \in Perfs, NEW i \in 1 .. Len(replies[q]) + Len(cmds[q])
        PROVE  Asked(q, i)' = Asked(q, i)
    <3>1. CASE q # p
      BY <2>5, <3>1 DEF Asked
    <3>2. CASE q = p
      <4>1. /\ Len(replies[p]) \in Nat /\ Len(cmds[p]) \in Nat /\ i \in Nat
            /\ Len(replies'[p]) = Len(replies[p]) + 1
        <5>1. replies[p] \in Seq(Answer) /\ cmds[p] \in Seq(Command)
          BY DEF TypeOK
        <5>2. /\ Len(replies[p]) \in Nat /\ Len(cmds[p]) \in Nat
              /\ Len(Append(replies[p], r)) = Len(replies[p]) + 1
          BY <2>2, <5>1, AppendProperties
        <5> QED BY <2>5, <3>2, <5>2
      <4>2. CASE i <= Len(replies[p])
        <5>1. replies'[p][i] = replies[p][i] /\ i <= Len(replies'[p])
          BY <2>2, <2>5, <4>1, <4>2 DEF TypeOK
        <5> QED BY <3>2, <4>2, <5>1 DEF Asked
      <4>3. CASE i = Len(replies[p]) + 1
        <5>1. /\ replies'[p][i] = r /\ i <= Len(replies'[p])
              /\ i - Len(replies[p]) = 1 /\ ~(i <= Len(replies[p]))
          BY <2>2, <2>5, <4>1, <4>3 DEF TypeOK
        <5> QED BY <2>2, <3>2, <5>1 DEF Asked
      <4>4. CASE i > Len(replies[p]) + 1
        <5>1. /\ i - Len(replies'[p]) \in 1..Len(Tail(cmds[p]))
              /\ i - Len(replies[p]) = (i - Len(replies'[p])) + 1
              /\ ~(i <= Len(replies'[p])) /\ ~(i <= Len(replies[p]))
          BY <2>3, <3>2, <4>1, <4>4 DEF TypeOK
        <5>2. Tail(cmds[p])[i - Len(replies'[p])] = cmds[p][i - Len(replies[p])]
          <6>1. cmds[p] \in Seq(Command)
            BY DEF TypeOK
          <6> QED BY <2>3, <5>1, <6>1, TailAt
        <5> QED BY <2>5, <3>2, <5>1, <5>2 DEF Asked
      <4> QED BY <4>1, <4>2, <4>3, <4>4
    <3> QED BY <3>1, <3>2
  <2>7. WaitersInOrder'
    <3> SUFFICES ASSUME Serving, NEW q \in Perfs, skew[q] = 0,
                        NEW i \in 1..Len(waiting[q]), waiting[q][i] \notin stale
                 PROVE  addr[Asked(q, i)'] = waiting[q][i]
      BY <2>3 DEF WaitersInOrder, Serving
    <3>1. i \in 1 .. Len(replies[q]) + Len(cmds[q])
      BY AskedType
    <3> QED BY <2>6, <3>1 DEF Order, WaitersInOrder
  <2> QED BY <2>3, <2>7 DEF Order, WaitersKeepTheirPerf, Serving
<1>5. ASSUME NEW p \in Perfs, PerfGivesUp(p)
      PROVE  Order'
  <2>1. skew'[p] # 0
    BY <1>5 DEF PerfGivesUp, TypeOK
  <2>2. \A q \in Perfs \ {p} : cmds'[q] = cmds[q] /\ skew'[q] = skew[q]
    BY <1>5 DEF PerfGivesUp, TypeOK
  <2>3. UNCHANGED <<srv, fsm, addr, replies, waiting, sending, stale>>
    BY <1>5 DEF PerfGivesUp
  <2>4. WaitersKeepTheirPerf'
    BY <2>3 DEF Order, WaitersKeepTheirPerf, Serving
  <2>5. WaitersInOrder'
    <3> SUFFICES ASSUME Serving, NEW q \in Perfs, skew'[q] = 0
                 PROVE  \A i \in 1..Len(waiting[q]) : waiting[q][i] \notin stale =>
                          addr[Asked(q, i)'] = waiting[q][i]
      BY <2>3 DEF WaitersInOrder, Serving
    <3>1. q # p /\ skew[q] = 0
      BY <2>1, <2>2
    <3>2. \A i : Asked(q, i)' = Asked(q, i)
      BY <2>2, <2>3, <3>1 DEF Asked
    <3> QED BY <3>1, <3>2 DEF Order, WaitersInOrder
  <2> QED BY <2>3, <2>4, <2>5 DEF Order
<1>6. ASSUME NEW p \in Perfs, HandleAnswer(p)
      PROVE  Order'
  <2>1. PICK c \in Clients :
          IF fsm[c] = "have_perf"
          THEN UNCHANGED <<msg, fsm, addr, stale>>
          ELSE Leave(c)
    BY <1>6 DEF HandleAnswer, Reject
  <2>2. Kept
    BY <2>1, SameClients, MachineKeeps DEF Machine
  <2> QED BY <1>6, <2>2, PopOrder DEF HandleAnswer, Pending
<1>7. ASSUME NEW p \in Perfs, HandleDangling(p)
      PROVE  Order'
  BY <1>7, SameClients, PopOrder DEF HandleDangling, Pending
<1>8. ASSUME NEW p \in Perfs,
             HandleFailure(p) \/ DestroyPerf(p) \/ PerfAborts(p)
      PROVE  Order'
  BY <1>8, EndedOrder
     DEF HandleFailure, EndLoop, DestroyPerf, PerfAborts, Serving
<1>9. CASE HandleTerm \/ Stop
  BY <1>9, EndedOrder DEF HandleTerm, EndLoop, Stop, Serving
<1>10. CASE UNCHANGED vars
  BY <1>10 DEF vars, Order, WaitersKeepTheirPerf, WaitersInOrder, Serving, Asked
<1> QED BY <1>1, <1>2, <1>3, <1>4, <1>5, <1>6, <1>7, <1>8, <1>9, <1>10
        DEF Next, Ended

(* The empty lists are in balance and in order. *)
LEMMA OrderInit == Init => Counts /\ Order
  BY DEF Init, Counts, WaiterForEveryAnswer, Outstanding, Unused,
         Order, WaitersKeepTheirPerf, WaitersInOrder

(* A client that waits for a perf stays in have_perf until it is freed. *)
THEOREM WaitersAreKept == Spec => []WaitersKeepTheirPerf
<1>1. Order => WaitersKeepTheirPerf
  BY DEF Order
<1> QED BY <1>1, OrderInit, TypeInit, TypeStep, CountsStep, OrderStep, PTL
        DEF Spec

(* The order of a waiting list is the order of the unanswered commands. *)
THEOREM WaitingListIsFifo == Spec => []WaitersInOrder
<1>1. Order => WaitersInOrder
  BY DEF Order
<1> QED BY <1>1, OrderInit, TypeInit, TypeStep, CountsStep, OrderStep, PTL
        DEF Spec

(* Only s_server_handle_perf takes an answer out of a pipe. *)
LEMMA WhoPops ==
  ASSUME TypeOK, [Next]_vars, NEW p \in Perfs, replies[p] # <<>>,
         replies'[p] = Tail(replies[p]), srv' = "running"
  PROVE  HandleAnswer(p) \/ HandleDangling(p)
<1>1. Tail(replies[p]) # replies[p]
  BY DEF TypeOK
<1>2. replies' # replies
  BY <1>1
<1>3. ASSUME NEW c \in Clients, NEW m \in Requests
      PROVE  ~HandleProtocol(c, m)
  BY <1>2 DEF HandleProtocol, Hello, Ping, Goodbye, CreatePerf, LookupPerf,
              CommandPerf, FailRequest, RejectRequest, pipes
<1>4. ASSUME NEW c \in Clients
      PROVE  ~HandleMalformed(c) /\ ~HandleTicket(c)
  BY <1>2 DEF HandleMalformed, HandleTicket, pipes
<1>5. ASSUME NEW q \in Perfs
      PROVE  ~PerfAnswers(q)
  <2> SUFFICES ASSUME PerfAnswers(q) PROVE FALSE
    OBVIOUS
  <2>1. PICK r : replies' = [replies EXCEPT ![q] = Append(@, r)]
    BY DEF PerfAnswers
  <2>2. CASE q # p
    BY <1>1, <2>1, <2>2 DEF TypeOK
  <2>3. CASE q = p
    <3>1. Len(replies'[p]) = Len(replies[p]) + 1
      BY <2>1, <2>3 DEF TypeOK
    <3>2. Len(replies'[p]) = Len(replies[p]) - 1
      BY DEF TypeOK
    <3> QED BY <3>1, <3>2 DEF TypeOK
  <2> QED BY <2>2, <2>3
<1>6. ASSUME NEW q \in Perfs \ {p}
      PROVE  ~HandleAnswer(q) /\ ~HandleDangling(q)
  BY <1>1 DEF HandleAnswer, HandleDangling, PopAnswer, TypeOK
<1>7. ASSUME NEW q \in Perfs
      PROVE  /\ ~HandleFailure(q) /\ ~DestroyPerf(q)
             /\ ~PerfGivesUp(q) /\ ~PerfAborts(q)
  BY <1>2 DEF HandleFailure, EndLoop, DestroyPerf, PerfGivesUp, PerfAborts
<1>8. ~SendReturns /\ ~HandleTerm /\ ~Stop /\ ~(UNCHANGED vars)
  BY <1>2 DEF SendReturns, HandleTerm, Stop, vars, pipes
<1> QED BY <1>3, <1>4, <1>5, <1>6, <1>7, <1>8 DEF Next, Ended

(* The step that reads an answer sends it to the peer that asked. *)
LEMMA AskerStep ==
  ASSUME TypeOK, Objects, Counts, Order, [Next]_vars, NEW p \in Perfs
  PROVE  AskerIsAnswered(p)
<1> SUFFICES ASSUME replies[p] # <<>>, replies'[p] = Tail(replies[p]),
                    srv' = "running", skew[p] = 0,
                    Head(waiting[p]) \notin stale
             PROVE  reply' = [to |-> Head(replies[p]).by,
                              id |-> ReturnId(Head(replies[p]).kind)]
  <2>1. replies[p] # <<>> => Head(replies[p]).kind \in {"SOCKET", "MEASURE"}
    <3>1. replies[p] # <<>> => Head(replies[p]) \in Answer
      BY DEF TypeOK
    <3> QED BY <3>1 DEF Answer
  <2> QED BY <2>1 DEF AskerIsAnswered, ReturnId
<1>1. (HandleAnswer(p) \/ HandleDangling(p)) /\ Pending(p) /\ Serving
  BY WhoPops DEF HandleAnswer, HandleDangling, Pending, Serving
<1>2. /\ 1 \in 1..Len(waiting[p]) /\ Answered(p) = waiting[p][1]
      /\ Head(replies[p]) = replies[p][1] /\ 1 <= Len(replies[p])
      /\ waiting[p][1] \in Addrs
  BY <1>1 DEF Pending, Answered, TypeOK
<1>3. PICK d \in Clients : addr[d] = Answered(p) /\ fsm[d] = "have_perf"
  BY <1>1, <1>2 DEF Order, WaitersKeepTheirPerf, Answered
<1>4. addr[Asked(p, 1)] = Answered(p) /\ Asked(p, 1) \in Clients
  <2>1. Asked(p, 1) \in Clients
    BY <1>1, <1>2, AskedType
  <2>2. Head(waiting[p]) = waiting[p][1]
    BY <1>2 DEF Answered
  <2>3. addr[Asked(p, 1)] = waiting[p][1]
    BY <1>1, <1>2, <2>2 DEF Order, WaitersInOrder
  <2> QED BY <1>2, <2>1, <2>3
<1>5. Asked(p, 1) = Head(replies[p]).by
  BY <1>2 DEF Asked
<1>6. PICK c \in Clients :
        /\ addr[c] = Answered(p)
        /\ fsm[c] = "have_perf" =>
             Send(c, ReturnId(Head(replies[p]).kind))
  BY <1>1, <1>3 DEF HandleAnswer, HandleDangling
<1>7. Answered(p) # NoAddr
  BY <1>2
<1>8. c = d /\ c = Asked(p, 1)
  BY <1>3, <1>4, <1>6, <1>7 DEF Objects
<1> QED BY <1>3, <1>5, <1>6, <1>8 DEF Send

(* An answer goes to the peer that asked for it, under the two conditions of
   the property: nothing went unanswered before, and nobody was freed. *)
THEOREM AnswersAreRouted == Spec => AnswerGoesToAsker
<1>1. TypeOK /\ Objects /\ Counts /\ Order /\ [Next]_vars
        => [\A p \in Perfs : AskerIsAnswered(p)]_vars
  BY AskerStep
<1> QED BY <1>1, OrderInit, TypeInit, TypeStep, CountsStep, OrderStep, PTL
        DEF Spec, AnswerGoesToAsker
-----------------------------------------------------------------------------
(* The server and the perf actors' pipes *)

(* PerfPipe sees the kind of a command, and of an answer. *)
KindOf(x) == x.kind

Seen == INSTANCE PipeImages WITH Of <- KindOf

(* An actor that died at birth has no command in its pipe. *)
DeadHasNone == \A p \in Perfs : perf[p] = "dead" => cmds[p] = <<>>

(* What a step does to the two pipes of p, the others' left alone. *)
Pushed(p) == \E cmd \in Command :
  /\ cmds' = [cmds EXCEPT ![p] = Append(@, cmd)]
  /\ replies' = replies

Served(p) == \E r \in Answer :
  /\ cmds[p] # <<>> /\ r.kind = Head(cmds[p]).kind
  /\ cmds' = [cmds EXCEPT ![p] = Tail(@)]
  /\ replies' = [replies EXCEPT ![p] = Append(@, r)]

GivenUp(p) ==
  /\ cmds[p] # <<>> /\ Head(cmds[p]).kind = "MEASURE"
  /\ cmds' = [cmds EXCEPT ![p] = Tail(@)]
  /\ replies' = replies

Popped(p) ==
  /\ replies[p] # <<>>
  /\ replies' = [replies EXCEPT ![p] = Tail(@)]
  /\ cmds' = cmds

Emptied(p) ==
  /\ cmds[p] = <<>>
  /\ replies' = [replies EXCEPT ![p] = <<>>]
  /\ cmds' = cmds

PipeUse(p) == Pushed(p) \/ Served(p) \/ GivenUp(p) \/ Popped(p) \/ Emptied(p)

(* Every step uses the pipes of one perf, or none. *)
LEMMA PipeUseStep ==
  ASSUME TypeOK, Objects, Counts, DeadHasNone, [Next]_vars
  PROVE  /\ (cmds' = cmds /\ replies' = replies) \/ \E p \in Perfs : PipeUse(p)
         /\ DeadHasNone'
<1>a. ASSUME cmds' = cmds, \A p \in Perfs : perf'[p] = "dead" => perf[p] = "dead"
      PROVE  DeadHasNone'
  BY <1>a DEF DeadHasNone
<1>b. ASSUME NEW q \in Perfs, cmds[q] # <<>> \/ perf[q] = "live", perf' = perf,
             \A p \in Perfs \ {q} : cmds'[p] = cmds[p]
      PROVE  DeadHasNone'
  BY <1>b DEF DeadHasNone
<1>1. ASSUME NEW c \in Clients, NEW m \in Requests, HandleProtocol(c, m)
      PROVE  /\ (cmds' = cmds /\ replies' = replies) \/ \E p \in Perfs : PipeUse(p)
             /\ DeadHasNone'
  <2>1. CASE Chat(c, m)
    <3>1. cmds' = cmds /\ replies' = replies /\ perf' = perf
      BY <2>1, ChatIsMachine DEF pipes
    <3> QED BY <3>1, <1>a
  <2>2. CASE CreatePerf(c, m)
    <3>1. cmds' = cmds /\ replies' = replies /\ srv = "running"
      BY <1>1, <2>2 DEF CreatePerf, pipes, HandleProtocol
    <3>2. ASSUME NEW p \in Perfs, perf'[p] = "dead"
          PROVE  cmds[p] = <<>>
      BY <2>2, <3>1, <3>2
         DEF CreatePerf, Counts, Serving, Unused, DeadHasNone, TypeOK
    <3> QED BY <3>1, <3>2 DEF DeadHasNone
  <2>3. CASE CommandPerf(c, m)
    <3> DEFINE p == m.ident
               cmd == [kind |-> m.type, by |-> c,
                       msgsize |-> IF m.type = "MEASURE" THEN m.msgsize
                                   ELSE NoSize]
    <3>1. p \in Perfs
      BY <2>3 DEF CommandPerf, Found
    <3>2. cmd \in Command
      BY <2>3 DEF CommandPerf, Command, Requests, Plain, Creates, Named,
                  Sockets, Measures, AnySize
    <3>3. perf' = perf /\ replies' = replies
      BY <2>3 DEF CommandPerf
    <3> HIDE DEF cmd, p
    <3>4. CASE Writable(p)
      <4>1. cmds' = [cmds EXCEPT ![p] = Append(@, cmd)]
        BY <2>3, <3>4 DEF CommandPerf, cmd, p
      <4>2. PipeUse(p)
        BY <3>2, <3>3, <4>1 DEF PipeUse, Pushed
      <4>3. \A q \in Perfs \ {p} : cmds'[q] = cmds[q]
        BY <4>1 DEF TypeOK
      <4>4. perf[p] = "live"
        BY <3>4 DEF Writable
      <4> QED BY <3>1, <3>3, <4>2, <4>3, <4>4, <1>b
    <3>5. CASE ~Writable(p)
      <4>1. cmds' = cmds
        BY <2>3, <3>5 DEF CommandPerf, p
      <4> QED BY <3>3, <4>1, <1>a
    <3> QED BY <3>4, <3>5
  <2> QED BY <1>1, <2>1, <2>2, <2>3 DEF HandleProtocol, Chat
<1>2. ASSUME NEW c \in Clients, HandleMalformed(c) \/ HandleTicket(c)
      PROVE  cmds' = cmds /\ replies' = replies /\ DeadHasNone'
  BY <1>2, <1>a DEF HandleMalformed, HandleTicket, pipes
<1>3. CASE SendReturns
  <2> DEFINE p == sending.to
  <2>1. sending \in Blocked
    BY <1>3 DEF SendReturns, TypeOK
  <2>2. p \in Perfs /\ sending.cmd \in Command
    BY <2>1 DEF Blocked
  <2>3. /\ cmds' = [cmds EXCEPT ![p] = Append(@, sending.cmd)]
        /\ replies' = replies /\ perf' = perf /\ perf[p] = "live"
    BY <1>3 DEF SendReturns, Writable
  <2> HIDE DEF p
  <2>4. PipeUse(p)
    BY <2>2, <2>3 DEF PipeUse, Pushed
  <2>5. \A q \in Perfs \ {p} : cmds'[q] = cmds[q]
    BY <2>3 DEF TypeOK
  <2> QED BY <2>2, <2>3, <2>4, <2>5, <1>b
<1>4. ASSUME NEW p \in Perfs, PerfAnswers(p)
      PROVE  PipeUse(p) /\ DeadHasNone'
  <2>1. PICK ok \in BOOLEAN :
          replies' = [replies EXCEPT ![p] =
             Append(@, [kind |-> Head(cmds[p]).kind, by |-> Head(cmds[p]).by,
                        msgsize |-> Head(cmds[p]).msgsize, ok |-> ok])]
    BY <1>4 DEF PerfAnswers
  <2> DEFINE r == [kind |-> Head(cmds[p]).kind, by |-> Head(cmds[p]).by,
                   msgsize |-> Head(cmds[p]).msgsize, ok |-> ok]
  <2>2. /\ cmds' = [cmds EXCEPT ![p] = Tail(@)] /\ cmds[p] # <<>>
        /\ perf' = perf
    BY <1>4 DEF PerfAnswers
  <2>3. r.kind = Head(cmds[p]).kind /\ r \in Answer
    <3>1. Head(cmds[p]) \in Command
      BY <2>2 DEF TypeOK
    <3> QED BY <3>1 DEF Command, Answer
  <2>4. replies' = [replies EXCEPT ![p] = Append(@, r)]
    BY <2>1
  <2> HIDE DEF r
  <2>5. PipeUse(p)
    BY <2>2, <2>3, <2>4 DEF PipeUse, Served
  <2>6. \A q \in Perfs \ {p} : cmds'[q] = cmds[q]
    BY <2>2 DEF TypeOK
  <2> QED BY <2>2, <2>5, <2>6, <1>b
<1>5. ASSUME NEW p \in Perfs, PerfGivesUp(p)
      PROVE  PipeUse(p) /\ DeadHasNone'
  <2>1. /\ cmds' = [cmds EXCEPT ![p] = Tail(@)] /\ cmds[p] # <<>>
        /\ Head(cmds[p]).kind = "MEASURE" /\ perf' = perf /\ replies' = replies
    BY <1>5 DEF PerfGivesUp
  <2>2. \A q \in Perfs \ {p} : cmds'[q] = cmds[q]
    BY <2>1 DEF TypeOK
  <2> QED BY <2>1, <2>2, <1>b DEF PipeUse, GivenUp
<1>6. ASSUME NEW p \in Perfs,
             HandleFailure(p) \/ HandleAnswer(p) \/ HandleDangling(p)
      PROVE  PipeUse(p) /\ DeadHasNone'
  <2>1. /\ replies[p] # <<>> /\ replies' = [replies EXCEPT ![p] = Tail(@)]
        /\ cmds' = cmds /\ perf' = perf
    BY <1>6 DEF HandleFailure, HandleAnswer, HandleDangling, Pending, PopAnswer,
                EndLoop
  <2> QED BY <2>1, <1>a DEF PipeUse, Popped
<1>7. ASSUME NEW p \in Perfs, DestroyPerf(p)
      PROVE  PipeUse(p) /\ DeadHasNone'
  <2>1. /\ cmds[p] = <<>> /\ replies' = [replies EXCEPT ![p] = <<>>]
        /\ cmds' = cmds
    BY <1>7 DEF DestroyPerf, TermReached, DeadHasNone
  <2>2. \A q \in Perfs : perf'[q] = "dead" => perf[q] = "dead"
    BY <1>7 DEF DestroyPerf, TypeOK
  <2> QED BY <2>1, <2>2, <1>a DEF PipeUse, Emptied
<1>8. ASSUME HandleTerm \/ Stop \/ (\E p \in Perfs : PerfAborts(p))
             \/ UNCHANGED vars
      PROVE  cmds' = cmds /\ replies' = replies /\ DeadHasNone'
  <2>1. cmds' = cmds /\ replies' = replies /\ perf' = perf
    BY <1>8 DEF HandleTerm, EndLoop, Stop, PerfAborts, vars, pipes
  <2> QED BY <2>1, <1>a
<1> QED BY <1>1, <1>2, <1>3, <1>4, <1>5, <1>6, <1>7, <1>8 DEF Next, Ended

(* The two pipes the server shares with a perf, as PerfPipe sees them. *)
Queue == [p \in Perfs |-> Seen!Image(cmds[p])]
Out == [p \in Perfs |-> Seen!Image(replies[p])]

(* Writing to a pipe and reading it do to the kinds what they do to the pipe. *)
LEMMA KindsOf ==
  /\ \A s \in Seq(Command) \cup Seq(Answer) : s # <<>> =>
       /\ Seen!Image(s) # <<>>
       /\ Head(Seen!Image(s)) = Head(s).kind
       /\ Seen!Image(Tail(s)) = Tail(Seen!Image(s))
  /\ \A s \in Seq(Command), x \in Command :
       Seen!Image(Append(s, x)) = Append(Seen!Image(s), x.kind)
  /\ \A s \in Seq(Answer), x \in Answer :
       Seen!Image(Append(s, x)) = Append(Seen!Image(s), x.kind)
<1>1. /\ \A x \in Command : KindOf(x) \in {"SOCKET", "MEASURE"}
      /\ \A x \in Answer : KindOf(x) \in {"SOCKET", "MEASURE"}
  BY DEF KindOf, Command, Answer
<1>2. ASSUME NEW s \in Seq(Command)
      PROVE  /\ s # <<>> => /\ Seen!Image(s) # <<>>
                            /\ Head(Seen!Image(s)) = Head(s).kind
                            /\ Seen!Image(Tail(s)) = Tail(Seen!Image(s))
             /\ \A x \in Command :
                  Seen!Image(Append(s, x)) = Append(Seen!Image(s), x.kind)
  BY <1>1, Seen!ImageOf DEF KindOf
<1>3. ASSUME NEW s \in Seq(Answer)
      PROVE  /\ s # <<>> => /\ Seen!Image(s) # <<>>
                            /\ Head(Seen!Image(s)) = Head(s).kind
                            /\ Seen!Image(Tail(s)) = Tail(Seen!Image(s))
             /\ \A x \in Answer :
                  Seen!Image(Append(s, x)) = Append(Seen!Image(s), x.kind)
  BY <1>1, Seen!ImageOf DEF KindOf
<1> QED BY <1>2, <1>3

(* What PerfPipe sees of a command written, and of one taken. *)
LEMMA QueueSteps ==
  ASSUME TypeOK, NEW p \in Perfs
  PROVE  /\ \A cmd \in Command : cmds' = [cmds EXCEPT ![p] = Append(@, cmd)] =>
              Queue' = [Queue EXCEPT ![p] = Append(@, cmd.kind)]
         /\ cmds[p] # <<>> =>
              /\ Queue[p] # <<>> /\ Head(Queue[p]) = Head(cmds[p]).kind
              /\ cmds' = [cmds EXCEPT ![p] = Tail(@)] =>
                   Queue' = [Queue EXCEPT ![p] = Tail(@)]
         /\ cmds[p] = <<>> => Queue[p] = <<>>
         /\ cmds' = cmds => Queue' = Queue
<1>1. cmds[p] \in Seq(Command) /\ cmds \in [Perfs -> Seq(Command)]
  BY DEF TypeOK
<1>2. \A cmd \in Command :
        Seen!Image(Append(cmds[p], cmd)) = Append(Seen!Image(cmds[p]), cmd.kind)
  BY <1>1, KindsOf
<1>3. cmds[p] # <<>> => /\ Seen!Image(cmds[p]) # <<>>
                        /\ Head(Seen!Image(cmds[p])) = Head(cmds[p]).kind
                        /\ Seen!Image(Tail(cmds[p])) = Tail(Seen!Image(cmds[p]))
  BY <1>1, KindsOf
<1>4. Seen!Image(<<>>) = <<>>
  BY DEF Seen!Image
<1>5. ASSUME NEW s, cmds' = [cmds EXCEPT ![p] = s]
      PROVE  Queue' = [Queue EXCEPT ![p] = Seen!Image(s)]
  <2>1. \A q \in Perfs : cmds'[q] = IF q = p THEN s ELSE cmds[q]
    BY <1>1, <1>5
  <2> QED BY <2>1 DEF Queue
<1>6. Queue[p] = Seen!Image(cmds[p])
  BY DEF Queue
<1>7. ASSUME NEW cmd \in Command, cmds' = [cmds EXCEPT ![p] = Append(@, cmd)]
      PROVE  Queue' = [Queue EXCEPT ![p] = Append(@, cmd.kind)]
  <2>1. Queue' = [Queue EXCEPT ![p] = Seen!Image(Append(cmds[p], cmd))]
    BY <1>5, <1>7
  <2> QED BY <1>2, <1>6, <2>1
<1>8. ASSUME cmds[p] # <<>>, cmds' = [cmds EXCEPT ![p] = Tail(@)]
      PROVE  Queue' = [Queue EXCEPT ![p] = Tail(@)]
  <2>1. Queue' = [Queue EXCEPT ![p] = Seen!Image(Tail(cmds[p]))]
    BY <1>5, <1>8
  <2> QED BY <1>3, <1>6, <1>8, <2>1
<1>9. cmds' = cmds => Queue' = Queue
  BY DEF Queue
<1> QED BY <1>3, <1>4, <1>6, <1>7, <1>8, <1>9

(* What PerfPipe sees of an answer written, one read, and of a closed pipe. *)
LEMMA OutSteps ==
  ASSUME TypeOK, NEW p \in Perfs
  PROVE  /\ \A r \in Answer : replies' = [replies EXCEPT ![p] = Append(@, r)] =>
              Out' = [Out EXCEPT ![p] = Append(@, r.kind)]
         /\ replies[p] # <<>> =>
              /\ Out[p] # <<>>
              /\ replies' = [replies EXCEPT ![p] = Tail(@)] =>
                   Out' = [Out EXCEPT ![p] = Tail(@)]
         /\ replies' = [replies EXCEPT ![p] = <<>>] =>
              Out' = [Out EXCEPT ![p] = <<>>]
         /\ replies' = replies => Out' = Out
<1>1. replies[p] \in Seq(Answer) /\ replies \in [Perfs -> Seq(Answer)]
  BY DEF TypeOK
<1>2. \A r \in Answer :
        Seen!Image(Append(replies[p], r)) = Append(Seen!Image(replies[p]), r.kind)
  BY <1>1, KindsOf
<1>3. replies[p] # <<>> =>
        /\ Seen!Image(replies[p]) # <<>>
        /\ Seen!Image(Tail(replies[p])) = Tail(Seen!Image(replies[p]))
  BY <1>1, KindsOf
<1>4. Seen!Image(<<>>) = <<>>
  BY DEF Seen!Image
<1>5. ASSUME NEW s, replies' = [replies EXCEPT ![p] = s]
      PROVE  Out' = [Out EXCEPT ![p] = Seen!Image(s)]
  <2>1. \A q \in Perfs : replies'[q] = IF q = p THEN s ELSE replies[q]
    BY <1>1, <1>5
  <2> QED BY <2>1 DEF Out
<1>6. Out[p] = Seen!Image(replies[p])
  BY DEF Out
<1>7. ASSUME NEW r \in Answer, replies' = [replies EXCEPT ![p] = Append(@, r)]
      PROVE  Out' = [Out EXCEPT ![p] = Append(@, r.kind)]
  <2>1. Out' = [Out EXCEPT ![p] = Seen!Image(Append(replies[p], r))]
    BY <1>5, <1>7
  <2> QED BY <1>2, <1>6, <2>1
<1>8. ASSUME replies[p] # <<>>, replies' = [replies EXCEPT ![p] = Tail(@)]
      PROVE  Out' = [Out EXCEPT ![p] = Tail(@)]
  <2>1. Out' = [Out EXCEPT ![p] = Seen!Image(Tail(replies[p]))]
    BY <1>5, <1>8
  <2> QED BY <1>3, <1>6, <1>8, <2>1
<1>9. replies' = [replies EXCEPT ![p] = <<>>] => Out' = [Out EXCEPT ![p] = <<>>]
  BY <1>4, <1>5
<1>10. replies' = replies => Out' = Out
  BY DEF Out
<1> QED BY <1>3, <1>6, <1>7, <1>8, <1>9, <1>10

(* The actions of PerfPipe, as what they do to what it sees. *)
LEMMA PipeActions ==
  ASSUME NEW p \in Perfs
  PROVE  /\ \A k \in Pipes!Kinds :
              Queue' = [Queue EXCEPT ![p] = Append(@, k)] /\ Out' = Out =>
                Pipes!Submit(p)
         /\ /\ Queue[p] # <<>> /\ Head(Queue[p]) # "NOTE"
            /\ Queue' = [Queue EXCEPT ![p] = Tail(@)]
            /\ Out' = [Out EXCEPT ![p] = Append(@, Head(Queue[p]))]
            => Pipes!Answer(p)
         /\ /\ Queue[p] # <<>> /\ Head(Queue[p]) # "SOCKET"
            /\ Queue' = [Queue EXCEPT ![p] = Tail(@)] /\ Out' = Out
            => Pipes!Skip(p)
         /\ /\ Out[p] # <<>>
            /\ Out' = [Out EXCEPT ![p] = Tail(@)] /\ Queue' = Queue
            => Pipes!Read(p)
         /\ /\ Queue[p] = <<>>
            /\ Out' = [Out EXCEPT ![p] = <<>>] /\ Queue' = Queue
            => Pipes!Close(p)
<1> USE DEF Queue, Out, Seen!Image, KindOf
<1>1. ASSUME NEW k \in Pipes!Kinds,
             Queue' = [Queue EXCEPT ![p] = Append(@, k)], Out' = Out
      PROVE  Pipes!Submit(p)
  BY <1>1, Zenon DEF Pipes!Submit
<1>2. ASSUME Queue[p] # <<>>, Head(Queue[p]) # "NOTE",
             Queue' = [Queue EXCEPT ![p] = Tail(@)],
             Out' = [Out EXCEPT ![p] = Append(@, Head(Queue[p]))]
      PROVE  Pipes!Answer(p)
  BY <1>2, Zenon DEF Pipes!Answer
<1>3. ASSUME Queue[p] # <<>>, Head(Queue[p]) # "SOCKET",
             Queue' = [Queue EXCEPT ![p] = Tail(@)], Out' = Out
      PROVE  Pipes!Skip(p)
  BY <1>3, Zenon DEF Pipes!Skip
<1>4. ASSUME Out[p] # <<>>, Out' = [Out EXCEPT ![p] = Tail(@)], Queue' = Queue
      PROVE  Pipes!Read(p)
  BY <1>4, Zenon DEF Pipes!Read
<1>5. ASSUME Queue[p] = <<>>, Out' = [Out EXCEPT ![p] = <<>>], Queue' = Queue
      PROVE  Pipes!Close(p)
  BY <1>5, Zenon DEF Pipes!Close
<1> HIDE DEF Queue, Out, Seen!Image, KindOf
<1> QED BY <1>1, <1>2, <1>3, <1>4, <1>5

(* Each use of the pipes is an action of PerfPipe. *)
LEMMA PipeUseIsPipe ==
  ASSUME TypeOK, NEW p \in Perfs, PipeUse(p)
  PROVE  Pipes!Next
<1>1. CASE Pushed(p)
  <2>1. PICK cmd \in Command : /\ cmds' = [cmds EXCEPT ![p] = Append(@, cmd)]
                               /\ replies' = replies
    BY <1>1 DEF Pushed
  <2>2. cmd.kind \in Pipes!Kinds
    BY DEF Command, Pipes!Kinds
  <2>3. Queue' = [Queue EXCEPT ![p] = Append(@, cmd.kind)] /\ Out' = Out
    BY <2>1, QueueSteps, OutSteps
  <2>4. Pipes!Submit(p)
    BY <2>2, <2>3, PipeActions
  <2> QED BY <2>4 DEF Pipes!Next
<1>2. CASE Served(p)
  <2>1. PICK r \in Answer :
          /\ cmds[p] # <<>> /\ r.kind = Head(cmds[p]).kind
          /\ cmds' = [cmds EXCEPT ![p] = Tail(@)]
          /\ replies' = [replies EXCEPT ![p] = Append(@, r)]
    BY <1>2 DEF Served
  <2>2. r.kind # "NOTE"
    BY DEF Answer
  <2>3. /\ Queue[p] # <<>> /\ Head(Queue[p]) = r.kind
        /\ Queue' = [Queue EXCEPT ![p] = Tail(@)]
        /\ Out' = [Out EXCEPT ![p] = Append(@, r.kind)]
    BY <2>1, QueueSteps, OutSteps
  <2>4. Out' = [Out EXCEPT ![p] = Append(@, Head(Queue[p]))]
    BY <2>3
  <2>5. Pipes!Answer(p)
    BY <2>2, <2>3, <2>4, PipeActions
  <2> QED BY <2>5 DEF Pipes!Next
<1>3. CASE GivenUp(p)
  <2>1. /\ Queue[p] # <<>> /\ Head(Queue[p]) = "MEASURE"
        /\ Queue' = [Queue EXCEPT ![p] = Tail(@)] /\ Out' = Out
    BY <1>3, QueueSteps, OutSteps DEF GivenUp
  <2>2. Pipes!Skip(p)
    BY <2>1, PipeActions
  <2> QED BY <2>2 DEF Pipes!Next
<1>4. CASE Popped(p)
  <2>1. /\ Out[p] # <<>> /\ Out' = [Out EXCEPT ![p] = Tail(@)]
        /\ Queue' = Queue
    BY <1>4, QueueSteps, OutSteps DEF Popped
  <2>2. Pipes!Read(p)
    BY <2>1, PipeActions
  <2> QED BY <2>2 DEF Pipes!Next
<1>5. CASE Emptied(p)
  <2>1. /\ Queue[p] = <<>> /\ Out' = [Out EXCEPT ![p] = <<>>]
        /\ Queue' = Queue
    BY <1>5, QueueSteps, OutSteps DEF Emptied
  <2>2. Pipes!Close(p)
    BY <2>1, PipeActions
  <2> QED BY <2>2 DEF Pipes!Next
<1> QED BY <1>1, <1>2, <1>3, <1>4, <1>5 DEF PipeUse

(* The server implements PerfPipe: what it does to the pipes of its perfs is
   what PerfActor, which implements it too, does at their other end. *)
THEOREM PipesAreServed == Spec => ServesPipes
<1>1. Init => Pipes!Init /\ DeadHasNone
  BY DEF Init, Pipes!Init, DeadHasNone
<1>2. TypeOK /\ Objects /\ Counts /\ DeadHasNone /\ [Next]_vars =>
        [Pipes!Next]_Pipes!vars /\ DeadHasNone'
  <2> SUFFICES ASSUME TypeOK, Objects, Counts, DeadHasNone, [Next]_vars
               PROVE  [Pipes!Next]_Pipes!vars /\ DeadHasNone'
    OBVIOUS
  <2>1. CASE cmds' = cmds /\ replies' = replies
    BY <2>1, PipeUseStep DEF Pipes!vars
  <2>2. ASSUME NEW p \in Perfs, PipeUse(p)
        PROVE  Pipes!Next
    BY <2>2, PipeUseIsPipe
  <2> QED BY <2>1, <2>2, PipeUseStep
<1> QED BY <1>1, <1>2, OrderInit, TypeInit, TypeStep, CountsStep, PTL
        DEF Spec, ServesPipes, Pipes!Spec
-----------------------------------------------------------------------------
(* The server as each client meets it: the lists of clients and orders *)

(* There are finitely many places in finitely many finite lists. *)
LEMMA PlacesFinite ==
  ASSUME NEW n \in [Perfs -> Nat], NEW S,
         \A x \in S : \E p \in Perfs : \E i \in 1 .. n[p] : x = <<p, i>>
  PROVE  IsFiniteSet(S)
<1> DEFINE f == [p \in Perfs |-> {p} \X (1 .. n[p])]
           T == {f[p] : p \in Perfs}
<1>1. IsFiniteSet(T)
  <2>1. f \in Surjection(Perfs, T)
    BY DEF Surjection
  <2> QED BY <2>1, FS_Surjection, PerfsAreFinite
<1>2. \A t \in T : IsFiniteSet(t)
  <2> SUFFICES ASSUME NEW p \in Perfs PROVE IsFiniteSet({p} \X (1 .. n[p]))
    OBVIOUS
  <2>1. IsFiniteSet({p})
    BY FS_Singleton
  <2>2. IsFiniteSet(1 .. n[p])
    BY FS_Interval
  <2> QED BY <2>1, <2>2, FS_Product
<1>3. IsFiniteSet(UNION T)
  BY <1>1, <1>2, FS_UNION
<1>4. S \subseteq UNION T
  OBVIOUS
<1> QED BY <1>3, <1>4, FS_Subset

(* When place j of the list of p goes, those behind it move up. *)
LEMMA PlaceGone ==
  ASSUME NEW S \in SUBSET (Perfs \X (Nat \ {0})), IsFiniteSet(S),
         NEW T \in SUBSET (Perfs \X (Nat \ {0})),
         NEW p \in Perfs, NEW j \in Nat \ {0},
         \A q \in Perfs \ {p}, i \in Nat \ {0} : <<q, i>> \in T <=> <<q, i>> \in S,
         \A i \in Nat \ {0} :
           <<p, i>> \in T <=> <<p, IF i < j THEN i ELSE i + 1>> \in S
  PROVE  Cardinality(S) = Cardinality(T) + (IF <<p, j>> \in S THEN 1 ELSE 0)
<1> DEFINE R == S \ {<<p, j>>}
           up(x) == IF x[1] = p /\ x[2] >= j THEN <<p, x[2] + 1>> ELSE x
           f == [x \in T |-> up(x)]
<1>1. /\ IsFiniteSet(R) /\ Cardinality(S) \in Nat
      /\ Cardinality(S) = Cardinality(R) + (IF <<p, j>> \in S THEN 1 ELSE 0)
  <2>1. Cardinality(S) \in Nat
    BY FS_CardinalityType
  <2>2. /\ IsFiniteSet(R)
        /\ Cardinality(R) = IF <<p, j>> \in S THEN Cardinality(S) - 1
                            ELSE Cardinality(S)
    BY FS_RemoveElement, Zenon
  <2> HIDE DEF R
  <2> QED BY <2>1, <2>2
<1>2. ASSUME NEW x \in T PROVE up(x) \in R
  <2>1. PICK q \in Perfs, i \in Nat \ {0} : x = <<q, i>>
    OBVIOUS
  <2>2. CASE q = p /\ i >= j
    BY <2>1, <2>2
  <2>3. CASE ~(q = p /\ i >= j)
    BY <2>1, <2>3
  <2> QED BY <2>2, <2>3
<1>3. ASSUME NEW y \in R PROVE \E x \in T : up(x) = y
  <2>1. PICK q \in Perfs, i \in Nat \ {0} : y = <<q, i>>
    OBVIOUS
  <2>2. CASE q = p /\ i > j
    <3>1. /\ i - 1 \in Nat \ {0} /\ ~(i - 1 < j) /\ (i - 1) + 1 = i
      BY <2>2
    <3>2. <<p, i - 1>> \in T
      BY <2>1, <2>2, <3>1
    <3>3. up(<<p, i - 1>>) = <<p, i>>
      BY <2>2, <3>1
    <3> QED BY <2>1, <2>2, <3>2, <3>3
  <2>3. CASE q = p /\ i < j
    BY <2>1, <2>3
  <2>4. CASE q # p
    BY <2>1, <2>4
  <2>5. ~(q = p /\ i = j)
    BY <2>1
  <2> QED BY <2>2, <2>3, <2>4, <2>5
<1>4. ASSUME NEW x \in T, NEW y \in T, up(x) = up(y) PROVE x = y
  <2>1. PICK q \in Perfs, i \in Nat \ {0}, r \in Perfs, k \in Nat \ {0} :
          x = <<q, i>> /\ y = <<r, k>>
    OBVIOUS
  <2>2. q = r
    BY <1>4, <2>1
  <2>3. i = k
    BY <1>4, <2>1, <2>2
  <2> QED BY <2>1, <2>2, <2>3
<1>5. f \in [T -> R] /\ \A x \in T : f[x] = up(x)
  BY <1>2
<1> HIDE DEF f, up, R
<1>6. f \in Injection(T, R) /\ f \in Surjection(T, R)
  <2>1. \A x, y \in T : f[x] = f[y] => x = y
    BY <1>4, <1>5
  <2>2. \A y \in R : \E x \in T : f[x] = y
    BY <1>3, <1>5
  <2> QED BY <1>5, <2>1, <2>2 DEF Injection, Surjection, IsInjective
<1>7. Cardinality(T) = Cardinality(R)
  BY <1>1, <1>6, FS_Injection
<1> QED BY <1>1, <1>7

ServerInv == TypeOK /\ Objects /\ Counts /\ Order

(* zsock_send may be blocked on one command for p. *)
Blocks(p) == IF sending.to = p THEN 1 ELSE 0

(* What is not within the first part of a list is in the second. *)
LEMMA BeyondFirst ==
  ASSUME NEW m \in Nat, NEW n \in Nat, NEW i \in 1 .. m + n
  PROVE  /\ i \in Nat \ {0}
         /\ i <= m => i \in 1 .. m
         /\ ~(i <= m) => i - m \in 1 .. n
  OBVIOUS

(* A list with perhaps one element more. *)
OneOrNone(l, S) == l = <<>> \/ \E e \in S : l = <<e>>

(* It has no or one element. *)
LEMMA OneOrNoneIs ==
  ASSUME NEW S, NEW l, OneOrNone(l, S)
  PROVE  l \in Seq(S) /\ Len(l) \in {0, 1} /\ (Len(l) = 1 => l[1] \in S)
<1>1. CASE l = <<>>
  BY <1>1
<1>2. ASSUME NEW e \in S, l = <<e>> PROVE l \in Seq(S) /\ Len(l) = 1 /\ l[1] = e
  BY <1>2
<1> QED BY <1>1, <1>2 DEF OneOrNone

(* A list followed by it. *)
LEMMA OneMore ==
  ASSUME NEW S, NEW s \in Seq(S), NEW l, OneOrNone(l, S)
  PROVE  /\ s \o l \in Seq(S)
         /\ Len(s \o l) = Len(s) + Len(l)
         /\ \A i \in 1 .. Len(s) + Len(l) :
              (s \o l)[i] = IF i <= Len(s) THEN s[i] ELSE l[1]
<1>0. l \in Seq(S)
  BY OneOrNoneIs
<1>1. Len(l) \in {0, 1} /\ Len(l) \in Nat /\ Len(s) \in Nat
  BY OneOrNoneIs
<1>2. /\ s \o l \in Seq(S)
      /\ Len(s \o l) = Len(s) + Len(l)
      /\ \A i \in 1 .. Len(s) + Len(l) :
           (s \o l)[i] = IF i <= Len(s) THEN s[i] ELSE l[i - Len(s)]
  BY <1>0, ConcatProperties, Zenon
<1>3. ASSUME NEW i \in 1 .. Len(s) + Len(l), ~(i <= Len(s))
      PROVE  i - Len(s) = 1
  <2>1. i - Len(s) \in 1 .. Len(l)
    BY <1>1, <1>3, BeyondFirst
  <2>2. CASE Len(l) = 0
    BY <2>1, <2>2
  <2>3. CASE Len(l) = 1
    BY <2>1, <2>3
  <2> QED BY <1>1, <2>2, <2>3
<1> QED BY <1>2, <1>3

(* t is the list r, then s, then the first of l, if there is one. *)
AllThree(t, r, s, l, S) ==
  /\ t \in Seq(S)
  /\ Len(t) = Len(r) + Len(s) + Len(l)
  /\ \A i \in 1 .. Len(r) + Len(s) + Len(l) : t[i] =
       IF i <= Len(r) THEN r[i]
       ELSE IF i <= Len(r) + Len(s) THEN s[i - Len(r)] ELSE l[1]

(* Two lists followed by one with perhaps one element. *)
LEMMA TwoAndOneMore ==
  ASSUME NEW S, NEW r \in Seq(S), NEW s \in Seq(S), NEW l, OneOrNone(l, S)
  PROVE  AllThree(r \o s \o l, r, s, l, S)
<1> DEFINE front == r \o s
           t == front \o l
<1>1. /\ front \in Seq(S) /\ Len(front) = Len(r) + Len(s)
      /\ \A i \in 1 .. Len(r) + Len(s) : front[i] =
           IF i <= Len(r) THEN r[i] ELSE s[i - Len(r)]
  BY ConcatProperties, Zenon
<1> HIDE DEF front
<1>2. /\ t \in Seq(S) /\ Len(t) = Len(front) + Len(l)
      /\ \A i \in 1 .. Len(front) + Len(l) :
           t[i] = IF i <= Len(front) THEN front[i] ELSE l[1]
  <2>1. front \in Seq(S)
    BY <1>1
  <2> QED BY <2>1, OneMore
<1> HIDE DEF t
<1>3. Len(r) \in Nat /\ Len(s) \in Nat /\ Len(l) \in {0, 1}
  BY OneOrNoneIs
<1>4. ASSUME NEW i \in 1 .. Len(r) + Len(s) + Len(l)
      PROVE  t[i] = IF i <= Len(r) THEN r[i]
                    ELSE IF i <= Len(r) + Len(s) THEN s[i - Len(r)] ELSE l[1]
  <2>1. i \in Nat \ {0} /\ i \in 1 .. Len(front) + Len(l)
    BY <1>1, <1>3
  <2>2. CASE i <= Len(r) + Len(s)
    <3>1. t[i] = front[i] /\ i \in 1 .. Len(r) + Len(s)
      BY <1>1, <1>2, <1>3, <2>1, <2>2
    <3> QED BY <1>1, <2>2, <3>1
  <2>3. CASE ~(i <= Len(r) + Len(s))
    <3>1. ~(i <= Len(r))
      BY <1>3, <2>1, <2>3
    <3>2. t[i] = l[1]
      BY <1>1, <1>2, <2>1, <2>3
    <3> QED BY <2>3, <3>1, <3>2
  <2> QED BY <2>2, <2>3
<1>5. (* t is the list r, then s, then the first of l, if there is one. *)
AllThree(t, r, s, l, S)
  BY <1>1, <1>2, <1>4 DEF AllThree
<1> QED BY <1>5 DEF t, front

(* The lengths of the parts. *)
Joined(p) == Len(waiting[p])
Ready(p) == Len(replies[p])
Queued(p) == Len(cmds[p])

(* The clients of a perf are its waiters, then the one whose command waits to
   be sent; the orders its answers, its commands, then the one to be sent. *)
ListParts(p) ==
  /\ {Joined(p), Ready(p), Queued(p)} \subseteq Nat /\ Blocks(p) \in {0, 1}
  /\ Asking(p) \in Seq(Addrs)
  /\ Len(Asking(p)) = Joined(p) + Blocks(p)
  /\ \A i \in 1 .. Len(Asking(p)) : Asking(p)[i] =
       IF i <= Joined(p) THEN waiting[p][i] ELSE sending.ptr
  /\ Orders(p) \in Seq(Command \cup Answer)
  /\ Len(Orders(p)) = Ready(p) + Queued(p) + Blocks(p)
  /\ \A i \in 1 .. Len(Orders(p)) : Orders(p)[i] =
       IF i <= Ready(p) THEN replies[p][i]
       ELSE IF i <= Ready(p) + Queued(p)
       THEN cmds[p][i - Ready(p)] ELSE sending.cmd

(* The two lists of a perf are made of these parts. *)
LEMMA ListsAre == TypeOK => \A p \in Perfs : ListParts(p)
<1> SUFFICES ASSUME TypeOK, NEW p \in Perfs PROVE ListParts(p)
  BY Zenon
<1> DEFINE S == Command \cup Answer
           ptr == IF sending.to = p THEN <<sending.ptr>> ELSE <<>>
           cmd == IF sending.to = p THEN <<sending.cmd>> ELSE <<>>
<1>1. /\ waiting[p] \in Seq(Addrs) /\ Joined(p) \in Nat
      /\ replies[p] \in Seq(S) /\ Ready(p) \in Nat
      /\ cmds[p] \in Seq(S) /\ Queued(p) \in Nat
  <2>1. /\ waiting[p] \in Seq(Addrs)
        /\ replies[p] \in Seq(S) /\ cmds[p] \in Seq(S)
    BY SeqMonotonic DEF TypeOK
  <2> QED BY <2>1, LenProperties, Zenon DEF Joined, Ready, Queued
<1>2. sending.to = p => sending.ptr \in Addrs /\ sending.cmd \in S
  BY DEF TypeOK, NotBlocked, Blocked
<1>3. OneOrNone(ptr, Addrs) /\ OneOrNone(cmd, S)
  BY <1>2 DEF OneOrNone
<1>4. /\ Len(ptr) = Blocks(p) /\ (Blocks(p) # 0 => ptr[1] = sending.ptr)
      /\ Len(cmd) = Blocks(p) /\ (Blocks(p) # 0 => cmd[1] = sending.cmd)
      /\ Blocks(p) \in {0, 1} /\ Blocks(p) \in Nat
  BY DEF Blocks
<1>5. Asking(p) = waiting[p] \o ptr /\ Orders(p) = replies[p] \o cmds[p] \o cmd
  BY DEF Asking, Orders
<1> HIDE DEF S, ptr, cmd
<1>6. /\ Asking(p) \in Seq(Addrs)
      /\ Len(Asking(p)) = Joined(p) + Blocks(p)
      /\ \A i \in 1 .. Joined(p) + Blocks(p) : Asking(p)[i] =
           IF i <= Joined(p) THEN waiting[p][i] ELSE ptr[1]
  <2>1. /\ waiting[p] \o ptr \in Seq(Addrs)
        /\ Len(waiting[p] \o ptr) = Len(waiting[p]) + Len(ptr)
        /\ \A i \in 1 .. Len(waiting[p]) + Len(ptr) : (waiting[p] \o ptr)[i] =
             IF i <= Len(waiting[p]) THEN waiting[p][i] ELSE ptr[1]
    BY <1>1, <1>3, OneMore
  <2> QED BY <1>4, <1>5, <2>1, Zenon DEF Joined
<1>7. /\ Orders(p) \in Seq(S)
      /\ Len(Orders(p)) = Ready(p) + Queued(p) + Blocks(p)
      /\ \A i \in 1 .. Ready(p) + Queued(p) + Blocks(p) : Orders(p)[i] =
           IF i <= Ready(p) THEN replies[p][i]
           ELSE IF i <= Ready(p) + Queued(p) THEN cmds[p][i - Ready(p)]
           ELSE cmd[1]
  <2> DEFINE t == replies[p] \o cmds[p] \o cmd
  <2>2. replies[p] \in Seq(S) /\ cmds[p] \in Seq(S)
    BY <1>1
  <2>1. (* t is the list r, then s, then the first of l, if there is one. *)
AllThree(t, replies[p], cmds[p], cmd, S)
    BY <1>3, <2>2, TwoAndOneMore
  <2> QED BY <1>4, <1>5, <2>1, Zenon DEF Ready, Queued, AllThree
<1>8. ASSUME NEW i \in 1 .. Joined(p) + Blocks(p), ~(i <= Joined(p))
      PROVE  Blocks(p) # 0
  BY <1>1, <1>4, <1>8
<1>9. ASSUME NEW i \in 1 .. Ready(p) + Queued(p) + Blocks(p),
             ~(i <= Ready(p) + Queued(p))
      PROVE  Blocks(p) # 0
  BY <1>1, <1>4, <1>9
<1>10. \A i \in 1 .. Len(Asking(p)) : Asking(p)[i] =
         IF i <= Joined(p) THEN waiting[p][i] ELSE sending.ptr
  BY <1>4, <1>6, <1>8
<1>11. \A i \in 1 .. Len(Orders(p)) : Orders(p)[i] =
         IF i <= Ready(p) THEN replies[p][i]
         ELSE IF i <= Ready(p) + Queued(p)
         THEN cmds[p][i - Ready(p)] ELSE sending.cmd
  BY <1>4, <1>7, <1>9
<1> QED BY <1>1, <1>4, <1>6, <1>7, <1>10, <1>11 DEF S, ListParts

(* Of every list's clients skew many are too many. *)
LEMMA ListsBalance ==
  ServerInv /\ Serving => \A p \in Perfs :
    Len(Asking(p)) = Len(Orders(p)) + skew[p]
<1> SUFFICES ASSUME ServerInv, Serving, NEW p \in Perfs
             PROVE  Len(Asking(p)) = Len(Orders(p)) + skew[p]
  OBVIOUS
<1>1. /\ Len(Asking(p)) = Joined(p) + Blocks(p)
      /\ Len(Orders(p)) = Ready(p) + Queued(p) + Blocks(p)
      /\ {Joined(p), Ready(p), Queued(p), Blocks(p), skew[p]} \subseteq Nat
  <2>1. ListParts(p)
    BY ListsAre DEF ServerInv
  <2>2. skew[p] \in Nat /\ Blocks(p) \in Nat
    BY DEF ServerInv, TypeOK, Blocks
  <2> QED BY <2>1, <2>2 DEF ListParts
<1>2. Balanced(p)
  <2>1. CASE perf[p] = "none"
    <3>1. Unused(p)
      BY <2>1 DEF ServerInv, Counts
    <3> QED BY <3>1 DEF Unused, Balanced
  <2>2. CASE perf[p] # "none"
    BY <2>2, BalanceIs DEF ServerInv, Counts
  <2> QED BY <2>1, <2>2
<1>3. Joined(p) = Ready(p) + Queued(p) + skew[p]
  BY <1>2, Zenon DEF Balanced, Joined, Ready, Queued
<1> QED BY <1>1, <1>3

(* A place in a list is awaited by who stands there. *)
Place(c, kind, p, i) ==
  i \in DOMAIN Orders(p) /\ Orders(p)[i].kind = kind /\ Asking(p)[i] = addr[c]

(* The pairs of Awaited are the places a client waits at, in both states. *)
LEMMA AwaitedIs ==
  ASSUME NEW c, NEW kind
  PROVE  /\ \A x : x \in Awaited(c, kind) <=>
              \E p \in Perfs : \E i : x = <<p, i>> /\ Place(c, kind, p, i)
         /\ \A x : x \in Awaited(c, kind)' <=>
              \E p \in Perfs : \E i : x = <<p, i>> /\ Place(c, kind, p, i)'
  BY DEF Awaited, Place

Kinds == {"SOCKET", "MEASURE"}

AwaitedWell(c, kind) ==
  /\ IsFiniteSet(Awaited(c, kind))
  /\ Awaited(c, kind) \in SUBSET (Perfs \X (Nat \ {0}))
  /\ \A p \in Perfs, i \in Nat \ {0} :
       <<p, i>> \in Awaited(c, kind) <=> Place(c, kind, p, i)
  /\ Cardinality(Awaited(c, kind)) \in Nat

(* There are finitely many of them, and they can be counted. *)
LEMMA AwaitedPairs ==
  TypeOK => \A c \in Clients, kind \in Kinds : AwaitedWell(c, kind)
<1> SUFFICES ASSUME TypeOK, NEW c \in Clients, NEW kind \in Kinds
             PROVE  AwaitedWell(c, kind)
  OBVIOUS
<1> DEFINE n == [p \in Perfs |-> Len(Orders(p))]
<1>1. \A p \in Perfs : n[p] \in Nat /\ DOMAIN Orders(p) = 1 .. n[p]
  BY ListsAre, LenProperties DEF ListParts
<1>2. n \in [Perfs -> Nat]
  BY <1>1
<1> HIDE DEF n
<1>3. \A x \in Awaited(c, kind) : \E p \in Perfs : \E i \in 1 .. n[p] : x = <<p, i>>
  BY <1>1, AwaitedIs DEF Place
<1>4. IsFiniteSet(Awaited(c, kind))
  BY <1>2, <1>3, PlacesFinite
<1>5. Awaited(c, kind) \in SUBSET (Perfs \X (Nat \ {0}))
  BY <1>1, <1>3
<1> QED BY <1>4, <1>5, AwaitedIs, FS_CardinalityType DEF AwaitedWell

(* What a step does to the list of p: nothing, *)
SameList(p) ==
  /\ Len(Asking(p))' = Len(Asking(p)) /\ Len(Orders(p))' = Len(Orders(p))
  /\ \A i \in 1 .. Len(Asking(p)) : Asking(p)[i]' = Asking(p)[i]
  /\ \A i \in 1 .. Len(Orders(p)) : Orders(p)[i].kind' = Orders(p)[i].kind

(* a command of the given kind and its client come in at the end, *)
GrownList(p, a, kind) ==
  /\ Len(Asking(p))' = Len(Asking(p)) + 1
  /\ \A i \in 1 .. Len(Asking(p)) : Asking(p)[i]' = Asking(p)[i]
  /\ Asking(p)'[Len(Asking(p)) + 1] = a
  /\ Len(Orders(p))' = Len(Orders(p)) + 1
  /\ \A i \in 1 .. Len(Orders(p)) : Orders(p)[i].kind' = Orders(p)[i].kind
  /\ Orders(p)'[Len(Orders(p)) + 1].kind = kind

(* the first command has been answered and its client popped, *)
PoppedList(p) ==
  /\ Len(Asking(p))' = Len(Asking(p)) - 1 /\ Len(Orders(p))' = Len(Orders(p)) - 1
  /\ \A i \in 1 .. Len(Asking(p)) - 1 : Asking(p)[i]' = Asking(p)[i + 1]
  /\ \A i \in 1 .. Len(Orders(p)) - 1 :
       Orders(p)[i].kind' = Orders(p)[i + 1].kind

(* or the j-th command is dropped and its client stays. *)
SkippedList(p, j) ==
  /\ Len(Asking(p))' = Len(Asking(p)) /\ Len(Orders(p))' = Len(Orders(p)) - 1
  /\ \A i \in 1 .. Len(Asking(p)) : Asking(p)[i]' = Asking(p)[i]
  /\ \A i \in 1 .. Len(Orders(p)) - 1 : Orders(p)[i].kind' =
       Orders(p)[IF i < j THEN i ELSE i + 1].kind

(* The lengths and the domains of the lists while the server serves. *)
Sized(p) ==
  /\ Len(Asking(p)) \in Nat /\ Len(Orders(p)) \in Nat /\ skew[p] \in Nat
  /\ DOMAIN Orders(p) = 1 .. Len(Orders(p))
  /\ DOMAIN Asking(p) = 1 .. Len(Asking(p))
  /\ Len(Asking(p)) = Len(Orders(p)) + skew[p]
  /\ \A i \in 1 .. Len(Orders(p)) : i \in 1 .. Len(Asking(p))

(* There is a client for every order, and skew many more. *)
LEMMA ListSizes == ServerInv /\ Serving => \A p \in Perfs : Sized(p)
<1> SUFFICES ASSUME ServerInv, Serving, NEW p \in Perfs PROVE Sized(p)
  BY Zenon
<1>1. Asking(p) \in Seq(Addrs) /\ Orders(p) \in Seq(Command \cup Answer)
  BY ListsAre DEF ServerInv, ListParts
<1>2. /\ Len(Asking(p)) \in Nat /\ DOMAIN Asking(p) = 1 .. Len(Asking(p))
      /\ Len(Orders(p)) \in Nat /\ DOMAIN Orders(p) = 1 .. Len(Orders(p))
  BY <1>1, LenProperties, Zenon
<1>3. Len(Asking(p)) = Len(Orders(p)) + skew[p] /\ skew[p] \in Nat
  BY ListsBalance DEF ServerInv, TypeOK
<1> QED BY <1>2, <1>3 DEF Sized

(* A step within the life of the server. *)
Serves == ServerInv /\ ServerInv' /\ Serving /\ Serving'

(* ListSizes, of both states of such a step. *)
LEMMA ListSizesBoth == Serves => \A p \in Perfs : Sized(p) /\ Sized(p)'
<1> DEFINE All == \A p \in Perfs : Sized(p)
<1>1. ServerInv /\ Serving => All
  BY ListSizes
<1>2. (ServerInv /\ Serving => All)'
  BY <1>1, PTL
<1> QED BY <1>1, <1>2 DEF Serves

(* The client's own object neither moves nor changes hands. *)
Stays(c) == addr'[c] = addr[c]

(* AwaitedPairs, of both states of a step. *)
LEMMA AwaitedBoth ==
  Serves => \A c \in Clients, kind \in Kinds :
              AwaitedWell(c, kind) /\ AwaitedWell(c, kind)'
<1> DEFINE All == \A c \in Clients, kind \in Kinds : AwaitedWell(c, kind)
<1>1. TypeOK => All
  BY AwaitedPairs
<1>2. (TypeOK => All)'
  BY <1>1, PTL
<1> QED BY <1>1, <1>2 DEF Serves, ServerInv

(* What is awaited at a place is what the two lists have there. *)
LEMMA PlaceSame ==
  ASSUME NEW c, NEW kind, Stays(c), NEW p, NEW i, NEW j,
         i \in DOMAIN Orders(p)' <=> j \in DOMAIN Orders(p),
         j \in DOMAIN Orders(p) =>
           /\ Orders(p)'[i].kind = Orders(p)[j].kind
           /\ Asking(p)'[i] = Asking(p)[j]
  PROVE  Place(c, kind, p, i)' <=> Place(c, kind, p, j)
  BY DEF Place, Stays

(* What nobody touches is awaited as before. *)
LEMMA SameAwaited ==
  ASSUME Serves, NEW c \in Clients, NEW kind \in Kinds, Stays(c),
         \A p \in Perfs : SameList(p)
  PROVE  Awaited(c, kind)' = Awaited(c, kind)
<1>1. ASSUME NEW p \in Perfs, NEW i
      PROVE  Place(c, kind, p, i)' <=> Place(c, kind, p, i)
  BY <1>1, ListSizesBoth, PlaceSame DEF Sized, SameList
<1> QED BY <1>1, AwaitedIs

(* While c is not astray it is alone in a list that misses an answer, or not
   in it. *)
LEMMA AloneOrAway ==
  ASSUME Serving, NEW c, ~Astray(c), NEW p \in Perfs, skew[p] > 0
  PROVE  \/ \A i \in DOMAIN Asking(p) : Asking(p)[i] = addr[c]
         \/ \A i \in DOMAIN Asking(p) : Asking(p)[i] # addr[c]
  BY DEF Astray, In, Said

(* The same after a step. *)
LEMMA AloneOrAwayNext ==
  ASSUME Serving', NEW c, ~Astray(c)', NEW p \in Perfs, skew'[p] > 0
  PROVE  \/ \A i \in DOMAIN Asking(p)' : Asking(p)'[i] = addr'[c]
         \/ \A i \in DOMAIN Asking(p)' : Asking(p)'[i] # addr'[c]
  BY DEF Astray, In, Said

(* The list grows by a place that c awaits if it is c that came in. *)
LEMMA GrownAwaited ==
  ASSUME Serves, NEW c \in Clients, NEW kind \in Kinds, Stays(c), ~Astray(c)',
         skew' = skew, NEW p \in Perfs, NEW a, NEW k, GrownList(p, a, k),
         \A q \in Perfs \ {p} : SameList(q)
  PROVE  Cardinality(Awaited(c, kind)') = Cardinality(Awaited(c, kind)) +
           (IF k = kind /\ a = addr[c] THEN 1 ELSE 0)
<1>0. PICK n : n = Len(Orders(p)) + 1
  OBVIOUS
<1>1. /\ Len(Asking(p)) \in Nat /\ Len(Orders(p)) \in Nat /\ skew[p] \in Nat
      /\ DOMAIN Orders(p) = 1 .. Len(Orders(p))
      /\ DOMAIN Asking(p) = 1 .. Len(Asking(p))
      /\ Len(Asking(p)) = Len(Orders(p)) + skew[p]
      /\ DOMAIN Orders(p)' = 1 .. n
      /\ DOMAIN Asking(p)' = 1 .. Len(Asking(p)) + 1
  BY <1>0, ListSizesBoth DEF Sized, GrownList
<1>2. ASSUME NEW q \in Perfs \ {p}, NEW i
      PROVE  Place(c, kind, q, i)' <=> Place(c, kind, q, i)
  BY <1>2, ListSizesBoth, PlaceSame DEF Sized, SameList
<1>3. ASSUME NEW i, i # n
      PROVE  Place(c, kind, p, i)' <=> Place(c, kind, p, i)
  <2>1. i \in DOMAIN Orders(p)' <=> i \in DOMAIN Orders(p)
    BY <1>0, <1>1, <1>3
  <2>2. i \in DOMAIN Orders(p) => i \in 1 .. Len(Asking(p))
    BY <1>1
  <2> QED BY <1>1, <2>1, <2>2, PlaceSame DEF GrownList
<1>4. Asking(p)'[n] = addr[c] <=> a = addr[c]
  <2>1. CASE skew[p] = 0
    BY <1>0, <1>1, <2>1 DEF GrownList
  <2>2. CASE skew[p] > 0
    <3>1. n \in DOMAIN Asking(p)' /\ Len(Asking(p)) + 1 \in DOMAIN Asking(p)'
      BY <1>0, <1>1
    <3>2. \/ \A i \in DOMAIN Asking(p)' : Asking(p)'[i] = addr[c]
          \/ \A i \in DOMAIN Asking(p)' : Asking(p)'[i] # addr[c]
      BY <2>2, AloneOrAwayNext DEF Stays, Serves
    <3> QED BY <3>1, <3>2 DEF GrownList
  <2> QED BY <1>1, <2>1, <2>2
<1>5. Place(c, kind, p, n)' <=> k = kind /\ a = addr[c]
  <2>1. n \in DOMAIN Orders(p)' /\ Orders(p)'[n].kind = k
    BY <1>0, <1>1 DEF GrownList
  <2> QED BY <1>4, <2>1 DEF Place, Stays
<1>6. ~Place(c, kind, p, n)
  BY <1>0, <1>1 DEF Place
<1>7. Awaited(c, kind)' = Awaited(c, kind) \cup
        (IF k = kind /\ a = addr[c] THEN {<<p, n>>} ELSE {})
  BY <1>2, <1>3, <1>5, <1>6, AwaitedIs
<1>8. <<p, n>> \notin Awaited(c, kind)
  BY <1>6, AwaitedIs
<1>9. IsFiniteSet(Awaited(c, kind)) /\ Cardinality(Awaited(c, kind)) \in Nat
  BY AwaitedBoth DEF AwaitedWell
<1>10. CASE k = kind /\ a = addr[c]
  BY <1>7, <1>8, <1>9, <1>10, FS_AddElement
<1>11. CASE ~(k = kind /\ a = addr[c])
  BY <1>7, <1>9, <1>11
<1> QED BY <1>10, <1>11

(* The first place goes, and what the others await moves up with them. *)
LEMMA PoppedAwaited ==
  ASSUME Serves, NEW c \in Clients, NEW kind \in Kinds, Stays(c), skew' = skew,
         NEW p \in Perfs, Len(Orders(p)) # 0, PoppedList(p),
         \A q \in Perfs \ {p} : SameList(q)
  PROVE  Cardinality(Awaited(c, kind)) = Cardinality(Awaited(c, kind)') +
           (IF Place(c, kind, p, 1) THEN 1 ELSE 0)
<1>1. /\ Len(Asking(p)) \in Nat /\ Len(Orders(p)) \in Nat
      /\ DOMAIN Orders(p) = 1 .. Len(Orders(p))
      /\ DOMAIN Orders(p)' = 1 .. Len(Orders(p)) - 1
      /\ Len(Orders(p)) <= Len(Asking(p))
  <2>1. Len(Asking(p)) = Len(Orders(p)) + skew[p] /\ skew[p] \in Nat
    BY ListSizesBoth DEF Sized
  <2> QED BY <2>1, ListSizesBoth DEF Sized, PoppedList
<1>2. ASSUME NEW q \in Perfs \ {p}, NEW i
      PROVE  Place(c, kind, q, i)' <=> Place(c, kind, q, i)
  BY <1>2, ListSizesBoth, PlaceSame DEF Sized, SameList
<1>3. ASSUME NEW i \in Nat \ {0}
      PROVE  Place(c, kind, p, i)' <=> Place(c, kind, p, i + 1)
  <2>1. /\ i \in DOMAIN Orders(p)' <=> i + 1 \in DOMAIN Orders(p)
        /\ i + 1 \in DOMAIN Orders(p) =>
             i \in 1 .. Len(Orders(p)) - 1 /\ i \in 1 .. Len(Asking(p)) - 1
    BY <1>1, <1>3
  <2> QED BY <2>1, PlaceSame DEF PoppedList
<1>4. /\ IsFiniteSet(Awaited(c, kind))
      /\ Awaited(c, kind) \in SUBSET (Perfs \X (Nat \ {0}))
      /\ Awaited(c, kind)' \in SUBSET (Perfs \X (Nat \ {0}))
      /\ \A q \in Perfs, i \in Nat \ {0} :
           <<q, i>> \in Awaited(c, kind) <=> Place(c, kind, q, i)
      /\ \A q \in Perfs, i \in Nat \ {0} :
           <<q, i>> \in Awaited(c, kind)' <=> Place(c, kind, q, i)'
  BY AwaitedBoth DEF AwaitedWell
<1>5. \A q \in Perfs \ {p}, i \in Nat \ {0} :
        <<q, i>> \in Awaited(c, kind)' <=> <<q, i>> \in Awaited(c, kind)
  BY <1>2, <1>4
<1>6. \A i \in Nat \ {0} : <<p, i>> \in Awaited(c, kind)' <=>
        <<p, IF i < 1 THEN i ELSE i + 1>> \in Awaited(c, kind)
  <2> SUFFICES ASSUME NEW i \in Nat \ {0}
               PROVE  <<p, i>> \in Awaited(c, kind)' <=>
                        <<p, IF i < 1 THEN i ELSE i + 1>> \in Awaited(c, kind)
    OBVIOUS
  <2>1. ~(i < 1) /\ i + 1 \in Nat \ {0}
    OBVIOUS
  <2> QED BY <1>3, <1>4, <2>1
<1>7. 1 \in Nat \ {0}
  OBVIOUS
<1>8. Cardinality(Awaited(c, kind)) = Cardinality(Awaited(c, kind)') +
        (IF <<p, 1>> \in Awaited(c, kind) THEN 1 ELSE 0)
  BY <1>4, <1>5, <1>6, <1>7, PlaceGone
<1> QED BY <1>4, <1>7, <1>8

(* A place goes and the clients do not: those who are not astray afterwards
   had the list for themselves, or were not in it. *)
LEMMA SkippedAwaited ==
  ASSUME Serves, NEW c \in Clients, NEW kind \in Kinds, Stays(c), ~Astray(c)',
         NEW p \in Perfs, skew'[p] > 0, NEW j \in 1 .. Len(Orders(p)),
         SkippedList(p, j), \A q \in Perfs \ {p} : SameList(q)
  PROVE  Cardinality(Awaited(c, kind)) = Cardinality(Awaited(c, kind)') +
           (IF Place(c, kind, p, j) THEN 1 ELSE 0)
<1>1. /\ Len(Asking(p)) \in Nat /\ Len(Orders(p)) \in Nat
      /\ DOMAIN Orders(p) = 1 .. Len(Orders(p))
      /\ DOMAIN Orders(p)' = 1 .. Len(Orders(p)) - 1
      /\ DOMAIN Asking(p)' = 1 .. Len(Asking(p))
      /\ Len(Orders(p)) <= Len(Asking(p))
      /\ j \in Nat \ {0}
  <2>1. Len(Asking(p)) = Len(Orders(p)) + skew[p] /\ skew[p] \in Nat
    BY ListSizesBoth DEF Sized
  <2> QED BY <2>1, ListSizesBoth DEF Sized, SkippedList
<1>2. ASSUME NEW q \in Perfs \ {p}, NEW i
      PROVE  Place(c, kind, q, i)' <=> Place(c, kind, q, i)
  BY <1>2, ListSizesBoth, PlaceSame DEF Sized, SameList
<1>3. ASSUME NEW i \in 1 .. Len(Asking(p)), NEW k \in 1 .. Len(Asking(p))
      PROVE  Asking(p)'[i] = addr'[c] <=> Asking(p)[k] = addr[c]
  <2>1. \/ \A l \in DOMAIN Asking(p)' : Asking(p)'[l] = addr'[c]
        \/ \A l \in DOMAIN Asking(p)' : Asking(p)'[l] # addr'[c]
    BY AloneOrAwayNext DEF Serves
  <2>2. Asking(p)'[k] = Asking(p)[k]
    BY DEF SkippedList
  <2> QED BY <1>1, <2>1, <2>2 DEF Stays
<1>4. ASSUME NEW i \in Nat \ {0}, NEW k, k = IF i < j THEN i ELSE i + 1
      PROVE  Place(c, kind, p, i)' <=> Place(c, kind, p, k)
  <2>1. i \in DOMAIN Orders(p)' <=> k \in DOMAIN Orders(p)
    BY <1>1, <1>4
  <2>2. CASE i \notin DOMAIN Orders(p)'
    BY <2>1, <2>2 DEF Place
  <2>3. CASE i \in DOMAIN Orders(p)'
    <3>1. /\ i \in 1 .. Len(Orders(p)) - 1
          /\ i \in 1 .. Len(Asking(p)) /\ k \in 1 .. Len(Asking(p))
      BY <1>1, <1>4, <2>1, <2>3
    <3>2. Orders(p)'[i].kind = Orders(p)[k].kind
      BY <1>4, <3>1 DEF SkippedList
    <3> QED BY <1>3, <2>1, <2>3, <3>1, <3>2 DEF Place
  <2> QED BY <2>2, <2>3
<1>5. /\ IsFiniteSet(Awaited(c, kind))
      /\ Awaited(c, kind) \in SUBSET (Perfs \X (Nat \ {0}))
      /\ Awaited(c, kind)' \in SUBSET (Perfs \X (Nat \ {0}))
      /\ \A q \in Perfs, i \in Nat \ {0} :
           <<q, i>> \in Awaited(c, kind) <=> Place(c, kind, q, i)
      /\ \A q \in Perfs, i \in Nat \ {0} :
           <<q, i>> \in Awaited(c, kind)' <=> Place(c, kind, q, i)'
  BY AwaitedBoth DEF AwaitedWell
<1>6. \A q \in Perfs \ {p}, i \in Nat \ {0} :
        <<q, i>> \in Awaited(c, kind)' <=> <<q, i>> \in Awaited(c, kind)
  BY <1>2, <1>5
<1>7. \A i \in Nat \ {0} : <<p, i>> \in Awaited(c, kind)' <=>
        <<p, IF i < j THEN i ELSE i + 1>> \in Awaited(c, kind)
  <2> SUFFICES ASSUME NEW i \in Nat \ {0}
               PROVE  <<p, i>> \in Awaited(c, kind)' <=>
                        <<p, IF i < j THEN i ELSE i + 1>> \in Awaited(c, kind)
    OBVIOUS
  <2>1. PICK k : k = IF i < j THEN i ELSE i + 1
    OBVIOUS
  <2>2. k \in Nat \ {0}
    BY <2>1
  <2> QED BY <1>4, <1>5, <2>1, <2>2
<1>8. Cardinality(Awaited(c, kind)) = Cardinality(Awaited(c, kind)') +
        (IF <<p, j>> \in Awaited(c, kind) THEN 1 ELSE 0)
  BY <1>1, <1>5, <1>6, <1>7, PlaceGone
<1> QED BY <1>1, <1>5, <1>8
-----------------------------------------------------------------------------
(* What the steps do to the lists *)

(* ListsAre, of both states of a step. *)
LEMMA PartsBoth ==
  TypeOK /\ TypeOK' => \A p \in Perfs : ListParts(p) /\ ListParts(p)'
<1> DEFINE All == \A p \in Perfs : ListParts(p)
<1>1. TypeOK => All
  BY ListsAre
<1>2. (TypeOK => All)'
  BY <1>1, PTL
<1> QED BY <1>1, <1>2

(* The lists of a perf a step does not touch. *)
LEMMA ListUntouched ==
  ASSUME NEW p, waiting'[p] = waiting[p], replies'[p] = replies[p],
         cmds'[p] = cmds[p],
         sending' = sending \/ (sending.to # p /\ sending'.to # p)
  PROVE  SameList(p)
<1>1. Asking(p)' = Asking(p) /\ Orders(p)' = Orders(p)
  BY DEF Asking, Orders
<1> QED BY <1>1 DEF SameList

(* The places of a list that one more has joined, *)
LEMMA AtEnd ==
  ASSUME NEW S, NEW s \in Seq(S), NEW e \in S, NEW t, t = Append(s, e)
  PROVE  /\ Len(t) = Len(s) + 1 /\ Len(s) \in Nat
         /\ \A i \in 1 .. Len(s) : t[i] = s[i]
         /\ t[Len(s) + 1] = e
  OBVIOUS

(* and of one whose first has left. *)
LEMMA AtFront ==
  ASSUME NEW S, NEW s \in Seq(S), s # <<>>, NEW t, t = Tail(s)
  PROVE  /\ Len(t) = Len(s) - 1 /\ Len(s) \in Nat \ {0}
         /\ \A i \in 1 .. Len(s) - 1 : t[i] = s[i + 1]
         /\ s[1] = Head(s)
  OBVIOUS

(* zlist_append and the write to the pipe. *)
LEMMA JoinGrows ==
  ASSUME TypeOK, TypeOK', NEW p \in Perfs, NEW a \in Addrs, NEW cmd \in Command,
         waiting'[p] = Append(waiting[p], a), cmds'[p] = Append(cmds[p], cmd),
         replies'[p] = replies[p], sending.to # p, sending'.to # p
  PROVE  GrownList(p, a, cmd.kind)
<1>1. /\ Joined(p)' = Joined(p) + 1 /\ Joined(p) \in Nat
      /\ \A i \in 1 .. Joined(p) : waiting'[p][i] = waiting[p][i]
      /\ waiting'[p][Joined(p) + 1] = a
  BY AtEnd DEF TypeOK, Joined
<1>2. /\ Queued(p)' = Queued(p) + 1 /\ Queued(p) \in Nat
      /\ \A i \in 1 .. Queued(p) : cmds'[p][i] = cmds[p][i]
      /\ cmds'[p][Queued(p) + 1] = cmd
  BY AtEnd DEF TypeOK, Queued
<1>3. Ready(p)' = Ready(p) /\ Ready(p) \in Nat
  BY DEF TypeOK, Ready
<1>4. Blocks(p) = 0 /\ Blocks(p)' = 0
  BY DEF Blocks
<1>5. ListParts(p) /\ ListParts(p)'
  BY PartsBoth
<1>6. /\ Len(Asking(p)) = Joined(p) /\ Len(Asking(p))' = Joined(p) + 1
      /\ Len(Orders(p)) = Ready(p) + Queued(p)
      /\ Len(Orders(p))' = Ready(p) + Queued(p) + 1
  BY <1>1, <1>2, <1>3, <1>4, <1>5 DEF ListParts
<1>7. ASSUME NEW i \in 1 .. Joined(p)
      PROVE  Asking(p)'[i] = Asking(p)[i]
  <2>1. i \in 1 .. Joined(p) + 1 /\ i <= Joined(p) /\ i <= Joined(p) + 1
    BY <1>1
  <2>2. Asking(p)[i] = waiting[p][i] /\ Asking(p)'[i] = waiting'[p][i]
    BY <1>1, <1>5, <1>6, <2>1 DEF ListParts
  <2> QED BY <1>1, <2>2
<1>8. Asking(p)'[Joined(p) + 1] = a
  <2>1. Joined(p) + 1 \in 1 .. Joined(p) + 1 /\ Joined(p) + 1 <= Joined(p)'
    BY <1>1
  <2>2. Asking(p)'[Joined(p) + 1] = waiting'[p][Joined(p) + 1]
    BY <1>5, <1>6, <2>1 DEF ListParts
  <2> QED BY <1>1, <2>2
<1>9. ASSUME NEW i \in 1 .. Ready(p) + Queued(p)
      PROVE  Orders(p)'[i] = Orders(p)[i]
  <2>1. /\ i \in 1 .. Ready(p) + Queued(p) + 1
        /\ i <= Ready(p) + Queued(p) /\ i <= Ready(p) + (Queued(p) + 1)
    BY <1>2, <1>3
  <2>2. CASE i <= Ready(p)
    BY <1>3, <1>5, <1>6, <2>1, <2>2 DEF ListParts
  <2>3. CASE ~(i <= Ready(p))
    <3>1. /\ Orders(p)[i] = cmds[p][i - Ready(p)]
          /\ Orders(p)'[i] = cmds'[p][i - Ready(p)]
      BY <1>2, <1>3, <1>5, <1>6, <2>1, <2>3 DEF ListParts
    <3>2. i - Ready(p) \in 1 .. Queued(p)
      BY <1>2, <1>3, <2>1, <2>3
    <3> QED BY <1>2, <3>1, <3>2
  <2> QED BY <2>2, <2>3
<1>10. Orders(p)'[Ready(p) + Queued(p) + 1] = cmd
  <2> DEFINE n == Ready(p) + Queued(p) + 1
  <2>1. /\ n \in 1 .. Ready(p) + Queued(p) + 1 /\ ~(n <= Ready(p))
        /\ n <= Ready(p) + (Queued(p) + 1) /\ n - Ready(p) = Queued(p) + 1
    BY <1>2, <1>3
  <2> HIDE DEF n
  <2>2. Orders(p)'[n] = cmds'[p][n - Ready(p)]
    BY <1>2, <1>3, <1>5, <1>6, <2>1 DEF ListParts
  <2>3. Orders(p)'[n] = cmd
    BY <1>2, <2>1, <2>2
  <2> QED BY <2>3 DEF n
<1> QED BY <1>6, <1>7, <1>8, <1>9, <1>10 DEF GrownList

(* zsock_send blocks: the command and its client come to the end as well. *)
LEMMA BlockGrows ==
  ASSUME TypeOK, TypeOK', NEW p \in Perfs, NEW a \in Addrs, NEW cmd \in Command,
         waiting'[p] = waiting[p], cmds'[p] = cmds[p], replies'[p] = replies[p],
         sending.to # p, sending' = [to |-> p, cmd |-> cmd, ptr |-> a]
  PROVE  GrownList(p, a, cmd.kind)
<1>1. /\ Joined(p)' = Joined(p) /\ Queued(p)' = Queued(p) /\ Ready(p)' = Ready(p)
      /\ Joined(p) \in Nat /\ Queued(p) \in Nat /\ Ready(p) \in Nat
  BY DEF TypeOK, Joined, Ready, Queued
<1>2. Blocks(p) = 0 /\ Blocks(p)' = 1 /\ sending'.cmd = cmd /\ sending'.ptr = a
  BY DEF Blocks
<1>3. ListParts(p) /\ ListParts(p)'
  BY PartsBoth
<1>4. /\ Len(Asking(p)) = Joined(p) /\ Len(Asking(p))' = Joined(p) + 1
      /\ Len(Orders(p)) = Ready(p) + Queued(p)
      /\ Len(Orders(p))' = Ready(p) + Queued(p) + 1
  BY <1>1, <1>2, <1>3 DEF ListParts
<1>5. ASSUME NEW i \in 1 .. Joined(p)
      PROVE  Asking(p)'[i] = Asking(p)[i]
  <2>1. i \in 1 .. Joined(p) + 1 /\ i <= Joined(p)
    BY <1>1
  <2> QED BY <1>1, <1>3, <1>4, <2>1 DEF ListParts
<1>6. Asking(p)'[Joined(p) + 1] = a
  <2>1. Joined(p) + 1 \in 1 .. Joined(p) + 1 /\ ~(Joined(p) + 1 <= Joined(p))
    BY <1>1
  <2> QED BY <1>1, <1>2, <1>3, <1>4, <2>1 DEF ListParts
<1>7. ASSUME NEW i \in 1 .. Ready(p) + Queued(p)
      PROVE  Orders(p)'[i] = Orders(p)[i]
  <2>1. i \in 1 .. Ready(p) + Queued(p) + 1 /\ i <= Ready(p) + Queued(p)
    BY <1>1
  <2> QED BY <1>1, <1>3, <1>4, <2>1 DEF ListParts
<1>8. Orders(p)'[Ready(p) + Queued(p) + 1] = cmd
  <2> DEFINE n == Ready(p) + Queued(p) + 1
  <2>1. /\ n \in 1 .. Ready(p) + Queued(p) + 1
        /\ ~(n <= Ready(p)) /\ ~(n <= Ready(p) + Queued(p))
    BY <1>1
  <2> HIDE DEF n
  <2>2. Orders(p)'[n] = cmd
    BY <1>1, <1>2, <1>3, <1>4, <2>1 DEF ListParts
  <2> QED BY <2>2 DEF n
<1> QED BY <1>4, <1>5, <1>6, <1>7, <1>8 DEF GrownList

(* The blocked send returns: the last of the list are where they were. *)
LEMMA SendKeeps ==
  ASSUME TypeOK, TypeOK', NEW p \in Perfs, sending.to = p, sending'.to # p,
         waiting'[p] = Append(waiting[p], sending.ptr),
         cmds'[p] = Append(cmds[p], sending.cmd), replies'[p] = replies[p]
  PROVE  SameList(p)
<1>0. sending.ptr \in Addrs /\ sending.cmd \in Command
  BY DEF TypeOK, Blocked, NotBlocked
<1>1. /\ Joined(p)' = Joined(p) + 1 /\ Joined(p) \in Nat
      /\ \A i \in 1 .. Joined(p) : waiting'[p][i] = waiting[p][i]
      /\ waiting'[p][Joined(p) + 1] = sending.ptr
  BY <1>0, AtEnd DEF TypeOK, Joined
<1>2. /\ Queued(p)' = Queued(p) + 1 /\ Queued(p) \in Nat
      /\ \A i \in 1 .. Queued(p) : cmds'[p][i] = cmds[p][i]
      /\ cmds'[p][Queued(p) + 1] = sending.cmd
  BY <1>0, AtEnd DEF TypeOK, Queued
<1>3. Ready(p)' = Ready(p) /\ Ready(p) \in Nat
  BY DEF TypeOK, Ready
<1>4. Blocks(p) = 1 /\ Blocks(p)' = 0
  BY DEF Blocks
<1>5. ListParts(p) /\ ListParts(p)'
  BY PartsBoth
<1>6. /\ Len(Asking(p)) = Joined(p) + 1 /\ Len(Asking(p))' = Joined(p) + 1
      /\ Len(Orders(p)) = Ready(p) + Queued(p) + 1
      /\ Len(Orders(p))' = Ready(p) + Queued(p) + 1
  BY <1>1, <1>2, <1>3, <1>4, <1>5 DEF ListParts
<1>7. ASSUME NEW i \in 1 .. Joined(p) + 1
      PROVE  Asking(p)'[i] = Asking(p)[i]
  <2>1. i <= Joined(p)' /\ (i <= Joined(p) \/ i = Joined(p) + 1)
    BY <1>1
  <2>2. Asking(p)'[i] = waiting'[p][i]
    BY <1>5, <1>6, <2>1 DEF ListParts
  <2>3. CASE i <= Joined(p)
    <3>1. Asking(p)[i] = waiting[p][i]
      BY <1>5, <1>6, <2>3 DEF ListParts
    <3>2. i \in 1 .. Joined(p)
      BY <1>1, <2>3
    <3> QED BY <1>1, <2>2, <3>1, <3>2
  <2>4. CASE ~(i <= Joined(p))
    <3>1. Asking(p)[i] = sending.ptr
      BY <1>5, <1>6, <2>4 DEF ListParts
    <3> QED BY <1>1, <2>1, <2>2, <2>4, <3>1
  <2> QED BY <2>3, <2>4
<1>8. ASSUME NEW i \in 1 .. Ready(p) + Queued(p) + 1
      PROVE  Orders(p)'[i] = Orders(p)[i]
  <2>0. Queued(p)' = Queued(p) + 1 /\ Queued(p) \in Nat /\ Ready(p) \in Nat
    BY <1>2, <1>3
  <2>1. /\ i <= Ready(p) + Queued(p)'
        /\ i <= Ready(p) + Queued(p) \/ i = Ready(p) + Queued(p) + 1
    BY <2>0
  <2>2. CASE i <= Ready(p)
    BY <1>3, <1>5, <1>6, <2>2 DEF ListParts
  <2>3. CASE ~(i <= Ready(p)) /\ i <= Ready(p) + Queued(p)
    <3>1. /\ Orders(p)[i] = cmds[p][i - Ready(p)]
          /\ Orders(p)'[i] = cmds'[p][i - Ready(p)]
      BY <1>3, <1>5, <1>6, <2>1, <2>3 DEF ListParts
    <3>2. i - Ready(p) \in 1 .. Queued(p)
      BY <2>0, <2>3
    <3> QED BY <1>2, <3>1, <3>2
  <2>4. CASE ~(i <= Ready(p)) /\ ~(i <= Ready(p) + Queued(p))
    <3>1. /\ Orders(p)[i] = sending.cmd
          /\ Orders(p)'[i] = cmds'[p][i - Ready(p)]
      BY <1>3, <1>5, <1>6, <2>1, <2>4 DEF ListParts
    <3>2. i - Ready(p) = Queued(p) + 1
      BY <2>0, <2>1, <2>4
    <3> QED BY <1>2, <3>1, <3>2
  <2> QED BY <2>2, <2>3, <2>4
<1> QED BY <1>6, <1>7, <1>8 DEF SameList

(* A perf answers: its command gives way to an answer of the same kind. *)
LEMMA AnswerKeeps ==
  ASSUME TypeOK, TypeOK', NEW p \in Perfs, NEW r \in Answer, cmds[p] # <<>>,
         r.kind = Head(cmds[p]).kind,
         replies'[p] = Append(replies[p], r), cmds'[p] = Tail(cmds[p]),
         waiting'[p] = waiting[p], sending' = sending
  PROVE  SameList(p)
<1>1. /\ Ready(p)' = Ready(p) + 1 /\ Ready(p) \in Nat
      /\ \A i \in 1 .. Ready(p) : replies'[p][i] = replies[p][i]
      /\ replies'[p][Ready(p) + 1] = r
  BY AtEnd DEF TypeOK, Ready
<1>2. /\ Queued(p)' = Queued(p) - 1 /\ Queued(p) \in Nat \ {0}
      /\ \A i \in 1 .. Queued(p) - 1 : cmds'[p][i] = cmds[p][i + 1]
      /\ cmds[p][1] = Head(cmds[p])
  BY AtFront DEF TypeOK, Queued
<1>3. Joined(p)' = Joined(p)
  BY DEF Joined
<1>4. Blocks(p)' = Blocks(p)
  BY DEF Blocks
<1>5. ListParts(p) /\ ListParts(p)' /\ Blocks(p) \in Nat
  <2>1. Blocks(p) \in Nat
    BY DEF Blocks
  <2> QED BY <2>1, PartsBoth
<1>6. /\ Len(Asking(p))' = Len(Asking(p))
      /\ Len(Orders(p)) = Ready(p) + Queued(p) + Blocks(p)
      /\ Len(Orders(p))' = Ready(p) + Queued(p) + Blocks(p)
  BY <1>1, <1>2, <1>3, <1>4, <1>5 DEF ListParts
<1>7. \A i \in 1 .. Len(Asking(p)) : Asking(p)'[i] = Asking(p)[i]
  BY <1>3, <1>5, <1>6 DEF ListParts
<1>8. ASSUME NEW i \in 1 .. Ready(p) + Queued(p) + Blocks(p)
      PROVE  Orders(p)'[i].kind = Orders(p)[i].kind
  <2>0. Ready(p)' + Queued(p)' = Ready(p) + Queued(p)
    BY <1>1, <1>2
  <2>1. CASE i <= Ready(p)
    <3>1. i <= Ready(p)' /\ i \in 1 .. Ready(p)
      BY <1>1, <1>2, <1>5, <2>1
    <3>2. Orders(p)'[i] = replies'[p][i] /\ Orders(p)[i] = replies[p][i]
      BY <1>5, <1>6, <2>1, <3>1 DEF ListParts
    <3> QED BY <1>1, <3>1, <3>2
  <2>2. CASE i = Ready(p) + 1
    <3>1. i <= Ready(p)' /\ ~(i <= Ready(p)) /\ i <= Ready(p) + Queued(p)
      BY <1>1, <1>2, <2>2
    <3>2. i - Ready(p) = 1
      BY <1>1, <2>2
    <3>3. Orders(p)'[i] = replies'[p][i] /\ Orders(p)[i] = cmds[p][i - Ready(p)]
      BY <1>5, <1>6, <3>1 DEF ListParts
    <3> QED BY <1>1, <1>2, <2>2, <3>2, <3>3
  <2>3. CASE i > Ready(p) + 1 /\ i <= Ready(p) + Queued(p)
    <3>1. PICK j : j = i - Ready(p)'
      OBVIOUS
    <3>0. /\ Ready(p)' = Ready(p) + 1 /\ Ready(p) \in Nat
          /\ Queued(p) \in Nat \ {0} /\ i \in Nat
      BY <1>1, <1>2, <1>5
    <3>2. /\ ~(i <= Ready(p)') /\ ~(i <= Ready(p))
          /\ j \in 1 .. Queued(p) - 1 /\ i - Ready(p) = j + 1
      BY <2>3, <3>0, <3>1
    <3>3. Orders(p)'[i] = cmds'[p][j] /\ Orders(p)[i] = cmds[p][j + 1]
      BY <1>5, <1>6, <2>0, <2>3, <3>1, <3>2 DEF ListParts
    <3> QED BY <1>2, <3>2, <3>3
  <2>4. CASE ~(i <= Ready(p) + Queued(p))
    <3>1. ~(i <= Ready(p)) /\ ~(i <= Ready(p)')
      BY <1>1, <1>2, <1>5, <2>4
    <3> QED BY <1>5, <1>6, <2>0, <2>4, <3>1 DEF ListParts
  <2> QED BY <1>1, <1>2, <1>5, <2>1, <2>2, <2>3, <2>4
<1> QED BY <1>6, <1>7, <1>8 DEF SameList

(* What of a list changes when its first command is dropped without an answer
   (a measurement that ended at an error). *)
DropsFirst(p) ==
  /\ ListParts(p) /\ ListParts(p)' /\ sending' = sending
  /\ Joined(p)' = Joined(p) /\ waiting'[p] = waiting[p]
  /\ Ready(p)' = Ready(p) /\ Ready(p) \in Nat /\ replies'[p] = replies[p]
  /\ Queued(p)' = Queued(p) - 1 /\ Queued(p) \in Nat \ {0}
  /\ \A i \in 1 .. Queued(p) - 1 : cmds'[p][i] = cmds[p][i + 1]
  /\ Blocks(p)' = Blocks(p) /\ Blocks(p) \in Nat

(* The command's place goes and the ones behind it move up. *)
LEMMA DroppedIsSkipped ==
  ASSUME NEW p \in Perfs, DropsFirst(p), NEW j, j = Ready(p) + 1
  PROVE  /\ SkippedList(p, j) /\ j \in 1 .. Len(Orders(p))
         /\ Orders(p)[j] = cmds[p][1]
<1>0. /\ Joined(p)' = Joined(p) /\ Ready(p)' = Ready(p) /\ Ready(p) \in Nat
      /\ Queued(p)' = Queued(p) - 1 /\ Queued(p) \in Nat \ {0}
      /\ Blocks(p)' = Blocks(p) /\ Blocks(p) \in Nat
  BY DEF DropsFirst
<1>a. Ready(p) \in Nat /\ Queued(p) \in Nat \ {0} /\ Blocks(p) \in Nat
  BY <1>0
<1>1. /\ Joined(p)' = Joined(p) /\ waiting'[p] = waiting[p]
      /\ Ready(p)' = Ready(p) /\ replies'[p] = replies[p] /\ sending' = sending
  BY DEF DropsFirst
<1>2. \A i \in 1 .. Queued(p) - 1 : cmds'[p][i] = cmds[p][i + 1]
  BY DEF DropsFirst
<1>4. ListParts(p) /\ ListParts(p)'
  BY DEF DropsFirst
<1>5. /\ Len(Asking(p))' = Len(Asking(p))
      /\ Len(Orders(p)) = Ready(p) + Queued(p) + Blocks(p)
      /\ Len(Orders(p))' = Ready(p) + Queued(p) + Blocks(p) - 1
  <2>1. /\ Len(Asking(p)) = Joined(p) + Blocks(p)
        /\ Len(Asking(p))' = Joined(p)' + Blocks(p)'
        /\ Len(Orders(p)) = Ready(p) + Queued(p) + Blocks(p)
        /\ Len(Orders(p))' = Ready(p)' + Queued(p)' + Blocks(p)'
    BY <1>4 DEF ListParts
  <2> QED BY <1>0, <2>1
<1>6. \A i \in 1 .. Len(Asking(p)) : Asking(p)'[i] = Asking(p)[i]
  BY <1>1, <1>4, <1>5 DEF ListParts
<1>7. /\ Ready(p) + 1 \in 1 .. Len(Orders(p))
      /\ ~(Ready(p) + 1 <= Ready(p)) /\ Ready(p) + 1 <= Ready(p) + Queued(p)
      /\ (Ready(p) + 1) - Ready(p) = 1
  <2>1. Len(Orders(p)) = Ready(p) + Queued(p) + Blocks(p)
    BY <1>5
  <2> QED BY <1>0, <2>1
<1>8. Orders(p)[Ready(p) + 1] = cmds[p][1]
  BY <1>4, <1>7 DEF ListParts
<1>9. ASSUME NEW i \in 1 .. Len(Orders(p)) - 1
      PROVE  Orders(p)'[i] =
               Orders(p)[IF i < Ready(p) + 1 THEN i ELSE i + 1]
  <2>0. /\ i \in 1 .. Len(Orders(p)) /\ i + 1 \in 1 .. Len(Orders(p))
        /\ i \in 1 .. Len(Orders(p))'
    BY <1>0, <1>5
  <2>1. CASE i <= Ready(p)
    <3>1. i < Ready(p) + 1
      BY <1>0, <2>0, <2>1
    <3> QED BY <1>1, <1>4, <2>0, <2>1, <3>1 DEF ListParts
  <2>2. CASE ~(i <= Ready(p)) /\ i <= Ready(p) + Queued(p) - 1
    <3>1. PICK k : k = i - Ready(p)
      OBVIOUS
    <3>2. ~(i < Ready(p) + 1) /\ ~(i + 1 <= Ready(p))
      BY <1>a, <2>2
    <3>3. i + 1 <= Ready(p) + Queued(p)
      BY <1>a, <2>2
    <3>4. i <= Ready(p) + Queued(p)'
      BY <1>0, <2>2
    <3>5. k \in 1 .. Queued(p) - 1
      BY <1>a, <2>2, <3>1
    <3>6. (i + 1) - Ready(p) = k + 1
      BY <1>a, <3>1
    <3>7. Orders(p)'[i] = cmds'[p][i - Ready(p)]
      BY <1>1, <1>4, <2>0, <2>2, <3>4 DEF ListParts
    <3>8. Orders(p)[i + 1] = cmds[p][(i + 1) - Ready(p)]
      BY <1>4, <2>0, <3>2, <3>3 DEF ListParts
    <3>9. Orders(p)'[i] = Orders(p)[i + 1]
      BY <1>2, <3>1, <3>5, <3>6, <3>7, <3>8
    <3> QED BY <3>2, <3>9
  <2>3. CASE ~(i <= Ready(p)) /\ ~(i <= Ready(p) + Queued(p) - 1)
    <3>1. /\ ~(i < Ready(p) + 1) /\ ~(i + 1 <= Ready(p))
          /\ ~(i + 1 <= Ready(p) + Queued(p)) /\ ~(i <= Ready(p) + Queued(p)')
      BY <1>0, <2>0, <2>3
    <3>2. Orders(p)'[i] = sending.cmd
      BY <1>1, <1>4, <2>0, <2>3, <3>1 DEF ListParts
    <3>3. Orders(p)[i + 1] = sending.cmd
      BY <1>4, <2>0, <3>1 DEF ListParts
    <3> QED BY <3>1, <3>2, <3>3
  <2> QED BY <2>1, <2>2, <2>3
<1>10. SkippedList(p, j)
  <2>1. Len(Orders(p))' = Len(Orders(p)) - 1
    BY <1>0, <1>5
  <2>2. \A i \in 1 .. Len(Orders(p)) - 1 :
          Orders(p)'[i] = Orders(p)[IF i < j THEN i ELSE i + 1]
    BY <1>9
  <2> QED BY <1>5, <1>6, <2>1, <2>2 DEF SkippedList
<1> QED BY <1>7, <1>8, <1>10

(* A measurement ends without an answer: the first command is dropped. *)
LEMMA GivingUpSkips ==
  ASSUME TypeOK, TypeOK', NEW p \in Perfs, cmds[p] # <<>>,
         cmds'[p] = Tail(cmds[p]), replies'[p] = replies[p],
         waiting'[p] = waiting[p], sending' = sending,
         NEW j, j = Ready(p) + 1
  PROVE  /\ SkippedList(p, j) /\ j \in 1 .. Len(Orders(p))
         /\ Orders(p)[j] = Head(cmds[p])
<1>1. Ready(p)' = Ready(p) /\ Ready(p) \in Nat /\ Joined(p)' = Joined(p)
  BY DEF TypeOK, Ready, Joined
<1>2. /\ Queued(p)' = Queued(p) - 1 /\ Queued(p) \in Nat \ {0}
      /\ \A i \in 1 .. Queued(p) - 1 : cmds'[p][i] = cmds[p][i + 1]
      /\ cmds[p][1] = Head(cmds[p])
  BY AtFront DEF TypeOK, Queued
<1>3. Blocks(p)' = Blocks(p) /\ Blocks(p) \in Nat
  BY DEF Blocks
<1>4. ListParts(p) /\ ListParts(p)'
  BY PartsBoth
<1>5. DropsFirst(p)
  BY <1>1, <1>2, <1>3, <1>4 DEF DropsFirst
<1>6. /\ SkippedList(p, j) /\ j \in 1 .. Len(Orders(p))
      /\ Orders(p)[j] = cmds[p][1]
  BY <1>5, DroppedIsSkipped
<1> QED BY <1>2, <1>6

(* What of a list changes when an answer is read and the client it is for is
   popped. *)
TakesFirst(p) ==
  /\ ListParts(p) /\ ListParts(p)' /\ sending' = sending
  /\ Joined(p)' = Joined(p) - 1 /\ Joined(p) \in Nat \ {0}
  /\ \A i \in 1 .. Joined(p) - 1 : waiting'[p][i] = waiting[p][i + 1]
  /\ Ready(p)' = Ready(p) - 1 /\ Ready(p) \in Nat \ {0}
  /\ \A i \in 1 .. Ready(p) - 1 : replies'[p][i] = replies[p][i + 1]
  /\ Queued(p)' = Queued(p) /\ Queued(p) \in Nat /\ cmds'[p] = cmds[p]
  /\ Blocks(p)' = Blocks(p) /\ Blocks(p) \in Nat

(* Both lists lose their first place. *)
LEMMA TakenIsPopped ==
  ASSUME NEW p \in Perfs, TakesFirst(p)
  PROVE  /\ PoppedList(p) /\ Len(Orders(p)) # 0
         /\ Orders(p)[1] = replies[p][1] /\ Asking(p)[1] = waiting[p][1]
         /\ 1 \in DOMAIN Orders(p)
<1>0. /\ Joined(p)' = Joined(p) - 1 /\ Joined(p) \in Nat \ {0}
      /\ Ready(p)' = Ready(p) - 1 /\ Ready(p) \in Nat \ {0}
      /\ Queued(p)' = Queued(p) /\ Queued(p) \in Nat
      /\ Blocks(p)' = Blocks(p) /\ Blocks(p) \in Nat
  BY DEF TakesFirst
<1>a. /\ Joined(p) \in Nat \ {0} /\ Ready(p) \in Nat \ {0}
      /\ Queued(p) \in Nat /\ Blocks(p) \in Nat
  BY <1>0
<1>1. \A i \in 1 .. Joined(p) - 1 : waiting'[p][i] = waiting[p][i + 1]
  BY DEF TakesFirst
<1>2. \A i \in 1 .. Ready(p) - 1 : replies'[p][i] = replies[p][i + 1]
  BY DEF TakesFirst
<1>3. Queued(p)' = Queued(p) /\ cmds'[p] = cmds[p] /\ sending' = sending
  BY DEF TakesFirst
<1>5. ListParts(p) /\ ListParts(p)'
  BY DEF TakesFirst
<1>6. /\ Len(Asking(p)) = Joined(p) + Blocks(p)
      /\ Len(Asking(p))' = Len(Asking(p)) - 1
      /\ Len(Orders(p)) = Ready(p) + Queued(p) + Blocks(p)
      /\ Len(Orders(p))' = Len(Orders(p)) - 1
  <2>1. /\ Len(Asking(p)) = Joined(p) + Blocks(p)
        /\ Len(Asking(p))' = Joined(p)' + Blocks(p)'
        /\ Len(Orders(p)) = Ready(p) + Queued(p) + Blocks(p)
        /\ Len(Orders(p))' = Ready(p)' + Queued(p)' + Blocks(p)'
    BY <1>5 DEF ListParts
  <2>2. Joined(p)' + Blocks(p)' = (Joined(p) + Blocks(p)) - 1
    <3>1. (Joined(p) - 1) + Blocks(p) = (Joined(p) + Blocks(p)) - 1
      BY <1>a
    <3> QED BY <1>0, <3>1
  <2>3. Ready(p)' + Queued(p)' + Blocks(p)' =
          (Ready(p) + Queued(p) + Blocks(p)) - 1
    <3>1. (Ready(p) - 1) + Queued(p) + Blocks(p) =
            (Ready(p) + Queued(p) + Blocks(p)) - 1
      BY <1>a
    <3> QED BY <1>0, <3>1
  <2> QED BY <2>1, <2>2, <2>3
<1>b. /\ Len(Asking(p)) = Joined(p) + Blocks(p)
      /\ Len(Orders(p)) = Ready(p) + Queued(p) + Blocks(p)
  BY <1>6
<1>7. ASSUME NEW i \in 1 .. Len(Asking(p)) - 1
      PROVE  Asking(p)'[i] = Asking(p)[i + 1]
  <2>a. i \in 1 .. (Joined(p) + Blocks(p)) - 1
    BY <1>b
  <2>b. i \in Nat \ {0}
    BY <1>a, <2>a
  <2>0. /\ i \in 1 .. Len(Asking(p))' /\ i + 1 \in 1 .. Len(Asking(p))
        /\ i <= Joined(p)' <=> i + 1 <= Joined(p)
    <3>2. i + 1 \in 1 .. Joined(p) + Blocks(p)
      BY <1>a, <2>a
    <3>3. i <= Joined(p) - 1 <=> i + 1 <= Joined(p)
      BY <1>a, <2>b
    <3> QED BY <1>0, <1>6, <3>2, <3>3
  <2>1. CASE i + 1 <= Joined(p)
    <3>1. i \in 1 .. Joined(p) - 1
      BY <1>a, <2>b, <2>1
    <3>2. Asking(p)'[i] = waiting'[p][i] /\ Asking(p)[i + 1] = waiting[p][i + 1]
      BY <1>5, <2>0, <2>1 DEF ListParts
    <3> QED BY <1>1, <3>1, <3>2
  <2>2. CASE ~(i + 1 <= Joined(p))
    BY <1>3, <1>5, <2>0, <2>2 DEF ListParts
  <2> QED BY <2>1, <2>2
<1>8. ASSUME NEW i \in 1 .. Len(Orders(p)) - 1
      PROVE  Orders(p)'[i] = Orders(p)[i + 1]
  <2>a. i \in 1 .. (Ready(p) + Queued(p) + Blocks(p)) - 1
    BY <1>b
  <2>b. i \in Nat \ {0}
    BY <1>a, <2>a
  <2>0. /\ i \in 1 .. Len(Orders(p))' /\ i + 1 \in 1 .. Len(Orders(p))
        /\ i <= Ready(p)' <=> i + 1 <= Ready(p)
        /\ i <= Ready(p)' + Queued(p) <=> i + 1 <= Ready(p) + Queued(p)
        /\ i - Ready(p)' = (i + 1) - Ready(p)
    <3>2. i + 1 \in 1 .. Ready(p) + Queued(p) + Blocks(p)
      BY <1>a, <2>a
    <3>3. i <= Ready(p) - 1 <=> i + 1 <= Ready(p)
      BY <1>a, <2>b
    <3>4. i <= Ready(p) - 1 + Queued(p) <=> i + 1 <= Ready(p) + Queued(p)
      BY <1>a, <2>b
    <3>5. i - (Ready(p) - 1) = (i + 1) - Ready(p)
      BY <1>a, <2>b
    <3> QED BY <1>0, <1>6, <3>2, <3>3, <3>4, <3>5
  <2>1. CASE i + 1 <= Ready(p)
    <3>1. i \in 1 .. Ready(p) - 1
      BY <1>a, <2>b, <2>1
    <3>2. Orders(p)'[i] = replies'[p][i] /\ Orders(p)[i + 1] = replies[p][i + 1]
      BY <1>5, <2>0, <2>1 DEF ListParts
    <3> QED BY <1>2, <3>1, <3>2
  <2>2. CASE ~(i + 1 <= Ready(p))
    BY <1>3, <1>5, <2>0, <2>2 DEF ListParts
  <2> QED BY <2>1, <2>2
<1>9. /\ 1 \in 1 .. Len(Asking(p)) /\ 1 <= Joined(p)
      /\ 1 \in 1 .. Len(Orders(p)) /\ 1 <= Ready(p)
  <2>1. 1 \in 1 .. Joined(p) + Blocks(p) /\ 1 <= Joined(p)
    BY <1>a
  <2>2. 1 \in 1 .. Ready(p) + Queued(p) + Blocks(p) /\ 1 <= Ready(p)
    BY <1>a
  <2> QED BY <1>6, <2>1, <2>2
<1>10. Orders(p)[1] = replies[p][1] /\ Asking(p)[1] = waiting[p][1]
  BY <1>5, <1>9 DEF ListParts
<1>11. DOMAIN Orders(p) = 1 .. Len(Orders(p))
  BY <1>5, LenProperties DEF ListParts
<1>12. Len(Orders(p)) # 0
  BY <1>9
<1> QED BY <1>6, <1>7, <1>8, <1>9, <1>10, <1>11, <1>12 DEF PoppedList

(* The first answer is read and the first client popped. *)
LEMMA PopPops ==
  ASSUME TypeOK, TypeOK', NEW p \in Perfs, replies[p] # <<>>, waiting[p] # <<>>,
         replies'[p] = Tail(replies[p]), waiting'[p] = Tail(waiting[p]),
         cmds'[p] = cmds[p], sending' = sending
  PROVE  /\ PoppedList(p) /\ Len(Orders(p)) # 0
         /\ Orders(p)[1] = Head(replies[p]) /\ Asking(p)[1] = Head(waiting[p])
         /\ 1 \in DOMAIN Orders(p)
<1>1. /\ Joined(p)' = Joined(p) - 1 /\ Joined(p) \in Nat \ {0}
      /\ \A i \in 1 .. Joined(p) - 1 : waiting'[p][i] = waiting[p][i + 1]
      /\ waiting[p][1] = Head(waiting[p])
  BY AtFront DEF TypeOK, Joined
<1>2. /\ Ready(p)' = Ready(p) - 1 /\ Ready(p) \in Nat \ {0}
      /\ \A i \in 1 .. Ready(p) - 1 : replies'[p][i] = replies[p][i + 1]
      /\ replies[p][1] = Head(replies[p])
  BY AtFront DEF TypeOK, Ready
<1>3. Queued(p)' = Queued(p) /\ Queued(p) \in Nat
  BY DEF TypeOK, Queued
<1>4. Blocks(p)' = Blocks(p) /\ Blocks(p) \in Nat
  BY DEF Blocks
<1>5. ListParts(p) /\ ListParts(p)'
  BY PartsBoth
<1>6. TakesFirst(p)
  BY <1>1, <1>2, <1>3, <1>4, <1>5 DEF TakesFirst
<1>7. /\ PoppedList(p) /\ Len(Orders(p)) # 0
      /\ Orders(p)[1] = replies[p][1] /\ Asking(p)[1] = waiting[p][1]
      /\ 1 \in DOMAIN Orders(p)
  BY <1>6, TakenIsPopped
<1> QED BY <1>1, <1>2, <1>7
-----------------------------------------------------------------------------
(* What a client is owed *)

(* The answers that come late, as ServerPeer has them, and their commands. *)
Lates == {"SOCKET_OK", "RESULT"}
Zero == [k \in Lates |-> 0]
KindFor(k) == IF k = "RESULT" THEN "MEASURE" ELSE "SOCKET"

(* What a client is owed: nothing outside have_perf, or when that cannot be
   told; and a peer without an object is never astray. *)
OwedWell(c) ==
  /\ OwedTo(c) \in [Lates -> Nat]
  /\ fsm[c] # "have_perf" \/ ~Serving \/ Astray(c) => OwedTo(c) = Zero
  /\ fsm[c] # "none" /\ Serving /\ ~Astray(c) =>
       \A k \in Lates : OwedTo(c)[k] = Cardinality(Awaited(c, KindFor(k)))
  /\ fsm[c] = "none" => ~Astray(c)
  /\ ~Serving => ~Astray(c)

(* The object at a place of a list that was not freed is in have_perf. *)
LEMMA PlacesAreHeld ==
  ASSUME ServerInv, Serving, NEW c \in Clients, ~Astray(c), NEW p \in Perfs,
         NEW i \in DOMAIN Asking(p), Asking(p)[i] = addr[c]
  PROVE  fsm[c] = "have_perf"
<1>1. /\ i \in 1 .. Len(Asking(p)) /\ Asking(p)[i] \in Addrs
      /\ Asking(p)[i] = IF i <= Joined(p) THEN waiting[p][i] ELSE sending.ptr
      /\ Len(Asking(p)) = Joined(p) + Blocks(p)
      /\ Joined(p) \in Nat
  <2>1. Asking(p) \in Seq(Addrs)
    BY ListsAre DEF ServerInv, ListParts
  <2>2. i \in 1 .. Len(Asking(p)) /\ Asking(p)[i] \in Addrs
    BY <2>1, LenProperties, ElementOfSeq
  <2> QED BY <2>2, ListsAre DEF ServerInv, ListParts
<1>2. addr[c] \notin stale /\ addr[c] # NoAddr
  BY <1>1 DEF Astray, Said
<1>3. CASE i <= Joined(p)
  <2>1. i \in 1 .. Len(waiting[p]) /\ waiting[p][i] = addr[c]
    BY <1>1, <1>3 DEF Joined
  <2>2. PICK d \in Clients : addr[d] = addr[c] /\ fsm[d] = "have_perf"
    BY <1>2, <2>1 DEF ServerInv, Order, WaitersKeepTheirPerf
  <2> QED BY <1>2, <2>2 DEF ServerInv, Objects
<1>4. CASE ~(i <= Joined(p))
  <2>1. Blocks(p) # 0
    BY <1>1, <1>4
  <2>2. sending.to = p /\ sending.ptr = addr[c]
    BY <1>1, <1>4, <2>1 DEF Blocks
  <2>3. srv = "sending" /\ sending.cmd.by \in Clients
    BY <2>2 DEF ServerInv, TypeOK, NotBlocked, Blocked, Command
  <2>4. addr[sending.cmd.by] = addr[c] /\ fsm[sending.cmd.by] = "have_perf"
    BY <2>2, <2>3 DEF ServerInv, Order
  <2> QED BY <1>2, <2>3, <2>4 DEF ServerInv, Objects
<1> QED BY <1>3, <1>4

(* What is owed is the number of places awaited. *)
LEMMA OwedIs == ServerInv => \A c \in Clients : OwedWell(c)
<1> SUFFICES ASSUME ServerInv, NEW c \in Clients PROVE OwedWell(c)
  OBVIOUS
<1>1. \A k \in Lates : KindFor(k) \in Kinds
  BY DEF KindFor, Kinds
<1>2. \A k \in Lates : Cardinality(Awaited(c, KindFor(k))) \in Nat
  BY <1>1, AwaitedPairs DEF ServerInv, AwaitedWell
<1>3. OwedTo(c) = [k \in Lates |->
        IF ~Serving \/ fsm[c] = "none" \/ Astray(c) THEN 0
        ELSE Cardinality(Awaited(c, KindFor(k)))]
  BY DEF OwedTo, Lates, KindFor, Said
<1>4. OwedTo(c) \in [Lates -> Nat]
  BY <1>2, <1>3
<1>5. fsm[c] = "none" => ~Astray(c)
  <2> SUFFICES ASSUME fsm[c] = "none" PROVE ~Astray(c)
    OBVIOUS
  <2>1. addr[c] = NoAddr /\ addr[c] \notin stale
    BY DEF ServerInv, Objects, TypeOK
  <2>2. ASSUME NEW p \in Perfs PROVE ~In(addr[c], Asking(p))
    <3>1. Asking(p) \in Seq(Addrs)
      BY ListsAre DEF ServerInv, ListParts
    <3>2. \A i \in DOMAIN Asking(p) : Asking(p)[i] \in Addrs
      BY <3>1, LenProperties, ElementOfSeq
    <3> QED BY <2>1, <3>2 DEF In
  <2> QED BY <2>1, <2>2 DEF Astray, Said
<1>6. ~Serving => ~Astray(c)
  BY DEF Astray, Said
<1>7. CASE ~Serving \/ Astray(c)
  BY <1>3, <1>4, <1>5, <1>6, <1>7 DEF OwedWell, Zero
<1>8. CASE Serving /\ ~Astray(c) /\ fsm[c] = "have_perf"
  BY <1>3, <1>4, <1>8 DEF OwedWell
<1>9. CASE Serving /\ ~Astray(c) /\ fsm[c] # "have_perf"
  <2>1. ASSUME NEW kind PROVE Cardinality(Awaited(c, kind)) = 0
    <3>1. Awaited(c, kind) = {}
      <4> SUFFICES ASSUME NEW p \in Perfs, NEW i, Place(c, kind, p, i)
                   PROVE  FALSE
        BY AwaitedIs
      <4>1. i \in DOMAIN Asking(p)
        BY <1>9, ListSizes DEF Sized, Place
      <4> QED BY <1>9, <4>1, PlacesAreHeld DEF Place
    <3> QED BY <3>1, FS_EmptySet
  <2> QED BY <1>3, <1>4, <1>9, <2>1 DEF OwedWell, Zero
<1> QED BY <1>7, <1>8, <1>9

(* The same in both states of a step. *)
LEMMA OwedBoth ==
  ServerInv /\ ServerInv' => \A c \in Clients : OwedWell(c) /\ OwedWell(c)'
<1> DEFINE All == \A c \in Clients : OwedWell(c)
<1>1. ServerInv => All
  BY OwedIs
<1>2. (ServerInv => All)'
  BY <1>1, PTL
<1> QED BY <1>1, <1>2

(* What a step does to what c is owed, while c is not astray. *)
LEMMA OweWhen ==
  ASSUME ServerInv, ServerInv', NEW c \in Clients, NEW new,
         ~Astray(c) /\ ~Astray(c)' => OwedTo(c)' = new
  PROVE  Peer(c)!Owe(new)
<1>1. OwedWell(c)'
  BY OwedBoth
<1> QED BY <1>1 DEF OwedWell, Zero, Lates, Peer!Owe, Peer!Nothing, Peer!Late

(* Who is not in have_perf afterwards is owed nothing then. *)
LEMMA NothingOwed ==
  ASSUME ServerInv, ServerInv', NEW c \in Clients, fsm'[c] # "have_perf"
  PROVE  /\ Peer(c)!Owe(Peer(c)!Nothing)
         /\ fsm[c] # "have_perf" => Peer(c)!Owe(OwedTo(c))
<1>1. OwedWell(c) /\ OwedWell(c)' /\ Peer(c)!Nothing = Zero
  BY OwedBoth DEF Zero, Lates, Peer!Nothing, Peer!Late
<1>2. OwedTo(c)' = Zero /\ (fsm[c] # "have_perf" => OwedTo(c) = Zero)
  BY <1>1 DEF OwedWell
<1> QED BY <1>1, <1>2, OweWhen

(* The places that c awaits have changed by a number for each kind. *)
LEMMA OweCounted ==
  ASSUME Serves, NEW c \in Clients, fsm[c] # "none", fsm'[c] # "none",
         NEW new \in [Lates -> Nat],
         ~Astray(c) /\ ~Astray(c)' =>
           \A k \in Lates : Cardinality(Awaited(c, KindFor(k))') = new[k]
  PROVE  Peer(c)!Owe(new)
<1>1. ServerInv /\ ServerInv' /\ Serving'
  BY DEF Serves
<1>2. OwedWell(c)'
  BY <1>1, OwedBoth
<1>3. ASSUME ~Astray(c), ~Astray(c)' PROVE OwedTo(c)' = new
  <2>1. OwedTo(c)' \in [Lates -> Nat]
    BY <1>2 DEF OwedWell
  <2>2. \A k \in Lates : OwedTo(c)'[k] = Cardinality(Awaited(c, KindFor(k))')
    BY <1>1, <1>2, <1>3 DEF OwedWell
  <2>3. \A k \in Lates : OwedTo(c)'[k] = new[k]
    BY <1>3, <2>2
  <2> QED BY <2>1, <2>3
<1> QED BY <1>1, <1>3, OweWhen

(* What is owed is what is awaited. *)
LEMMA OwedNow ==
  ASSUME Serves, NEW c \in Clients, fsm[c] # "none"
  PROVE  /\ OwedTo(c) \in [Lates -> Nat]
         /\ ~Astray(c) => \A k \in Lates :
              /\ KindFor(k) \in Kinds
              /\ OwedTo(c)[k] = Cardinality(Awaited(c, KindFor(k)))
<1>1. OwedWell(c)
  BY OwedBoth DEF Serves
<1> QED BY <1>1 DEF OwedWell, Serves, KindFor, Kinds

(* The lists and the object of c are as they were. *)
LEMMA SameOwed ==
  ASSUME Serves, NEW c \in Clients, Stays(c), fsm[c] # "none", fsm'[c] # "none",
         \A p \in Perfs : SameList(p)
  PROVE  Peer(c)!Owe(OwedTo(c))
<1>1. ASSUME ~Astray(c), NEW k \in Lates
      PROVE  Cardinality(Awaited(c, KindFor(k))') = OwedTo(c)[k]
  BY <1>1, OwedNow, SameAwaited
<1> QED BY <1>1, OwedNow, OweCounted

(* The lists live in the pipes. *)
LEMMA ListsUntouched ==
  UNCHANGED pipes => \A p \in Perfs : SameList(p)
  BY ListUntouched DEF pipes

(* The reply of a step as c sees it. *)
LEMMA SaidIs ==
  ASSUME NEW c \in Clients, NEW d \in Clients \cup {Nobody}, NEW id,
         reply' = [to |-> d, id |-> id]
  PROVE  /\ c # d => Said(c)' = "nothing"
         /\ c = d /\ id # "ERROR" => Said(c)' = id
         /\ c = d /\ id = "ERROR" => Said(c)' =
              IF msg'.status = "COMMAND_INVALID" THEN "INVALID" ELSE "ERROR"
  BY DEF Said

(* A silent step tells nobody anything. *)
LEMMA NothingSaid == Silent => \A c \in Clients : Said(c)' = "nothing"
  BY DEF Silent, NoReply, Said

(* A step of others, to a client in the state it was in. *)
LEMMA OthersStep ==
  ASSUME Serves, NEW c \in Clients, Said(c)' = "nothing",
         fsm'[c] = fsm[c] \/ {fsm[c], fsm'[c]} \subseteq {"none", "start"},
         msg'.status \in {msg.status, "COMMAND_INVALID"},
         Peer(c)!Owe(OwedTo(c))
  PROVE  Peer(c)!Next
<1>1. PeerOf(c)' = PeerOf(c)
  BY DEF PeerOf, Serves, Said
<1>2. Tainted' \in {Tainted, TRUE}
  BY DEF Tainted, Serves
<1> QED BY <1>1, <1>2 DEF Peer!Next, Peer!Others

(* Nothing changes for a client but perhaps the status of the message. *)
LEMMA OtherStays ==
  ASSUME Serves, NEW c \in Clients, fsm'[c] = fsm[c], Stays(c),
         \A p \in Perfs : SameList(p), Said(c)' = "nothing",
         msg'.status \in {msg.status, "COMMAND_INVALID"}
  PROVE  Peer(c)!Next
<1>1. CASE fsm[c] = "none"
  BY <1>1, NothingOwed, OthersStep DEF Serves
<1>2. CASE fsm[c] # "none"
  BY <1>2, SameOwed, OthersStep
<1> QED BY <1>1, <1>2
-----------------------------------------------------------------------------
(* A message of a client *)

(* What a request does that no perf is told of: to the others nothing but
   perhaps the status. *)
LEMMA ChatTells ==
  ASSUME TypeOK, NEW c \in Clients, NEW m \in Requests,
         Chat(c, m) \/ CreatePerf(c, m)
  PROVE  /\ \E id : reply' = [to |-> c, id |-> id]
         /\ msg'.status \in {msg.status, "COMMAND_INVALID"}
         /\ UNCHANGED pipes
         /\ \A d \in Clients \ {c} : fsm'[d] = fsm[d] /\ Stays(d)
<1>1. Received(m).status = msg.status
  BY DEF Received
<1>2. msg \in Message /\ Received(m) \in Message
  BY ReceivedType DEF TypeOK
<1>3. \A a, s : Enter(c, a, s) =>
        \A d \in Clients \ {c} : fsm'[d] = fsm[d] /\ addr'[d] = addr[d]
  BY DEF Enter, TypeOK
<1>4. Leave(c) => \A d \in Clients \ {c} : fsm'[d] = fsm[d] /\ addr'[d] = addr[d]
  BY DEF Leave, TypeOK
<1>5. CASE Hello(c, m) \/ Ping(c, m) \/ LookupPerf(c, m)
  BY <1>1, <1>3, <1>5 DEF Hello, Ping, LookupPerf, Send, Stays, pipes
<1>6. CASE Goodbye(c, m)
  BY <1>1, <1>4, <1>6 DEF Goodbye, Send, Stays, pipes
<1>7. CASE FailRequest(c, m)
  BY <1>1, <1>4, <1>7 DEF FailRequest, Raise, Send, Stays, pipes
<1>8. CASE RejectRequest(c, m)
  BY <1>2, <1>4, <1>8 DEF RejectRequest, Reject, Send, Stays, pipes, Message
<1>9. CASE CreatePerf(c, m)
  <2>1. PICK p \in Perfs : msg' = [Received(m) EXCEPT !.ident = p]
    BY <1>9 DEF CreatePerf
  <2>2. msg'.status = msg.status
    BY <1>1, <1>2, <2>1 DEF Message
  <2> QED BY <1>3, <1>9, <2>2 DEF CreatePerf, Send, Stays, pipes
<1> QED BY <1>5, <1>6, <1>7, <1>8, <1>9 DEF Chat

(* To the other clients such a request is a step of others. *)
LEMMA ChatOthers ==
  ASSUME Serves, NEW c \in Clients, NEW m \in Requests,
         Chat(c, m) \/ CreatePerf(c, m), NEW d \in Clients \ {c}
  PROVE  Peer(d)!Next
<1>1. PICK id : reply' = [to |-> c, id |-> id]
  BY ChatTells DEF Serves, ServerInv
<1>2. Said(d)' = "nothing"
  BY <1>1, SaidIs
<1>3. \A p \in Perfs : SameList(p)
  BY ChatTells, ListsUntouched DEF Serves, ServerInv
<1>4. /\ fsm'[d] = fsm[d] /\ Stays(d)
      /\ msg'.status \in {msg.status, "COMMAND_INVALID"}
  BY ChatTells DEF Serves, ServerInv
<1> QED BY <1>2, <1>3, <1>4, OtherStays

(* What is handled is a step of ServerPeer. *)
LEMMA HandleIsNext ==
  ASSUME NEW c, NEW t \in Peer(c)!Requests, Peer(c)!Handle(t, Said(c)')
  PROVE  Peer(c)!Next
  BY DEF Peer!Next

(* HELLO gets a client from start_state to connected. *)
LEMMA HelloServes ==
  ASSUME Serves, NEW c \in Clients, NEW m \in Requests, Hello(c, m)
  PROVE  Peer(c)!Next
<1>1. Said(c)' = "HELLO_OK"
  BY SaidIs DEF Hello, Send
<1>2. /\ fsm[c] \in {"none", "start"} /\ fsm'[c] = "connected"
      /\ msg'.status = msg.status
  BY DEF Hello, StateOf, Enter, Goes, Received, Serves, ServerInv, TypeOK
<1>3. PeerOf(c) = "none" /\ PeerOf(c)' = "connected" /\ Tainted' = Tainted
  BY <1>2 DEF PeerOf, Said, Tainted, Serves
<1>4. Peer(c)!Owe(OwedTo(c))
  BY <1>2, NothingOwed DEF Serves
<1>5. Peer(c)!Serve("HELLO", Said(c)')
  BY <1>1, <1>3, <1>4
     DEF Peer!Serve, Peer!Admits, Peer!ReplyTo, Peer!Goes, Peer!LateFor
<1> QED BY <1>5, HandleIsNext DEF Peer!Handle, Peer!Requests, Peer!Admits

(* PING is answered in every state, and changes none. *)
LEMMA PingServes ==
  ASSUME Serves, NEW c \in Clients, NEW m \in Requests, Ping(c, m)
  PROVE  Peer(c)!Next
<1>1. Said(c)' = "PING_OK"
  BY SaidIs DEF Ping, Send
<1>2. PICK a \in ObjectOf(c) : Enter(c, a, StateOf(c))
  BY DEF Ping, Goes
<1>3. fsm'[c] = StateOf(c) /\ addr'[c] = a /\ msg'.status = msg.status
  BY <1>2 DEF Ping, Enter, Received, Serves, ServerInv, TypeOK
<1>4. PeerOf(c)' = PeerOf(c) /\ Tainted' = Tainted
  BY <1>3 DEF StateOf, PeerOf, Said, Tainted, Serves
<1>5. PeerOf(c) \in {"none", "connected", "have_perf"}
  BY DEF PeerOf, Said, Serves, ServerInv, TypeOK, States
<1>6. Peer(c)!Owe(OwedTo(c))
  <2>1. CASE fsm[c] = "none"
    BY <1>3, <2>1, NothingOwed DEF StateOf, Serves
  <2>2. CASE fsm[c] # "none"
    <3>1. Stays(c) /\ fsm'[c] # "none"
      BY <1>2, <1>3, <2>2 DEF StateOf, ObjectOf, Stays
    <3>2. \A p \in Perfs : SameList(p)
      BY ListsUntouched DEF Ping
    <3> QED BY <2>2, <3>1, <3>2, SameOwed
  <2> QED BY <2>1, <2>2
<1>7. Peer(c)!Serve("PING", Said(c)')
  BY <1>1, <1>4, <1>5, <1>6
     DEF Peer!Serve, Peer!Admits, Peer!ReplyTo, Peer!Goes, Peer!LateFor
<1> QED BY <1>7, HandleIsNext DEF Peer!Handle, Peer!Requests, Peer!Admits

(* GOODBYE is answered in every state, and ends them all. *)
LEMMA GoodbyeServes ==
  ASSUME Serves, NEW c \in Clients, NEW m \in Requests, Goodbye(c, m)
  PROVE  Peer(c)!Next
<1>1. Said(c)' = "GOODBYE_OK"
  BY SaidIs DEF Goodbye, Send
<1>2. fsm'[c] = "none" /\ msg'.status = msg.status
  BY DEF Goodbye, Leave, Received, Serves, ServerInv, TypeOK
<1>3. PeerOf(c)' = "none" /\ Tainted' = Tainted
  BY <1>2 DEF PeerOf, Said, Tainted, Serves
<1>4. PeerOf(c) \in {"none", "connected", "have_perf"}
  BY DEF PeerOf, Said, Serves, ServerInv, TypeOK, States
<1>5. Peer(c)!Owe(Peer(c)!Nothing)
  BY <1>2, NothingOwed DEF Serves
<1>6. Peer(c)!Serve("GOODBYE", Said(c)')
  BY <1>1, <1>3, <1>4, <1>5
     DEF Peer!Serve, Peer!Admits, Peer!ReplyTo, Peer!Goes, Peer!LateFor
<1> QED BY <1>6, HandleIsNext DEF Peer!Handle, Peer!Requests, Peer!Admits

(* CREATE, LOOKUP and INFO leave a client in have_perf. *)
LEMMA PerfServes ==
  ASSUME Serves, NEW c \in Clients, NEW m \in Requests,
         CreatePerf(c, m) \/ LookupPerf(c, m)
  PROVE  Peer(c)!Next
<1>1. /\ m.type \in {"CREATE", "LOOKUP", "INFO"}
      /\ m.type \in Accepted[StateOf(c)] /\ StateOf(c) \in States \ {"none"}
      /\ reply' = [to |-> c, id |-> IF m.type = "INFO" THEN "INFO_OK"
                                    ELSE "PERF_OK"]
      /\ Enter(c, addr[c], Goes(m.type, fsm[c]))
  BY StateOfType DEF CreatePerf, LookupPerf, Send, Serves, ServerInv
<1>2. /\ fsm[c] \in {"connected", "have_perf"}
      /\ m.type = "INFO" => fsm[c] = "have_perf"
  <2>1. /\ StateOf(c) \in {"connected", "have_perf"}
        /\ m.type = "INFO" => StateOf(c) = "have_perf"
    BY <1>1 DEF Accepted, States
  <2> QED BY <2>1 DEF StateOf
<1>3. fsm'[c] = "have_perf" /\ Stays(c)
  BY <1>1 DEF Enter, Goes, Stays, Serves, ServerInv, TypeOK
<1>4. msg'.status = msg.status
  <2>1. Received(m) \in Message /\ Received(m).status = msg.status
    BY ReceivedType DEF Received, Serves, ServerInv
  <2>2. CASE CreatePerf(c, m)
    <3>1. PICK p \in Perfs : msg' = [Received(m) EXCEPT !.ident = p]
      BY <2>2 DEF CreatePerf
    <3> QED BY <2>1, <3>1 DEF Message
  <2> QED BY <2>1, <2>2 DEF LookupPerf
<1>5. Said(c)' = IF m.type = "INFO" THEN "INFO_OK" ELSE "PERF_OK"
  BY <1>1, SaidIs
<1>6. /\ PeerOf(c) = fsm[c] /\ PeerOf(c)' = "have_perf" /\ Tainted' = Tainted
  BY <1>2, <1>3, <1>4 DEF PeerOf, Said, Tainted, Serves
<1>7. Peer(c)!Owe(OwedTo(c))
  <2>1. \A p \in Perfs : SameList(p)
    BY ListsUntouched DEF CreatePerf, LookupPerf, pipes
  <2> QED BY <1>2, <1>3, <2>1, SameOwed
<1>8. Peer(c)!Serve(m.type, Said(c)')
  <2>1. PeerOf(c) \in Peer(c)!Admits[m.type]
    BY <1>1, <1>2, <1>6 DEF Peer!Admits
  <2>2. Said(c)' = Peer(c)!ReplyTo[m.type]
    BY <1>1, <1>5 DEF Peer!ReplyTo
  <2>3. PeerOf(c)' = Peer(c)!Goes(m.type)
    BY <1>1, <1>2, <1>6 DEF Peer!Goes
  <2>4. m.type # "GOODBYE" /\ m.type \notin DOMAIN Peer(c)!LateFor
    BY <1>1 DEF Peer!LateFor
  <2> QED BY <1>6, <1>7, <2>1, <2>2, <2>3, <2>4 DEF Peer!Serve
<1>9. m.type \in Peer(c)!Requests
  BY <1>1 DEF Peer!Requests, Peer!Admits
<1> QED BY <1>8, <1>9, HandleIsNext DEF Peer!Handle

RequestTypes == {"HELLO", "PING", "GOODBYE", "OTHER", "CREATE", "LOOKUP",
                 "INFO", "SOCKET", "MEASURE"}

(* A request has one of the types. *)
LEMMA TypesAre == \A m \in Requests : m.type \in RequestTypes
  BY DEF Requests, Plain, Creates, Named, Sockets, Measures, RequestTypes

(* ServerPeer admits what the machine of the client has an event for. *)
LEMMA AdmitsIs ==
  ASSUME Serves, NEW c \in Clients, NEW m \in Requests
  PROVE  /\ PeerOf(c) \in Peer(c)!Admits[Kind(m)] <=>
              m.type \in Accepted[StateOf(c)]
         /\ Kind(m) \in Peer(c)!Requests
         /\ PeerOf(c) # "down"
<1>1. m.type \in RequestTypes
  BY TypesAre
<1>2. StateOf(c) \in {"start", "connected", "have_perf"}
  BY StateOfType DEF States, Serves, ServerInv
<1>3. PeerOf(c) = IF StateOf(c) = "start" THEN "none" ELSE StateOf(c)
  BY DEF PeerOf, Said, StateOf, Serves
<1>4. CASE StateOf(c) = "start"
  BY <1>1, <1>3, <1>4
     DEF RequestTypes, Accepted, Kind, Peer!Admits, Peer!Requests
<1>5. CASE StateOf(c) = "connected"
  BY <1>1, <1>3, <1>5
     DEF RequestTypes, Accepted, Kind, Peer!Admits, Peer!Requests
<1>6. CASE StateOf(c) = "have_perf"
  BY <1>1, <1>3, <1>6
     DEF RequestTypes, Accepted, Kind, Peer!Admits, Peer!Requests
<1> QED BY <1>2, <1>4, <1>5, <1>6

(* A request for no perf, or with arguments that are none, is refused. *)
LEMMA FailRefuses ==
  ASSUME Serves, NEW c \in Clients, NEW m \in Requests, FailRequest(c, m)
  PROVE  Peer(c)!Refuse(Kind(m), Said(c)')
<1>1. /\ m.type \in {"LOOKUP", "INFO", "SOCKET", "MEASURE"} /\ Kind(m) = m.type
      /\ m.type \in Accepted[StateOf(c)]
      /\ reply' = [to |-> c, id |-> "ERROR"]
      /\ msg'.status = msg.status
  BY DEF FailRequest, Kind, Raise, Send, Received
<1>2. fsm'[c] = "none"
  BY DEF FailRequest, Raise, Leave, Serves, ServerInv, TypeOK
<1>3. Said(c)' = IF Tainted THEN "INVALID" ELSE "ERROR"
  <2>1. Said(c)' = IF msg'.status = "COMMAND_INVALID" THEN "INVALID" ELSE "ERROR"
    BY <1>1, SaidIs
  <2> QED BY <1>1, <2>1 DEF Tainted, Serves
<1>4. PeerOf(c)' = "none" /\ Tainted' = Tainted
  BY <1>1, <1>2 DEF PeerOf, Said, Tainted, Serves
<1>5. Peer(c)!Owe(Peer(c)!Nothing)
  BY <1>2, NothingOwed DEF Serves
<1>6. PeerOf(c) \in Peer(c)!Admits[Kind(m)]
  BY <1>1, AdmitsIs
<1> QED BY <1>1, <1>3, <1>4, <1>5, <1>6 DEF Peer!Refuse

(* The machine of c takes what it is given for an invalid command. *)
LEMMA RejectDrops ==
  ASSUME Serves, NEW c \in Clients, NEW w \in Message, Reject(c, w)
  PROVE  Peer(c)!Drop(Said(c)')
<1>1. /\ reply' = [to |-> c, id |-> "ERROR"]
      /\ msg'.status = "COMMAND_INVALID"
  BY DEF Reject, Send, Message
<1>2. fsm'[c] = "none"
  BY DEF Reject, Leave, Serves, ServerInv, TypeOK
<1>3. Said(c)' = "INVALID"
  BY <1>1, SaidIs
<1>4. PeerOf(c)' = "none" /\ Tainted' = TRUE
  BY <1>1, <1>2 DEF PeerOf, Said, Tainted, Serves
<1>5. Peer(c)!Owe(Peer(c)!Nothing)
  BY <1>2, NothingOwed DEF Serves
<1> QED BY <1>3, <1>4, <1>5 DEF Peer!Drop

(* A request the state has no event for is rejected. *)
LEMMA RejectRejects ==
  ASSUME Serves, NEW c \in Clients, NEW m \in Requests, RejectRequest(c, m)
  PROVE  Peer(c)!Reject(Kind(m), Said(c)')
<1>1. m.type \notin Accepted[StateOf(c)] /\ Reject(c, Received(m))
  BY DEF RejectRequest
<1>2. Received(m) \in Message
  BY ReceivedType DEF Serves, ServerInv
<1>3. Peer(c)!Drop(Said(c)')
  BY <1>1, <1>2, RejectDrops
<1>4. PeerOf(c) # "down" /\ PeerOf(c) \notin Peer(c)!Admits[Kind(m)]
  BY <1>1, AdmitsIs
<1> QED BY <1>3, <1>4 DEF Peer!Reject

(* A SOCKET or a MEASURE goes to the perf it names, or waits to. *)
LEMMA CommandGrows ==
  ASSUME Serves, srv = "running", NEW c \in Clients, NEW m \in Requests,
         CommandPerf(c, m)
  PROVE  /\ m.ident \in Perfs /\ GrownList(m.ident, addr[c], m.type)
         /\ \A q \in Perfs \ {m.ident} : SameList(q)
         /\ fsm[c] = "have_perf" /\ addr[c] \in Addrs
         /\ m.type \in {"SOCKET", "MEASURE"}
<1> DEFINE p == m.ident
           cmd == [kind |-> m.type, by |-> c,
                   msgsize |-> IF m.type = "MEASURE" THEN m.msgsize ELSE NoSize]
<1>1. p \in Perfs /\ m.type \in {"SOCKET", "MEASURE"}
  BY DEF CommandPerf, Found
<1>2. cmd \in Command /\ cmd.kind = m.type
  BY DEF CommandPerf, Command, Requests, Plain, Creates, Named, Sockets,
         Measures, AnySize
<1>3. fsm[c] = "have_perf"
  <2>1. StateOf(c) \in {"start", "connected", "have_perf"}
    BY StateOfType DEF States, Serves, ServerInv
  <2>2. StateOf(c) = "have_perf"
    BY <2>1 DEF CommandPerf, Accepted
  <2> QED BY <2>2 DEF StateOf
<1>4. addr[c] \in Addrs
  BY <1>3 DEF Serves, ServerInv, TypeOK, Objects
<1>5. sending = NotBlocked /\ \A q \in Perfs : sending.to # q
  BY DEF Serves, ServerInv, TypeOK, NotBlocked
<1>6. replies' = replies
  BY DEF CommandPerf
<1>7. TypeOK /\ TypeOK'
  BY DEF Serves, ServerInv
<1> HIDE DEF p, cmd
<1>8. CASE Writable(p)
  <2>1. /\ cmds' = [cmds EXCEPT ![p] = Append(@, cmd)]
        /\ waiting' = [waiting EXCEPT ![p] = Append(@, addr[c])]
        /\ sending' = sending
    BY <1>8 DEF CommandPerf, cmd, p, Enqueue
  <2>2. /\ cmds'[p] = Append(cmds[p], cmd)
        /\ waiting'[p] = Append(waiting[p], addr[c])
        /\ \A q \in Perfs \ {p} : cmds'[q] = cmds[q] /\ waiting'[q] = waiting[q]
    BY <1>1, <1>7, <2>1 DEF TypeOK
  <2>3. GrownList(p, addr[c], cmd.kind)
    BY <1>1, <1>2, <1>4, <1>5, <1>6, <1>7, <2>1, <2>2, JoinGrows
  <2>4. \A q \in Perfs \ {p} : SameList(q)
    BY <1>6, <2>1, <2>2, ListUntouched
  <2> QED BY <1>1, <1>2, <1>3, <1>4, <2>3, <2>4 DEF p
<1>9. CASE ~Writable(p)
  <2>1. /\ sending' = [to |-> p, cmd |-> cmd, ptr |-> addr[c]]
        /\ UNCHANGED <<cmds, waiting>>
    BY <1>9 DEF CommandPerf, cmd, p
  <2>2. GrownList(p, addr[c], cmd.kind)
    BY <1>1, <1>2, <1>4, <1>5, <1>6, <1>7, <2>1, BlockGrows
  <2>3. \A q \in Perfs \ {p} : SameList(q)
    BY <1>5, <1>6, <2>1, ListUntouched
  <2> QED BY <1>1, <1>2, <1>3, <1>4, <2>2, <2>3 DEF p
<1> QED BY <1>8, <1>9

(* A command is answered later, and moves no machine. *)
LEMMA CommandTells ==
  ASSUME NEW c \in Clients, NEW m \in Requests, CommandPerf(c, m)
  PROVE  /\ \A d \in Clients : Said(d)' = "nothing"
         /\ msg'.status = msg.status /\ UNCHANGED <<fsm, addr, skew>>
  BY NothingSaid DEF CommandPerf, Received

(* A client finds the places it waits at where they were when another one
   joins a list. *)
LEMMA CommandOthers ==
  ASSUME Serves, srv = "running", NEW c \in Clients, NEW m \in Requests,
         CommandPerf(c, m), NEW d \in Clients \ {c}
  PROVE  Peer(d)!Next
<1>1. CASE fsm[d] = "none"
  BY <1>1, NothingOwed, CommandTells, OthersStep DEF Serves
<1>2. CASE fsm[d] # "none"
  <2>1. addr[c] # addr[d] /\ Stays(d)
    BY CommandGrows, CommandTells DEF Serves, ServerInv, Objects, Stays
  <2>2. ASSUME ~Astray(d), ~Astray(d)', NEW k \in Lates
        PROVE  Cardinality(Awaited(d, KindFor(k))') = OwedTo(d)[k]
    <3>1. /\ KindFor(k) \in Kinds
          /\ OwedTo(d)[k] = Cardinality(Awaited(d, KindFor(k)))
          /\ OwedTo(d)[k] \in Nat
      BY <1>2, <2>2, OwedNow
    <3>2. Cardinality(Awaited(d, KindFor(k))') =
            Cardinality(Awaited(d, KindFor(k))) +
              (IF m.type = KindFor(k) /\ addr[c] = addr[d] THEN 1 ELSE 0)
      BY <2>1, <2>2, <3>1, CommandGrows, CommandTells, GrownAwaited
    <3> QED BY <2>1, <3>1, <3>2
  <2>3. Peer(d)!Owe(OwedTo(d))
    BY <1>2, <2>2, CommandTells, OwedNow, OweCounted
  <2> QED BY <2>3, CommandTells, OthersStep
<1> QED BY <1>1, <1>2

(* A client is owed one answer more for every command. *)
LEMMA CommandServes ==
  ASSUME Serves, srv = "running", NEW c \in Clients, NEW m \in Requests,
         CommandPerf(c, m)
  PROVE  Peer(c)!Next
<1> DEFINE new == [OwedTo(c) EXCEPT ![Peer(c)!LateFor[m.type]] = @ + 1]
<1>1. /\ fsm[c] = "have_perf" /\ m.type \in {"SOCKET", "MEASURE"}
      /\ fsm' = fsm /\ Stays(c) /\ skew' = skew
  BY CommandGrows, CommandTells DEF Stays
<1>2. /\ OwedTo(c) \in [Lates -> Nat] /\ Peer(c)!LateFor[m.type] \in Lates
      /\ \A k \in Lates : k = Peer(c)!LateFor[m.type] <=> KindFor(k) = m.type
  BY <1>1, OwedNow DEF Lates, KindFor, Peer!LateFor
<1>3. /\ new \in [Lates -> Nat]
      /\ \A k \in Lates : new[k] =
           OwedTo(c)[k] + (IF m.type = KindFor(k) THEN 1 ELSE 0)
  BY <1>2
<1> HIDE DEF new
<1>4. ASSUME ~Astray(c), ~Astray(c)', NEW k \in Lates
      PROVE  Cardinality(Awaited(c, KindFor(k))') = new[k]
  <2>1. /\ KindFor(k) \in Kinds
        /\ OwedTo(c)[k] = Cardinality(Awaited(c, KindFor(k)))
    BY <1>1, <1>4, OwedNow
  <2>2. Cardinality(Awaited(c, KindFor(k))') =
          Cardinality(Awaited(c, KindFor(k))) +
            (IF m.type = KindFor(k) /\ addr[c] = addr[c] THEN 1 ELSE 0)
    BY <1>1, <1>4, <2>1, CommandGrows, GrownAwaited
  <2> QED BY <1>3, <2>1, <2>2
<1>5. Peer(c)!Owe(new)
  BY <1>1, <1>3, <1>4, OweCounted
<1>6. Said(c)' = "nothing" /\ msg'.status = msg.status
  BY CommandTells
<1>7. PeerOf(c) = "have_perf" /\ PeerOf(c)' = "have_perf" /\ Tainted' = Tainted
  BY <1>1, <1>6 DEF PeerOf, Said, Tainted, Serves
<1>8. Peer(c)!Serve(m.type, Said(c)')
  <2>1. /\ PeerOf(c) \in Peer(c)!Admits[m.type]
        /\ Said(c)' = Peer(c)!ReplyTo[m.type]
        /\ PeerOf(c)' = Peer(c)!Goes(m.type)
        /\ m.type # "GOODBYE" /\ m.type \in DOMAIN Peer(c)!LateFor
    BY <1>1, <1>6, <1>7
       DEF Peer!Admits, Peer!ReplyTo, Peer!Goes, Peer!LateFor
  <2> QED BY <1>5, <1>7, <2>1 DEF Peer!Serve, new
<1>9. m.type \in Peer(c)!Requests
  BY <1>1 DEF Peer!Requests, Peer!Admits
<1> QED BY <1>8, <1>9, HandleIsNext DEF Peer!Handle

(* A message of c, for every client. *)
LEMMA ProtocolServes ==
  ASSUME Serves, NEW c \in Clients, NEW m \in Requests, HandleProtocol(c, m)
  PROVE  \A d \in Clients : Peer(d)!Next
<1>1. ASSUME FailRequest(c, m) \/ RejectRequest(c, m) PROVE Peer(c)!Next
  <2>1. Peer(c)!Handle(Kind(m), Said(c)')
    BY <1>1, FailRefuses, RejectRejects DEF Peer!Handle
  <2> QED BY <2>1, AdmitsIs, HandleIsNext
<1>2. CASE CommandPerf(c, m)
  BY <1>2, CommandServes, CommandOthers DEF HandleProtocol
<1>3. CASE Chat(c, m) \/ CreatePerf(c, m)
  <2>1. Peer(c)!Next
    BY <1>1, <1>3, HelloServes, PingServes, GoodbyeServes, PerfServes DEF Chat
  <2> QED BY <1>3, <2>1, ChatOthers
<1> QED BY <1>2, <1>3 DEF HandleProtocol, Chat
-----------------------------------------------------------------------------
(* The steps of the perfs, and the clock *)

(* A peer gets an object, or loses it, without a word. *)
LEMMA ObjectServes ==
  ASSUME Serves, NEW c \in Clients, HandleMalformed(c) \/ HandleTicket(c)
  PROVE  \A d \in Clients : Peer(d)!Next
<1>1. /\ \A d \in Clients : Said(d)' = "nothing"
      /\ \A p \in Perfs : SameList(p)
      /\ msg' = msg
  BY NothingSaid, ListsUntouched DEF HandleMalformed, HandleTicket
<1>2. \A d \in Clients \ {c} : fsm'[d] = fsm[d] /\ Stays(d)
  BY DEF HandleMalformed, HandleTicket, Enter, Leave, Stays, Serves, ServerInv,
         TypeOK
<1>3. ASSUME NEW d \in Clients \ {c} PROVE Peer(d)!Next
  BY <1>1, <1>2, OtherStays
<1>4. CASE HandleMalformed(c)
  <2>1. fsm[c] = "none" /\ fsm'[c] = "start"
    BY <1>4 DEF HandleMalformed, Enter, Serves, ServerInv, TypeOK
  <2>2. Peer(c)!Owe(OwedTo(c))
    BY <2>1, NothingOwed DEF Serves
  <2> QED BY <1>1, <1>3, <2>1, <2>2, OthersStep
<1>5. CASE HandleTicket(c)
  <2>1. fsm[c] \in {"start", "connected", "have_perf"} /\ fsm'[c] = "none"
    BY <1>5 DEF HandleTicket, Leave, Serves, ServerInv, TypeOK, States
  <2>2. CASE fsm[c] = "start"
    <3>1. Peer(c)!Owe(OwedTo(c))
      BY <2>1, <2>2, NothingOwed DEF Serves
    <3> QED BY <1>1, <1>3, <2>1, <2>2, <3>1, OthersStep
  <2>3. CASE fsm[c] # "start"
    <3>1. /\ PeerOf(c) \in {"connected", "have_perf"} /\ PeerOf(c)' = "none"
          /\ Tainted' = Tainted
      BY <1>1, <2>1, <2>3 DEF PeerOf, Said, Tainted, Serves
    <3>2. Peer(c)!Owe(Peer(c)!Nothing)
      BY <2>1, NothingOwed DEF Serves
    <3>3. Peer(c)!Next
      BY <1>1, <3>1, <3>2 DEF Peer!Next, Peer!Forget
    <3> QED BY <1>3, <3>3
  <2> QED BY <2>2, <2>3
<1> QED BY <1>4, <1>5

(* A step that leaves the lists and the clients as they are. *)
LEMMA QuietServes ==
  ASSUME Serves, Silent, UNCHANGED <<fsm, addr, msg>>,
         \A p \in Perfs : SameList(p)
  PROVE  \A d \in Clients : Peer(d)!Next
<1> SUFFICES ASSUME NEW d \in Clients PROVE Peer(d)!Next
  OBVIOUS
<1>1. Said(d)' = "nothing" /\ fsm'[d] = fsm[d] /\ Stays(d)
  BY NothingSaid DEF Stays
<1> QED BY <1>1, OtherStays

(* The return of a blocked send is nothing to any client. *)
LEMMA SendServes ==
  ASSUME Serves, SendReturns
  PROVE  \A d \in Clients : Peer(d)!Next
<1> DEFINE p == sending.to
<1>1. TypeOK /\ TypeOK'
  BY DEF Serves, ServerInv
<1>2. PICK q : q = p
  OBVIOUS
<1>3. q \in Perfs
  BY <1>1, <1>2 DEF SendReturns, TypeOK, Blocked
<1>4. /\ cmds' = [cmds EXCEPT ![q] = Append(@, sending.cmd)]
      /\ waiting' = [waiting EXCEPT ![q] = Append(@, sending.ptr)]
      /\ sending' = NotBlocked /\ replies' = replies
  BY <1>2 DEF SendReturns, Enqueue
<1>5. \A r \in Perfs : sending'.to # r
  BY <1>4 DEF NotBlocked
<1>6. SameList(q)
  <2>1. /\ cmds'[q] = Append(cmds[q], sending.cmd)
        /\ waiting'[q] = Append(waiting[q], sending.ptr)
    BY <1>1, <1>3, <1>4 DEF TypeOK
  <2> QED BY <1>1, <1>2, <1>3, <1>4, <1>5, <2>1, SendKeeps
<1>7. ASSUME NEW r \in Perfs \ {q} PROVE SameList(r)
  <2>1. cmds'[r] = cmds[r] /\ waiting'[r] = waiting[r]
    BY <1>1, <1>4, <1>7 DEF TypeOK
  <2>2. sending.to # r
    BY <1>2, <1>7
  <2> QED BY <1>4, <1>5, <2>1, <2>2, ListUntouched
<1>8. Silent /\ UNCHANGED <<fsm, addr, msg>>
  BY DEF SendReturns
<1> QED BY <1>6, <1>7, <1>8, QuietServes

(* Nor is an answer nobody has read. *)
LEMMA AnswersServe ==
  ASSUME Serves, NEW p \in Perfs, PerfAnswers(p)
  PROVE  \A d \in Clients : Peer(d)!Next
<1>1. TypeOK /\ TypeOK'
  BY DEF Serves, ServerInv
<1>2. PICK ok \in BOOLEAN :
        replies' = [replies EXCEPT ![p] =
          Append(@, [kind |-> Head(cmds[p]).kind, by |-> Head(cmds[p]).by,
                     msgsize |-> Head(cmds[p]).msgsize, ok |-> ok])]
  BY DEF PerfAnswers
<1>3. PICK r : r = [kind |-> Head(cmds[p]).kind, by |-> Head(cmds[p]).by,
                    msgsize |-> Head(cmds[p]).msgsize, ok |-> ok]
  OBVIOUS
<1>4. Head(cmds[p]) \in Command /\ cmds[p] # <<>>
  BY <1>1 DEF PerfAnswers, TypeOK
<1>5. r \in Answer /\ r.kind = Head(cmds[p]).kind
  BY <1>3, <1>4 DEF Answer, Command
<1>6. /\ cmds' = [cmds EXCEPT ![p] = Tail(@)] /\ waiting' = waiting
      /\ sending' = sending
  BY DEF PerfAnswers
<1>7. SameList(p)
  <2>1. replies'[p] = Append(replies[p], r) /\ cmds'[p] = Tail(cmds[p])
    BY <1>1, <1>2, <1>3, <1>6 DEF TypeOK
  <2> QED BY <1>1, <1>4, <1>5, <1>6, <2>1, AnswerKeeps
<1>8. ASSUME NEW q \in Perfs \ {p} PROVE SameList(q)
  <2>1. replies'[q] = replies[q] /\ cmds'[q] = cmds[q]
    BY <1>1, <1>2, <1>6, <1>8 DEF TypeOK
  <2> QED BY <1>6, <2>1, ListUntouched
<1>9. Silent /\ UNCHANGED <<fsm, addr, msg>>
  BY DEF PerfAnswers
<1> QED BY <1>7, <1>8, <1>9, QuietServes

(* A measurement that ends without an answer: one to whom the list belongs
   loses a RESULT, one who is not in it nothing. *)
LEMMA GivingUpServes ==
  ASSUME Serves, NEW p \in Perfs, PerfGivesUp(p)
  PROVE  \A d \in Clients : Peer(d)!Next
<1> SUFFICES ASSUME NEW d \in Clients PROVE Peer(d)!Next
  OBVIOUS
<1>0. TypeOK /\ TypeOK'
  BY DEF Serves, ServerInv
<1>1. PICK j : j = Ready(p) + 1
  OBVIOUS
<1>2. /\ cmds[p] # <<>> /\ cmds'[p] = Tail(cmds[p])
      /\ Head(cmds[p]).kind = "MEASURE"
      /\ UNCHANGED <<fsm, addr, replies, waiting, sending, msg>>
      /\ \A q \in Perfs \ {p} : cmds'[q] = cmds[q]
      /\ skew'[p] > 0
  BY <1>0 DEF PerfGivesUp, TypeOK
<1>3. /\ SkippedList(p, j) /\ j \in 1 .. Len(Orders(p))
      /\ Orders(p)[j] = Head(cmds[p])
  <2>1. /\ replies'[p] = replies[p] /\ waiting'[p] = waiting[p]
        /\ sending' = sending
    BY <1>2
  <2> QED BY <1>0, <1>1, <1>2, <2>1, GivingUpSkips
<1>4. \A q \in Perfs \ {p} : SameList(q)
  BY <1>2, ListUntouched
<1>5. Said(d)' = "nothing" /\ fsm'[d] = fsm[d] /\ Stays(d)
  BY <1>2, NothingSaid DEF PerfGivesUp, Stays
<1>6. CASE fsm[d] = "none"
  BY <1>2, <1>5, <1>6, NothingOwed, OthersStep DEF Serves
<1>7. CASE fsm[d] # "none" /\ (Astray(d) \/ Astray(d)')
  <2>1. Peer(d)!Owe(OwedTo(d))
    BY <1>7, OweWhen DEF Serves
  <2> QED BY <1>2, <1>5, <2>1, OthersStep
<1>8. CASE fsm[d] # "none" /\ ~Astray(d) /\ ~Astray(d)'
  <2> DEFINE lost(k) == IF k = "RESULT" /\ Asking(p)[j] = addr[d] THEN 1 ELSE 0
  <2>1. ASSUME NEW k \in Lates
        PROVE  /\ OwedTo(d)[k] \in Nat
               /\ Cardinality(Awaited(d, KindFor(k))') \in Nat
               /\ OwedTo(d)[k] =
                    Cardinality(Awaited(d, KindFor(k))') + lost(k)
    <3>1. /\ KindFor(k) \in Kinds /\ OwedTo(d)[k] \in Nat
          /\ OwedTo(d)[k] = Cardinality(Awaited(d, KindFor(k)))
      BY <1>8, <2>1, OwedNow
    <3>2. Cardinality(Awaited(d, KindFor(k))') \in Nat
      BY <3>1, AwaitedBoth DEF AwaitedWell
    <3>3. Cardinality(Awaited(d, KindFor(k))) =
            Cardinality(Awaited(d, KindFor(k))') +
              (IF Place(d, KindFor(k), p, j) THEN 1 ELSE 0)
      BY <1>2, <1>3, <1>4, <1>5, <1>8, <3>1, SkippedAwaited
    <3>4. Place(d, KindFor(k), p, j) <=> k = "RESULT" /\ Asking(p)[j] = addr[d]
      <4>1. j \in DOMAIN Orders(p)
        BY <1>3, ListSizesBoth DEF Sized
      <4> QED BY <1>2, <1>3, <2>1, <4>1 DEF Place, KindFor, Lates
    <3> QED BY <3>1, <3>2, <3>3, <3>4
  <2>2. OwedTo(d) \in [Lates -> Nat]
    BY <1>8, OwedNow
  <2>3. CASE Asking(p)[j] # addr[d]
    <3>1. \A k \in Lates : Cardinality(Awaited(d, KindFor(k))') = OwedTo(d)[k]
      BY <2>1, <2>3
    <3>2. Peer(d)!Owe(OwedTo(d))
      BY <1>5, <1>8, <2>2, <3>1, OweCounted
    <3> QED BY <1>2, <1>5, <3>2, OthersStep
  <2>4. CASE Asking(p)[j] = addr[d]
    <3>1. PICK new : new = [OwedTo(d) EXCEPT !["RESULT"] = @ - 1]
      OBVIOUS
    <3>2. "RESULT" \in Lates /\ OwedTo(d)["RESULT"] > 0
      BY <2>1, <2>4 DEF Lates
    <3>3. new \in [Lates -> Nat]
      BY <2>2, <3>1, <3>2
    <3>4. \A k \in Lates : Cardinality(Awaited(d, KindFor(k))') = new[k]
      BY <2>1, <2>2, <2>4, <3>1
    <3>5. Peer(d)!Owe(new)
      BY <1>5, <1>8, <3>3, <3>4, OweCounted
    <3>6. PeerOf(d)' = PeerOf(d) /\ Tainted' = Tainted
      BY <1>2, <1>5 DEF PeerOf, Said, Tainted, Serves
    <3> QED BY <1>5, <3>1, <3>2, <3>5, <3>6 DEF Peer!Next, Peer!Lose
  <2> QED BY <2>3, <2>4
<1> QED BY <1>6, <1>7, <1>8
-----------------------------------------------------------------------------
(* An answer is read *)

(* An answer is read: the first place of the list of p goes. *)
LEMMA PopLists ==
  ASSUME Serves, NEW p \in Perfs, Pending(p), PopAnswer(p), UNCHANGED <<cmds, sending>>
  PROVE  /\ PoppedList(p) /\ Len(Orders(p)) # 0 /\ 1 \in DOMAIN Orders(p)
         /\ Orders(p)[1] = Head(replies[p]) /\ Asking(p)[1] = Answered(p)
         /\ 1 \in DOMAIN Asking(p) /\ Answered(p) \in Addrs
         /\ \A q \in Perfs \ {p} : SameList(q)
<1>1. TypeOK /\ TypeOK'
  BY DEF Serves, ServerInv
<1>2. /\ replies[p] # <<>> /\ waiting[p] # <<>>
      /\ replies'[p] = Tail(replies[p]) /\ waiting'[p] = Tail(waiting[p])
      /\ cmds'[p] = cmds[p] /\ sending' = sending
      /\ \A q \in Perfs \ {p} :
           replies'[q] = replies[q] /\ waiting'[q] = waiting[q]
  BY <1>1 DEF Pending, PopAnswer, TypeOK
<1>3. /\ PoppedList(p) /\ Len(Orders(p)) # 0
      /\ Orders(p)[1] = Head(replies[p]) /\ Asking(p)[1] = Head(waiting[p])
      /\ 1 \in DOMAIN Orders(p)
  BY <1>1, <1>2, PopPops
<1>4. \A q \in Perfs \ {p} : SameList(q)
  BY <1>2, ListUntouched
<1>5. 1 \in DOMAIN Asking(p)
  BY <1>3, ListSizesBoth DEF Sized
<1>6. Answered(p) \in Addrs
  BY <1>1, <1>2 DEF Answered, TypeOK
<1> QED BY <1>3, <1>4, <1>5, <1>6 DEF Answered

(* Those who are not the first of the list are owed what they were. *)
LEMMA PopOthers ==
  ASSUME Serves, NEW p \in Perfs, Pending(p), PopAnswer(p),
         UNCHANGED <<cmds, sending, skew>>, NEW d \in Clients,
         addr[d] # Answered(p), fsm'[d] = fsm[d], Stays(d),
         Said(d)' = "nothing", msg'.status \in {msg.status, "COMMAND_INVALID"}
  PROVE  Peer(d)!Next
<1>1. CASE fsm[d] = "none"
  BY <1>1, NothingOwed, OthersStep DEF Serves
<1>2. CASE fsm[d] # "none"
  <2>1. ASSUME ~Astray(d), NEW k \in Lates
        PROVE  Cardinality(Awaited(d, KindFor(k))') = OwedTo(d)[k]
    <3>1. /\ KindFor(k) \in Kinds
          /\ OwedTo(d)[k] = Cardinality(Awaited(d, KindFor(k)))
      BY <1>2, <2>1, OwedNow
    <3>2. Cardinality(Awaited(d, KindFor(k))') \in Nat
      BY <3>1, AwaitedBoth DEF AwaitedWell
    <3>3. Cardinality(Awaited(d, KindFor(k))) =
            Cardinality(Awaited(d, KindFor(k))') +
              (IF Place(d, KindFor(k), p, 1) THEN 1 ELSE 0)
      BY <3>1, PopLists, PoppedAwaited
    <3>4. ~Place(d, KindFor(k), p, 1)
      BY PopLists DEF Place
    <3> QED BY <3>1, <3>2, <3>3, <3>4
  <2>2. Peer(d)!Owe(OwedTo(d))
    BY <1>2, <2>1, OwedNow, OweCounted
  <2> QED BY <2>2, OthersStep
<1> QED BY <1>1, <1>2

(* The first of the list gets the answer it is owed. *)
LEMMA PopAnswers ==
  ASSUME Serves, NEW p \in Perfs, Pending(p), PopAnswer(p),
         UNCHANGED <<cmds, sending, skew>>, NEW c \in Clients,
         addr[c] = Answered(p), fsm[c] = "have_perf", fsm'[c] = fsm[c], Stays(c),
         msg' = msg, Send(c, ReturnId(Head(replies[p]).kind))
  PROVE  Peer(c)!Next
<1>1. Head(replies[p]).kind \in Kinds
  <2>1. replies[p] \in Seq(Answer) /\ replies[p] # <<>>
    BY DEF Pending, Serves, ServerInv, TypeOK
  <2>2. Head(replies[p]) \in Answer
    BY <2>1
  <2> QED BY <2>2 DEF Answer, Kinds
<1>2. PICK r : r = ReturnId(Head(replies[p]).kind)
  OBVIOUS
<1>3. /\ r \in Lates
      /\ \A k \in Lates : k = r <=> KindFor(k) = Head(replies[p]).kind
  BY <1>1, <1>2 DEF ReturnId, Lates, KindFor, Kinds
<1>4. Said(c)' = r
  BY <1>2, <1>3, SaidIs DEF Send, Lates
<1>5. /\ PeerOf(c) = "have_perf" /\ PeerOf(c)' = "have_perf"
      /\ Tainted' = Tainted
  BY DEF PeerOf, Said, Tainted, Serves
<1>6. CASE Astray(c)
  <2>1. Peer(c)!Owe(Peer(c)!Nothing)
    BY <1>6, OweWhen DEF Serves
  <2>2. Peer(c)!Stray(Said(c)')
    BY <1>3, <1>4, <1>5, <1>6, <2>1 DEF Peer!Stray, Peer!Late, Lates
  <2> QED BY <2>2 DEF Peer!Next
<1>7. CASE ~Astray(c)
  <2>1. ASSUME NEW k \in Lates
        PROVE  /\ OwedTo(c)[k] \in Nat
               /\ Cardinality(Awaited(c, KindFor(k))') \in Nat
               /\ OwedTo(c)[k] = Cardinality(Awaited(c, KindFor(k))') +
                                   (IF k = r THEN 1 ELSE 0)
    <3>1. /\ KindFor(k) \in Kinds /\ OwedTo(c)[k] \in Nat
          /\ OwedTo(c)[k] = Cardinality(Awaited(c, KindFor(k)))
      BY <1>7, <2>1, OwedNow
    <3>2. Cardinality(Awaited(c, KindFor(k))') \in Nat
      BY <3>1, AwaitedBoth DEF AwaitedWell
    <3>3. Cardinality(Awaited(c, KindFor(k))) =
            Cardinality(Awaited(c, KindFor(k))') +
              (IF Place(c, KindFor(k), p, 1) THEN 1 ELSE 0)
      BY <3>1, PopLists, PoppedAwaited
    <3>4. Place(c, KindFor(k), p, 1) <=> k = r
      BY <1>3, <2>1, PopLists DEF Place
    <3> QED BY <3>1, <3>2, <3>3, <3>4
  <2>2. OwedTo(c) \in [Lates -> Nat]
    BY OwedNow
  <2>3. PICK new : new = [OwedTo(c) EXCEPT ![r] = @ - 1]
    OBVIOUS
  <2>4. OwedTo(c)[r] > 0
    BY <1>3, <2>1
  <2>5. new \in [Lates -> Nat]
    BY <1>3, <2>2, <2>3, <2>4
  <2>6. \A k \in Lates : Cardinality(Awaited(c, KindFor(k))') = new[k]
    BY <1>3, <2>1, <2>2, <2>3
  <2>7. Peer(c)!Owe(new)
    BY <2>5, <2>6, OweCounted
  <2>8. Peer(c)!Answer(r)
    BY <1>5, <2>3, <2>4, <2>7 DEF Peer!Answer
  <2> QED BY <1>3, <1>4, <2>8 DEF Peer!Next, Peer!Late, Lates
<1> QED BY <1>6, <1>7

(* The answer of a freed object reaches the one that lies there now. *)
LEMMA PopStrays ==
  ASSUME Serves, NEW p \in Perfs, Pending(p), PopAnswer(p),
         UNCHANGED <<cmds, sending, skew>>, NEW c \in Clients,
         addr[c] = Answered(p), fsm[c] # "have_perf", Reject(c, msg)
  PROVE  Peer(c)!Next
<1>1. Astray(c)
  BY PopLists, PlacesAreHeld DEF Serves
<1>2. PeerOf(c) \in {"none", "connected"}
  BY DEF PeerOf, Said, Serves, ServerInv, TypeOK, States
<1>3. Peer(c)!Drop(Said(c)')
  BY RejectDrops DEF Serves, ServerInv, TypeOK
<1> QED BY <1>1, <1>2, <1>3 DEF Peer!Next, Peer!Stray

(* An answer that is read reaches one client as its own or as a stray, and
   is nothing to the others. *)
LEMMA AnswerServes ==
  ASSUME Serves, NEW p \in Perfs, HandleAnswer(p)
  PROVE  \A d \in Clients : Peer(d)!Next
<1>1. PICK c \in Clients :
        /\ addr[c] = Answered(p)
        /\ IF fsm[c] = "have_perf"
           THEN /\ Send(c, ReturnId(Head(replies[p]).kind))
                /\ UNCHANGED <<msg, fsm, addr, stale>>
           ELSE Reject(c, msg)
  BY DEF HandleAnswer
<1>2. /\ Pending(p) /\ PopAnswer(p) /\ UNCHANGED <<cmds, sending, skew>>
      /\ Answered(p) # NoAddr
  <2>1. Pending(p) /\ PopAnswer(p) /\ UNCHANGED <<cmds, sending, skew>>
    BY DEF HandleAnswer
  <2> QED BY <2>1, PopLists
<1>3. /\ \E id : reply' = [to |-> c, id |-> id]
      /\ msg'.status \in {msg.status, "COMMAND_INVALID"}
      /\ \A d \in Clients \ {c} : fsm'[d] = fsm[d] /\ Stays(d)
  <2>1. CASE fsm[c] = "have_perf"
    BY <1>1, <2>1 DEF Send, Stays
  <2>2. CASE fsm[c] # "have_perf"
    BY <1>1, <2>2 DEF Reject, Leave, Send, Stays, Serves, ServerInv, TypeOK,
                      Message
  <2> QED BY <2>1, <2>2
<1>4. ASSUME NEW d \in Clients \ {c} PROVE Peer(d)!Next
  <2>1. Said(d)' = "nothing"
    BY <1>3, SaidIs
  <2>2. addr[d] # Answered(p)
    BY <1>1, <1>2 DEF Serves, ServerInv, Objects
  <2> QED BY <1>2, <1>3, <2>1, <2>2, PopOthers
<1>5. Peer(c)!Next
  <2>1. CASE fsm[c] = "have_perf"
    <3>1. fsm'[c] = fsm[c] /\ Stays(c) /\ msg' = msg
      BY <1>1, <2>1 DEF Stays
    <3> QED BY <1>1, <1>2, <2>1, <3>1, PopAnswers
  <2>2. CASE fsm[c] # "have_perf"
    BY <1>1, <1>2, <2>2, PopStrays
  <2> QED BY <2>1, <2>2
<1> QED BY <1>4, <1>5

(* An answer for a freed object is nothing to those who have one. *)
LEMMA DanglingServes ==
  ASSUME Serves, NEW p \in Perfs, HandleDangling(p)
  PROVE  \A d \in Clients : Peer(d)!Next
<1> SUFFICES ASSUME NEW d \in Clients PROVE Peer(d)!Next
  OBVIOUS
<1>1. /\ Pending(p) /\ PopAnswer(p) /\ UNCHANGED <<cmds, sending, skew>>
      /\ addr[d] # Answered(p) /\ fsm'[d] = fsm[d] /\ Stays(d) /\ msg' = msg
      /\ Said(d)' = "nothing"
  BY NothingSaid DEF HandleDangling, Stays
<1> QED BY <1>1, PopOthers
-----------------------------------------------------------------------------
(* The server ends, or has ended. *)

(* All the clients lose the server at once, and nothing happens to them
   afterwards. *)
LEMMA EndServes ==
  ASSUME ServerInv, ServerInv', ~Serving', Silent
  PROVE  \A d \in Clients : Peer(d)!Next
<1> SUFFICES ASSUME NEW d \in Clients PROVE Peer(d)!Next
  OBVIOUS
<1>1. Said(d)' = "nothing"
  BY NothingSaid
<1>2. OwedWell(d) /\ OwedWell(d)' /\ Peer(d)!Nothing = Zero
  BY OwedBoth DEF Zero, Lates, Peer!Nothing, Peer!Late
<1>3. PeerOf(d)' = "down" /\ Tainted' = FALSE
  BY DEF PeerOf, Said, Tainted
<1>4. OwedTo(d)' = Zero /\ ~Astray(d)'
  BY <1>2 DEF OwedWell
<1>5. CASE Serving
  <2>1. PeerOf(d) # "down"
    BY <1>5 DEF PeerOf, Said, ServerInv, TypeOK, States
  <2> QED BY <1>1, <1>2, <1>3, <1>4, <2>1 DEF Peer!Next, Peer!Die
<1>6. CASE ~Serving
  <2>1. PeerOf(d) = "down" /\ Tainted = FALSE
    BY <1>6 DEF PeerOf, Said, Tainted
  <2>2. OwedTo(d) = Zero
    BY <1>2, <1>6 DEF OwedWell
  <2>3. Peer(d)!Owe(OwedTo(d))
    BY <1>4, <2>2, OweWhen
  <2> QED BY <1>1, <1>3, <2>1, <2>3 DEF Peer!Next, Peer!Others
<1> QED BY <1>5, <1>6
-----------------------------------------------------------------------------
(* Every step at once *)

(* Who starts with a server it has sent nothing. *)
LEMMA PeersInit == Init => \A c \in Clients : Peer(c)!Init
<1> SUFFICES ASSUME Init, NEW c \in Clients PROVE Peer(c)!Init
  OBVIOUS
<1>1. Serving /\ fsm[c] = "none" /\ msg.status = "unset"
  BY DEF Init, Serving
<1>2. PeerOf(c) = "none" /\ Tainted = FALSE
  BY <1>1 DEF PeerOf, Said, Tainted
<1>3. OwedTo(c) = Peer(c)!Nothing
  BY <1>1 DEF OwedTo, Said, Peer!Nothing, Peer!Late
<1>4. Said(c) = "nothing"
  BY DEF Init, NoReply, Said
<1>5. Astray(c) = FALSE
  <2>1. ServerInv
    BY TypeInit, OrderInit DEF ServerInv
  <2>2. ~Astray(c)
    BY <1>1, <2>1, OwedIs DEF OwedWell
  <2> QED BY <2>2 DEF Astray, Said
<1> QED BY <1>2, <1>3, <1>4, <1>5 DEF Peer!Init

(* Every step of the server is one that ServerPeer has for each client. *)
LEMMA PeersStep ==
  ASSUME ServerInv, ServerInv', Next, ~UNCHANGED vars
  PROVE  \A d \in Clients : Peer(d)!Next
<1>1. CASE Serving /\ Serving'
  <2>0. Serves
    BY <1>1 DEF Serves
  <2>1. ASSUME NEW c \in Clients, NEW m \in Requests, HandleProtocol(c, m)
        PROVE  \A d \in Clients : Peer(d)!Next
    BY <2>0, <2>1, ProtocolServes
  <2>2. ASSUME NEW c \in Clients, HandleMalformed(c) \/ HandleTicket(c)
        PROVE  \A d \in Clients : Peer(d)!Next
    BY <2>0, <2>2, ObjectServes
  <2>3. CASE SendReturns
    BY <2>0, <2>3, SendServes
  <2>4. ASSUME NEW p \in Perfs, PerfAnswers(p)
        PROVE  \A d \in Clients : Peer(d)!Next
    BY <2>0, <2>4, AnswersServe
  <2>5. ASSUME NEW p \in Perfs, PerfGivesUp(p)
        PROVE  \A d \in Clients : Peer(d)!Next
    BY <2>0, <2>5, GivingUpServes
  <2>6. ASSUME NEW p \in Perfs, HandleAnswer(p)
        PROVE  \A d \in Clients : Peer(d)!Next
    BY <2>0, <2>6, AnswerServes
  <2>7. ASSUME NEW p \in Perfs, HandleDangling(p)
        PROVE  \A d \in Clients : Peer(d)!Next
    BY <2>0, <2>7, DanglingServes
  <2>8. ASSUME NEW p \in Perfs
        PROVE  ~HandleFailure(p) /\ ~DestroyPerf(p) /\ ~PerfAborts(p)
    BY <1>1 DEF HandleFailure, DestroyPerf, EndLoop, PerfAborts, Serving
  <2>9. ~HandleTerm /\ ~Stop /\ ~Ended
    BY <1>1 DEF HandleTerm, EndLoop, Stop, Ended, Serving
  <2> QED BY <2>1, <2>2, <2>3, <2>4, <2>5, <2>6, <2>7, <2>8, <2>9 DEF Next
<1>2. CASE ~Serving'
  <2>1. ASSUME NEW c \in Clients, NEW m \in Requests PROVE ~HandleProtocol(c, m)
    BY <1>2
       DEF Serving, HandleProtocol, Hello, Ping, Goodbye, CreatePerf, LookupPerf,
           CommandPerf, FailRequest, RejectRequest
  <2>2. ASSUME NEW c \in Clients PROVE ~HandleMalformed(c) /\ ~HandleTicket(c)
    BY <1>2 DEF Serving, HandleMalformed, HandleTicket
  <2>3. ~SendReturns /\ \A p \in Perfs : ~HandleAnswer(p)
    BY <1>2 DEF Serving, SendReturns, HandleAnswer, Pending
  <2>4. ~Ended
    BY DEF Ended
  <2>5. Silent
    BY <2>1, <2>2, <2>3, <2>4
       DEF Next, PerfAnswers, PerfGivesUp, PerfAborts, HandleFailure, EndLoop,
           HandleDangling, HandleTerm, DestroyPerf, Stop
  <2> QED BY <1>2, <2>5, EndServes
<1>3. CASE ~Serving /\ Serving'
  <2>1. srv' = srv \/ srv' \in {"stopping", "stopped", "aborted"}
    BY <1>3 DEF Next, Serving, HandleProtocol, HandleMalformed, HandleTicket,
         SendReturns, PerfAnswers, PerfGivesUp, PerfAborts, HandleFailure,
         HandleAnswer,
         HandleDangling, Pending, HandleTerm, EndLoop, DestroyPerf, Stop, Ended
  <2> QED BY <1>3, <2>1 DEF Serving
<1> QED BY <1>1, <1>2, <1>3

(* Who is told of the first ERROR has sent a request that is refused or one
   that is rejected, and the server was not blocked or ending. *)
LEMMA ErrorsAsPromised ==
  ASSUME ServerInv, ServerInv', Next, ~UNCHANGED vars, NEW c \in Clients
  PROVE  ErrorAsPromised(c)
<1>1. ASSUME reply' = [to |-> c, id |-> "ERROR"] PROVE srv = "running"
  <2>1. ~Silent
    BY <1>1 DEF Silent, NoReply
  <2>2. ~Ended
    BY DEF Ended
  <2> QED BY <2>1, <2>2
       DEF Next, HandleProtocol, HandleMalformed, HandleTicket, SendReturns,
           PerfAnswers, PerfGivesUp, PerfAborts, HandleFailure, EndLoop,
           HandleAnswer, Pending, HandleDangling, HandleTerm, DestroyPerf, Stop
<1>2. ASSUME reply' = [to |-> c, id |-> "ERROR"], NEW m \in Requests,
             FailRequest(c, m) \/ RejectRequest(c, m)
      PROVE  Serves
  BY <1>1, <1>2 DEF FailRequest, RejectRequest, Serves, Serving
<1> QED BY <1>2, FailRefuses, RejectRejects DEF ErrorAsPromised

(* The server serves every one of its clients as ServerPeer says, for any
   number of clients and perfs: no other client, and no perf, makes a
   difference but for those that ServerPeer names. *)
THEOREM PeersAreServed == Spec => ServesPeers
<1>1. ServerInv /\ [Next]_vars => ServerInv'
  BY TypeStep, CountsStep, OrderStep DEF ServerInv
<1>2. ASSUME ServerInv, ServerInv', [Next]_vars
      PROVE  [\A c \in Clients : Peer(c)!Next /\ ErrorAsPromised(c)]_vars
  <2>1. Next /\ ~UNCHANGED vars
          => \A c \in Clients : Peer(c)!Next /\ ErrorAsPromised(c)
    BY <1>2, PeersStep, ErrorsAsPromised
  <2> QED BY <1>2, <2>1
<1>3. Init => ServerInv
  BY TypeInit, OrderInit DEF ServerInv
<1> QED BY <1>1, <1>2, <1>3, PeersInit, PTL DEF Spec, ServesPeers
=============================================================================
