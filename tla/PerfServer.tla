----------------------------- MODULE PerfServer -----------------------------
(***************************************************************************)
(* The Zperf server: one thread running a zloop over the ROUTER socket,    *)
(* the owner's pipe and one pipe per perf actor it has created.  Every     *)
(* peer of the ROUTER has a client object with a state machine             *)
(* (zperf_server_engine.inc); commands for a perf are written to its pipe  *)
(* and the asking client is put at the end of that perf's waiting list;    *)
(* whatever comes back on the pipe is handed to the head of that list.     *)
(*                                                                         *)
(* The message object is shared by all clients (s_client_new copies the    *)
(* pointer server->message), so a field keeps the value the last message   *)
(* that had this field gave it.  Of its fields the model keeps ident,      *)
(* msgsize and status.                                                     *)
(***************************************************************************)
EXTENDS Naturals, Sequences

CONSTANTS
  Clients,     \* routing ids of the peers of the ROUTER socket
  Addrs,       \* addresses malloc may give to a client object
  Perfs,       \* idents create_perf may hand out (one per actor pipe)
  Sizes,       \* payload sizes a MEASURE may name
  NoIdent,     \* any ident no perf has, "" included
  NoSize,      \* msgsize of a message object no MEASURE was received in
  NoAddr,      \* a peer the server has no client object for
  Nobody,      \* the addressee when nothing was sent
  PipeCap,     \* messages a pipe holds before zsock_send blocks (its HWM)
  MaxWaiting,  \* bound: a perf is sent no command when this many wait
  MaxSkew,     \* bound: measurements of one perf that end without an answer
  MayCreateBad \* BOOLEAN: peers name socket types zsock_new refuses

ASSUME ServerConstants ==
  /\ NoIdent \notin Perfs
  /\ NoSize \notin Sizes
  /\ NoAddr \notin Addrs
  /\ Nobody \notin Clients
  /\ PipeCap \in Nat \ {0}
  /\ MaxWaiting \in Nat
  /\ MaxSkew \in Nat
  /\ MayCreateBad \in BOOLEAN

VARIABLES
  srv,      \* "running", "sending" (blocked in zsock_send), "stopping", ...
  fsm,      \* state of each peer's client object, "none" without one
  addr,     \* where each peer's client object lives
  perf,     \* "none", "live", or "dead": perf_actor returned at once
  cmds,     \* perf -> commands in its pipe, the one being run included
  replies,  \* perf -> answers in its pipe the server has not read
  waiting,  \* perf -> client pointers (perfinfo_t.waiting)
  sending,  \* the command zsock_send is blocked on
  msg,      \* server->message
  reply,    \* what the last step sent on the ROUTER: message msg, to and id
  skew,     \* history: perf -> commands that were dropped without an answer
  stale     \* history: addresses freed while a waiting list held them

vars == <<srv, fsm, addr, perf, cmds, replies, waiting, sending, msg, reply,
          skew, stale>>

Idents == Perfs \cup {NoIdent}
AnySize == Sizes \cup {NoSize}
States == {"none", "start", "connected", "have_perf"}
Status == {"unset", "COMMAND_INVALID"}

(* "known" is FALSE for a borc other than BIND or CONNECT, a measure other
   the four, a socket type zsock_new refuses.  OTHER is a message id only a
   server sends, HELLO_OK, PING_OK or GOODBYE_OK: it is no event of any state
   (s_protocol_event: terminate_event) and sets none of the fields kept. *)
Plain    == [type : {"HELLO", "PING", "GOODBYE", "OTHER"}]
Creates  == [type : {"CREATE"}, known : {TRUE, ~MayCreateBad}]
Named    == [type : {"LOOKUP", "INFO"}, ident : Idents]
Sockets  == [type : {"SOCKET"}, ident : Idents, known : BOOLEAN]
Measures == [type : {"MEASURE"}, ident : Idents, known : BOOLEAN,
             msgsize : Sizes]
Requests == Plain \cup Creates \cup Named \cup Sockets \cup Measures

(* A command in a perf's pipe and the answer to it.  "by" is a history
   field: neither pipe carries the peer that asked. *)
Command == [kind : {"SOCKET", "MEASURE"}, by : Clients, msgsize : AnySize]
Answer  == [kind : {"SOCKET", "MEASURE"}, by : Clients, msgsize : AnySize,
            ok : BOOLEAN]
Message == [ident : Idents, msgsize : AnySize, status : Status]

ReplyIds == {"HELLO_OK", "PING_OK", "GOODBYE_OK", "PERF_OK", "INFO_OK",
             "SOCKET_OK", "RESULT", "ERROR", "NONE"}
Reply == [to : Clients \cup {Nobody}, id : ReplyIds]
NoReply == [to |-> Nobody, id |-> "NONE"]
Blocked == [to : Perfs, cmd : Command, ptr : Addrs]
NotBlocked == [to |-> NoIdent]

-----------------------------------------------------------------------------

Init ==
  /\ srv = "running"
  /\ fsm = [c \in Clients |-> "none"]
  /\ addr = [c \in Clients |-> NoAddr]
  /\ perf = [p \in Perfs |-> "none"]
  /\ cmds = [p \in Perfs |-> <<>>]
  /\ replies = [p \in Perfs |-> <<>>]
  /\ waiting = [p \in Perfs |-> <<>>]
  /\ sending = NotBlocked
  /\ msg = [ident |-> NoIdent, msgsize |-> NoSize, status |-> "unset"]
  /\ reply = NoReply
  /\ skew = [p \in Perfs |-> 0]
  /\ stale = {}

-----------------------------------------------------------------------------
(* The client objects *)

(* The state the machine of peer c runs in when a message of c arrives: a
   peer without a client object gets a new one in start_state. *)
StateOf(c) == IF fsm[c] = "none" THEN "start" ELSE fsm[c]

(* zmalloc gives a new object any address that is not in use. *)
ObjectOf(c) == IF fsm[c] = "none"
               THEN Addrs \ {addr[d] : d \in Clients}
               ELSE {addr[c]}

InList(a) == \E p \in Perfs : \E i \in 1..Len(waiting[p]) : waiting[p][i] = a

(* The object of c stays (or is created) and its machine goes to state s. *)
Enter(c, a, s) ==
  /\ fsm' = [fsm EXCEPT ![c] = s]
  /\ addr' = [addr EXCEPT ![c] = a]
  /\ UNCHANGED stale

(* zhash_delete: the object of c, if it had one before this message, is
   freed.  The waiting lists are not told. *)
Leave(c) ==
  /\ fsm' = [fsm EXCEPT ![c] = "none"]
  /\ addr' = [addr EXCEPT ![c] = NoAddr]
  /\ stale' = IF fsm[c] # "none" /\ InList(addr[c])
              THEN stale \cup {addr[c]} ELSE stale

Send(c, id) == reply' = [to |-> c, id |-> id]

Silent == reply' = NoReply

(* zperf_msg_recv overwrites the fields the received message has. *)
Received(m) ==
  [ident |-> IF m.type \in {"LOOKUP", "INFO", "SOCKET", "MEASURE"}
             THEN m.ident ELSE msg.ident,
   msgsize |-> IF m.type = "MEASURE" THEN m.msgsize ELSE msg.msgsize,
   status |-> msg.status]

(* The "*" event: COMMAND_INVALID is stored in the message and stays. *)
Reject(c, m) ==
  /\ msg' = [m EXCEPT !.status = "COMMAND_INVALID"]
  /\ Send(c, "ERROR")
  /\ Leave(c)

(* Mutant: a refused request counts as an invalid one. *)
RaiseInvalid(c, m) ==
  /\ msg' = [m EXCEPT !.status = "COMMAND_INVALID"]
  /\ Send(c, "ERROR")
  /\ Leave(c)

(* The exception event: ERROR with whatever status the message holds. *)
Raise(c, m) ==
  /\ msg' = m
  /\ Send(c, "ERROR")
  /\ Leave(c)

(* Mutant: an INFO takes the client back to connected. *)
GoesBack(type, s) ==
  IF type \in {"HELLO", "INFO"} THEN "connected"
  ELSE IF type \in {"CREATE", "LOOKUP"} THEN "have_perf" ELSE s

(* The transitions of the machine that do not leave it. *)
Goes(type, s) ==
  IF type = "HELLO" THEN "connected"
  ELSE IF type \in {"CREATE", "LOOKUP", "INFO"} THEN "have_perf" ELSE s

Accepted == [start     |-> {"HELLO", "PING", "GOODBYE"},
             connected |-> {"CREATE", "LOOKUP", "PING", "GOODBYE"},
             have_perf |-> {"CREATE", "LOOKUP", "INFO", "SOCKET", "MEASURE",
                            "PING", "GOODBYE"}]

-----------------------------------------------------------------------------
(* s_server_handle_protocol: a message m of peer c *)

pipes == <<cmds, replies, waiting, sending, skew>>

Hello(c, m) ==
  /\ m.type = "HELLO" /\ StateOf(c) = "start"
  /\ msg' = Received(m)
  /\ Send(c, "HELLO_OK")
  /\ \E a \in ObjectOf(c) : Enter(c, a, Goes(m.type, StateOf(c)))
  /\ UNCHANGED <<srv, perf, pipes>>

Ping(c, m) ==
  /\ m.type = "PING"
  /\ msg' = Received(m)
  /\ Send(c, "PING_OK")
  /\ \E a \in ObjectOf(c) : Enter(c, a, Goes(m.type, StateOf(c)))
  /\ UNCHANGED <<srv, perf, pipes>>

Goodbye(c, m) ==
  /\ m.type = "GOODBYE"
  /\ msg' = Received(m)
  /\ Send(c, "GOODBYE_OK")
  /\ Leave(c)
  /\ UNCHANGED <<srv, perf, pipes>>

(* An actor for a socket type zsock_new refuses returns at once, which
   zactor_new takes for the start signal: the perf is entered all the same.  The
   VERBOSE that a verbose server sends here is never answered and is left out. *)
CreatePerf(c, m) ==
  /\ m.type = "CREATE" /\ m.type \in Accepted[StateOf(c)]
  /\ \E p \in Perfs :
       /\ perf[p] = "none"
       /\ perf' = [perf EXCEPT ![p] = IF m.known THEN "live" ELSE "dead"]
       /\ msg' = [Received(m) EXCEPT !.ident = p]
  /\ Send(c, "PERF_OK")
  /\ Enter(c, addr[c], Goes(m.type, fsm[c]))
  /\ UNCHANGED <<srv, pipes>>

Found(m) == \E p \in Perfs : m.ident = p /\ perf[p] # "none"

LookupPerf(c, m) ==
  /\ m.type \in {"LOOKUP", "INFO"} /\ m.type \in Accepted[StateOf(c)]
  /\ Found(m)
  /\ msg' = Received(m)
  /\ Send(c, IF m.type = "INFO" THEN "INFO_OK" ELSE "PERF_OK")
  /\ Enter(c, addr[c], Goes(m.type, fsm[c]))
  /\ UNCHANGED <<srv, perf, pipes>>

(* connect_or_bind and start_measure: zsock_send to the actor's pipe, then
   zlist_append.  The send blocks the server when the pipe is full, and for
   good when no actor reads it. *)
(* Mutants: a client already in the list is not put there again; zlist_push
   in the place of zlist_append. *)
EnqueueOnce(list, ptr) ==
  IF \E i \in 1..Len(list) : list[i] = ptr THEN list ELSE Append(list, ptr)
EnqueueFront(list, ptr) == <<ptr>> \o list

Enqueue(list, ptr) == Append(list, ptr)

(* Mutant: one message more than the pipe holds. *)
WritableLate(p) == perf[p] = "live" /\ Len(cmds[p]) <= PipeCap

Writable(p) == perf[p] = "live" /\ Len(cmds[p]) < PipeCap

CommandPerf(c, m) ==
  LET p == m.ident
      cmd == [kind |-> m.type, by |-> c,
              msgsize |-> IF m.type = "MEASURE" THEN m.msgsize ELSE NoSize]
  IN
  /\ m.type \in {"SOCKET", "MEASURE"} /\ m.type \in Accepted[StateOf(c)]
  /\ Found(m) /\ m.known
  /\ Len(waiting[p]) < MaxWaiting
  /\ msg' = Received(m)
  /\ IF Writable(p)
     THEN /\ cmds' = [cmds EXCEPT ![p] = Append(@, cmd)]
          /\ waiting' = [waiting EXCEPT ![p] = Enqueue(@, addr[c])]
          /\ UNCHANGED <<srv, sending>>
     ELSE /\ srv' = "sending"
          /\ sending' = [to |-> p, cmd |-> cmd, ptr |-> addr[c]]
          /\ UNCHANGED <<cmds, waiting>>
  /\ UNCHANGED <<fsm, addr, perf, replies, skew, stale>>
  /\ Silent

(* lookup_perf, connect_or_bind or start_measure raise exception_event. *)
FailRequest(c, m) ==
  /\ m.type \in {"LOOKUP", "INFO", "SOCKET", "MEASURE"}
  /\ m.type \in Accepted[StateOf(c)]
  /\ ~Found(m) \/ (m.type \in {"SOCKET", "MEASURE"} /\ ~m.known)
  /\ Raise(c, Received(m))
  /\ UNCHANGED <<srv, perf, pipes>>

RejectRequest(c, m) ==
  /\ m.type \notin Accepted[StateOf(c)]
  /\ Reject(c, Received(m))
  /\ UNCHANGED <<srv, perf, pipes>>

HandleProtocol(c, m) ==
  /\ srv = "running"
  /\ \/ Hello(c, m)
     \/ Ping(c, m)
     \/ Goodbye(c, m)
     \/ CreatePerf(c, m)
     \/ LookupPerf(c, m)
     \/ CommandPerf(c, m)
     \/ FailRequest(c, m)
     \/ RejectRequest(c, m)

(* zperf_msg_recv returned -2: the peer gets a client object, no event. *)
HandleMalformed(c) ==
  /\ srv = "running"
  /\ fsm[c] = "none"
  /\ \E a \in ObjectOf(c) : Enter(c, a, "start")
  /\ UNCHANGED <<srv, perf, msg, pipes>>
  /\ Silent

(* The ticket of c ran out: expired_event terminates it without a word. *)
HandleTicket(c) ==
  /\ srv = "running"
  /\ fsm[c] # "none"
  /\ Leave(c)
  /\ UNCHANGED <<srv, perf, msg, pipes>>
  /\ Silent

(* Mutant: the send completes once the pipe's answers are read. *)
SendReturnsWhenRead ==
  /\ srv = "sending"
  /\ replies[sending.to] # <<>>
  /\ UNCHANGED vars

(* The perf took a command out of the full pipe: the blocked send returns. *)
SendReturns ==
  LET p == sending.to IN
  /\ srv = "sending"
  /\ Writable(p)
  /\ cmds' = [cmds EXCEPT ![p] = Append(@, sending.cmd)]
  /\ waiting' = [waiting EXCEPT ![p] = Enqueue(@, sending.ptr)]
  /\ srv' = "running"
  /\ sending' = NotBlocked
  /\ UNCHANGED <<fsm, addr, perf, replies, msg, skew, stale>>
  /\ Silent

-----------------------------------------------------------------------------
(* The perf actors, as the server sees them: commands are answered in      *)
(* order, except that a measurement may end without any answer.            *)

PerfAnswers(p) ==
  /\ perf[p] = "live"
  /\ cmds[p] # <<>>
  /\ Len(replies[p]) < PipeCap \/ srv = "stopping"
  /\ LET cmd == Head(cmds[p]) IN
     \E ok \in BOOLEAN :
       /\ cmd.kind = "MEASURE" => ok
       /\ replies' = [replies EXCEPT ![p] =
            Append(@, [kind |-> cmd.kind, by |-> cmd.by,
                       msgsize |-> cmd.msgsize, ok |-> ok])]
  /\ cmds' = [cmds EXCEPT ![p] = Tail(@)]
  /\ UNCHANGED <<srv, fsm, addr, perf, waiting, sending, msg, skew, stale>>
  /\ Silent

(* Mutant: a BIND or CONNECT may end without an answer, too. *)
PerfGivesUpAny(p) ==
  /\ perf[p] = "live"
  /\ cmds[p] # <<>>
  /\ skew[p] < MaxSkew
  /\ cmds' = [cmds EXCEPT ![p] = Tail(@)]
  /\ skew' = [skew EXCEPT ![p] = @ + 1]
  /\ UNCHANGED <<srv, fsm, addr, perf, replies, waiting, sending, msg, stale>>
  /\ Silent

(* s_recv returned NULL: the measurement returns -1 and s_signal is not run. *)
PerfGivesUp(p) ==
  /\ perf[p] = "live"
  /\ cmds[p] # <<>>
  /\ Head(cmds[p]).kind = "MEASURE"
  /\ skew[p] < MaxSkew
  /\ cmds' = [cmds EXCEPT ![p] = Tail(@)]
  /\ skew' = [skew EXCEPT ![p] = @ + 1]
  /\ UNCHANGED <<srv, fsm, addr, perf, replies, waiting, sending, msg, stale>>
  /\ Silent

(* An assertion in the perf's thread, of a measurement its socket or its
   numbers do not fit: the process dies, the server with it. *)
PerfAborts(p) ==
  /\ perf[p] = "live"
  /\ cmds[p] # <<>>
  /\ Head(cmds[p]).kind = "MEASURE"
  /\ srv # "aborted"
  /\ srv' = "aborted"
  /\ sending' = NotBlocked
  /\ UNCHANGED <<fsm, addr, perf, cmds, replies, waiting, msg, skew, stale>>
  /\ Silent

-----------------------------------------------------------------------------
(* s_server_handle_perf: an answer on the pipe of perf p *)

PopAnswer(p) ==
  /\ replies' = [replies EXCEPT ![p] = Tail(@)]
  /\ waiting' = [waiting EXCEPT ![p] = Tail(@)]

Pending(p) == srv = "running" /\ replies[p] # <<>> /\ waiting[p] # <<>>

ReturnId(kind) == IF kind = "SOCKET" THEN "SOCKET_OK" ELSE "RESULT"

(* s_server_destroy frees the clients; the perfs go one by one. *)
EndLoop ==
  /\ srv' = "stopping"
  /\ fsm' = [c \in Clients |-> "none"]
  /\ addr' = [c \in Clients |-> NoAddr]
  /\ UNCHANGED <<perf, cmds, sending, msg, skew>>
  /\ Silent

(* A negative port or rc: the handler returns -1 and the zloop ends. *)
HandleFailure(p) ==
  /\ Pending(p)
  /\ ~Head(replies[p]).ok
  /\ PopAnswer(p)
  /\ EndLoop
  /\ UNCHANGED stale

(* Mutant: the client that joined the list last. *)
AnsweredLast(p) == waiting[p][Len(waiting[p])]

Answered(p) == Head(waiting[p])

(* The return event runs in the machine of the object at the popped address:
   only have_perf has it, any other state takes it for an invalid command. *)
HandleAnswer(p) ==
  /\ Pending(p)
  /\ Head(replies[p]).ok
  /\ PopAnswer(p)
  /\ \E c \in Clients :
       /\ addr[c] = Answered(p)
       /\ IF fsm[c] = "have_perf"
          THEN /\ Send(c, ReturnId(Head(replies[p]).kind))
               /\ UNCHANGED <<msg, fsm, addr, stale>>
          ELSE Reject(c, msg)
  /\ UNCHANGED <<srv, perf, cmds, sending, skew>>

(* The popped address holds no object: whatever the freed memory makes of
   it, no state of the machine matches (nothing happens) or the process dies.
   A failed answer ends the loop before the object is used: HandleFailure,
   which asks nothing of the object. *)
HandleDangling(p) ==
  /\ Pending(p)
  /\ \A c \in Clients : addr[c] # Answered(p)
  /\ PopAnswer(p)
  /\ srv' \in IF Head(replies[p]).ok THEN {"running", "aborted"} ELSE {"aborted"}
  /\ UNCHANGED <<fsm, addr, perf, cmds, sending, msg, skew, stale>>
  /\ Silent

-----------------------------------------------------------------------------
(* The end: $TERM on the owner's pipe, then s_server_destroy *)

HandleTerm ==
  /\ srv = "running"
  /\ EndLoop
  /\ UNCHANGED <<replies, waiting, stale>>

(* Mutant: a dead actor is waited for like a live one. *)
TermReachedLive(p) == perf[p] = "live" /\ cmds[p] = <<>>

(* zactor_destroy waits for an actor that runs its commands before $TERM; a
   dead actor's pipe refuses the $TERM and is not waited for. *)
TermReached(p) == (perf[p] = "live" /\ cmds[p] = <<>>) \/ perf[p] = "dead"

DestroyPerf(p) ==
  /\ srv = "stopping"
  /\ TermReached(p)
  /\ perf' = [perf EXCEPT ![p] = "none"]
  /\ replies' = [replies EXCEPT ![p] = <<>>]
  /\ waiting' = [waiting EXCEPT ![p] = <<>>]
  /\ UNCHANGED <<srv, fsm, addr, cmds, sending, msg, skew, stale>>
  /\ Silent

Stop ==
  /\ srv = "stopping"
  /\ \A p \in Perfs : perf[p] = "none"
  /\ srv' = "stopped"
  /\ UNCHANGED <<fsm, addr, perf, msg, stale, pipes>>
  /\ Silent

Ended == srv \in {"stopped", "aborted"} /\ UNCHANGED vars

-----------------------------------------------------------------------------

Next ==
  \/ \E c \in Clients, m \in Requests : HandleProtocol(c, m)
  \/ \E c \in Clients : HandleMalformed(c)
  \/ \E c \in Clients : HandleTicket(c)
  \/ SendReturns
  \/ \E p \in Perfs : PerfAnswers(p)
  \/ \E p \in Perfs : PerfGivesUp(p)
  \/ \E p \in Perfs : PerfAborts(p)
  \/ \E p \in Perfs : HandleFailure(p)
  \/ \E p \in Perfs : HandleAnswer(p)
  \/ \E p \in Perfs : HandleDangling(p)
  \/ HandleTerm
  \/ \E p \in Perfs : DestroyPerf(p)
  \/ Stop
  \/ Ended

Spec == Init /\ [][Next]_vars

OnCommand(p, kind) ==
  perf[p] = "live" /\ cmds[p] # <<>> /\ Head(cmds[p]).kind = kind

PerfJoins(p) == OnCommand(p, "SOCKET") /\ PerfAnswers(p)

Measuring == \E p \in Perfs : OnCommand(p, "MEASURE")

(* A BIND or CONNECT ends, a send that has room returns, and zactor_destroy
   goes on when no actor is in a measurement.  A measurement need not end: it
   waits for its counterpart as long as that takes (s_recv, s_send) and looks
   at no $TERM meanwhile.  Nor does anything make the zloop read an answer: it
   may be kept busy by the ROUTER. *)
Fairness ==
  /\ \A p \in Perfs : WF_vars(PerfJoins(p))
  /\ WF_vars(SendReturns)
  /\ WF_vars(~Measuring /\ \E p \in Perfs : DestroyPerf(p))
  /\ WF_vars(Stop)

FairSpec == Spec /\ Fairness

-----------------------------------------------------------------------------
(* Properties *)

(* Every variable has its type, the server is blocked exactly when it holds a
   command it could not send, and no pipe holds more than its HWM. *)
TypeOK ==
  /\ srv \in {"running", "sending", "stopping", "stopped", "aborted"}
  /\ fsm \in [Clients -> States]
  /\ addr \in [Clients -> Addrs \cup {NoAddr}]
  /\ perf \in [Perfs -> {"none", "live", "dead"}]
  /\ cmds \in [Perfs -> Seq(Command)]
  /\ replies \in [Perfs -> Seq(Answer)]
  /\ waiting \in [Perfs -> Seq(Addrs)]
  /\ sending \in Blocked \cup {NotBlocked}
  /\ msg \in Message
  /\ reply \in Reply
  /\ skew \in [Perfs -> Nat]
  /\ stale \subseteq Addrs
  /\ srv = "sending" <=> sending # NotBlocked
  /\ \A p \in Perfs : Len(cmds[p]) <= PipeCap

Serving == srv \in {"running", "sending"}

Outstanding(p) == Len(replies[p]) + Len(cmds[p])

(* The waiting list of a perf holds one client for every command the perf
   has not answered, and one more for each measurement that ended without an
   answer: zlist_pop never finds it empty, assert (client) at
   zperf_server.cpp:323 never fails, whoever left or was freed meanwhile. *)
WaiterForEveryAnswer ==
  \A p \in Perfs : perf[p] # "none" => Len(waiting[p]) = Outstanding(p) + skew[p]

(* A pointer in a waiting list that was not freed under it is the object of a
   client in have_perf, the one state that has the return events: a client
   that waits is never told COMMAND_INVALID for the answer it asked for. *)
WaitersKeepTheirPerf ==
  Serving => \A p \in Perfs : \A i \in 1..Len(waiting[p]) :
    waiting[p][i] \notin stale =>
      \E c \in Clients : addr[c] = waiting[p][i] /\ fsm[c] = "have_perf"

Asked(p, i) == IF i <= Len(replies[p]) THEN replies[p][i].by
               ELSE cmds[p][i - Len(replies[p])].by

(* While no measurement of a perf ended without an answer, the i-th waiting
   client is the one that sent the i-th unanswered command, although neither
   the commands nor the answers name it. *)
WaitersInOrder ==
  Serving => \A p \in Perfs : skew[p] = 0 =>
    \A i \in 1..Len(waiting[p]) :
      waiting[p][i] \notin stale => addr[Asked(p, i)] = waiting[p][i]

(* What s_server_handle_perf sends for an answer goes to the peer that asked,
   and is what it asked for, as long as the perf answered every command
   before and the object was not freed while it waited. *)
AskerIsAnswered(p) ==
  /\ replies[p] # <<>> /\ replies'[p] = Tail(replies[p])
  /\ srv' = "running"
  /\ skew[p] = 0
  /\ Head(waiting[p]) \notin stale
  => reply' = [to |-> Head(replies[p]).by,
               id |-> IF Head(replies[p]).kind = "MEASURE"
                      THEN "RESULT" ELSE "SOCKET_OK"]

AnswerGoesToAsker == [][\A p \in Perfs : AskerIsAnswered(p)]_vars

(* Clients that together leave at most two pipes' worth of commands of a perf
   unanswered never lock the server and the perf up against each other: when
   zsock_send blocks, the perf has room for the answer that unblocks it. *)
SendCanReturn ==
  MaxWaiting <= 2 * PipeCap /\ srv = "sending" /\ perf[sending.to] = "live"
    => Writable(sending.to) \/ Len(replies[sending.to]) < PipeCap

(* With that credit the server waits in zsock_send for ever on two perfs only:
   one that returned at once, and one in a measurement that does not end,
   which has room for its answer if it does. *)
WaitsForPerf ==
  /\ srv = "sending"
  /\ \/ perf[sending.to] = "dead"
     \/ /\ OnCommand(sending.to, "MEASURE")
        /\ Len(replies[sending.to]) < PipeCap

BlockedSendReturns == <>[](srv = "sending") => <>[]WaitsForPerf

(* Once the loop has ended s_server_destroy comes to its end, with actors
   that have commands left, answers nobody reads, or that died at birth: it
   waits for ever for nothing but a measurement that does not end. *)
StopCompletes == <>[](srv = "stopping") => <>[]Measuring

Pipes == INSTANCE PerfPipe WITH
  queue <- [p \in Perfs |-> [i \in DOMAIN cmds[p] |-> cmds[p][i].kind]],
  out <- [p \in Perfs |-> [i \in DOMAIN replies[p] |-> replies[p][i].kind]]

(* The server uses a perf's pipe the way PerfActor serves it: it adds commands
   at the end, also the one it was blocked on, and takes the answers in the
   order they came. *)
ServesPipes == Pipes!Spec

-----------------------------------------------------------------------------
(* What documents and comments say, and the code does not do *)

(* zperf_msg.xml:80, the ident of a RESULT: "ID for the perf instance". *)
ResultNamesItsPerf ==
  [][\A p \in Perfs :
       /\ replies[p] # <<>> /\ replies'[p] = Tail(replies[p])
       /\ reply'.id = "RESULT"
       => msg'.ident = p]_vars

(* zperf_server_engine.inc:1369: "Run reactor until there's a termination
   signal". *)
RunsUntilTerm == [][srv = "running" /\ srv' = "stopping" => HandleTerm]_vars

(* zperf_server_engine.inc:164: an application that keeps a client pointer
   delays its destruction with engine_client_get. *)
WaitersAreAlive ==
  Serving => \A p \in Perfs : \A i \in 1..Len(waiting[p]) :
    \E c \in Clients : addr[c] = waiting[p][i]

(* zperf_msg.xml:17: MEASURE is answered with RESULT (or INVALID, FAILED) to
   the client that sent it. *)
MeasureAnsweredToSender ==
  [][\A p \in Perfs :
       /\ replies[p] # <<>> /\ replies'[p] = Tail(replies[p])
       /\ reply'.id = "RESULT"
       /\ Head(waiting[p]) \notin stale
       => reply'.to = Head(replies[p]).by]_vars

=============================================================================
