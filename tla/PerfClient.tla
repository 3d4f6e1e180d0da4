----------------------------- MODULE PerfClient -----------------------------
(***************************************************************************)
(* The Zperf client (zperf_client_engine.inc, zperf_client.cpp): an actor  *)
(* that runs the client's state machine, the blocking methods of the       *)
(* application that owns it, and the server as this one client meets it.   *)
(*                                                                         *)
(* A method writes its command to the actor's command pipe and reads the   *)
(* pipe until a reply it accepts comes; the actor turns the command into   *)
(* a request on its DEALER, and what the server answers into a reply.      *)
(* The expiry timer sends PINGs and gives up at the third without answer.  *)
(* The server is ServerPeer, which PerfServer implements: it may be slow,  *)
(* refuse, forget the client, lead it astray, die with what it has not     *)
(* handled, and be started again.                                          *)
(***************************************************************************)
EXTENDS Naturals, Sequences, FiniteSets

CONSTANTS
  MaxDue,      \* bound: results the application has yet to read at a launch
  MaxNet,      \* bound: messages on the wire of a running server at a PING,
               \* and in all pipes at an answer nobody asked for
  MaxFaults,   \* bound: times the server dies, refuses, forgets or drops
  MsgCap,      \* results the message pipe holds before zsock_send blocks
  MayMisuse    \* BOOLEAN: the application calls out of order, names what
               \* does not exist, or another client has been rejected

ASSUME ClientConstants ==
  /\ MaxDue \in Nat
  /\ MaxNet \in Nat \ {0}
  /\ MaxFaults \in Nat
  /\ MsgCap \in Nat \ {0}
  /\ MayMisuse \in BOOLEAN

VARIABLES
  actor,      \* "running", "blocked" in signal_result, "failing" (blocked
              \* before fsm_stopped), "stopped", "aborted", "ended"
  state,      \* s_client_t.state
  connected,  \* s_client_t.connected
  retries,    \* client_t.retries, 3 standing for any more
  ticking,    \* s_client_t.expiry is not zero: the timer is armed
  timeout,    \* args.timeout is not zero
  call,       \* the method the application is blocked in, "none"
  cmds,       \* the command pipe to the actor
  flush,      \* $FLUSH is in the message pipe to the actor
  replies,    \* the pipe from the actor to the application
  unread,     \* messages on the message pipe: RESULTs, at the end a FAILURE
  up, down,   \* requests and answers between the DEALER and the ROUTER
  peer,       \* the server: "down", or its state of this client
  owed,       \* answers the perfs owe this client
  tainted,    \* the server's message holds COMMAND_INVALID
  astray,     \* perfs may answer what this client did not ask, or nothing
  due,        \* history: measurements launched whose result was not read
  misled,     \* history: answers may not have been the client's
  faults      \* history: times the server lost something of this client

client == <<actor, state, connected, retries, ticking, timeout>>
net == <<up, down>>
server == <<peer, owed, tainted, astray>>
caller == <<call, cmds, flush>>
results == <<unread, due>>
history == <<misled, faults>>
vars == <<client, caller, replies, results, net, server, history>>

Methods == {"SAY_HELLO", "CREATE_PERF", "REQUEST_BORC", "LAUNCH_MEASURE"}
Calls == Methods \cup {"$CONNECTED", "$FLUSH", "$TERM"}
Replies == {"CONNECTED", "PERF_IDENT", "PERF_ENDPOINT", "SUCCESS", "FAILURE",
            "NUMBER", "SIGNAL"}
Requests == {"HELLO", "CREATE", "SOCKET", "MEASURE", "PING"}
Answers == {"HELLO_OK", "PERF_OK", "SOCKET_OK", "RESULT", "PING_OK"}
(* ERROR with COMMAND_INVALID for its status, and with any other. *)
Errors == {"INVALID", "ERROR"}

Online == {"connected", "have_perf"}
States == {"start", "expect_hello_ok", "reconnecting"} \cup Online

(* The server has lost nothing of this client. *)
kept == faults = 0

Count(s, m) == Cardinality({i \in DOMAIN s : s[i] = m})

(* What ServerPeer says goes into "down". *)
Server == INSTANCE ServerPeer WITH said <- "nothing"

-----------------------------------------------------------------------------

Init ==
  /\ actor = "running" /\ state = "start"
  /\ connected = FALSE /\ retries = 0 /\ ticking = FALSE /\ timeout = FALSE
  /\ call = "none" /\ cmds = <<>> /\ flush = FALSE /\ replies = <<>>
  /\ unread = 0 /\ due = 0 /\ up = <<>> /\ down = <<>>
  /\ peer = "none" /\ owed = Server!Nothing
  /\ tainted = FALSE /\ astray = FALSE
  /\ misled = FALSE /\ faults = 0

-----------------------------------------------------------------------------
(* The actions of the state machine *)

Request(m) == up' = Append(up, m)

Signal(r) == replies' = Append(replies, r)

Become(s) == state' = s /\ UNCHANGED actor

(* client_is_connected *)
IsConnected == retries' = 0 /\ connected' = TRUE /\ ticking' = TRUE

(* check_if_connection_is_dead: the exception it raises skips the PING.
   Mutant: one retry more. *)
GivesUpLate(n) == n >= 4

GivesUp(n) == n >= 3

(* signal_internal_error and signal_unhandled_error tell both pipes, the
   message pipe only once it has room; then "terminate" stops the machine and
   leaves the actor reading its pipes. *)
Fail ==
  /\ Signal("FAILURE")
  /\ IF unread < MsgCap
     THEN actor' = "stopped" /\ unread' = unread + 1
     ELSE actor' = "failing" /\ UNCHANGED unread
  /\ UNCHANGED <<state, connected, retries, ticking>>

-----------------------------------------------------------------------------
(* s_client_handle_cmdpipe and s_client_handle_msgpipe *)

(* The states that have the event of a method; say hello has only start.
   Mutant: the connected state takes a borc too. *)
TakesEarly(c) ==
  IF c = "SAY_HELLO" THEN {"start"} ELSE {"connected", "have_perf"}

Takes(c) ==
  CASE c = "SAY_HELLO" -> {"start"}
    [] c = "CREATE_PERF" -> {"connected", "have_perf"}
    [] c \in {"REQUEST_BORC", "LAUNCH_MEASURE"} -> {"have_perf"}

RequestFor == [c \in {"CREATE_PERF", "REQUEST_BORC", "LAUNCH_MEASURE"} |->
  CASE c = "CREATE_PERF" -> "CREATE"
    [] c = "REQUEST_BORC" -> "SOCKET"
    [] c = "LAUNCH_MEASURE" -> "MEASURE"]

(* set_nickname, use_connect_timeout, connect_to_server and the HELLO; a bad
   endpoint is an exception that signals it and stops the machine. *)
SayHello(c) ==
  /\ c = "SAY_HELLO" /\ state \in Takes(c)
  /\ ticking' = timeout
  /\ \/ /\ Request("HELLO")
        /\ Become("expect_hello_ok")
        /\ UNCHANGED replies
     \/ /\ MayMisuse
        /\ actor' = "stopped" /\ Signal("FAILURE")
        /\ UNCHANGED <<state, up>>
  /\ UNCHANGED <<connected, retries, timeout, unread, due>>

(* create_perf, request_borc and launch_measure in a state that has them:
   only the last is answered here, before the server has seen it. *)
SendRequest(c) ==
  /\ c \in DOMAIN RequestFor /\ state \in Takes(c)
  /\ Request(RequestFor[c])
  /\ IF c = "LAUNCH_MEASURE"
     THEN /\ Signal("SUCCESS")
          /\ due' = due + 1
          /\ timeout' \in BOOLEAN
     ELSE UNCHANGED <<replies, due, timeout>>
  /\ UNCHANGED <<actor, state, connected, retries, ticking, unread>>

(* In any other state an event of the API is unexpected: the start state
   asserts, the rest signals an internal error. *)
Misplaced(c) ==
  /\ state \notin Takes(c)
  /\ IF state = "start"
     THEN /\ actor' = "aborted"
          /\ UNCHANGED <<state, connected, retries, ticking, replies, unread>>
     ELSE Fail
  /\ UNCHANGED <<timeout, up, due>>

(* A stopped machine runs no event, and the caller is told nothing.  Here and
   above the arguments are read too, but no machine will use the timeout. *)
Swallow == UNCHANGED <<client, replies, up, unread, due>>

Commanded(c) == cmds # <<>> /\ Head(cmds) = c /\ cmds' = Tail(cmds)

HandleMethod(c) ==
  /\ Commanded(c)
  /\ \/ actor = "running" /\ (SayHello(c) \/ SendRequest(c) \/ Misplaced(c))
     \/ actor = "stopped" /\ Swallow
  /\ UNCHANGED <<call, flush, down, server, history>>

(* Mutant: a stopped actor leaves the flush alone. *)
FlushedWhileRunning == actor = "running"

Flushed == actor \in {"running", "stopped"}

(* $CONNECTED and $FLUSH are no events: a stopped machine answers them. *)
HandleConnected ==
  /\ Commanded("$CONNECTED")
  /\ actor \in {"running", "stopped"}
  /\ Signal("NUMBER")
  /\ UNCHANGED <<client, call, flush, results, net, server, history>>

HandleFlush ==
  /\ flush /\ Flushed
  /\ flush' = FALSE
  /\ Signal("SIGNAL")
  /\ UNCHANGED <<client, call, cmds, results, net, server, history>>

(* zactor_destroy has sent $TERM and waits until the actor has ended. *)
HandleTerm ==
  /\ Commanded("$TERM")
  /\ actor \in {"running", "stopped"}
  /\ actor' = "ended" /\ call' = "none"
  /\ UNCHANGED <<state, connected, retries, ticking, timeout, flush, replies,
                 results, net, server, history>>

HandleCmdpipe ==
  \/ \E c \in Methods : HandleMethod(c)
  \/ HandleConnected
  \/ HandleTerm

-----------------------------------------------------------------------------
(* s_client_handle_expiry *)

(* zloop_timer is set to fire once; the handler sets it again when expiry is
   not zero.  Mutant: it does not. *)
RearmNot == ticking' = FALSE

Rearm == UNCHANGED ticking

(* The timer leaves a running server the time to answer and the client the
   time to read: MaxNet.  After fsm_stopped it goes on for nothing. *)
Expire ==
  /\ actor = "running" /\ ticking
  /\ Len(up) + Len(down) < MaxNet \/ peer = "down"
  /\ retries' = IF retries < 3 THEN retries + 1 ELSE 3
  /\ IF GivesUp(retries + 1)
     THEN ticking' = FALSE /\ connected' = FALSE /\ UNCHANGED up
     ELSE Request("PING") /\ Rearm /\ UNCHANGED connected
  /\ UNCHANGED <<actor, state, timeout, caller, replies, results, down,
                 server, history>>

-----------------------------------------------------------------------------
(* s_client_handle_protocol: the server's answer m.  Any answer restarts the
   timer, which leaves ticking as it is; only HELLO_OK and PING_OK reset the
   retries. *)

Took(m) == down # <<>> /\ Head(down) = m /\ down' = Tail(down)

HelloOk ==
  /\ Took("HELLO_OK") /\ state \in {"expect_hello_ok", "reconnecting"}
  /\ IF state = "expect_hello_ok" THEN Signal("CONNECTED")
     ELSE UNCHANGED replies
  /\ IsConnected
  /\ Become("connected")
  /\ UNCHANGED <<up, unread>>

PingOk ==
  /\ Took("PING_OK")
  /\ IsConnected
  /\ UNCHANGED <<actor, state, replies, up, unread>>

(* Mutant: the perf is announced only when it is the client's first. *)
AnnouncesFirst(s) == s = "connected"

Announces(s) == s \in {"connected", "have_perf"}

PerfOk ==
  /\ Took("PERF_OK") /\ state \in Online
  /\ IF Announces(state) THEN Signal("PERF_IDENT") ELSE UNCHANGED replies
  /\ Become("have_perf")
  /\ UNCHANGED <<connected, retries, ticking, up, unread>>

SocketOk ==
  /\ Took("SOCKET_OK") /\ state = "have_perf"
  /\ Signal("PERF_ENDPOINT")
  /\ UNCHANGED <<actor, state, connected, retries, ticking, up, unread>>

(* signal_result.  Mutants: a result that comes while the application is in
   a call is lost; it is signalled on the command pipe as well. *)
ForwardIdle ==
  /\ unread' = IF call = "none" THEN unread + 1 ELSE unread
  /\ UNCHANGED <<actor, replies>>
ForwardBoth == unread' = unread + 1 /\ Signal("SUCCESS") /\ UNCHANGED actor

(* zsock_send blocks the whole actor when the message pipe is full. *)
Forward ==
  /\ IF unread < MsgCap
     THEN unread' = unread + 1 /\ UNCHANGED actor
     ELSE actor' = "blocked" /\ UNCHANGED unread
  /\ UNCHANGED replies

Result ==
  /\ Took("RESULT") /\ state = "have_perf"
  /\ Forward
  /\ UNCHANGED <<state, connected, retries, ticking, up>>

SignalReturns ==
  /\ actor \in {"blocked", "failing"} /\ unread < MsgCap
  /\ unread' = unread + 1
  /\ actor' = IF actor = "blocked" THEN "running" ELSE "stopped"
  /\ UNCHANGED <<state, connected, retries, ticking, timeout, caller, replies,
                 due, net, server, history>>

(* ERROR, check_status_code, have_error: COMMAND_INVALID says HELLO again
   with the connect timeout; the call in progress is forgotten. *)
Rejoin ==
  /\ Took("INVALID")
  /\ ticking' = timeout
  /\ Request("HELLO")
  /\ Become("reconnecting")
  /\ UNCHANGED <<connected, retries, replies, unread>>

UnhandledError == Took("ERROR") /\ Fail /\ UNCHANGED up

Expected == [HELLO_OK  |-> {"expect_hello_ok", "reconnecting"},
             PERF_OK   |-> {"connected", "have_perf"},
             SOCKET_OK |-> {"have_perf"},
             RESULT    |-> {"have_perf"}]

InternalError ==
  /\ \E m \in DOMAIN Expected : Took(m) /\ state \notin Expected[m]
  /\ Fail
  /\ UNCHANGED up

Ignore ==
  /\ down # <<>> /\ down' = Tail(down)
  /\ UNCHANGED <<actor, state, connected, retries, ticking, replies, up,
                 unread>>

HandleProtocol ==
  /\ \/ /\ actor = "running"
        /\ HelloOk \/ PingOk \/ PerfOk \/ SocketOk \/ Result \/ Rejoin
           \/ UnhandledError \/ InternalError
     \/ actor = "stopped" /\ Ignore
  /\ UNCHANGED <<timeout, caller, due, server, history>>

-----------------------------------------------------------------------------
(* The application's thread *)

(* zperf_client_msgpipe: the application reads its results when it is in no
   call. *)
ReadResult ==
  /\ call = "none" /\ actor \notin {"aborted", "ended"} /\ unread > 0
  /\ unread' = unread - 1
  /\ due' = IF due > 0 THEN due - 1 ELSE 0
  /\ UNCHANGED <<client, caller, replies, net, server, history>>

(* A method writes its command and blocks.  Without MayMisuse the application
   calls only what the machine then takes. *)
Call(c) ==
  /\ call = "none" /\ actor \notin {"aborted", "ended"}
  /\ c \in Methods /\ ~MayMisuse => state \in Takes(c)
  /\ c = "LAUNCH_MEASURE" => due < MaxDue
  /\ c # "$TERM"
  /\ call' = c
  /\ IF c = "$FLUSH" THEN flush' = TRUE /\ UNCHANGED cmds
     ELSE cmds' = Append(cmds, c) /\ UNCHANGED flush
  /\ UNCHANGED <<client, replies, results, net, server, history>>

Filters == [c \in Methods |->
  CASE c = "SAY_HELLO" -> {"CONNECTED", "FAILURE"}
    [] c = "CREATE_PERF" -> {"PERF_IDENT", "FAILURE"}
    [] c = "REQUEST_BORC" -> {"PERF_ENDPOINT", "FAILURE"}
    [] c = "LAUNCH_MEASURE" -> {"SUCCESS", "FAILURE"}]

(* s_accept_reply discards what its filters do not match; connected() takes
   the first reply there is for a number, and zsock_wait, in destroy, reads
   to the signal.  Then zactor_destroy sends $TERM. *)
Accept ==
  /\ replies # <<>> /\ replies' = Tail(replies)
  /\ \/ /\ call \in Methods
        /\ call' = IF Head(replies) \in Filters[call] THEN "none" ELSE call
        /\ UNCHANGED cmds
     \/ /\ call = "$CONNECTED"
        /\ call' = "none"
        /\ UNCHANGED cmds
     \/ /\ call = "$FLUSH"
        /\ IF Head(replies) = "SIGNAL"
           THEN call' = "$TERM" /\ cmds' = Append(cmds, "$TERM")
           ELSE UNCHANGED <<call, cmds>>
  /\ UNCHANGED <<client, flush, results, net, server, history>>

-----------------------------------------------------------------------------
(* The server, as this client meets it *)

Say(r) == down' = IF r = "nothing" THEN down ELSE Append(down, r)

Fault == faults < MaxFaults /\ faults' = faults + 1

Handles(m, r) ==
  \/ (Server!Serve(m, r) \/ Server!Reject(m, r)) /\ UNCHANGED faults
  \/ MayMisuse /\ Server!Refuse(m, r) /\ Fault

PeerHandles ==
  /\ peer # "down" /\ up # <<>> /\ up' = Tail(up)
  /\ UNCHANGED astray
  /\ \E r \in Answers \cup Errors \cup {"nothing"} :
       Handles(Head(up), r) /\ Say(r)
  /\ UNCHANGED <<client, caller, replies, results, misled>>

PeerAnswers(k) ==
  /\ UNCHANGED astray
  /\ Server!Answer(k) /\ Say(k)
  /\ UNCHANGED <<client, caller, replies, results, up, history>>

PeerStrays ==
  /\ Len(cmds) + Len(up) + Len(down) + Len(replies) < MaxNet
  /\ UNCHANGED astray
  /\ \E r \in Answers \cup Errors : Server!Stray(r) /\ Say(r)
  /\ UNCHANGED <<client, caller, replies, results, up, history>>

(* The measurement ended on a size mismatch: it is never answered. *)
PerfGivesUp ==
  /\ Fault
  /\ UNCHANGED astray /\ Server!Lose
  /\ UNCHANGED <<client, caller, replies, results, net, misled>>

(* The client's ticket expired. *)
PeerForgets ==
  /\ Fault
  /\ UNCHANGED astray /\ Server!Forget
  /\ UNCHANGED <<client, caller, replies, results, net, misled>>

(* Others use its perf, and one measurement is never answered; or the client's
   object lies where a freed one is waited for. *)
GoesAstray ==
  /\ Fault
  /\ MayMisuse /\ peer # "down" /\ ~astray
  /\ astray' = TRUE /\ UNCHANGED tainted /\ Server!Others
  /\ misled' = TRUE
  /\ UNCHANGED <<client, caller, replies, results, net>>

(* The server process dies: what it had received and what it had not put on
   the wire is lost; the rest waits in the DEALER for the next server. *)
PeerDies ==
  /\ Fault
  /\ Server!Die
  /\ \E i \in 1..Len(up) + 1 : up' = SubSeq(up, i, Len(up))
  /\ \E i \in 0..Len(down) : down' = SubSeq(down, 1, i)
  /\ UNCHANGED <<client, caller, replies, results, misled>>

PeerRestarts ==
  /\ Server!Restart
  /\ UNCHANGED <<client, caller, replies, results, net, history>>

(* Another client was rejected.  What it leaves in the message shows in the next
   refusal only, which is a fault: the guard on faults is a bound. *)
OtherRejected ==
  /\ MayMisuse /\ faults < MaxFaults /\ peer # "down" /\ ~tainted
  /\ tainted' = TRUE /\ UNCHANGED astray /\ Server!Others
  /\ UNCHANGED <<client, caller, replies, results, net, history>>

-----------------------------------------------------------------------------

Next ==
  \/ HandleCmdpipe
  \/ HandleFlush
  \/ Expire
  \/ HandleProtocol
  \/ SignalReturns
  \/ ReadResult
  \/ \E c \in Calls : Call(c)
  \/ Accept
  \/ PeerHandles
  \/ \E k \in DOMAIN owed : PeerAnswers(k)
  \/ PeerStrays
  \/ PerfGivesUp
  \/ PeerForgets
  \/ GoesAstray
  \/ PeerDies
  \/ PeerRestarts
  \/ OtherRejected

Spec == Init /\ [][Next]_vars

(* The actor's zloop serves its pipes, its DEALER and its timer, and a thread
   in a method reads its pipe.  Nobody has to call anything, and nothing is asked
   of the server: a ROUTER that is never empty keeps it from its perfs, a full
   pipe of a perf keeps it from its clients, and a measurement need not end. *)
Fairness ==
  /\ WF_vars(HandleCmdpipe) /\ WF_vars(HandleFlush) /\ WF_vars(Expire)
  /\ WF_vars(HandleProtocol) /\ WF_vars(Accept) /\ WF_vars(SignalReturns)

FairSpec == Spec /\ Fairness

(* With a server that, while it runs, goes on handling what it receives: for
   what is not reached even then. *)
ServedSpec == FairSpec /\ WF_vars(PeerHandles)

-----------------------------------------------------------------------------
(* Properties *)

(* Every variable has its type, and a client with its retries used up does not
   take itself for connected. *)
TypeOK ==
  /\ actor \in {"running", "blocked", "failing", "stopped", "aborted", "ended"}
  /\ state \in States
  /\ connected \in BOOLEAN /\ ticking \in BOOLEAN /\ timeout \in BOOLEAN
  /\ tainted \in BOOLEAN /\ astray \in BOOLEAN /\ misled \in BOOLEAN
  /\ retries \in 0..3
  /\ call \in Calls \cup {"none"}
  /\ cmds \in Seq(Calls) /\ flush \in BOOLEAN
  /\ replies \in Seq(Replies)
  /\ up \in Seq(Requests) /\ down \in Seq(Answers \cup Errors)
  /\ peer \in Server!Peers
  /\ owed \in [Server!Late -> Nat]
  /\ unread \in 0..MsgCap /\ due \in 0..MaxDue
  /\ faults \in 0..MaxFaults
  /\ connected => retries < 3

(* The client's machine and the server's move apart by what is on its way
   only: whatever the application calls, and in whatever order, the server
   never has to reject a request of a client it has kept since its HELLO. *)
ServerTakesEveryRequest == kept => Count(down, "INVALID") = 0

(* Each reply that is not a FAILURE is the one the application is waiting for,
   and the only one: s_accept_reply never takes the reply of one call for that
   of another, and connected() never a late number for its own while the
   machine runs. *)
RepliesMatchTheCall ==
  ~misled =>
  \A i \in DOMAIN replies :
    CASE replies[i] = "FAILURE" -> TRUE
      [] replies[i] = "NUMBER" -> actor = "running" => call = "$CONNECTED"
      [] replies[i] = "SIGNAL" -> call = "$FLUSH"
      [] OTHER -> /\ call \in Methods /\ replies[i] \in Filters[call]
                  /\ Count(replies, replies[i]) = 1

(* As long as the server kept the client, every measurement whose result the
   application has not read is on the message pipe, in signal_result, on the
   wire, or with a perf: no RESULT is lost, doubled or taken for the reply of a
   call that was made meanwhile.  The message pipe is where signal_result sends
   it; zperf_client.xml:221 has the command pipe. *)
ResultsConserved ==
  kept /\ actor \in {"running", "blocked"} =>
    due = unread + (IF actor = "blocked" THEN 1 ELSE 0)
               + Count(down, "RESULT") + owed["RESULT"] + Count(up, "MEASURE")

(* What a call waits for is still at the server: its request is not handled yet,
   or the perf owes the answer. *)
WithServer ==
  \/ call = "SAY_HELLO" /\ Count(up, "HELLO") > 0
  \/ call \in {"CREATE_PERF", "REQUEST_BORC"} /\ Count(up, RequestFor[call]) > 0
  \/ call = "REQUEST_BORC" /\ owed["SOCKET_OK"] > 0

(* A call that never returns waits for the server for ever, unless the machine
   has stopped, the actor waits for the application to read a result, or the
   server lost something of this client.  Neither the client nor the wire ever
   swallows a request or its answer, and launch_measure, which the client
   answers by itself, always returns. *)
CallReturns ==
  <>[](call \in Methods) =>
    <>[](\/ WithServer
         \/ ~kept
         \/ actor \in {"stopped", "failing", "aborted"}
         \/ actor = "blocked" /\ due > MsgCap)

(* A client that is online learns that the server died: it stops taking itself
   for connected, if the server is not back before. *)
LossIsNoticed ==
  (actor = "running" /\ state \in Online /\ peer = "down")
    ~> (~connected \/ actor # "running" \/ state \notin Online
        \/ peer # "down")

(* zperf_client_destroy returns, with replies nobody took in the pipe, from a
   stopped machine, and with the server dead: unless the actor waits for room
   on the message pipe, which nobody reads any more.  An application that never
   has more launches whose results it has not read than that pipe has room for
   meets this only in a machine that reports its end. *)
DestroyReturns ==
  call = "$FLUSH" ~>
    \/ actor \in {"ended", "failing"}
    \/ actor = "blocked" /\ (~kept \/ due > MsgCap)

-----------------------------------------------------------------------------
(* What documents and comments say, and the code does not do *)

Forgotten == actor = "running" /\ state \in Online /\ peer = "none"

(* zperf_msg.xml:92, PING: "Server replies with PING-OK, or ERROR with status
   COMMAND-INVALID if the client is not recognized (e.g. after a server restart
   or network recovery)", which is what makes the client say HELLO again
   (zperf_client_engine.inc:1597). *)
ForgottenClientReconnects == Forgotten ~> ~Forgotten

=============================================================================
