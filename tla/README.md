# zperfmq in TLA+

A verification development for zperfmq, the ZeroMQ performance measurement
package: the perf actor that runs measurements on a socket, and the Zperf
server and client that let a remote program create and drive perf actors.
All paths below are relative to the repository's root.

## The system

| Component | Code | State | Operations | Modelled |
|---|---|---|---|---|
| perf actor | `src/perf.cpp` | measurement socket, counters of the running measurement (`perf_t`) | commands of its pipe: BATCH, BIND, CONNECT, eight measurements, VERBOSE, $TERM | `PerfActor` |
| perf pipe | czmq actor pipe | commands one way, answers the other | send, receive, $TERM | `PerfPipe` (abstract) |
| zperf API | `src/zperf.cpp` | the last result | `bind`, `connect`, `measure`, and `initiate`/`finalize` around a measurement | `ZperfApi` |
| Zperf server | `src/zperf_server.cpp`, `zperf_server_engine.inc` | client objects, perfs with their waiting lists, one shared message | messages of the ROUTER, answers of the perfs' pipes, tickets, $TERM | `PerfServer` |
| Zperf client | `src/zperf_client.cpp`, `zperf_client_engine.inc` | machine, expiry timer and retries, command and message pipes | blocking methods, messages of the DEALER, expiry, destroy | `PerfClient` |
| codec | `src/zperf_msg.cpp` | the fields of the last messages | recv, send, setters, copies, zconfig trees | `PerfMessage`; which fields the server's machine depends on: in `PerfServer` |
| zperfcli | `src/zperfcli.cpp` | a `zperf_t`, a Zyre node | one measurement, the wait for the peer's exit | `ZperfCli` |
| `pop_int`, `pop_long` | `src/zperf_util.cpp` | none | frame to number | no |
| Python | `bindings/python/zperfmq/main.py` | test plans | runs the CLI and the API over ssh | no |
| generated, vendored | `src/json.hpp`, `src/CLI11.hpp`, `bindings/` | | | no |

How they interact. An application owns a perf actor through a pipe, directly or
through the zperf API. A perf actor runs one command at a time in a thread of
its own, blocks in its measurement socket, and puts an answer on the pipe. The
Zperf server is a thread with a zloop over the ROUTER, its owner's pipe, and
the pipe of every perf it created; it passes SOCKET and MEASURE requests on to
a perf with a blocking send, and remembers who asked in the perf's waiting
list, because the answer names nobody. A Zperf client is a thread with a zloop
over its owner's command pipe, a message pipe for results, the DEALER and an
expiry timer; the owner's methods block until a reply comes back.

What is hard about it: answers are matched to those who asked by their position
only; two ends of a measurement run in two processes without coordination; the
server blocks on pipes of actors that may block on it; client objects are freed
while lists hold pointers to them; the two state machines of client and server
drift apart when either is slow, restarts or expires; the client's owner blocks
on replies that may never come. `PROJECT.json` lists each hazard with its line
and the property that watches it, or why none does.

## The modules

| Module | What it is |
|---|---|
| `PerfPipe` | abstract specification: a FIFO of commands, each answered at most once, in order; SOCKET always, a NOTE never, a MEASURE perhaps |
| `PerfActor` | two perf actors with connected sockets, every send and receive a step; implements `PerfPipe` |
| `PerfServer` | the server with its perfs, as its pipes show them; uses the pipes as `PerfPipe` has it |
| `PerfServerProofs` | theorems about `PerfServer`: its safety properties, that it uses its pipes as `PerfPipe` has it and serves its clients as `ServerPeer` has it |
| `ServerPeer` | abstract specification: what the server promises to one of its clients, whatever the others do |
| `PerfServerPeers` | `PerfServer` implements `ServerPeer` for each of its clients at once |
| `PerfClient` | one client and its application, composed with the server as `ServerPeer` has it |
| `ZperfApi` | the threads of an application that call zperf.cpp, composed with the two actors of `PerfActor` |
| `ZperfCli` | programs of `ZperfApi` that are zperfcli processes, with their Zyre nodes |
| `PerfMessage` | the codec: an object that sends, an object that receives, frames between them |
| `PerfActorProofs`, `PerfPairedProofs`, `PerfAnswerProofs` | theorems about `PerfActor`, each module on the one before: types, refinement and what `noos` is good for; matching measurements over one connection; over any number |
| `ZperfProofs` | theorems about `ZperfCli`, and so `ZperfApi`, on those of the actors |
| `PerfClientProofs` | theorems about `PerfClient`: types; then its safety properties |
| `PerfMessageProofs` | theorems about `PerfMessage` |
| `PipeImages` | lemmas about a pipe seen through an operator on its messages, for both refinements of `PerfPipe` |
| `MCPerfActor`, `MCPerfServer`, `MCPerfClient`, `MCZperf` | constants, programs and symmetry for TLC |

### PerfActor

`cmds`, `answers` are the two directions of an actor's pipe, `run` the fields
of `perf_t` that `s_reset` clears, `back` the saved id frame of a ROUTER (and
the connection a REQ or REP is tied to), `wire` the messages on each connection.
`Begin` is a measurement's first lines with `s_reset` and `s_start`; `SendFrame`,
`Respond` and `RecvFrame` are one `s_send` or `s_recv`, with what libzmq's own
loops (SLAT, RLAT, STHR, RTHR) do differently; `SizeMismatch` is the return of
NULL that skips `s_signal`; `ResetFails`, `SendOutOfTurn`, `RecvOutOfTurn`,
`SendToNobody`, `SignalUnstarted` are the assertions, socket errors and NULL
pointers that a command out of place runs into. A message is its count and its
size; `of` and `from` are history that tells whose measurement a message
belongs to. Times, CPU time and payloads are left out. ZeroMQ is external: a
connection is a FIFO that holds `Hwm` messages, several connections are read in
any order.

### PerfServer

One action per handler. `HandleProtocol(c, m)` is `s_server_handle_protocol`
for one message with everything it calls: the creation of the client object,
`zperf_msg_recv` overwriting the shared message, the transition, the actions,
the reply, the freeing of the object. `HandleAnswer`, `HandleFailure` and
`HandleDangling` are `s_server_handle_perf`, split by what it finds: an object
in the waiting list, a negative port or rc, or a freed address. `CommandPerf`
sends to the perf's pipe or blocks (`srv = "sending"`) and `SendReturns` is the
rest of the handler once there is room; while it blocks no other handler runs.
Addresses are explicit (`addr`), so that malloc may give a freed one to the next
client: a waiting list then points at somebody else. `PerfAnswers`,
`PerfGivesUp` and `PerfAborts` are the perfs: a command is answered, or is a
measurement that ends without an answer, that fails an assertion and takes the
server's process with it, or that never ends. `by` in commands and answers, `skew` (measurements
that ended without an answer) and `stale` (addresses freed while a list held
them) are history.

### PerfClient

`state`, `connected`, `retries`, `ticking` (expiry is not zero) and `timeout`
(`args.timeout` is not zero) are the engine's; `cmds`, `flush` and `replies` are
the pipes between the application and the actor; `call` is the method the
application is blocked in. An application step (`Call`, `Accept`), a handler of
the actor (`HandleCmdpipe`, which is `HandleMethod`, `HandleConnected` and
`HandleTerm`; `HandleFlush`, `HandleProtocol`, `Expire`) and a step of the
server interleave freely, which is what the code's three threads of control do.
After "terminate" the machine is stopped but the actor still reads its pipes.
`signal_result` blocks the actor when the message pipe is full (`actor =
"blocked"`, and "failing" when the last message before the machine stops does
not fit), until the application reads (`SignalReturns`, `ReadResult`). `due` is
history: the measurements launched whose result the application has not read.

### ServerPeer, PerfServerPeers: client and server composed

A client and a server with all its other clients are too large for one run, so
they are composed by a contract. `ServerPeer` is what one client meets: the
server's state of it (`peer`), the answers its perfs owe it (`owed`), whether the
shared message holds COMMAND_INVALID (`tainted`), and whether answers may be
missing or somebody else's (`astray`: a measurement ended without an answer on a
perf that others wait on, or the client's object lies where a freed one was that
a waiting list still holds). `PerfServerPeers` maps the state of `PerfServer` to
it for each client (what a client is owed is the number of places of the lists
that wait for it), and `ServesPeers` says that every step of the server is a step
of the contract for each of its clients, which is checked with two and proved for
any number, among them what the others do: reject it and the next ERROR of this client is an invalid
command. `PerfClient` uses the contract's actions for its server
(`Server == INSTANCE ServerPeer`), adds the wire in both directions, and lets the
server die with what it had received and start again; what is checked of this
one client so holds next to others.

### ZperfApi, ZperfCli, MCZperf

A program is a sequence of calls per thread; `pc` is the call a thread is at,
`sent` that it has sent its command and waits, `taken` how many answers of an
actor have been read, `last` what the getters return. `bind`, `connect` and
`destroy` send (`Ask`) and wait (`Joined`, `Destroyed`); `Misread` is the
assertion they run into when the next answer is that of a measurement; `Finalize`
takes the next answer whatever it is and keeps `msgsize` as the last `Initiate`
set it. `measure` is the two in a row. The programs of `MCZperf` are `s_test`,
README.org's example, two measurements with and without waiting between them,
finalize before the other end is initiated, a bind while a measurement is
outstanding, and pairs of zperfcli. A zperfcli is a thread with a Zyre node:
`events` are what Zyre has told it, `want` that it has learnt the uuid it waits
for. Nodes that are both started find each other in their own time (`Finds`), and
only who was found is missed (`Misses`).

### PerfMessage

An object is its id, routing id, fields, `endpoints` hash (or NULL) and
`endpoints_bytes`. The value of a field is the field it was set for and the frame
it was set for, so that two fields that change places, and a value that is older
than the message, show. A frame is a sequence of items, a number or a string
each, with their size in octets; that is as fine as the receiving macros are,
which take an item whole or not at all. `Sized`, `PutOrder`, `GetOrder`, `ZplPut`
and `ZplWanted` are the five switches over the message id as the code has them,
and `Grammar` is the list in `include/zperf_msg.hpp` that they are compared with.
`Cut` and `Damage` make frames that `zperf_msg_send` does not. `Interrupted` is
either receive of `zperf_msg_recv`, the routing id's or the frame's; after the
second the frame is left without its routing id, for `RecvHeadless` to find.

## The runs

| Run | Question | Bounds |
|---|---|---|
| `PerfServer_waiting` | Do waiting lists, pipes and clients stay in step, do answers reach the peer that asked, and does each client meet the server of `ServerPeer`? | 2 clients, 2 addresses, 1 perf, pipes of 1, 2 waiting, 1 unanswered measurement; symmetric |
| `PerfServer_fair` | Can the server and its perfs wait for each other, and what can keep a send or a shutdown? | 1 client, 2 perfs, pipes of 1, dead perfs |
| `PerfActor_pairs` | Do the two ends of the selftest's socket pairs agree, drain and finish, and does each serve its pipe? | 4 pairs, 1 connection that holds 1 message, 3 commands per end, measurements of 2 and 3 messages |
| `PerfClient_calls` | Do requests, replies and results fit, what can keep a call, and does destroy return? | 2 results yet to be read at a time, message pipe of 1, PINGs only to an idle wire of a running server, 1 fault |
| `Zperf_programs` | Do programs on the API get results of one measurement, outlive their data, and end? | 2 pairs of sockets, 2 connections that hold 1 message and reorder, programs of one thread with up to two measurements per end, pairs of zperfcli with all choices of `--wait` |
| `PerfMessage_codec` | Do the codec's switches agree, and what is left of a frame that is not whole? | 2 frames, hashes of up to 2 entries of 4 keys (one plain, two addresses, one of 256 octets) |
| `PerfServer_result_ident`, `PerfServer_bind_failure`, `PerfServer_freed_waiter`, `PerfServer_lost_answer`, `PerfClient_forgotten`, `PerfMessage_malformed` | one statement of a document or comment each, violated | as small as the trace needs |

Why the bounds are enough. Two clients share one perf because every confusion of
addressees needs a second one, and a third client adds another entry of the same
kind to the list; a pipe of one message blocks as one of a thousand does, sooner;
the shared perf is where the waiting list lives, so a second perf matters only to
the shared message and to shutdown, which the fair run and the ident run have.
Two addresses for two clients make malloc reuse one as soon as it is freed. Three
commands per end are the join and two measurements, so that one may run into the
next; two and three messages are the least that differ and exceed a connection of
one. Two results a client has yet to read may be with a perf, on the wire and on
the message pipe at once, and a message pipe of one blocks at the second.
`retries` counts to three as in the code. Two frames are a message and the one
whose fields are still in the object; each property of the codec is about one
frame and the object before it. What the theorems state needs no bound: they
hold for all values of the constants.

In `PerfClient`, `MaxNet` says that a running server answers a PING before the
next one is due; the timer is unrestricted while the server is down. One fault is
enough for each way to lose something; what another client leaves in the server's
message (`OtherRejected`) matters only before it.

### What passes

- **Server.** `WaiterForEveryAnswer`: the `assert (client)` after `zlist_pop`
  never fails. `WaitersInOrder`, `AnswerGoesToAsker`: answers are matched by
  position correctly, as long as no measurement ended without an answer and the
  client was not freed. `WaitersKeepTheirPerf`: a waiting client is in have_perf,
  so the return event is never an invalid command. `SendCanReturn`: with at most
  two pipes' worth of unanswered commands the server and a perf never wait for
  each other. `BlockedSendReturns`, `StopCompletes`: what a `zsock_send` that
  blocks for ever waits for is then a dead perf or a measurement that does not
  end, and what `s_server_destroy` waits for is the latter; the pipes, full or
  not, keep neither. `ServesPipes`: refinement of `PerfPipe`.
- **Actor.** `PairedMeasuresAnswered`, `PairedMeasuresInOrder`, `WireDrained`,
  `PairedMeasuresEnd`: what README.org says under "Coordination" holds for the
  supported socket pairs over one connection, whichever end runs ahead; over
  several connections only when the owners wait in between. `NoosDetectsMixing`:
  a receiving end with `noos = 0` counted one measurement. A YODEL against SLAT
  does not have this: SLAT echoes the count it got. `PerfIsPipe`: refinement.
- **Server and client.** `ServesPeers`: refinement of `ServerPeer` for every
  client.
- **Client.** `ServerTakesEveryRequest`: the two machines never disagree unless
  the server lost something of the client, however the application calls.
  `RepliesMatchTheCall`: replies are those of the call, unless the client was led
  astray, and `connected()` is right unless a FAILURE was left unread.
  `ResultsConserved`: every RESULT is on its way, read, or in the pipe, once.
  `CallReturns`: a call that never returns waits for a request or an answer that
  is still at the server, as long as the machine runs and the server lost nothing
  of the client; client and wire swallow neither. `DestroyReturns`,
  `LossIsNoticed`: destroy, and the notice of a dead server, need no server, with
  the exceptions the properties name.
- **API and zperfcli.** `PairedMeasuresAnswered` and `WireDrained` for the API's
  programs over connections that reorder. `LastIsOfOneMeasurement`: the getters
  speak of one measurement, except for `msgsize` when a second was initiated
  before the first was finalized. `SenderOutlivesItsData`: a zperfcli that was
  told to wait destroys its socket only when the other has its result, or died.
  `ProgramsEnd`: programs that keep to README.org's interleaving, and pairs of
  zperfcli of which the sender waits and only it, end; what can keep them is an
  address that fails and a peer that was gone before Zyre had found it. Two that
  wait for each other, and `--wait` for a name nobody has, do not end.
- **Codec.** `WholeFrameIsTheMessage`: exactly the fields the header lists go
  from one object to the other, the rest stays. `CutFrameIsAPrefix`: a frame that
  ends early leaves the first fields new and the rest old, with the new id: its
  caller, which is told 0, acts on fields of two messages.
  `FrameHoldsItsFields`: what is put fills what was allocated, except that an
  INFO whose endpoints were taken carries as many octets more as its last hash
  had. `CopiesSendTheSame`: `dup`, and `zpl` followed by `new_zpl`, send the same
  frame, except for addresses as keys of `endpoints`, which zconfig splits at the
  '/'.

Deadlock is checked in the server's safety run, where only a stopped or aborted
server may stutter, and in the codec's. The other runs turn it off: two actors
may both wait for a message nobody sends, and an application may wait for a
reply, by the code.

### What the code does otherwise

Each is a run that TLC ends with a trace; `PROJECT.json` quotes the line.

- A RESULT carries the ident of whatever message came last, of any client.
- One failed BIND ends the reactor for everybody.
- A waiting list keeps the pointer of a client that was freed.
- After a measurement without an answer, results go to the wrong client.
- A server that does not know a client answers its PING with PING_OK, so a client
  whose server restarted never says HELLO again until the application calls; that
  call is rejected, the client reconnects, and the call never returns.
- A message that ends before its last field is received with 0, where the comment
  of `zperf_msg_recv` has -2; a server takes it for the whole message.

What follows is in the models as the code has it, but has no run of its own: one
step or one call shows it, or a property above names it as its exception.

- A RESULT comes on the message pipe (`zperf_client.cpp:367`), though
  `zperf_client.xml:221-223` and the comment at `zperf_client_engine.inc:1726-1728`
  say that the command pipe provides it. `ResultsConserved` follows the code.
- The server waits for a busy perf: the `zsock_send` to its pipe blocks when it is
  full, for ever when the measurement does not end or the actor returned at birth,
  though `zperf_server.xml:39` says it must not. `BlockedSendReturns` has exactly
  these as what it may wait for.
- ECHO, RECV and RTHR of a single message stop a stopwatch that was never started
  (`SignalUnstarted`), and libzmq measurements with empty messages fail
  `assert (rc = msgsize)`, which assigns (`AfterSend`). `Proper` leaves both out of
  the properties of matching measurements.
- The HELLO of a reconnection has no timer unless a `launch_measure` gave one: lost
  with the server, it is not said again.
- A client whose machine has stopped takes itself for connected for ever, and
  `connected()` takes a FAILURE nobody read for its number. `LossIsNoticed` and
  `RepliesMatchTheCall` leave the stopped machine out.

## Fairness

Fairness is what a thread of the code does by itself. Nowhere is it asked that a
measurement ends: `s_recv` and `s_send` wait for the counterpart as long as that
takes, and a `$TERM` is not looked at meanwhile.

- `PerfServer`: `Fairness` asks that a perf answers a BIND or CONNECT, that the
  zloop goes on after a send that can return, that `zactor_destroy` goes on while
  no actor is in a measurement, and that the destruction then ends. It does not
  ask that clients send, that tickets expire, or that the server reads a perf's
  pipe: `s_server_handle_protocol` loops while the ROUTER has messages, and
  liveness must not rest on the zloop's scheduling.
- `PerfClient`: each handler of the client's zloop is fair, and so are the timer,
  the blocked reader, and a blocked `signal_result` once there is room. Calls,
  faults and restarts are not, nor is anything the server does; the application
  need never read its results. `ServedSpec` adds a server that, while it runs,
  handles what it received. Only the run `PerfClient_forgotten` uses it, to show
  what even such a server does not mend.
- `PerfActor`: the two actors are threads, and each goes on when it can;
  `PairedMeasuresEnd` is about commands of which each has its counterpart.
- `ZperfCli`: each thread and each actor is fair, and so is Zyre, which beacons
  until it is heard.

## The proofs

Each theorem is about `Spec` of its module (`CliSpec` in `ZperfProofs`), for all
values of the constants that the module's assumption allows. `ServerConstants`,
`ActorConstants`, `ClientConstants` and `MessageConstants` say what the constants
are (capacities are positive, an absent value is not a present one, there are two
ends, finitely many connections and keys; `PerfsAreFinite`: the server's perfs are
actors it could start, so finitely many), and two things about commands: that the
owner never offers BIND or CONNECT a second time, and that a PUSH socket is not
asked to receive nor a PULL to send, nor a DEALER or ROUTER to run libzmq's loops,
which the model has no steps for. Which sockets are connected, which commands with
what numbers and sizes, how many connections that hold how much, how many clients
and perfs: any. `ApiConstants` and `CliConstants` are about programs and are given
below. Apart from these assumptions nothing is taken on trust. What a proof adds
to the properties of the runs was first checked by TLC on small instances of the
same modules.

### The server

`PerfServerProofs`: `TypeOK`, `WaiterForEveryAnswer`, `SendCanReturn`,
`WaitersKeepTheirPerf`, `WaitersInOrder`, `AnswerGoesToAsker`, `ServesPipes` and
`ServesPeers`.
None of these is inductive alone. The invariant that is, is
`TypeOK /\ Objects /\ Counts /\ Order`, proved a layer at a time:

1. `TypeOK /\ Objects`. `Objects`: a peer has an address exactly when its machine
   has a state, and no two share one. Without it a waiting address could be the
   object of two clients.
2. `Counts`: the waiting list of each perf is as long as its unanswered commands
   plus `skew`, and a perf that does not exist has empty lists and pipes. Each
   step either leaves a perf's lists alone or moves one entry (`JoinCounts`,
   `PopCounts`).
3. `Order`: while the server serves, a waiting address that is not stale is the
   object of the client that sent the command at the same place, and that client
   is in have_perf. `Kept` says what a step of a machine may do to waiting
   clients: nothing, or free one and so make its address stale. `JoinOrder` and
   `PopOrder` carry the correspondence over the two ends of the list.

`AnswerGoesToAsker` follows from the invariant for each step that reads an
answer (`AskerStep`); no other step shortens `replies` (`WhoPops`).
`SendCanReturn` follows from the balance: a full pipe of commands and a full
pipe of answers would need more waiting clients than the bound.

`ServesPipes` is a refinement, proved step by step: a handler that commands a
perf is `Pipes!Send`, one that reads an answer is `Pipes!Receive`, and so on, or
nothing happens to any pipe (`PipeUse`, `PipeUsed`). `PerfPipe` sees the kinds of
the messages only; that a pipe's image takes the same steps is `PipeImages`. A
perf that has ended must have emptied its pipe (`DeadHasNone`), or its end would
not be a step of `PerfPipe`.

`ServesPeers` is the second refinement, and the longest proof here. What a client
is owed is the cardinality of `Awaited`, pairs of a perf and a place of its list,
and a step moves places: it adds one at the end (`GrownList`), takes the first
(`PoppedList`), drops one in the middle when a measurement gives up
(`SkippedList`), or leaves a list as it was although an entry passes from one
pipe to the other (`SameList`). `GrownAwaited`, `PoppedAwaited` and
`SkippedAwaited` say what becomes of the set, by a bijection with the places
behind, and so of its size. When a list is short of an answer, places and commands
no longer correspond; a client that is not astray then has all the places of that
list or none (`AloneOrAway`), which is what `Astray` means, and that is enough: for a client alone on a list any answer is one it asked for. On top of
this each handler is one of the contract's steps for the client it serves
(`CommandServes`, `PerfServes`, `AnswerServes`, ...) and for all others either
nothing, or what the contract says another client may do: leave the shared
message invalid, or lead this one astray by coming to a list that misses an
answer. That a measurement gives up leads astray the clients of a list that others
are in too.

### The actors

`PerfActorProofs`: `TypeOK` and `PerfIsPipe`. The types need `Backlog`: the
commands in the pipe are the last of those given, so that the number of a
measurement, which its messages carry, is a number; and `Machine`: a measurement
under way has its command at the head of the pipe. With these every step of an
actor is a step of its pipe or none (`PipeStep`).

Also there: `NoosDetectsMixing`, for commands that fit the sockets but need not
match, by the invariant `Ordered`. The property speaks of answers that have
been given; what keeps it true is on the connection. The numbers of the messages
grow by one within a measurement and begin again at zero, so a message that is
not the first of its measurement follows one of the same (`InRuns`); a receiving
end whose `noos` is zero has next a message of its measurement, or one numbered
zero that it will count out of order (`Hearing`). `Turns` and `Silent` are what
the sockets add.

`PerfPairedProofs`: `PairedMeasuresInOrder`, and that neither end aborts
(`PairedNeverAborts`), for matching commands over one connection, by the invariant
`Tallied`. `Slots` are the places, command and number, of all messages that the
commands given so far ask for, in order. `Flow` says that the connection holds,
in order, exactly the messages between the place up to which one end has sent and
that up to which the other has taken, whichever end is ahead and by how much; that
what an end takes is what it waits for follows (`TakesNext`). `Beat` and `Tempo`
bound the counters by the command, `TakesTurns` says whose turn a REQ, REP or
ROUTER has. That a ROUTER always has room for its echo, and so never drops it, is
`RoomToAnswer`.

`PerfAnswerProofs`: `WireDrained` and `PairedMeasuresAnswered`, in full. Over
several connections messages overtake each other, and `Flow` says nothing; there
the owners wait for both answers before the next measurement. The invariant
`Levelled` then has, for each end, `Balanced`: its connections together hold no
more messages than places it has passed and the other end not, a count over the
set `Slots`, kept finite; and `Held`: a message the other end will still take is
of the last measurement given. When an owner gives a measurement, both ends have
run those before it (`Caught`, by counting), so nothing is on the connections that
anyone will take. Hence what an end takes is of its own measurement (`TakesOwn`)
and has its size. `Whole` and `Accounted` then count the data and the answers.

None of this depends on who owns the actors. The lemmas are about the steps of
an actor and about `Gives`, an owner that gives any command to an actor that has
not ended; `AnySpec` is all of these, `Spec` of `PerfActor` one of them
(`SpecIsAny`), and so is an application on the API.

### The API and zperfcli

`ZperfProofs`: `PerfIsPipe`, `WireDrained`, `PairedMeasuresAnswered`,
`SenderOutlivesItsData` and `LastIsOfOneMeasurement`, for `CliSpec` and any set of
programs such that (`ApiConstants`) each actor is used by one thread, which binds
and connects it before it reads a result of it and leaves it alone once it is
destroyed; and, of two processes (`CliConstants`), main waits before it destroys
its socket and stops its node when it has the result. The programs of `MCZperf`
are such, and TLC says so on each run.

The first three are the theorems of the actors, once every step of a program is
shown to be a `Gives`, a step of an actor or neither (`CliIsAny`); for that, what an
actor was told its thread has asked for, and nothing is asked of an actor that was
told to end (`Asked`). `SenderOutlivesItsData` is by `Ordering`: a node stops, and
so its EXIT is seen, only when its process has its result or died, and a process
that waits tells its actor to end only once it has seen that. For
`LastIsOfOneMeasurement` the invariant `Readable` says that while no answer is
missing each is of the command at its place (`Named`), that `last` is of the answer
taken last (`Shown`) and its size of the measurement given last (`Sized`), and that
no answer to a join is left for `finalize` to take (`Joining`).

### The client

`PerfClientProofs`: `TypeOK`, `ServerTakesEveryRequest`,
`RepliesMatchTheCall` and `ResultsConserved`, with an application that misuses the
API or does not. A blocked call is in exactly one place: a command in the pipe, a
request on the wire, something a perf owes, an answer on the wire, or a reply in
the pipe (`OneCall`). Once the machine has stopped, only what was already in the
reply pipe is there (`OldReply`) and the object is at its end (`Ending`). What is
on the wire to the server fits the state in which the server will read it
(`InStep`), so nothing is rejected; then the measurements under way are conserved
(`Conserved`). That `due` stays in its bound needs a launch to be in one place
(`OneLaunch`).

### The codec

`PerfMessageProofs`: `TypeOK`, `FrameHoldsItsFields`, `CopiesSendTheSame`,
`WholeFrameIsTheMessage` and `CutFrameIsAPrefix`, for any keys, plain, paths or of
more than 255 octets, and any number of frames. That the five switches agree is
`Tables`, a case for each message. `Spelled` says what is at each place of a frame
(`PutSpells`), and the invariant `MessageInv` that the frame on the connection is
that of the object it was sent from, or its first items, or all with the signature
or id of no message. `RecvOfPart` is `zperf_msg_recv` of the first items of a
frame: the fields up to there and no others (`ParsedParts`), and a part of the
hash, all of it when the frame is whole and no key is too long (`HashGot`). Both
properties of arriving frames are instances of it.

A frame's size is a sum over the fields in a set, and what is put a sum over the
places of a sequence. `Total` counts octets as pairs, item and number, so that a
sum is the cardinality of a set, and what a proof by induction would give follows
from a bijection (`TotalOfImage`): fields to places, keys of the hash to places in
whatever order the cursor takes (`SizeOf`).

### Model-checked only

- All liveness (`BlockedSendReturns`, `StopCompletes`, `PairedMeasuresEnd`,
  `CallReturns`, `DestroyReturns`, `LossIsNoticed`, `ProgramsEnd`): the provers
  here handle neither fairness nor ENABLED.

## Not modelled, and why

- Server: the BIND, PORT, LOAD, SET and SAVE commands of the owner and the
  configuration watcher, which touch no protocol state; wakeups and broadcasts
  of the engine that the application does not use.
- Server: the loop of `s_server_handle_protocol`, which reads the ROUTER until it
  is empty and so may keep the perfs' answers waiting; the model takes one message
  per step, in any order with the answers.
- Server: the VERBOSE that a verbose server sends to a new perf: it is never
  answered, and takes a place in a pipe only until the perf reads it; in that of a
  perf that died at birth it stays. A `zactor_destroy` whose $TERM finds the pipe
  full does not send it.
- Client: `request_lookup` and `request_info`, events no method raises; the
  destructor event, so that GOODBYE is never sent; SET VERBOSE; the contents of
  messages, `status` and `reason`.
- Codec: the octets of a number or a string; `print` and `command`, which change
  nothing; a DEALER that receives, which differs in leaving the routing id alone.
- zperfcli: the command line, `--sleeps` and the other delays, the JSON file, the
  mapping of names to socket types. The loop over `nconnects` is one connect that
  brings all connections at once.
- `pop_int` and `pop_long` are `atoi` and `atol` of a frame. The Python driver is
  test plans and plots around the command line. The bindings are generated.
- `src/json.hpp` and `src/CLI11.hpp`, vendored, are 29000 of the 35700 lines of
  C++ here, and the two engines, where the protocol's state machines are, are
  `.inc` files. So the share of the C++ lines that the modules stand for is small
  although every component of zperfmq's own that keeps state is modelled.

## Plan

The modules are done, and every safety property a passing run checks has its
theorem. What is left is liveness, which stays with TLC.
