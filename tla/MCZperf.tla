------------------------------ MODULE MCZperf ------------------------------
EXTENDS ZperfCli

Ends(p, c) == [a \in {"p", "c"} |-> IF a = "p" THEN p ELSE c]
Do(kind, n, size) == [kind |-> kind, n |-> n, size |-> size]

Call(op, a, cmd) == [op |-> op, on |-> a, cmd |-> cmd]
Bind(a) == Call("bind", a, Do("BIND", 0, 0))
Connect(a) == Call("connect", a, Do("CONNECT", 0, 0))
Ini(a, cmd) == Call("initiate", a, cmd)
Fin(a) == Call("finalize", a, "none")
Destroy(a) == Call("destroy", a, Do("$TERM", 0, 0))

(* The sockets, the measurement and a second one of another size. *)
Pairings == {
  [sock |-> Ends("PUSH", "PULL"),
   p |-> Do("SEND", 3, 1), c |-> Do("RECV", 3, 1),
   p2 |-> Do("STHR", 2, 2), c2 |-> Do("RTHR", 2, 2)],
  [sock |-> Ends("REQ", "REP"),
   p |-> Do("YODEL", 2, 1), c |-> Do("ECHO", 2, 1),
   p2 |-> Do("RLAT", 2, 2), c2 |-> Do("SLAT", 2, 2)]}

Main(calls) == [t \in {"main"} |-> calls]
Bookends == {<<Bind("c"), Connect("p")>>, <<Bind("p"), Connect("c")>>}

(* s_test of zperf.cpp, the example of README.org, two measurements with and
   without waiting between them, the deadlock of README.org:92, and a bind
   while a measurement is outstanding. *)
OneProcess == UNION {
  {[sock |-> m.sock, calls |-> Main(join \o calls)] : join \in Bookends, calls \in
    {<<Ini("p", m.p), Ini("c", m.c), Fin("p"), Fin("c"), Destroy("c"),
       Destroy("p")>>,
     <<Ini("c", m.c), Ini("p", m.p), Fin("p"), Fin("c")>>,
     <<Ini("p", m.p), Ini("c", m.c), Fin("p"), Fin("c"),
       Ini("p", m.p2), Ini("c", m.c2), Fin("c"), Fin("p"), Destroy("p")>>,
     <<Ini("p", m.p), Ini("p", m.p2), Ini("c", m.c), Ini("c", m.c2),
       Fin("c"), Fin("p"), Fin("p"), Fin("c"), Destroy("c")>>,
     <<Ini("p", m.p), Fin("p"), Ini("c", m.c), Fin("c")>>}}
  : m \in Pairings}
  \cup {[sock |-> Ends("PUSH", "PULL"),
         calls |-> Main(<<Ini("p", Do("SEND", 0, 1)), Bind("p"),
                          Connect("c")>>)]}

(* zperfcli, with more messages than the connections hold or as many and
   --batch, waiting for the other or for a name nobody has, or not at all. *)
Cli(a, batch, join, cmd, wait) ==
  <<Call("zyre_start", a, "none")>>
  \o (IF batch THEN <<Call("set_batch", a, Do("BATCH", 0, 0))>> ELSE <<>>)
  \o <<join, Ini(a, cmd), Fin(a)>>
  \o (IF wait = "" THEN <<>> ELSE <<Call("wait", a, wait)>>)
  \o <<Destroy(a), Call("zyre_stop", a, "none")>>

TwoClis ==
  {[sock |-> m.sock,
    calls |-> [t \in {"p", "c"} |->
      IF t = "p" THEN Cli("p", ~full, Connect("p"),
                          IF full THEN m.p ELSE m.p2, waits[1])
                 ELSE Cli("c", ~full, Bind("c"),
                          IF full THEN m.c ELSE m.c2, waits[2])]]
   : m \in Pairings, full \in BOOLEAN,
     waits \in {<<"", "">>, <<"peer", "">>, <<"", "peer">>, <<"peer", "peer">>,
                <<"nobody", "">>}}

AllPrograms == OneProcess \cup TwoClis
AllSocks == {m.sock : m \in Pairings}
NoOffers == [t \in Types |-> {}]
=============================================================================
