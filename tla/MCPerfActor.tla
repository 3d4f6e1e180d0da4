---------------------------- MODULE MCPerfActor ----------------------------
EXTENDS PerfActor

Ends(p, c) == [a \in {"p", "c"} |-> IF a = "p" THEN p ELSE c]
Do(kind, n, size) == [kind |-> kind, n |-> n, size |-> size]
Stop == Do("$TERM", 0, 0)

Throughput == {Ends("PUSH", "PULL")}
Latency == {Ends("REQ", "REP"), Ends("REQ", "ROUTER"), Ends("DEALER", "REP")}
AllPairs == Throughput \cup Latency

(* Next to the commands that fit a socket: sizes and numbers that fit nothing
   at the other end, one message, no data, and commands of other sockets. *)
AllOffers == [
  PUSH |-> {Do("SEND", 2, 1), Do("SEND", 3, 2), Do("STHR", 2, 2), Stop},
  PULL |-> {Do("RECV", 2, 1), Do("RECV", 3, 2), Do("RTHR", 2, 2), Stop},
  REQ |-> {Do("YODEL", 2, 1), Do("RLAT", 2, 2), Do("RLAT", 2, 0),
           Do("SEND", 2, 1)},
  REP |-> {Do("ECHO", 2, 1), Do("SLAT", 2, 2), Do("SLAT", 1, 0),
           Do("RECV", 2, 1)},
  DEALER |-> {Do("YODEL", 2, 1), Do("YODEL", 3, 2), Do("VERBOSE", 0, 0)},
  ROUTER |-> {Do("ECHO", 2, 1), Do("ECHO", 1, 1), Do("SEND", 2, 1),
              Do("BATCH", 0, 0), Do("OTHER", 0, 0)}]
=============================================================================
