----------------------------- MODULE ServerPeer -----------------------------
(***************************************************************************)
(* What the Zperf server promises to one of its clients, whatever the      *)
(* others do.  PerfServerPeers shows that PerfServer implements it for     *)
(* each client at once, and PerfClient is checked against it, so that what *)
(* is checked of one client holds next to any number of them.              *)
(*                                                                         *)
(* The promise has its exceptions.  A client goes astray when answers may  *)
(* reach it that were not asked for by it, or its own go elsewhere: a      *)
(* measurement ended without an answer on a perf that others use too, or   *)
(* its object lies where a freed one was that a waiting list still holds.  *)
(***************************************************************************)
EXTENDS Naturals

VARIABLES
  peer,     \* "down" without a server, or the server's state of the client
  owed,     \* answers of perfs that are to come, unless astray
  tainted,  \* the server's message holds COMMAND_INVALID
  astray,   \* answers may be missing, or somebody else's
  said      \* what the last step sent the client

vars == <<peer, owed, tainted, astray, said>>

(* "none" is start_state, with or without an object. *)
Peers == {"down", "none", "connected", "have_perf"}
Late == {"SOCKET_OK", "RESULT"}
Nothing == [k \in Late |-> 0]

(* The states that have a request's event.  FOREIGN is a message only a server
   sends, or what a frame that ended early was taken for. *)
Admits == [HELLO   |-> {"none"},
           CREATE  |-> {"connected", "have_perf"},
           LOOKUP  |-> {"connected", "have_perf"},
           INFO    |-> {"have_perf"},
           SOCKET  |-> {"have_perf"},
           MEASURE |-> {"have_perf"},
           PING    |-> {"none", "connected", "have_perf"},
           GOODBYE |-> {"none", "connected", "have_perf"},
           FOREIGN |-> {}]

Requests == DOMAIN Admits

ReplyTo == [HELLO |-> "HELLO_OK", CREATE |-> "PERF_OK", LOOKUP |-> "PERF_OK",
            INFO |-> "INFO_OK", PING |-> "PING_OK", GOODBYE |-> "GOODBYE_OK",
            SOCKET |-> "nothing", MEASURE |-> "nothing"]

LateFor == [SOCKET |-> "SOCKET_OK", MEASURE |-> "RESULT"]

Goes(m) == CASE m = "HELLO" -> "connected"
             [] m \in {"CREATE", "LOOKUP"} -> "have_perf"
             [] m = "GOODBYE" -> "none"
             [] OTHER -> peer

Init ==
  /\ peer = "none" /\ owed = Nothing
  /\ tainted = FALSE /\ astray = FALSE /\ said = "nothing"

-----------------------------------------------------------------------------

(* Nothing is known of what an astray client is owed; when it is none any
   more, because it left or the lists have drained, it may be anything. *)
Owe(new) ==
  IF astray' THEN owed' = Nothing
  ELSE IF astray THEN owed' \in [Late -> Nat] ELSE owed' = new

(* A client with an object goes astray when others do something, one without
   when it gets one. *)
Serve(m, r) ==
  /\ peer \in Admits[m]
  /\ r = ReplyTo[m]
  /\ peer' = Goes(m)
  /\ UNCHANGED tainted
  /\ Owe(IF m = "GOODBYE" THEN Nothing
         ELSE IF m \in DOMAIN LateFor
         THEN [owed EXCEPT ![LateFor[m]] = @ + 1] ELSE owed)

(* An ident no perf has, a borc or a measure that is none: the client is
   dropped with an ERROR of whatever status the shared message has. *)
Refuse(m, r) ==
  /\ peer \in Admits[m] /\ m \in {"LOOKUP", "INFO", "SOCKET", "MEASURE"}
  /\ r = IF tainted THEN "INVALID" ELSE "ERROR"
  /\ peer' = "none" /\ UNCHANGED tainted
  /\ Owe(Nothing)

Drop(r) ==
  /\ r = "INVALID"
  /\ peer' = "none" /\ tainted' = TRUE /\ Owe(Nothing)

Reject(m, r) == peer # "down" /\ peer \notin Admits[m] /\ Drop(r)

(* r is what the server answers at once to request m, or "nothing". *)
Handle(m, r) == Serve(m, r) \/ Refuse(m, r) \/ Reject(m, r)

(* An answer of a perf: the client asked for it and is still in have_perf. *)
Answer(k) ==
  /\ peer = "have_perf" /\ owed[k] > 0
  /\ UNCHANGED <<peer, tainted>>
  /\ Owe([owed EXCEPT ![k] = @ - 1])

(* Any answer at all, which outside have_perf is an invalid command. *)
Stray(r) ==
  /\ astray
  /\ \/ peer = "have_perf" /\ r \in Late
        /\ UNCHANGED <<peer, tainted>>
        /\ Owe(Nothing)
     \/ peer \in {"none", "connected"} /\ Drop(r)

(* A measurement that ended without an answer, on a perf of its own. *)
Lose ==
  /\ UNCHANGED <<peer, tainted>>
  /\ owed["RESULT"] > 0
  /\ Owe([owed EXCEPT !["RESULT"] = @ - 1])

Forget ==
  /\ peer \in {"connected", "have_perf"}
  /\ peer' = "none" /\ UNCHANGED tainted
  /\ Owe(Nothing)

(* What happens to others: they may be rejected, may lose an answer this
   client then gets, or leave the client alone with its perf. *)
Others ==
  /\ tainted' \in {tainted, TRUE}
  /\ UNCHANGED peer
  /\ Owe(owed)

Die ==
  /\ peer # "down" /\ peer' = "down"
  /\ owed' = Nothing /\ tainted' = FALSE /\ astray' = FALSE

Restart ==
  /\ peer = "down" /\ peer' = "none"
  /\ owed' = Nothing /\ tainted' = FALSE /\ astray' = FALSE

Next ==
  \/ said' = "nothing" /\ (Others \/ Lose \/ Forget \/ Die \/ Restart)
  \/ said' \in Late /\ Answer(said')
  \/ \E m \in Requests : Handle(m, said')
  \/ Stray(said')

Spec == Init /\ [][Next]_vars
=============================================================================
