-------------------------- MODULE PerfServerPeers --------------------------
(***************************************************************************)
(* The server of PerfServer as each of its clients meets it: PerfServer    *)
(* implements ServerPeer for every client.                                 *)
(***************************************************************************)
EXTENDS PerfServer, FiniteSets

(* create_perf makes an ident of every actor it could start. *)
ASSUME PerfsAreFinite == IsFiniteSet(Perfs)

(* The clients a perf's answers will go to and the commands it has not
   answered, with the one zsock_send is blocked on. *)
Asking(p) ==
  waiting[p] \o (IF sending.to = p THEN <<sending.ptr>> ELSE <<>>)

Orders(p) ==
  replies[p] \o cmds[p] \o (IF sending.to = p THEN <<sending.cmd>> ELSE <<>>)

In(a, list) == \E i \in DOMAIN list : list[i] = a

(* One answer too few for a list of several clients, or an object where a
   freed one is still waited for. *)
Astray(c) ==
  Serving /\
  (\/ addr[c] \in stale
   \/ \E p \in Perfs :
        /\ skew[p] > 0 /\ In(addr[c], Asking(p))
        /\ \E i \in DOMAIN Asking(p) : Asking(p)[i] # addr[c])

(* The commands whose answer will go to c: a client waits for the command at
   its place in the list, or for all of them when it is alone there. *)
Awaited(c, kind) ==
  UNION {{p} \X {i \in DOMAIN Orders(p) :
                  Orders(p)[i].kind = kind /\ Asking(p)[i] = addr[c]} :
         p \in Perfs}

PeerOf(c) ==
  IF ~Serving THEN "down" ELSE IF fsm[c] = "start" THEN "none" ELSE fsm[c]

OwedTo(c) ==
  [k \in {"SOCKET_OK", "RESULT"} |->
     IF ~Serving \/ fsm[c] = "none" \/ Astray(c) THEN 0
     ELSE Cardinality(Awaited(c, IF k = "RESULT" THEN "MEASURE" ELSE "SOCKET"))]

Tainted == Serving /\ msg.status = "COMMAND_INVALID"

Said(c) ==
  IF reply.to # c THEN "nothing"
  ELSE IF reply.id # "ERROR" THEN reply.id
  ELSE IF msg.status = "COMMAND_INVALID" THEN "INVALID" ELSE "ERROR"

Peer(c) == INSTANCE ServerPeer WITH
  peer <- PeerOf(c),
  owed <- OwedTo(c),
  tainted <- Tainted,
  astray <- Astray(c),
  said <- Said(c)

Kind(m) == IF m.type = "OTHER" THEN "FOREIGN" ELSE m.type

(* The reply tells which request ServerPeer has handled, except for the first
   ERROR the server sends: whether it is an invalid command or a refusal is
   for the request to say. *)
ErrorAsPromised(c) ==
  reply' = [to |-> c, id |-> "ERROR"] /\ msg.status = "unset" =>
    \A m \in Requests :
      /\ FailRequest(c, m) => Peer(c)!Refuse(Kind(m), Said(c)')
      /\ RejectRequest(c, m) => Peer(c)!Reject(Kind(m), Said(c)')

(* Every client meets the server that ServerPeer describes, at every step and
   whatever the other clients and the perfs do: what each request is answered
   with, when the client is dropped and with what status, and that a perf's
   answer is one the client asked for unless it has gone astray. *)
ServesPeers ==
  /\ \A c \in Clients : Peer(c)!Init
  /\ [][\A c \in Clients : Peer(c)!Next /\ ErrorAsPromised(c)]_vars
=============================================================================
