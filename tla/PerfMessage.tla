---------------------------- MODULE PerfMessage ----------------------------
(***************************************************************************)
(* The codec of the Zperf protocol (zperf_msg.cpp): one message object     *)
(* that sends, one that receives on a ROUTER, both used again and again,   *)
(* and between them a connection that holds one frame.  A frame is the     *)
(* sequence of the items its octets stand for; it may arrive cut short or  *)
(* with a signature or an id of no message, as another sender may make it. *)
(*                                                                         *)
(* Five switches over the message id have to agree: the size of the frame, *)
(* what is put in it, what is got from it, and what goes to and comes from *)
(* a zconfig tree.  The value of a field names the field it was set for,   *)
(* so a value got into another field shows.                                *)
(***************************************************************************)
EXTENDS Naturals, FiniteSets, SequencesExt

CONSTANTS
  PlainKeys,   \* keys of an endpoints hash: without a '/',
  PathKeys,    \* addresses as "tcp://...", which zconfig takes for paths,
  LongKeys,    \* and of more than 255 octets
  Scheme,      \* what stands before the first '/' of a path key
  None,        \* NULL
  Sender,      \* the routing id of the sending socket
  MaxSent,     \* bound: frames sent
  MaxEntries   \* bound: entries of a hash

VARIABLES
  self,   \* the object that sends
  peer,   \* the object that receives
  wire,   \* the frame on its way, or None
  rc,     \* what the last zperf_msg_recv returned: 0, -1 or -2
  sent    \* frames sent; the value of a field is the frame it was set for

vars == <<self, peer, wire, rc, sent>>

Keys == PlainKeys \cup PathKeys \cup LongKeys

Number == [stype |-> 4, nmsgs |-> 4, msgsize |-> 8, timeout |-> 4,
           time_us |-> 8, cpu_us |-> 8, noos |-> 4, nbytes |-> 8, status |-> 2]
Strings == {"nickname", "ident", "perfinfo", "borc", "endpoint", "measure",
            "reason"}
Fields == DOMAIN Number \cup Strings

Ids == {"HELLO", "HELLO_OK", "CREATE", "LOOKUP", "PERF_OK", "INFO", "INFO_OK",
        "SOCKET", "SOCKET_OK", "MEASURE", "RESULT", "PING", "PING_OK",
        "GOODBYE", "GOODBYE_OK", "ERROR"}

(* The fields of each message, as the header lists them; INFO has the
   endpoints after these. *)
Grammar(id) ==
  CASE id \in {"HELLO", "HELLO_OK"} -> <<"nickname">>
    [] id = "CREATE" -> <<"stype">>
    [] id \in {"LOOKUP", "PERF_OK"} -> <<"ident">>
    [] id = "INFO" -> <<"ident", "stype">>
    [] id = "INFO_OK" -> <<"ident", "perfinfo">>
    [] id \in {"SOCKET", "SOCKET_OK"} -> <<"ident", "borc", "endpoint">>
    [] id = "MEASURE" -> <<"ident", "measure", "nmsgs", "msgsize", "timeout">>
    [] id = "RESULT" -> <<"ident", "measure", "nmsgs", "msgsize", "timeout",
                          "time_us", "cpu_us", "noos", "nbytes">>
    [] id = "ERROR" -> <<"status", "reason">>
    [] OTHER -> <<>>

(* The object, and what is on the connection: what the items stand for, and
   what has been done to the frame.  A routing id may also be the "rest" of a
   frame whose own was taken already. *)
Values(f) == {f} \X (0..MaxSent)
Value == UNION {Values(f) : f \in Fields}
HashOver(keys) == UNION {[S -> Values("address")] : S \in SUBSET keys}
ObjectOver(keys) ==
  [id : Ids \cup {"none"}, routing : {None, Sender, "rest"}, val : [Fields -> Value],
   endpoints : HashOver(keys) \cup {None}, ebytes : Nat]
Object == ObjectOver(Keys)
Said == {"signature"} \X BOOLEAN \cup {"id"} \X (Ids \cup {"none"})
        \cup Value \cup {"count"} \X Nat
        \cup {"entry"} \X Keys \X Values("address")
Frame == [size : Nat, items : Seq([octets : Nat, value : Said]),
          state : {"whole", "cut", "damaged", "headless"}, of : Object]

ASSUME MessageConstants ==
  /\ IsFiniteSet(Keys) /\ Scheme \notin Keys
  /\ MaxSent \in Nat /\ MaxEntries \in Nat
  /\ None \notin ObjectOver(Keys \cup {Scheme}) /\ None \notin Frame

(* zperf_msg_new *)
New == [id |-> "none", routing |-> None, val |-> [f \in Fields |-> <<f, 0>>],
        endpoints |-> None, ebytes |-> 0]

-----------------------------------------------------------------------------
(* zperf_msg_send *)

StringOctets(n) == 1 + n
Octets(f, value) ==
  IF f \in Strings THEN StringOctets(value[2]) ELSE Number[f]
KeyLength(k) == IF k \in LongKeys THEN 256 ELSE 2
EntryOctets(k, value) == StringOctets(KeyLength(k)) + 4 + value[2]

(* The octets of each item are numbered. *)
Total(octets, S) == Cardinality(UNION {{x} \X (1..octets[x]) : x \in S})

Sized(id) ==
  CASE id \in {"HELLO", "HELLO_OK"} -> {"nickname"}
    [] id = "CREATE" -> {"stype"}
    [] id \in {"LOOKUP", "PERF_OK"} -> {"ident"}
    [] id = "INFO" -> {"ident", "stype"}
    [] id = "INFO_OK" -> {"ident", "perfinfo"}
    [] id \in {"SOCKET", "SOCKET_OK"} -> {"ident", "borc", "endpoint"}
    [] id = "MEASURE" -> {"ident", "measure", "nmsgs", "msgsize", "timeout"}
    [] id = "RESULT" -> {"ident", "measure", "nmsgs", "msgsize", "timeout",
                         "time_us", "cpu_us", "noos", "nbytes"}
    [] id = "ERROR" -> {"status", "reason"}
    [] OTHER -> {}

EntriesTotal(hash) ==
  Total([k \in DOMAIN hash |-> EntryOctets(k, hash[k])], DOMAIN hash)

(* Mutant: endpoints_bytes is not reset before the entries are added. *)
EndpointsBytesAdded(m) ==
  IF m.id = "INFO" /\ m.endpoints # None
  THEN m.ebytes + EntriesTotal(m.endpoints) ELSE m.ebytes

(* endpoints_bytes keeps the size of the last hash when there is none. *)
EndpointsBytes(m) ==
  IF m.id = "INFO" /\ m.endpoints # None
  THEN EntriesTotal(m.endpoints) ELSE m.ebytes

FrameSize(m) ==
  2 + 1 + Total([f \in Fields |-> Octets(f, m.val[f])], Sized(m.id))
    + (IF m.id = "INFO" THEN 4 + EndpointsBytes(m) ELSE 0)

PutOrder(id) ==
  CASE id \in {"HELLO", "HELLO_OK"} -> <<"nickname">>
    [] id = "CREATE" -> <<"stype">>
    [] id \in {"LOOKUP", "PERF_OK"} -> <<"ident">>
    [] id = "INFO" -> <<"ident", "stype">>
    [] id = "INFO_OK" -> <<"ident", "perfinfo">>
    [] id \in {"SOCKET", "SOCKET_OK"} -> <<"ident", "borc", "endpoint">>
    [] id = "MEASURE" -> <<"ident", "measure", "nmsgs", "msgsize", "timeout">>
    [] id = "RESULT" -> <<"ident", "measure", "nmsgs", "msgsize", "timeout",
                          "time_us", "cpu_us", "noos", "nbytes">>
    [] id = "ERROR" -> <<"status", "reason">>
    [] OTHER -> <<>>

Item(octets, value) == [octets |-> octets, value |-> value]

(* The entries follow in the order of the hash's cursor, which is any. *)
PutHash(hash, order) ==
  <<Item(4, <<"count", Len(order)>>)>>
  \o [i \in DOMAIN order |->
        Item(EntryOctets(order[i], hash[order[i]]),
             <<"entry", order[i], hash[order[i]]>>)]

PutMessage(m, order) ==
  <<Item(2, <<"signature", TRUE>>), Item(1, <<"id", m.id>>)>>
  \o [i \in DOMAIN PutOrder(m.id) |->
        LET f == PutOrder(m.id)[i] IN Item(Octets(f, m.val[f]), m.val[f])]
  \o (IF m.id = "INFO" THEN PutHash(m.endpoints, order) ELSE <<>>)

Orders(m) ==
  IF m.id = "INFO" /\ m.endpoints # None
  THEN SetToSeqs(DOMAIN m.endpoints) ELSE {<<>>}

(* "of" is a history field: the object as it was sent. *)
Send(m) ==
  /\ wire = None /\ sent < MaxSent
  /\ \E order \in Orders(m) :
       wire' = [size |-> FrameSize(m), items |-> PutMessage(m, order),
                state |-> "whole", of |-> m]
  /\ self' = [m EXCEPT !.ebytes = EndpointsBytes(m)]
  /\ sent' = sent + 1
  /\ UNCHANGED <<peer, rc>>

-----------------------------------------------------------------------------
(* The owner of the sending object *)

(* The setters of the message's fields, set_endpoints and set_id. *)
Compose(id, hash) ==
  [self EXCEPT
     !.id = id,
     !.val = [f \in Fields |->
       IF Contains(Grammar(id), f) THEN <<f, sent + 1>> ELSE @[f]],
     !.endpoints = IF id = "INFO" THEN hash ELSE @]

Hashes ==
  {[k \in S |-> <<"address", sent + 1>>] :
     S \in {T \in SUBSET Keys : Cardinality(T) <= MaxEntries}}

SendNew ==
  \E id \in Ids :
    \E hash \in IF id = "INFO" THEN Hashes \cup {None} ELSE {None} :
      Send(Compose(id, hash))

SendAgain == self.id \in Ids /\ Send(self)

(* zperf_msg_get_endpoints *)
TakeEndpoints ==
  /\ self.endpoints # None
  /\ self' = [self EXCEPT !.endpoints = None]
  /\ UNCHANGED <<peer, wire, rc, sent>>

-----------------------------------------------------------------------------
(* The connection: frames as no zperf_msg_send makes them *)

Altered(items, how) == wire' = [wire EXCEPT !.items = items, !.state = how]

Cut ==
  /\ wire # None /\ wire.state = "whole"
  /\ \E n \in 0..(Len(wire.items) - 1) : Altered(SubSeq(wire.items, 1, n), "cut")
  /\ UNCHANGED <<self, peer, rc, sent>>

Damage ==
  /\ wire # None /\ wire.state = "whole"
  /\ \E bad \in {<<1, <<"signature", FALSE>>>>, <<2, <<"id", "none">>>>} :
       Altered([wire.items EXCEPT ![bad[1]].value = bad[2]], "damaged")
  /\ UNCHANGED <<self, peer, rc, sent>>

-----------------------------------------------------------------------------
(* zperf_msg_recv *)

GetOrder(id) ==
  CASE id \in {"HELLO", "HELLO_OK"} -> <<"nickname">>
    [] id = "CREATE" -> <<"stype">>
    [] id \in {"LOOKUP", "PERF_OK"} -> <<"ident">>
    [] id = "INFO" -> <<"ident", "stype">>
    [] id = "INFO_OK" -> <<"ident", "perfinfo">>
    [] id \in {"SOCKET", "SOCKET_OK"} -> <<"ident", "borc", "endpoint">>
    [] id = "MEASURE" -> <<"ident", "measure", "nmsgs", "msgsize", "timeout">>
    [] id = "RESULT" -> <<"ident", "measure", "nmsgs", "msgsize", "timeout",
                          "time_us", "cpu_us", "noos", "nbytes">>
    [] id = "ERROR" -> <<"status", "reason">>
    [] OTHER -> <<>>

(* Mutant: the fields of a RESULT are got with two of them swapped. *)
GotSwapped(id, body) ==
  LET order == IF id = "RESULT"
               THEN <<"ident", "measure", "nmsgs", "msgsize", "timeout",
                      "cpu_us", "time_us", "noos", "nbytes">>
               ELSE GetOrder(id)
  IN [f \in {order[i] : i \in DOMAIN order \cap DOMAIN body} |->
       body[CHOOSE i \in DOMAIN order : order[i] = f].value]

(* Mutant: a string is emptied before its length is checked. *)
GotEmptied(id, body) ==
  [f \in {GetOrder(id)[i] : i \in DOMAIN GetOrder(id) \cap 1..(Len(body) + 1)} |->
     LET i == CHOOSE j \in DOMAIN GetOrder(id) : GetOrder(id)[j] = f IN
     IF i \in DOMAIN body THEN body[i].value ELSE <<f, 0>>]

(* Field by field, until the frame ends. *)
Got(id, body) ==
  [f \in {GetOrder(id)[i] : i \in DOMAIN GetOrder(id) \cap DOMAIN body} |->
     body[CHOOSE i \in DOMAIN GetOrder(id) : GetOrder(id)[i] = f].value]

(* The length octet of a key of more than 255 is its length modulo 256: what
   is got after it is no entry, and its LONGSTR is longer than any frame. *)
GotHash(entries) ==
  LET good == {i \in DOMAIN entries :
                 \A j \in 1..i : entries[j].value[2] \notin LongKeys}
  IN [k \in {entries[i].value[2] : i \in good} |->
        entries[CHOOSE i \in good : entries[i].value[2] = k].value[3]]

(* Mutant: the entries are added to those of the INFO before. *)
GotEndpointsAdded(m, id, body) ==
  LET n == Len(GetOrder(id)) + 1
      new == GotHash(SubSeq(body, n + 1, Len(body)))
  IN
  IF id = "INFO" /\ n \in DOMAIN body
  THEN IF m.endpoints = None THEN new ELSE new @@ m.endpoints
  ELSE m.endpoints

(* The hash is replaced once its count is there. *)
GotEndpoints(m, id, body) ==
  LET n == Len(GetOrder(id)) + 1 IN
  IF id = "INFO" /\ n \in DOMAIN body
  THEN GotHash(SubSeq(body, n + 1, Len(body))) ELSE m.endpoints

(* The object after the items of a frame with a good signature and an id. *)
Parsed(m, items) ==
  LET id == items[2].value[2]
      body == SubSeq(items, 3, Len(items))
      got == Got(id, body)
  IN [m EXCEPT !.id = id,
               !.val = [f \in Fields |-> IF f \in DOMAIN got THEN got[f] ELSE @[f]],
               !.endpoints = GotEndpoints(m, id, body)]

(* rc is set for a signature or an id that is none, never for an early end. *)
Recv ==
  LET from == [peer EXCEPT !.routing = Sender]
      items == wire.items
      signed == Len(items) >= 1 /\ items[1].value[2]
  IN
  /\ wire # None /\ wire.state # "headless"
  /\ wire' = None
  /\ peer' = IF Len(items) >= 2 /\ signed THEN Parsed(from, items) ELSE from
  /\ rc' = IF \/ Len(items) >= 1 /\ ~signed
              \/ Len(items) >= 2 /\ items[2].value[2] \notin Ids
           THEN -2 ELSE 0
  /\ UNCHANGED <<self, sent>>

(* A signal ends the zframe_recv of the routing id, or the zmq_msg_recv after
   it, when the routing id is the sender's already. *)
Interrupted ==
  /\ rc' = -1
  /\ \/ peer' = [peer EXCEPT !.routing = None] /\ UNCHANGED wire
     \/ /\ wire # None /\ wire.state # "headless"
        /\ peer' = [peer EXCEPT !.routing = Sender]
        /\ wire' = [wire EXCEPT !.state = "headless"]
  /\ UNCHANGED <<self, sent>>

(* What is left of such a frame comes as the next routing id, with nothing
   behind it: "no routing ID". *)
RecvHeadless ==
  /\ wire # None /\ wire.state = "headless"
  /\ wire' = None
  /\ peer' = [peer EXCEPT !.routing = "rest"]
  /\ rc' = -1
  /\ UNCHANGED <<self, sent>>

-----------------------------------------------------------------------------
(* Copies *)

(* zperf_msg_dup *)
Dup(m) == [New EXCEPT !.id = m.id, !.routing = m.routing, !.val = m.val,
                      !.endpoints = m.endpoints]

ZplPut(id) ==
  CASE id \in {"HELLO", "HELLO_OK"} -> {"nickname"}
    [] id = "CREATE" -> {"stype"}
    [] id \in {"LOOKUP", "PERF_OK"} -> {"ident"}
    [] id = "INFO" -> {"ident", "stype"}
    [] id = "INFO_OK" -> {"ident", "perfinfo"}
    [] id \in {"SOCKET", "SOCKET_OK"} -> {"ident", "borc", "endpoint"}
    [] id = "MEASURE" -> {"ident", "measure", "nmsgs", "msgsize", "timeout"}
    [] id = "RESULT" -> {"ident", "measure", "nmsgs", "msgsize", "timeout",
                         "time_us", "cpu_us", "noos", "nbytes"}
    [] id = "ERROR" -> {"status", "reason"}
    [] OTHER -> {}

(* zconfig_putf takes a key for a path: what is read back are its first
   segments, and a segment with others below it has no value. *)
Segment(k) == IF k \in PathKeys THEN Scheme ELSE k
ZplHash(hash) ==
  [s \in {Segment(k) : k \in DOMAIN hash} |->
     IF s = Scheme THEN <<"address", 0>> ELSE hash[s]]

(* zperf_msg_zpl *)
Zpl(m) ==
  [message |-> m.id, routing |-> m.routing,
   content |-> [f \in ZplPut(m.id) |-> m.val[f]],
   endpoints |-> IF m.id = "INFO" /\ m.endpoints # None
                 THEN ZplHash(m.endpoints) ELSE None]

(* Mutant: the noos of a RESULT is not read back. *)
ZplWantedOld(id) ==
  IF id = "RESULT" THEN ZplPut(id) \ {"noos"} ELSE ZplPut(id)

ZplWanted(id) ==
  CASE id \in {"HELLO", "HELLO_OK"} -> {"nickname"}
    [] id = "CREATE" -> {"stype"}
    [] id \in {"LOOKUP", "PERF_OK"} -> {"ident"}
    [] id = "INFO" -> {"ident", "stype"}
    [] id = "INFO_OK" -> {"ident", "perfinfo"}
    [] id \in {"SOCKET", "SOCKET_OK"} -> {"ident", "borc", "endpoint"}
    [] id = "MEASURE" -> {"ident", "measure", "nmsgs", "msgsize", "timeout"}
    [] id = "RESULT" -> {"ident", "measure", "nmsgs", "msgsize", "timeout",
                         "time_us", "cpu_us", "noos", "nbytes"}
    [] id = "ERROR" -> {"status", "reason"}
    [] OTHER -> {}

(* zperf_msg_new_zpl: None when the message or a field of it is missing. *)
NewZpl(config) ==
  IF config.message \notin Ids
     \/ ~(ZplWanted(config.message) \subseteq DOMAIN config.content)
  THEN None
  ELSE [New EXCEPT
          !.id = config.message,
          !.routing = config.routing,
          !.val = [f \in Fields |->
            IF f \in ZplWanted(config.message) THEN config.content[f] ELSE @[f]],
          !.endpoints = config.endpoints]

-----------------------------------------------------------------------------

Init ==
  /\ self = New
  /\ peer = New
  /\ wire = None
  /\ rc = 0
  /\ sent = 0

Next == SendNew \/ SendAgain \/ TakeEndpoints \/ Cut \/ Damage \/ Recv
        \/ Interrupted \/ RecvHeadless

Spec == Init /\ [][Next]_vars

-----------------------------------------------------------------------------
(* Properties *)

IsMessage(m) ==
  /\ m \in Object
  /\ \A f \in Fields : m.val[f] \in Values(f)

(* Every field of both objects holds a value that was set for this field, and
   endpoints a hash of addresses, however frames were cut. *)
TypeOK ==
  /\ IsMessage(self) /\ IsMessage(peer)
  /\ wire \in Frame \cup {None}
  /\ wire # None => IsMessage(wire.of)
  /\ rc \in {0, -1, -2}
  /\ sent \in 0..MaxSent

(* A part of the hash that was sent, and all of it but for long keys. *)
PartOf(hash, whole) ==
  /\ DOMAIN hash \subseteq DOMAIN whole \ LongKeys
  /\ \A k \in DOMAIN hash : hash[k] = whole[k]
AllOf(hash, whole) ==
  /\ PartOf(hash, whole)
  /\ DOMAIN whole \cap LongKeys = {} => hash = whole
Entries(m) == IF m.endpoints = None THEN <<>> ELSE m.endpoints

Arrives(state) == wire # None /\ wire' = None /\ wire.state = state

GotTheMessage ==
  LET of == wire.of IN
  /\ rc' = 0
  /\ peer'.id = of.id /\ peer'.routing = Sender
  /\ \A f \in Fields : peer'.val[f] =
       IF Contains(Grammar(of.id), f) THEN of.val[f] ELSE peer.val[f]
  /\ IF of.id = "INFO" THEN AllOf(peer'.endpoints, Entries(of))
     ELSE peer'.endpoints = peer.endpoints

(* A frame that arrives as it was sent sets the id, the routing id and the
   fields the header lists for this message to those of the object sent, and
   leaves each other field of the receiving object as the messages before left
   it; of the endpoints only what comes after a key of more than 255 octets is
   lost. *)
WholeFrameIsTheMessage == [][Arrives("whole") => GotTheMessage]_vars

GotAPrefix ==
  LET of == wire.of
      order == Grammar(of.id)
      Until(n) == \A f \in Fields : peer'.val[f] =
        IF Contains(SubSeq(order, 1, n), f) THEN of.val[f] ELSE peer.val[f]
  IN
  /\ peer'.id = IF Len(wire.items) < 2 THEN peer.id ELSE of.id
  /\ \E n \in 0..Len(order) :
       /\ Until(n)
       /\ n = Len(order) \/ n = Len(wire.items) - 2 \/ Len(wire.items) < 2
       /\ \/ peer'.endpoints = peer.endpoints
          \/ n = Len(order) /\ PartOf(peer'.endpoints, Entries(of))

(* A frame that ends early, wherever it does, leaves the object with the id and
   the first fields of the message as sent and the rest as it had them, and
   never with a field of another message or a part of one. *)
CutFrameIsAPrefix == [][Arrives("cut") => GotAPrefix]_vars

Used(items) == Total([i \in DOMAIN items |-> items[i].octets], DOMAIN items)

(* What is put in a frame fits the octets allocated for it and fills them,
   except that an INFO without endpoints carries as many octets more as the
   entries of the last hash had that was sent. *)
FrameHoldsItsFields ==
  wire # None /\ wire.state = "whole" =>
    wire.size = Used(wire.items)
      + (IF wire.of.id = "INFO" /\ wire.of.endpoints = None
         THEN wire.of.ebytes ELSE 0)

(* Whatever an object has received, its copy and the object made of its zconfig
   tree send the frame it would send itself, except for addresses as keys of
   the endpoints, which the tree splits at the '/'. *)
CopiesSendTheSame ==
  peer.id \in Ids =>
    LET copy == Dup(peer)
        back == NewZpl(Zpl(peer))
    IN
    /\ copy.routing = peer.routing
    /\ \A order \in Orders(peer) :
         PutMessage(copy, order) = PutMessage(peer, order)
    /\ back # None /\ back.routing = peer.routing
    /\ \/ peer.id = "INFO" /\ DOMAIN Entries(peer) \cap PathKeys # {}
       \/ \A order \in Orders(peer) :
            PutMessage(back, order) = PutMessage(peer, order)

-----------------------------------------------------------------------------
(* What documents and comments say, and the code does not do *)

(* zperf_msg.cpp:914, zperf_msg_recv: "Returns 0 if OK, -1 if the recv was
   interrupted, or -2 if the message is malformed", which one that ends before
   its last field is. *)
CutFrameIsMalformed == [][Arrives("cut") => rc' = -2]_vars
=============================================================================
