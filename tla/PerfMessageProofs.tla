------------------------- MODULE PerfMessageProofs -------------------------
(***************************************************************************)
(* Proofs about the codec of PerfMessage.  Octets are counted by sets of   *)
(* numbered octets, so sums follow from the library's facts about finite   *)
(* sets; what a frame holds is said place by place (Spelled).  The         *)
(* invariant MessageInv ties the frame on the connection to the object it  *)
(* was sent from, however it was cut or damaged, and what zperf_msg_recv   *)
(* makes of the first items of such a frame is RecvOfPart.                 *)
(***************************************************************************)
EXTENDS PerfMessage, TLAPS, SequenceTheorems, FiniteSetTheorems

-----------------------------------------------------------------------------
(* The five switches *)

(* The fields of a message are put and got in one order and once each, and are
   those that are sized and that go to a tree and come from it. *)
LEMMA Tables ==
  ASSUME NEW id
  PROVE  /\ PutOrder(id) = Grammar(id) /\ GetOrder(id) = Grammar(id)
         /\ ZplPut(id) = Sized(id) /\ ZplWanted(id) = Sized(id)
         /\ Grammar(id) \in Seq(Fields)
         /\ Sized(id) = {Grammar(id)[i] : i \in DOMAIN Grammar(id)}
         /\ \A i, j \in DOMAIN Grammar(id) :
              Grammar(id)[i] = Grammar(id)[j] => i = j
<1>1. PutOrder(id) = Grammar(id) /\ GetOrder(id) = Grammar(id)
  BY DEF PutOrder, GetOrder, Grammar
<1>2. ZplPut(id) = Sized(id) /\ ZplWanted(id) = Sized(id)
  BY DEF ZplPut, ZplWanted, Sized
<1>3. CASE id \in {"HELLO", "HELLO_OK"}
  <2>1. Grammar(id) = <<"nickname">> /\ Sized(id) = {"nickname"}
    BY <1>3 DEF Grammar, Sized
  <2>2. "nickname" \in Fields
    BY DEF Fields, Strings
  <2> QED BY <1>1, <1>2, <2>1, <2>2
<1>4. CASE id = "CREATE"
  BY <1>1, <1>2, <1>4 DEF Grammar, Sized, Fields, Number
<1>5. CASE id \in {"LOOKUP", "PERF_OK"}
  BY <1>1, <1>2, <1>5 DEF Grammar, Sized, Fields, Strings
<1>6. CASE id = "INFO"
  BY <1>1, <1>2, <1>6 DEF Grammar, Sized, Fields, Strings, Number
<1>7. CASE id = "INFO_OK"
  BY <1>1, <1>2, <1>7 DEF Grammar, Sized, Fields, Strings
<1>8. CASE id \in {"SOCKET", "SOCKET_OK"}
  <2>1. /\ Grammar(id) = <<"ident", "borc", "endpoint">>
        /\ Sized(id) = {"ident", "borc", "endpoint"}
    BY <1>8 DEF Grammar, Sized
  <2>2. {"ident", "borc", "endpoint"} \subseteq Fields
    BY DEF Fields, Strings
  <2> QED BY <1>1, <1>2, <2>1, <2>2
<1>9. CASE id = "MEASURE"
  BY <1>1, <1>2, <1>9 DEF Grammar, Sized, Fields, Strings, Number
<1>10. CASE id = "RESULT"
  <2> DEFINE order == <<"ident", "measure", "nmsgs", "msgsize", "timeout",
                        "time_us", "cpu_us", "noos", "nbytes">>
             set == {"ident", "measure", "nmsgs", "msgsize", "timeout",
                     "time_us", "cpu_us", "noos", "nbytes"}
  <2>1. Grammar(id) = order /\ Sized(id) = set
    BY <1>10 DEF Grammar, Sized
  <2>2. set \subseteq Fields
    BY DEF Fields, Strings, Number
  <2>3. DOMAIN order = 1..9 /\ order \in Seq(set)
    OBVIOUS
  <2>4. set = {order[i] : i \in 1..9}
    <3>1. \A i \in 1..9 : i \in {1, 2, 3, 4, 5, 6, 7, 8, 9}
      OBVIOUS
    <3> QED BY <3>1
  <2>5. \A i, j \in 1..9 : order[i] = order[j] => i = j
    <3>1. \A i \in 1..9 : i \in {1, 2, 3, 4, 5, 6, 7, 8, 9}
      OBVIOUS
    <3> QED BY <3>1
  <2> HIDE DEF order, set
  <2>6. order \in Seq(Fields)
    BY <2>2, <2>3, SeqMonotonic
  <2> QED BY <1>1, <1>2, <2>1, <2>3, <2>4, <2>5, <2>6
<1>11. CASE id = "ERROR"
  BY <1>1, <1>2, <1>11 DEF Grammar, Sized, Fields, Strings, Number
<1>12. CASE id \notin {"HELLO", "HELLO_OK", "CREATE", "LOOKUP", "PERF_OK", "INFO",
                      "INFO_OK", "SOCKET", "SOCKET_OK", "MEASURE", "RESULT",
                      "ERROR"}
  <2>1. Grammar(id) = <<>> /\ Sized(id) = {}
    BY <1>12 DEF Grammar, Sized
  <2>2. <<>> \in Seq(Fields) /\ DOMAIN <<>> = {}
    OBVIOUS
  <2> QED BY <1>1, <1>2, <2>1, <2>2
<1> QED BY <1>3, <1>4, <1>5, <1>6, <1>7, <1>8, <1>9, <1>10, <1>11, <1>12

-----------------------------------------------------------------------------
(* Octets *)

(* The octets of the items of S, as Total counts them. *)
Numbered(octets, S) == UNION {{x} \X (1..octets[x]) : x \in S}

LEMMA NumberedFinite ==
  ASSUME NEW o, NEW S, IsFiniteSet(S), \A x \in S : o[x] \in Nat
  PROVE  /\ IsFiniteSet(Numbered(o, S)) /\ Total(o, S) \in Nat
         /\ Total(o, S) = Cardinality(Numbered(o, S))
<1> DEFINE T == {{x} \X (1..o[x]) : x \in S}
           f == [x \in S |-> {x} \X (1..o[x])]
<1>1. f \in Surjection(S, T)
  BY DEF Surjection
<1>2. IsFiniteSet(T)
  BY <1>1, FS_Surjection
<1>3. ASSUME NEW x \in S PROVE IsFiniteSet({x} \X (1..o[x]))
  <2>1. o[x] \in Int /\ 1 \in Int
    OBVIOUS
  <2>2. IsFiniteSet({x}) /\ IsFiniteSet(1..o[x])
    BY <2>1, FS_Singleton, FS_Interval
  <2> QED BY <2>2, FS_Product
<1>4. \A U \in T : IsFiniteSet(U)
  BY <1>3
<1>5. IsFiniteSet(Numbered(o, S))
  BY <1>2, <1>4, FS_UNION DEF Numbered
<1> QED BY <1>5, FS_CardinalityType DEF Total, Numbered

LEMMA TotalOfNone == ASSUME NEW o PROVE Total(o, {}) = 0
<1>1. UNION {{x} \X (1..o[x]) : x \in {}} = {}
  OBVIOUS
<1> QED BY <1>1, FS_EmptySet DEF Total

LEMMA TotalOfOne ==
  ASSUME NEW o, NEW x, o[x] \in Nat
  PROVE  Total(o, {x}) = o[x]
<1>1. UNION {{y} \X (1..o[y]) : y \in {x}} = {x} \X (1..o[x])
  OBVIOUS
<1>2. IsFiniteSet({x}) /\ Cardinality({x}) = 1
  BY FS_Singleton
<1>3. IsFiniteSet(1..o[x]) /\ Cardinality(1..o[x]) = o[x]
  <2>1. 1 \in Int /\ o[x] \in Int
    OBVIOUS
  <2>2. /\ IsFiniteSet(1..o[x])
        /\ Cardinality(1..o[x]) = IF 1 > o[x] THEN 0 ELSE o[x] - 1 + 1
    BY <2>1, FS_Interval
  <2> QED BY <2>2
<1>4. Cardinality({x} \X (1..o[x])) = Cardinality({x}) * Cardinality(1..o[x])
  BY <1>2, <1>3, FS_Product, Zenon
<1>5. Total(o, {x}) = 1 * o[x]
  BY <1>1, <1>2, <1>3, <1>4 DEF Total
<1> QED BY <1>5

(* Items apart add up. *)
LEMMA TotalOfBoth ==
  ASSUME NEW o, NEW S, NEW T, IsFiniteSet(S), IsFiniteSet(T), S \cap T = {},
         \A x \in S \cup T : o[x] \in Nat
  PROVE  Total(o, S \cup T) = Total(o, S) + Total(o, T)
<1>1. Numbered(o, S \cup T) = Numbered(o, S) \cup Numbered(o, T)
  BY DEF Numbered
<1>2. Numbered(o, S) \cap Numbered(o, T) = {}
  BY DEF Numbered
<1>3. /\ IsFiniteSet(Numbered(o, S)) /\ Total(o, S) = Cardinality(Numbered(o, S))
      /\ IsFiniteSet(Numbered(o, T)) /\ Total(o, T) = Cardinality(Numbered(o, T))
      /\ Total(o, S) \in Nat /\ Total(o, T) \in Nat
  BY NumberedFinite
<1>4. IsFiniteSet(S \cup T)
  BY FS_Union
<1>5. Total(o, S \cup T) = Cardinality(Numbered(o, S \cup T))
  BY <1>4, NumberedFinite
<1>6. Cardinality(Numbered(o, S) \cup Numbered(o, T)) =
        Total(o, S) + Total(o, T) - Cardinality(Numbered(o, S) \cap Numbered(o, T))
  BY <1>3, FS_Union
<1>7. Cardinality(Numbered(o, S) \cap Numbered(o, T)) = 0
  BY <1>2, FS_EmptySet
<1>8. \A c, d, n, z : c \in Nat /\ d \in Nat /\ n = c + d - z /\ z = 0 => n = c + d
  OBVIOUS
<1>9. Cardinality(Numbered(o, S) \cup Numbered(o, T)) = Total(o, S) + Total(o, T)
  BY <1>3, <1>6, <1>7, <1>8, Zenon
<1> QED BY <1>1, <1>5, <1>9, Zenon

(* And items that correspond have as many. *)
LEMMA TotalOfImage ==
  ASSUME NEW o, NEW p, NEW S, NEW T, NEW b \in Bijection(S, T), IsFiniteSet(S),
         \A x \in S : o[x] \in Nat /\ o[x] = p[b[x]]
  PROVE  Total(o, S) = Total(p, T)
<1> DEFINE f == [z \in Numbered(o, S) |-> <<b[z[1]], z[2]>>]
<1>1. /\ b \in [S -> T] /\ \A x, y \in S : b[x] = b[y] => x = y
      /\ \A y \in T : \E x \in S : b[x] = y
  BY DEF Bijection, Injection, Surjection, IsInjective
<1>2. \A z : z \in Numbered(o, S) <=>
        \E x \in S : \E i \in 1..o[x] : z = <<x, i>>
  BY DEF Numbered
<1>3. \A z : z \in Numbered(p, T) <=>
        \E y \in T : \E i \in 1..p[y] : z = <<y, i>>
  BY DEF Numbered
<1>4. f \in [Numbered(o, S) -> Numbered(p, T)]
  BY <1>1, <1>2, <1>3
<1>5. \A z, w \in Numbered(o, S) : f[z] = f[w] => z = w
  BY <1>1, <1>2
<1>6. \A w \in Numbered(p, T) : \E z \in Numbered(o, S) : f[z] = w
  <2> TAKE w \in Numbered(p, T)
  <2>1. PICK y \in T : \E i \in 1..p[y] : w = <<y, i>>
    BY <1>3
  <2>2. PICK i \in 1..p[y] : w = <<y, i>>
    BY <2>1
  <2>3. PICK x \in S : b[x] = y
    BY <1>1
  <2>4. <<x, i>> \in Numbered(o, S)
    BY <1>2, <2>3
  <2>5. f[<<x, i>>] = w
    BY <2>2, <2>3, <2>4
  <2> QED BY <2>4, <2>5
<1>7. f \in Bijection(Numbered(o, S), Numbered(p, T))
  BY <1>4, <1>5, <1>6 DEF Bijection, Injection, Surjection, IsInjective
<1>8. IsFiniteSet(Numbered(o, S)) /\ Total(o, S) = Cardinality(Numbered(o, S))
  BY NumberedFinite
<1>9. Cardinality(Numbered(p, T)) = Cardinality(Numbered(o, S))
  BY <1>7, <1>8, FS_Bijection DEF ExistsBijection
<1> QED BY <1>8, <1>9 DEF Total, Numbered

-----------------------------------------------------------------------------
(* What is put in a frame *)

USE MessageConstants

LEMMA MessageParts ==
  ASSUME NEW m, IsMessage(m)
  PROVE  /\ m.id \in Ids \cup {"none"} /\ m.routing \in {None, Sender, "rest"}
         /\ m.val \in [Fields -> Value] /\ m.ebytes \in Nat
         /\ \A f \in Fields : m.val[f] \in Values(f)
         /\ m.endpoints \in HashOver(Keys) \cup {None}
BY DEF IsMessage, Object, ObjectOver

(* The order in which the cursor of a hash comes to its entries. *)
LEMMA OrderOf ==
  ASSUME NEW m, IsMessage(m), NEW order \in Orders(m)
  PROVE  /\ order \in Seq(Keys) /\ Len(order) \in Nat
         /\ DOMAIN order = 1..Len(order)
         /\ m.id = "INFO" /\ m.endpoints # None =>
              /\ m.endpoints \in [DOMAIN m.endpoints -> Values("address")]
              /\ DOMAIN m.endpoints \subseteq Keys
              /\ IsFiniteSet(DOMAIN m.endpoints)
              /\ order \in Bijection(1..Len(order), DOMAIN m.endpoints)
         /\ m.id = "INFO" /\ m.endpoints = None => order = <<>>
         /\ m.id # "INFO" => order = <<>>
<1>1. CASE m.id = "INFO" /\ m.endpoints # None
  <2> DEFINE h == m.endpoints  D == DOMAIN m.endpoints
  <2>1. h \in HashOver(Keys)
    BY <1>1, MessageParts
  <2>2. h \in [D -> Values("address")] /\ D \subseteq Keys
    BY <2>1 DEF HashOver
  <2>3. IsFiniteSet(D) /\ Cardinality(D) \in Nat
    <3>1. D \in SUBSET Keys
      BY <2>2
    <3> QED BY <3>1, FS_Subset, FS_CardinalityType
  <2>4. /\ order \in [1..Cardinality(D) -> D]
        /\ \A i, j \in 1..Cardinality(D) : i # j => order[i] # order[j]
    BY <1>1 DEF Orders, SetToSeqs
  <2>5. order \in Seq(D) /\ Len(order) = Cardinality(D)
    BY <2>3, <2>4
  <2>6. order \in Seq(Keys)
    BY <2>2, <2>5, SeqMonotonic
  <2>7. order \in Injection(1..Len(order), D)
    BY <2>4, <2>5 DEF Injection, IsInjective
  <2>8. Cardinality(1..Len(order)) = Cardinality(D)
    BY <2>3, <2>5, FS_Interval
  <2>9. order \in Surjection(1..Len(order), D)
    BY <2>3, <2>7, <2>8, FS_Injection
  <2> QED BY <1>1, <2>2, <2>3, <2>5, <2>6, <2>7, <2>9 DEF Bijection
<1>2. CASE ~(m.id = "INFO" /\ m.endpoints # None)
  <2>1. order = <<>>
    BY <1>2 DEF Orders
  <2> QED BY <1>2, <2>1
<1> QED BY <1>1, <1>2

ItemOf == [octets : Nat, value : Said]

(* The places of a frame: the signature, the id, the fields in the order of the
   grammar, and for an INFO the count and the entries. *)
Spelled(s, m, order) ==
  LET g == Grammar(m.id)  n == Len(g) IN
  /\ s \in Seq(ItemOf)
  /\ Len(s) = 2 + n + (IF m.id = "INFO" THEN 1 + Len(order) ELSE 0)
  /\ s[1] = Item(2, <<"signature", TRUE>>) /\ s[2] = Item(1, <<"id", m.id>>)
  /\ \A i \in 1..n : s[2 + i] = Item(Octets(g[i], m.val[g[i]]), m.val[g[i]])
  /\ m.id = "INFO" =>
       /\ s[3 + n] = Item(4, <<"count", Len(order)>>)
       /\ \A i \in 1..Len(order) :
            LET k == order[i] IN
            s[3 + n + i] = Item(EntryOctets(k, m.endpoints[k]),
                                <<"entry", k, m.endpoints[k]>>)

(* A field's value, and what it takes. *)
LEMMA FieldItem ==
  ASSUME NEW m, IsMessage(m), NEW f \in Fields
  PROVE  /\ m.val[f] \in Values(f) /\ m.val[f] \in Value /\ m.val[f] \in Said
         /\ Octets(f, m.val[f]) \in Nat
         /\ Item(Octets(f, m.val[f]), m.val[f]) \in ItemOf
<1>1. m.val[f] \in Values(f)
  BY DEF IsMessage
<1>2. m.val[f] \in Value /\ m.val[f][2] \in Nat
  BY <1>1 DEF Value, Values
<1>3. m.val[f] \in Said
  BY <1>2 DEF Said
<1>4. Octets(f, m.val[f]) \in Nat
  BY <1>2 DEF Octets, StringOctets, Fields, Number
<1> QED BY <1>1, <1>2, <1>3, <1>4 DEF Item, ItemOf

LEMMA EntryItem ==
  ASSUME NEW m, IsMessage(m), NEW order \in Orders(m), m.id = "INFO",
         NEW i \in 1..Len(order)
  PROVE  LET k == order[i] IN
         /\ m.endpoints # None /\ k \in DOMAIN m.endpoints /\ k \in Keys
         /\ m.endpoints[k] \in Values("address")
         /\ EntryOctets(k, m.endpoints[k]) \in Nat
         /\ Item(EntryOctets(k, m.endpoints[k]), <<"entry", k, m.endpoints[k]>>)
              \in ItemOf
<1> DEFINE k == order[i]  h == m.endpoints
<1>1. h # None
  <2>1. Len(<<>>) = 0
    OBVIOUS
  <2> QED BY <2>1, OrderOf
<1>2. /\ h \in [DOMAIN h -> Values("address")] /\ DOMAIN h \subseteq Keys
      /\ order \in [1..Len(order) -> DOMAIN h]
  BY <1>1, OrderOf DEF Bijection, Injection
<1>3. k \in DOMAIN h /\ k \in Keys /\ h[k] \in Values("address")
  BY <1>2
<1>4. h[k][2] \in Nat
  BY <1>3 DEF Values
<1>5. EntryOctets(k, h[k]) \in Nat
  BY <1>4 DEF EntryOctets, StringOctets, KeyLength
<1>6. <<"entry", k, h[k]>> \in Said
  BY <1>3 DEF Said
<1> QED BY <1>1, <1>3, <1>5, <1>6 DEF Item, ItemOf

LEMMA PutSpells ==
  ASSUME NEW m, IsMessage(m), NEW order \in Orders(m)
  PROVE  Spelled(PutMessage(m, order), m, order)
<1> DEFINE g == Grammar(m.id)
           head == <<Item(2, <<"signature", TRUE>>), Item(1, <<"id", m.id>>)>>
           field(i) == Item(Octets(g[i], m.val[g[i]]), m.val[g[i]])
           fields == [i \in DOMAIN g |-> field(i)]
           entry(i) == Item(EntryOctets(order[i], m.endpoints[order[i]]),
                            <<"entry", order[i], m.endpoints[order[i]]>>)
           count == <<Item(4, <<"count", Len(order)>>)>>
           entries == [i \in DOMAIN order |-> entry(i)]
           hash == IF m.id = "INFO" THEN PutHash(m.endpoints, order) ELSE <<>>
<1>1. PutMessage(m, order) = head \o fields \o hash
  BY Tables, Zenon DEF PutMessage
<1>2. head \in Seq(ItemOf) /\ Len(head) = 2
  <2>1. m.id \in Ids \cup {"none"}
    BY MessageParts
  <2>2. <<"signature", TRUE>> \in Said /\ <<"id", m.id>> \in Said
    BY <2>1 DEF Said
  <2> QED BY <2>2 DEF Item, ItemOf
<1>3. g \in Seq(Fields) /\ Len(g) \in Nat /\ DOMAIN g = 1..Len(g)
  <2>1. g \in Seq(Fields)
    BY Tables
  <2> QED BY <2>1
<1>4. fields \in Seq(ItemOf) /\ Len(fields) = Len(g)
  <2>1. \A i \in 1..Len(g) : g[i] \in Fields
    BY <1>3
  <2>2. \A i \in 1..Len(g) : field(i) \in ItemOf
    BY <2>1, FieldItem
  <2> HIDE DEF g, field
  <2>3. fields \in [1..Len(g) -> ItemOf]
    BY <1>3, <2>2
  <2> QED BY <1>3, <2>3
<1>5. DOMAIN order = 1..Len(order) /\ Len(order) \in Nat
  BY OrderOf
<1>6. m.id = "INFO" => entries \in Seq(ItemOf) /\ Len(entries) = Len(order)
  <2>1. m.id = "INFO" => \A i \in 1..Len(order) : entry(i) \in ItemOf
    BY EntryItem
  <2> HIDE DEF entry
  <2>2. m.id = "INFO" => entries \in [1..Len(order) -> ItemOf]
    BY <1>5, <2>1
  <2> QED BY <1>5, <2>2
<1>7. count \in Seq(ItemOf) /\ Len(count) = 1 /\ count[1] = Item(4, <<"count", Len(order)>>)
  <2>1. <<"count", Len(order)>> \in Said
    BY <1>5 DEF Said
  <2> QED BY <2>1 DEF Item, ItemOf
<1>8. /\ hash \in Seq(ItemOf)
      /\ m.id # "INFO" => Len(hash) = 0
      /\ m.id = "INFO" => /\ Len(hash) = 1 + Len(order)
                          /\ hash[1] = Item(4, <<"count", Len(order)>>)
                          /\ \A i \in 1..Len(order) : hash[1 + i] = entry(i)
  <2>1. CASE m.id = "INFO"
    <3>1. hash = count \o entries
      BY <2>1 DEF PutHash
    <3>2. \A i \in 1..Len(order) : entries[i] = entry(i)
      BY <1>5
    <3> HIDE DEF count, entries, entry, hash
    <3>3. /\ hash \in Seq(ItemOf) /\ Len(hash) = 1 + Len(order)
          /\ \A i \in 1..(1 + Len(order)) :
               hash[i] = IF i <= 1 THEN count[i] ELSE entries[i - 1]
      BY <1>6, <1>7, <2>1, <3>1, ConcatProperties
    <3>4. hash[1] = count[1]
      BY <1>5, <3>3
    <3>5. \A i \in 1..Len(order) : hash[1 + i] = entries[i]
      BY <1>5, <3>3
    <3> QED BY <1>7, <2>1, <3>2, <3>3, <3>4, <3>5
  <2>2. CASE m.id # "INFO"
    BY <2>2
  <2> QED BY <2>1, <2>2
<1> HIDE DEF head, fields, hash
<1>9. /\ head \o fields \in Seq(ItemOf) /\ Len(head \o fields) = 2 + Len(g)
      /\ \A i \in 1..(2 + Len(g)) :
           (head \o fields)[i] = IF i <= 2 THEN head[i] ELSE fields[i - 2]
  <2>1. /\ head \o fields \in Seq(ItemOf)
        /\ Len(head \o fields) = Len(head) + Len(fields)
        /\ \A i \in 1..(Len(head) + Len(fields)) : (head \o fields)[i] =
             IF i <= Len(head) THEN head[i] ELSE fields[i - Len(head)]
    BY <1>2, <1>4, ConcatProperties
  <2> QED BY <1>2, <1>4, <2>1, Zenon
<1>10. DEFINE s == head \o fields \o hash
<1>11. /\ s \in Seq(ItemOf) /\ Len(s) = 2 + Len(g) + Len(hash)
       /\ \A i \in 1..(2 + Len(g) + Len(hash)) :
            s[i] = IF i <= 2 + Len(g) THEN (head \o fields)[i]
                   ELSE hash[i - (2 + Len(g))]
  <2> DEFINE begin == head \o fields
  <2>1. begin \in Seq(ItemOf) /\ Len(begin) = 2 + Len(g)
    BY <1>9
  <2> HIDE DEF begin
  <2>2. /\ begin \o hash \in Seq(ItemOf)
        /\ Len(begin \o hash) = Len(begin) + Len(hash)
        /\ \A i \in 1..(Len(begin) + Len(hash)) : (begin \o hash)[i] =
             IF i <= Len(begin) THEN begin[i] ELSE hash[i - Len(begin)]
    <3>1. hash \in Seq(ItemOf)
      BY <1>8
    <3> QED BY <2>1, <3>1, ConcatProperties
  <2> QED BY <2>1, <2>2, Zenon DEF begin
<1> HIDE DEF s
<1>12. Len(hash) \in Nat
  BY <1>8
<1>13. s[1] = head[1] /\ s[2] = head[2]
  <2>1. \A i \in 1..2 : /\ i \in 1..(2 + Len(g)) /\ i \in 1..(2 + Len(g) + Len(hash))
                        /\ i <= 2 /\ i <= 2 + Len(g)
    BY <1>3, <1>12
  <2>2. ASSUME NEW i \in 1..2 PROVE s[i] = head[i]
    <3>1. s[i] = (head \o fields)[i]
      BY <1>11, <2>1
    <3>2. (head \o fields)[i] = head[i]
      BY <1>9, <2>1
    <3> QED BY <3>1, <3>2
  <2> QED BY <2>2
<1>14. \A i \in 1..Len(g) : s[2 + i] = fields[i]
  <2> TAKE i \in 1..Len(g)
  <2>1. 2 + i \in 1..(2 + Len(g)) /\ 2 + i \in 1..(2 + Len(g) + Len(hash))
        /\ 2 + i <= 2 + Len(g) /\ ~(2 + i <= 2) /\ (2 + i) - 2 = i
    BY <1>3, <1>12
  <2> QED BY <1>9, <1>11, <2>1
<1>15. \A i \in 1..Len(hash) : s[2 + Len(g) + i] = hash[i]
  <2> TAKE i \in 1..Len(hash)
  <2>1. /\ 2 + Len(g) + i \in 1..(2 + Len(g) + Len(hash))
        /\ ~(2 + Len(g) + i <= 2 + Len(g))
        /\ (2 + Len(g) + i) - (2 + Len(g)) = i
    BY <1>3, <1>12
  <2> QED BY <1>11, <2>1
<1>16. \A i \in 1..Len(g) : fields[i] = field(i)
  BY <1>3 DEF fields
<1>17. head[1] = Item(2, <<"signature", TRUE>>) /\ head[2] = Item(1, <<"id", m.id>>)
  BY DEF head
<1>18. m.id = "INFO" =>
         /\ s[3 + Len(g)] = hash[1]
         /\ \A i \in 1..Len(order) : s[3 + Len(g) + i] = hash[1 + i]
  <2> SUFFICES ASSUME m.id = "INFO"
               PROVE  /\ s[3 + Len(g)] = hash[1]
                      /\ \A i \in 1..Len(order) : s[3 + Len(g) + i] = hash[1 + i]
    OBVIOUS
  <2>1. 1 \in 1..Len(hash) /\ 2 + Len(g) + 1 = 3 + Len(g)
    BY <1>3, <1>5, <1>8
  <2>2. \A i \in 1..Len(order) : /\ 1 + i \in 1..Len(hash)
                                 /\ 2 + Len(g) + (1 + i) = 3 + Len(g) + i
    BY <1>3, <1>5, <1>8
  <2> QED BY <1>15, <2>1, <2>2
<1>19. Len(s) = 2 + Len(g) + (IF m.id = "INFO" THEN 1 + Len(order) ELSE 0)
  BY <1>3, <1>5, <1>8, <1>11
<1>20. Spelled(s, m, order)
  BY <1>8, <1>11, <1>13, <1>14, <1>16, <1>17, <1>18, <1>19 DEF Spelled
<1> QED BY <1>1, <1>20 DEF s

-----------------------------------------------------------------------------
(* The size of a frame *)

LEMMA Places ==
  \A a, b \in Nat : IsFiniteSet(a..b)
<1> TAKE a, b \in Nat
<1>1. a \in Int /\ b \in Int
  OBVIOUS
<1> QED BY <1>1, FS_Interval

LEMMA ItemParts ==
  \A octets, value : /\ Item(octets, value).octets = octets
                     /\ Item(octets, value).value = value
BY DEF Item

(* Consecutive places. *)
LEMMA TotalFrom ==
  ASSUME NEW o, NEW a \in Nat, NEW n \in Nat, NEW p, NEW T,
         NEW b \in Bijection(1..n, T),
         NEW first, NEW last, first = a + 1, last = a + n,
         \A i \in 1..n : o[a + i] \in Nat /\ o[a + i] = p[b[i]]
  PROVE  Total(o, first..last) = Total(p, T)
<1> DEFINE S == first..last
           c == [x \in S |-> b[x - a]]
<1>1. /\ b \in [1..n -> T] /\ \A i, j \in 1..n : b[i] = b[j] => i = j
      /\ \A y \in T : \E i \in 1..n : b[i] = y
  BY DEF Bijection, Injection, Surjection, IsInjective
<1>2. \A x \in S : x - a \in 1..n /\ a + (x - a) = x
  OBVIOUS
<1>3. \A i \in 1..n : a + i \in S /\ (a + i) - a = i
  OBVIOUS
<1>4. c \in [S -> T] /\ \A x \in S : c[x] = b[x - a]
  BY <1>1, <1>2
<1>5. \A x, y \in S : c[x] = c[y] => x = y
  <2> TAKE x, y \in S
  <2> SUFFICES ASSUME c[x] = c[y] PROVE x = y
    OBVIOUS
  <2>1. x - a = y - a
    BY <1>1, <1>2, <1>4
  <2> QED BY <1>2, <2>1
<1>6. \A y \in T : \E x \in S : c[x] = y
  <2> TAKE y \in T
  <2>1. PICK i \in 1..n : b[i] = y
    BY <1>1
  <2> QED BY <1>3, <1>4, <2>1
<1>7. c \in Bijection(S, T)
  BY <1>4, <1>5, <1>6 DEF Bijection, Injection, Surjection, IsInjective
<1>8. IsFiniteSet(S)
  <2>1. first \in Nat /\ last \in Nat
    OBVIOUS
  <2> QED BY <2>1, Places
<1>9. \A x \in S : o[x] \in Nat /\ o[x] = p[c[x]]
  BY <1>2, <1>4
<1> HIDE DEF c
<1> QED BY <1>7, <1>8, <1>9, TotalOfImage

(* The fields put are those sized, and the entries those counted. *)
LEMMA SizeOf ==
  ASSUME NEW m, IsMessage(m), NEW order \in Orders(m),
         NEW s, Spelled(s, m, order)
  PROVE  FrameSize(m) = Used(s)
           + (IF m.id = "INFO" /\ m.endpoints = None THEN m.ebytes ELSE 0)
<1> DEFINE g == Grammar(m.id)  n == Len(g)  k == Len(order)
           o == [i \in DOMAIN s |-> s[i].octets]
           p == [f \in Fields |-> Octets(f, m.val[f])]
           q == [x \in DOMAIN m.endpoints |-> EntryOctets(x, m.endpoints[x])]
<1>1. /\ s \in Seq(ItemOf) /\ g \in Seq(Fields) /\ n \in Nat /\ k \in Nat
      /\ DOMAIN g = 1..n /\ DOMAIN s = 1..Len(s)
      /\ Sized(m.id) = {g[i] : i \in 1..n}
      /\ \A i, j \in 1..n : g[i] = g[j] => i = j
  <2>1. g \in Seq(Fields)
    BY Tables
  <2>2. n \in Nat /\ DOMAIN g = 1..n
    BY <2>1
  <2> HIDE DEF g
  <2>3. s \in Seq(ItemOf)
    BY DEF Spelled
  <2> QED BY <2>1, <2>2, <2>3, Tables, OrderOf DEF g
<1>2. /\ Len(s) = 2 + n + (IF m.id = "INFO" THEN 1 + k ELSE 0)
      /\ s[1] = Item(2, <<"signature", TRUE>>) /\ s[2] = Item(1, <<"id", m.id>>)
      /\ \A i \in 1..n : s[2 + i] = Item(Octets(g[i], m.val[g[i]]), m.val[g[i]])
      /\ m.id = "INFO" =>
           /\ s[3 + n] = Item(4, <<"count", k>>)
           /\ \A i \in 1..k : s[3 + n + i] =
                Item(EntryOctets(order[i], m.endpoints[order[i]]),
                     <<"entry", order[i], m.endpoints[order[i]]>>)
  BY DEF Spelled
<1> HIDE DEF g, n, k
<1>3. Len(s) \in Nat /\ \A i \in 1..Len(s) : o[i] = s[i].octets /\ o[i] \in Nat
  <2>1. Len(s) \in Nat /\ \A i \in 1..Len(s) : s[i] \in ItemOf
    BY <1>1, ElementOfSeq
  <2>2. \A i \in 1..Len(s) : s[i].octets \in Nat
    BY <2>1 DEF ItemOf
  <2>3. \A i \in 1..Len(s) : o[i] = s[i].octets
    BY <1>1
  <2> HIDE DEF o
  <2> QED BY <2>1, <2>2, <2>3
<1>4. Used(s) = Total(o, 1..Len(s))
  BY <1>1 DEF Used
<1> HIDE DEF o
<1>5. Total(o, 1..2) = 3
  <2>1. 1..2 = {1} \cup {2} /\ {1} \cap {2} = {}
    OBVIOUS
  <2>2. 1 \in 1..Len(s) /\ 2 \in 1..Len(s)
    BY <1>1, <1>2
  <2>3. o[1] = 2 /\ o[2] = 1
    BY <1>2, <1>3, <2>2 DEF Item
  <2>4. Total(o, {1}) = 2 /\ Total(o, {2}) = 1
    <3>1. o[1] \in Nat /\ o[2] \in Nat
      BY <2>3
    <3>2. Total(o, {1}) = o[1] /\ Total(o, {2}) = o[2]
      BY <3>1, TotalOfOne, Zenon
    <3> QED BY <2>3, <3>2
  <2>5. Total(o, {1} \cup {2}) = Total(o, {1}) + Total(o, {2})
    <3>1. IsFiniteSet({1}) /\ IsFiniteSet({2})
      BY FS_Singleton
    <3>2. \A x \in {1} \cup {2} : o[x] \in Nat
      BY <2>3
    <3> QED BY <2>1, <3>1, <3>2, TotalOfBoth
  <2> QED BY <2>1, <2>4, <2>5
<1>6. Total(o, 3..(2 + n)) = Total(p, Sized(m.id))
  <2>1. g \in Bijection(1..n, Sized(m.id))
    BY <1>1 DEF Bijection, Injection, Surjection, IsInjective
  <2>2. ASSUME NEW i \in 1..n PROVE o[2 + i] \in Nat /\ o[2 + i] = p[g[i]]
    <3>1. 2 + i \in 1..Len(s)
      BY <1>1, <1>2
    <3>2. o[2 + i] = Octets(g[i], m.val[g[i]])
      <4>1. o[2 + i] = s[2 + i].octets
        BY <1>3, <3>1
      <4>2. s[2 + i] = Item(Octets(g[i], m.val[g[i]]), m.val[g[i]])
        BY <1>2
      <4> QED BY <4>1, <4>2, ItemParts, Zenon
    <3>3. g[i] \in Fields
      BY <1>1
    <3> QED BY <1>3, <3>1, <3>2, <3>3
  <2> HIDE DEF p
  <2>3. Total(o, 3..(2 + n)) = Total(p, Sized(m.id))
    <3>1. 2 \in Nat /\ n \in Nat
      BY <1>1
    <3>2. \A i \in 1..n : o[2 + i] \in Nat /\ o[2 + i] = p[g[i]]
      BY <2>2
    <3>3. 3 = 2 + 1 /\ 2 + n = 2 + n
      OBVIOUS
    <3> QED BY <2>1, <3>1, <3>2, <3>3, TotalFrom
  <2> QED BY <2>3
<1>7. Total(o, 1..(2 + n)) = 3 + Total(p, Sized(m.id))
  <2>1. 1..(2 + n) = (1..2) \cup (3..(2 + n)) /\ (1..2) \cap (3..(2 + n)) = {}
    BY <1>1
  <2>2. IsFiniteSet(1..2) /\ IsFiniteSet(3..(2 + n))
    <3>1. 1 \in Nat /\ 2 \in Nat /\ 3 \in Nat /\ 2 + n \in Nat
      BY <1>1
    <3> QED BY <3>1, Places
  <2>3. \A x \in (1..2) \cup (3..(2 + n)) : o[x] \in Nat
    BY <1>1, <1>2, <1>3
  <2>4. Total(o, (1..2) \cup (3..(2 + n))) = Total(o, 1..2) + Total(o, 3..(2 + n))
    BY <2>1, <2>2, <2>3, TotalOfBoth
  <2> QED BY <1>5, <1>6, <2>1, <2>4
<1>8. Total(p, Sized(m.id)) \in Nat
  <2>1. Sized(m.id) \subseteq Fields
    BY <1>1
  <2>2. IsFiniteSet(1..n) /\ g \in Surjection(1..n, Sized(m.id))
    <3>1. 1 \in Nat /\ n \in Nat
      BY <1>1
    <3>2. g \in [1..n -> Sized(m.id)]
      BY <1>1
    <3>3. \A f \in Sized(m.id) : \E i \in 1..n : g[i] = f
      BY <1>1
    <3> QED BY <3>1, <3>2, <3>3, Places DEF Surjection
  <2>3. IsFiniteSet(Sized(m.id))
    BY <2>2, FS_Surjection
  <2>4. \A f \in Sized(m.id) : p[f] \in Nat
    BY <2>1, FieldItem
  <2> HIDE DEF p
  <2> QED BY <2>3, <2>4, NumberedFinite
<1>9. CASE m.id # "INFO"
  <2>1. Used(s) = 3 + Total(p, Sized(m.id))
    BY <1>2, <1>4, <1>7, <1>9, <1>1
  <2>2. FrameSize(m) = 2 + 1 + Total(p, Sized(m.id)) + 0
    BY <1>9 DEF FrameSize
  <2> HIDE DEF p
  <2> QED BY <1>8, <1>9, <2>1, <2>2
<1>10. CASE m.id = "INFO"
  <2>1. FrameSize(m) = 2 + 1 + Total(p, Sized(m.id)) + (4 + EndpointsBytes(m))
    BY <1>10 DEF FrameSize
  <2>2. Total(o, (3 + n)..(3 + n)) = 4
    <3>1. 3 + n \in 1..Len(s) /\ (3 + n)..(3 + n) = {3 + n}
      BY <1>1, <1>2, <1>10
    <3>2. o[3 + n] = 4
      <4>1. o[3 + n] = s[3 + n].octets
        BY <1>3, <3>1
      <4>2. s[3 + n] = Item(4, <<"count", k>>)
        BY <1>2, <1>10
      <4> QED BY <4>1, <4>2, ItemParts, Zenon
    <3>3. Total(o, {3 + n}) = o[3 + n]
      <4>1. o[3 + n] \in Nat
        BY <3>2
      <4> QED BY <4>1, TotalOfOne, Zenon
    <3> QED BY <3>1, <3>2, <3>3
  <2>3. Total(o, 1..(3 + n)) = 7 + Total(p, Sized(m.id))
    <3>1. /\ 1..(3 + n) = (1..(2 + n)) \cup ((3 + n)..(3 + n))
          /\ (1..(2 + n)) \cap ((3 + n)..(3 + n)) = {}
      BY <1>1
    <3>2. IsFiniteSet(1..(2 + n)) /\ IsFiniteSet((3 + n)..(3 + n))
      <4>1. 1 \in Nat /\ 2 + n \in Nat /\ 3 + n \in Nat
        BY <1>1
      <4> QED BY <4>1, Places
    <3>3. \A x \in (1..(2 + n)) \cup ((3 + n)..(3 + n)) : o[x] \in Nat
      BY <1>1, <1>2, <1>3, <1>10
    <3>4. Total(o, (1..(2 + n)) \cup ((3 + n)..(3 + n)))
            = Total(o, 1..(2 + n)) + Total(o, (3 + n)..(3 + n))
      BY <3>1, <3>2, <3>3, TotalOfBoth
    <3> DEFINE a == Total(o, 1..(2 + n))  b == Total(p, Sized(m.id))
               c == Total(o, (3 + n)..(3 + n))
    <3>5. a = 3 + b /\ c = 4 /\ b \in Nat /\ Total(o, 1..(3 + n)) = a + c
      BY <1>7, <1>8, <2>2, <3>1, <3>4
    <3> HIDE DEF a, b, c
    <3>6. Total(o, 1..(3 + n)) = 7 + b
      BY <3>5
    <3> QED BY <3>6 DEF b
  <2> HIDE DEF p
  <2>4. CASE m.endpoints = None
    <3>1. k = 0
      <4>1. order = <<>>
        BY <1>10, <2>4, OrderOf
      <4> QED BY <4>1 DEF k
    <3>2. EndpointsBytes(m) = m.ebytes /\ m.ebytes \in Nat
      BY <2>4, MessageParts DEF EndpointsBytes
    <3>3. Len(s) = 3 + n
      BY <1>1, <1>2, <1>10, <3>1
    <3>4. Used(s) = 7 + Total(p, Sized(m.id))
      BY <1>4, <2>3, <3>3
    <3> QED BY <1>8, <1>10, <2>1, <2>4, <3>2, <3>4
  <2>5. CASE m.endpoints # None
    <3>1. /\ order \in Bijection(1..k, DOMAIN m.endpoints)
          /\ IsFiniteSet(DOMAIN m.endpoints)
      BY <1>10, <2>5, OrderOf DEF k
    <3>2. EndpointsBytes(m) = Total(q, DOMAIN m.endpoints)
      BY <1>10, <2>5 DEF EndpointsBytes, EntriesTotal
    <3>3. ASSUME NEW i \in 1..k
          PROVE  o[3 + n + i] \in Nat /\ o[3 + n + i] = q[order[i]]
      <4>1. 3 + n + i \in 1..Len(s)
        BY <1>1, <1>2, <1>10
      <4>2. o[3 + n + i] = EntryOctets(order[i], m.endpoints[order[i]])
        <5>1. o[3 + n + i] = s[3 + n + i].octets
          BY <1>3, <4>1
        <5>2. s[3 + n + i] = Item(EntryOctets(order[i], m.endpoints[order[i]]),
                                  <<"entry", order[i], m.endpoints[order[i]]>>)
          BY <1>2, <1>10
        <5> QED BY <5>1, <5>2, ItemParts, Zenon
      <4>3. order[i] \in DOMAIN m.endpoints
        BY <3>1 DEF Bijection, Injection
      <4> QED BY <1>3, <4>1, <4>2, <4>3
    <3> HIDE DEF q
    <3>4. Total(o, (3 + n + 1)..(3 + n + k)) = Total(q, DOMAIN m.endpoints)
      <4>1. 3 + n \in Nat
        BY <1>1
      <4>2. \A i \in 1..k : o[3 + n + i] \in Nat /\ o[3 + n + i] = q[order[i]]
        BY <3>3
      <4>3. k \in Nat
        BY <1>1
      <4> DEFINE a == 3 + n  T == DOMAIN m.endpoints
                 first == 3 + n + 1  last == 3 + n + k
      <4>5. /\ a \in Nat /\ k \in Nat /\ first = a + 1 /\ last = a + k
            /\ order \in Bijection(1..k, T)
            /\ \A i \in 1..k : o[a + i] \in Nat /\ o[a + i] = q[order[i]]
        BY <3>1, <4>1, <4>2, <4>3
      <4> HIDE DEF a, T, first, last
      <4>6. Total(o, first..last) = Total(q, T)
        BY <4>5, TotalFrom
      <4> QED BY <4>6 DEF first, last, T
    <3>5. Used(s) = 7 + Total(p, Sized(m.id)) + Total(q, DOMAIN m.endpoints)
      <4>1. /\ 1..(3 + n + k) = (1..(3 + n)) \cup ((3 + n + 1)..(3 + n + k))
            /\ (1..(3 + n)) \cap ((3 + n + 1)..(3 + n + k)) = {}
            /\ Len(s) = 3 + n + k
        BY <1>1, <1>2, <1>10
      <4>2. IsFiniteSet(1..(3 + n)) /\ IsFiniteSet((3 + n + 1)..(3 + n + k))
        <5>1. 1 \in Nat /\ 3 + n \in Nat /\ 3 + n + 1 \in Nat /\ 3 + n + k \in Nat
          BY <1>1
        <5> QED BY <5>1, Places
      <4>3. \A x \in (1..(3 + n)) \cup ((3 + n + 1)..(3 + n + k)) : o[x] \in Nat
        BY <1>1, <1>3, <4>1
      <4>4. Total(o, (1..(3 + n)) \cup ((3 + n + 1)..(3 + n + k)))
              = Total(o, 1..(3 + n)) + Total(o, (3 + n + 1)..(3 + n + k))
        BY <4>1, <4>2, <4>3, TotalOfBoth
      <4> QED BY <1>4, <2>3, <3>4, <4>1, <4>4
    <3>6. Total(q, DOMAIN m.endpoints) \in Nat
      <4>1. \A x \in DOMAIN m.endpoints : q[x] \in Nat
        <5> TAKE x \in DOMAIN m.endpoints
        <5>1. PICK i \in 1..k : order[i] = x
          BY <3>1 DEF Bijection, Surjection
        <5> QED BY <3>3, <5>1
      <4> QED BY <3>1, <4>1, NumberedFinite
    <3> QED BY <1>8, <1>10, <2>1, <2>5, <3>2, <3>5, <3>6
  <2> QED BY <2>4, <2>5
<1> QED BY <1>9, <1>10

(* endpoints_bytes as zperf_msg_send leaves it. *)
LEMMA EndpointsBytesNat ==
  ASSUME NEW m, IsMessage(m)
  PROVE  EndpointsBytes(m) \in Nat
<1>1. CASE m.id = "INFO" /\ m.endpoints # None
  <2> DEFINE h == m.endpoints  D == DOMAIN h
             q == [k \in D |-> EntryOctets(k, h[k])]
  <2>1. h \in [D -> Values("address")] /\ D \subseteq Keys
    BY <1>1, MessageParts DEF HashOver
  <2>2. IsFiniteSet(D)
    BY <2>1, FS_Subset
  <2>3. \A k \in D : q[k] \in Nat
    BY <2>1 DEF EntryOctets, StringOctets, KeyLength, Values
  <2>4. EndpointsBytes(m) = Total(q, D)
    BY <1>1 DEF EndpointsBytes, EntriesTotal
  <2> HIDE DEF q, D
  <2> QED BY <2>2, <2>3, <2>4, NumberedFinite
<1>2. CASE ~(m.id = "INFO" /\ m.endpoints # None)
  BY <1>2, MessageParts DEF EndpointsBytes
<1> QED BY <1>1, <1>2

LEMMA SizeIsNat ==
  ASSUME NEW m, IsMessage(m)
  PROVE  FrameSize(m) \in Nat
<1> DEFINE p == [f \in Fields |-> Octets(f, m.val[f])]
<1>1. Sized(m.id) \subseteq Fields
  BY Tables
<1>2. \A f \in Sized(m.id) : p[f] \in Nat
  BY <1>1, FieldItem
<1>3. IsFiniteSet(Sized(m.id))
  <2> DEFINE g == Grammar(m.id)
  <2>1. g \in Seq(Fields)
    BY Tables
  <2>2. Len(g) \in Nat /\ DOMAIN g = 1..Len(g)
    BY <2>1
  <2>3. g \in Surjection(1..Len(g), Sized(m.id))
    <3>1. Sized(m.id) = {g[i] : i \in DOMAIN g}
      BY Tables
    <3> HIDE DEF g
    <3>2. g \in [1..Len(g) -> Sized(m.id)]
      BY <2>1, <2>2, <3>1
    <3>3. \A f \in Sized(m.id) : \E i \in 1..Len(g) : g[i] = f
      BY <2>2, <3>1
    <3> QED BY <3>2, <3>3 DEF Surjection
  <2> HIDE DEF g
  <2>4. 1 \in Nat
    OBVIOUS
  <2>5. IsFiniteSet(1..Len(g))
    BY <2>2, <2>4, Places
  <2> QED BY <2>3, <2>5, FS_Surjection
<1> HIDE DEF p
<1>4. Total(p, Sized(m.id)) \in Nat
  BY <1>2, <1>3, NumberedFinite
<1>5. EndpointsBytes(m) \in Nat
  BY EndpointsBytesNat
<1>6. FrameSize(m) = 2 + 1 + Total(p, Sized(m.id))
                       + (IF m.id = "INFO" THEN 4 + EndpointsBytes(m) ELSE 0)
  BY DEF FrameSize, p
<1> QED BY <1>4, <1>5, <1>6

-----------------------------------------------------------------------------
(* What is got from a frame *)

(* The entries of a hash that has been sent, or the first of them. *)
LEMMA HashGot ==
  ASSUME NEW m, IsMessage(m), NEW order \in Orders(m), m.id = "INFO",
         NEW e \in Seq(ItemOf), Len(e) <= Len(order),
         \A i \in 1..Len(e) :
           e[i].value = <<"entry", order[i], m.endpoints[order[i]]>>
  PROVE  /\ GotHash(e) \in HashOver(Keys) /\ PartOf(GotHash(e), Entries(m))
         /\ Len(e) = Len(order) => AllOf(GotHash(e), Entries(m))
<1> DEFINE h == Entries(m)  D == DOMAIN h
           good == {i \in DOMAIN e : \A j \in 1..i : e[j].value[2] \notin LongKeys}
           keys == {e[i].value[2] : i \in good}
           at(k) == CHOOSE i \in good : e[i].value[2] = k
           got == GotHash(e)
<1>1. /\ Len(order) \in Nat /\ Len(e) \in Nat /\ DOMAIN e = 1..Len(e)
      /\ \A i \in 1..Len(e) : i \in 1..Len(order)
  <2>1. Len(order) \in Nat
    BY OrderOf
  <2> QED BY <2>1
<1>2. \A i \in 1..Len(order) :
        /\ order[i] \in D /\ order[i] \in Keys /\ h = m.endpoints
        /\ h[order[i]] \in Values("address")
  BY EntryItem DEF Entries
<1>3. \A k \in D : \E i \in 1..Len(order) : order[i] = k
  <2>1. CASE m.endpoints = None
    <3>1. D = {}
      BY <2>1 DEF Entries
    <3> QED BY <3>1
  <2>2. CASE m.endpoints # None
    <3>1. order \in Surjection(1..Len(order), DOMAIN m.endpoints)
      BY <2>2, OrderOf DEF Bijection
    <3> QED BY <2>2, <3>1 DEF Surjection, Entries
  <2> QED BY <2>1, <2>2
<1> HIDE DEF h
<1>4. \A i \in 1..Len(e) : e[i].value[2] = order[i] /\ e[i].value[3] = h[order[i]]
  BY <1>1, <1>2
<1>5. got = [k \in keys |-> e[at(k)].value[3]]
  BY DEF GotHash
<1>6. \A k \in keys : /\ at(k) \in 1..Len(e) /\ e[at(k)].value[2] = k
                      /\ k \notin LongKeys
  <2> TAKE k \in keys
  <2>1. PICK i \in good : e[i].value[2] = k
    OBVIOUS
  <2>2. at(k) \in good /\ e[at(k)].value[2] = k
    BY <2>1
  <2>3. at(k) \in 1..Len(e) /\ at(k) \in 1..at(k)
    BY <1>1, <2>2
  <2> QED BY <2>2, <2>3
<1> HIDE DEF at
<1>7. \A k \in keys : /\ k \in D /\ k \in Keys /\ k \notin LongKeys
                      /\ got[k] = h[k] /\ h[k] \in Values("address")
  <2> TAKE k \in keys
  <2>1. at(k) \in 1..Len(e) /\ order[at(k)] = k /\ k \notin LongKeys
    BY <1>4, <1>6
  <2>2. got[k] = e[at(k)].value[3]
    BY <1>5
  <2> QED BY <1>1, <1>2, <1>4, <2>1, <2>2
<1>8. DOMAIN got = keys
  BY <1>5
<1>9. got \in HashOver(Keys)
  <2>1. got = [k \in keys |-> got[k]]
    BY <1>5
  <2> HIDE DEF got, keys
  <2>2. got \in [keys -> Values("address")] /\ keys \in SUBSET Keys
    BY <1>7, <2>1
  <2> QED BY <2>2 DEF HashOver
<1>10. PartOf(got, h)
  BY <1>7, <1>8 DEF PartOf
<1>11. ASSUME Len(e) = Len(order), D \cap LongKeys = {} PROVE got = h
  <2>1. good = 1..Len(e)
    <3>1. ASSUME NEW i \in 1..Len(e), NEW j \in 1..i
          PROVE  e[j].value[2] \notin LongKeys
      <4>1. j \in 1..Len(e)
        BY <1>1
      <4> QED BY <1>1, <1>2, <1>4, <1>11, <4>1
    <3> QED BY <1>1, <3>1
  <2>2. keys = D
    <3>1. \A k \in D : k \in keys
      <4> TAKE k \in D
      <4>1. PICK i \in 1..Len(order) : order[i] = k
        BY <1>3
      <4>2. i \in good /\ e[i].value[2] = k
        BY <1>4, <1>11, <2>1, <4>1
      <4> QED BY <4>2
    <3> HIDE DEF keys
    <3> QED BY <1>7, <3>1
  <2>3. h = [k \in D |-> h[k]]
    <3>1. CASE m.endpoints = None
      BY <3>1 DEF h, Entries
    <3>2. CASE m.endpoints # None
      BY <3>2, OrderOf DEF h, Entries
    <3> QED BY <3>1, <3>2
  <2>4. got = [k \in D |-> got[k]]
    BY <1>5, <2>2
  <2> HIDE DEF got, keys
  <2> QED BY <1>7, <2>2, <2>3, <2>4
<1> QED BY <1>9, <1>10, <1>11 DEF AllOf, h

(* The first n fields of a message. *)
FirstFields(id, n) == {Grammar(id)[i] : i \in 1..n}

LEMMA Containing ==
  ASSUME NEW id, NEW n \in 0..Len(Grammar(id)), NEW f
  PROVE  /\ Contains(SubSeq(Grammar(id), 1, n), f) <=> f \in FirstFields(id, n)
         /\ Contains(Grammar(id), f) <=> f \in FirstFields(id, Len(Grammar(id)))
<1> DEFINE g == Grammar(id)
<1>1. g \in Seq(Fields)
  BY Tables
<1> HIDE DEF g
<1>2. Len(g) \in Nat /\ n \in Nat /\ n <= Len(g)
  BY <1>1 DEF g
<1>3. Len(SubSeq(g, 1, n)) = n /\ \A i \in 1..n : SubSeq(g, 1, n)[i] = g[i]
  BY <1>1, <1>2
<1> QED BY <1>3 DEF Contains, FirstFields, g

(* What a frame with a good signature and id that ends after an item makes of
   an object. *)
LEMMA ParsedParts ==
  ASSUME NEW of, IsMessage(of), of.id \in Ids, NEW order \in Orders(of),
         NEW m, IsMessage(m), NEW items \in Seq(ItemOf),
         NEW s, Spelled(s, of, order), 2 <= Len(items), Len(items) <= Len(s),
         \A i \in 1..Len(items) : items[i] = s[i]
  PROVE  LET p == Parsed(m, items)  n == Len(Grammar(of.id))
             got == IF Len(items) - 2 < n THEN Len(items) - 2 ELSE n
         IN
         /\ IsMessage(p) /\ p.id = of.id /\ p.routing = m.routing
         /\ \A f \in Fields : p.val[f] =
              IF f \in FirstFields(of.id, got) THEN of.val[f] ELSE m.val[f]
         /\ IF of.id = "INFO" /\ n < Len(items) - 2
            THEN /\ PartOf(p.endpoints, Entries(of))
                 /\ Len(items) = Len(s) => AllOf(p.endpoints, Entries(of))
            ELSE p.endpoints = m.endpoints
<1> DEFINE id == of.id  g == Grammar(of.id)  n == Len(g)  N == Len(items)
           body == SubSeq(items, 3, N)
           last == IF N - 2 < n THEN N - 2 ELSE n
           first == FirstFields(of.id, last)
           p == Parsed(m, items)
           entries == SubSeq(body, n + 2, Len(body))
<1>1. /\ g \in Seq(Fields) /\ n \in Nat /\ DOMAIN g = 1..n
      /\ \A i, j \in 1..n : g[i] = g[j] => i = j
      /\ GetOrder(of.id) = g /\ Len(order) \in Nat
  <2>1. g \in Seq(Fields)
    BY Tables
  <2>2. n \in Nat /\ DOMAIN g = 1..n
    BY <2>1
  <2> QED BY <2>1, <2>2, Tables, OrderOf
<1>2. N \in Nat /\ 2 <= N /\ DOMAIN items = 1..N
  OBVIOUS
<1>3. /\ N <= 2 + n + (IF id = "INFO" THEN 1 + Len(order) ELSE 0)
      /\ N = Len(s) => N = 2 + n + (IF id = "INFO" THEN 1 + Len(order) ELSE 0)
      /\ items[2] = Item(1, <<"id", id>>)
      /\ \A i \in 1..n : 2 + i <= N =>
           items[2 + i] = Item(Octets(g[i], of.val[g[i]]), of.val[g[i]])
      /\ id = "INFO" => \A i \in 1..Len(order) : 3 + n + i <= N =>
           items[3 + n + i] =
             Item(EntryOctets(order[i], of.endpoints[order[i]]),
                  <<"entry", order[i], of.endpoints[order[i]]>>)
  <2>1. /\ Len(s) = 2 + n + (IF id = "INFO" THEN 1 + Len(order) ELSE 0)
        /\ s[2] = Item(1, <<"id", id>>)
        /\ \A i \in 1..n : s[2 + i] = Item(Octets(g[i], of.val[g[i]]), of.val[g[i]])
        /\ id = "INFO" =>
             \A i \in 1..Len(order) : s[3 + n + i] =
               Item(EntryOctets(order[i], of.endpoints[order[i]]),
                    <<"entry", order[i], of.endpoints[order[i]]>>)
    BY DEF Spelled
  <2> HIDE DEF g, n, id
  <2>2. /\ 2 \in 1..N /\ \A i \in 1..n : 2 + i <= N => 2 + i \in 1..N
        /\ \A i \in 1..Len(order) : 3 + n + i <= N => 3 + n + i \in 1..N
    BY <1>1, <1>2
  <2> QED BY <1>1, <1>2, <2>1, <2>2
<1>4. items[2].value[2] = id
  BY <1>3, ItemParts
<1> HIDE DEF g, n
<1>5. /\ Len(body) = N - 2 /\ DOMAIN body = 1..(N - 2)
      /\ \A i \in 1..(N - 2) : body[i] = items[2 + i]
      /\ body \in Seq(ItemOf)
  BY <1>2
<1> HIDE DEF body
<1> DEFINE gets == Got(id, body)
<1>6. p = [m EXCEPT !.id = id,
                    !.val = [f \in Fields |->
                      IF f \in DOMAIN gets THEN gets[f] ELSE m.val[f]],
                    !.endpoints = GotEndpoints(m, id, body)]
  BY <1>4 DEF Parsed, body
<1>7. last \in Nat /\ last <= n /\ last <= N - 2
      /\ DOMAIN g \cap DOMAIN body = 1..last
  BY <1>1, <1>2, <1>5
<1> HIDE DEF last
<1>8. first = {g[i] : i \in 1..last} /\ first \subseteq Fields
  BY <1>1, <1>7 DEF FirstFields, g
<1>9. DOMAIN gets = first /\ \A f \in first : gets[f] = of.val[f]
  <2> DEFINE at(f) == CHOOSE i \in DOMAIN g : g[i] = f
  <2>1. gets = [f \in first |-> body[at(f)].value]
    BY <1>1, <1>7, <1>8 DEF Got
  <2>2. ASSUME NEW f \in first PROVE body[at(f)].value = of.val[f]
    <3>1. PICK i \in 1..last : g[i] = f
      BY <1>8
    <3>2. i \in 1..n /\ i \in 1..(N - 2) /\ 2 + i <= N
      BY <1>1, <1>2, <1>7
    <3>3. at(f) \in DOMAIN g /\ g[at(f)] = f
      BY <1>1, <3>1, <3>2
    <3>4. at(f) = i
      BY <1>1, <3>1, <3>2, <3>3
    <3>5. body[at(f)] = Item(Octets(f, of.val[f]), of.val[f])
      BY <1>3, <1>5, <3>1, <3>2, <3>4
    <3> QED BY <3>5, ItemParts
  <2> HIDE DEF at, first
  <2> QED BY <2>1, <2>2
<1> HIDE DEF first
<1> HIDE DEF gets
<1>10. m.id \in Ids \cup {"none"} /\ m \in Object
  BY MessageParts DEF IsMessage
<1>11. /\ p.id = id /\ p.routing = m.routing /\ p.ebytes = m.ebytes
       /\ \A f \in Fields : p.val[f] = IF f \in first THEN of.val[f] ELSE m.val[f]
       /\ p.endpoints = GotEndpoints(m, id, body)
  BY <1>6, <1>9, <1>10 DEF Object, ObjectOver
<1> HIDE DEF N, p
<1>12. ASSUME id = "INFO", n < N - 2
       PROVE  /\ p.endpoints \in HashOver(Keys)
              /\ PartOf(p.endpoints, Entries(of))
              /\ N = Len(s) => AllOf(p.endpoints, Entries(of))
  <2> DEFINE e == SubSeq(body, n + 2, N - 2)
  <2>1. GotEndpoints(m, id, body) = GotHash(e)
    <3>1. n + 1 \in DOMAIN body /\ n + 1 + 1 = n + 2
      BY <1>1, <1>2, <1>5, <1>12
    <3>2. GotEndpoints(m, id, body) = GotHash(SubSeq(body, n + 1 + 1, Len(body)))
      BY <1>1, <1>12, <3>1 DEF GotEndpoints, n
    <3> QED BY <1>5, <3>1, <3>2
  <2>2. /\ e \in Seq(ItemOf) /\ Len(e) = N - 3 - n
        /\ \A i \in 1..Len(e) : e[i] = body[n + 1 + i]
    <3>1. n + 2 \in 1..Len(body) + 1 /\ N - 2 \in 0..Len(body)
      BY <1>1, <1>2, <1>5, <1>12
    <3>2. e \in Seq(ItemOf) /\ Len(e) = IF n + 2 <= N - 2 THEN (N - 2) - (n + 2) + 1 ELSE 0
      BY <1>1, <1>2, <1>5, <3>1, SubSeqProperties
    <3>3. \A i \in 1..((N - 2) - (n + 2) + 1) : e[i] = body[n + 2 + i - 1]
      BY <1>1, <1>2, <1>5, <3>1, SubSeqProperties
    <3> HIDE DEF e
    <3> QED BY <1>1, <1>2, <1>12, <3>2, <3>3
  <2> HIDE DEF e
  <2>3. Len(e) <= Len(order) /\ (N = Len(s) => Len(e) = Len(order))
    BY <1>1, <1>2, <1>3, <1>12, <2>2
  <2>4. ASSUME NEW i \in 1..Len(e)
        PROVE  e[i].value = <<"entry", order[i], of.endpoints[order[i]]>>
    <3>1. /\ n + 1 + i \in 1..(N - 2) /\ 2 + (n + 1 + i) = 3 + n + i
          /\ 3 + n + i <= N /\ i \in 1..Len(order)
      BY <1>1, <1>2, <2>2, <2>3
    <3>2. e[i] = items[3 + n + i]
      BY <1>5, <2>2, <3>1
    <3>3. e[i] = Item(EntryOctets(order[i], of.endpoints[order[i]]),
                      <<"entry", order[i], of.endpoints[order[i]]>>)
      BY <1>3, <1>12, <3>1, <3>2
    <3> QED BY <3>3, ItemParts
  <2>5. /\ GotHash(e) \in HashOver(Keys) /\ PartOf(GotHash(e), Entries(of))
        /\ Len(e) = Len(order) => AllOf(GotHash(e), Entries(of))
    BY <1>12, <2>2, <2>3, <2>4, HashGot
  <2> QED BY <1>11, <2>1, <2>3, <2>5
<1>13. ASSUME ~(id = "INFO" /\ n < N - 2) PROVE p.endpoints = m.endpoints
  <2>1. ~(id = "INFO" /\ n + 1 \in DOMAIN body)
    BY <1>1, <1>2, <1>5, <1>13
  <2> QED BY <1>1, <1>11, <2>1 DEF GotEndpoints, n
<1>14. p.endpoints \in HashOver(Keys) \cup {None}
  BY <1>11, <1>12, <1>13, MessageParts
<1>15. IsMessage(p)
  <2>1. \A f \in Fields : p.val[f] \in Values(f)
    BY <1>11, MessageParts
  <2> DEFINE made == [m EXCEPT !.id = id,
               !.val = [f \in Fields |->
                 IF f \in DOMAIN gets THEN gets[f] ELSE m.val[f]],
               !.endpoints = GotEndpoints(m, id, body)]
  <2>2. p = made /\ GotEndpoints(m, id, body) \in HashOver(Keys) \cup {None}
    BY <1>6, <1>11, <1>14 DEF p
  <2>3. \A f \in Fields :
          (IF f \in DOMAIN gets THEN gets[f] ELSE m.val[f]) \in Value
    BY <1>9, MessageParts
  <2>4. made \in Object
    BY <1>10, <2>2, <2>3 DEF Object, ObjectOver
  <2> QED BY <2>1, <2>2, <2>4 DEF IsMessage
<1> QED BY <1>11, <1>12, <1>13, <1>15 DEF first, last, n, g, p, N

-----------------------------------------------------------------------------
(* The invariant: a frame is one that an object put, or its first items, or all
   of them with the signature or the id of no message. *)

NoSignature(s) == [s EXCEPT ![1].value = <<"signature", FALSE>>]
NoId(s) == [s EXCEPT ![2].value = <<"id", "none">>]

FrameIsOf(frame, m) ==
  /\ IsMessage(m) /\ m.id \in Ids
  /\ \E order \in Orders(m) :
       LET s == PutMessage(m, order) IN
       \/ frame.state = "whole" /\ frame.items = s /\ frame.size = FrameSize(m)
       \/ /\ frame.state = "cut"
          /\ \E n \in 0..(Len(s) - 1) : frame.items = SubSeq(s, 1, n)
       \/ /\ frame.state = "damaged"
          /\ frame.items = NoSignature(s) \/ frame.items = NoId(s)
       \/ frame.state = "headless"

MessageInv ==
  /\ TypeOK
  /\ wire # None => FrameIsOf(wire, wire.of)

LEMMA InitMessage == Init => MessageInv
<1> SUFFICES ASSUME Init PROVE MessageInv
  OBVIOUS
<1>1. \A f \in Fields : <<f, 0>> \in Values(f) /\ <<f, 0>> \in Value
  BY DEF Values, Value
<1>2. New \in Object /\ \A f \in Fields : New.val[f] = <<f, 0>>
  BY <1>1 DEF New, Object, ObjectOver
<1>3. IsMessage(New)
  BY <1>1, <1>2 DEF IsMessage
<1> QED BY <1>3 DEF Init, MessageInv, TypeOK

LEMMA SendKeeps ==
  ASSUME MessageInv, NEW m, IsMessage(m), m.id \in Ids, Send(m)
  PROVE  MessageInv'
<1>1. PICK order \in Orders(m) :
        wire' = [size |-> FrameSize(m), items |-> PutMessage(m, order),
                 state |-> "whole", of |-> m]
  BY DEF Send
<1>2. /\ self' = [m EXCEPT !.ebytes = EndpointsBytes(m)]
      /\ sent' = sent + 1 /\ sent < MaxSent
      /\ peer' = peer /\ rc' = rc
  BY DEF Send
<1>3. PutMessage(m, order) \in Seq(ItemOf)
  BY PutSpells DEF Spelled
<1>4. FrameSize(m) \in Nat /\ EndpointsBytes(m) \in Nat
  BY SizeIsNat, EndpointsBytesNat
<1>5. IsMessage(self')
  BY <1>2, <1>4 DEF IsMessage, Object, ObjectOver
<1>6. wire' \in Frame
  BY <1>1, <1>3, <1>4 DEF Frame, ItemOf, IsMessage
<1>7. sent' \in 0..MaxSent
  BY <1>2 DEF MessageInv, TypeOK
<1>8. wire'.of = m /\ FrameIsOf(wire', m)
  BY <1>1 DEF FrameIsOf
<1> QED BY <1>2, <1>5, <1>6, <1>7, <1>8 DEF MessageInv, TypeOK

LEMMA Composed ==
  ASSUME MessageInv, sent < MaxSent, NEW id \in Ids,
         NEW hash \in Hashes \cup {None}
  PROVE  IsMessage(Compose(id, hash)) /\ Compose(id, hash).id \in Ids
<1> DEFINE m == Compose(id, hash)
<1>1. sent + 1 \in 0..MaxSent
  BY DEF MessageInv, TypeOK
<1>2. IsMessage(self)
  BY DEF MessageInv, TypeOK
<1>3. \A f \in Fields : <<f, sent + 1>> \in Values(f) /\ <<f, sent + 1>> \in Value
  BY <1>1 DEF Values, Value
<1>4. hash \in HashOver(Keys) \cup {None}
  <2>1. <<"address", sent + 1>> \in Values("address")
    BY <1>1 DEF Values
  <2> QED BY <2>1 DEF Hashes, HashOver
<1>5. \A f \in Fields : m.val[f] = <<f, sent + 1>> \/ m.val[f] = self.val[f]
  BY <1>2 DEF Compose, IsMessage, Object, ObjectOver
<1>6. \A f \in Fields : m.val[f] \in Values(f)
  BY <1>2, <1>3, <1>5, MessageParts
<1>7. m \in Object /\ m.id \in Ids
  <2> DEFINE val == [f \in Fields |->
               IF Contains(Grammar(id), f) THEN <<f, sent + 1>> ELSE self.val[f]]
             endpoints == IF id = "INFO" THEN hash ELSE self.endpoints
  <2>1. val \in [Fields -> Value] /\ endpoints \in HashOver(Keys) \cup {None}
    BY <1>2, <1>3, <1>4, MessageParts
  <2>2. m = [self EXCEPT !.id = id, !.val = val, !.endpoints = endpoints]
    BY DEF Compose
  <2> HIDE DEF val, endpoints, m
  <2> QED BY <1>2, <2>1, <2>2 DEF IsMessage, Object, ObjectOver
<1> QED BY <1>6, <1>7 DEF IsMessage

(* The frame without its signature or its id, as zperf_msg_recv sees it. *)
LEMMA DamagedParts ==
  ASSUME NEW m, IsMessage(m), NEW order \in Orders(m)
  PROVE  LET s == PutMessage(m, order) IN
         /\ s \in Seq(ItemOf) /\ 2 <= Len(s)
         /\ s[1].value = <<"signature", TRUE>> /\ s[2].value = <<"id", m.id>>
         /\ NoSignature(s) \in Seq(ItemOf) /\ NoId(s) \in Seq(ItemOf)
         /\ Len(NoSignature(s)) = Len(s) /\ Len(NoId(s)) = Len(s)
         /\ NoSignature(s)[1].value = <<"signature", FALSE>>
         /\ NoSignature(s)[2].value = <<"id", m.id>>
         /\ NoId(s)[1].value = <<"signature", TRUE>>
         /\ NoId(s)[2].value = <<"id", "none">>
<1> DEFINE s == PutMessage(m, order)
<1>1. /\ s \in Seq(ItemOf) /\ Len(s) \in Nat /\ 2 <= Len(s)
      /\ s[1] = Item(2, <<"signature", TRUE>>) /\ s[2] = Item(1, <<"id", m.id>>)
  <2> DEFINE n == Len(Grammar(m.id))
  <2>1. Spelled(s, m, order)
    BY PutSpells
  <2>2. n \in Nat /\ Len(order) \in Nat
    <3>1. Grammar(m.id) \in Seq(Fields)
      BY Tables
    <3> QED BY <3>1, OrderOf
  <2>3. /\ s \in Seq(ItemOf)
        /\ Len(s) = 2 + n + (IF m.id = "INFO" THEN 1 + Len(order) ELSE 0)
        /\ s[1] = Item(2, <<"signature", TRUE>>) /\ s[2] = Item(1, <<"id", m.id>>)
    BY <2>1 DEF Spelled
  <2> HIDE DEF s, n
  <2>4. Len(s) \in Nat /\ 2 <= Len(s)
    <3>1. CASE m.id = "INFO"
      BY <2>2, <2>3, <3>1
    <3>2. CASE m.id # "INFO"
      BY <2>2, <2>3, <3>2
    <3> QED BY <3>1, <3>2
  <2> QED BY <2>3, <2>4, Zenon
<1> HIDE DEF s
<1>2. s[1].value = <<"signature", TRUE>> /\ s[2].value = <<"id", m.id>>
  <2> DEFINE a == <<"signature", TRUE>>  b == <<"id", m.id>>
  <2> HIDE DEF a, b
  <2>1. Item(2, a).value = a /\ Item(1, b).value = b
    BY ItemParts, Zenon
  <2>2. s[1] = Item(2, a) /\ s[2] = Item(1, b)
    BY <1>1, Zenon DEF a, b
  <2>3. s[1].value = a /\ s[2].value = b
    BY <2>1, <2>2, Zenon
  <2> QED BY <2>3 DEF a, b
<1>3. <<"signature", FALSE>> \in Said /\ <<"id", "none">> \in Said
  BY DEF Said
<1>4. 1 \in 1..Len(s) /\ 2 \in 1..Len(s)
  BY <1>1
<1>5. s[1] \in ItemOf /\ s[2] \in ItemOf
  BY <1>1, <1>4, ElementOfSeq
<1>6. /\ NoSignature(s) = [s EXCEPT ![1] = [s[1] EXCEPT !.value = <<"signature", FALSE>>]]
      /\ NoId(s) = [s EXCEPT ![2] = [s[2] EXCEPT !.value = <<"id", "none">>]]
  BY DEF NoSignature, NoId
<1>7. /\ [s[1] EXCEPT !.value = <<"signature", FALSE>>] \in ItemOf
      /\ [s[2] EXCEPT !.value = <<"id", "none">>] \in ItemOf
      /\ [s[1] EXCEPT !.value = <<"signature", FALSE>>].value = <<"signature", FALSE>>
      /\ [s[2] EXCEPT !.value = <<"id", "none">>].value = <<"id", "none">>
  BY <1>3, <1>5 DEF ItemOf
<1>8. \A i \in 1..Len(s), x \in ItemOf :
        LET t == [s EXCEPT ![i] = x] IN
        /\ t \in Seq(ItemOf) /\ Len(t) = Len(s) /\ t[i] = x
        /\ \A j \in 1..Len(s) : j # i => t[j] = s[j]
  BY <1>1, ExceptSeq
<1>9. /\ NoSignature(s) \in Seq(ItemOf) /\ Len(NoSignature(s)) = Len(s)
      /\ NoSignature(s)[1].value = <<"signature", FALSE>>
      /\ NoSignature(s)[2].value = <<"id", m.id>>
  <2> DEFINE x == [s[1] EXCEPT !.value = <<"signature", FALSE>>]  t == NoSignature(s)
  <2>1. x \in ItemOf /\ x.value = <<"signature", FALSE>> /\ t = [s EXCEPT ![1] = x]
    BY <1>6, <1>7
  <2> HIDE DEF x, t
  <2>2. 1 \in 1..Len(s) /\ 2 \in 1..Len(s) /\ 2 # 1
    BY <1>4
  <2>3. t \in Seq(ItemOf) /\ Len(t) = Len(s) /\ t[1] = x /\ t[2] = s[2]
    BY <1>8, <2>1, <2>2
  <2> QED BY <1>2, <2>1, <2>3 DEF t
<1>10. /\ NoId(s) \in Seq(ItemOf) /\ Len(NoId(s)) = Len(s)
       /\ NoId(s)[1].value = <<"signature", TRUE>>
       /\ NoId(s)[2].value = <<"id", "none">>
  <2> DEFINE x == [s[2] EXCEPT !.value = <<"id", "none">>]  t == NoId(s)
  <2>1. x \in ItemOf /\ x.value = <<"id", "none">> /\ t = [s EXCEPT ![2] = x]
    BY <1>6, <1>7
  <2> HIDE DEF x, t
  <2>2. 1 \in 1..Len(s) /\ 2 \in 1..Len(s) /\ 1 # 2
    BY <1>4
  <2>3. t \in Seq(ItemOf) /\ Len(t) = Len(s) /\ t[2] = x /\ t[1] = s[1]
    BY <1>8, <2>1, <2>2
  <2> QED BY <1>2, <2>1, <2>3 DEF t
<1> QED BY <1>1, <1>2, <1>9, <1>10, Zenon DEF s

(* The receiving object, its routing id set. *)
From == [peer EXCEPT !.routing = Sender]

LEMMA FromParts ==
  ASSUME MessageInv
  PROVE  /\ IsMessage(From) /\ From.id = peer.id /\ From.routing = Sender
         /\ From.val = peer.val /\ From.endpoints = peer.endpoints
<1>1. IsMessage(peer)
  BY DEF MessageInv, TypeOK
<1> QED BY <1>1 DEF From, IsMessage, Object, ObjectOver

(* zperf_msg_recv of the first items of a frame, all of them or not. *)
LEMMA RecvOfPart ==
  ASSUME MessageInv, wire # None, Recv, NEW order \in Orders(wire.of),
         NEW s, s = PutMessage(wire.of, order), IsMessage(wire.of), wire.of.id \in Ids,
         wire.items \in Seq(ItemOf), Len(wire.items) <= Len(s),
         \A i \in 1..Len(wire.items) : wire.items[i] = s[i]
  PROVE  LET of == wire.of  N == Len(wire.items)  n == Len(Grammar(of.id))
             got == IF N - 2 < n THEN N - 2 ELSE n
         IN
         /\ IsMessage(peer') /\ rc' = 0 /\ peer'.routing = Sender
         /\ N < 2 => /\ peer'.id = peer.id /\ peer'.val = peer.val
                     /\ peer'.endpoints = peer.endpoints
         /\ 2 <= N =>
              /\ peer'.id = of.id
              /\ \A f \in Fields : peer'.val[f] =
                   IF f \in FirstFields(of.id, got) THEN of.val[f] ELSE peer.val[f]
              /\ IF of.id = "INFO" /\ n < N - 2
                 THEN /\ PartOf(peer'.endpoints, Entries(of))
                      /\ N = Len(s) => AllOf(peer'.endpoints, Entries(of))
                 ELSE peer'.endpoints = peer.endpoints
<1> DEFINE of == wire.of  items == wire.items  N == Len(items)
<1>1. N \in Nat
  OBVIOUS
<1>2. /\ 1 <= N => items[1].value[2] = TRUE
      /\ 2 <= N => items[2].value[2] = of.id
  <2>1. s[1].value = <<"signature", TRUE>> /\ s[2].value = <<"id", of.id>>
    BY DamagedParts
  <2>2. 1 <= N => items[1] = s[1]
    BY <1>1
  <2>3. 2 <= N => items[2] = s[2]
    BY <1>1
  <2>4. <<"signature", TRUE>>[2] = TRUE /\ <<"id", of.id>>[2] = of.id
    OBVIOUS
  <2>5. 1 <= N => items[1].value[2] = TRUE
    BY <2>1, <2>2, <2>4, Zenon
  <2>6. 2 <= N => items[2].value[2] = of.id
    BY <2>1, <2>3, <2>4, Zenon
  <2> QED BY <2>5, <2>6
<1>3. /\ peer' = IF 2 <= N THEN Parsed(From, items) ELSE From
      /\ rc' = 0
  <2>1. /\ peer' = IF N >= 2 /\ (N >= 1 /\ items[1].value[2])
                   THEN Parsed(From, items) ELSE From
        /\ rc' = IF \/ N >= 1 /\ ~(N >= 1 /\ items[1].value[2])
                    \/ N >= 2 /\ items[2].value[2] \notin Ids
                 THEN -2 ELSE 0
    BY DEF Recv, From
  <2> QED BY <1>1, <1>2, <2>1
<1>4. /\ IsMessage(From) /\ From.id = peer.id /\ From.routing = Sender
      /\ From.val = peer.val /\ From.endpoints = peer.endpoints
  BY FromParts
<1>5. CASE N < 2
  <2>1. peer' = From
    BY <1>1, <1>3, <1>5
  <2> QED BY <1>1, <1>3, <1>4, <1>5, <2>1
<1>6. CASE 2 <= N
  <2>1. Spelled(s, of, order)
    BY PutSpells
  <2>2. peer' = Parsed(From, items)
    BY <1>3, <1>6
  <2> DEFINE p == Parsed(From, items)  n == Len(Grammar(of.id))
             got == IF N - 2 < n THEN N - 2 ELSE n
  <2>3. /\ IsMessage(p) /\ p.id = of.id /\ p.routing = From.routing
        /\ \A f \in Fields : p.val[f] =
             IF f \in FirstFields(of.id, got) THEN of.val[f] ELSE From.val[f]
        /\ IF of.id = "INFO" /\ n < N - 2
           THEN /\ PartOf(p.endpoints, Entries(of))
                /\ N = Len(s) => AllOf(p.endpoints, Entries(of))
           ELSE p.endpoints = From.endpoints
    <3> HIDE DEF of, items
    <3>1. /\ IsMessage(of) /\ of.id \in Ids /\ order \in Orders(of)
          /\ items \in Seq(ItemOf) /\ 2 <= Len(items) /\ Len(items) <= Len(s)
          /\ \A i \in 1..Len(items) : items[i] = s[i]
      BY <1>6 DEF of, items
    <3> QED BY <1>4, <2>1, <3>1, ParsedParts
  <2> HIDE DEF p, n, got
  <2>4. peer' = p
    BY <2>2 DEF p
  <2> QED BY <1>1, <1>3, <1>4, <1>6, <2>3, <2>4 DEF n, got
<1> QED BY <1>1, <1>5, <1>6

LEMMA WholeItems ==
  ASSUME MessageInv, wire # None, wire.state = "whole"
  PROVE  /\ IsMessage(wire.of) /\ wire.of.id \in Ids
         /\ \E order \in Orders(wire.of) :
              LET s == PutMessage(wire.of, order) IN
              /\ wire.items = s /\ s \in Seq(ItemOf) /\ wire.size = FrameSize(wire.of)
              /\ Len(s) = 2 + Len(Grammar(wire.of.id))
                  + (IF wire.of.id = "INFO" THEN 1 + Len(order) ELSE 0)
<1>1. FrameIsOf(wire, wire.of)
  BY DEF MessageInv
<1>2. IsMessage(wire.of) /\ wire.of.id \in Ids
  BY <1>1 DEF FrameIsOf
<1>3. PICK order \in Orders(wire.of) :
        wire.items = PutMessage(wire.of, order) /\ wire.size = FrameSize(wire.of)
  BY <1>1 DEF FrameIsOf
<1>4. Spelled(PutMessage(wire.of, order), wire.of, order)
  BY <1>2, PutSpells
<1> QED BY <1>2, <1>3, <1>4 DEF Spelled

LEMMA CutItems ==
  ASSUME MessageInv, wire # None, wire.state = "cut"
  PROVE  /\ IsMessage(wire.of) /\ wire.of.id \in Ids
         /\ \E order \in Orders(wire.of) :
              LET s == PutMessage(wire.of, order) IN
              /\ wire.items \in Seq(ItemOf) /\ Len(wire.items) <= Len(s)
              /\ \A i \in 1..Len(wire.items) : wire.items[i] = s[i]
<1>1. FrameIsOf(wire, wire.of)
  BY DEF MessageInv
<1>2. IsMessage(wire.of) /\ wire.of.id \in Ids
  BY <1>1 DEF FrameIsOf
<1>3. PICK order \in Orders(wire.of) :
        \E n \in 0..(Len(PutMessage(wire.of, order)) - 1) :
          wire.items = SubSeq(PutMessage(wire.of, order), 1, n)
  BY <1>1 DEF FrameIsOf
<1> DEFINE s == PutMessage(wire.of, order)
<1>4. PICK n \in 0..(Len(s) - 1) : wire.items = SubSeq(s, 1, n)
  BY <1>3
<1>5. s \in Seq(ItemOf)
  BY <1>2, PutSpells DEF Spelled
<1> HIDE DEF s
<1>6. /\ wire.items \in Seq(ItemOf) /\ Len(wire.items) <= Len(s)
      /\ \A i \in 1..Len(wire.items) : wire.items[i] = s[i]
  BY <1>4, <1>5
<1> QED BY <1>2, <1>6 DEF s

LEMMA RecvKeepsPeer ==
  ASSUME MessageInv, Recv
  PROVE  IsMessage(peer') /\ rc' \in {0, -2}
<1>0. wire # None /\ wire.state # "headless" /\ rc' \in {0, -2}
  BY DEF Recv
<1>1. wire.state \in {"whole", "cut", "damaged"}
  BY <1>0 DEF MessageInv, TypeOK, Frame
<1>2. CASE wire.state = "whole"
  <2>1. PICK order \in Orders(wire.of) :
          wire.items = PutMessage(wire.of, order) /\ wire.items \in Seq(ItemOf)
    BY <1>0, <1>2, WholeItems
  <2>2. Len(wire.items) <= Len(wire.items)
    BY <2>1
  <2> QED BY <1>0, <1>2, <2>1, <2>2, WholeItems, RecvOfPart
<1>3. CASE wire.state = "cut"
  <2>1. PICK order \in Orders(wire.of) :
          LET s == PutMessage(wire.of, order) IN
          /\ wire.items \in Seq(ItemOf) /\ Len(wire.items) <= Len(s)
          /\ \A i \in 1..Len(wire.items) : wire.items[i] = s[i]
    BY <1>0, <1>3, CutItems
  <2> QED BY <1>0, <1>3, <2>1, CutItems, RecvOfPart
<1>4. CASE wire.state = "damaged"
  <2>1. FrameIsOf(wire, wire.of)
    BY <1>0 DEF MessageInv
  <2>2. IsMessage(wire.of)
    BY <2>1 DEF FrameIsOf
  <2>3. PICK order \in Orders(wire.of) :
          \/ wire.items = NoSignature(PutMessage(wire.of, order))
          \/ wire.items = NoId(PutMessage(wire.of, order))
    BY <1>4, <2>1 DEF FrameIsOf
  <2> DEFINE items == wire.items
  <2>4. /\ items \in Seq(ItemOf) /\ Len(items) \in Nat /\ 2 <= Len(items)
        /\ \/ items[1].value = <<"signature", FALSE>>
           \/ /\ items[1].value = <<"signature", TRUE>>
              /\ items[2].value = <<"id", "none">>
    <3>1. Len(PutMessage(wire.of, order)) \in Nat
      BY <2>2, DamagedParts
    <3> DEFINE t == PutMessage(wire.of, order)
    <3>2. /\ 2 <= Len(t)
          /\ NoSignature(t) \in Seq(ItemOf) /\ NoId(t) \in Seq(ItemOf)
          /\ Len(NoSignature(t)) = Len(t) /\ Len(NoId(t)) = Len(t)
          /\ NoSignature(t)[1].value = <<"signature", FALSE>>
          /\ NoId(t)[1].value = <<"signature", TRUE>>
          /\ NoId(t)[2].value = <<"id", "none">>
      BY <2>2, DamagedParts
    <3>3. Len(t) \in Nat /\ (items = NoSignature(t) \/ items = NoId(t))
      BY <2>3, <3>1
    <3> HIDE DEF t, items
    <3>4. CASE items = NoSignature(t)
      BY <3>2, <3>3, <3>4
    <3>5. CASE items = NoId(t)
      BY <3>2, <3>3, <3>5
    <3> QED BY <3>3, <3>4, <3>5
  <2>5. peer' = IF Len(items) >= 2 /\ (Len(items) >= 1 /\ items[1].value[2])
                THEN Parsed(From, items) ELSE From
    BY DEF Recv, From
  <2> HIDE DEF items
  <2>6. peer' = From \/ (peer' = Parsed(From, items) /\ items[2].value[2] = "none")
    <3>1. CASE items[1].value = <<"signature", FALSE>>
      <4>1. items[1].value[2] = FALSE
        BY <3>1
      <4> QED BY <2>5, <4>1
    <3>2. CASE items[1].value # <<"signature", FALSE>>
      <4>1. items[1].value = <<"signature", TRUE>> /\ items[2].value = <<"id", "none">>
        BY <2>4, <3>2, Zenon
      <4>2. items[2].value[2] = "none"
        BY <4>1
      <4> QED BY <2>5, <4>2, Zenon
    <3> QED BY <3>1, <3>2
  <2>7. IsMessage(From)
    BY FromParts
  <2>8. ASSUME peer' = Parsed(From, items), items[2].value[2] = "none"
        PROVE  IsMessage(peer')
    <3> DEFINE body == SubSeq(items, 3, Len(items))
               got == Got("none", body)
    <3>1. DOMAIN got = {}
      <4>1. GetOrder("none") = <<>> /\ DOMAIN <<>> = {}
        BY DEF GetOrder
      <4> QED BY <4>1 DEF Got
    <3>2. GotEndpoints(From, "none", body) = From.endpoints
      BY DEF GotEndpoints
    <3>3. peer' = [From EXCEPT !.id = "none",
                     !.val = [f \in Fields |->
                       IF f \in DOMAIN got THEN got[f] ELSE From.val[f]],
                     !.endpoints = From.endpoints]
      BY <2>8, <3>2 DEF Parsed
    <3> HIDE DEF got
    <3> QED BY <2>7, <3>1, <3>3 DEF IsMessage, Object, ObjectOver
  <2> QED BY <1>0, <2>6, <2>7, <2>8
<1> QED BY <1>1, <1>2, <1>3, <1>4

LEMMA CutKeeps ==
  ASSUME MessageInv, Cut
  PROVE  MessageInv' /\ wire' \in Frame
<1>1. /\ wire # None /\ wire.state = "whole"
      /\ UNCHANGED <<self, peer, rc, sent>>
  BY DEF Cut
<1>2. PICK n \in 0..(Len(wire.items) - 1) :
        wire' = [wire EXCEPT !.items = SubSeq(wire.items, 1, n), !.state = "cut"]
  BY DEF Cut, Altered
<1>3. PICK order \in Orders(wire.of) :
        wire.items = PutMessage(wire.of, order) /\ wire.items \in Seq(ItemOf)
  BY <1>1, WholeItems
<1>4. IsMessage(wire.of) /\ wire.of.id \in Ids
  BY <1>1, WholeItems
<1>5. wire \in Frame
  BY <1>1 DEF MessageInv, TypeOK
<1>6. SubSeq(wire.items, 1, n) \in Seq(ItemOf)
  BY <1>3
<1>7. /\ wire' \in Frame /\ wire'.of = wire.of /\ wire'.state = "cut"
      /\ wire'.items = SubSeq(wire.items, 1, n)
  BY <1>2, <1>5, <1>6 DEF Frame, ItemOf
<1>8. FrameIsOf(wire', wire.of)
  BY <1>3, <1>4, <1>7 DEF FrameIsOf
<1> QED BY <1>1, <1>4, <1>7, <1>8 DEF MessageInv, TypeOK

LEMMA DamageKeeps ==
  ASSUME MessageInv, Damage
  PROVE  MessageInv' /\ wire' \in Frame
<1>1. /\ wire # None /\ wire.state = "whole"
      /\ UNCHANGED <<self, peer, rc, sent>>
  BY DEF Damage
<1>2. PICK items \in {NoSignature(wire.items), NoId(wire.items)} :
        wire' = [wire EXCEPT !.items = items, !.state = "damaged"]
  <2> DEFINE with(bad) == [wire.items EXCEPT ![bad[1]].value = bad[2]]
             first == <<1, <<"signature", FALSE>>>>  second == <<2, <<"id", "none">>>>
  <2>1. PICK bad \in {first, second} :
          wire' = [wire EXCEPT !.items = with(bad), !.state = "damaged"]
    BY Zenon DEF Damage, Altered
  <2>2. /\ first[1] = 1 /\ first[2] = <<"signature", FALSE>>
        /\ second[1] = 2 /\ second[2] = <<"id", "none">>
    OBVIOUS
  <2> HIDE DEF first, second
  <2>3. with(first) = NoSignature(wire.items)
    BY <2>2, Zenon DEF NoSignature
  <2>4. with(second) = NoId(wire.items)
    BY <2>2, Zenon DEF NoId
  <2> HIDE DEF with
  <2> QED BY <2>1, <2>3, <2>4, Zenon
<1>3. PICK order \in Orders(wire.of) : wire.items = PutMessage(wire.of, order)
  BY <1>1, WholeItems
<1>4. IsMessage(wire.of) /\ wire.of.id \in Ids
  BY <1>1, WholeItems
<1>5. wire \in Frame
  BY <1>1 DEF MessageInv, TypeOK
<1>6. items \in Seq(ItemOf)
  <2>1. /\ NoSignature(PutMessage(wire.of, order)) \in Seq(ItemOf)
        /\ NoId(PutMessage(wire.of, order)) \in Seq(ItemOf)
    BY <1>4, DamagedParts
  <2> QED BY <1>2, <1>3, <2>1, Zenon
<1>7. /\ wire' \in Frame /\ wire'.of = wire.of /\ wire'.state = "damaged"
      /\ wire'.items = items
  BY <1>2, <1>5, <1>6 DEF Frame, ItemOf
<1>8. FrameIsOf(wire', wire.of)
  BY <1>2, <1>3, <1>4, <1>7 DEF FrameIsOf
<1> QED BY <1>1, <1>4, <1>7, <1>8 DEF MessageInv, TypeOK

LEMMA NextKeeps == MessageInv /\ [Next]_vars => MessageInv'
<1> SUFFICES ASSUME MessageInv, [Next]_vars PROVE MessageInv'
  OBVIOUS
<1>1. CASE SendNew
  <2>1. PICK id \in Ids, hash \in Hashes \cup {None} : Send(Compose(id, hash))
    BY <1>1 DEF SendNew
  <2>2. sent < MaxSent
    BY <2>1 DEF Send
  <2> QED BY <2>1, <2>2, Composed, SendKeeps
<1>2. CASE SendAgain
  <2>1. IsMessage(self) /\ self.id \in Ids /\ Send(self)
    BY <1>2 DEF SendAgain, MessageInv, TypeOK
  <2> QED BY <2>1, SendKeeps
<1>3. CASE TakeEndpoints
  <2>1. self' = [self EXCEPT !.endpoints = None] /\ UNCHANGED <<peer, wire, rc, sent>>
    BY <1>3 DEF TakeEndpoints
  <2>2. IsMessage(self')
    BY <2>1 DEF MessageInv, TypeOK, IsMessage, Object, ObjectOver
  <2> QED BY <2>1, <2>2 DEF MessageInv, TypeOK
<1>4. CASE Cut
  BY <1>4, CutKeeps
<1>5. CASE Damage
  BY <1>5, DamageKeeps
<1>6. CASE Recv
  <2>1. wire' = None /\ UNCHANGED <<self, sent>>
    BY <1>6 DEF Recv
  <2>2. IsMessage(peer') /\ rc' \in {0, -2}
    BY <1>6, RecvKeepsPeer
  <2> QED BY <2>1, <2>2 DEF MessageInv, TypeOK
<1>7. CASE Interrupted
  <2>1. /\ rc' = -1 /\ UNCHANGED <<self, sent>>
        /\ \E r \in {None, Sender} : peer' = [peer EXCEPT !.routing = r]
        /\ \/ wire' = wire
           \/ wire # None /\ wire' = [wire EXCEPT !.state = "headless"]
    BY <1>7 DEF Interrupted
  <2>2. IsMessage(peer')
    BY <2>1 DEF MessageInv, TypeOK, IsMessage, Object, ObjectOver
  <2>3. CASE wire' = wire
    BY <2>1, <2>2, <2>3 DEF MessageInv, TypeOK
  <2>4. CASE wire # None /\ wire' = [wire EXCEPT !.state = "headless"]
    <3>1. /\ wire \in Frame /\ FrameIsOf(wire, wire.of) /\ IsMessage(wire.of)
      BY <2>4 DEF MessageInv, TypeOK
    <3>2. /\ wire' \in Frame /\ wire'.of = wire.of /\ wire'.state = "headless"
      BY <2>4, <3>1 DEF Frame
    <3>3. FrameIsOf(wire', wire'.of)
      BY <3>1, <3>2 DEF FrameIsOf
    <3> QED BY <2>1, <2>2, <3>1, <3>2, <3>3 DEF MessageInv, TypeOK
  <2> QED BY <2>1, <2>3, <2>4
<1>8. CASE RecvHeadless
  <2>1. /\ wire' = None /\ rc' = -1 /\ UNCHANGED <<self, sent>>
        /\ peer' = [peer EXCEPT !.routing = "rest"]
    BY <1>8 DEF RecvHeadless
  <2>2. IsMessage(peer')
    BY <2>1 DEF MessageInv, TypeOK, IsMessage, Object, ObjectOver
  <2> QED BY <2>1, <2>2 DEF MessageInv, TypeOK
<1>9. CASE UNCHANGED vars
  BY <1>9 DEF vars, MessageInv, TypeOK
<1> QED BY <1>1, <1>2, <1>3, <1>4, <1>5, <1>6, <1>7, <1>8, <1>9 DEF Next

LEMMA MessageInvariant == Spec => []MessageInv
BY InitMessage, NextKeeps, PTL DEF Spec

-----------------------------------------------------------------------------
(* Theorems *)

(* Whatever messages are sent, cut short or damaged, each field of both objects
   holds a value that was set for this field (zperf_msg_recv, zperf_msg_send). *)
THEOREM CodecTypeOK == Spec => []TypeOK
<1>1. MessageInv => TypeOK
  BY DEF MessageInv
<1> QED BY <1>1, MessageInvariant, PTL

(* zperf_msg_send allocates a frame for what it puts in it, an INFO with the
   endpoints of the one before apart. *)
THEOREM FramesHoldTheirFields == Spec => []FrameHoldsItsFields
<1>1. MessageInv => FrameHoldsItsFields
  <2> SUFFICES ASSUME MessageInv, wire # None, wire.state = "whole"
               PROVE  wire.size = Used(wire.items)
                        + (IF wire.of.id = "INFO" /\ wire.of.endpoints = None
                           THEN wire.of.ebytes ELSE 0)
    BY DEF FrameHoldsItsFields
  <2>1. IsMessage(wire.of)
    BY WholeItems
  <2>2. PICK order \in Orders(wire.of) :
          wire.items = PutMessage(wire.of, order) /\ wire.size = FrameSize(wire.of)
    BY WholeItems
  <2>3. Spelled(wire.items, wire.of, order)
    BY <2>1, <2>2, PutSpells
  <2>4. FrameSize(wire.of) = Used(wire.items)
          + (IF wire.of.id = "INFO" /\ wire.of.endpoints = None
             THEN wire.of.ebytes ELSE 0)
    BY <2>1, <2>3, SizeOf
  <2> QED BY <2>2, <2>4
<1> QED BY <1>1, MessageInvariant, PTL

(* Only zperf_msg_recv empties the connection. *)
LEMMA OnlyRecvTakes ==
  ASSUME MessageInv, [Next]_vars, wire # None, wire.state # "headless",
         wire' = None
  PROVE  Recv
<1>1. ~SendNew /\ ~SendAgain
  BY DEF SendNew, SendAgain, Send
<1>2. ~TakeEndpoints /\ ~Interrupted /\ ~RecvHeadless /\ ~UNCHANGED vars
  <2>1. wire' # [wire EXCEPT !.state = "headless"]
    <3>1. [wire EXCEPT !.state = "headless"] \in Frame
      BY DEF MessageInv, TypeOK, Frame
    <3> QED BY <3>1, MessageConstants
  <2> QED BY <2>1 DEF TakeEndpoints, Interrupted, RecvHeadless, vars
<1>3. ~Cut /\ ~Damage
  BY CutKeeps, DamageKeeps
<1> QED BY <1>1, <1>2, <1>3 DEF Next

(* zperf_msg_recv makes of a frame that arrives as it was sent the message that
   zperf_msg_send put in it, and touches no other field. *)
THEOREM WholeFramesArrive == Spec => WholeFrameIsTheMessage
<1> DEFINE of == wire.of
<1>1. MessageInv /\ [Next]_vars => [Arrives("whole") => GotTheMessage]_vars
  <2> SUFFICES ASSUME MessageInv, [Next]_vars, Arrives("whole")
               PROVE  /\ rc' = 0
                      /\ peer'.id = of.id /\ peer'.routing = Sender
                      /\ \A f \in Fields : peer'.val[f] =
                           IF Contains(Grammar(of.id), f) THEN of.val[f]
                           ELSE peer.val[f]
                      /\ IF of.id = "INFO" THEN AllOf(peer'.endpoints, Entries(of))
                         ELSE peer'.endpoints = peer.endpoints
    BY DEF GotTheMessage
  <2>1. wire # None /\ wire.state = "whole" /\ Recv
    BY OnlyRecvTakes DEF Arrives
  <2>2. IsMessage(of) /\ of.id \in Ids
    BY <2>1, WholeItems
  <2> DEFINE n == Len(Grammar(of.id))  N == Len(wire.items)
             got == IF N - 2 < n THEN N - 2 ELSE n
  <2>3. PICK order \in Orders(of) :
          /\ wire.items = PutMessage(of, order) /\ wire.items \in Seq(ItemOf)
          /\ N = 2 + n + (IF of.id = "INFO" THEN 1 + Len(order) ELSE 0)
    BY <2>1, WholeItems
  <2>4. n \in Nat /\ Len(order) \in Nat
    <3>1. Grammar(of.id) \in Seq(Fields)
      BY Tables
    <3> QED BY <2>2, <3>1, OrderOf
  <2>5. /\ rc' = 0 /\ peer'.routing = Sender
        /\ 2 <= N =>
             /\ peer'.id = of.id
             /\ \A f \in Fields : peer'.val[f] =
                  IF f \in FirstFields(of.id, got) THEN of.val[f] ELSE peer.val[f]
             /\ IF of.id = "INFO" /\ n < N - 2
                THEN AllOf(peer'.endpoints, Entries(of))
                ELSE peer'.endpoints = peer.endpoints
    <3>1. N <= N /\ N = Len(PutMessage(of, order))
      BY <2>3
    <3> QED BY <2>1, <2>2, <2>3, <3>1, RecvOfPart
  <2> HIDE DEF n, N
  <2>6. 2 <= N /\ got = n /\ n \in 0..n /\ (of.id = "INFO" => n < N - 2)
    <3>1. CASE of.id = "INFO"
      BY <2>3, <2>4, <3>1
    <3>2. CASE of.id # "INFO"
      BY <2>3, <2>4, <3>2
    <3> QED BY <3>1, <3>2
  <2>7. \A f : Contains(Grammar(of.id), f) <=> f \in FirstFields(of.id, got)
    BY <2>6, Containing DEF n
  <2> HIDE DEF got
  <2> QED BY <2>5, <2>6, <2>7
<1> QED BY <1>1, MessageInvariant, PTL DEF Spec, WholeFrameIsTheMessage

(* A frame that ends early is a prefix of the message to zperf_msg_recv: the
   object has the first of its fields, and the others of the messages before. *)
THEOREM CutFramesArePrefixes == Spec => CutFrameIsAPrefix
<1> DEFINE of == wire.of
           fields == Grammar(of.id)
           Until(n) == \A f \in Fields : peer'.val[f] =
             IF Contains(SubSeq(fields, 1, n), f) THEN of.val[f] ELSE peer.val[f]
<1>1. MessageInv /\ [Next]_vars => [Arrives("cut") => GotAPrefix]_vars
  <2> SUFFICES ASSUME MessageInv, [Next]_vars, Arrives("cut")
               PROVE  /\ peer'.id = IF Len(wire.items) < 2 THEN peer.id ELSE of.id
                      /\ \E n \in 0..Len(fields) :
                           /\ Until(n)
                           /\ \/ n = Len(fields) \/ n = Len(wire.items) - 2
                              \/ Len(wire.items) < 2
                           /\ \/ peer'.endpoints = peer.endpoints
                              \/ /\ n = Len(fields)
                                 /\ PartOf(peer'.endpoints, Entries(of))
    BY DEF GotAPrefix
  <2>1. wire # None /\ wire.state = "cut" /\ Recv
    BY OnlyRecvTakes DEF Arrives
  <2>2. IsMessage(of) /\ of.id \in Ids
    BY <2>1, CutItems
  <2> DEFINE n == Len(fields)  N == Len(wire.items)
             got == IF N - 2 < n THEN N - 2 ELSE n
  <2>3. PICK order \in Orders(of) :
          LET s == PutMessage(of, order) IN
          /\ wire.items \in Seq(ItemOf) /\ N <= Len(s)
          /\ \A i \in 1..N : wire.items[i] = s[i]
    BY <2>1, CutItems
  <2>4. n \in Nat /\ N \in Nat
    <3>1. fields \in Seq(Fields)
      BY Tables
    <3> QED BY <2>3, <3>1
  <2>5. /\ N < 2 => /\ peer'.id = peer.id /\ peer'.val = peer.val
                    /\ peer'.endpoints = peer.endpoints
        /\ 2 <= N =>
             /\ peer'.id = of.id
             /\ \A f \in Fields : peer'.val[f] =
                  IF f \in FirstFields(of.id, got) THEN of.val[f] ELSE peer.val[f]
             /\ \/ n < N - 2 /\ PartOf(peer'.endpoints, Entries(of))
                \/ peer'.endpoints = peer.endpoints
    BY <2>1, <2>2, <2>3, RecvOfPart
  <2>6. \A k \in 0..n : \A f :
          Contains(SubSeq(fields, 1, k), f) <=> f \in FirstFields(of.id, k)
    BY Containing
  <2>7. CASE N < 2
    <3>1. FirstFields(of.id, 0) = {} /\ 0 \in 0..n
      BY <2>4 DEF FirstFields
    <3>2. Until(0)
      BY <2>5, <2>6, <2>7, <3>1
    <3> QED BY <2>4, <2>5, <2>7, <3>1, <3>2
  <2>8. CASE 2 <= N
    <3>1. got \in 0..n /\ (got = n \/ got = N - 2) /\ (n < N - 2 => got = n)
      BY <2>4, <2>8
    <3>2. Until(got)
      BY <2>5, <2>6, <2>8, <3>1
    <3>3. ~(N < 2)
      BY <2>4, <2>8
    <3> HIDE DEF got, n, N, Until
    <3> QED BY <2>5, <2>8, <3>1, <3>2, <3>3 DEF n, N
  <2> QED BY <2>4, <2>7, <2>8
<1> QED BY <1>1, MessageInvariant, PTL DEF Spec, CutFrameIsAPrefix

(* zperf_msg_dup, and zperf_msg_new_zpl of zperf_msg_zpl, make an object that
   sends the frame the first would send, addresses as keys apart. *)
THEOREM CopiesSendTheSameFrame == Spec => []CopiesSendTheSame
<1>1. MessageInv => CopiesSendTheSame
  <2> SUFFICES ASSUME MessageInv, peer.id \in Ids
               PROVE  LET copy == Dup(peer)  back == NewZpl(Zpl(peer)) IN
                      /\ copy.routing = peer.routing
                      /\ \A order \in Orders(peer) :
                           PutMessage(copy, order) = PutMessage(peer, order)
                      /\ back # None /\ back.routing = peer.routing
                      /\ \/ /\ peer.id = "INFO"
                            /\ DOMAIN Entries(peer) \cap PathKeys # {}
                         \/ \A order \in Orders(peer) :
                              PutMessage(back, order) = PutMessage(peer, order)
    BY DEF CopiesSendTheSame
  <2> DEFINE copy == Dup(peer)  back == NewZpl(Zpl(peer))
             sized == Sized(peer.id)
             val == [f \in Fields |-> IF f \in sized THEN peer.val[f] ELSE New.val[f]]
             hash == IF peer.id = "INFO" /\ peer.endpoints # None
                     THEN ZplHash(peer.endpoints) ELSE None
  <2>1. IsMessage(peer)
    BY DEF MessageInv, TypeOK
  <2>2. /\ copy.id = peer.id /\ copy.routing = peer.routing
        /\ copy.val = peer.val /\ copy.endpoints = peer.endpoints
    BY DEF Dup, New
  <2>3. \A order : PutMessage(copy, order) = PutMessage(peer, order)
    BY <2>2, Zenon DEF PutMessage
  <2>4. /\ ZplPut(peer.id) = sized /\ ZplWanted(peer.id) = sized
        /\ PutOrder(peer.id) = Grammar(peer.id) /\ Grammar(peer.id) \in Seq(Fields)
        /\ sized = {Grammar(peer.id)[i] : i \in DOMAIN Grammar(peer.id)}
    BY Tables
  <2> HIDE DEF sized
  <2>5. sized \subseteq Fields
    BY <2>4
  <2>6. back = [New EXCEPT !.id = peer.id, !.routing = peer.routing,
                           !.val = val, !.endpoints = hash]
    <3> DEFINE config == Zpl(peer)
    <3>1. /\ config.message = peer.id /\ config.routing = peer.routing
          /\ config.content = [f \in sized |-> peer.val[f]]
          /\ config.endpoints = hash
      BY <2>4 DEF Zpl
    <3> HIDE DEF config
    <3>2. back = [New EXCEPT
                    !.id = config.message, !.routing = config.routing,
                    !.val = [f \in Fields |->
                      IF f \in ZplWanted(config.message) THEN config.content[f]
                      ELSE New.val[f]],
                    !.endpoints = config.endpoints]
      BY <2>4, <3>1 DEF NewZpl, config
    <3>3. [f \in Fields |-> IF f \in ZplWanted(config.message)
                            THEN config.content[f] ELSE New.val[f]] = val
      BY <2>4, <3>1
    <3> QED BY <3>1, <3>2, <3>3
  <2>7. val \in [Fields -> Value] /\ \A f \in sized : val[f] = peer.val[f]
    <3>1. \A f \in Fields : New.val[f] \in Value
      BY DEF New, Value, Values
    <3> QED BY <2>1, <2>5, <3>1, MessageParts
  <2>8. hash \in HashOver(Keys \cup {Scheme}) \cup {None}
    <3> SUFFICES ASSUME peer.endpoints # None
                 PROVE  ZplHash(peer.endpoints) \in HashOver(Keys \cup {Scheme})
      OBVIOUS
    <3> DEFINE h == peer.endpoints  D == DOMAIN h
    <3>1. D \subseteq Keys /\ h \in [D -> Values("address")]
      BY <2>1, MessageParts DEF HashOver
    <3>2. \A k \in D : Segment(k) \in Keys \cup {Scheme}
                       /\ (Segment(k) # Scheme => Segment(k) = k)
      BY <3>1 DEF Segment
    <3>3. <<"address", 0>> \in Values("address")
      BY DEF Values
    <3> HIDE DEF h
    <3>4. ZplHash(h) \in [{Segment(k) : k \in D} -> Values("address")]
      BY <3>1, <3>2, <3>3 DEF ZplHash
    <3>5. {Segment(k) : k \in D} \in SUBSET (Keys \cup {Scheme})
      BY <3>2
    <3> QED BY <3>4, <3>5 DEF HashOver, h
  <2> HIDE DEF val, hash
  <2>9. /\ back.id = peer.id /\ back.routing = peer.routing
        /\ back.val = val /\ back.endpoints = hash
        /\ back \in ObjectOver(Keys \cup {Scheme})
    <3>1. peer.id \in Ids \cup {"none"} /\ peer.routing \in {None, Sender, "rest"}
      BY <2>1, MessageParts
    <3>2. back = [id |-> peer.id, routing |-> peer.routing, val |-> val,
                  endpoints |-> hash, ebytes |-> 0]
      BY <2>6 DEF New
    <3> HIDE DEF back
    <3>3. back \in ObjectOver(Keys \cup {Scheme})
      BY <2>7, <2>8, <3>1, <3>2 DEF ObjectOver
    <3> QED BY <3>2, <3>3
  <2>10. back # None
    BY <2>9
  <2>11. ASSUME ~(peer.id = "INFO" /\ DOMAIN Entries(peer) \cap PathKeys # {}),
                NEW order \in Orders(peer)
         PROVE  PutMessage(back, order) = PutMessage(peer, order)
    <3> DEFINE g == Grammar(peer.id)
               Fielded(v) == [i \in DOMAIN g |-> Item(Octets(g[i], v[g[i]]), v[g[i]])]
               Hashed(h) == IF peer.id = "INFO" THEN PutHash(h, order) ELSE <<>>
               head == <<Item(2, <<"signature", TRUE>>), Item(1, <<"id", peer.id>>)>>
    <3>1. /\ PutMessage(back, order) = head \o Fielded(val) \o Hashed(hash)
          /\ PutMessage(peer, order) = head \o Fielded(peer.val) \o Hashed(peer.endpoints)
      BY <2>4, <2>9, Zenon DEF PutMessage
    <3>2. Fielded(val) = Fielded(peer.val)
      BY <2>4, <2>7
    <3>3. peer.id = "INFO" => hash = peer.endpoints
      <4> SUFFICES ASSUME peer.id = "INFO", peer.endpoints # None
                   PROVE  ZplHash(peer.endpoints) = peer.endpoints
        BY DEF hash
      <4> DEFINE h == peer.endpoints  D == DOMAIN h
      <4>1. D \subseteq Keys /\ h \in [D -> Values("address")]
        BY <2>1, MessageParts DEF HashOver
      <4>2. \A k \in D : Segment(k) = k /\ k # Scheme
        BY <2>11, <4>1 DEF Entries, Segment
      <4> HIDE DEF h
      <4>3. {Segment(k) : k \in D} = D
        BY <4>2
      <4> QED BY <4>1, <4>2, <4>3 DEF ZplHash, h
    <3> HIDE DEF Fielded, Hashed, head
    <3>4. Hashed(hash) = Hashed(peer.endpoints)
      BY <3>3, Zenon DEF Hashed
    <3> QED BY <3>1, <3>2, <3>4, Zenon
  <2> HIDE DEF copy, back
  <2>12. /\ copy.routing = peer.routing
         /\ \A order \in Orders(peer) :
              PutMessage(copy, order) = PutMessage(peer, order)
         /\ back # None /\ back.routing = peer.routing
         /\ \/ /\ peer.id = "INFO"
               /\ DOMAIN Entries(peer) \cap PathKeys # {}
            \/ \A order \in Orders(peer) :
                 PutMessage(back, order) = PutMessage(peer, order)
    BY <2>2, <2>3, <2>9, <2>10, <2>11
  <2> QED BY <2>12 DEF copy, back
<1> QED BY <1>1, MessageInvariant, PTL
=============================================================================
