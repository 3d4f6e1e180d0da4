-------------------------- MODULE PerfClientProofs --------------------------
(***************************************************************************)
(* Theorems about PerfClient: its types, here, then its safety properties, *)
(* for any bounds and any capacity of the message pipe.                    *)
(*                                                                         *)
(* TypeOK is split into parts, each kept by every action; Typed is all of  *)
(* it but the bound of due.  The lemmas before it say how often a message  *)
(* is on a pipe, whatever is written to it and read.                       *)
(***************************************************************************)
EXTENDS PerfClient, TLAPS, SequenceTheorems, FiniteSetTheorems,
        FunctionTheorems

(* The places of a message in a pipe. *)
At(s, m) == {i \in DOMAIN s : s[i] = m}

(* A message is at finitely many places of a pipe. *)
LEMMA AtFinite ==
  ASSUME NEW S, NEW s \in Seq(S), NEW m
  PROVE  /\ IsFiniteSet(At(s, m))
         /\ Cardinality(At(s, m)) \in Nat
         /\ Count(s, m) = Cardinality(At(s, m))
<1>1. At(s, m) \in SUBSET (1..Len(s)) /\ Len(s) \in Nat
  BY DEF At
<1>2. IsFiniteSet(1..Len(s))
  BY <1>1, FS_Interval
<1>3. IsFiniteSet(At(s, m))
  BY <1>1, <1>2, FS_Subset
<1> QED BY <1>3, FS_CardinalityType DEF At, Count

(* A count is a number, and zero when there is nothing to count. *)
LEMMA CountType ==
  ASSUME NEW S, NEW s \in Seq(S), NEW m
  PROVE  /\ Count(s, m) \in Nat
         /\ Count(s, m) = 0 <=> \A i \in DOMAIN s : s[i] # m
<1>1. Count(s, m) = 0 <=> At(s, m) = {}
  BY AtFinite, FS_EmptySet
<1> QED BY <1>1, AtFinite DEF At

(* An empty pipe holds none of any message. *)
LEMMA CountEmpty == \A m : Count(<<>>, m) = 0
<1> TAKE m
<1>1. {i \in DOMAIN <<>> : <<>>[i] = m} = {}
  OBVIOUS
<1> QED BY <1>1, FS_EmptySet DEF Count

(* Writing a message adds one of it, and none of any other. *)
LEMMA CountAppend ==
  ASSUME NEW S, NEW s \in Seq(S), NEW x \in S, NEW m
  PROVE  Count(Append(s, x), m) = Count(s, m) + (IF x = m THEN 1 ELSE 0)
<1>1. At(Append(s, x), m) = IF x = m THEN At(s, m) \cup {Len(s) + 1} ELSE At(s, m)
  BY DEF At
<1>2. Append(s, x) \in Seq(S) /\ Len(s) + 1 \notin At(s, m)
  BY DEF At
<1>3. /\ Count(Append(s, x), m) = Cardinality(At(Append(s, x), m))
      /\ Count(s, m) = Cardinality(At(s, m))
      /\ Count(s, m) \in Nat
  BY <1>2, AtFinite
<1>4. Cardinality(At(s, m) \cup {Len(s) + 1}) = Cardinality(At(s, m)) + 1
  BY <1>2, AtFinite, FS_AddElement
<1> QED BY <1>1, <1>3, <1>4

(* Reading takes one of the message at the head, and none of any other. *)
LEMMA CountTail ==
  ASSUME NEW S, NEW s \in Seq(S), s # <<>>, NEW m
  PROVE  Count(s, m) = Count(Tail(s), m) + (IF Head(s) = m THEN 1 ELSE 0)
<1> DEFINE up1 == {i + 1 : i \in At(Tail(s), m)}
           f == [i \in At(Tail(s), m) |-> i + 1]
<1>0. /\ Tail(s) \in Seq(S) /\ Len(s) \in Nat /\ Len(s) > 0
      /\ Len(Tail(s)) = Len(s) - 1
      /\ \A i \in 1..Len(Tail(s)) : Tail(s)[i] = s[i + 1]
      /\ Head(s) = s[1]
  OBVIOUS
<1>1. f \in Bijection(At(Tail(s), m), up1)
  <2>1. f \in [At(Tail(s), m) -> up1]
    OBVIOUS
  <2>2. \A a, b \in At(Tail(s), m) : f[a] = f[b] => a = b
    BY <1>0 DEF At
  <2>3. \A u \in up1 : \E a \in At(Tail(s), m) : f[a] = u
    OBVIOUS
  <2> HIDE DEF f, up1
  <2> QED BY <2>1, <2>2, <2>3, Fun_IsBij
<1>2. IsFiniteSet(up1) /\ Cardinality(up1) = Cardinality(At(Tail(s), m))
  <2> HIDE DEF f, up1
  <2> QED BY <1>0, <1>1, AtFinite, FS_Bijection DEF ExistsBijection
<1>3. At(s, m) = IF Head(s) = m THEN up1 \cup {1} ELSE up1
  <2>1. ASSUME NEW i \in At(s, m), i # 1 PROVE i \in up1
    <3>1. i - 1 \in At(Tail(s), m)
      BY <1>0, <2>1 DEF At
    <3> QED BY <3>1, <1>0 DEF At
  <2>2. \A i \in up1 : i \in At(s, m)
    BY <1>0 DEF At
  <2>3. 1 \in At(s, m) <=> Head(s) = m
    BY <1>0 DEF At
  <2> HIDE DEF up1
  <2>4. CASE Head(s) = m
    BY <2>1, <2>2, <2>3, <2>4
  <2>5. CASE Head(s) # m
    BY <2>1, <2>2, <2>3, <2>5
  <2> QED BY <2>4, <2>5
<1>4. 1 \notin up1
  BY <1>0 DEF At
<1>5. /\ Count(s, m) = Cardinality(At(s, m))
      /\ Count(Tail(s), m) = Cardinality(At(Tail(s), m))
      /\ Count(Tail(s), m) \in Nat
  BY <1>0, AtFinite
<1>6. Cardinality(up1 \cup {1}) = Cardinality(up1) + 1
  <2> HIDE DEF up1, f
  <2> QED BY <1>2, <1>4, FS_AddElement
<1> HIDE DEF up1, f
<1> QED BY <1>2, <1>3, <1>5, <1>6

(* What writing to a pipe and reading it do to its length, its head and its
   counts. *)
Sums(S, s) ==
  /\ Len(s) \in Nat /\ (s = <<>> <=> Len(s) = 0)
  /\ \A m : Count(s, m) \in Nat /\ Count(s, m) <= Len(s)
  /\ \A x \in S :
       /\ Len(Append(s, x)) = Len(s) + 1
       /\ Append(s, x) # <<>>
       /\ Head(Append(s, x)) = IF s = <<>> THEN x ELSE Head(s)
       /\ Count(Append(s, x), x) = Count(s, x) + 1
       /\ \A m : m # x => Count(Append(s, x), m) = Count(s, m)
  /\ s # <<>> =>
       /\ Len(s) = Len(Tail(s)) + 1
       /\ Count(s, Head(s)) = Count(Tail(s), Head(s)) + 1
       /\ \A m : m # Head(s) => Count(s, m) = Count(Tail(s), m)

(* Every pipe has these sums. *)
LEMMA PipeCounts ==
  ASSUME NEW S, NEW s \in Seq(S)
  PROVE  Sums(S, s)
<1>1. \A m : Count(s, m) \in Nat /\ Count(s, m) <= Len(s)
  <2> TAKE m
  <2>1. At(s, m) \in SUBSET (1..Len(s)) /\ Len(s) \in Nat
    BY DEF At
  <2>2. IsFiniteSet(1..Len(s)) /\ Cardinality(1..Len(s)) = Len(s)
    <3> DEFINE n == Len(s)
    <3> HIDE DEF n
    <3>1. n \in Nat => IsFiniteSet(1..n) /\ Cardinality(1..n) = n
      BY FS_Interval
    <3> QED BY <2>1, <3>1 DEF n
  <2>3. Cardinality(At(s, m)) <= Cardinality(1..Len(s))
    BY <2>1, <2>2, FS_Subset
  <2> QED BY <2>2, <2>3, AtFinite
<1>2. Len(s) \in Nat /\ (s = <<>> <=> Len(s) = 0)
  OBVIOUS
<1>3. ASSUME NEW x \in S
      PROVE  /\ Len(Append(s, x)) = Len(s) + 1
             /\ Append(s, x) # <<>>
             /\ Head(Append(s, x)) = IF s = <<>> THEN x ELSE Head(s)
             /\ Count(Append(s, x), x) = Count(s, x) + 1
             /\ \A m : m # x => Count(Append(s, x), m) = Count(s, m)
  <2>1. /\ Append(s, x) \in Seq(S) /\ Len(Append(s, x)) = Len(s) + 1
        /\ \A k \in 1..Len(s) : Append(s, x)[k] = s[k]
        /\ Append(s, x)[Len(s) + 1] = x
    BY AppendProperties
  <2>2. Append(s, x) # <<>>
    BY <1>2, <2>1
  <2>3. Head(Append(s, x)) = IF s = <<>> THEN x ELSE Head(s)
    <3>1. Head(Append(s, x)) = Append(s, x)[1] /\ Head(s) = s[1]
      OBVIOUS
    <3>2. CASE s = <<>>
      BY <1>2, <2>1, <3>1, <3>2
    <3>3. CASE s # <<>>
      <4>1. 1 \in 1..Len(s)
        BY <1>2, <3>3
      <4>2. Append(s, x)[1] = s[1]
        BY <2>1, <4>1
      <4> QED BY <3>1, <3>3, <4>2
    <3> QED BY <3>2, <3>3
  <2>4. Count(Append(s, x), x) = Count(s, x) + 1
    BY CountAppend
  <2>5. ASSUME NEW m, m # x PROVE Count(Append(s, x), m) = Count(s, m)
    BY <2>5, <1>1, CountAppend
  <2> QED BY <2>1, <2>2, <2>3, <2>4, <2>5
<1>4. ASSUME s # <<>>
      PROVE  /\ Len(s) = Len(Tail(s)) + 1
             /\ Count(s, Head(s)) = Count(Tail(s), Head(s)) + 1
             /\ \A m : m # Head(s) => Count(s, m) = Count(Tail(s), m)
  <2>1. Tail(s) \in Seq(S) /\ Len(s) = Len(Tail(s)) + 1
    BY <1>4, HeadTailProperties
  <2>2. \A m : Count(Tail(s), m) \in Nat
    BY <2>1, CountType
  <2> QED BY <1>4, <2>1, <2>2, CountTail
<1>5. \A x \in S :
        /\ Len(Append(s, x)) = Len(s) + 1
        /\ Append(s, x) # <<>>
        /\ Head(Append(s, x)) = IF s = <<>> THEN x ELSE Head(s)
        /\ Count(Append(s, x), x) = Count(s, x) + 1
        /\ \A m : m # x => Count(Append(s, x), m) = Count(s, m)
  <2> TAKE x \in S
  <2> QED BY <1>3, Zenon
<1> QED BY <1>1, <1>2, <1>4, <1>5, Zenon DEF Sums

(* The same for what is on a pipe at all. *)
Marks(S, s) ==
  /\ \A m : Count(s, m) # 0 => s # <<>>
  /\ \A x \in S : \A m :
       Count(Append(s, x), m) # 0 => m = x \/ Count(s, m) # 0
  /\ \A x \in S : Count(s, x) = 0 => Count(Append(s, x), x) <= 1
  /\ s # <<>> =>
       /\ Count(s, Head(s)) # 0
       /\ Count(s, Head(s)) <= 1 => Count(Tail(s), Head(s)) = 0
       /\ \A m : Count(Tail(s), m) # 0 => Count(s, m) # 0
       /\ \A m : Count(s, m) <= 1 => Count(Tail(s), m) <= 1

(* Every pipe has these marks. *)
LEMMA PipeMarks ==
  ASSUME NEW S, NEW s \in Seq(S)
  PROVE  Marks(S, s)
<1>1. /\ \A m : Count(s, m) \in Nat /\ Count(s, m) <= Len(s)
      /\ Len(s) \in Nat /\ (s = <<>> <=> Len(s) = 0)
  BY PipeCounts DEF Sums
<1>2. \A m : Count(s, m) # 0 => s # <<>>
  BY <1>1
<1>3. ASSUME NEW x \in S
      PROVE  /\ \A m : Count(Append(s, x), m) # 0 => m = x \/ Count(s, m) # 0
             /\ Count(s, x) = 0 => Count(Append(s, x), x) <= 1
  <2>1. /\ Count(Append(s, x), x) = Count(s, x) + 1
        /\ \A m : m # x => Count(Append(s, x), m) = Count(s, m)
    BY PipeCounts DEF Sums
  <2> QED BY <1>1, <2>1
<1>4. ASSUME s # <<>>
      PROVE  /\ Count(s, Head(s)) # 0
             /\ Count(s, Head(s)) <= 1 => Count(Tail(s), Head(s)) = 0
             /\ \A m : Count(Tail(s), m) # 0 => Count(s, m) # 0
             /\ \A m : Count(s, m) <= 1 => Count(Tail(s), m) <= 1
  <2>1. /\ Count(s, Head(s)) = Count(Tail(s), Head(s)) + 1
        /\ \A m : m # Head(s) => Count(s, m) = Count(Tail(s), m)
    BY <1>4, PipeCounts DEF Sums
  <2>2. \A m : Count(Tail(s), m) \in Nat
    BY <1>4, HeadTailProperties, CountType
  <2> DEFINE h == Head(s)
             t == Tail(s)
  <2> HIDE DEF h, t
  <2>3. /\ Count(s, h) = Count(t, h) + 1
        /\ \A m : m # h => Count(s, m) = Count(t, m)
        /\ \A m : Count(t, m) \in Nat
    BY <2>1, <2>2 DEF h, t
  <2>4. /\ Count(s, h) # 0
        /\ Count(s, h) <= 1 => Count(t, h) = 0
        /\ \A m : Count(t, m) # 0 => Count(s, m) # 0
        /\ \A m : Count(s, m) <= 1 => Count(t, m) <= 1
    BY <1>1, <2>3
  <2> QED BY <2>4 DEF h, t
<1> QED BY <1>2, <1>3, <1>4 DEF Marks

(* Nothing is added to a pipe that loses its end or its beginning. *)
LEMMA CountPart ==
  ASSUME NEW S, NEW s \in Seq(S), NEW i \in 1..Len(s) + 1, NEW j \in 0..Len(s),
         NEW m
  PROVE  /\ Count(SubSeq(s, i, Len(s)), m) <= Count(s, m)
         /\ Count(SubSeq(s, 1, j), m) <= Count(s, m)
<1>1. ASSUME NEW a \in 1..Len(s) + 1, NEW b \in 0..Len(s)
      PROVE  Count(SubSeq(s, a, b), m) <= Count(s, m)
  <2> DEFINE t == SubSeq(s, a, b)
             f == [k \in At(t, m) |-> k + a - 1]
  <2>1. t \in Seq(S) /\ Len(t) = IF a <= b THEN b - a + 1 ELSE 0
    BY SubSeqProperties
  <2>2. \A k \in 1..Len(t) : t[k] = s[k + a - 1] /\ k + a - 1 \in 1..Len(s)
    BY <2>1, SubSeqProperties
  <2> HIDE DEF t
  <2>3. \A k \in At(t, m) : k \in Int /\ k + a - 1 \in At(s, m)
    BY <2>1, <2>2 DEF At
  <2>4. f \in Injection(At(t, m), At(s, m))
    <3>1. f \in [At(t, m) -> At(s, m)]
      BY <2>3
    <3>2. \A k, l \in At(t, m) : f[k] = f[l] => k = l
      BY <2>3
    <3> HIDE DEF f
    <3> QED BY <3>1, <3>2, Fun_IsInj
  <2>5. Cardinality(At(t, m)) <= Cardinality(At(s, m))
    BY <2>1, <2>4, AtFinite, FS_Injection DEF ExistsInjection
  <2> QED BY <2>1, <2>5, AtFinite DEF t
<1> QED BY <1>1

(* What writing and reading do to a pipe that holds one of a kind at most. *)
Ones(S, s) ==
  /\ \A x \in S : Count(s, x) = 0 => Count(Append(s, x), x) = 1
  /\ \A x \in S : \A m : m # x => Count(Append(s, x), m) = Count(s, m)
  /\ \A x \in S : s = <<>> => /\ Len(Append(s, x)) = 1
                           /\ Head(Append(s, x)) = x
  /\ s # <<>> =>
       /\ Len(s) # 0
       /\ Len(s) = 1 => Tail(s) = <<>>
       /\ Count(s, Head(s)) # 0
       /\ Count(s, Head(s)) = 1 => Count(Tail(s), Head(s)) = 0
       /\ \A m : m # Head(s) => Count(Tail(s), m) = Count(s, m)
  /\ s = <<>> => Len(s) = 0

(* Every pipe has these. *)
LEMMA PipeOnes ==
  ASSUME NEW S, NEW s \in Seq(S)
  PROVE  Ones(S, s)
<1>1. Sums(S, s)
  BY PipeCounts
<1>2. \A x \in S : Count(s, x) = 0 => Count(Append(s, x), x) = 1
  BY <1>1 DEF Sums
<1>3. \A x \in S : \A m : m # x => Count(Append(s, x), m) = Count(s, m)
  BY <1>1 DEF Sums
<1>4. ASSUME NEW x \in S, s = <<>>
      PROVE  Len(Append(s, x)) = 1 /\ Head(Append(s, x)) = x
  BY <1>1, <1>4 DEF Sums
<1>5. ASSUME s # <<>>
      PROVE  /\ Len(s) # 0
             /\ Len(s) = 1 => Tail(s) = <<>>
             /\ Count(s, Head(s)) # 0
             /\ Count(s, Head(s)) = 1 => Count(Tail(s), Head(s)) = 0
             /\ \A m : m # Head(s) => Count(Tail(s), m) = Count(s, m)
  <2>1. /\ Tail(s) \in Seq(S) /\ Len(s) = Len(Tail(s)) + 1
        /\ Len(Tail(s)) \in Nat
        /\ Tail(s) = <<>> <=> Len(Tail(s)) = 0
    <3>1. Tail(s) \in Seq(S)
      BY <1>5, HeadTailProperties
    <3> QED BY <1>1, <1>5, <3>1, PipeCounts DEF Sums
  <2>5. /\ Count(s, Head(s)) # 0
        /\ Count(s, Head(s)) = 1 => Count(Tail(s), Head(s)) = 0
    <3>1. /\ Count(s, Head(s)) # 0
          /\ Count(s, Head(s)) <= 1 => Count(Tail(s), Head(s)) = 0
      BY <1>5, PipeMarks, Zenon DEF Marks
    <3>2. Count(s, Head(s)) = 1 => Count(s, Head(s)) <= 1
      OBVIOUS
    <3> QED BY <3>1, <3>2
  <2>6. Len(s) = 1 => Tail(s) = <<>>
    <3> DEFINE l == Len(s)
               k == Len(Tail(s))
    <3>1. l = k + 1 /\ k \in Nat /\ (Tail(s) = <<>> <=> k = 0)
      BY <2>1
    <3> HIDE DEF l, k
    <3>2. l = 1 => k = 0
      BY <3>1
    <3> QED BY <3>1, <3>2 DEF l
  <2>7. \A m : m # Head(s) => Count(Tail(s), m) = Count(s, m)
    BY <1>1, <1>5 DEF Sums
  <2> QED BY <1>1, <1>5, <2>5, <2>6, <2>7 DEF Sums
<1>6. s = <<>> => Len(s) = 0
  BY <1>1 DEF Sums
<1> QED BY <1>2, <1>3, <1>4, <1>5, <1>6 DEF Ones

-----------------------------------------------------------------------------

USE ClientConstants

(* TypeOK in parts: what the provers find at once when asked for each. *)
Flags ==
  /\ connected \in BOOLEAN /\ ticking \in BOOLEAN /\ timeout \in BOOLEAN
  /\ tainted \in BOOLEAN /\ astray \in BOOLEAN /\ misled \in BOOLEAN
  /\ flush \in BOOLEAN

Names ==
  /\ actor \in {"running", "blocked", "failing", "stopped", "aborted", "ended"}
  /\ state \in States
  /\ call \in Calls \cup {"none"}
  /\ peer \in Server!Peers

Numbers ==
  /\ retries \in 0..3
  /\ owed \in [Server!Late -> Nat]
  /\ unread \in 0..MsgCap /\ due \in Nat
  /\ faults \in 0..MaxFaults

Pipes ==
  /\ cmds \in Seq(Calls) /\ replies \in Seq(Replies)
  /\ up \in Seq(Requests) /\ down \in Seq(Answers \cup Errors)

GivenUp == connected => retries < 3

Typed == Flags /\ Names /\ Numbers /\ Pipes /\ GivenUp

(* The parts are TypeOK but for the bound of due, which is no matter of one
   variable: OneLaunch has it. *)
LEMMA TypeParts == TypeOK <=> Typed /\ due <= MaxDue
BY DEF TypeOK, Typed, Flags, Names, Numbers, Pipes, GivenUp

(* The step of the server that a step of the composition may hold. *)
ServerStep ==
  \/ \E m \in Requests, r \in Answers \cup Errors \cup {"nothing"} :
       Server!Serve(m, r) \/ Server!Refuse(m, r) \/ Server!Reject(m, r)
  \/ \E k \in {"SOCKET_OK", "RESULT"} : Server!Answer(k)
  \/ \E r \in Answers \cup Errors : Server!Stray(r)
  \/ Server!Lose \/ Server!Forget \/ Server!Others \/ Server!Die \/ Server!Restart

(* What a server owes is a number of each late answer. *)
LEMMA OweTypes ==
  ASSUME NEW new \in [Server!Late -> Nat], Server!Owe(new)
  PROVE  owed' \in [Server!Late -> Nat]
<1>1. Server!Nothing \in [Server!Late -> Nat]
  BY DEF Server!Nothing
<1> QED BY <1>1 DEF Server!Owe

(* Each step of the server keeps the types of what it knows of the client. *)
LEMMA ServerTypes ==
  ASSUME Typed, ServerStep
  PROVE  /\ peer' \in Server!Peers
         /\ owed' \in [Server!Late -> Nat]
         /\ tainted' \in BOOLEAN
<1> DEFINE P == /\ peer' \in Server!Peers
                /\ owed' \in [Server!Late -> Nat]
                /\ tainted' \in BOOLEAN
<1>0. /\ owed \in [Server!Late -> Nat]
      /\ Server!Nothing \in [Server!Late -> Nat]
      /\ peer \in Server!Peers
      /\ tainted \in BOOLEAN
      /\ {"none", "connected", "have_perf", "down"} \subseteq Server!Peers
  BY DEF Typed, Flags, Names, Numbers, Server!Nothing, Server!Peers
<1>1. ASSUME NEW m \in Requests, NEW r, Server!Serve(m, r)
      PROVE  P
  <2>1. Server!Goes(m) \in Server!Peers
    BY <1>0 DEF Server!Goes, Requests
  <2>2. \A k \in Server!Late : [owed EXCEPT ![k] = @ + 1] \in [Server!Late -> Nat]
    BY <1>0
  <2>3. m \in DOMAIN Server!LateFor => Server!LateFor[m] \in Server!Late
    BY DEF Server!LateFor, Server!Late
  <2> HIDE DEF P
  <2>4. owed' \in [Server!Late -> Nat]
    BY <1>0, <1>1, <2>2, <2>3, OweTypes DEF Server!Serve
  <2> QED BY <1>0, <1>1, <2>1, <2>4 DEF Server!Serve, P
<1>2. ASSUME NEW m \in Requests, NEW r, Server!Refuse(m, r) \/ Server!Reject(m, r)
      PROVE  P
  BY <1>0, <1>2, OweTypes DEF Server!Refuse, Server!Reject, Server!Drop
<1>3. ASSUME NEW k \in Server!Late,
             Server!Answer(k) \/ Server!Lose
      PROVE  P
  <2>1. \A j \in Server!Late : owed[j] > 0 =>
          [owed EXCEPT ![j] = @ - 1] \in [Server!Late -> Nat]
    BY <1>0
  <2>2. "RESULT" \in Server!Late
    BY DEF Server!Late
  <2> QED BY <1>0, <1>3, <2>1, <2>2, OweTypes DEF Server!Answer, Server!Lose
<1>4. ASSUME NEW r, Server!Stray(r) \/ Server!Forget \/ Server!Others
      PROVE  P
  BY <1>0, <1>4, OweTypes
     DEF Server!Stray, Server!Drop, Server!Forget, Server!Others
<1>5. ASSUME Server!Die \/ Server!Restart
      PROVE  P
  BY <1>0, <1>5 DEF Server!Die, Server!Restart
<1> QED BY <1>1, <1>2, <1>3, <1>4, <1>5 DEF ServerStep, Server!Late

(* The server starts without the client, and nothing is on its way. *)
LEMMA TypeInit == Init => Typed
<1>1. "none" \in Server!Peers /\ "start" \in States
  BY DEF Server!Peers, States
<1>2. Init => Names
  BY <1>1 DEF Init, Names
<1>3. Init => Pipes
  <2>1. \A S : <<>> \in Seq(S)
    OBVIOUS
  <2> QED BY <2>1 DEF Init, Pipes
<1>4. Init => Numbers
  BY DEF Init, Numbers, Server!Nothing
<1>5. Init => Flags /\ GivenUp
  BY DEF Init, Flags, GivenUp
<1> QED BY <1>2, <1>3, <1>4, <1>5 DEF Typed

(* A step of the composition in which the server takes part is one of the
   server's. *)
Peer ==
  \/ PeerHandles
  \/ \E k \in DOMAIN owed : PeerAnswers(k)
  \/ PeerStrays
  \/ PerfGivesUp
  \/ PeerForgets
  \/ GoesAstray
  \/ PeerDies
  \/ PeerRestarts
  \/ OtherRejected

(* Every action of the client's server holds a step of ServerPeer. *)
LEMMA PeerSteps == Typed /\ Peer => ServerStep
<1> SUFFICES ASSUME Typed, Peer
             PROVE  ServerStep
  OBVIOUS
<1>1. CASE PeerHandles
  <2>1. Head(up) \in Requests
    BY <1>1, HeadTailProperties DEF PeerHandles, Typed, Pipes
  <2> QED BY <1>1, <2>1 DEF PeerHandles, Handles, ServerStep
<1>2. ASSUME NEW k \in DOMAIN owed, PeerAnswers(k)
      PROVE  ServerStep
  <2>1. k \in {"SOCKET_OK", "RESULT"}
    BY DEF Typed, Numbers, Server!Late
  <2> QED BY <1>2, <2>1 DEF PeerAnswers, ServerStep
<1>3. CASE PeerStrays
  BY <1>3 DEF PeerStrays, ServerStep
<1>4. CASE PerfGivesUp \/ PeerForgets \/ GoesAstray \/ PeerDies
           \/ PeerRestarts \/ OtherRejected
  BY <1>4 DEF PerfGivesUp, PeerForgets, GoesAstray, PeerDies, PeerRestarts,
     OtherRejected, ServerStep
<1> QED BY <1>1, <1>2, <1>3, <1>4 DEF Peer

(* Every action leaves the flags BOOLEAN. *)
LEMMA FlagsStep == Typed /\ [Next]_vars => Flags'
<1> SUFFICES ASSUME Flags, Typed, [Next]_vars
             PROVE  Flags'
  BY DEF Typed
<1> USE DEF client, net, server, caller, results, history, Flags
<1>1. ASSUME NEW c \in Methods, HandleMethod(c)
      PROVE  Flags'
  BY <1>1 DEF HandleMethod, SayHello, SendRequest, Misplaced, Swallow, Become,
              Request, Fail
<1>2. CASE HandleConnected \/ HandleTerm \/ HandleFlush
  BY <1>2 DEF HandleConnected, HandleTerm, HandleFlush
<1>3. CASE Expire
  BY <1>3 DEF Expire, Rearm
<1>4. CASE HandleProtocol
  BY <1>4 DEF HandleProtocol, HelloOk, PingOk, PerfOk, SocketOk, Result, Rejoin,
              UnhandledError, InternalError, Ignore, IsConnected, Fail
<1>5. CASE SignalReturns \/ ReadResult \/ Accept
  BY <1>5 DEF SignalReturns, ReadResult, Accept
<1>6. ASSUME NEW c \in Calls, Call(c)
      PROVE  Flags'
  BY <1>6 DEF Call
<1>7. CASE PeerHandles
  BY <1>7, ServerTypes DEF PeerHandles, Handles, Server!Serve, Server!Refuse,
     Server!Reject,
     Server!Drop
<1>8. ASSUME NEW k \in DOMAIN owed, PeerAnswers(k)
      PROVE  Flags'
  BY <1>8 DEF PeerAnswers, Server!Answer
<1>9. CASE PeerStrays
  BY <1>9 DEF PeerStrays, Server!Stray, Server!Drop
<1>10. CASE PerfGivesUp \/ PeerForgets \/ PeerDies \/ PeerRestarts
  BY <1>10 DEF PerfGivesUp, PeerForgets, PeerDies, PeerRestarts, Server!Lose,
     Server!Forget, Server!Die, Server!Restart
<1>11. CASE GoesAstray \/ OtherRejected
  BY <1>11 DEF GoesAstray, OtherRejected
<1>12. CASE UNCHANGED vars
  BY <1>12 DEF vars
<1> QED BY <1>1, <1>2, <1>3, <1>4, <1>5, <1>6, <1>7, <1>8, <1>9, <1>10, <1>11,
           <1>12 DEF Next, HandleCmdpipe

(* Every action leaves the actor, the machine, the call and the server in one
   of their states. *)
LEMMA NamesStep == Typed /\ [Next]_vars => Names'
<1> SUFFICES ASSUME Names, Typed, [Next]_vars
             PROVE  Names'
  BY DEF Typed
<1> USE DEF client, net, server, caller, results, history, Names
<1>0. /\ "expect_hello_ok" \in States /\ "reconnecting" \in States
      /\ "connected" \in States /\ "have_perf" \in States
  BY DEF States, Online
<1>1. ASSUME NEW c \in Methods, HandleMethod(c)
      PROVE  Names'
  BY <1>0, <1>1 DEF HandleMethod, SayHello, SendRequest, Misplaced, Swallow,
     Become,
              Fail
<1>2. CASE HandleConnected \/ HandleTerm \/ HandleFlush
  BY <1>2 DEF HandleConnected, HandleTerm, HandleFlush
<1>3. CASE Expire
  BY <1>3 DEF Expire
<1>4. CASE HandleProtocol
  BY <1>0, <1>4 DEF HandleProtocol, HelloOk, PingOk, PerfOk, SocketOk, Result,
     Rejoin,
              UnhandledError, InternalError, Ignore, Become, Fail, Forward
<1>5. CASE SignalReturns \/ ReadResult
  BY <1>5 DEF SignalReturns, ReadResult
<1>6. CASE Accept
  BY <1>6 DEF Accept, Calls
<1>7. ASSUME NEW c \in Calls, Call(c)
      PROVE  Names'
  BY <1>7 DEF Call
<1>8. CASE Peer
  <2>1. ServerStep
    BY <1>8, PeerSteps
  <2> QED BY <1>8, <2>1, ServerTypes
         DEF Peer, PeerHandles, PeerAnswers, PeerStrays, PerfGivesUp,
         PeerForgets, GoesAstray,
     PeerDies, PeerRestarts, OtherRejected
<1>9. CASE UNCHANGED vars
  BY <1>9 DEF vars
<1> QED BY <1>1, <1>2, <1>3, <1>4, <1>5, <1>6, <1>7, <1>8, <1>9
        DEF Next, HandleCmdpipe, Peer

(* Every action leaves the counters natural numbers, unread within the message
   pipe and faults within its bound. *)
LEMMA NumbersStep == Typed /\ [Next]_vars => Numbers'
<1> SUFFICES ASSUME Numbers, Typed, [Next]_vars
             PROVE  Numbers'
  BY DEF Typed
<1> USE DEF client, net, server, caller, results, history, Numbers
<1>1. ASSUME NEW c \in Methods, HandleMethod(c)
      PROVE  Numbers'
  <2>1. UNCHANGED <<retries, owed, faults>>
    BY <1>1 DEF HandleMethod, SayHello, SendRequest, Misplaced, Swallow, Fail
  <2>2. unread' \in 0..MsgCap
    BY <1>1 DEF HandleMethod, SayHello, SendRequest, Misplaced, Swallow, Fail
  <2>3. due' \in Nat
    BY <1>1 DEF HandleMethod, SayHello, SendRequest, Misplaced, Swallow
  <2> QED BY <2>1, <2>2, <2>3
<1>2. CASE HandleConnected \/ HandleTerm \/ HandleFlush
  BY <1>2 DEF HandleConnected, HandleTerm, HandleFlush
<1>3. CASE Expire
  BY <1>3 DEF Expire
<1>4. CASE HandleProtocol
  <2>1. UNCHANGED <<owed, due, faults>>
    BY <1>4 DEF HandleProtocol
  <2>2. retries' \in 0..3
    BY <1>4 DEF HandleProtocol, HelloOk, PingOk, PerfOk, SocketOk, Result,
       Rejoin, UnhandledError, InternalError, Ignore, IsConnected, Fail
  <2>3. unread' \in 0..MsgCap
    BY <1>4 DEF HandleProtocol, HelloOk, PingOk, PerfOk, SocketOk, Result,
       Rejoin, UnhandledError, InternalError, Ignore, Fail, Forward
  <2> QED BY <2>1, <2>2, <2>3
<1>5. CASE SignalReturns
  BY <1>5 DEF SignalReturns
<1>6. CASE ReadResult
  BY <1>6 DEF ReadResult
<1>7. ASSUME Accept \/ \E c \in Calls : Call(c)
      PROVE  Numbers'
  BY <1>7 DEF Call, Accept
<1>8. CASE Peer
  <2>1. UNCHANGED <<retries, unread, due>>
    BY <1>8 DEF Peer, PeerHandles, PeerAnswers, PeerStrays, PerfGivesUp,
       PeerForgets, GoesAstray, PeerDies, PeerRestarts, OtherRejected
  <2>2. faults' \in 0..MaxFaults
    BY <1>8 DEF Peer, PeerHandles, PeerAnswers, PeerStrays, PerfGivesUp,
       PeerForgets, GoesAstray, PeerDies, PeerRestarts, OtherRejected, Handles,
       Fault
  <2> QED BY <1>8, <2>1, <2>2, PeerSteps, ServerTypes
<1>9. CASE UNCHANGED vars
  BY <1>9 DEF vars
<1> QED BY <1>1, <1>2, <1>3, <1>4, <1>5, <1>6, <1>7, <1>8, <1>9
        DEF Next, HandleCmdpipe, Peer

(* A pipe that is written to or read stays a pipe of the same messages. *)
LEMMA PipeTypes ==
  ASSUME NEW S, NEW s \in Seq(S)
  PROVE  /\ \A x \in S : Append(s, x) \in Seq(S)
         /\ s # <<>> => Tail(s) \in Seq(S) /\ Head(s) \in S
  BY AppendProperties, HeadTailProperties

(* Every action leaves the four pipes sequences of their messages. *)
LEMMA PipesStep == Typed /\ [Next]_vars => Pipes'
<1> SUFFICES ASSUME Pipes, Typed, [Next]_vars
             PROVE  Pipes'
  BY DEF Typed
<1> USE DEF client, net, server, caller, results, history, Pipes
<1>a. /\ cmds # <<>> => Tail(cmds) \in Seq(Calls)
      /\ \A x \in Calls : Append(cmds, x) \in Seq(Calls)
      /\ "$TERM" \in Calls
  BY PipeTypes DEF Calls
<1>b. /\ replies # <<>> => Tail(replies) \in Seq(Replies)
      /\ \A x \in Replies : Append(replies, x) \in Seq(Replies)
      /\ "CONNECTED" \in Replies /\ "PERF_IDENT" \in Replies
      /\ "PERF_ENDPOINT" \in Replies /\ "SUCCESS" \in Replies
      /\ "FAILURE" \in Replies /\ "NUMBER" \in Replies
      /\ "SIGNAL" \in Replies
  BY PipeTypes DEF Replies
<1>c. /\ up # <<>> => Tail(up) \in Seq(Requests)
      /\ \A x \in Requests : Append(up, x) \in Seq(Requests)
      /\ "HELLO" \in Requests /\ "PING" \in Requests
      /\ \A c \in DOMAIN RequestFor : RequestFor[c] \in Requests
  BY PipeTypes DEF Requests, RequestFor
<1>d. /\ down # <<>> => Tail(down) \in Seq(Answers \cup Errors)
      /\ \A x \in Answers \cup Errors :
           Append(down, x) \in Seq(Answers \cup Errors)
  BY PipeTypes
<1>1. ASSUME NEW c \in Methods, HandleMethod(c)
      PROVE  Pipes'
  <2>0. cmds' \in Seq(Calls) /\ UNCHANGED down
    BY <1>1, <1>a DEF HandleMethod, Commanded
  <2>1. replies' \in Seq(Replies)
    BY <1>1, <1>b DEF HandleMethod, SayHello, SendRequest, Misplaced, Swallow,
       Signal, Fail
  <2>2. up' \in Seq(Requests)
    BY <1>1, <1>c DEF HandleMethod, SayHello, SendRequest, Misplaced, Swallow,
       Request
  <2> QED BY <2>0, <2>1, <2>2
<1>2. CASE HandleConnected \/ HandleTerm \/ HandleFlush
  BY <1>2, <1>a, <1>b DEF HandleConnected, HandleTerm, HandleFlush, Commanded,
     Signal
<1>3. CASE Expire
  BY <1>3, <1>c DEF Expire, Request
<1>4. CASE HandleProtocol
  <2>1. UNCHANGED cmds
    BY <1>4 DEF HandleProtocol
  <2>2. down' \in Seq(Answers \cup Errors)
    BY <1>4, <1>d DEF HandleProtocol, HelloOk, PingOk, PerfOk, SocketOk, Result,
       Rejoin, UnhandledError, InternalError, Ignore, Took
  <2>3. replies' \in Seq(Replies)
    BY <1>4, <1>b DEF HandleProtocol, HelloOk, PingOk, PerfOk, SocketOk, Result,
       Rejoin, UnhandledError, InternalError, Ignore, Fail, Signal, Forward
  <2>4. up' \in Seq(Requests)
    BY <1>4, <1>c DEF HandleProtocol, HelloOk, PingOk, PerfOk, SocketOk, Result,
       Rejoin, UnhandledError, InternalError, Ignore, Request
  <2> QED BY <2>1, <2>2, <2>3, <2>4
<1>5. CASE SignalReturns \/ ReadResult
  BY <1>5 DEF SignalReturns, ReadResult
<1>6. CASE Accept
  BY <1>6, <1>a, <1>b DEF Accept
<1>7. ASSUME NEW c \in Calls, Call(c)
      PROVE  Pipes'
  BY <1>7, <1>a, <1>b DEF Call
<1>8. CASE PeerHandles
  BY <1>8, <1>c, <1>d DEF PeerHandles, Say
<1>9. ASSUME NEW k \in DOMAIN owed, PeerAnswers(k)
      PROVE  Pipes'
  <2>1. k \in Answers
    BY DEF Typed, Numbers, Server!Late, Answers
  <2> QED BY <1>9, <2>1, <1>d DEF PeerAnswers, Say
<1>10. CASE PeerStrays
  BY <1>10, <1>d DEF PeerStrays, Say
<1>11. CASE PeerDies
  <2>1. PICK i \in 1..Len(up) + 1 : up' = SubSeq(up, i, Len(up))
    BY <1>11 DEF PeerDies
  <2>2. PICK j \in 0..Len(down) : down' = SubSeq(down, 1, j)
    BY <1>11 DEF PeerDies
  <2>3. up' \in Seq(Requests)
    BY <2>1, SubSeqProperties
  <2>4. down' \in Seq(Answers \cup Errors)
    BY <2>2, SubSeqProperties
  <2> QED BY <1>11, <2>3, <2>4 DEF PeerDies
<1>12. CASE \/ PerfGivesUp \/ PeerForgets \/ GoesAstray \/ PeerRestarts
            \/ OtherRejected
  BY <1>12 DEF PerfGivesUp, PeerForgets, GoesAstray, PeerRestarts, OtherRejected
<1>13. CASE UNCHANGED vars
  BY <1>13 DEF vars
<1> QED BY <1>1, <1>2, <1>3, <1>4, <1>5, <1>6, <1>7, <1>8, <1>9, <1>10, <1>11,
           <1>12, <1>13 DEF Next, HandleCmdpipe

(* A client whose retries are used up is not connected. *)
LEMMA GivenUpStep == Typed /\ [Next]_vars => GivenUp'
<1> SUFFICES ASSUME GivenUp, Typed, [Next]_vars
             PROVE  GivenUp'
  BY DEF Typed
<1> USE DEF client, net, server, caller, results, history, GivenUp
<1>1. ASSUME HandleCmdpipe \/ HandleFlush
      PROVE  UNCHANGED <<connected, retries>>
  BY <1>1 DEF HandleCmdpipe, HandleFlush, HandleMethod, SayHello, SendRequest,
     Misplaced, Swallow, Fail, HandleConnected, HandleTerm
<1>2. CASE Expire
  <2>1. CASE GivesUp(retries + 1)
    BY <1>2, <2>1 DEF Expire
  <2>2. CASE ~GivesUp(retries + 1)
    <3>1. retries + 1 < 3 /\ retries' = retries + 1
      BY <1>2, <2>2 DEF Expire, GivesUp, Typed, Numbers
    <3> QED BY <3>1
  <2> QED BY <2>1, <2>2
<1>3. CASE HandleProtocol
  <2>1. UNCHANGED <<connected, retries>> \/ retries' = 0
    BY <1>3 DEF HandleProtocol, HelloOk, PingOk, PerfOk, SocketOk, Result,
       Rejoin,
       UnhandledError, InternalError, Ignore, IsConnected, Fail
  <2>2. CASE UNCHANGED <<connected, retries>>
    BY <2>2
  <2>3. CASE retries' = 0
    BY <2>3
  <2> QED BY <2>1, <2>2, <2>3
<1>4. CASE SignalReturns \/ ReadResult \/ Accept \/ \E c \in Calls : Call(c)
  BY <1>4 DEF SignalReturns, ReadResult, Accept, Call
<1>5. CASE Peer
  BY <1>5 DEF Peer, PeerHandles, PeerAnswers, PeerStrays, PerfGivesUp,
     PeerForgets, GoesAstray, PeerDies, PeerRestarts, OtherRejected
<1>6. CASE UNCHANGED vars
  BY <1>6 DEF vars
<1> QED BY <1>1, <1>2, <1>3, <1>4, <1>5, <1>6 DEF Next, Peer

(* The types are inductive by themselves. *)
LEMMA TypedStep == Typed /\ [Next]_vars => Typed'
BY FlagsStep, NamesStep, NumbersStep, PipesStep, GivenUpStep DEF Typed

-----------------------------------------------------------------------------
(***************************************************************************)
(* The safety properties of PerfClient for any bounds, any capacity of the *)
(* message pipe, and an application that may misuse the client or not.     *)
(*                                                                         *)
(* None of them is inductive.  That a reply belongs to the call needs the  *)
(* whole way of the call: it is in one place only, as a command, a request, *)
(* something a perf owes, an answer or a reply (OneCall), until the machine *)
(* stops, which leaves at most what was there (OldReply) and the end of the *)
(* object (Ending).  That the server takes every request needs what is on  *)
(* the wire to fit the state the server will have (InStep), and with that  *)
(* the results are conserved (Conserved): nothing is dropped by a rejection. *)
(* The bound of due needs a launch to be in one place (OneLaunch).         *)
(***************************************************************************)

(* A flag as a number. *)
Bit(b) == IF b THEN 1 ELSE 0

(* The actor may still run its machine. *)
Live == actor \in {"running", "blocked"}

(* The launches that a running machine has yet to read or to answer. *)
Waiting == IF Live THEN Count(cmds, "LAUNCH_MEASURE") ELSE 0
Replied == IF Live THEN Count(replies, "SUCCESS") ELSE 0
Launching == Bit(call = "LAUNCH_MEASURE")

(* A launch is under way once, as a command or as its reply, and was called
   with room for one result more. *)
OneLaunch ==
  /\ Waiting + Replied <= Launching
  /\ due + Waiting <= MaxDue
  /\ Live => Count(replies, "FAILURE") = 0

(* Going astray is a fault, and remembered. *)
Remembered ==
  /\ astray => misled
  /\ misled => faults # 0

(* What is on its way fits the state the server will have when it comes. *)
InStep ==
  kept =>
    /\ peer # "down" /\ state # "reconnecting"
    /\ Count(up, "HELLO") <= 1
    /\ Count(up, "HELLO") # 0 => peer = "none" /\ state # "start"
    /\ state = "start" => peer = "none"
    /\ state = "connected" => peer \in {"connected", "have_perf"}
    /\ state = "have_perf" => peer = "have_perf"
    /\ Count(up, "CREATE") # 0 => peer \in {"connected", "have_perf"}
    /\ Count(up, "SOCKET") # 0 => peer = "have_perf"
    /\ Count(up, "MEASURE") # 0 => peer = "have_perf"
    /\ Count(down, "HELLO_OK") # 0 => peer \in {"connected", "have_perf"}
    /\ Count(down, "PERF_OK") # 0 => peer = "have_perf"
    /\ Count(down, "INVALID") = 0

(* $FLUSH has one signal to come, and $TERM is the last call. *)
Ending ==
  /\ flush => call = "$FLUSH" /\ Count(replies, "SIGNAL") = 0
  /\ Count(replies, "SIGNAL") <= 1
  /\ Count(replies, "SIGNAL") # 0 => call = "$FLUSH"
  /\ Count(cmds, "$TERM") <= 1
  /\ Count(cmds, "$TERM") # 0 => call = "$TERM"

ReplyTo == [c \in Calls |->
  CASE c = "SAY_HELLO" -> "CONNECTED"
    [] c = "CREATE_PERF" -> "PERF_IDENT"
    [] c = "REQUEST_BORC" -> "PERF_ENDPOINT"
    [] c = "LAUNCH_MEASURE" -> "SUCCESS"
    [] c = "$CONNECTED" -> "NUMBER"
    [] c = "$FLUSH" -> "SIGNAL"
    [] c = "$TERM" -> "nothing"]

(* Where a call can be under way, how often it is there, and whose it is in
   the places that do not name it. *)
Held == [command |-> Len(cmds),
         flush   |-> Bit(flush),
         reply   |-> Len(replies),
         hello   |-> Bit(state = "expect_hello_ok"),
         create  |-> Count(up, "CREATE"),
         created |-> Count(down, "PERF_OK"),
         socket  |-> Count(up, "SOCKET"),
         owed    |-> owed["SOCKET_OK"],
         answer  |-> Count(down, "SOCKET_OK")]
Places == {"command", "flush", "reply", "hello", "create", "created", "socket",
           "owed", "answer"}
Caller == [flush |-> "$FLUSH", hello |-> "SAY_HELLO",
           create |-> "CREATE_PERF", created |-> "CREATE_PERF",
           socket |-> "REQUEST_BORC", owed |-> "REQUEST_BORC",
           answer |-> "REQUEST_BORC"]

Alone(h) ==
  /\ \A p \in Places : h[p] = 0 \/ h[p] = 1
  /\ \A p, q \in Places : p # q => h[p] = 0 \/ h[q] = 0

(* While the machine runs, the call the application is in is in one place: a
   command, a request, an answer or a reply. *)
OneCall ==
  Live /\ ~misled =>
    /\ Alone(Held)
    /\ cmds # <<>> => Head(cmds) = call
    /\ replies # <<>> => call \in Calls /\ Head(replies) = ReplyTo[call]
    /\ \A p \in DOMAIN Caller : Held[p] # 0 => call = Caller[p]

(* A machine that stopped leaves one reply of a method at most, before the
   FAILURE and what else came after it. *)
OldReply ==
  ~Live /\ ~misled =>
    \A i \in DOMAIN replies :
      replies[i] \notin {"FAILURE", "NUMBER", "SIGNAL"} =>
        i = 1 /\ call \in Methods /\ replies[i] = ReplyTo[call]

(* The sum of ResultsConserved. *)
Sum5(a, b, c, d, e) == a + b + c + d + e

Conserved ==
  Live /\ kept =>
    due = Sum5(unread, Bit(actor = "blocked"), Count(down, "RESULT"),
               owed["RESULT"], Count(up, "MEASURE"))

(* The four pipes, as PipeCounts sees them. *)
LEMMA AllSums ==
  ASSUME Typed
  PROVE  /\ Sums(Calls, cmds) /\ Sums(Replies, replies)
         /\ Sums(Requests, up) /\ Sums(Answers \cup Errors, down)
BY PipeCounts DEF Typed, Pipes

(* Every action keeps a launch in one place. *)
LEMMA OneLaunchStep == Typed /\ OneLaunch /\ [Next]_vars => OneLaunch'
<1> SUFFICES ASSUME Typed, OneLaunch, [Next]_vars
             PROVE  OneLaunch'
  OBVIOUS
<1> USE DEF client, net, server, caller, results, history, Live
<1>a. /\ Sums(Calls, cmds) /\ Sums(Calls, cmds')
      /\ Sums(Replies, replies) /\ Sums(Replies, replies')
      /\ due \in Nat /\ due' \in Nat /\ MaxDue \in Nat
  BY TypedStep, PipeCounts, ClientConstants DEF Typed, Pipes, Numbers
<1>b. /\ Waiting \in Nat /\ Waiting' \in Nat /\ Replied \in Nat /\ Replied' \in Nat
      /\ Launching \in Nat /\ Launching' \in Nat
  BY <1>a DEF Sums, Waiting, Replied, Launching, Bit
<1>c. ASSUME ~Live', due' = due
      PROVE  OneLaunch'
  <2>1. Waiting' = 0 /\ Replied' = 0
    BY <1>c DEF Waiting, Replied
  <2>2. due <= MaxDue
    BY <1>a, <1>b DEF OneLaunch
  <2>3. due' + Waiting' <= MaxDue /\ Waiting' + Replied' <= Launching'
    BY <1>a, <1>b, <1>c, <2>1, <2>2
  <2> QED BY <1>c, <2>3 DEF OneLaunch
<1>d. ASSUME NEW r \in Replies, r # "SUCCESS", r # "FAILURE",
             replies' = Append(replies, r)
      PROVE  /\ Count(replies', "SUCCESS") = Count(replies, "SUCCESS")
             /\ Count(replies', "FAILURE") = Count(replies, "FAILURE")
  <2>1. \A m : m # r => Count(Append(replies, r), m) = Count(replies, m)
    BY <1>a, <1>d DEF Sums
  <2> QED BY <1>d, <2>1, Zenon
<1>e. ASSUME Live, Live', UNCHANGED <<call, due>>,
             Count(cmds', "LAUNCH_MEASURE") = Count(cmds, "LAUNCH_MEASURE"),
             Count(replies', "SUCCESS") = Count(replies, "SUCCESS"),
             Count(replies', "FAILURE") = Count(replies, "FAILURE")
      PROVE  OneLaunch'
  <2>1. Waiting' = Waiting /\ Replied' = Replied /\ Launching' = Launching
    BY <1>e DEF Waiting, Replied, Launching
  <2> QED BY <1>e, <2>1 DEF OneLaunch
<1>1. ASSUME NEW c \in Methods, HandleMethod(c)
      PROVE  OneLaunch'
  <2>0. /\ call' = call /\ cmds # <<>> /\ Head(cmds) = c /\ cmds' = Tail(cmds)
    BY <1>1 DEF HandleMethod, Commanded
  <2>1. c # "LAUNCH_MEASURE" =>
          Count(cmds', "LAUNCH_MEASURE") = Count(cmds, "LAUNCH_MEASURE")
    BY <1>a, <2>0 DEF Sums, Bit
  <2>2. CASE actor = "running" /\ SayHello(c)
    <3>1. due' = due /\ c # "LAUNCH_MEASURE"
      BY <2>2 DEF SayHello
    <3>2. replies' = replies \/ actor' = "stopped"
      BY <2>2 DEF SayHello
    <3> QED BY <1>c, <1>e, <2>0, <2>1, <2>2, <3>1, <3>2
  <2>3. CASE actor = "running" /\ SendRequest(c) /\ c # "LAUNCH_MEASURE"
    <3>1. UNCHANGED <<actor, due, replies>>
      BY <2>3 DEF SendRequest
    <3> QED BY <1>e, <2>0, <2>1, <2>3, <3>1
  <2>4. CASE actor = "running" /\ SendRequest(c) /\ c = "LAUNCH_MEASURE"
    <3>1. Live /\ Live' /\ due' = due + 1 /\ replies' = Append(replies, "SUCCESS")
      BY <2>4 DEF SendRequest, Signal
    <3>2. Launching' = Launching
      BY <2>0 DEF Launching
    <3>3. Waiting = Waiting' + 1
      BY <1>a, <2>0, <2>4, <3>1 DEF Waiting, Sums, Bit
    <3>4. Replied' = Replied + 1
      BY <1>a, <3>1 DEF Replied, Sums, Replies, Bit
    <3>5. Count(replies', "FAILURE") = Count(replies, "FAILURE")
      <4>1. "SUCCESS" \in Replies /\ replies' = Append(replies, "SUCCESS")
        BY <3>1 DEF Replies
      <4>2. Count(replies', "FAILURE") = Count(replies, "FAILURE") + 0
        BY <1>a, <4>1 DEF Sums, Bit
      <4> QED BY <1>a, <4>2 DEF Sums
    <3>6. Waiting + Replied <= Launching /\ due + Waiting <= MaxDue
      BY DEF OneLaunch
    <3>7. due' = due + 1
      BY <3>1
    <3>8. \A w, r, d \in Nat : Waiting = w + 1 /\ r = Replied + 1 /\ d = due + 1
            => w + r <= Launching /\ d + w <= MaxDue
      <4>1. /\ Waiting \in Nat /\ Replied \in Nat /\ Launching \in Nat
            /\ due \in Nat /\ MaxDue \in Nat
        BY <1>a, <1>b
      <4> QED BY <3>6, <4>1
    <3>9. Waiting' + Replied' <= Launching' /\ due' + Waiting' <= MaxDue
      BY <1>a, <1>b, <3>2, <3>3, <3>4, <3>7, <3>8, Zenon
    <3> QED BY <3>1, <3>5, <3>9 DEF OneLaunch
  <2>5. CASE actor = "running" /\ Misplaced(c)
    BY <1>c, <2>5 DEF Misplaced, Fail
  <2>6. CASE actor = "stopped" /\ Swallow
    BY <1>c, <2>6 DEF Swallow
  <2> QED BY <1>1, <2>2, <2>3, <2>4, <2>5, <2>6 DEF HandleMethod
<1>2. CASE HandleConnected
  <2>1. Count(cmds', "LAUNCH_MEASURE") = Count(cmds, "LAUNCH_MEASURE")
    BY <1>a, <1>2 DEF HandleConnected, Commanded, Sums, Bit
  <2>2. /\ Count(replies', "SUCCESS") = Count(replies, "SUCCESS")
        /\ Count(replies', "FAILURE") = Count(replies, "FAILURE")
    BY <1>2, <1>d DEF HandleConnected, Signal, Replies
  <2> QED BY <1>2, <1>c, <1>e, <2>1, <2>2 DEF HandleConnected
<1>3. CASE HandleFlush
  <2>1. /\ Count(replies', "SUCCESS") = Count(replies, "SUCCESS")
        /\ Count(replies', "FAILURE") = Count(replies, "FAILURE")
    BY <1>3, <1>d DEF HandleFlush, Signal, Replies
  <2> QED BY <1>3, <1>c, <1>e, <2>1 DEF HandleFlush
<1>4. CASE HandleTerm
  BY <1>4, <1>c DEF HandleTerm
<1>5. CASE Expire \/ SignalReturns
  BY <1>5, <1>c, <1>e DEF Expire, SignalReturns
<1>6. CASE HandleProtocol
  <2>1. UNCHANGED <<call, cmds, due>>
    BY <1>6 DEF HandleProtocol
  <2>2. \/ ~Live'
        \/ Live /\ replies' = replies
        \/ Live /\ \E r \in {"CONNECTED", "PERF_IDENT", "PERF_ENDPOINT"} :
                     replies' = Append(replies, r)
    BY <1>6 DEF HandleProtocol, HelloOk, PingOk, PerfOk, SocketOk, Result,
       Rejoin,
       UnhandledError, InternalError, Ignore, Fail, Forward, Signal
  <2>3. ASSUME Live'
        PROVE  /\ Count(replies', "SUCCESS") = Count(replies, "SUCCESS")
               /\ Count(replies', "FAILURE") = Count(replies, "FAILURE")
    BY <1>d, <2>2, <2>3 DEF Replies
  <2> QED BY <1>c, <1>e, <2>1, <2>2, <2>3
<1>8. CASE ReadResult
  <2>1. /\ UNCHANGED <<actor, call, cmds, replies>>
        /\ due' = IF due > 0 THEN due - 1 ELSE 0
    BY <1>8 DEF ReadResult
  <2>2. Waiting' = Waiting /\ Replied' = Replied /\ Launching' = Launching
    BY <2>1 DEF Waiting, Replied, Launching
  <2>3. Waiting + Replied <= Launching /\ due + Waiting <= MaxDue
    BY DEF OneLaunch
  <2>4. due' + Waiting' <= MaxDue
    <3>1. /\ Waiting \in Nat /\ due \in Nat /\ MaxDue \in Nat
      BY <1>a, <1>b
    <3>2. \A d \in Nat : d = (IF due > 0 THEN due - 1 ELSE 0) => d + Waiting <= MaxDue
      BY <2>3, <3>1
    <3> QED BY <1>a, <2>1, <2>2, <3>2, Zenon
  <2> QED BY <2>1, <2>2, <2>3, <2>4 DEF OneLaunch
<1>9. ASSUME NEW c \in Calls, Call(c)
      PROVE  OneLaunch'
  <2>1. UNCHANGED <<actor, replies, due>> /\ call = "none" /\ call' = c
    BY <1>9 DEF Call
  <2>2. CASE c = "LAUNCH_MEASURE"
    <3>1. due < MaxDue /\ cmds' = Append(cmds, "LAUNCH_MEASURE")
      BY <1>9, <2>2 DEF Call
    <3>2. Launching = 0 /\ Launching' = 1 /\ Replied' = Replied
      BY <2>1, <2>2 DEF Launching, Bit, Replied
    <3>3. Waiting' = Waiting \/ Waiting' = Waiting + 1
      BY <1>a, <2>1, <2>2, <3>1 DEF Waiting, Sums, Bit
    <3>4. Waiting + Replied <= Launching
      BY DEF OneLaunch
    <3>5. Waiting = 0 /\ Replied = 0
      BY <1>b, <3>2, <3>4
    <3>6. CASE Waiting' = Waiting
      BY <1>a, <1>b, <2>1, <3>1, <3>2, <3>5, <3>6 DEF OneLaunch
    <3>7. CASE Waiting' = Waiting + 1
      <4>1. Waiting' + Replied' <= Launching' /\ due' + Waiting' <= MaxDue
        BY <1>a, <1>b, <2>1, <3>1, <3>2, <3>5, <3>7
      <4> QED BY <2>1, <4>1 DEF OneLaunch
    <3> QED BY <3>3, <3>6, <3>7
  <2>3. CASE c # "LAUNCH_MEASURE"
    <3>1. Count(cmds', "LAUNCH_MEASURE") = Count(cmds, "LAUNCH_MEASURE")
      <4>1. cmds' = cmds \/ cmds' = Append(cmds, c)
        BY <1>9 DEF Call
      <4>2. Count(Append(cmds, c), "LAUNCH_MEASURE")
              = Count(cmds, "LAUNCH_MEASURE") + 0
        BY <1>a, <2>3 DEF Sums, Bit
      <4>3. Count(cmds, "LAUNCH_MEASURE") \in Nat
        BY <1>a DEF Sums
      <4>4. Count(cmds, "LAUNCH_MEASURE") + 0 = Count(cmds, "LAUNCH_MEASURE")
        BY <4>3
      <4> QED BY <4>1, <4>2, <4>4, Zenon
    <3>2. Waiting' = Waiting /\ Replied' = Replied /\ Launching' = Launching
      BY <2>1, <2>3, <3>1 DEF Waiting, Replied, Launching, Bit
    <3> QED BY <2>1, <3>2 DEF OneLaunch
  <2> QED BY <2>2, <2>3
<1>10. CASE Accept
  <2>1. /\ UNCHANGED <<actor, due>>
        /\ replies # <<>> /\ replies' = Tail(replies)
        /\ call' = call \/ call' \in {"none", "$TERM"}
        /\ call = "LAUNCH_MEASURE" /\ call' # call
             => Head(replies) \in {"SUCCESS", "FAILURE"}
    BY <1>10 DEF Accept, Filters, Methods
  <2>2. Count(cmds', "LAUNCH_MEASURE") = Count(cmds, "LAUNCH_MEASURE")
    <3>1. /\ cmds' = cmds \/ cmds' = Append(cmds, "$TERM")
          /\ "$TERM" \in Calls
      BY <1>10 DEF Accept, Calls
    <3>2. Count(Append(cmds, "$TERM"), "LAUNCH_MEASURE")
            = Count(cmds, "LAUNCH_MEASURE") + 0
      BY <1>a, <3>1 DEF Sums, Bit
    <3>3. Count(cmds, "LAUNCH_MEASURE") + 0 = Count(cmds, "LAUNCH_MEASURE")
      BY <1>a DEF Sums
    <3> QED BY <3>1, <3>2, <3>3, Zenon
  <2>3. Waiting' = Waiting
    BY <2>1, <2>2 DEF Waiting
  <2>4. Live /\ Count(replies, "FAILURE") = 0 =>
          Head(replies) # "FAILURE" /\ Count(replies', "FAILURE") = 0
    BY <1>a, <2>1 DEF Sums, Bit
  <2>5. Replied = 0 => Replied' = 0
    BY <1>a, <2>1 DEF Replied, Sums, Bit
  <2>6. Live /\ Head(replies) = "SUCCESS" => Replied = Replied' + 1
    BY <1>a, <2>1 DEF Replied, Sums, Bit
  <2>7. ~Live => Waiting = 0 /\ Replied = 0
    BY DEF Waiting, Replied
  <2>8. Head(replies) # "SUCCESS" => Replied' = Replied
    BY <1>a, <2>1 DEF Replied, Sums, Bit
  <2>9. Waiting + Replied <= Launching /\ due + Waiting <= MaxDue
    BY DEF OneLaunch
  <2>10. \A r \in Nat : Replied = r + 1 => Waiting + r <= Launching - 1
    <3>1. Waiting \in Nat /\ Replied \in Nat /\ Launching \in Nat
      BY <1>b
    <3> QED BY <2>9, <3>1
  <2>11. \A r \in Nat : Replied = r + 1 => Waiting + r <= Launching
    <3>1. Waiting \in Nat /\ Replied \in Nat /\ Launching \in Nat
      BY <1>b
    <3> QED BY <2>9, <3>1
  <2>12. Waiting' + Replied' <= Launching'
    <3>1. CASE call' = call \/ call # "LAUNCH_MEASURE"
      <4>1. Launching' = Launching
        BY <2>1, <3>1 DEF Launching
      <4>2. CASE Head(replies) # "SUCCESS" \/ ~Live
        <5>1. Replied' = Replied
          BY <2>5, <2>7, <2>8, <4>2
        <5> QED BY <2>3, <2>9, <4>1, <5>1
      <4>3. CASE Live /\ Head(replies) = "SUCCESS"
        <5>1. Replied = Replied' + 1
          BY <2>6, <4>3
        <5> QED BY <1>b, <2>3, <2>11, <4>1, <5>1, Zenon
      <4> QED BY <4>2, <4>3
    <3>2. CASE call' # call /\ call = "LAUNCH_MEASURE"
      <4>1. Launching = 1 /\ Launching' = 0
        BY <2>1, <3>2 DEF Launching, Bit
      <4>2. CASE ~Live
        <5>1. Waiting' = 0 /\ Replied' = 0
          BY <2>3, <2>5, <2>7, <4>2
        <5> QED BY <4>1, <5>1
      <4>3. CASE Live
        <5>1. Replied = Replied' + 1
          BY <2>1, <2>4, <2>6, <3>2, <4>3 DEF OneLaunch
        <5>2. Waiting' + Replied' <= Launching - 1
          BY <1>b, <2>3, <2>10, <5>1, Zenon
        <5>3. Launching - 1 = Launching'
          BY <4>1
        <5> QED BY <5>2, <5>3, Zenon
      <4> QED BY <4>2, <4>3
    <3> QED BY <3>1, <3>2
  <2> QED BY <2>1, <2>3, <2>4, <2>9, <2>12 DEF OneLaunch
<1>11. CASE Peer
  <2>1. UNCHANGED <<actor, cmds, replies, call, due>>
    BY <1>11 DEF Peer, PeerHandles, PeerAnswers, PeerStrays, PerfGivesUp,
       PeerForgets, GoesAstray, PeerDies, PeerRestarts, OtherRejected
  <2> QED BY <1>c, <1>e, <2>1
<1>12. CASE UNCHANGED vars
  BY <1>12, <1>c, <1>e DEF vars
<1> QED BY <1>1, <1>2, <1>3, <1>4, <1>5, <1>6, <1>8, <1>9, <1>10, <1>11,
           <1>12 DEF Next, HandleCmdpipe, Peer

(* Every action keeps going astray a fault. *)
LEMMA RememberedStep == Typed /\ Remembered /\ [Next]_vars => Remembered'
<1> SUFFICES ASSUME Typed, Remembered, [Next]_vars
             PROVE  Remembered'
  OBVIOUS
<1> USE DEF client, net, server, caller, results, history
<1>0. faults \in Nat /\ faults' \in Nat
  BY TypedStep, ClientConstants DEF Typed, Numbers
<1>1. ASSUME UNCHANGED <<server, history>> \/ UNCHANGED <<astray, misled, faults>>
      PROVE  Remembered'
  BY <1>1 DEF Remembered
<1>2. CASE HandleCmdpipe \/ HandleFlush \/ Expire
  BY <1>1, <1>2 DEF HandleCmdpipe, HandleMethod, HandleConnected, HandleTerm,
     HandleFlush, Expire
<1>3. CASE HandleProtocol \/ SignalReturns \/ ReadResult \/ Accept
           \/ \E c \in Calls : Call(c)
  BY <1>1, <1>3 DEF HandleProtocol, SignalReturns, ReadResult, Accept, Call
<1>4. CASE PeerHandles
  <2>1. UNCHANGED <<astray, misled>> /\ (faults' = faults \/ faults' = faults + 1)
    BY <1>4 DEF PeerHandles, Handles, Fault
  <2>2. faults # 0 => faults' # 0
    BY <1>0, <2>1
  <2> QED BY <2>1, <2>2, <1>0 DEF Remembered
<1>5. ASSUME NEW k \in DOMAIN owed, PeerAnswers(k)
      PROVE  Remembered'
  BY <1>1, <1>5 DEF PeerAnswers
<1>6. CASE PeerStrays \/ PeerRestarts \/ OtherRejected
  BY <1>6 DEF PeerStrays, PeerRestarts, OtherRejected, Server!Restart,
     Remembered
<1>7. CASE PerfGivesUp \/ PeerForgets \/ GoesAstray \/ PeerDies
  <2>1. faults' = faults + 1
    BY <1>7 DEF PerfGivesUp, PeerForgets, GoesAstray, PeerDies, Fault
  <2>2. faults' # 0
    BY <1>0, <2>1
  <2>3. astray' => misled'
    BY <1>7 DEF PerfGivesUp, PeerForgets, GoesAstray, PeerDies, Server!Die,
       Remembered
  <2> QED BY <2>2, <2>3, <1>0 DEF Remembered
<1>8. CASE UNCHANGED vars
  BY <1>1, <1>8 DEF vars
<1> QED BY <1>2, <1>3, <1>4, <1>5, <1>6, <1>7, <1>8 DEF Next

(* A server that has lost nothing of the client takes its next request. *)
LEMMA Admitted ==
  ASSUME Typed, InStep, kept, up # <<>>
  PROVE  Head(up) \in Requests /\ peer \in Server!Admits[Head(up)]
<1>1. Head(up) \in Requests
  BY HeadTailProperties DEF Typed, Pipes
<1>2. Count(up, Head(up)) # 0
  BY PipeMarks DEF Typed, Pipes, Marks
<1>3. peer \in Server!Peers
  BY DEF Typed, Names
<1> QED BY <1>1, <1>2, <1>3 DEF InStep, Server!Admits, Requests, Server!Peers

(* Every action keeps the client's machine and the server's in step: a request
   moves the server on, its answer moves the client after it. *)
LEMMA InStepStep ==
  Typed /\ Remembered /\ InStep /\ [Next]_vars => InStep'
<1> SUFFICES ASSUME Typed, Remembered, InStep, [Next]_vars, kept'
             PROVE  InStep'
  BY DEF InStep
<1> USE DEF client, net, server, caller, results, history
<1>u. /\ Marks(Requests, up) /\ Marks(Answers \cup Errors, down)
      /\ \A m : Count(up, m) \in Nat /\ Count(up', m) \in Nat
  BY TypedStep, PipeMarks, PipeCounts DEF Typed, Pipes, Sums
<1>0. faults \in Nat /\ faults' \in Nat
  BY TypedStep, ClientConstants DEF Typed, Numbers
<1>1. ASSUME UNCHANGED <<state, peer, up, down>>, kept
      PROVE  InStep'
  BY <1>1 DEF InStep
<1>w. ASSUME kept, UNCHANGED <<state, peer, down>>,
             NEW x \in Requests \ {"HELLO"}, up' = Append(up, x),
             x = "CREATE" => state \in {"connected", "have_perf"},
             x \in {"SOCKET", "MEASURE"} => state = "have_perf"
      PROVE  InStep'
  <2>1. \A m : Count(up', m) # 0 => Count(up, m) # 0 \/ m = x
    BY <1>u, <1>w DEF Marks
  <2>2. Count(up', "HELLO") = Count(up, "HELLO")
    BY <1>w, AllSums DEF Sums
  <2>3. state = "have_perf" => peer = "have_perf"
    BY <1>w DEF InStep
  <2>4. state = "connected" => peer \in {"connected", "have_perf"}
    BY <1>w DEF InStep
  <2> QED BY <1>w, <2>1, <2>2, <2>3, <2>4 DEF InStep
<1>2. ASSUME NEW c \in Methods, HandleMethod(c)
      PROVE  InStep'
  <2>0. kept /\ UNCHANGED <<peer, down>>
    BY <1>2 DEF HandleMethod, kept
  <2>1. CASE SayHello(c) /\ up' = Append(up, "HELLO")
    <3>1. state = "start" /\ state' = "expect_hello_ok"
      BY <2>1 DEF SayHello, Takes, Become, Request
    <3>2. Count(up, "HELLO") = 0 /\ peer = "none"
      BY <2>0, <3>1, <1>u DEF InStep
    <3>3. "HELLO" \in Requests
      BY DEF Requests
    <3>4. Count(up', "HELLO") <= 1
      BY <1>u, <2>1, <3>2, <3>3 DEF Marks
    <3>5. \A m : m # "HELLO" /\ Count(up', m) # 0 => Count(up, m) # 0
      BY <1>u, <2>1, <3>3 DEF Marks
    <3> QED BY <2>0, <3>1, <3>2, <3>4, <3>5 DEF InStep
  <2>2. CASE SendRequest(c)
    <3>1. /\ up' = Append(up, RequestFor[c]) /\ UNCHANGED state
          /\ c \in DOMAIN RequestFor /\ state \in Takes(c)
      BY <2>2 DEF SendRequest, Request
    <3>2. RequestFor[c] \in Requests \ {"HELLO"}
      BY <3>1 DEF RequestFor, Requests
    <3>3. /\ RequestFor[c] = "CREATE" => state \in {"connected", "have_perf"}
          /\ RequestFor[c] \in {"SOCKET", "MEASURE"} => state = "have_perf"
      BY <3>1 DEF RequestFor, Takes
    <3> QED BY <1>w, <2>0, <3>1, <3>2, <3>3
  <2>3. CASE state' = state /\ up' = up
    BY <1>1, <2>0, <2>3
  <2>4. \/ SendRequest(c)
        \/ state' = state /\ up' = up
        \/ SayHello(c) /\ up' = Append(up, "HELLO")
    <3>1. SayHello(c) => up' = Append(up, "HELLO") \/ (state' = state /\ up' = up)
      BY DEF SayHello, Request
    <3>2. Misplaced(c) => state' = state /\ up' = up
      BY DEF Misplaced, Fail
    <3>3. Swallow => state' = state /\ up' = up
      BY DEF Swallow
    <3>4. SayHello(c) \/ SendRequest(c) \/ Misplaced(c) \/ Swallow
      BY <1>2 DEF HandleMethod
    <3> QED BY <3>1, <3>2, <3>3, <3>4
  <2> QED BY <2>1, <2>2, <2>3, <2>4
<1>3. CASE HandleConnected \/ HandleTerm \/ HandleFlush
  BY <1>1, <1>3 DEF HandleConnected, HandleTerm, HandleFlush, kept
<1>4. CASE Expire
  <2>1. kept /\ UNCHANGED <<state, peer, down>>
    BY <1>4 DEF Expire, kept
  <2>2. up' = up \/ up' = Append(up, "PING")
    BY <1>4 DEF Expire, Request
  <2>3. "PING" \in Requests
    BY DEF Requests
  <2> QED BY <1>1, <1>w, <2>1, <2>2, <2>3
<1>5. CASE HandleProtocol
  <2>0. kept /\ peer' = peer
    BY <1>5 DEF HandleProtocol, kept
  <2>1. /\ down # <<>> /\ down' = Tail(down)
        /\ Head(down) # "INVALID"
    <3>1. down # <<>> /\ down' = Tail(down)
      BY <1>5 DEF HandleProtocol, HelloOk, PingOk, PerfOk, SocketOk, Result,
         Rejoin, UnhandledError, InternalError, Ignore, Took
    <3> QED BY <1>u, <2>0, <3>1 DEF InStep, Marks
  <2>2. UNCHANGED up
    BY <1>5, <2>1 DEF HandleProtocol, HelloOk, PingOk, PerfOk, SocketOk, Result,
       Rejoin, UnhandledError, InternalError, Ignore, Fail, Took
  <2>3. \A m : Count(down', m) # 0 => Count(down, m) # 0
    BY <1>u, <2>1 DEF Marks
  <2>4. Count(down, Head(down)) # 0
    BY <1>u, <2>1 DEF Marks
  <2>5. CASE UNCHANGED state
    BY <2>0, <2>2, <2>3, <2>5 DEF InStep
  <2>6. CASE HelloOk
    <3>1. state' = "connected" /\ Head(down) = "HELLO_OK"
      BY <2>6 DEF HelloOk, Become, Took
    <3> QED BY <2>0, <2>2, <2>3, <2>4, <3>1 DEF InStep
  <2>7. CASE PerfOk
    <3>1. state' = "have_perf" /\ Head(down) = "PERF_OK"
      BY <2>7 DEF PerfOk, Become, Took
    <3> QED BY <2>0, <2>2, <2>3, <2>4, <3>1 DEF InStep
  <2>8. UNCHANGED state \/ HelloOk \/ PerfOk
    BY <1>5, <2>1 DEF HandleProtocol, PingOk, SocketOk, Result,
       Rejoin, UnhandledError, InternalError, Ignore, Fail, Took
  <2> QED BY <2>5, <2>6, <2>7, <2>8
<1>6. CASE SignalReturns \/ ReadResult \/ Accept \/ \E c \in Calls : Call(c)
  BY <1>1, <1>6 DEF SignalReturns, ReadResult, Accept, Call, kept
<1>7. CASE PeerHandles
  <2>0. kept /\ UNCHANGED state
    BY <1>7, <1>0 DEF PeerHandles, Handles, Fault, kept
  <2>1. /\ up # <<>> /\ up' = Tail(up)
        /\ peer # "down" /\ Head(up) \in Requests
    BY <1>7, PipeTypes DEF PeerHandles, Typed, Pipes
  <2>2. PICK r \in Answers \cup Errors \cup {"nothing"} :
          Handles(Head(up), r) /\ Say(r)
    BY <1>7 DEF PeerHandles
  <2>3. ~Server!Refuse(Head(up), r) \/ ~Fault
    BY <1>0, <2>0 DEF Fault, kept
  <2>4. /\ Count(up, Head(up)) # 0
        /\ \A m : Count(up', m) # 0 => Count(up, m) # 0
        /\ Count(up, "HELLO") <= 1 => Count(up', "HELLO") <= 1
        /\ Count(up, Head(up)) <= 1 => Count(up', Head(up)) = 0
    BY <1>u, <2>1 DEF Marks
  <2>5. peer \in Server!Admits[Head(up)]
    BY <2>0, <2>1, Admitted
  <2>6. /\ r = Server!ReplyTo[Head(up)] /\ peer' = Server!Goes(Head(up))
    BY <2>1, <2>2, <2>3, <2>5 DEF Handles, Server!Serve, Server!Reject
  <2>7. r \in {"nothing", "HELLO_OK", "PERF_OK", "PING_OK"}
    BY <2>1, <2>6 DEF Server!ReplyTo, Requests
  <2>8. \A m : Count(down', m) # 0 => Count(down, m) # 0 \/ m = r
    BY <1>u, <2>2 DEF Marks, Say
  <2>9. Count(down', "INVALID") = 0
    BY <2>0, <2>7, <2>8 DEF InStep
  <2>10. CASE Head(up) = "HELLO"
    <3>1. peer = "none" /\ peer' = "connected" /\ r = "HELLO_OK"
      BY <2>5, <2>6, <2>10 DEF Server!Admits, Server!Goes, Server!ReplyTo
    <3>2. Count(up', "HELLO") = 0
      BY <2>0, <2>4, <2>10 DEF InStep
    <3>3. state # "start"
      BY <2>0, <2>4, <2>10 DEF InStep
    <3> QED BY <2>0, <2>4, <2>8, <2>9, <3>1, <3>2, <3>3 DEF InStep
  <2>11. CASE Head(up) = "CREATE"
    <3>1. peer \in {"connected", "have_perf"} /\ peer' = "have_perf" /\ r = "PERF_OK"
      BY <2>5, <2>6, <2>11 DEF Server!Admits, Server!Goes, Server!ReplyTo
    <3> QED BY <2>0, <2>4, <2>8, <2>9, <3>1 DEF InStep
  <2>12. CASE Head(up) \in {"SOCKET", "MEASURE", "PING"}
    <3>1. peer' = peer /\ r \in {"nothing", "PING_OK"}
      BY <2>6, <2>12 DEF Server!Goes, Server!ReplyTo
    <3> QED BY <2>0, <2>4, <2>8, <2>9, <3>1 DEF InStep
  <2> QED BY <2>1, <2>10, <2>11, <2>12 DEF Requests
<1>8. ASSUME NEW k \in DOMAIN owed, PeerAnswers(k)
      PROVE  InStep'
  <2>1. /\ kept /\ UNCHANGED <<state, up, peer>> /\ down' = Append(down, k)
        /\ k \in {"SOCKET_OK", "RESULT"}
    BY <1>8 DEF PeerAnswers, Say, Server!Answer, kept, Typed, Numbers,
       Server!Late
  <2>2. k \in Answers \cup Errors
    BY <2>1 DEF Answers
  <2>3. \A m : Count(down', m) # 0 => Count(down, m) # 0 \/ m = k
    BY <1>u, <2>1, <2>2 DEF Marks
  <2> QED BY <2>1, <2>3 DEF InStep
<1>9. CASE PeerStrays \/ PeerRestarts
  <2>1. astray \/ peer = "down"
    BY <1>9 DEF PeerStrays, PeerRestarts, Server!Stray, Server!Restart
  <2>2. kept
    BY <1>9 DEF PeerStrays, PeerRestarts, kept
  <2> QED BY <2>1, <2>2 DEF Remembered, InStep, kept
<1>10. CASE OtherRejected
  BY <1>1, <1>10 DEF OtherRejected, Server!Others, kept
<1>11. CASE PerfGivesUp \/ PeerForgets \/ GoesAstray \/ PeerDies
  <2>1. faults' = faults + 1
    BY <1>11 DEF PerfGivesUp, PeerForgets, GoesAstray, PeerDies, Fault
  <2> QED BY <1>0, <2>1 DEF kept
<1>12. CASE UNCHANGED vars
  BY <1>1, <1>12 DEF vars, kept
<1> QED BY <1>2, <1>3, <1>4, <1>5, <1>6, <1>7, <1>8, <1>9, <1>10, <1>11, <1>12
        DEF Next, HandleCmdpipe

(* Every action keeps $FLUSH with one signal and $TERM the last call. *)
LEMMA EndingStep == Typed /\ Ending /\ [Next]_vars => Ending'
<1> SUFFICES ASSUME Typed, Ending, [Next]_vars
             PROVE  Ending'
  OBVIOUS
<1> USE DEF client, net, server, caller, results, history
<1>c. Marks(Calls, cmds) /\ Marks(Replies, replies)
  BY PipeMarks DEF Typed, Pipes
<1>n. /\ \A m : Count(cmds, m) \in Nat /\ Count(replies, m) \in Nat
      /\ \A m : Count(cmds', m) \in Nat /\ Count(replies', m) \in Nat
  BY TypedStep, PipeCounts DEF Typed, Pipes, Sums
<1>1. ASSUME call' = call, flush' = flush \/ ~flush',
             cmds' = cmds \/ (cmds # <<>> /\ cmds' = Tail(cmds)),
             \/ replies' = replies
             \/ \E r \in Replies \ {"SIGNAL"} : replies' = Append(replies, r)
      PROVE  Ending'
  <2>1. /\ Count(cmds', "$TERM") # 0 => Count(cmds, "$TERM") # 0
        /\ Count(cmds, "$TERM") <= 1 => Count(cmds', "$TERM") <= 1
    BY <1>1, <1>c DEF Marks
  <2>2. Count(replies', "SIGNAL") = Count(replies, "SIGNAL")
    <3>1. CASE replies' = replies
      BY <3>1
    <3>2. ASSUME NEW r \in Replies \ {"SIGNAL"}, replies' = Append(replies, r)
          PROVE  Count(replies', "SIGNAL") = Count(replies, "SIGNAL")
      BY <3>2, AllSums DEF Sums
    <3> QED BY <1>1, <3>1, <3>2
  <2> QED BY <1>1, <2>1, <2>2 DEF Ending
<1>2. ASSUME NEW c \in Methods, HandleMethod(c)
      PROVE  Ending'
  <2>1. call' = call /\ flush' = flush /\ cmds # <<>> /\ cmds' = Tail(cmds)
    BY <1>2 DEF HandleMethod, Commanded
  <2>2. SayHello(c) => replies' = replies \/ replies' = Append(replies, "FAILURE")
    BY DEF SayHello, Signal
  <2>3. SendRequest(c)
          => replies' = replies \/ replies' = Append(replies, "SUCCESS")
    BY DEF SendRequest, Signal
  <2>4. Misplaced(c) => replies' = replies \/ replies' = Append(replies, "FAILURE")
    BY DEF Misplaced, Fail, Signal
  <2>5. Swallow => replies' = replies
    BY DEF Swallow
  <2>6. SayHello(c) \/ SendRequest(c) \/ Misplaced(c) \/ Swallow
    BY <1>2 DEF HandleMethod
  <2>7. "FAILURE" \in Replies \ {"SIGNAL"} /\ "SUCCESS" \in Replies \ {"SIGNAL"}
    BY DEF Replies
  <2> QED BY <1>1, <2>1, <2>2, <2>3, <2>4, <2>5, <2>6, <2>7
<1>3. CASE HandleConnected
  <2>1. "NUMBER" \in Replies \ {"SIGNAL"}
    BY DEF Replies
  <2> QED BY <1>1, <1>3, <2>1 DEF HandleConnected, Commanded, Signal
<1>4. CASE HandleFlush
  <2>1. /\ flush /\ ~flush' /\ UNCHANGED <<call, cmds>>
        /\ replies' = Append(replies, "SIGNAL")
    BY <1>4 DEF HandleFlush, Signal
  <2>2. call = "$FLUSH" /\ Count(replies, "SIGNAL") = 0
    BY <2>1 DEF Ending
  <2>3. Count(replies', "SIGNAL") <= 1
    BY <1>c, <2>1, <2>2 DEF Marks, Replies
  <2> QED BY <2>1, <2>2, <2>3 DEF Ending
<1>5. CASE HandleTerm
  <2>1. /\ cmds # <<>> /\ Head(cmds) = "$TERM" /\ cmds' = Tail(cmds)
        /\ UNCHANGED <<flush, replies>> /\ call' = "none"
    BY <1>5 DEF HandleTerm, Commanded
  <2>2. Count(cmds, "$TERM") # 0 /\ Count(cmds', "$TERM") = 0
    BY <1>c, <2>1 DEF Marks, Ending
  <2>3. call = "$TERM" /\ ~flush /\ Count(replies, "SIGNAL") = 0
    BY <2>2 DEF Ending
  <2>4. Count(replies', "SIGNAL") = 0 /\ ~flush'
    BY <2>1, <2>3
  <2> QED BY <2>2, <2>4 DEF Ending
<1>6. CASE Expire \/ SignalReturns \/ ReadResult \/ Peer \/ UNCHANGED vars
  <2>1. Peer => UNCHANGED <<call, flush, cmds, replies>>
    <3>1. PeerHandles \/ PeerStrays => UNCHANGED <<call, flush, cmds, replies>>
      BY DEF PeerHandles, PeerStrays
    <3>4. \A k \in DOMAIN owed :
            PeerAnswers(k) => UNCHANGED <<call, flush, cmds, replies>>
      BY DEF PeerAnswers
    <3>2. PerfGivesUp \/ PeerForgets \/ GoesAstray \/ PeerDies
            => UNCHANGED <<call, flush, cmds, replies>>
      BY DEF PerfGivesUp, PeerForgets, GoesAstray, PeerDies
    <3>3. PeerRestarts \/ OtherRejected => UNCHANGED <<call, flush, cmds, replies>>
      BY DEF PeerRestarts, OtherRejected
    <3> QED BY <3>1, <3>2, <3>3, <3>4 DEF Peer
  <2>2. Expire \/ SignalReturns \/ ReadResult \/ UNCHANGED vars
          => UNCHANGED <<call, flush, cmds, replies>>
    BY DEF Expire, SignalReturns, ReadResult, vars
  <2>3. call' = call /\ flush' = flush /\ cmds' = cmds /\ replies' = replies
    BY <1>6, <2>1, <2>2
  <2> QED BY <1>1, <2>3
<1>7. CASE HandleProtocol
  <2>1. call' = call /\ flush' = flush /\ cmds' = cmds
    BY <1>7 DEF HandleProtocol
  <2>2. \/ replies' = replies
        \/ \E r \in {"CONNECTED", "PERF_IDENT", "PERF_ENDPOINT", "FAILURE"} :
             replies' = Append(replies, r)
    <3>1. HelloOk \/ PerfOk \/ SocketOk
            => \/ replies' = replies
               \/ \E r \in {"CONNECTED", "PERF_IDENT", "PERF_ENDPOINT"} :
                    replies' = Append(replies, r)
      BY DEF HelloOk, PerfOk, SocketOk, Signal
    <3>2. PingOk \/ Result \/ Rejoin \/ Ignore => replies' = replies
      BY DEF PingOk, Result, Rejoin, Ignore, Forward
    <3>3. UnhandledError \/ InternalError
            => replies' = Append(replies, "FAILURE")
      BY DEF UnhandledError, InternalError, Fail, Signal
    <3>4. \/ HelloOk \/ PerfOk \/ SocketOk
          \/ PingOk \/ Result \/ Rejoin \/ Ignore
          \/ UnhandledError \/ InternalError
      BY <1>7 DEF HandleProtocol
    <3> QED BY <3>1, <3>2, <3>3, <3>4
  <2>3. \A r \in {"CONNECTED", "PERF_IDENT", "PERF_ENDPOINT", "FAILURE"} :
          r \in Replies \ {"SIGNAL"}
    BY DEF Replies
  <2>4. \/ replies' = replies
        \/ \E r \in Replies \ {"SIGNAL"} : replies' = Append(replies, r)
    BY <2>2, <2>3
  <2> QED BY <1>1, <2>1, <2>4
<1>8. ASSUME NEW c \in Calls, Call(c)
      PROVE  Ending'
  <2>1. /\ replies' = replies /\ call = "none" /\ call' = c /\ c # "$TERM"
        /\ \/ c = "$FLUSH" /\ cmds' = cmds
           \/ flush' = flush /\ cmds' = Append(cmds, c)
    BY <1>8 DEF Call
  <2>2. ~flush /\ Count(replies', "SIGNAL") = 0 /\ Count(cmds, "$TERM") = 0
    BY <1>n, <2>1 DEF Ending
  <2>3. Count(cmds', "$TERM") = 0
    <3>1. Count(Append(cmds, c), "$TERM") = 0
      BY <2>1, <2>2, AllSums DEF Sums
    <3> QED BY <2>1, <2>2, <3>1
  <2> QED BY <2>1, <2>2, <2>3 DEF Ending
<1>9. CASE Accept
  <2>1. replies # <<>> /\ replies' = Tail(replies) /\ flush' = flush
    BY <1>9 DEF Accept
  <2>2. /\ Count(replies', "SIGNAL") # 0 => Count(replies, "SIGNAL") # 0
        /\ Count(replies', "SIGNAL") <= 1
    BY <1>c, <2>1 DEF Marks, Ending
  <2>3. CASE call # "$FLUSH"
    <3>1. /\ call' = call \/ call \in Methods \cup {"$CONNECTED"}
          /\ cmds' = cmds
      BY <1>9, <2>3 DEF Accept
    <3>2. ~flush /\ Count(replies', "SIGNAL") = 0
      BY <1>n, <2>2, <2>3 DEF Ending
    <3>3. Count(cmds, "$TERM") # 0 => call' = "$TERM"
      BY <3>1 DEF Ending, Methods
    <3> QED BY <2>1, <3>1, <3>2, <3>3 DEF Ending
  <2>4. CASE call = "$FLUSH" /\ Head(replies) = "SIGNAL"
    <3>1. call' = "$TERM" /\ cmds' = Append(cmds, "$TERM")
      BY <1>9, <2>4 DEF Accept, Methods
    <3>2. Count(replies, "SIGNAL") # 0 /\ Count(replies', "SIGNAL") = 0
      BY <1>c, <2>1, <2>4 DEF Marks, Ending
    <3>3. ~flush'
      BY <2>1, <3>2 DEF Ending
    <3>4. Count(cmds, "$TERM") = 0
      BY <2>4 DEF Ending
    <3>5. Count(cmds', "$TERM") <= 1
      BY <1>c, <3>1, <3>4 DEF Marks, Calls
    <3> QED BY <3>1, <3>2, <3>3, <3>5 DEF Ending
  <2>5. CASE call = "$FLUSH" /\ Head(replies) # "SIGNAL"
    <3>1. call' = call /\ cmds' = cmds
      BY <1>9, <2>5 DEF Accept, Methods
    <3>2. Count(replies', "SIGNAL") = Count(replies, "SIGNAL")
      BY <2>1, <2>5, AllSums DEF Sums
    <3> QED BY <2>1, <3>1, <3>2 DEF Ending
  <2> QED BY <2>3, <2>4, <2>5
<1> QED BY <1>2, <1>3, <1>4, <1>5, <1>6, <1>7, <1>8, <1>9
        DEF Next, HandleCmdpipe, Peer

(* Every action keeps the balance of results: each moves one on, or adds a
   launch, or takes what the application reads. *)
LEMMA ConservedStep ==
  Typed /\ Remembered /\ InStep /\ Conserved /\ [Next]_vars => Conserved'
<1> SUFFICES ASSUME Typed, Remembered, InStep, Conserved, [Next]_vars,
                    Live', kept'
             PROVE  Conserved'
  BY DEF Conserved
<1> USE DEF client, net, server, caller, results, history, Live
<1> DEFINE Results == Count(down, "RESULT")
           Launches == Count(up, "MEASURE")
           Owed == owed["RESULT"]
           Blocked == Bit(actor = "blocked")
           Total == Sum5(unread, Blocked, Results, Owed, Launches)
<1> HIDE DEF Results, Launches, Owed, Blocked, Total
<1>n. /\ Results \in Nat /\ Launches \in Nat /\ Owed \in Nat
      /\ Blocked \in Nat /\ unread \in Nat /\ due \in Nat /\ faults \in Nat
  BY AllSums DEF Results, Launches, Owed, Blocked, Bit, Typed, Numbers, Sums,
     Server!Late
<1>m. /\ Results' \in Nat /\ Launches' \in Nat /\ Owed' \in Nat
      /\ Blocked' \in Nat /\ unread' \in Nat /\ due' \in Nat
  <2>1. Typed'
    BY TypedStep
  <2>2. Sums(Requests, up') /\ Sums(Answers \cup Errors, down')
    BY <2>1, PipeCounts DEF Typed, Pipes
  <2> QED BY <2>1, <2>2 DEF Results, Launches, Owed, Blocked, Bit, Typed,
      Numbers, Sums, Server!Late
<1>t. Live /\ kept => due = Total
  BY DEF Conserved, Total, Results, Launches, Owed, Blocked
<1>g. due' = Total' => Conserved'
  BY DEF Conserved, Total, Results, Launches, Owed, Blocked
<1>s. /\ Total = Sum5(unread, Blocked, Results, Owed, Launches)
      /\ Total' = Sum5(unread', Blocked', Results', Owed', Launches')
  BY DEF Total
<1>b. actor' = actor => Blocked' = Blocked
  BY DEF Blocked
<1>o. owed' = owed => Owed' = Owed
  BY DEF Owed
<1>d. down' = down => Results' = Results
  BY DEF Results
<1>p. up' = up => Launches' = Launches
  BY DEF Launches
<1>1. ASSUME Live, kept, unread' = unread, Blocked' = Blocked, Results' = Results,
             Owed' = Owed, Launches' = Launches, due' = due
      PROVE  Conserved'
  BY <1>1, <1>t, <1>g, <1>s, Zenon
<1>r. ASSUME NEW x \in Requests, x # "MEASURE", up' = Append(up, x)
      PROVE  Launches' = Launches
  BY <1>r, AllSums DEF Sums, Launches
<1>a. ASSUME NEW x \in Answers \cup Errors, x # "RESULT", down' = Append(down, x)
      PROVE  Results' = Results
  BY <1>a, AllSums DEF Sums, Results
<1>2. ASSUME NEW c \in Methods, HandleMethod(c)
      PROVE  Conserved'
  <2>1. kept /\ Owed' = Owed /\ Results' = Results
    BY <1>2, <1>o, <1>d DEF HandleMethod, kept
  <2>2. CASE actor = "running" /\ SayHello(c)
    <3>1. Live /\ due' = due /\ unread' = unread
      BY <2>2 DEF SayHello
    <3>2. actor' = actor /\ up' = Append(up, "HELLO")
      BY <2>2 DEF SayHello, Become, Request
    <3>3. Launches' = Launches
      BY <1>r, <3>2 DEF Requests
    <3> QED BY <1>1, <1>b, <2>1, <3>1, <3>2, <3>3
  <2>3. CASE actor = "running" /\ SendRequest(c) /\ c # "LAUNCH_MEASURE"
    <3>1. /\ Live /\ due' = due /\ unread' = unread /\ actor' = actor
          /\ c \in DOMAIN RequestFor /\ up' = Append(up, RequestFor[c])
      BY <2>3 DEF SendRequest, Request
    <3>2. RequestFor[c] \in Requests /\ RequestFor[c] # "MEASURE"
      BY <2>3, <3>1 DEF RequestFor, Requests
    <3>3. Launches' = Launches
      BY <1>r, <3>1, <3>2
    <3> QED BY <1>1, <1>b, <2>1, <3>1, <3>3
  <2>4. CASE actor = "running" /\ SendRequest(c) /\ c = "LAUNCH_MEASURE"
    <3>1. /\ Live /\ due' = due + 1 /\ unread' = unread /\ actor' = actor
          /\ up' = Append(up, "MEASURE")
      BY <2>4 DEF SendRequest, Request, RequestFor
    <3>2. Launches' = Launches + 1
      BY <3>1, AllSums DEF Sums, Requests, Launches
    <3>3. due + 1 = Sum5(unread, Blocked, Results, Owed, Launches + 1)
      BY <1>n, <1>t, <1>s, <2>1, <3>1 DEF Sum5
    <3> QED BY <1>g, <1>s, <1>b, <2>1, <3>1, <3>2, <3>3, Zenon
  <2>5. CASE actor = "running" /\ Misplaced(c)
    BY <2>5 DEF Misplaced, Fail
  <2>6. CASE actor = "stopped" /\ Swallow
    BY <2>6 DEF Swallow
  <2> QED BY <1>2, <2>2, <2>3, <2>4, <2>5, <2>6 DEF HandleMethod
<1>3. CASE HandleConnected \/ HandleFlush \/ UNCHANGED vars
  <2>1. /\ actor' = actor /\ owed' = owed /\ up' = up /\ down' = down
        /\ unread' = unread /\ due' = due /\ faults' = faults
    BY <1>3 DEF HandleConnected, HandleFlush, vars
  <2> QED BY <1>1, <1>b, <1>o, <1>d, <1>p, <2>1 DEF kept
<1>4. CASE HandleTerm
  BY <1>4 DEF HandleTerm
<1>5. CASE Expire
  <2>1. /\ actor' = actor /\ owed' = owed /\ down' = down
        /\ unread' = unread /\ due' = due /\ faults' = faults
    BY <1>5 DEF Expire
  <2>2. up' = up \/ up' = Append(up, "PING")
    BY <1>5 DEF Expire, Request
  <2>3. Launches' = Launches
    BY <1>p, <1>r, <2>2 DEF Requests
  <2> QED BY <1>1, <1>b, <1>o, <1>d, <2>1, <2>3 DEF kept
<1>6. CASE HandleProtocol
  <2>1. Owed' = Owed /\ due' = due /\ kept
    BY <1>6, <1>o DEF HandleProtocol, kept
  <2>2. actor = "running" /\ Live /\ Blocked = 0
    BY <1>6 DEF HandleProtocol, Ignore, Blocked, Bit
  <2>3. CASE HelloOk \/ PingOk \/ PerfOk \/ SocketOk
    <3>1. /\ down # <<>> /\ Head(down) # "RESULT" /\ down' = Tail(down)
          /\ actor' = actor /\ unread' = unread /\ up' = up
      BY <2>3 DEF HelloOk, PingOk, PerfOk, SocketOk, Took, Become
    <3>2. Results' = Results
      BY <3>1, AllSums DEF Sums, Results
    <3> QED BY <1>1, <1>b, <1>p, <2>1, <2>2, <3>1, <3>2
  <2>4. CASE Result
    <3>1. /\ down # <<>> /\ Head(down) = "RESULT" /\ down' = Tail(down)
          /\ up' = up
      BY <2>4 DEF Result, Took
    <3>2. Results = Results' + 1
      BY <3>1, AllSums DEF Sums, Results
    <3>3. CASE actor' = "blocked" /\ unread' = unread
      <4>1. Blocked' = 1
        BY <3>3 DEF Blocked, Bit
      <4>2. \A n \in Nat :
              Results = n + 1 => due = Sum5(unread, 1, n, Owed, Launches)
        BY <1>n, <1>t, <1>s, <2>1, <2>2 DEF Sum5
      <4>3. due = Sum5(unread, 1, Results', Owed, Launches)
        BY <1>m, <3>2, <4>2, Zenon
      <4> QED BY <1>g, <1>s, <1>p, <2>1, <3>1, <3>3, <4>1, <4>3, Zenon
    <3>4. CASE actor' = actor /\ unread' = unread + 1
      <4>1. \A n \in Nat :
              Results = n + 1
                => due = Sum5(unread + 1, Blocked, n, Owed, Launches)
        BY <1>n, <1>t, <1>s, <2>1, <2>2 DEF Sum5
      <4>2. due = Sum5(unread + 1, Blocked, Results', Owed, Launches)
        BY <1>m, <3>2, <4>1, Zenon
      <4> QED BY <1>g, <1>s, <1>b, <1>p, <2>1, <3>1, <3>4, <4>2, Zenon
    <3> QED BY <2>4, <3>3, <3>4 DEF Result, Forward
  <2>5. CASE Rejoin
    <3>1. down # <<>> /\ Head(down) = "INVALID"
      BY <2>5 DEF Rejoin, Took
    <3>2. Count(down, "INVALID") # 0
      BY <3>1, PipeMarks DEF Typed, Pipes, Marks
    <3> QED BY <2>1, <3>2 DEF InStep
  <2>6. CASE UnhandledError \/ InternalError
    BY <2>6 DEF UnhandledError, InternalError, Fail
  <2> QED BY <1>6, <2>2, <2>3, <2>4, <2>5, <2>6 DEF HandleProtocol
<1>7. CASE SignalReturns
  <2>1. /\ actor = "blocked" /\ actor' = "running" /\ unread' = unread + 1
        /\ owed' = owed /\ up' = up /\ down' = down /\ due' = due /\ kept
    BY <1>7 DEF SignalReturns, kept
  <2>2. Blocked = 1 /\ Blocked' = 0 /\ Live
    BY <2>1 DEF Blocked, Bit
  <2>3. due = Sum5(unread + 1, 0, Results, Owed, Launches)
    BY <1>n, <1>t, <1>s, <2>1, <2>2 DEF Sum5
  <2> QED BY <1>g, <1>s, <1>o, <1>d, <1>p, <2>1, <2>2, <2>3, Zenon
<1>8. CASE ReadResult
  <2>1. /\ unread > 0 /\ unread' = unread - 1
        /\ due' = IF due > 0 THEN due - 1 ELSE 0
        /\ actor' = actor /\ owed' = owed /\ up' = up /\ down' = down /\ kept
    BY <1>8 DEF ReadResult, kept
  <2>2. Live
    BY <2>1
  <2>3. (IF due > 0 THEN due - 1 ELSE 0)
          = Sum5(unread - 1, Blocked, Results, Owed, Launches)
    BY <1>n, <1>t, <1>s, <2>1, <2>2 DEF Sum5
  <2> QED BY <1>g, <1>s, <1>b, <1>o, <1>d, <1>p, <2>1, <2>3, Zenon
<1>9. CASE (\E c \in Calls : Call(c)) \/ Accept
  <2>1. /\ actor' = actor /\ owed' = owed /\ up' = up /\ down' = down
        /\ unread' = unread /\ due' = due /\ faults' = faults
    BY <1>9 DEF Call, Accept
  <2> QED BY <1>1, <1>b, <1>o, <1>d, <1>p, <2>1 DEF kept
<1>10. CASE PeerHandles
  <2>0. /\ kept /\ actor' = actor /\ unread' = unread /\ due' = due
        /\ ~astray /\ ~astray'
    <3>1. /\ faults' = faults \/ faults' = faults + 1
          /\ actor' = actor /\ unread' = unread /\ due' = due
          /\ astray' = astray
      BY <1>10 DEF PeerHandles, Handles, Fault
    <3>2. faults' # faults + 1
      BY <1>n DEF kept
    <3> QED BY <3>1, <3>2 DEF kept, Remembered
  <2>1. /\ up # <<>> /\ up' = Tail(up)
        /\ Head(up) \in Requests /\ peer \in Server!Admits[Head(up)]
    BY <1>10, <2>0, Admitted DEF PeerHandles
  <2>2. PICK r \in Answers \cup Errors \cup {"nothing"} :
          Handles(Head(up), r) /\ Say(r)
    BY <1>10 DEF PeerHandles
  <2>3. Server!Serve(Head(up), r)
    <3>1. ~Fault
      BY <1>n, <2>0 DEF Fault, kept
    <3> QED BY <2>1, <2>2, <3>1 DEF Handles, Server!Reject
  <2>4. r \in {"nothing", "HELLO_OK", "PERF_OK", "PING_OK"}
    BY <2>1, <2>3 DEF Server!Serve, Server!ReplyTo, Requests
  <2>5. Results' = Results
    <3>1. r # "nothing" => r \in Answers \cup Errors /\ r # "RESULT"
      BY <2>4 DEF Answers
    <3>2. r # "RESULT"
      BY <2>4
    <3> QED BY <1>a, <1>d, <2>2, <3>1, <3>2 DEF Say
  <2>6. CASE Head(up) = "MEASURE"
    <3>1. owed' = [owed EXCEPT !["RESULT"] = @ + 1]
      BY <2>0, <2>3, <2>6 DEF Server!Serve, Server!Owe, Server!LateFor
    <3>2. Owed' = Owed + 1
      BY <3>1 DEF Owed, Typed, Numbers, Server!Late
    <3>3. Launches = Launches' + 1
      BY <2>1, <2>6, AllSums DEF Sums, Launches
    <3>4. \A n \in Nat :
            Launches = n + 1 => due = Sum5(unread, Blocked, Results, Owed + 1, n)
      BY <1>n, <1>t, <1>s, <2>0 DEF Sum5
    <3>5. due = Sum5(unread, Blocked, Results, Owed + 1, Launches')
      BY <1>m, <3>3, <3>4, Zenon
    <3> QED BY <1>g, <1>s, <1>b, <2>0, <2>5, <3>2, <3>5, Zenon
  <2>7. CASE Head(up) # "MEASURE"
    <3>1. Owed' = Owed
      <4>1. owed' = owed \/ owed' = [owed EXCEPT !["SOCKET_OK"] = @ + 1]
        BY <2>0, <2>1, <2>3, <2>7 DEF Server!Serve, Server!Owe, Server!LateFor,
           Requests
      <4> QED BY <4>1 DEF Owed, Typed, Numbers, Server!Late
    <3>2. Launches' = Launches
      BY <2>1, <2>7, AllSums DEF Sums, Launches
    <3> QED BY <1>1, <1>b, <2>0, <2>5, <3>1, <3>2
  <2> QED BY <2>6, <2>7
<1>11. ASSUME NEW k \in DOMAIN owed, PeerAnswers(k)
       PROVE  Conserved'
  <2>1. /\ kept /\ actor' = actor /\ unread' = unread /\ due' = due
        /\ up' = up /\ down' = Append(down, k) /\ astray' = astray
        /\ k \in {"SOCKET_OK", "RESULT"} /\ owed[k] > 0
        /\ Server!Owe([owed EXCEPT ![k] = @ - 1])
    BY <1>11 DEF PeerAnswers, Say, Server!Answer, kept, Typed, Numbers,
       Server!Late
  <2>2. owed' = [owed EXCEPT ![k] = @ - 1]
    BY <2>1 DEF Server!Owe, Remembered, kept
  <2>3. CASE k = "RESULT"
    <3>1. Owed' = Owed - 1 /\ Owed > 0
      <4>1. "RESULT" \in DOMAIN owed
        BY DEF Typed, Numbers, Server!Late
      <4> QED BY <2>1, <2>2, <2>3, <4>1 DEF Owed
    <3>2. Results' = Results + 1
      BY <2>1, <2>3, AllSums DEF Sums, Results, Answers
    <3>3. due = Sum5(unread, Blocked, Results + 1, Owed - 1, Launches)
      BY <1>n, <1>t, <1>s, <2>1, <3>1 DEF Sum5
    <3> QED BY <1>g, <1>s, <1>b, <1>p, <2>1, <3>1, <3>2, <3>3, Zenon
  <2>4. CASE k = "SOCKET_OK"
    <3>1. Owed' = Owed
      <4>1. owed' = [owed EXCEPT !["SOCKET_OK"] = @ - 1]
        BY <2>2, <2>4
      <4> QED BY <4>1 DEF Owed, Typed, Numbers, Server!Late
    <3>2. Results' = Results
      BY <1>a, <2>1, <2>4 DEF Answers
    <3> QED BY <1>1, <1>b, <1>p, <2>1, <3>1, <3>2
  <2> QED BY <2>1, <2>3, <2>4
<1>12. CASE PeerStrays \/ PeerRestarts
  <2>1. kept /\ (astray \/ peer = "down")
    BY <1>12 DEF PeerStrays, PeerRestarts, Server!Stray, Server!Restart, kept
  <2> QED BY <2>1 DEF Remembered, InStep, kept
<1>13. CASE OtherRejected
  <2>1. /\ kept /\ actor' = actor /\ unread' = unread /\ due' = due
        /\ up' = up /\ down' = down /\ astray' = astray /\ Server!Owe(owed)
    BY <1>13 DEF OtherRejected, Server!Others, kept
  <2>2. owed' = owed
    BY <2>1 DEF Server!Owe, Remembered, kept
  <2> QED BY <1>1, <1>b, <1>o, <1>d, <1>p, <2>1, <2>2
<1>14. CASE PerfGivesUp \/ PeerForgets \/ GoesAstray \/ PeerDies
  <2>1. faults' = faults + 1
    BY <1>14 DEF PerfGivesUp, PeerForgets, GoesAstray, PeerDies, Fault
  <2> QED BY <1>n, <2>1 DEF kept
<1> QED BY <1>2, <1>3, <1>4, <1>5, <1>6, <1>7, <1>8, <1>9, <1>10, <1>11, <1>12,
           <1>13, <1>14 DEF Next, HandleCmdpipe

(* Every action keeps the call of a running machine in one place. *)
LEMMA OneCallStep ==
  Typed /\ Remembered /\ OneCall /\ [Next]_vars => OneCall'
<1> SUFFICES ASSUME Typed, Remembered, OneCall, [Next]_vars, Live', ~misled'
             PROVE  OneCall'
  BY DEF OneCall
<1> USE DEF client, net, server, caller, results, history, Live
<1>t. Typed'
  BY TypedStep
<1>p. /\ Ones(Calls, cmds) /\ Ones(Replies, replies)
      /\ Ones(Requests, up) /\ Ones(Answers \cup Errors, down)
  BY PipeOnes DEF Typed, Pipes
<1>q. Ones(Calls, cmds') /\ Ones(Replies, replies')
  BY <1>t, PipeOnes DEF Typed, Pipes
<1>h. /\ Held["command"] = Len(cmds) /\ Held["flush"] = Bit(flush)
      /\ Held["reply"] = Len(replies)
      /\ Held["hello"] = Bit(state = "expect_hello_ok")
      /\ Held["create"] = Count(up, "CREATE")
      /\ Held["created"] = Count(down, "PERF_OK")
      /\ Held["socket"] = Count(up, "SOCKET")
      /\ Held["owed"] = owed["SOCKET_OK"]
      /\ Held["answer"] = Count(down, "SOCKET_OK")
  BY DEF Held
<1>i. /\ Held'["command"] = Len(cmds') /\ Held'["flush"] = Bit(flush')
      /\ Held'["reply"] = Len(replies')
      /\ Held'["hello"] = Bit(state' = "expect_hello_ok")
      /\ Held'["create"] = Count(up', "CREATE")
      /\ Held'["created"] = Count(down', "PERF_OK")
      /\ Held'["socket"] = Count(up', "SOCKET")
      /\ Held'["owed"] = owed'["SOCKET_OK"]
      /\ Held'["answer"] = Count(down', "SOCKET_OK")
  BY DEF Held
<1>c. Live /\ ~misled =>
        /\ Alone(Held)
        /\ cmds # <<>> => Head(cmds) = call
        /\ replies # <<>> => call \in Calls /\ Head(replies) = ReplyTo[call]
        /\ \A p \in DOMAIN Caller : Held[p] # 0 => call = Caller[p]
  BY DEF OneCall
(* The call is where it was, or nowhere. *)
<1>1. ASSUME Live, ~misled, call' = call, cmds' = cmds, replies' = replies,
             \A p \in Places : Held'[p] = Held[p] \/ Held'[p] = 0
      PROVE  OneCall'
  <2>1. Alone(Held)'
    BY <1>1, <1>c DEF Alone
  <2>2. \A p \in DOMAIN Caller : p \in Places
    BY DEF Caller, Places
  <2>3. \A p \in DOMAIN Caller : Held'[p] # 0 => call' = Caller[p]
    BY <1>1, <1>c, <2>2
  <2> QED BY <1>1, <1>c, <2>1, <2>3 DEF OneCall
(* The call is in one place only. *)
<1>2. ASSUME NEW q \in Places,
             \A p \in Places : p # q => Held'[p] = 0,
             Held'[q] = 0 \/ Held'[q] = 1,
             q = "command" => cmds' = <<>> \/ Head(cmds') = call',
             q = "reply" => \/ replies' = <<>>
                            \/ call' \in Calls /\ Head(replies') = ReplyTo[call'],
             q \in DOMAIN Caller => Held'[q] = 0 \/ call' = Caller[q]
      PROVE  OneCall'
  <2>1. Alone(Held)'
    BY <1>2 DEF Alone
  <2>2. \A p \in DOMAIN Caller : Held'[p] # 0 => call' = Caller[p]
    BY <1>2 DEF Caller, Places
  <2>3. cmds' # <<>> => Head(cmds') = call'
    BY <1>2, <1>i, <1>q DEF Places, Ones
  <2>4. replies' # <<>> => call' \in Calls /\ Head(replies') = ReplyTo[call']
    BY <1>2, <1>i, <1>q DEF Places, Ones
  <2> QED BY <2>1, <2>2, <2>3, <2>4 DEF OneCall
(* Whatever is in a place is there alone. *)
<1>3. ASSUME Live, ~misled, NEW q \in Places, Held[q] # 0
      PROVE  Held[q] = 1 /\ \A p \in Places : p # q => Held[p] = 0
  BY <1>3, <1>c DEF Alone
<1>f. flush \in BOOLEAN /\ flush' \in BOOLEAN
  BY <1>t DEF Typed, Flags
<1>4. ASSUME NEW c \in Methods, HandleMethod(c)
      PROVE  OneCall'
  <2>0. actor = "running" /\ (SayHello(c) \/ SendRequest(c))
    <3>1. ~Misplaced(c)
      BY DEF Misplaced, Fail
    <3>2. ~(actor = "stopped" /\ Swallow)
      BY DEF Swallow
    <3> QED BY <1>4, <3>1, <3>2 DEF HandleMethod
  <2>1. /\ Live /\ ~misled /\ cmds # <<>> /\ Head(cmds) = c /\ cmds' = Tail(cmds)
        /\ call' = call /\ flush' = flush /\ down' = down /\ owed' = owed
    BY <1>4, <2>0 DEF HandleMethod, Commanded
  <2>2. /\ Held["command"] = 1 /\ call = c
        /\ \A p \in Places : p # "command" => Held[p] = 0
    <3>1. Held["command"] # 0
      BY <1>h, <1>p, <2>1 DEF Ones
    <3> QED BY <1>3, <1>c, <2>1, <3>1 DEF Places
  <2>3. /\ cmds' = <<>> /\ Held'["command"] = 0
        /\ Held'["flush"] = 0 /\ Held'["created"] = 0 /\ Held'["owed"] = 0
        /\ Held'["answer"] = 0
    <3>1. cmds' = <<>>
      BY <1>p, <1>h, <2>1, <2>2 DEF Ones
    <3>2. Held'["command"] = 0
      BY <1>i, <1>q, <3>1 DEF Ones
    <3> QED BY <1>h, <1>i, <2>1, <2>2, <3>1, <3>2 DEF Places
  <2>4. replies = <<>> /\ Count(up, "CREATE") = 0 /\ Count(up, "SOCKET") = 0
    BY <1>h, <1>p, <2>2 DEF Places, Ones
  <2>5. CASE SayHello(c)
    <3>1. /\ c = "SAY_HELLO" /\ state' = "expect_hello_ok"
          /\ up' = Append(up, "HELLO") /\ replies' = replies
      BY <2>5 DEF SayHello, Become, Request
    <3>2. /\ Held'["hello"] = 1 /\ Held'["reply"] = 0
          /\ Held'["create"] = 0 /\ Held'["socket"] = 0
      BY <1>h, <1>i, <1>p, <2>2, <2>4, <3>1 DEF Ones, Bit, Requests, Places
    <3>3. Caller["hello"] = "SAY_HELLO" /\ "hello" \in Places
      BY DEF Caller, Places
    <3>4. \A p \in Places : p # "hello" => Held'[p] = 0
      BY <2>3, <3>2 DEF Places
    <3> QED BY <1>2, <2>1, <2>2, <3>1, <3>2, <3>3, <3>4
  <2>6. CASE SendRequest(c) /\ c \in {"CREATE_PERF", "REQUEST_BORC"}
    <3>1. /\ state' = state /\ replies' = replies
          /\ up' = Append(up, RequestFor[c])
      BY <2>6 DEF SendRequest, Request
    <3>2. Held'["hello"] = 0 /\ Held'["reply"] = 0
      BY <1>h, <1>i, <2>2, <3>1 DEF Places
    <3>3. CASE c = "CREATE_PERF"
      <4>1. up' = Append(up, "CREATE")
        BY <3>1, <3>3 DEF RequestFor
      <4>2. Held'["create"] = 1 /\ Held'["socket"] = 0
        BY <1>i, <1>p, <2>4, <4>1 DEF Ones, Requests
      <4>3. Caller["create"] = "CREATE_PERF" /\ "create" \in Places
        BY DEF Caller, Places
      <4>4. \A p \in Places : p # "create" => Held'[p] = 0
        BY <2>3, <3>2, <4>2 DEF Places
      <4> QED BY <1>2, <2>1, <2>2, <3>3, <4>2, <4>3, <4>4
    <3>4. CASE c = "REQUEST_BORC"
      <4>1. up' = Append(up, "SOCKET")
        BY <3>1, <3>4 DEF RequestFor
      <4>2. Held'["create"] = 0 /\ Held'["socket"] = 1
        BY <1>i, <1>p, <2>4, <4>1 DEF Ones, Requests
      <4>3. Caller["socket"] = "REQUEST_BORC" /\ "socket" \in Places
        BY DEF Caller, Places
      <4>4. \A p \in Places : p # "socket" => Held'[p] = 0
        BY <2>3, <3>2, <4>2 DEF Places
      <4> QED BY <1>2, <2>1, <2>2, <3>4, <4>2, <4>3, <4>4
    <3> QED BY <2>6, <3>3, <3>4
  <2>7. CASE SendRequest(c) /\ c = "LAUNCH_MEASURE"
    <3>1. /\ state' = state /\ up' = Append(up, "MEASURE")
          /\ replies' = Append(replies, "SUCCESS")
      BY <2>7 DEF SendRequest, Request, Signal, RequestFor
    <3>2. /\ Held'["hello"] = 0 /\ Held'["reply"] = 1
          /\ Held'["create"] = 0 /\ Held'["socket"] = 0
      BY <1>h, <1>i, <1>p, <2>2, <2>4, <3>1 DEF Ones, Requests, Replies, Places
    <3>3. Head(replies') = ReplyTo[call'] /\ call' \in Calls
      BY <1>p, <2>1, <2>2, <2>4, <2>7, <3>1 DEF Ones, Replies, ReplyTo, Calls,
         Methods
    <3>4. \A p \in Places : p # "reply" => Held'[p] = 0
      BY <2>3, <3>2 DEF Places
    <3>5. "reply" \in Places /\ "reply" \notin DOMAIN Caller
      BY DEF Caller, Places
    <3> QED BY <1>2, <3>2, <3>3, <3>4, <3>5
  <2> QED BY <2>0, <2>5, <2>6, <2>7 DEF SendRequest, RequestFor
<1>5. CASE HandleConnected
  <2>1. /\ Live /\ ~misled /\ cmds # <<>> /\ Head(cmds) = "$CONNECTED"
        /\ cmds' = Tail(cmds) /\ replies' = Append(replies, "NUMBER")
        /\ call' = call /\ flush' = flush /\ down' = down /\ owed' = owed
        /\ up' = up /\ state' = state
    BY <1>5 DEF HandleConnected, Commanded, Signal
  <2>2. /\ Held["command"] = 1 /\ call = "$CONNECTED"
        /\ \A p \in Places : p # "command" => Held[p] = 0
    <3>1. Held["command"] # 0
      BY <1>h, <1>p, <2>1 DEF Ones
    <3> QED BY <1>3, <1>c, <2>1, <3>1 DEF Places
  <2>3. cmds' = <<>> /\ Held'["command"] = 0
    <3>1. cmds' = <<>>
      BY <1>p, <1>h, <2>1, <2>2 DEF Ones
    <3> QED BY <1>i, <1>q, <3>1 DEF Ones
  <2>4. replies = <<>>
    BY <1>h, <1>p, <2>2 DEF Places, Ones
  <2>5. \A p \in Places : p # "reply" => Held'[p] = 0
    BY <1>h, <1>i, <2>1, <2>2, <2>3 DEF Places
  <2>6. Held'["reply"] = 1 /\ Head(replies') = ReplyTo[call'] /\ call' \in Calls
    BY <1>i, <1>p, <2>1, <2>2, <2>4 DEF Ones, Replies, ReplyTo, Calls
  <2>7. "reply" \in Places /\ "reply" \notin DOMAIN Caller
    BY DEF Caller, Places
  <2> QED BY <1>2, <2>5, <2>6, <2>7
<1>6. CASE HandleFlush
  <2>1. /\ Live /\ ~misled /\ flush /\ ~flush' /\ cmds' = cmds
        /\ replies' = Append(replies, "SIGNAL")
        /\ call' = call /\ down' = down /\ owed' = owed
        /\ up' = up /\ state' = state
    BY <1>6 DEF HandleFlush, Signal
  <2>2. /\ Held["flush"] = 1 /\ call = "$FLUSH"
        /\ \A p \in Places : p # "flush" => Held[p] = 0
    <3>1. Held["flush"] = 1
      BY <1>h, <2>1 DEF Bit
    <3> QED BY <1>3, <1>c, <2>1, <3>1 DEF Places, Caller
  <2>3. Held'["flush"] = 0
    BY <1>i, <2>1 DEF Bit
  <2>4. replies = <<>>
    BY <1>h, <1>p, <2>2 DEF Places, Ones
  <2>5. \A p \in Places : p # "reply" => Held'[p] = 0
    BY <1>h, <1>i, <2>1, <2>2, <2>3 DEF Places
  <2>6. Held'["reply"] = 1 /\ Head(replies') = ReplyTo[call'] /\ call' \in Calls
    BY <1>i, <1>p, <2>1, <2>2, <2>4 DEF Ones, Replies, ReplyTo, Calls
  <2>7. "reply" \in Places /\ "reply" \notin DOMAIN Caller
    BY DEF Caller, Places
  <2> QED BY <1>2, <2>5, <2>6, <2>7
<1>7. CASE HandleTerm
  BY <1>7 DEF HandleTerm
<1>8. CASE Expire
  <2>1. /\ Live /\ ~misled /\ call' = call /\ cmds' = cmds /\ replies' = replies
        /\ flush' = flush /\ down' = down /\ owed' = owed /\ state' = state
    BY <1>8 DEF Expire
  <2>2. up' = up \/ up' = Append(up, "PING")
    BY <1>8 DEF Expire, Request
  <2>3. /\ Count(up', "CREATE") = Count(up, "CREATE")
        /\ Count(up', "SOCKET") = Count(up, "SOCKET")
    <3>1. "PING" \in Requests
      BY DEF Requests
    <3>2. \A m : m # "PING" => Count(Append(up, "PING"), m) = Count(up, m)
      BY <1>p, <3>1 DEF Ones
    <3> QED BY <2>2, <3>2
  <2>4. \A p \in Places : Held'[p] = Held[p]
    <3>1. /\ Held'["command"] = Held["command"] /\ Held'["flush"] = Held["flush"]
          /\ Held'["reply"] = Held["reply"] /\ Held'["hello"] = Held["hello"]
      BY <1>h, <1>i, <2>1, Zenon DEF Bit
    <3>2. /\ Held'["create"] = Held["create"]
          /\ Held'["created"] = Held["created"]
          /\ Held'["socket"] = Held["socket"]
      BY <1>h, <1>i, <2>1, <2>3, Zenon
    <3>3. /\ Held'["owed"] = Held["owed"] /\ Held'["answer"] = Held["answer"]
      BY <1>h, <1>i, <2>1, Zenon
    <3> QED BY <3>1, <3>2, <3>3 DEF Places
  <2> QED BY <1>1, <2>1, <2>4
<1>9. CASE HandleProtocol
  <2>0. /\ actor = "running"
        /\ \/ HelloOk /\ state = "expect_hello_ok"
           \/ HelloOk /\ state = "reconnecting"
           \/ PingOk \/ PerfOk \/ SocketOk \/ Result \/ Rejoin
    <3>1. ~UnhandledError /\ ~InternalError
      BY DEF UnhandledError, InternalError, Fail
    <3>2. ~(actor = "stopped" /\ Ignore)
      BY DEF Ignore
    <3>3. HelloOk => state = "expect_hello_ok" \/ state = "reconnecting"
      BY DEF HelloOk
    <3> QED BY <1>9, <3>1, <3>2, <3>3 DEF HandleProtocol
  <2>1. /\ Live /\ ~misled /\ call' = call /\ cmds' = cmds /\ flush' = flush
        /\ owed' = owed
    BY <1>9, <2>0 DEF HandleProtocol
  <2>2. ASSUME down # <<>>, down' = Tail(down)
        PROVE  /\ \A m : m # Head(down) => Count(down', m) = Count(down, m)
               /\ Count(down, Head(down)) # 0
               /\ Count(down, Head(down)) = 1 => Count(down', Head(down)) = 0
    BY <1>p, <2>2 DEF Ones
  <2>3. CASE HelloOk /\ state = "expect_hello_ok"
    <3>1. /\ down # <<>> /\ Head(down) = "HELLO_OK" /\ down' = Tail(down)
          /\ up' = up /\ state' = "connected"
          /\ replies' = Append(replies, "CONNECTED")
      BY <2>3 DEF HelloOk, Took, Become, Signal
    <3>2. /\ Count(down', "PERF_OK") = Count(down, "PERF_OK")
          /\ Count(down', "SOCKET_OK") = Count(down, "SOCKET_OK")
      BY <2>2, <3>1
    <3>3. /\ Held["hello"] # 0 /\ call = "SAY_HELLO"
          /\ \A p \in Places : p # "hello" => Held[p] = 0
      <4>1. Held["hello"] = 1
        BY <1>h, <2>3 DEF Bit
      <4> QED BY <1>3, <1>c, <2>1, <4>1 DEF Places, Caller
    <3>4. replies = <<>> /\ Held'["hello"] = 0
      BY <1>h, <1>i, <1>p, <3>1, <3>3 DEF Places, Ones, Bit
    <3>5. \A p \in Places : p # "reply" => Held'[p] = 0
      BY <1>h, <1>i, <2>1, <3>1, <3>2, <3>3, <3>4 DEF Places
    <3>6. Held'["reply"] = 1 /\ Head(replies') = ReplyTo[call'] /\ call' \in Calls
      BY <1>i, <1>p, <2>1, <3>1, <3>3, <3>4 DEF Ones, Replies, ReplyTo, Calls,
         Methods
    <3>7. "reply" \in Places /\ "reply" \notin DOMAIN Caller
      BY DEF Caller, Places
    <3> QED BY <1>2, <3>5, <3>6, <3>7
  <2>4. CASE PerfOk
    <3>1. /\ down # <<>> /\ Head(down) = "PERF_OK" /\ down' = Tail(down)
          /\ up' = up /\ state' = "have_perf" /\ state # "expect_hello_ok"
          /\ replies' = Append(replies, "PERF_IDENT")
      BY <2>4 DEF PerfOk, Took, Become, Signal, Announces, Online
    <3>2. Count(down', "SOCKET_OK") = Count(down, "SOCKET_OK")
      BY <2>2, <3>1
    <3>3. /\ Held["created"] = 1 /\ call = "CREATE_PERF"
          /\ \A p \in Places : p # "created" => Held[p] = 0
      <4>1. Held["created"] # 0
        BY <1>h, <2>2, <3>1
      <4> QED BY <1>3, <1>c, <2>1, <4>1 DEF Places, Caller
    <3>4. replies = <<>> /\ Held'["hello"] = 0 /\ Held'["created"] = 0
      <4>1. replies = <<>> /\ Held'["hello"] = 0
        BY <1>h, <1>i, <1>p, <3>1, <3>3 DEF Places, Ones, Bit
      <4> QED BY <1>h, <1>i, <2>2, <3>1, <3>3, <4>1
    <3>5. \A p \in Places : p # "reply" => Held'[p] = 0
      BY <1>h, <1>i, <2>1, <3>1, <3>2, <3>3, <3>4 DEF Places
    <3>6. Held'["reply"] = 1 /\ Head(replies') = ReplyTo[call'] /\ call' \in Calls
      BY <1>i, <1>p, <2>1, <3>1, <3>3, <3>4 DEF Ones, Replies, ReplyTo, Calls,
         Methods
    <3>7. "reply" \in Places /\ "reply" \notin DOMAIN Caller
      BY DEF Caller, Places
    <3> QED BY <1>2, <3>5, <3>6, <3>7
  <2>5. CASE SocketOk
    <3>1. /\ down # <<>> /\ Head(down) = "SOCKET_OK" /\ down' = Tail(down)
          /\ up' = up /\ state' = state
          /\ replies' = Append(replies, "PERF_ENDPOINT")
      BY <2>5 DEF SocketOk, Took, Signal
    <3>2. Count(down', "PERF_OK") = Count(down, "PERF_OK")
      BY <2>2, <3>1
    <3>3. /\ Held["answer"] = 1 /\ call = "REQUEST_BORC"
          /\ \A p \in Places : p # "answer" => Held[p] = 0
      <4>1. Held["answer"] # 0
        BY <1>h, <2>2, <3>1
      <4> QED BY <1>3, <1>c, <2>1, <4>1 DEF Places, Caller
    <3>4. replies = <<>> /\ Held'["answer"] = 0
      <4>1. replies = <<>>
        BY <1>h, <1>p, <3>3 DEF Places, Ones
      <4> QED BY <1>h, <1>i, <2>2, <3>1, <3>3, <4>1
    <3>5. \A p \in Places : p # "reply" => Held'[p] = 0
      BY <1>h, <1>i, <2>1, <3>1, <3>2, <3>3, <3>4 DEF Places
    <3>6. Held'["reply"] = 1 /\ Head(replies') = ReplyTo[call'] /\ call' \in Calls
      BY <1>i, <1>p, <2>1, <3>1, <3>3, <3>4 DEF Ones, Replies, ReplyTo, Calls,
         Methods
    <3>7. "reply" \in Places /\ "reply" \notin DOMAIN Caller
      BY DEF Caller, Places
    <3> QED BY <1>2, <3>5, <3>6, <3>7
  <2>6. CASE \/ HelloOk /\ state = "reconnecting"
            \/ PingOk \/ Result \/ Rejoin
    <3>1. /\ down # <<>> /\ Head(down) \in {"HELLO_OK", "PING_OK", "RESULT", "INVALID"}
          /\ down' = Tail(down) /\ replies' = replies
      BY <2>6 DEF HelloOk, PingOk, Result, Rejoin, Took, Forward
    <3>2. up' = up \/ up' = Append(up, "HELLO")
      BY <2>6 DEF HelloOk, PingOk, Result, Rejoin, Request
    <3>3. state' = state \/ state' # "expect_hello_ok"
      BY <2>6 DEF HelloOk, PingOk, Result, Rejoin, Become
    <3>4. /\ Count(down', "PERF_OK") = Count(down, "PERF_OK")
          /\ Count(down', "SOCKET_OK") = Count(down, "SOCKET_OK")
      BY <2>2, <3>1
    <3>5. /\ Count(up', "CREATE") = Count(up, "CREATE")
          /\ Count(up', "SOCKET") = Count(up, "SOCKET")
      <4>1. /\ Count(Append(up, "HELLO"), "CREATE") = Count(up, "CREATE")
            /\ Count(Append(up, "HELLO"), "SOCKET") = Count(up, "SOCKET")
        BY <1>p DEF Ones, Requests
      <4> QED BY <3>2, <4>1
    <3>6. Held'["hello"] = Held["hello"] \/ Held'["hello"] = 0
      BY <1>h, <1>i, <3>3 DEF Bit
    <3>7. \A p \in Places : Held'[p] = Held[p] \/ Held'[p] = 0
      BY <1>h, <1>i, <2>1, <3>1, <3>4, <3>5, <3>6 DEF Places
    <3> QED BY <1>1, <2>1, <3>1, <3>7
  <2> QED BY <2>0, <2>3, <2>4, <2>5, <2>6
<1>10. CASE SignalReturns \/ ReadResult \/ UNCHANGED vars
  <2>1. /\ Live /\ ~misled /\ call' = call /\ cmds' = cmds /\ replies' = replies
        /\ flush' = flush /\ down' = down /\ owed' = owed /\ state' = state
        /\ up' = up
    BY <1>10 DEF SignalReturns, ReadResult, vars
  <2>2. \A p \in Places : Held'[p] = Held[p]
    BY <1>h, <1>i, <2>1 DEF Places
  <2> QED BY <1>1, <2>1, <2>2
<1>11. ASSUME NEW c \in Calls, Call(c)
       PROVE  OneCall'
  <2>1. /\ Live /\ ~misled /\ call = "none" /\ call' = c /\ replies' = replies
        /\ down' = down /\ owed' = owed /\ state' = state /\ up' = up
    BY <1>11 DEF Call
  <2>2. \A p \in Places : Held[p] = 0
    <3>1. \A p \in DOMAIN Caller : Held[p] = 0
      BY <1>c, <2>1 DEF Caller
    <3>2. cmds = <<>>
      BY <1>c, <2>1, HeadTailProperties DEF Typed, Pipes, Calls, Methods
    <3>3. replies = <<>>
      BY <1>c, <2>1 DEF Calls, Methods
    <3> QED BY <1>h, <1>p, <3>1, <3>2, <3>3 DEF Places, Caller, Ones
  <2>3. cmds = <<>> /\ ~flush
    BY <1>h, <1>p, <2>2 DEF Ones, Places, Bit
  <2>4. CASE c = "$FLUSH"
    <3>1. cmds' = cmds /\ flush' = TRUE
      BY <1>11, <2>4 DEF Call
    <3>2. Held'["flush"] = 1 /\ \A p \in Places : p # "flush" => Held'[p] = 0
      BY <1>h, <1>i, <2>1, <2>2, <3>1 DEF Places, Bit
    <3> QED BY <1>2, <2>1, <2>4, <3>2 DEF Caller, Places
  <2>5. CASE c # "$FLUSH"
    <3>1. cmds' = Append(cmds, c) /\ flush' = flush
      BY <1>11, <2>5 DEF Call
    <3>2. Held'["command"] = 1 /\ Head(cmds') = call'
      BY <1>i, <1>p, <2>1, <2>3, <3>1 DEF Ones
    <3>3. \A p \in Places : p # "command" => Held'[p] = 0
      BY <1>h, <1>i, <2>1, <2>2, <3>1 DEF Places
    <3> QED BY <1>2, <3>2, <3>3 DEF Caller, Places
  <2> QED BY <2>4, <2>5
<1>12. CASE Accept
  <2>1. /\ Live /\ ~misled /\ replies # <<>> /\ replies' = Tail(replies)
        /\ down' = down /\ owed' = owed /\ state' = state /\ up' = up
        /\ flush' = flush
    BY <1>12 DEF Accept
  <2>2. /\ Held["reply"] = 1 /\ Head(replies) = ReplyTo[call]
        /\ \A p \in Places : p # "reply" => Held[p] = 0
    <3>1. Held["reply"] # 0
      BY <1>h, <1>p, <2>1 DEF Ones
    <3> QED BY <1>3, <1>c, <2>1, <3>1 DEF Places
  <2>3. replies' = <<>> /\ Held'["reply"] = 0
    <3>1. replies' = <<>>
      BY <1>p, <1>h, <2>1, <2>2 DEF Ones
    <3> QED BY <1>i, <1>q, <3>1 DEF Ones
  <2>4. cmds = <<>>
    BY <1>h, <1>p, <2>2 DEF Places, Ones
  <2>5. \/ cmds' = cmds
        \/ cmds' = Append(cmds, "$TERM") /\ call' = "$TERM"
    BY <1>12 DEF Accept
  <2>6. \A p \in Places : p # "command" => Held'[p] = 0
    BY <1>h, <1>i, <2>1, <2>2, <2>3 DEF Places
  <2>7. CASE cmds' = cmds
    <3>1. Held'["command"] = 0 /\ cmds' = <<>>
      BY <1>h, <1>i, <2>2, <2>4, <2>7 DEF Places
    <3> QED BY <1>2, <2>6, <3>1 DEF Caller, Places
  <2>8. CASE cmds' = Append(cmds, "$TERM") /\ call' = "$TERM"
    <3>1. Held'["command"] = 1 /\ Head(cmds') = call'
      BY <1>i, <1>p, <2>4, <2>8 DEF Ones, Calls
    <3> QED BY <1>2, <2>6, <3>1 DEF Caller, Places
  <2> QED BY <2>5, <2>7, <2>8
(* An answer m that is none to a call. *)
<1>d. ASSUME NEW m \in (Answers \cup Errors \cup {"nothing"})
                          \ {"PERF_OK", "SOCKET_OK"}, Say(m)
      PROVE  /\ Count(down', "PERF_OK") = Count(down, "PERF_OK")
             /\ Count(down', "SOCKET_OK") = Count(down, "SOCKET_OK")
  <2>1. m # "nothing" => m \in Answers \cup Errors
    BY <1>d
  <2>2. m # "PERF_OK" /\ m # "SOCKET_OK"
    BY <1>d
  <2>3. down' = down \/ (m # "nothing" /\ down' = Append(down, m))
    BY <1>d DEF Say
  <2>4. CASE m # "nothing" /\ down' = Append(down, m)
    <3>1. \A n : n # m => Count(Append(down, m), n) = Count(down, n)
      BY <1>p, <2>1, <2>4 DEF Ones
    <3> QED BY <2>2, <2>4, <3>1
  <2> QED BY <2>3, <2>4
<1>n. ~misled => ~astray
  BY DEF Remembered
<1>13. CASE PeerHandles
  <2>0. /\ Live /\ ~misled /\ call' = call /\ cmds' = cmds /\ replies' = replies
        /\ flush' = flush /\ state' = state /\ astray' = astray
        /\ up # <<>> /\ up' = Tail(up)
    BY <1>13 DEF PeerHandles
  <2>1. PICK r \in Answers \cup Errors \cup {"nothing"} :
          Handles(Head(up), r) /\ Say(r)
    BY <1>13 DEF PeerHandles
  <2>2. Head(up) \in Requests
    BY <2>0, HeadTailProperties DEF Typed, Pipes
  <2>3. /\ \A m : m # Head(up) => Count(up', m) = Count(up, m)
        /\ Count(up, Head(up)) # 0
        /\ Count(up, Head(up)) = 1 => Count(up', Head(up)) = 0
    BY <1>p, <2>0 DEF Ones
  <2>4. CASE Server!Serve(Head(up), r)
    <3>1. /\ r = Server!ReplyTo[Head(up)]
          /\ owed' = IF Head(up) \in {"SOCKET", "MEASURE"}
                     THEN [owed EXCEPT ![Server!LateFor[Head(up)]] = @ + 1]
                     ELSE owed
      BY <1>n, <2>0, <2>2, <2>4
         DEF Server!Serve, Server!Owe, Server!LateFor, Requests
    <3>2. CASE Head(up) = "CREATE"
      <4>1. owed' = owed /\ down' = Append(down, "PERF_OK")
        BY <2>1, <3>1, <3>2 DEF Say, Server!ReplyTo
      <4>2. /\ Held["create"] = 1 /\ call = "CREATE_PERF"
            /\ \A p \in Places : p # "create" => Held[p] = 0
        <5>1. Held["create"] # 0
          BY <1>h, <2>3, <3>2
        <5> QED BY <1>3, <1>c, <2>0, <5>1 DEF Places, Caller
      <4>3. Held'["create"] = 0 /\ Held'["socket"] = Held["socket"]
        BY <1>h, <1>i, <2>3, <3>2, <4>2
      <4>4. Held'["created"] = 1 /\ Held'["answer"] = Held["answer"]
        <5>1. Count(down, "PERF_OK") = 0 /\ "PERF_OK" \in Answers \cup Errors
          BY <1>h, <4>2 DEF Places, Answers
        <5> QED BY <1>h, <1>i, <1>p, <4>1, <5>1 DEF Ones
      <4>5. \A p \in Places : p # "created" => Held'[p] = 0
        BY <1>h, <1>i, <2>0, <4>1, <4>2, <4>3, <4>4 DEF Places
      <4> QED BY <1>2, <2>0, <4>2, <4>4, <4>5 DEF Caller, Places
    <3>3. CASE Head(up) = "SOCKET"
      <4>1. down' = down /\ owed' = [owed EXCEPT !["SOCKET_OK"] = @ + 1]
        <5>1. Server!LateFor["SOCKET"] = "SOCKET_OK" /\ r = "nothing"
          BY <3>1, <3>3 DEF Server!LateFor, Server!ReplyTo
        <5>2. owed' = [owed EXCEPT ![Server!LateFor["SOCKET"]] = @ + 1]
          BY <3>1, <3>3
        <5> QED BY <2>1, <5>1, <5>2 DEF Say
      <4>2. /\ Held["socket"] = 1 /\ call = "REQUEST_BORC"
            /\ \A p \in Places : p # "socket" => Held[p] = 0
        <5>1. Held["socket"] # 0
          BY <1>h, <2>3, <3>3
        <5> QED BY <1>3, <1>c, <2>0, <5>1 DEF Places, Caller
      <4>3. Held'["socket"] = 0 /\ Held'["create"] = Held["create"]
        BY <1>h, <1>i, <2>3, <3>3, <4>2
      <4>4. Held'["owed"] = 1
        <5>1. owed["SOCKET_OK"] = 0
          BY <1>h, <4>2 DEF Places
        <5>2. owed'["SOCKET_OK"] = 0 + 1
          BY <4>1, <5>1 DEF Typed, Numbers, Server!Late
        <5> QED BY <1>i, <5>2
      <4>5. \A p \in Places : p # "owed" => Held'[p] = 0
        BY <1>h, <1>i, <2>0, <4>1, <4>2, <4>3 DEF Places
      <4> QED BY <1>2, <2>0, <4>2, <4>4, <4>5 DEF Caller, Places
    <3>4. CASE Head(up) \in {"HELLO", "MEASURE", "PING"}
      <4>1. r \in {"HELLO_OK", "nothing", "PING_OK"}
        BY <3>1, <3>4 DEF Server!ReplyTo
      <4>2. /\ Count(down', "PERF_OK") = Count(down, "PERF_OK")
            /\ Count(down', "SOCKET_OK") = Count(down, "SOCKET_OK")
        BY <1>d, <2>1, <4>1 DEF Answers
      <4>3. owed'["SOCKET_OK"] = owed["SOCKET_OK"]
        <5>1. owed' = owed \/ owed' = [owed EXCEPT !["RESULT"] = @ + 1]
          <6>1. Server!LateFor["MEASURE"] = "RESULT"
            BY DEF Server!LateFor
          <6>2. \/ owed' = owed
                \/ owed' = [owed EXCEPT ![Server!LateFor["MEASURE"]] = @ + 1]
            BY <3>1, <3>4
          <6> QED BY <6>1, <6>2
        <5> QED BY <5>1 DEF Typed, Numbers, Server!Late
      <4>4. /\ Count(up', "CREATE") = Count(up, "CREATE")
            /\ Count(up', "SOCKET") = Count(up, "SOCKET")
        BY <2>3, <3>4
      <4>5. \A p \in Places : Held'[p] = Held[p]
        BY <1>h, <1>i, <2>0, <4>2, <4>3, <4>4 DEF Places
      <4> QED BY <1>1, <2>0, <4>5
    <3> QED BY <2>2, <3>2, <3>3, <3>4 DEF Requests
  <2>5. CASE Server!Reject(Head(up), r) \/ Server!Refuse(Head(up), r)
    <3>1. r \in {"INVALID", "ERROR"} /\ owed' = Server!Nothing
      BY <1>n, <2>0, <2>5
         DEF Server!Reject, Server!Refuse, Server!Drop, Server!Owe
    <3>2. /\ Count(down', "PERF_OK") = Count(down, "PERF_OK")
          /\ Count(down', "SOCKET_OK") = Count(down, "SOCKET_OK")
      BY <1>d, <2>1, <3>1 DEF Errors
    <3>3. owed'["SOCKET_OK"] = 0
      BY <3>1 DEF Server!Nothing, Server!Late
    <3>4. /\ Held'["create"] = Held["create"] \/ Held'["create"] = 0
          /\ Held'["socket"] = Held["socket"] \/ Held'["socket"] = 0
      <4>1. \A m \in {"CREATE", "SOCKET"} :
              Count(up', m) = Count(up, m) \/ Count(up', m) = 0
        <5>1. \A m \in {"CREATE", "SOCKET"} : Count(up, m) = 0 \/ Count(up, m) = 1
          BY <1>c, <1>h, <2>0 DEF Alone, Places
        <5> QED BY <2>3, <5>1
      <4> QED BY <1>h, <1>i, <4>1
    <3>5. \A p \in Places : Held'[p] = Held[p] \/ Held'[p] = 0
      BY <1>h, <1>i, <2>0, <3>2, <3>3, <3>4 DEF Places
    <3> QED BY <1>1, <2>0, <3>5
  <2> QED BY <2>1, <2>4, <2>5 DEF Handles
<1>14. ASSUME NEW k \in DOMAIN owed, PeerAnswers(k)
       PROVE  OneCall'
  <2>1. /\ Live /\ ~misled /\ call' = call /\ cmds' = cmds /\ replies' = replies
        /\ flush' = flush /\ state' = state /\ up' = up
        /\ k \in {"SOCKET_OK", "RESULT"} /\ owed[k] > 0
        /\ owed' = [owed EXCEPT ![k] = @ - 1]
        /\ down' = Append(down, k)
    <3>1. Server!Owe([owed EXCEPT ![k] = @ - 1]) /\ astray' = astray /\ ~misled
      BY <1>14 DEF PeerAnswers, Server!Answer
    <3>2. owed' = [owed EXCEPT ![k] = @ - 1]
      BY <1>n, <3>1 DEF Server!Owe
    <3>3. k \in {"SOCKET_OK", "RESULT"}
      BY DEF Typed, Numbers, Server!Late
    <3> QED BY <1>14, <3>2, <3>3 DEF PeerAnswers, Server!Answer, Say
  <2>2. CASE k = "SOCKET_OK"
    <3>1. /\ Held["owed"] = 1 /\ call = "REQUEST_BORC"
          /\ \A p \in Places : p # "owed" => Held[p] = 0
      <4>1. Held["owed"] # 0
        BY <1>h, <2>1, <2>2
      <4> QED BY <1>3, <1>c, <2>1, <4>1 DEF Places, Caller
    <3>2. Held'["owed"] = 0
      <4>1. owed' = [owed EXCEPT !["SOCKET_OK"] = @ - 1] /\ owed["SOCKET_OK"] = 1
        BY <1>h, <2>1, <2>2, <3>1
      <4>2. owed'["SOCKET_OK"] = 1 - 1
        BY <4>1 DEF Typed, Numbers, Server!Late
      <4> QED BY <1>i, <4>2
    <3>3. Held'["answer"] = 1 /\ Held'["created"] = 0
      <4>1. /\ Count(down, "SOCKET_OK") = 0 /\ Count(down, "PERF_OK") = 0
            /\ "SOCKET_OK" \in Answers \cup Errors
        BY <1>h, <3>1 DEF Places, Answers
      <4> QED BY <1>i, <1>p, <2>1, <2>2, <4>1 DEF Ones
    <3>4. \A p \in Places : p # "answer" => Held'[p] = 0
      BY <1>h, <1>i, <2>1, <3>1, <3>2, <3>3 DEF Places
    <3> QED BY <1>2, <2>1, <3>1, <3>3, <3>4 DEF Caller, Places
  <2>3. CASE k = "RESULT"
    <3>1. owed'["SOCKET_OK"] = owed["SOCKET_OK"]
      <4>1. owed' = [owed EXCEPT !["RESULT"] = @ - 1]
        BY <2>1, <2>3
      <4> QED BY <4>1 DEF Typed, Numbers, Server!Late
    <3>2. /\ Count(down', "PERF_OK") = Count(down, "PERF_OK")
          /\ Count(down', "SOCKET_OK") = Count(down, "SOCKET_OK")
      BY <1>p, <2>1, <2>3 DEF Ones, Answers
    <3>3. \A p \in Places : Held'[p] = Held[p]
      BY <1>h, <1>i, <2>1, <3>1, <3>2 DEF Places
    <3> QED BY <1>1, <2>1, <3>3
  <2> QED BY <2>1, <2>2, <2>3
<1>15. CASE PeerStrays \/ GoesAstray
  <2>1. PeerStrays => astray /\ misled' = misled
    BY DEF PeerStrays, Server!Stray
  <2>2. GoesAstray => misled'
    BY DEF GoesAstray
  <2> QED BY <1>15, <1>n, <2>1, <2>2
<1>16. CASE PerfGivesUp \/ PeerForgets \/ PeerRestarts \/ OtherRejected
  <2>1. /\ Live /\ ~misled /\ call' = call /\ cmds' = cmds /\ replies' = replies
        /\ flush' = flush /\ down' = down /\ state' = state /\ up' = up
    BY <1>16 DEF PerfGivesUp, PeerForgets, PeerRestarts, OtherRejected
  <2>2. owed'["SOCKET_OK"] = owed["SOCKET_OK"] \/ owed'["SOCKET_OK"] = 0
    <3>1. \/ owed' = [owed EXCEPT !["RESULT"] = @ - 1]
          \/ owed' = owed \/ owed' = Server!Nothing
      BY <1>16, <1>n, <2>1 DEF PerfGivesUp, PeerForgets, PeerRestarts,
         OtherRejected,
         Server!Lose, Server!Forget, Server!Restart, Server!Others, Server!Owe
    <3> QED BY <3>1 DEF Typed, Numbers, Server!Late, Server!Nothing
  <2>3. \A p \in Places : Held'[p] = Held[p] \/ Held'[p] = 0
    BY <1>h, <1>i, <2>1, <2>2 DEF Places
  <2> QED BY <1>1, <2>1, <2>3
<1>17. CASE PeerDies
  <2>1. /\ Live /\ ~misled /\ call' = call /\ cmds' = cmds /\ replies' = replies
        /\ flush' = flush /\ state' = state
        /\ \E i \in 1..Len(up) + 1 : up' = SubSeq(up, i, Len(up))
        /\ \E i \in 0..Len(down) : down' = SubSeq(down, 1, i)
        /\ owed' = Server!Nothing
    BY <1>17 DEF PeerDies, Server!Die
  <2>2. /\ \A m : Count(up, m) \in Nat /\ Count(up', m) \in Nat
        /\ \A m : Count(down, m) \in Nat /\ Count(down', m) \in Nat
    BY <1>t, CountType DEF Typed, Pipes
  <2>3. \A m : Count(up', m) <= Count(up, m) /\ Count(down', m) <= Count(down, m)
    <3>1. \A m : Count(up', m) <= Count(up, m)
      <4>1. PICK i \in 1..Len(up) + 1 : up' = SubSeq(up, i, Len(up))
        BY <2>1
      <4>2. 0 \in 0..Len(up) /\ up \in Seq(Requests)
        BY DEF Typed, Pipes
      <4>3. \A m : Count(SubSeq(up, i, Len(up)), m) <= Count(up, m)
        BY <4>2, CountPart
      <4> QED BY <4>1, <4>3, Zenon
    <3>2. \A m : Count(down', m) <= Count(down, m)
      <4>1. PICK i \in 0..Len(down) : down' = SubSeq(down, 1, i)
        BY <2>1
      <4>2. 1 \in 1..Len(down) + 1 /\ down \in Seq(Answers \cup Errors)
        BY DEF Typed, Pipes
      <4>3. \A m : Count(SubSeq(down, 1, i), m) <= Count(down, m)
        BY <4>2, CountPart
      <4> QED BY <4>1, <4>3, Zenon
    <3> QED BY <3>1, <3>2
  <2>4. \A n, k \in Nat : (n = 0 \/ n = 1) /\ k <= n => k = n \/ k = 0
    OBVIOUS
  <2>5. /\ \A m \in {"CREATE", "SOCKET"} : Count(up, m) = 0 \/ Count(up, m) = 1
        /\ \A m \in {"PERF_OK", "SOCKET_OK"} : Count(down, m) = 0 \/ Count(down, m) = 1
    BY <1>c, <1>h, <2>1 DEF Alone, Places
  <2>6. /\ \A m \in {"CREATE", "SOCKET"} :
             Count(up', m) = Count(up, m) \/ Count(up', m) = 0
        /\ \A m \in {"PERF_OK", "SOCKET_OK"} :
             Count(down', m) = Count(down, m) \/ Count(down', m) = 0
    BY <2>2, <2>3, <2>4, <2>5, Zenon
  <2>7. owed'["SOCKET_OK"] = 0
    BY <2>1 DEF Server!Nothing, Server!Late
  <2>8. \A p \in Places : Held'[p] = Held[p] \/ Held'[p] = 0
    <3>1. /\ Held'["create"] = Held["create"] \/ Held'["create"] = 0
          /\ Held'["socket"] = Held["socket"] \/ Held'["socket"] = 0
          /\ Held'["created"] = Held["created"] \/ Held'["created"] = 0
          /\ Held'["answer"] = Held["answer"] \/ Held'["answer"] = 0
      BY <1>h, <1>i, <2>6
    <3>2. Held'["owed"] = 0
      BY <1>i, <2>7
    <3>3. /\ Held'["command"] = Held["command"] /\ Held'["flush"] = Held["flush"]
          /\ Held'["reply"] = Held["reply"] /\ Held'["hello"] = Held["hello"]
      BY <1>h, <1>i, <2>1, Zenon DEF Bit
    <3> QED BY <3>1, <3>2, <3>3 DEF Places
  <2> QED BY <1>1, <2>1, <2>8
<1> QED BY <1>4, <1>5, <1>6, <1>7, <1>8, <1>9, <1>10, <1>11, <1>12, <1>13,
           <1>14,
           <1>15, <1>16, <1>17 DEF Next, HandleCmdpipe

(* Running or not, the actor has left one reply of a method at most. *)
LEMMA MethodReply ==
  ASSUME Typed, OneCall, OldReply, ~misled,
         NEW i \in DOMAIN replies,
         replies[i] \notin {"FAILURE", "NUMBER", "SIGNAL"}
  PROVE  i = 1 /\ call \in Methods /\ replies[i] = ReplyTo[call]
<1>1. CASE ~Live
  BY <1>1 DEF OldReply
<1>2. CASE Live
  <2>1. /\ replies \in Seq(Replies) /\ i \in 1..Len(replies)
        /\ replies # <<>> /\ Head(replies) = replies[1] /\ replies[i] \in Replies
    BY DEF Typed, Pipes
  <2>2. Held["reply"] = 0 \/ Held["reply"] = 1
    BY <1>2 DEF OneCall, Alone, Places
  <2>3. Len(replies) = 0 \/ Len(replies) = 1
    BY <2>2 DEF Held
  <2>4. i = 1
    BY <2>1, <2>3
  <2>5. call \in Calls /\ replies[i] = ReplyTo[call]
    BY <1>2, <2>1, <2>4 DEF OneCall
  <2>6. call \in Methods
    BY <2>1, <2>5 DEF ReplyTo, Replies, Calls, Methods
  <2> QED BY <2>4, <2>5, <2>6
<1> QED BY <1>1, <1>2

(* Every action leaves a stopped machine with one reply of a method at most. *)
LEMMA OldReplyStep ==
  Typed /\ Ending /\ OneCall /\ OldReply /\ [Next]_vars => OldReply'
<1> SUFFICES ASSUME Typed, Ending, OneCall, OldReply, [Next]_vars,
                    ~Live', ~misled'
             PROVE  OldReply'
  BY DEF OldReply
<1> USE DEF client, net, server, caller, results, history, Live
<1>1. ASSUME ~misled, call' = call, replies' = replies
      PROVE  OldReply'
  BY <1>1, MethodReply DEF OldReply
<1>2. ASSUME ~misled, call' = call, NEW r \in {"FAILURE", "NUMBER", "SIGNAL"},
             replies' = Append(replies, r)
      PROVE  OldReply'
  <2>1. SUFFICES ASSUME NEW i \in DOMAIN replies',
                        replies'[i] \notin {"FAILURE", "NUMBER", "SIGNAL"}
                 PROVE  i = 1 /\ call \in Methods /\ replies'[i] = ReplyTo[call]
    BY <1>2 DEF OldReply
  <2>2. r \in Replies /\ replies \in Seq(Replies)
    BY <1>2 DEF Replies, Typed, Pipes
  <2>3. /\ DOMAIN replies' = 1..Len(replies) + 1 /\ Len(replies) \in Nat
        /\ \A k \in 1..Len(replies) : replies'[k] = replies[k]
        /\ replies'[Len(replies) + 1] = r
    BY <1>2, <2>2, AppendProperties
  <2>4. i \in 1..Len(replies)
    BY <1>2, <2>1, <2>3
  <2>5. replies[i] \notin {"FAILURE", "NUMBER", "SIGNAL"} /\ i \in DOMAIN replies
    BY <2>1, <2>2, <2>3, <2>4
  <2> QED BY <1>2, <2>3, <2>4, <2>5, MethodReply
<1>3. ASSUME ~misled, call \notin Methods, replies' = replies
      PROVE  OldReply'
  BY <1>3, MethodReply DEF OldReply
<1>4. ASSUME NEW c \in Methods, HandleMethod(c)
      PROVE  OldReply'
  <2>1. ~misled /\ call' = call
    BY <1>4 DEF HandleMethod
  <2>2. SayHello(c) => replies' = replies \/ replies' = Append(replies, "FAILURE")
    BY DEF SayHello, Signal
  <2>3. ~(actor = "running" /\ SendRequest(c))
    BY DEF SendRequest
  <2>4. Misplaced(c) => replies' = replies \/ replies' = Append(replies, "FAILURE")
    BY DEF Misplaced, Fail, Signal
  <2>5. Swallow => replies' = replies
    BY DEF Swallow
  <2>6. SayHello(c) \/ Misplaced(c) \/ Swallow
    BY <1>4, <2>3 DEF HandleMethod
  <2> QED BY <1>1, <1>2, <2>1, <2>2, <2>4, <2>5, <2>6
<1>5. CASE HandleConnected
  BY <1>2, <1>5 DEF HandleConnected, Signal
<1>6. CASE HandleFlush
  BY <1>2, <1>6 DEF HandleFlush, Signal
<1>7. CASE HandleTerm
  <2>1. cmds # <<>> /\ Head(cmds) = "$TERM" /\ replies' = replies /\ ~misled
    BY <1>7 DEF HandleTerm, Commanded
  <2>2. Count(cmds, "$TERM") # 0
    BY <2>1, PipeMarks DEF Typed, Pipes, Marks
  <2>3. call \notin Methods
    BY <2>2 DEF Ending, Methods
  <2> QED BY <1>3, <2>1, <2>3
<1>8. CASE HandleProtocol
  <2>1. ~misled /\ call' = call
    BY <1>8 DEF HandleProtocol
  <2>2. UnhandledError \/ InternalError => replies' = Append(replies, "FAILURE")
    BY DEF UnhandledError, InternalError, Fail, Signal
  <2>3. Ignore => replies' = replies
    BY DEF Ignore
  <2>4. ~(/\ actor = "running"
          /\ HelloOk \/ PingOk \/ PerfOk \/ SocketOk \/ Result \/ Rejoin)
    <3>1. actor = "running" => ~HelloOk /\ ~PingOk /\ ~PerfOk
      BY DEF HelloOk, PingOk, PerfOk, Become
    <3>2. actor = "running" => ~SocketOk /\ ~Result /\ ~Rejoin
      BY DEF SocketOk, Result, Rejoin, Become, Forward
    <3> QED BY <3>1, <3>2
  <2>5. UnhandledError \/ InternalError \/ Ignore
    BY <1>8, <2>4 DEF HandleProtocol
  <2> QED BY <1>1, <1>2, <2>1, <2>2, <2>3, <2>5
<1>9. CASE Expire \/ SignalReturns \/ ReadResult \/ UNCHANGED vars
  <2>1. ~misled /\ call' = call /\ replies' = replies
    BY <1>9 DEF Expire, SignalReturns, ReadResult, vars
  <2> QED BY <1>1, <2>1
<1>10. ASSUME NEW c \in Calls, Call(c)
       PROVE  OldReply'
  <2>1. ~misled /\ call \notin Methods /\ replies' = replies
    BY <1>10 DEF Call, Methods
  <2> QED BY <1>3, <2>1
<1>11. CASE Accept
  <2>1. ~misled /\ replies # <<>> /\ replies' = Tail(replies)
    BY <1>11 DEF Accept
  <2>2. SUFFICES ASSUME NEW i \in DOMAIN replies',
                        replies'[i] \notin {"FAILURE", "NUMBER", "SIGNAL"}
                 PROVE  FALSE
    BY DEF OldReply
  <2>3. /\ i \in Nat /\ i + 1 \in DOMAIN replies /\ replies'[i] = replies[i + 1]
        /\ i + 1 # 1
    BY <2>1, <2>2 DEF Typed, Pipes
  <2>4. replies[i + 1] \notin {"FAILURE", "NUMBER", "SIGNAL"}
    BY <2>2, <2>3
  <2>5. i + 1 = 1
    BY <2>1, <2>3, <2>4, MethodReply
  <2> QED BY <2>3, <2>5
<1>12. CASE Peer
  <2>1. call' = call /\ replies' = replies /\ (misled' = misled \/ misled')
    <3>1. PeerHandles \/ PeerStrays
            => call' = call /\ replies' = replies /\ misled' = misled
      BY DEF PeerHandles, PeerStrays
    <3>2. \A k \in DOMAIN owed :
            PeerAnswers(k) => call' = call /\ replies' = replies /\ misled' = misled
      BY DEF PeerAnswers
    <3>3. GoesAstray => call' = call /\ replies' = replies /\ misled'
      BY DEF GoesAstray
    <3>4. PerfGivesUp \/ PeerForgets \/ PeerDies \/ PeerRestarts \/ OtherRejected
            => call' = call /\ replies' = replies /\ misled' = misled
      BY DEF PerfGivesUp, PeerForgets, PeerDies, PeerRestarts, OtherRejected
    <3> QED BY <1>12, <3>1, <3>2, <3>3, <3>4 DEF Peer
  <2> QED BY <1>1, <2>1
<1> QED BY <1>4, <1>5, <1>6, <1>7, <1>8, <1>9, <1>10, <1>11, <1>12
        DEF Next, HandleCmdpipe, Peer

-----------------------------------------------------------------------------
(* The theorems *)

(* The inductive invariant, in the order in which the parts are proved. *)
Inv == /\ Typed /\ OneLaunch /\ Remembered /\ InStep /\ Conserved
       /\ Ending /\ OneCall /\ OldReply

(* The invariant holds before the first call. *)
LEMMA InvInit == Init => Inv
<1> SUFFICES ASSUME Init
             PROVE  Inv
  OBVIOUS
<1>1. \A m : Count(<<>>, m) = 0
  BY CountEmpty
<1>2. Typed
  BY TypeInit
<1>3. OneLaunch
  BY <1>1, ClientConstants DEF Init, OneLaunch, Waiting, Replied, Launching,
     Bit, Live
<1>4. Remembered
  BY DEF Init, Remembered
<1>5. InStep
  BY <1>1 DEF Init, InStep
<1>6. Conserved
  BY <1>1 DEF Init, Conserved, Sum5, Bit, Server!Nothing, Server!Late
<1>7. Ending
  BY <1>1 DEF Init, Ending
<1>8. OneCall
  <2>1. \A p \in Places : Held[p] = 0
    BY <1>1 DEF Init, Held, Places, Bit, Server!Nothing, Server!Late
  <2> QED BY <2>1 DEF Init, OneCall, Alone, Caller, Places
<1>9. OldReply
  BY DEF Init, OldReply, Live
<1> QED BY <1>2, <1>3, <1>4, <1>5, <1>6, <1>7, <1>8, <1>9 DEF Inv

(* Every step keeps the invariant. *)
LEMMA InvStep == Inv /\ [Next]_vars => Inv'
BY TypedStep, OneLaunchStep, RememberedStep, InStepStep, ConservedStep,
   EndingStep,
   OneCallStep, OldReplyStep DEF Inv

(* The invariant holds of every behaviour. *)
LEMMA Invariance == Spec => []Inv
BY InvInit, InvStep, PTL DEF Spec

(* Every variable keeps its type, and due its bound: an application launches
   with room for the result, however the launch and the results cross. *)
THEOREM ClientTypes == Spec => []TypeOK
<1>1. Inv => TypeOK
  <2> SUFFICES ASSUME Inv
               PROVE  TypeOK
    OBVIOUS
  <2>1. Typed /\ OneLaunch /\ due \in Nat /\ MaxDue \in Nat
    BY ClientConstants DEF Inv, Typed, Numbers
  <2>2. Waiting \in Nat
    BY <2>1, AllSums DEF Waiting, Sums
  <2>3. due <= MaxDue
    BY <2>1, <2>2 DEF OneLaunch
  <2> QED BY <2>1, <2>3, TypeParts
<1> QED BY <1>1, Invariance, PTL

(* The server never rejects a request of a client it has kept. *)
THEOREM ServerTakesAll == Spec => []ServerTakesEveryRequest
<1>1. Inv => ServerTakesEveryRequest
  BY DEF Inv, InStep, ServerTakesEveryRequest
<1> QED BY <1>1, Invariance, PTL

(* A reply is the one the application waits for, and the only one. *)
THEOREM RepliesMatch == Spec => []RepliesMatchTheCall
<1>1. Inv => RepliesMatchTheCall
  <2> SUFFICES ASSUME Inv, ~misled, NEW i \in DOMAIN replies
               PROVE  CASE replies[i] = "FAILURE" -> TRUE
                        [] replies[i] = "NUMBER" ->
                             actor = "running" => call = "$CONNECTED"
                        [] replies[i] = "SIGNAL" -> call = "$FLUSH"
                        [] OTHER -> /\ call \in Methods
                                    /\ replies[i] \in Filters[call]
                                    /\ Count(replies, replies[i]) = 1
    BY DEF RepliesMatchTheCall
  <2>1. /\ Typed /\ replies \in Seq(Replies) /\ i \in 1..Len(replies)
        /\ replies # <<>> /\ Head(replies) = replies[1] /\ replies[i] \in Replies
    BY DEF Inv, Typed, Pipes
  <2>2. Count(replies, replies[i]) # 0
    BY <2>1, CountType
  <2>3. ASSUME replies[i] = "NUMBER", actor = "running"
        PROVE  call = "$CONNECTED"
    <3>1. Held["reply"] = 0 \/ Held["reply"] = 1
      BY <2>3 DEF Inv, OneCall, Live, Alone, Places
    <3>2. i = 1
      BY <2>1, <3>1 DEF Held
    <3>3. call \in Calls /\ ReplyTo[call] = "NUMBER"
      BY <2>1, <2>3, <3>2 DEF Inv, OneCall, Live
    <3> QED BY <3>3 DEF ReplyTo, Calls, Methods
  <2>4. ASSUME replies[i] = "SIGNAL"
        PROVE  call = "$FLUSH"
    BY <2>2, <2>4 DEF Inv, Ending
  <2>5. ASSUME replies[i] \notin {"FAILURE", "NUMBER", "SIGNAL"}
        PROVE  /\ call \in Methods /\ replies[i] \in Filters[call]
               /\ Count(replies, replies[i]) = 1
    <3>1. i = 1 /\ call \in Methods /\ replies[i] = ReplyTo[call]
      BY <2>1, <2>5, MethodReply DEF Inv
    <3>2. replies[i] \in Filters[call]
      BY <3>1 DEF Filters, ReplyTo, Methods, Calls
    <3>3. \A j \in DOMAIN replies : replies[j] = replies[i] => j = 1
      BY <2>1, <2>5, MethodReply DEF Inv
    <3>4. {j \in DOMAIN replies : replies[j] = replies[i]} = {1}
      BY <2>1, <3>1, <3>3
    <3>5. Count(replies, replies[i]) = 1
      BY <3>4, FS_Singleton DEF Count
    <3> QED BY <3>1, <3>2, <3>5
  <2> QED BY <2>3, <2>4, <2>5
<1> QED BY <1>1, Invariance, PTL

(* Every result the application has yet to read is in one place. *)
THEOREM ResultsAreConserved == Spec => []ResultsConserved
<1>1. Inv => ResultsConserved
  BY DEF Inv, Conserved, Live, Sum5, Bit, ResultsConserved
<1> QED BY <1>1, Invariance, PTL
=============================================================================
