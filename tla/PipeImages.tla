----------------------------- MODULE PipeImages -----------------------------
(***************************************************************************)
(* A pipe seen through an operator on its messages: what is done to one is *)
(* done to the other.  PerfActor and PerfServer are mapped to PerfPipe     *)
(* this way.                                                               *)
(***************************************************************************)
EXTENDS Sequences, TLAPS, SequenceTheorems

CONSTANT Of(_) \* what is seen of a message

Image(s) == [i \in DOMAIN s |-> Of(s[i])]

(* The image of a pipe that is read is the image read, of one that is written
   the image written. *)
LEMMA ImageOf ==
  ASSUME NEW S, NEW s \in Seq(S), NEW T, \A x \in S : Of(x) \in T
  PROVE  /\ Image(s) \in Seq(T)
         /\ s # <<>> => /\ Image(s) # <<>>
                        /\ Head(Image(s)) = Of(Head(s))
                        /\ Image(Tail(s)) = Tail(Image(s))
         /\ \A x \in S : Image(Append(s, x)) = Append(Image(s), Of(x))
<1> DEFINE m == Image(s)
<1>1. /\ m \in Seq(T) /\ Len(m) = Len(s) /\ Len(s) \in Nat
      /\ \A i \in 1..Len(s) : m[i] = Of(s[i])
  <2>1. DOMAIN s = 1..Len(s) /\ Len(s) \in Nat
    BY LenProperties
  <2>2. \A i \in 1..Len(s) : Of(s[i]) \in T
    OBVIOUS
  <2>3. m = [i \in 1..Len(s) |-> Of(s[i])]
    BY <2>1 DEF Image
  <2>4. m \in Seq(T)
    BY <2>1, <2>2, <2>3
  <2> QED BY <2>1, <2>3, <2>4
<1>2. ASSUME s # <<>>
      PROVE  m # <<>> /\ Head(m) = Of(Head(s)) /\ Image(Tail(s)) = Tail(m)
  <2> DEFINE t == Tail(s)  u == Tail(m)
  <2>1. m # <<>> /\ Head(m) = m[1] /\ Head(s) = s[1] /\ 1 \in 1..Len(s)
    BY <1>1, <1>2
  <2>2. /\ t \in Seq(S) /\ Len(t) = Len(s) - 1 /\ DOMAIN t = 1..Len(t)
        /\ \A i \in 1..Len(t) : t[i] = s[i + 1]
    BY <1>2, HeadTailProperties, LenProperties
  <2>3. /\ u \in Seq(T) /\ Len(u) = Len(m) - 1 /\ u \in [1..Len(u) -> T]
        /\ \A i \in 1..Len(u) : u[i] = m[i + 1]
    BY <1>1, <2>1, HeadTailProperties, LenProperties
  <2> HIDE DEF t, u, m
  <2>4. Len(u) = Len(t) /\ \A i \in 1..Len(t) : u[i] = Of(t[i])
    BY <1>1, <2>2, <2>3
  <2>5. u = [i \in 1..Len(t) |-> Of(t[i])]
    BY <2>3, <2>4
  <2> QED BY <1>1, <2>1, <2>2, <2>5 DEF Image, t, u, m
<1>3. ASSUME NEW x \in S
      PROVE  Image(Append(s, x)) = Append(m, Of(x))
  <2> DEFINE t == Append(s, x)  u == Append(m, Of(x))
  <2>1. /\ t \in Seq(S) /\ Len(t) = Len(s) + 1 /\ DOMAIN t = 1..Len(t)
        /\ t[Len(s) + 1] = x /\ \A i \in 1..Len(s) : t[i] = s[i]
    BY AppendProperties, LenProperties
  <2>2. /\ u \in Seq(T) /\ Len(u) = Len(m) + 1
        /\ u[Len(m) + 1] = Of(x) /\ \A i \in 1..Len(m) : u[i] = m[i]
    BY <1>1, AppendProperties
  <2>3. u \in [1..Len(u) -> T]
    BY <2>2, LenProperties
  <2> HIDE DEF t, u, m
  <2>4. Len(u) = Len(t) /\ \A i \in 1..Len(t) : u[i] = Of(t[i])
    BY <1>1, <2>1, <2>2
  <2>5. u = [i \in 1..Len(t) |-> Of(t[i])]
    BY <2>3, <2>4
  <2> QED BY <2>1, <2>5 DEF Image, t, u
<1> QED BY <1>1, <1>2, <1>3
=============================================================================
