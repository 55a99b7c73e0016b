---------------------------- MODULE SequenceFacts ----------------------------
(***************************************************************************)
(* Facts about sequences as the action channels use them: what is appended *)
(* and taken off, by index. They are cited by the proofs of the modules    *)
(* with a channel.                                                         *)
(***************************************************************************)
EXTENDS Integers, Sequences, SequenceTheorems, WellFoundedInduction, TLAPS

\* What Append does, by index.
LEMMA AppendFacts ==
  ASSUME NEW S, NEW s \in Seq(S), NEW x \in S
  PROVE  /\ Append(s, x) \in Seq(S)
         /\ Len(s) \in Nat
         /\ DOMAIN s = 1..Len(s)
         /\ DOMAIN Append(s, x) = 1..(Len(s) + 1)
         /\ \A i \in DOMAIN s : Append(s, x)[i] = s[i]
         /\ Append(s, x)[Len(s) + 1] = x
  OBVIOUS

\* What Head and Tail do, by index.
LEMMA TailFacts ==
  ASSUME NEW S, NEW s \in Seq(S), s # << >>
  PROVE  /\ Tail(s) \in Seq(S)
         /\ Len(s) \in Nat
         /\ DOMAIN s = 1..Len(s)
         /\ 1 \in DOMAIN s
         /\ Head(s) = s[1]
         /\ Head(s) \in S
         /\ DOMAIN Tail(s) = 1..(Len(s) - 1)
         /\ \A i \in DOMAIN Tail(s) : i + 1 \in DOMAIN s /\ Tail(s)[i] = s[i + 1]
  OBVIOUS

\* Appending to a channel: the index of every action of the new channel.
LEMMA Dispatched ==
  ASSUME NEW S, NEW c \in Seq(S), NEW a \in S
  PROVE  /\ Append(c, a) \in Seq(S)
         /\ Len(c) \in Nat
         /\ DOMAIN c = 1..Len(c)
         /\ \A k \in DOMAIN Append(c, a) :
              \/ k \in DOMAIN c /\ Append(c, a)[k] = c[k]
              \/ k = Len(c) + 1 /\ k \notin DOMAIN c /\ Append(c, a)[k] = a
  <1> QED BY AppendFacts

\* Consuming an action: what is left was in the channel at another index.
LEMMA Consumed ==
  ASSUME NEW S, NEW c \in Seq(S), c # << >>
  PROVE  /\ Tail(c) \in Seq(S)
         /\ 1 \in DOMAIN c /\ Head(c) = c[1] /\ Head(c) \in S
         /\ \A k \in DOMAIN Tail(c) :
              k + 1 \in DOMAIN c /\ k + 1 # 1 /\ Tail(c)[k] = c[k + 1]
         /\ DOMAIN Tail(c) \subseteq Nat
  BY TailFacts

\* Nothing but the head is lost when an action is consumed.
LEMMA StillThere ==
  ASSUME NEW S, NEW c \in Seq(S), c # << >>, NEW k \in DOMAIN c, k # 1
  PROVE  k - 1 \in DOMAIN Tail(c) /\ Tail(c)[k - 1] = c[k]
  OBVIOUS

\* Two actions dispatched at once.
LEMMA DispatchedTwo ==
  ASSUME NEW S, NEW c \in Seq(S), NEW a \in S, NEW b \in S
  PROVE  /\ c \o <<a, b>> \in Seq(S)
         /\ Len(c) \in Nat
         /\ DOMAIN c = 1..Len(c)
         /\ \A k \in DOMAIN c : k \in DOMAIN (c \o <<a, b>>) /\ (c \o <<a, b>>)[k] = c[k]
         /\ \A k \in DOMAIN (c \o <<a, b>>) :
              \/ k \in DOMAIN c /\ (c \o <<a, b>>)[k] = c[k]
              \/ k = Len(c) + 1 /\ k \notin DOMAIN c /\ (c \o <<a, b>>)[k] = a
              \/ k = Len(c) + 2 /\ k \notin DOMAIN c /\ (c \o <<a, b>>)[k] = b
<1>1. <<a, b>> \in Seq(S) /\ Len(<<a, b>>) = 2 /\ <<a, b>>[1] = a /\ <<a, b>>[2] = b
  OBVIOUS
<1> DEFINE t == <<a, b>>
<1> HIDE DEF t
<1>2. /\ c \o t \in Seq(S)
      /\ Len(c \o t) = Len(c) + Len(t)
      /\ \A i \in 1..(Len(c) + Len(t)) :
           (c \o t)[i] = IF i =< Len(c) THEN c[i] ELSE t[i - Len(c)]
  BY <1>1, ConcatProperties DEF t
<1>3. Len(t) = 2 /\ t[1] = a /\ t[2] = b
  BY <1>1 DEF t
<1>4. Len(c) \in Nat /\ DOMAIN c = 1..Len(c) /\ DOMAIN (c \o t) = 1..(Len(c) + 2)
  BY <1>2, <1>3, LenProperties
<1>5. \A k \in 1..(Len(c) + 2) :
        \/ k \in 1..Len(c) /\ (c \o t)[k] = c[k]
        \/ k = Len(c) + 1 /\ (c \o t)[k] = a
        \/ k = Len(c) + 2 /\ (c \o t)[k] = b
  BY <1>2, <1>3, <1>4
<1> QED BY <1>2, <1>4, <1>5 DEF t

\* A set of natural numbers that is not empty has a smallest one.
LEMMA LeastNatural ==
  ASSUME NEW N, N \subseteq Nat, N # {}
  PROVE  \E m \in N : \A k \in N : m =< k
<1>1. \E m \in N : \A k \in N : m =< k
  <2> DEFINE R == OpToRel(<, Nat)
  <2>1. IsWellFoundedOn(R, Nat)
    BY NatLessThanWellFounded
  <2>2. \A x, y \in Nat : x < y => <<x, y>> \in R
    BY DEF OpToRel
  <2> HIDE DEF R
  <2>3. PICK u \in N : \A v \in N : ~(<<v, u>> \in R)
    BY <2>1, WFMin
  <2>4. ASSUME NEW v \in N
        PROVE  u =< v
    <3>1. ~(v < u)
      BY <2>2, <2>3
    <3> QED
      BY <3>1
  <2> QED
    BY <2>4
<1> QED
  BY <1>1

\* A set of indices that is not empty has a largest one.
LEMMA LargestIndex ==
  ASSUME NEW n \in Nat, NEW T \in SUBSET (1..n), T # {}
  PROVE  \E m \in T : \A k \in T : k =< m
<1> DEFINE U == {n - k : k \in T}
<1>1. U \subseteq Nat /\ U # {}
  <2>1. \A k \in T : n - k \in Nat
    OBVIOUS
  <2>2. PICK k \in T : TRUE
    OBVIOUS
  <2>3. n - k \in U
    OBVIOUS
  <2> QED BY <2>1, <2>3
<1>2. PICK u \in U : \A v \in U : u =< v
  <2> HIDE DEF U
  <2> QED BY <1>1, LeastNatural
<1>3. PICK m \in T : u = n - m
  OBVIOUS
<1>4. ASSUME NEW k \in T PROVE k =< m
  <2>1. u =< n - k
    BY <1>2
  <2> QED BY <1>3, <2>1
<1> QED BY <1>4
==============================================================================
