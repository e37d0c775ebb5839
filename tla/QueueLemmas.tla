----------------------------- MODULE QueueLemmas -----------------------------
(***************************************************************************)
(* Facts about sequences used as queues, for the proofs of the modules that*)
(* keep one: the tasks of the thread pool, the idle connections and        *)
(* contexts, the backlog of the listening socket, the buffers of the       *)
(* client.  What is in a queue, that it is there once, and that it is in   *)
(* order; and what taking the head and putting at the end do to these.     *)
(***************************************************************************)
EXTENDS Integers, Sequences, TLAPS

Elements(s) == {s[i] : i \in DOMAIN s}

Distinct(s) == \A i, j \in DOMAIN s : s[i] = s[j] => i = j

\* The numbers in a queue of numbers grow; a 0 stands for no number.
Rising(s) == \A i, j \in DOMAIN s : i < j /\ s[i] # 0 /\ s[j] # 0 => s[i] < s[j]
-----------------------------------------------------------------------------
LEMMA TailOf ==
  ASSUME NEW S, NEW s \in Seq(S), s # <<>>
  PROVE  /\ Len(s) \in Nat \ {0}
         /\ DOMAIN s = 1..Len(s)
         /\ Tail(s) \in Seq(S)
         /\ Len(Tail(s)) = Len(s) - 1
         /\ DOMAIN Tail(s) = 1..(Len(s) - 1)
         /\ Head(s) = s[1] /\ Head(s) \in S
         /\ \A i \in 1..(Len(s) - 1) : i + 1 \in DOMAIN s /\ Tail(s)[i] = s[i + 1]
  OBVIOUS

LEMMA AppendOf ==
  ASSUME NEW S, NEW s \in Seq(S), NEW e \in S
  PROVE  /\ Len(s) \in Nat
         /\ DOMAIN s = 1..Len(s)
         /\ Append(s, e) \in Seq(S)
         /\ Len(Append(s, e)) = Len(s) + 1
         /\ DOMAIN Append(s, e) = 1..(Len(s) + 1)
         /\ Append(s, e)[Len(s) + 1] = e
         /\ \A i \in 1..Len(s) : Append(s, e)[i] = s[i]
  OBVIOUS

LEMMA SameSequence ==
  ASSUME NEW S, NEW s \in Seq(S), NEW t \in Seq(S), Len(s) = Len(t),
         \A i \in 1..Len(s) : s[i] = t[i]
  PROVE  s = t
  OBVIOUS

LEMMA WiderSequence ==
  ASSUME NEW S, NEW T, S \subseteq T, NEW s \in Seq(S)
  PROVE  s \in Seq(T)
  <1>1. s = [i \in 1..Len(s) |-> s[i]] /\ Len(s) \in Nat /\ \A i \in 1..Len(s) : s[i] \in S
    OBVIOUS
  <1>2. s \in [1..Len(s) -> T]
    BY <1>1
  <1> QED BY <1>1, <1>2

LEMMA EmptyElements == Elements(<<>>) = {} /\ Distinct(<<>>) /\ Rising(<<>>)
  BY DEF Elements, Distinct, Rising

LEMMA ElementsType ==
  ASSUME NEW S, NEW s \in Seq(S)
  PROVE  Elements(s) \in SUBSET S
  BY DEF Elements

LEMMA TailElements ==
  ASSUME NEW S, NEW s \in Seq(S), s # <<>>
  PROVE  Elements(s) = {Head(s)} \cup Elements(Tail(s))
  <1>1. Head(s) \in Elements(s)
    <2>1. 1 \in DOMAIN s /\ Head(s) = s[1]
      BY TailOf
    <2> QED BY <2>1 DEF Elements
  <1>2. ASSUME NEW i \in DOMAIN Tail(s)
        PROVE  Tail(s)[i] \in Elements(s)
    <2>1. i + 1 \in DOMAIN s /\ Tail(s)[i] = s[i + 1]
      BY TailOf
    <2> QED BY <2>1 DEF Elements
  <1>3. ASSUME NEW i \in DOMAIN s, i # 1
        PROVE  s[i] \in Elements(Tail(s))
    <2>1. /\ DOMAIN s = 1..Len(s) /\ Len(s) \in Nat
          /\ DOMAIN Tail(s) = 1..(Len(s) - 1)
          /\ \A k \in 1..(Len(s) - 1) : Tail(s)[k] = s[k + 1]
      BY TailOf
    <2>2. i - 1 \in DOMAIN Tail(s) /\ (i - 1) + 1 = i
      BY <1>3, <2>1
    <2>3. Tail(s)[i - 1] = s[i]
      BY <2>1, <2>2
    <2> QED BY <2>2, <2>3 DEF Elements
  <1>4. s[1] = Head(s)
    BY TailOf
  <1> QED BY <1>1, <1>2, <1>3, <1>4 DEF Elements

LEMMA AppendElements ==
  ASSUME NEW S, NEW s \in Seq(S), NEW e \in S
  PROVE  Elements(Append(s, e)) = Elements(s) \cup {e}
  <1>1. /\ Len(s) \in Nat /\ DOMAIN s = 1..Len(s)
        /\ DOMAIN Append(s, e) = 1..(Len(s) + 1)
        /\ Append(s, e)[Len(s) + 1] = e
        /\ \A i \in 1..Len(s) : Append(s, e)[i] = s[i]
    BY AppendOf
  <1>2. \A i \in 1..(Len(s) + 1) : i \in 1..Len(s) \/ i = Len(s) + 1
    BY <1>1
  <1>3. Len(s) + 1 \in 1..(Len(s) + 1) /\ \A i \in 1..Len(s) : i \in 1..(Len(s) + 1)
    BY <1>1
  <1> QED BY <1>1, <1>2, <1>3 DEF Elements

\* What is there once is gone when it was taken.
LEMMA TailDistinct ==
  ASSUME NEW S, NEW s \in Seq(S), s # <<>>, Distinct(s)
  PROVE  /\ Distinct(Tail(s))
         /\ Elements(Tail(s)) = Elements(s) \ {Head(s)}
  <1>1. /\ Len(s) \in Nat \ {0} /\ DOMAIN s = 1..Len(s)
        /\ DOMAIN Tail(s) = 1..(Len(s) - 1)
        /\ Head(s) = s[1]
        /\ \A i \in 1..(Len(s) - 1) : i + 1 \in DOMAIN s /\ Tail(s)[i] = s[i + 1]
    BY TailOf
  <1>2. ASSUME NEW i \in DOMAIN Tail(s), NEW j \in DOMAIN Tail(s), Tail(s)[i] = Tail(s)[j]
        PROVE  i = j
    <2>1. i + 1 = j + 1
      BY <1>1, <1>2 DEF Distinct
    <2> QED BY <1>1, <2>1
  <1>3. ASSUME NEW i \in DOMAIN Tail(s)
        PROVE  Tail(s)[i] # Head(s)
    <2>1. i + 1 # 1 /\ 1 \in DOMAIN s
      BY <1>1
    <2> QED BY <1>1, <2>1 DEF Distinct
  <1>4. Head(s) \notin Elements(Tail(s))
    BY <1>3 DEF Elements
  <1> QED BY <1>2, <1>4, TailElements DEF Distinct

LEMMA AppendDistinct ==
  ASSUME NEW S, NEW s \in Seq(S), NEW e \in S, Distinct(s), e \notin Elements(s)
  PROVE  Distinct(Append(s, e))
  <1>1. /\ Len(s) \in Nat /\ DOMAIN s = 1..Len(s)
        /\ DOMAIN Append(s, e) = 1..(Len(s) + 1)
        /\ Append(s, e)[Len(s) + 1] = e
        /\ \A i \in 1..Len(s) : Append(s, e)[i] = s[i] /\ s[i] # e
    BY AppendOf DEF Elements
  <1>2. \A i \in 1..(Len(s) + 1) : i \in 1..Len(s) \/ i = Len(s) + 1
    BY <1>1
  <1> QED BY <1>1, <1>2 DEF Distinct

\* Numbers taken from the front and put behind all others stay in order.
LEMMA TailRising ==
  ASSUME NEW s \in Seq(Nat), s # <<>>, Rising(s)
  PROVE  /\ Rising(Tail(s))
         /\ Head(s) # 0 => \A n \in Elements(Tail(s)) : n # 0 => Head(s) < n
  <1>1. /\ Len(s) \in Nat \ {0} /\ DOMAIN s = 1..Len(s)
        /\ DOMAIN Tail(s) = 1..(Len(s) - 1)
        /\ Head(s) = s[1]
        /\ \A i \in 1..(Len(s) - 1) : i + 1 \in DOMAIN s /\ Tail(s)[i] = s[i + 1]
    BY TailOf
  <1>2. Rising(Tail(s))
    <2> SUFFICES ASSUME NEW i \in DOMAIN Tail(s), NEW j \in DOMAIN Tail(s), i < j,
                        Tail(s)[i] # 0, Tail(s)[j] # 0
                 PROVE  Tail(s)[i] < Tail(s)[j]
      BY DEF Rising
    <2>1. i + 1 < j + 1
      BY <1>1
    <2> QED BY <1>1, <2>1 DEF Rising
  <1>3. ASSUME Head(s) # 0, NEW i \in DOMAIN Tail(s), Tail(s)[i] # 0
        PROVE  Head(s) < Tail(s)[i]
    <2>1. 1 < i + 1 /\ 1 \in DOMAIN s
      BY <1>1
    <2> QED BY <1>1, <1>3, <2>1 DEF Rising
  <1> QED BY <1>2, <1>3 DEF Elements

LEMMA AppendRising ==
  ASSUME NEW s \in Seq(Nat), NEW n \in Nat, Rising(s),
         n # 0 => \A m \in Elements(s) : m # 0 => m < n
  PROVE  Rising(Append(s, n))
  <1>1. /\ Len(s) \in Nat /\ DOMAIN s = 1..Len(s)
        /\ DOMAIN Append(s, n) = 1..(Len(s) + 1)
        /\ Append(s, n)[Len(s) + 1] = n
        /\ \A i \in 1..Len(s) : Append(s, n)[i] = s[i]
    BY AppendOf
  <1>2. \A i \in 1..Len(s) : s[i] \in Elements(s)
    BY <1>1 DEF Elements
  <1>3. \A i \in 1..(Len(s) + 1) : i \in 1..Len(s) \/ i = Len(s) + 1
    BY <1>1
  <1> SUFFICES ASSUME NEW i \in 1..(Len(s) + 1), NEW j \in 1..(Len(s) + 1), i < j,
                      Append(s, n)[i] # 0, Append(s, n)[j] # 0
               PROVE  Append(s, n)[i] < Append(s, n)[j]
    BY <1>1 DEF Rising
  <1>4. CASE j \in 1..Len(s)
    <2>1. i \in 1..Len(s)
      BY <1>1, <1>4
    <2> QED BY <1>1, <1>4, <2>1 DEF Rising
  <1>5. CASE j = Len(s) + 1
    <2>1. i \in 1..Len(s)
      BY <1>1, <1>5
    <2>2. s[i] # 0 /\ n # 0
      BY <1>1, <1>5, <2>1
    <2> QED BY <1>1, <1>2, <1>5, <2>1, <2>2
  <1> QED BY <1>3, <1>4, <1>5
=============================================================================
