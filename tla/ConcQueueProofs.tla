-------------------------- MODULE ConcQueueProofs ---------------------------
(***************************************************************************)
(* Proofs about ConcQueue for any finite set of threads in any roles, any  *)
(* values and any number of pushes.  The invariant of the whole module is  *)
(* Inv: the types, who may be in a wait set, and the two "no lost signal"  *)
(* properties, which are inductive once the wait sets are known to hold    *)
(* only threads inside the corresponding call.                             *)
(***************************************************************************)
EXTENDS ConcQueue, FiniteSetTheorems, TLAPS

\* Only a thread inside pop or waitTillNotEmpty sleeps on data_cond, only one
\* inside waitPushTillEmpty on empty_cond.
WaitersAreWaiting ==
    /\ \A t \in dataWait : pc[t] \in {"pop", "wait"}
    /\ \A t \in emptyWait : pc[t] = "close"

Inv == TypeOK /\ WaitersAreWaiting /\ NoLostWakeup /\ NoLostEmptySignal
-----------------------------------------------------------------------------
\* The sets of threads involved are finite, so their cardinalities are numbers.
LEMMA ActiveFinite == IsFiniteSet(Active) /\ Cardinality(Active) \in Nat
  <1>1. IsFiniteSet(Active)
    BY QueueAssumption, FS_Subset DEF Active
  <1> QED BY <1>1, FS_CardinalityType

\* What Head and Tail do to a queue that is not empty.
LEMMA TakeType ==
  ASSUME data \in Seq(Values), data # <<>>
  PROVE  /\ Head(data) \in Values
         /\ Tail(data) \in Seq(Values)
         /\ Len(Tail(data)) = Len(data) - 1
  OBVIOUS

\* A thread that took a value is in no call, whether it goes on or leaves.
LEMMA AfterPopType ==
  ASSUME NEW t
  PROVE  AfterPop(t) \in {"idle", "done"}
  BY DEF AfterPop

\* notify_one leaves the wait set alone when it is empty and removes one
\* member otherwise.
LEMMA NotifyDataEffect ==
  ASSUME NotifyData
  PROVE  /\ dataWait' \subseteq dataWait
         /\ dataWait # {} => \E t \in dataWait : dataWait' = dataWait \ {t}
  BY DEF NotifyData, WakeOne

LEMMA NotifyEmptyEffect ==
  ASSUME NotifyEmpty
  PROVE  /\ emptyWait' \subseteq emptyWait
         /\ emptyWait # {} => \E t \in emptyWait : emptyWait' = emptyWait \ {t}
  BY DEF NotifyEmpty, WakeOne

\* Taking a value: the queue shrinks by one, and if it becomes empty while
\* somebody sleeps on empty_cond, one of them is woken.
LEMMA TakeFirstEffect ==
  ASSUME TypeOK, NEW t \in Consumers, TakeFirst(t)
  PROVE  /\ data' \in Seq(Values)
         /\ got' \in [Consumers -> Values \cup {Null}]
         /\ Len(data') = Len(data) - 1
         /\ emptyWait' \subseteq emptyWait
         /\ data' = <<>> /\ emptyWait # {} =>
               \E u \in emptyWait : emptyWait' = emptyWait \ {u}
  <1>1. /\ Head(data) \in Values
        /\ Tail(data) \in Seq(Values)
        /\ Len(Tail(data)) = Len(data) - 1
    BY TakeType DEF TypeOK, TakeFirst
  <1>2. got' \in [Consumers -> Values \cup {Null}]
    BY <1>1 DEF TypeOK, TakeFirst
  <1>3. emptyWait' \subseteq emptyWait
    BY NotifyEmptyEffect DEF TakeFirst
  <1>4. data' = <<>> /\ emptyWait # {} =>
               \E u \in emptyWait : emptyWait' = emptyWait \ {u}
    BY NotifyEmptyEffect DEF TakeFirst
  <1> QED BY <1>1, <1>2, <1>3, <1>4 DEF TakeFirst
-----------------------------------------------------------------------------
(***************************************************************************)
(* Type correctness and the wait sets.                                     *)
(***************************************************************************)
LEMMA TypeStep == TypeOK /\ [Next]_vars => TypeOK'
  <1> SUFFICES ASSUME TypeOK, [Next]_vars PROVE TypeOK'
    OBVIOUS
  <1> USE DEF TypeOK, Calls
  <1>1. CASE \E t \in Pushers, v \in Values \ {Pill} : Push(t, v)
    <2> PICK t \in Pushers, v \in Values \ {Pill} : Push(t, v)
      BY <1>1
    <2>1. data' \in Seq(Values) /\ pushes' \in 0..MaxPush
      BY QueueAssumption DEF Push, PutLast
    <2>2. dataWait' \in SUBSET Threads
      BY NotifyDataEffect DEF Push, PutLast
    <2> QED BY <2>1, <2>2 DEF Push, PutLast
  <1>2. CASE \E t \in Poppers \cup Loggers : Pop(t)
    <2> PICK t \in Poppers \cup Loggers : Pop(t)
      BY <1>2
    <2>a. t \in Threads /\ t \in Consumers
      BY DEF Threads, Consumers
    <2>1. CASE TakeFirst(t) /\ SetPc(t, AfterPop(t)) /\ UNCHANGED dataWait
      BY <2>1, <2>a, TakeFirstEffect, AfterPopType DEF Pop, SetPc
    <2>2. CASE ~ TakeFirst(t)
      BY <2>2, <2>a DEF Pop, SetPc
    <2> QED BY <2>1, <2>2 DEF Pop, TakeFirst
  <1>3. CASE \E t \in Tryers : TryAndPop(t)
    <2> PICK t \in Tryers : TryAndPop(t)
      BY <1>3
    <2>a. t \in Consumers
      BY DEF Consumers
    <2>1. CASE TakeFirst(t)
      BY <2>1, <2>a, TakeFirstEffect DEF TryAndPop
    <2>2. CASE ~ TakeFirst(t)
      BY <2>2, <2>a DEF TryAndPop
    <2> QED BY <2>1, <2>2
  <1>4. CASE \E t \in Loggers : WaitTillNotEmpty(t)
    BY <1>4 DEF WaitTillNotEmpty, SetPc, Threads
  <1>5. CASE \E t \in Closers : WaitPushTillEmpty(t)
    <2> PICK t \in Closers : WaitPushTillEmpty(t)
      BY <1>5
    <2>a. t \in Threads
      BY DEF Threads
    <2>1. CASE data = <<>>
      <3>1. dataWait' \in SUBSET Threads
        BY <2>1, NotifyDataEffect DEF WaitPushTillEmpty, PutLast
      <3>2. data' = Append(data, Pill)
        BY <2>1 DEF WaitPushTillEmpty, PutLast
      <3>3. data' \in Seq(Values)
        BY <3>2, QueueAssumption
      <3> QED BY <2>1, <2>a, <3>1, <3>3 DEF WaitPushTillEmpty, PutLast, SetPc
    <2>2. CASE data # <<>>
      BY <2>2, <2>a DEF WaitPushTillEmpty, PutLast, SetPc
    <2> QED BY <2>1, <2>2
  <1>6. CASE \E t \in Threads : SpuriousWakeup(t)
    BY <1>6 DEF SpuriousWakeup
  <1>7. CASE UNCHANGED vars
    BY <1>7 DEF vars
  <1> QED BY <1>1, <1>2, <1>3, <1>4, <1>5, <1>6, <1>7 DEF Next

LEMMA WaitersStep ==
  TypeOK /\ WaitersAreWaiting /\ [Next]_vars => WaitersAreWaiting'
  <1> SUFFICES ASSUME TypeOK, WaitersAreWaiting, [Next]_vars
               PROVE  WaitersAreWaiting'
    OBVIOUS
  <1> USE DEF TypeOK, WaitersAreWaiting
  <1>1. CASE \E t \in Pushers, v \in Values \ {Pill} : Push(t, v)
    BY <1>1, NotifyDataEffect DEF Push, PutLast
  <1>2. CASE \E t \in Poppers \cup Loggers : Pop(t)
    <2> PICK t \in Poppers \cup Loggers : Pop(t)
      BY <1>2
    <2>a. t \in Threads /\ t \in Consumers
      BY DEF Threads, Consumers
    <2>b. t \notin dataWait /\ t \notin emptyWait
      BY DEF Pop, CanPop
    <2>1. CASE TakeFirst(t) /\ SetPc(t, AfterPop(t)) /\ UNCHANGED dataWait
      BY <2>1, <2>a, <2>b, TakeFirstEffect, AfterPopType DEF SetPc
    <2>2. CASE ~ TakeFirst(t)
      BY <2>2, <2>a, <2>b DEF Pop, SetPc
    <2> QED BY <2>1, <2>2 DEF Pop, TakeFirst
  <1>3. CASE \E t \in Tryers : TryAndPop(t)
    <2> PICK t \in Tryers : TryAndPop(t)
      BY <1>3
    <2>a. emptyWait' \subseteq emptyWait
      BY TakeFirstEffect DEF TryAndPop, Consumers
    <2> QED BY <2>a DEF TryAndPop
  <1>4. CASE \E t \in Loggers : WaitTillNotEmpty(t)
    BY <1>4 DEF WaitTillNotEmpty, SetPc, Threads
  <1>5. CASE \E t \in Closers : WaitPushTillEmpty(t)
    <2> PICK t \in Closers : WaitPushTillEmpty(t)
      BY <1>5
    <2>a. t \in Threads /\ t \notin dataWait /\ t \notin emptyWait
      BY DEF WaitPushTillEmpty, PutLast, Threads
    <2>1. CASE data = <<>>
      BY <2>1, <2>a, NotifyDataEffect DEF WaitPushTillEmpty, PutLast, SetPc
    <2>2. CASE data # <<>>
      BY <2>2, <2>a DEF WaitPushTillEmpty, PutLast, SetPc
    <2> QED BY <2>1, <2>2
  <1>6. CASE \E t \in Threads : SpuriousWakeup(t)
    BY <1>6 DEF SpuriousWakeup
  <1>7. CASE UNCHANGED vars
    BY <1>7 DEF vars
  <1> QED BY <1>1, <1>2, <1>3, <1>4, <1>5, <1>6, <1>7 DEF Next
-----------------------------------------------------------------------------
(***************************************************************************)
(* No lost wakeup.                                                         *)
(***************************************************************************)
\* A thread counts among the active ones while its call is one of these.
Consuming == {"pop", "wait", "ready"}

\* Waking one sleeper adds one active thread, when nobody enters or leaves pop
\* or waitTillNotEmpty in the same step.
LEMMA WakingAddsOne ==
  ASSUME TypeOK, WaitersAreWaiting,
         NEW u \in dataWait, dataWait' = dataWait \ {u},
         \A t \in Threads : pc'[t] \in Consuming <=> pc[t] \in Consuming
  PROVE  Cardinality(Active') = Cardinality(Active) + 1
  <1>1. u \in Threads /\ pc[u] \in Consuming /\ u \notin Active
    BY DEF TypeOK, WaitersAreWaiting, Consuming, Active
  <1>2. Active' = Active \cup {u}
    BY <1>1 DEF Active, Consuming
  <1> QED BY <1>1, <1>2, ActiveFinite, FS_AddElement

\* A woken consumer that takes a value is the only one to stop being active.
LEMMA TakingRemovesAtMostOne ==
  ASSUME NEW t \in Threads, TypeOK, SetPc(t, AfterPop(t)), UNCHANGED dataWait
  PROVE  /\ Cardinality(Active') >= Cardinality(Active) - 1
         /\ Cardinality(Active') \in Nat
  <1>1. Active' = Active \ {t}
    BY AfterPopType DEF TypeOK, SetPc, Active
  <1>2. /\ IsFiniteSet(Active \ {t})
        /\ Cardinality(Active \ {t}) =
             IF t \in Active THEN Cardinality(Active) - 1 ELSE Cardinality(Active)
    BY ActiveFinite, FS_RemoveElement
  <1>3. Cardinality(Active \ {t}) \in Nat
    BY <1>2, FS_CardinalityType
  <1> QED BY <1>1, <1>2, <1>3, ActiveFinite

LEMMA NoLostWakeupStep ==
  TypeOK /\ WaitersAreWaiting /\ NoLostWakeup /\ [Next]_vars => NoLostWakeup'
  <1> SUFFICES ASSUME TypeOK, WaitersAreWaiting, NoLostWakeup, [Next]_vars,
                      dataWait' # {}
               PROVE  Len(data') <= Cardinality(Active')
    BY DEF NoLostWakeup
  <1>f. Len(data) \in Nat /\ Cardinality(Active) \in Nat
    BY ActiveFinite DEF TypeOK
  <1>1. CASE \E t \in Pushers, v \in Values \ {Pill} : Push(t, v)
    <2> PICK t \in Pushers, v \in Values \ {Pill} : Push(t, v)
      BY <1>1
    <2>1. PICK u \in dataWait : dataWait' = dataWait \ {u}
      BY NotifyDataEffect DEF Push, PutLast
    <2>2. Cardinality(Active') = Cardinality(Active) + 1
      BY <2>1, WakingAddsOne DEF Push, PutLast
    <2>3. Len(data') = Len(data) + 1
      BY DEF Push, PutLast, TypeOK
    <2> QED BY <1>f, <2>1, <2>2, <2>3 DEF NoLostWakeup
  <1>2. CASE \E t \in Poppers \cup Loggers : Pop(t)
    <2> PICK t \in Poppers \cup Loggers : Pop(t)
      BY <1>2
    <2>a. t \in Threads /\ t \in Consumers
      BY DEF Threads, Consumers
    <2>1. CASE TakeFirst(t) /\ SetPc(t, AfterPop(t)) /\ UNCHANGED dataWait
      BY <1>f, <2>1, <2>a, TakeFirstEffect, TakingRemovesAtMostOne DEF NoLostWakeup
    <2>2. CASE data = <<>> /\ SetPc(t, "pop") /\ UNCHANGED data
      <3>1. Len(data') = 0
        BY <2>2
      <3>2. Cardinality(Active') \in Nat
        <4>1. IsFiniteSet(Active')
          BY QueueAssumption, FS_Subset DEF Active
        <4> QED BY <4>1, FS_CardinalityType
      <3> QED BY <3>1, <3>2
    <2> QED BY <2>1, <2>2 DEF Pop
  <1>3. CASE \E t \in Tryers : TryAndPop(t)
    <2> PICK t \in Tryers : TryAndPop(t)
      BY <1>3
    <2>1. Active' = Active /\ UNCHANGED dataWait
      BY DEF TryAndPop, Active
    <2>2. Len(data') <= Len(data)
      BY <1>f, TakeFirstEffect DEF TryAndPop, Consumers
    <2>3. Len(data') \in Nat
      BY TakeFirstEffect DEF TryAndPop, Consumers, TypeOK
    <2> QED BY <1>f, <2>1, <2>2, <2>3 DEF NoLostWakeup
  <1>4. CASE \E t \in Loggers : WaitTillNotEmpty(t)
    <2> PICK t \in Loggers : WaitTillNotEmpty(t)
      BY <1>4
    <2>a. t \in Threads
      BY DEF Threads
    <2>1. CASE data # <<>>
      <3>1. Active' = Active \cup {t} /\ UNCHANGED <<data, dataWait>>
        BY <2>1, <2>a DEF WaitTillNotEmpty, WaitersAreWaiting, Active, TypeOK, SetPc
      <3>2. Cardinality(Active') >= Cardinality(Active) /\ Cardinality(Active') \in Nat
        <4>1. Cardinality(Active \cup {t}) =
                IF t \in Active THEN Cardinality(Active) ELSE Cardinality(Active) + 1
          BY ActiveFinite, FS_AddElement
        <4> QED BY <1>f, <3>1, <4>1
      <3> QED BY <1>f, <3>1, <3>2 DEF NoLostWakeup
    <2>2. CASE data = <<>>
      <3>1. Len(data') = 0
        BY <2>2 DEF WaitTillNotEmpty
      <3>2. IsFiniteSet(Active')
        BY QueueAssumption, FS_Subset DEF Active
      <3> QED BY <3>1, <3>2, FS_CardinalityType
    <2> QED BY <2>1, <2>2
  <1>5. CASE \E t \in Closers : WaitPushTillEmpty(t)
    <2> PICK t \in Closers : WaitPushTillEmpty(t)
      BY <1>5
    <2>a. \A s \in Threads : pc'[s] \in Consuming <=> pc[s] \in Consuming
      BY DEF WaitPushTillEmpty, PutLast, SetPc, TypeOK, Consuming
    <2>1. CASE data = <<>>
      <3>1. PICK u \in dataWait : dataWait' = dataWait \ {u}
        BY <2>1, NotifyDataEffect DEF WaitPushTillEmpty, PutLast
      <3>2. Cardinality(Active') = Cardinality(Active) + 1
        BY <2>a, <3>1, WakingAddsOne
      <3>3. data' = Append(data, Pill)
        BY <2>1 DEF WaitPushTillEmpty, PutLast
      <3>4. Len(data') = Len(data) + 1
        BY <3>3 DEF TypeOK
      <3> QED BY <1>f, <3>1, <3>2, <3>4 DEF NoLostWakeup
    <2>2. CASE data # <<>>
      <3>1. Active' = Active /\ UNCHANGED <<data, dataWait>>
        BY <2>2, <2>a DEF WaitPushTillEmpty, PutLast, Active, Consuming
      <3> QED BY <3>1 DEF NoLostWakeup
    <2> QED BY <2>1, <2>2
  <1>6. CASE \E t \in Threads : SpuriousWakeup(t)
    <2> PICK t \in Threads : SpuriousWakeup(t)
      BY <1>6
    <2>1. CASE t \in dataWait /\ dataWait' = dataWait \ {t}
      <3>1. Cardinality(Active') = Cardinality(Active) + 1
        BY <2>1, WakingAddsOne DEF SpuriousWakeup
      <3> QED BY <1>f, <2>1, <3>1 DEF SpuriousWakeup, NoLostWakeup
    <2>2. CASE UNCHANGED dataWait
      BY <2>2 DEF SpuriousWakeup, NoLostWakeup, Active
    <2> QED BY <2>1, <2>2 DEF SpuriousWakeup
  <1>7. CASE UNCHANGED vars
    BY <1>7 DEF vars, NoLostWakeup, Active
  <1> QED BY <1>1, <1>2, <1>3, <1>4, <1>5, <1>6, <1>7 DEF Next
-----------------------------------------------------------------------------
(***************************************************************************)
(* No lost empty signal, the invariant, and the refinement.                *)
(***************************************************************************)
LEMMA NoLostEmptySignalStep ==
  TypeOK /\ WaitersAreWaiting /\ NoLostEmptySignal /\ [Next]_vars
    => NoLostEmptySignal'
  <1> SUFFICES ASSUME TypeOK, WaitersAreWaiting, NoLostEmptySignal, [Next]_vars,
                      data' = <<>>, emptyWait' # {}
               PROVE  \E t \in Threads : pc'[t] = "close" /\ t \notin emptyWait'
    BY DEF NoLostEmptySignal
  <1> USE DEF TypeOK
  \* Whoever was woken before this step is still on its way.
  <1>a. CASE /\ data = <<>> /\ UNCHANGED emptyWait
             /\ \A t \in Threads : pc[t] = "close" => pc'[t] = "close"
    BY <1>a DEF NoLostEmptySignal
  \* This step takes the last value and wakes a closer.
  <1>b. ASSUME NEW t \in Consumers, TakeFirst(t),
               \A u \in Threads : pc[u] = "close" => pc'[u] = "close"
        PROVE  \E u \in Threads : pc'[u] = "close" /\ u \notin emptyWait'
    <2>1. PICK u \in emptyWait : emptyWait' = emptyWait \ {u}
      BY <1>b, TakeFirstEffect
    <2> QED BY <1>b, <2>1 DEF WaitersAreWaiting
  <1>1. CASE \E t \in Pushers, v \in Values \ {Pill} : Push(t, v)
    <2>1. Len(data') = Len(data) + 1 /\ Len(data) \in Nat
      BY <1>1 DEF Push, PutLast
    <2> QED BY <2>1
  <1>2. CASE \E t \in Poppers \cup Loggers : Pop(t)
    <2> PICK t \in Poppers \cup Loggers : Pop(t)
      BY <1>2
    <2>a. t \in Consumers /\ t \in Threads
      BY DEF Consumers, Threads
    <2>b. \A u \in Threads : pc[u] = "close" => pc'[u] = "close"
      BY <2>a DEF Pop, CanPop, SetPc, TakeFirst
    <2>1. CASE TakeFirst(t)
      BY <1>b, <2>1, <2>a, <2>b
    <2>2. CASE ~ TakeFirst(t)
      BY <1>a, <2>2, <2>b DEF Pop
    <2> QED BY <2>1, <2>2
  <1>3. CASE \E t \in Tryers : TryAndPop(t)
    <2> PICK t \in Tryers : TryAndPop(t)
      BY <1>3
    <2>a. t \in Consumers
      BY DEF Consumers
    <2>b. UNCHANGED pc
      BY DEF TryAndPop
    <2>1. CASE TakeFirst(t)
      BY <1>b, <2>1, <2>a, <2>b
    <2>2. CASE ~ TakeFirst(t)
      BY <1>a, <2>2, <2>b DEF TryAndPop
    <2> QED BY <2>1, <2>2
  <1>4. CASE \E t \in Loggers : WaitTillNotEmpty(t)
    BY <1>4, <1>a DEF WaitTillNotEmpty, SetPc
  <1>5. CASE \E t \in Closers : WaitPushTillEmpty(t)
    <2> PICK t \in Closers : WaitPushTillEmpty(t)
      BY <1>5
    <2>1. data # <<>>
      <3>1. data' # Append(data, Pill)
        <4> SUFFICES ASSUME data' = Append(data, Pill) PROVE FALSE
          OBVIOUS
        <4>1. Len(data') = Len(data) + 1 /\ Len(data) \in Nat
          OBVIOUS
        <4>2. Len(data') = 0
          OBVIOUS
        <4> QED BY <4>1, <4>2
      <3> QED BY <3>1 DEF WaitPushTillEmpty, PutLast
    <2> QED BY <2>1 DEF WaitPushTillEmpty, PutLast
  <1>6. CASE \E t \in Threads : SpuriousWakeup(t)
    <2> PICK t \in Threads : SpuriousWakeup(t)
      BY <1>6
    <2>1. CASE t \in emptyWait /\ emptyWait' = emptyWait \ {t}
      BY <2>1 DEF SpuriousWakeup, WaitersAreWaiting
    <2>2. CASE UNCHANGED emptyWait
      BY <1>a, <2>2 DEF SpuriousWakeup
    <2> QED BY <2>1, <2>2 DEF SpuriousWakeup
  <1>7. CASE UNCHANGED vars
    BY <1>a, <1>7 DEF vars
  <1> QED BY <1>1, <1>2, <1>3, <1>4, <1>5, <1>6, <1>7 DEF Next

\* Init establishes Inv: nobody has called anything yet.
LEMMA InvInit == Init => Inv
  <1> SUFFICES ASSUME Init PROVE Inv
    OBVIOUS
  <1>1. TypeOK
    BY QueueAssumption DEF Init, TypeOK, Calls
  <1> QED BY <1>1 DEF Init, Inv, WaitersAreWaiting, NoLostWakeup, NoLostEmptySignal

LEMMA InvStep == Inv /\ [Next]_vars => Inv'
  BY TypeStep, WaitersStep, NoLostWakeupStep, NoLostEmptySignalStep DEF Inv

LEMMA Invariance == Spec => []Inv
  BY InvInit, InvStep, PTL DEF Spec

\* The queue, its wait sets and every thread's call keep their types
\* (ConcQueue.h:79-82, the private members).
THEOREM TypeCorrect == Spec => []TypeOK
  BY Invariance, PTL DEF Inv

\* Whatever the numbers of threads and values, one notify_one per push
\* (ConcQueue.h:24, 75) never leaves a value behind with every consumer asleep.
THEOREM NoWakeupIsLost == Spec => []NoLostWakeup
  BY Invariance, PTL DEF Inv

\* Whatever the numbers of threads, one notify_one per emptied queue
\* (ConcQueue.h:40-42, 53-55) never leaves all closers asleep before an empty
\* queue.
THEOREM NoEmptySignalIsLost == Spec => []NoLostEmptySignal
  BY Invariance, PTL DEF Inv
-----------------------------------------------------------------------------
\* Who has left changes only when a popper's call is done.
LEMMA LeftStep ==
  ASSUME TypeOK, NEW t \in Threads, t \notin Left, NEW step, SetPc(t, step)
  PROVE  Left' = Left \cup IF step = "done" THEN {t} \cap Poppers ELSE {}
  BY DEF TypeOK, SetPc, Left

\* Every step of the queue is a step of the abstract FIFO or leaves its state
\* unchanged: pop and tryAndPop take the head, pop with the pill leaves, both
\* kinds of push append, falling asleep and waking up are invisible.
LEMMA AbstractStep == TypeOK /\ [Next]_vars => [Abstract!Next]_(Abstract!vars)
  <1> SUFFICES ASSUME TypeOK, [Next]_vars, ~ UNCHANGED <<data, got, Left>>
               PROVE  Abstract!Next
    BY DEF Abstract!vars
  <1>s. UNCHANGED pc => UNCHANGED Left
    BY DEF Left
  <1>1. CASE \E t \in Pushers, v \in Values \ {Pill} : Push(t, v)
    BY <1>1, <1>s DEF Push, PutLast, Abstract!Next, Abstract!Put
  <1>2. CASE \E t \in Poppers \cup Loggers : Pop(t)
    <2> PICK t \in Poppers \cup Loggers : Pop(t)
      BY <1>2
    <2>a. t \in Threads /\ t \in Consumers /\ t \notin Left
      BY DEF Threads, Consumers, Pop, CanPop, Left
    <2>1. CASE TakeFirst(t) /\ SetPc(t, AfterPop(t))
      <3>1. Left' = Left \cup IF AfterPop(t) = "done" THEN {t} \cap Poppers ELSE {}
        BY <2>1, <2>a, LeftStep
      <3>2. Left' = Left \cup IF Head(data) = Pill THEN {t} \cap Poppers ELSE {}
        BY <3>1 DEF AfterPop
      <3>3. Abstract!Take(t)
        BY <2>1, <2>a, <3>2 DEF TakeFirst, Abstract!Take
      <3> QED BY <2>a, <3>3 DEF Abstract!Next
    <2>2. CASE SetPc(t, "pop") /\ UNCHANGED <<data, got>>
      BY <2>2, <2>a, LeftStep
    <2> QED BY <2>1, <2>2 DEF Pop
  <1>3. CASE \E t \in Tryers : TryAndPop(t)
    <2> PICK t \in Tryers : TryAndPop(t)
      BY <1>3
    <2>a. t \in Consumers /\ t \notin Left /\ UNCHANGED Left
      BY <1>s DEF Consumers, Left, TryAndPop
    <2>1. CASE TakeFirst(t)
      <3>1. {t} \cap Poppers = {} \/ Head(data) # Pill
        BY <2>1, QueueAssumption
      <3>2. Abstract!Take(t)
        BY <2>1, <2>a, <3>1 DEF TakeFirst, Abstract!Take
      <3> QED BY <2>a, <3>2 DEF Abstract!Next
    <2>2. CASE ~ TakeFirst(t)
      BY <2>2, <2>a DEF TryAndPop, Abstract!Next, Abstract!Miss
    <2> QED BY <2>1, <2>2
  <1>4. CASE \E t \in Loggers : WaitTillNotEmpty(t)
    <2> PICK t \in Loggers : WaitTillNotEmpty(t)
      BY <1>4
    <2>a. t \in Threads /\ t \notin Left /\ UNCHANGED <<data, got>>
      BY DEF Threads, WaitTillNotEmpty, Left
    <2> QED BY <2>a, LeftStep DEF WaitTillNotEmpty
  <1>5. CASE \E t \in Closers : WaitPushTillEmpty(t)
    <2> PICK t \in Closers : WaitPushTillEmpty(t)
      BY <1>5
    <2>a. t \in Threads /\ t \notin Poppers /\ t \notin Left
      BY QueueAssumption DEF Threads, Left
    <2>b. UNCHANGED Left
      BY <2>a, LeftStep DEF WaitPushTillEmpty
    <2> QED BY <2>a, <2>b, QueueAssumption
            DEF WaitPushTillEmpty, PutLast, Abstract!Next, Abstract!Put
  <1>6. CASE \E t \in Threads : SpuriousWakeup(t)
    BY <1>6, <1>s DEF SpuriousWakeup
  <1> QED BY <1>1, <1>2, <1>3, <1>4, <1>5, <1>6, <1>s DEF Next, vars

\* The mutex and the two condition variables implement a FIFO: every value
\* goes to one consumer, in the order of the pushes (ConcQueue.h:21-76).
THEOREM QueueImplementsFifo == Spec => ImplementsFifo
  <1>1. Init => Abstract!Init
    BY DEF Init, Abstract!Init, Left, Threads
  <1> QED BY <1>1, AbstractStep, Invariance, PTL
       DEF Inv, Spec, ImplementsFifo, Abstract!Spec
=============================================================================
