----------------------------- MODULE ConcQueue ------------------------------
(***************************************************************************)
(* The blocking queue every pair of threads of the program talks through   *)
(* (smer/Util/inc/ConcQueue.h): a std::queue, one mutex, a condition       *)
(* variable data_cond signalled when a value is pushed and a condition     *)
(* variable empty_cond signalled when the last value is popped.            *)
(*                                                                         *)
(* Every method holds the mutex from its first statement to its return or  *)
(* to its wait, so one action is one critical section.  A thread whose     *)
(* wait was notified (or woke spuriously) is one that left the wait set    *)
(* and has not yet re-evaluated its predicate: another thread may take the *)
(* mutex before it.                                                        *)
(***************************************************************************)
EXTENDS Naturals, Sequences, FiniteSets

CONSTANTS
    Pushers,    \* threads that call push
    Poppers,    \* threads that call pop             (Client::run)
    Loggers,    \* threads that call waitTillNotEmpty, then pop (MyLog::run)
    Tryers,     \* threads that call tryAndPop       (the game loop)
    Closers,    \* threads that call waitPushTillEmpty (serverEnd, clientEnd)
    Values,
    Pill,       \* the MSG_BUTTON object; nobody but a closer makes one
    Null,       \* nullptr
    MaxPush     \* bound: calls of push in a behaviour

Threads == Pushers \cup Poppers \cup Loggers \cup Tryers \cup Closers
Consumers == Poppers \cup Loggers \cup Tryers

ASSUME QueueAssumption ==
    /\ IsFiniteSet(Threads)
    /\ Poppers \cap (Tryers \cup Closers) = {}
    /\ Pill \in Values
    /\ Null \notin Values
    /\ MaxPush \in Nat

VARIABLES
    data,       \* std::queue<T> data
    dataWait,   \* threads blocked in data_cond.wait
    emptyWait,  \* threads blocked in empty_cond.wait
    pc,         \* the call each thread is in
    got,        \* what the last pop or tryAndPop of a consumer returned
    pushes      \* calls of push so far

vars == <<data, dataWait, emptyWait, pc, got, pushes>>

Calls == {"idle", "pop", "wait", "ready", "close", "done"}

TypeOK ==
    /\ data \in Seq(Values)
    /\ dataWait \in SUBSET Threads
    /\ emptyWait \in SUBSET Threads
    /\ pc \in [Threads -> Calls]
    /\ got \in [Consumers -> Values \cup {Null}]
    /\ pushes \in 0..MaxPush

Init ==
    /\ data = <<>>
    /\ dataWait = {}
    /\ emptyWait = {}
    /\ pc = [t \in Threads |-> "idle"]
    /\ got = [c \in Consumers |-> Null]
    /\ pushes = 0
-----------------------------------------------------------------------------
\* notify_one: one of the waiting threads, if there is one, leaves the wait set.
WakeOne(waiting) == IF waiting = {} THEN {waiting} ELSE {waiting \ {t} : t \in waiting}

\* NotifyNobodyOn... and TakeLast are faulty: plausible errors in the definition
\* after each of them; no action uses them, nor PutMovedFrom.
NotifyNobodyOnData == UNCHANGED dataWait
NotifyData == dataWait' \in WakeOne(dataWait)

NotifyNobodyOnEmpty == UNCHANGED emptyWait
NotifyEmpty == emptyWait' \in WakeOne(emptyWait)

PutMovedFrom(v) ==
    /\ data' = Append(data, Null)
    /\ NotifyData

\* data.push and notify_one.
PutLast(v) ==
    /\ data' = Append(data, v)
    /\ NotifyData

SetPc(t, call) == pc' = [pc EXCEPT ![t] = call]

TakeLast(t) ==
    /\ data # <<>>
    /\ got' = [got EXCEPT ![t] = data[Len(data)]]
    /\ data' = SubSeq(data, 1, Len(data) - 1)
    /\ IF Len(data) = 1 THEN NotifyEmpty ELSE UNCHANGED emptyWait

\* Take the first value out for t, and signal empty_cond if it was the last.
TakeFirst(t) ==
    /\ data # <<>>
    /\ got' = [got EXCEPT ![t] = Head(data)]
    /\ data' = Tail(data)
    /\ IF Tail(data) = <<>> THEN NotifyEmpty ELSE UNCHANGED emptyWait
-----------------------------------------------------------------------------
Push(t, v) ==
    /\ pc[t] = "idle"
    /\ pushes < MaxPush
    /\ pushes' = pushes + 1
    /\ PutLast(v)
    /\ UNCHANGED <<emptyWait, pc, got>>

\* Client::run leaves its loop with the pill; MyLog::run has no way out.
AfterPop(t) == IF t \in Poppers /\ Head(data) = Pill THEN "done" ELSE "idle"

\* pop() is entered by an idle popper, by a logger whose waitTillNotEmpty
\* returned, and re-entered by a thread whose wait in pop() was notified.
CanPop(t) ==
    \/ t \in Poppers /\ pc[t] = "idle"
    \/ pc[t] = "ready"
    \/ pc[t] = "pop" /\ t \notin dataWait

Pop(t) ==
    /\ CanPop(t)
    /\ \/ /\ TakeFirst(t)
          /\ SetPc(t, AfterPop(t))
          /\ UNCHANGED dataWait
       \/ /\ data = <<>>
          /\ SetPc(t, "pop")
          /\ dataWait' = dataWait \cup {t}
          /\ UNCHANGED <<data, emptyWait, got>>
    /\ UNCHANGED pushes

TryAndPop(t) ==
    /\ pc[t] = "idle"
    /\ \/ TakeFirst(t)
       \/ /\ data = <<>>
          /\ got' = [got EXCEPT ![t] = Null]
          /\ UNCHANGED <<data, emptyWait>>
    /\ UNCHANGED <<dataWait, pc, pushes>>

WaitTillNotEmpty(t) ==
    /\ pc[t] = "idle" \/ (pc[t] = "wait" /\ t \notin dataWait)
    /\ \/ /\ data # <<>>
          /\ SetPc(t, "ready")
          /\ UNCHANGED dataWait
       \/ /\ data = <<>>
          /\ SetPc(t, "wait")
          /\ dataWait' = dataWait \cup {t}
    /\ UNCHANGED <<data, emptyWait, got, pushes>>

\* serverEnd and clientEnd push the pill with it.
WaitPushTillEmpty(t) ==
    /\ pc[t] = "idle" \/ (pc[t] = "close" /\ t \notin emptyWait)
    /\ \/ /\ data = <<>>
          /\ PutLast(Pill)
          /\ SetPc(t, "done")
          /\ UNCHANGED emptyWait
       \/ /\ data # <<>>
          /\ SetPc(t, "close")
          /\ emptyWait' = emptyWait \cup {t}
          /\ UNCHANGED <<data, dataWait>>
    /\ UNCHANGED <<got, pushes>>

\* std::condition_variable::wait may return without a notification.
SpuriousWakeup(t) ==
    /\ \/ /\ t \in dataWait
          /\ dataWait' = dataWait \ {t}
          /\ UNCHANGED emptyWait
       \/ /\ t \in emptyWait
          /\ emptyWait' = emptyWait \ {t}
          /\ UNCHANGED dataWait
    /\ UNCHANGED <<data, pc, got, pushes>>

Next ==
    \/ \E t \in Pushers, v \in Values \ {Pill} : Push(t, v)
    \/ \E t \in Poppers \cup Loggers : Pop(t)
    \/ \E t \in Tryers : TryAndPop(t)
    \/ \E t \in Loggers : WaitTillNotEmpty(t)
    \/ \E t \in Closers : WaitPushTillEmpty(t)
    \/ \E t \in Threads : SpuriousWakeup(t)

Spec == Init /\ [][Next]_vars

\* A popper loops until it takes the pill (Client.cpp:55-63), after which its
\* Pop is never enabled again; a logger loops for ever (Log.h:80-88) and a
\* closer runs until it returns.  Nothing obliges a pusher to push, the game
\* loop to poll (a frame may stand still, IOManger.cpp:20), nor a wait to wake
\* spuriously.
Fairness ==
    /\ \A t \in Poppers \cup Loggers : WF_vars(Pop(t))
    /\ \A t \in Loggers : WF_vars(WaitTillNotEmpty(t))
    /\ \A t \in Closers : WF_vars(WaitPushTillEmpty(t))

FairSpec == Spec /\ Fairness
-----------------------------------------------------------------------------
\* Threads inside pop or waitTillNotEmpty that are not asleep: each of them
\* will look at the queue (again) without any further notification.
Active == {t \in Threads : pc[t] \in {"pop", "wait", "ready"} /\ t \notin dataWait}

\* While a consumer sleeps on data_cond, there are at least as many awake
\* consumers on their way to the queue as values in it: the notify_one of each
\* push (ConcQueue.h:24) is enough, no value is left with everyone asleep.
NoLostWakeup == dataWait # {} => Len(data) <= Cardinality(Active)

\* While the queue is empty, a thread asleep in waitPushTillEmpty has another
\* one already woken and about to push: the notify_one given when the last
\* value is popped (ConcQueue.h:41, 54) never goes missing.
NoLostEmptySignal ==
    data = <<>> /\ emptyWait # {} =>
        \E t \in Threads : pc[t] = "close" /\ t \notin emptyWait

\* Whoever waits in waitPushTillEmpty (serverEnd and clientEnd push the
\* MSG_BUTTON pill with it) gets to push once the pushers are quiet.
CloseCompletes == \A t \in Closers : pc[t] = "close" ~> pc[t] = "done"

\* The poppers that took the pill.
Left == {t \in Poppers : pc[t] = "done"}

\* The queue with its mutex and condition variables implements the plain
\* FIFO; the fair version adds that it is served while it holds a value, as
\* long as a popper or a logger has not left.
Abstract == INSTANCE Fifo WITH
                queue <- data, left <- Left,
                Waiters <- Poppers \cup Loggers, Quitters <- Poppers

ImplementsFifo == Abstract!Spec
ImplementsFairFifo == Abstract!FairSpec
=============================================================================
