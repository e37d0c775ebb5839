------------------------------ MODULE RedisPool ------------------------------
(***************************************************************************)
(* The Redis contexts of the server (smer/Redis/src/redis_pool.cpp).  A    *)
(* command takes an idle context or, when there is none, connects, outside *)
(* the mutex and without a limit, unless a connect failed less than        *)
(* Interval seconds ago.  A context that answered becomes idle, one that   *)
(* did not is freed.  The two kinds of connection (conType) have the same  *)
(* code and a queue each; the model is that of the kind in use.            *)
(*                                                                         *)
(* A thread reads the clock in one step and uses what it read in another:  *)
(* a compare with m_beginInvalidTime, or a store in it, outside the mutex. *)
(* A thread may be held up for any time in between, so a store may replace *)
(* a later time by an earlier one; slip measures by how much.  The store   *)
(* itself is assumed not to be torn (a time_t, one word).  The text of the *)
(* commands is in ChatServer.  A definition marked faulty is a plausible   *)
(* error in the one after it; no action uses it.                           *)
(***************************************************************************)
EXTENDS Integers, Sequences, FiniteSets

CONSTANTS
    Threads,    \* workers that execute commands
    Contexts,   \* redisClusterContext objects
    Interval,   \* m_maxReconnectInterval
    None,
    MaxTime     \* bound: seconds the clock runs

ASSUME RedisAssumption ==
    /\ IsFiniteSet(Threads)
    /\ None \notin Contexts
    /\ Interval \in Nat
    /\ MaxTime \in Nat

VARIABLES
    now,        \* time(NULL)
    invalid,    \* m_beginInvalidTime
    clients,    \* m_clusterClients, the idle contexts
    pc,         \* where each thread is, see Steps
    clock,      \* the time each thread read and did not use yet, else 0
    ctx,        \* the context each thread works with, or None
    open,       \* contexts that were connected and not freed
    failed,     \* history: the time each thread read after its last failure
    slip        \* history: the longest a store of such a time was behind it

vars == <<now, invalid, clients, pc, clock, ctx, open, failed, slip>>

Steps == {"idle", "check", "compare", "connect", "store", "run"}

Idle == {clients[i] : i \in DOMAIN clients}
Users == {t \in Threads : pc[t] = "run"}
LongAgo == -Interval

TypeOK ==
    /\ now \in 0..MaxTime
    /\ invalid \in {LongAgo} \cup 0..MaxTime
    /\ clients \in Seq(Contexts)
    /\ pc \in [Threads -> Steps]
    /\ clock \in [Threads -> 0..MaxTime]
    /\ ctx \in [Threads -> Contexts \cup {None}]
    /\ open \in SUBSET Contexts
    /\ failed \in [Threads -> {LongAgo} \cup 0..MaxTime]
    /\ slip \in 0..MaxTime

Init ==
    /\ now = 0
    /\ invalid = LongAgo
    /\ clients = <<>>
    /\ pc = [t \in Threads |-> "idle"]
    /\ clock = [t \in Threads |-> 0]
    /\ ctx = [t \in Threads |-> None]
    /\ open = {}
    /\ failed = [t \in Threads |-> LongAgo]
    /\ slip = 0
-----------------------------------------------------------------------------
Goto(t, step) == pc' = [pc EXCEPT ![t] = step]

\* Faulty: the context is taken out and not kept.
ForgetIdle(t) ==
    /\ clients # <<>>
    /\ clients' = Tail(clients)
    /\ UNCHANGED ctx

\* Faulty: the context stays in the queue.
PeekIdle(t) ==
    /\ clients # <<>>
    /\ ctx' = [ctx EXCEPT ![t] = Head(clients)]
    /\ UNCHANGED clients

PopIdle(t) ==
    /\ clients # <<>>
    /\ ctx' = [ctx EXCEPT ![t] = Head(clients)]
    /\ clients' = Tail(clients)

\* ExecuteCmd_spop, up to the end of the critical section of
\* CreateClusterContext.
TakeContext(t) ==
    /\ pc[t] = "idle"
    /\ \/ /\ PopIdle(t)
          /\ Goto(t, "run")
       \/ /\ clients = <<>>
          /\ Goto(t, "check")
          /\ UNCHANGED <<clients, ctx>>
    /\ UNCHANGED <<now, invalid, clock, open, failed, slip>>

\* now = time(NULL).
ReadClock(t) ==
    /\ pc[t] = "check"
    /\ clock' = [clock EXCEPT ![t] = now]
    /\ Goto(t, "compare")
    /\ UNCHANGED <<now, invalid, clients, ctx, open, failed, slip>>

InBackoffForgotten(t) == clock[t] < invalid   \* faulty: the interval is left out

\* By the time t read, a connect failed within the last Interval seconds.
InBackoff(t) == clock[t] < invalid + Interval

\* m_beginInvalidTime is read and compared with the time read before.
CheckBackoff(t) ==
    /\ pc[t] = "compare"
    /\ \/ InBackoff(t) /\ Goto(t, "idle")         \* returns NULL
       \/ ~ InBackoff(t) /\ Goto(t, "connect")
    /\ clock' = [clock EXCEPT ![t] = 0]
    /\ UNCHANGED <<now, invalid, clients, ctx, open, failed, slip>>

\* The connect, and after a failure the second time(NULL).
Connect(t) ==
    /\ pc[t] = "connect"
    /\ \/ \E c \in Contexts \ open :
            /\ open' = open \cup {c}
            /\ ctx' = [ctx EXCEPT ![t] = c]
            /\ Goto(t, "run")
            /\ UNCHANGED <<clock, failed>>
       \/ /\ clock' = [clock EXCEPT ![t] = now]
          /\ failed' = [failed EXCEPT ![t] = now]
          /\ Goto(t, "store")
          /\ UNCHANGED <<open, ctx>>
    /\ UNCHANGED <<now, invalid, clients, slip>>

\* m_beginInvalidTime gets the time read after the failure, which by now may
\* be behind the clock, and behind what another thread stored meanwhile.
StoreFailure(t) ==
    /\ pc[t] = "store"
    /\ invalid' = clock[t]
    /\ slip' = IF now - clock[t] > slip THEN now - clock[t] ELSE slip
    /\ clock' = [clock EXCEPT ![t] = 0]
    /\ Goto(t, "idle")                           \* returns NULL
    /\ UNCHANGED <<now, clients, ctx, open, failed>>

\* Faulty: a context that did not answer is dropped, not freed.
DropContext(t) == UNCHANGED <<open, clients>>

FreeContext(t) ==
    /\ open' = open \ {ctx[t]}
    /\ UNCHANGED clients

\* redisClusterCommand and ReleaseClusterContext: with an answer the context
\* is queued, without one (reply == NULL) it is freed.
Release(t) ==
    /\ pc[t] = "run"
    /\ \/ /\ clients' = Append(clients, ctx[t])
          /\ UNCHANGED open
       \/ FreeContext(t)
    /\ ctx' = [ctx EXCEPT ![t] = None]
    /\ Goto(t, "idle")
    /\ UNCHANGED <<now, invalid, clock, failed, slip>>

Tick ==
    /\ now < MaxTime
    /\ now' = now + 1
    /\ UNCHANGED <<invalid, clients, pc, clock, ctx, open, failed, slip>>

Next ==
    \/ \E t \in Threads :
          \/ TakeContext(t) \/ ReadClock(t) \/ CheckBackoff(t)
          \/ Connect(t) \/ StoreFailure(t) \/ Release(t)
    \/ Tick

Spec == Init /\ [][Next]_vars
-----------------------------------------------------------------------------
\* A context is used by one thread at a time, is not queued while it is used
\* nor twice, and is not used or queued after it was freed
\* (redis_pool.cpp:143-154, 225-231).
Exclusive ==
    /\ \A t, u \in Users : ctx[t] = ctx[u] => t = u
    /\ \A i, j \in DOMAIN clients : clients[i] = clients[j] => i = j
    /\ \A t \in Users : ctx[t] \in open \ Idle
    /\ Idle \subseteq open

\* The queue has no limit (README.md:12), and yet there are never more contexts
\* than threads, although a thread that found the queue empty connects later,
\* when it may no longer be.
NoMoreThanThreads == Cardinality(open) <= Cardinality(Threads)

\* A thread may try to connect again less than Interval seconds after its own
\* failure, since another may have stored an earlier time over its own; but
\* early by no more than a store was ever behind the clock
\* (redis_pool.cpp:156-157, 176).
NoEarlyRetry ==
    \A t \in Threads : pc[t] = "connect" => now >= failed[t] + Interval - slip

\* The commands lend contexts: one that is handed out was idle or is new, and
\* comes back to the queue from the thread that has it or is freed by it
\* (redis_pool.cpp:143-175, 225-231).
Pool == INSTANCE Lending WITH
            Borrowers <- Threads, Resources <- Contexts, Nothing <- None,
            idle <- Idle, lent <- ctx, lost <- {}

ImplementsLending == Pool!Spec
=============================================================================
