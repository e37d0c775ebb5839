--------------------------- MODULE RedisPoolProofs ---------------------------
(***************************************************************************)
(* Safety of RedisPool for any finite set of threads, any contexts, any    *)
(* interval and any time.  Inv adds to the properties that no context is   *)
(* lost (every open one is idle or used), that a thread which found none   *)
(* idle has its place reserved, and that the failures on record are behind *)
(* the clock and, up to slip, not after the time on record for all.        *)
(***************************************************************************)
EXTENDS RedisPool, QueueLemmas, FiniteSetTheorems, TLAPS

\* Threads that found no idle context and did not connect yet.
Without == {t \in Threads : pc[t] \in {"check", "compare", "connect"}}

NoneLost == \A c \in open : c \in Idle \/ \E t \in Users : ctx[t] = c

Reserved == Cardinality(open) + Cardinality(Without) <= Cardinality(Threads)

PastFailures ==
    /\ invalid <= now
    /\ \A t \in Threads :
          /\ clock[t] <= now
          /\ failed[t] <= now
          /\ IF pc[t] = "store" THEN failed[t] = clock[t]
                                ELSE failed[t] <= invalid + slip

FiniteOpen == IsFiniteSet(open)

Inv == TypeOK /\ Exclusive /\ FiniteOpen /\ NoneLost /\ Reserved /\ PastFailures
          /\ NoEarlyRetry
-----------------------------------------------------------------------------
LEMMA Sizes ==
  ASSUME FiniteOpen
  PROVE  /\ IsFiniteSet(Threads) /\ Cardinality(Threads) \in Nat
         /\ IsFiniteSet(Without) /\ Cardinality(Without) \in Nat
         /\ Cardinality(open) \in Nat
  <1>1. IsFiniteSet(Without)
    BY RedisAssumption, FS_Subset DEF Without
  <1> QED BY <1>1, RedisAssumption, FS_CardinalityType DEF FiniteOpen

\* With no idle context, the open ones are at most the threads that use one,
\* and there is room for a thread that uses none and is not waiting for one.
LEMMA RoomForOneMore ==
  ASSUME Inv, clients = <<>>, NEW t \in Threads, pc[t] = "idle"
  PROVE  Cardinality(open) + Cardinality(Without) + 1 <= Cardinality(Threads)
  <1>1. Idle = {}
    BY DEF Idle
  <1> DEFINE user == [c \in open |-> CHOOSE u \in Users : ctx[u] = c]
  <1>2. \A c \in open : user[c] \in Users /\ ctx[user[c]] = c
    BY <1>1 DEF Inv, NoneLost
  <1>3. user \in Injection(open, Users)
    <2>1. user \in [open -> Users]
      BY <1>2
    <2>2. \A c, d \in open : user[c] = user[d] => c = d
      BY <1>2
    <2> QED BY <2>1, <2>2 DEF Injection, IsInjective
  <1>4. IsFiniteSet(Users) /\ IsFiniteSet(Threads)
    BY RedisAssumption, FS_Subset DEF Users
  <1>5. Cardinality(open) <= Cardinality(Users)
    BY <1>3, <1>4, FS_Injection
  <1>6. Users \cap Without = {} /\ t \notin Users /\ t \notin Without
    BY DEF Users, Without
  <1>7. IsFiniteSet(Without) /\ Cardinality(Without) \in Nat /\ Cardinality(open) \in Nat
        /\ Cardinality(Threads) \in Nat
    BY Sizes DEF Inv
  <1>8. Cardinality(Users) \in Nat
    BY <1>4, FS_CardinalityType
  <1>9. /\ IsFiniteSet(Users \cup Without)
        /\ Cardinality(Users \cup Without) = Cardinality(Users) + Cardinality(Without)
    <2>1. Cardinality(Users \cap Without) = 0
      BY <1>6, FS_EmptySet
    <2>2. /\ IsFiniteSet(Users \cup Without)
          /\ Cardinality(Users \cup Without)
               = Cardinality(Users) + Cardinality(Without) - Cardinality(Users \cap Without)
      BY <1>4, <1>7, FS_Union
    <2> QED BY <2>1, <2>2, <1>7, <1>8
  <1>10. Cardinality((Users \cup Without) \cup {t}) = Cardinality(Users) + Cardinality(Without) + 1
    BY <1>6, <1>9, FS_AddElement
  <1>11. (Users \cup Without) \cup {t} \subseteq Threads
    BY DEF Users, Without
  <1>12. Cardinality((Users \cup Without) \cup {t}) <= Cardinality(Threads)
    BY <1>11, <1>4, FS_Subset
  <1> QED BY <1>5, <1>7, <1>8, <1>10, <1>12
-----------------------------------------------------------------------------
\* What the queue of idle contexts does.
LEMMA PopsIdle ==
  ASSUME TypeOK, clients # <<>>, clients' = Tail(clients),
         \A i, j \in DOMAIN clients : clients[i] = clients[j] => i = j
  PROVE  /\ clients' \in Seq(Contexts)
         /\ Head(clients) \in Contexts
         /\ Idle' = Idle \ {Head(clients)} /\ Head(clients) \in Idle
         /\ \A i, j \in DOMAIN clients' : clients'[i] = clients'[j] => i = j
  <1>1. clients \in Seq(Contexts) /\ Distinct(clients)
    BY DEF TypeOK, Distinct
  <1>2. Idle = Elements(clients) /\ Idle' = Elements(Tail(clients))
    BY DEF Idle, Elements
  <1>3. /\ Tail(clients) \in Seq(Contexts) /\ Head(clients) \in Contexts
        /\ Head(clients) \in Elements(clients)
    BY <1>1, TailOf, TailElements
  <1>4. Distinct(Tail(clients)) /\ Elements(Tail(clients)) = Elements(clients) \ {Head(clients)}
    BY <1>1, TailDistinct
  <1> QED BY <1>2, <1>3, <1>4 DEF Distinct

LEMMA PushesIdle ==
  ASSUME TypeOK, NEW c \in Contexts, c \notin Idle, clients' = Append(clients, c),
         \A i, j \in DOMAIN clients : clients[i] = clients[j] => i = j
  PROVE  /\ clients' \in Seq(Contexts)
         /\ Idle' = Idle \cup {c}
         /\ \A i, j \in DOMAIN clients' : clients'[i] = clients'[j] => i = j
  <1>1. clients \in Seq(Contexts) /\ Distinct(clients)
    BY DEF TypeOK, Distinct
  <1>2. Idle = Elements(clients) /\ Idle' = Elements(Append(clients, c))
    BY DEF Idle, Elements
  <1>3. Append(clients, c) \in Seq(Contexts)
    BY <1>1, AppendOf
  <1>4. Elements(Append(clients, c)) = Elements(clients) \cup {c}
    BY <1>1, AppendElements
  <1>5. Distinct(Append(clients, c))
    BY <1>1, <1>2, AppendDistinct
  <1> QED BY <1>2, <1>3, <1>4, <1>5 DEF Distinct

LEMMA SameIdle == UNCHANGED clients => UNCHANGED Idle
  BY DEF Idle

\* What a thread's step does to the threads that wait for a context.
LEMMA StartsWaiting ==
  ASSUME FiniteOpen, pc \in [Threads -> Steps],
         NEW t \in Threads, t \notin Without, pc' = [pc EXCEPT ![t] = "check"]
  PROVE  Cardinality(Without') = Cardinality(Without) + 1
  <1>1. Without' = Without \cup {t}
    BY DEF Without, Steps
  <1> QED BY <1>1, Sizes, FS_AddElement

LEMMA StopsWaiting ==
  ASSUME FiniteOpen, pc \in [Threads -> Steps],
         NEW t \in Threads, t \in Without, NEW step \in {"idle", "store", "run"},
         pc' = [pc EXCEPT ![t] = step]
  PROVE  Cardinality(Without') = Cardinality(Without) - 1
  <1>1. Without' = Without \ {t}
    BY DEF Without, Steps
  <1> QED BY <1>1, Sizes, FS_RemoveElement

LEMMA SameWithout ==
  ASSUME pc \in [Threads -> Steps],
         NEW t \in Threads, NEW step \in Steps,
         pc' = [pc EXCEPT ![t] = step],
         t \in Without <=> step \in {"check", "compare", "connect"}
  PROVE  Without' = Without
  BY DEF Without
-----------------------------------------------------------------------------
LEMMA InitInv == Init => Inv
  <1> SUFFICES ASSUME Init PROVE Inv
    OBVIOUS
  <1>1. TypeOK
    BY RedisAssumption DEF Init, TypeOK, LongAgo, Steps
  <1>2. Idle = {} /\ Users = {} /\ Without = {}
    BY DEF Init, Idle, Users, Without
  <1>3. Exclusive
    BY <1>2 DEF Init, Exclusive
  <1>4. FiniteOpen /\ NoneLost
    BY FS_EmptySet DEF Init, FiniteOpen, NoneLost
  <1>5. Reserved
    BY <1>2, <1>4, Sizes, FS_EmptySet DEF Init, Reserved
  <1>6. PastFailures /\ NoEarlyRetry
    BY RedisAssumption DEF Init, PastFailures, NoEarlyRetry, LongAgo
  <1> QED BY <1>1, <1>3, <1>4, <1>5, <1>6 DEF Inv

LEMMA TakeInv ==
  ASSUME Inv, NEW t \in Threads, TakeContext(t)
  PROVE  Inv'
  <1>1. CASE clients # <<>> /\ PopIdle(t) /\ Goto(t, "run")
    <2>1. /\ clients' = Tail(clients) /\ ctx' = [ctx EXCEPT ![t] = Head(clients)]
          /\ pc' = [pc EXCEPT ![t] = "run"] /\ pc[t] = "idle"
          /\ UNCHANGED <<now, invalid, clock, open, failed, slip>>
      BY <1>1 DEF PopIdle, Goto, TakeContext
    <2>2. /\ clients' \in Seq(Contexts)
          /\ Head(clients) \in Contexts
          /\ Idle' = Idle \ {Head(clients)} /\ Head(clients) \in Idle
          /\ \A i, j \in DOMAIN clients' : clients'[i] = clients'[j] => i = j
      BY <1>1, <2>1, PopsIdle DEF Inv, Exclusive
    <2>3. TypeOK'
      BY <2>1, <2>2 DEF Inv, TypeOK, Steps
    <2>4. Users' = Users \cup {t} /\ t \notin Users
      BY <2>1 DEF Inv, TypeOK, Users
    <2>5. ctx'[t] = Head(clients) /\ \A u \in Users : ctx'[u] = ctx[u]
      BY <2>1, <2>4 DEF Inv, TypeOK, Users
    <2>6. Exclusive'
      BY <2>1, <2>2, <2>4, <2>5 DEF Inv, Exclusive
    <2>7. NoneLost' /\ FiniteOpen'
      BY <2>1, <2>2, <2>4, <2>5 DEF Inv, NoneLost, FiniteOpen
    <2>8. Without' = Without
      BY <2>1 DEF Inv, TypeOK, Without
    <2>9. Reserved' /\ PastFailures' /\ NoEarlyRetry'
      BY <2>1, <2>8 DEF Inv, TypeOK, Reserved, PastFailures, NoEarlyRetry
    <2> QED BY <2>3, <2>6, <2>7, <2>9 DEF Inv
  <1>2. CASE clients = <<>> /\ Goto(t, "check") /\ UNCHANGED <<clients, ctx>>
    <2>1. /\ pc' = [pc EXCEPT ![t] = "check"] /\ pc[t] = "idle"
          /\ UNCHANGED <<now, invalid, clients, clock, ctx, open, failed, slip>>
      BY <1>2 DEF Goto, TakeContext
    <2>2. TypeOK'
      BY <2>1 DEF Inv, TypeOK, Steps
    <2>3. Users' = Users /\ Idle' = Idle /\ t \notin Without
      BY <2>1, SameIdle DEF Inv, TypeOK, Users, Without
    <2>4. Exclusive' /\ NoneLost' /\ FiniteOpen'
      BY <2>1, <2>3 DEF Inv, Exclusive, NoneLost, FiniteOpen
    <2>5. Cardinality(Without') = Cardinality(Without) + 1
      BY <2>1, <2>3, StartsWaiting DEF Inv, TypeOK
    <2>6. Reserved'
      BY <1>2, <2>1, <2>5, RoomForOneMore, Sizes DEF Inv, Reserved
    <2>7. PastFailures' /\ NoEarlyRetry'
      BY <2>1 DEF Inv, TypeOK, PastFailures, NoEarlyRetry
    <2> QED BY <2>2, <2>4, <2>6, <2>7 DEF Inv
  <1> QED BY <1>1, <1>2 DEF TakeContext, PopIdle

LEMMA ReadInv ==
  ASSUME Inv, NEW t \in Threads, ReadClock(t)
  PROVE  Inv'
  <1>1. /\ pc[t] = "check" /\ pc' = [pc EXCEPT ![t] = "compare"]
        /\ clock' = [clock EXCEPT ![t] = now]
        /\ UNCHANGED <<now, invalid, clients, ctx, open, failed, slip>>
    BY DEF ReadClock, Goto
  <1>2. TypeOK'
    BY <1>1 DEF Inv, TypeOK, Steps
  <1>3. Users' = Users /\ Idle' = Idle /\ Without' = Without
    BY <1>1, SameIdle DEF Inv, TypeOK, Users, Without
  <1>4. Exclusive' /\ NoneLost' /\ FiniteOpen' /\ Reserved'
    BY <1>1, <1>3 DEF Inv, Exclusive, NoneLost, FiniteOpen, Reserved
  <1>5. PastFailures' /\ NoEarlyRetry'
    BY <1>1 DEF Inv, TypeOK, PastFailures, NoEarlyRetry
  <1> QED BY <1>2, <1>4, <1>5 DEF Inv

\* The time a thread read is compared with the last failure on record, which
\* is before this thread's by slip at most.
LEMMA CheckInv ==
  ASSUME Inv, NEW t \in Threads, CheckBackoff(t)
  PROVE  Inv'
  <1>1. /\ pc[t] = "compare" /\ t \in Without
        /\ clock' = [clock EXCEPT ![t] = 0]
        /\ UNCHANGED <<now, invalid, clients, ctx, open, failed, slip>>
        /\ \/ pc' = [pc EXCEPT ![t] = "idle"]
           \/ ~ InBackoff(t) /\ pc' = [pc EXCEPT ![t] = "connect"]
    BY DEF CheckBackoff, Goto, Without
  <1>2. TypeOK'
    <2>1. 0 \in 0..MaxTime
      BY RedisAssumption
    <2>2. pc' \in [Threads -> Steps]
      BY <1>1 DEF Inv, TypeOK, Steps
    <2> QED BY <1>1, <2>1, <2>2 DEF Inv, TypeOK
  <1>3. Users' = Users /\ Idle' = Idle
    BY <1>1, SameIdle DEF Inv, TypeOK, Users
  <1>4. Exclusive' /\ NoneLost' /\ FiniteOpen'
    BY <1>1, <1>3 DEF Inv, Exclusive, NoneLost, FiniteOpen
  <1>5. PastFailures'
    BY <1>1 DEF Inv, TypeOK, PastFailures
  <1>6. CASE pc' = [pc EXCEPT ![t] = "idle"]
    <2>1. Cardinality(Without') = Cardinality(Without) - 1
      BY <1>1, <1>6, StopsWaiting DEF Inv, TypeOK
    <2>2. Reserved'
      BY <1>1, <2>1, Sizes DEF Inv, Reserved
    <2>3. NoEarlyRetry'
      BY <1>1, <1>6 DEF Inv, TypeOK, NoEarlyRetry
    <2> QED BY <1>2, <1>4, <1>5, <2>2, <2>3 DEF Inv
  <1>7. CASE ~ InBackoff(t) /\ pc' = [pc EXCEPT ![t] = "connect"]
    <2>1. Without' = Without
      BY <1>1, <1>7 DEF Inv, TypeOK, Without
    <2>2. Reserved'
      BY <1>1, <2>1 DEF Inv, Reserved
    <2>3. /\ now \in Int /\ invalid \in Int /\ Interval \in Int /\ slip \in Int
          /\ failed[t] \in Int /\ clock[t] \in Int
      BY RedisAssumption DEF Inv, TypeOK, LongAgo
    <2>4. failed[t] <= invalid + slip /\ clock[t] <= now
      BY <1>1 DEF Inv, PastFailures
    <2>5. now >= failed[t] + Interval - slip
      BY <1>7, <2>3, <2>4 DEF InBackoff
    <2>6. NoEarlyRetry'
      BY <1>1, <1>7, <2>5 DEF Inv, TypeOK, NoEarlyRetry
    <2> QED BY <1>2, <1>4, <1>5, <2>2, <2>6 DEF Inv
  <1> QED BY <1>1, <1>6, <1>7

LEMMA ConnectInv ==
  ASSUME Inv, NEW t \in Threads, Connect(t)
  PROVE  Inv'
  <1>1. pc[t] = "connect" /\ t \in Without /\ t \notin Users
        /\ UNCHANGED <<now, invalid, clients, slip>>
    BY DEF Connect, Without, Users
  <1>2. Idle' = Idle
    BY <1>1, SameIdle
  <1>3. ASSUME NEW c \in Contexts \ open,
               open' = open \cup {c}, ctx' = [ctx EXCEPT ![t] = c],
               pc' = [pc EXCEPT ![t] = "run"], UNCHANGED <<clock, failed>>
        PROVE  Inv'
    <2>1. TypeOK'
      BY <1>1, <1>3 DEF Inv, TypeOK, Steps
    <2>2. Users' = Users \cup {t}
      BY <1>3 DEF Inv, TypeOK, Users
    <2>3. ctx'[t] = c /\ \A u \in Users : ctx'[u] = ctx[u]
      BY <1>1, <1>3 DEF Inv, TypeOK, Users
    <2>4. Exclusive'
      BY <1>1, <1>2, <1>3, <2>2, <2>3 DEF Inv, Exclusive
    <2>5. NoneLost'
      BY <1>2, <1>3, <2>2, <2>3 DEF Inv, NoneLost
    <2>6. FiniteOpen' /\ Cardinality(open') = Cardinality(open) + 1
      BY <1>3, FS_AddElement DEF Inv, FiniteOpen
    <2>7. Cardinality(Without') = Cardinality(Without) - 1
      BY <1>1, <1>3, StopsWaiting DEF Inv, TypeOK
    <2>8. Reserved'
      BY <2>6, <2>7, Sizes DEF Inv, Reserved
    <2>9. PastFailures' /\ NoEarlyRetry'
      BY <1>1, <1>3 DEF Inv, TypeOK, PastFailures, NoEarlyRetry
    <2> QED BY <2>1, <2>4, <2>5, <2>6, <2>8, <2>9 DEF Inv
  <1>4. CASE /\ clock' = [clock EXCEPT ![t] = now] /\ failed' = [failed EXCEPT ![t] = now]
             /\ pc' = [pc EXCEPT ![t] = "store"] /\ UNCHANGED <<open, ctx>>
    <2>1. TypeOK'
      BY <1>1, <1>4 DEF Inv, TypeOK, Steps
    <2>2. Users' = Users
      BY <1>1, <1>4 DEF Inv, TypeOK, Users
    <2>3. Exclusive' /\ NoneLost' /\ FiniteOpen'
      BY <1>1, <1>2, <1>4, <2>2 DEF Inv, Exclusive, NoneLost, FiniteOpen
    <2>4. Cardinality(Without') = Cardinality(Without) - 1
      BY <1>1, <1>4, StopsWaiting DEF Inv, TypeOK
    <2>5. Reserved'
      BY <1>4, <2>4, Sizes DEF Inv, Reserved
    <2>6. PastFailures'
      BY <1>1, <1>4 DEF Inv, TypeOK, PastFailures
    <2>7. NoEarlyRetry'
      BY <1>1, <1>4 DEF Inv, TypeOK, NoEarlyRetry
    <2> QED BY <2>1, <2>3, <2>5, <2>6, <2>7 DEF Inv
  <1> QED BY <1>3, <1>4 DEF Connect, Goto

\* The time stored is behind the clock by slip at most, so a failure of another
\* thread, however late, is before it up to slip.
LEMMA StoreInv ==
  ASSUME Inv, NEW t \in Threads, StoreFailure(t)
  PROVE  Inv'
  <1>1. /\ pc[t] = "store" /\ pc' = [pc EXCEPT ![t] = "idle"]
        /\ invalid' = clock[t] /\ clock' = [clock EXCEPT ![t] = 0]
        /\ slip' = IF now - clock[t] > slip THEN now - clock[t] ELSE slip
        /\ UNCHANGED <<now, clients, ctx, open, failed>>
    BY DEF StoreFailure, Goto
  <1>2. /\ now \in Int /\ invalid \in Int /\ Interval \in Int /\ slip \in Int
        /\ \A u \in Threads : failed[u] \in Int /\ clock[u] \in 0..MaxTime
        /\ MaxTime \in Nat /\ now \in 0..MaxTime /\ slip \in 0..MaxTime
    BY RedisAssumption DEF Inv, TypeOK, LongAgo
  <1>3. clock[t] <= now /\ \A u \in Threads : failed[u] <= now
    BY DEF Inv, PastFailures
  <1>4. slip' \in 0..MaxTime /\ slip' >= slip /\ now <= clock[t] + slip'
    BY <1>1, <1>2, <1>3
  <1>5. TypeOK'
    BY <1>1, <1>2, <1>4 DEF Inv, TypeOK, Steps
  <1>6. Users' = Users /\ Idle' = Idle /\ Without' = Without
    BY <1>1, SameIdle DEF Inv, TypeOK, Users, Without
  <1>7. Exclusive' /\ NoneLost' /\ FiniteOpen' /\ Reserved'
    BY <1>1, <1>6 DEF Inv, Exclusive, NoneLost, FiniteOpen, Reserved
  <1>8. PastFailures'
    <2>1. \A u \in Threads : failed[u] <= clock[t] + slip'
      BY <1>2, <1>3, <1>4
    <2>2. \A u \in Threads : u # t => pc'[u] = pc[u] /\ clock'[u] = clock[u]
      BY <1>1 DEF Inv, TypeOK
    <2>3. pc'[t] = "idle" /\ clock'[t] = 0
      BY <1>1 DEF Inv, TypeOK
    <2> QED BY <1>1, <1>2, <1>3, <2>1, <2>2, <2>3 DEF Inv, PastFailures
  <1>9. NoEarlyRetry'
    <2>1. \A u \in Threads : pc'[u] = "connect" => pc[u] = "connect"
      BY <1>1 DEF Inv, TypeOK
    <2>2. \A u \in Threads :
             pc[u] = "connect" => now >= failed[u] + Interval - slip
      BY DEF Inv, NoEarlyRetry
    <2> QED BY <1>1, <1>2, <1>4, <2>1, <2>2 DEF NoEarlyRetry
  <1> QED BY <1>5, <1>7, <1>8, <1>9 DEF Inv

LEMMA ReleaseInv ==
  ASSUME Inv, NEW t \in Threads, Release(t)
  PROVE  Inv'
  <1>1. /\ pc[t] = "run" /\ t \in Users /\ t \notin Without
        /\ ctx' = [ctx EXCEPT ![t] = None] /\ pc' = [pc EXCEPT ![t] = "idle"]
        /\ UNCHANGED <<now, invalid, clock, failed, slip>>
        /\ \/ clients' = Append(clients, ctx[t]) /\ open' = open
           \/ open' = open \ {ctx[t]} /\ clients' = clients
    BY DEF Release, FreeContext, Goto, Users, Without
  <1>2. ctx[t] \in open /\ ctx[t] \in Contexts /\ ctx[t] \notin Idle
    BY <1>1 DEF Inv, Exclusive, TypeOK
  <1>3. Users' = Users \ {t} /\ Without' = Without
    BY <1>1 DEF Inv, TypeOK, Users, Without
  <1>4. \A u \in Users \ {t} : ctx'[u] = ctx[u] /\ ctx[u] # ctx[t]
    BY <1>1 DEF Inv, Exclusive, TypeOK, Users
  <1>5. PastFailures' /\ NoEarlyRetry'
    BY <1>1 DEF Inv, TypeOK, PastFailures, NoEarlyRetry
  <1>6. CASE clients' = Append(clients, ctx[t]) /\ open' = open
    <2>1. /\ clients' \in Seq(Contexts)
          /\ Idle' = Idle \cup {ctx[t]}
          /\ \A i, j \in DOMAIN clients' : clients'[i] = clients'[j] => i = j
      BY <1>2, <1>6, PushesIdle DEF Inv, Exclusive
    <2>2. TypeOK'
      BY <1>1, <1>6, <2>1 DEF Inv, TypeOK, Steps
    <2>3. Exclusive' /\ FiniteOpen'
      BY <1>2, <1>3, <1>4, <1>6, <2>1 DEF Inv, Exclusive, FiniteOpen
    <2>4. NoneLost'
      BY <1>3, <1>4, <1>6, <2>1 DEF Inv, NoneLost
    <2>5. Reserved'
      BY <1>3, <1>6 DEF Inv, Reserved
    <2> QED BY <1>5, <2>2, <2>3, <2>4, <2>5 DEF Inv
  <1>7. CASE open' = open \ {ctx[t]} /\ clients' = clients
    <2>1. Idle' = Idle
      BY <1>7, SameIdle
    <2>2. TypeOK'
      BY <1>1, <1>7 DEF Inv, TypeOK, Steps
    <2>3. Exclusive'
      BY <1>2, <1>3, <1>4, <1>7, <2>1 DEF Inv, Exclusive
    <2>4. NoneLost'
      BY <1>3, <1>4, <1>7, <2>1 DEF Inv, NoneLost
    <2>5. FiniteOpen' /\ Cardinality(open') = Cardinality(open) - 1
      BY <1>2, <1>7, FS_RemoveElement DEF Inv, FiniteOpen
    <2>6. Reserved'
      BY <1>3, <2>5, Sizes DEF Inv, Reserved
    <2> QED BY <1>5, <2>2, <2>3, <2>4, <2>5, <2>6 DEF Inv
  <1> QED BY <1>1, <1>6, <1>7

LEMMA TickInv == Inv /\ Tick => Inv'
  <1> SUFFICES ASSUME Inv, Tick PROVE Inv'
    OBVIOUS
  <1>1. /\ now' = now + 1 /\ now < MaxTime
        /\ UNCHANGED <<invalid, clients, pc, clock, ctx, open, failed, slip>>
    BY DEF Tick
  <1>2. now \in Int /\ invalid \in Int /\ Interval \in Int
        /\ slip \in Int /\ \A u \in Threads : failed[u] \in Int /\ clock[u] \in Int
    BY RedisAssumption DEF Inv, TypeOK, LongAgo
  <1>3. TypeOK'
    BY <1>1, RedisAssumption DEF Inv, TypeOK, LongAgo
  <1>4. PastFailures' /\ NoEarlyRetry'
    BY <1>1, <1>2 DEF Inv, PastFailures, NoEarlyRetry
  <1>5. Exclusive' /\ FiniteOpen' /\ NoneLost' /\ Reserved'
    BY <1>1 DEF Inv, Exclusive, FiniteOpen, NoneLost, Reserved, Idle, Users, Without
  <1> QED BY <1>3, <1>4, <1>5 DEF Inv

LEMMA NextInv == Inv /\ [Next]_vars => Inv'
  <1> SUFFICES ASSUME Inv, [Next]_vars PROVE Inv'
    OBVIOUS
  <1>1. CASE UNCHANGED vars
    BY <1>1 DEF vars, Inv, TypeOK, Exclusive, FiniteOpen, NoneLost, Reserved,
                PastFailures, NoEarlyRetry, Idle, Users, Without
  <1>2. CASE Next
    BY <1>2, TakeInv, ReadInv, CheckInv, ConnectInv, StoreInv, ReleaseInv, TickInv
       DEF Next
  <1> QED BY <1>1, <1>2

LEMMA AlwaysInv == Spec => []Inv
  BY InitInv, NextInv, PTL DEF Spec
-----------------------------------------------------------------------------
\* The types of the variables (redis_pool.h:91-105).
THEOREM TypeCorrect == Spec => []TypeOK
  <1>1. Inv => TypeOK
    BY DEF Inv
  <1> QED BY AlwaysInv, <1>1, PTL

\* No context is in two hands, or used after it was freed
\* (redis_pool.cpp:143-154, 225-231).
THEOREM ContextsAreExclusive == Spec => []Exclusive
  <1>1. Inv => Exclusive
    BY DEF Inv
  <1> QED BY AlwaysInv, <1>1, PTL

\* For any number of threads, there are never more contexts than threads:
\* a thread connects only after it found none idle (redis_pool.cpp:147-162).
THEOREM ContextsAreBounded == Spec => []NoMoreThanThreads
  <1>1. Inv => NoMoreThanThreads
    BY Sizes DEF Inv, Reserved, NoMoreThanThreads
  <1> QED BY AlwaysInv, <1>1, PTL

\* For any interval and however long the threads are held up, no thread
\* connects again within the interval after its own failure, less the time by
\* which a store of a failure was late (redis_pool.cpp:156-157, 176).
THEOREM RetriesAreLate == Spec => []NoEarlyRetry
  <1>1. Inv => NoEarlyRetry
    BY DEF Inv
  <1> QED BY AlwaysInv, <1>1, PTL
-----------------------------------------------------------------------------
(***************************************************************************)
(* The pool lends contexts (Lending).  A thread has a context exactly while*)
(* it runs a command; with Exclusive this says which step of Lending each  *)
(* step of a thread is.  The checks and the clock change nothing there.    *)
(***************************************************************************)
Holding == \A t \in Threads : ctx[t] # None <=> pc[t] = "run"

LEMMA HoldingStep == TypeOK /\ Holding /\ [Next]_vars => Holding'
  <1> SUFFICES ASSUME TypeOK, Holding, [Next]_vars PROVE Holding'
    OBVIOUS
  <1> USE RedisAssumption DEF TypeOK, Holding, Goto
  <1>1. ASSUME NEW t \in Threads, TakeContext(t)
        PROVE  Holding'
    <2>1. clients # <<>> => Head(clients) \in Contexts
      OBVIOUS
    <2> QED BY <1>1, <2>1 DEF TakeContext, PopIdle
  <1>2. ASSUME NEW t \in Threads,
               ReadClock(t) \/ CheckBackoff(t) \/ Connect(t) \/ StoreFailure(t)
        PROVE  Holding'
    BY <1>2 DEF ReadClock, CheckBackoff, Connect, StoreFailure
  <1>3. ASSUME NEW t \in Threads, Release(t)
        PROVE  Holding'
    BY <1>3 DEF Release
  <1>4. CASE Tick \/ UNCHANGED vars
    BY <1>4 DEF Tick, vars
  <1> QED BY <1>1, <1>2, <1>3, <1>4 DEF Next

\* What Lending knows are the contexts that are open.
LEMMA KnownIsOpen ==
  ASSUME Inv, Holding, NEW c \in Contexts
  PROVE  Pool!Known(c) => c \in open
  BY RedisAssumption DEF Inv, Exclusive, Holding, Users, Pool!Known, Pool!InUse

LEMMA TakeLends ==
  ASSUME Inv, Holding, NEW t \in Threads, TakeContext(t)
  PROVE  Pool!Next \/ UNCHANGED Pool!vars
  <1>1. CASE PopIdle(t)
    <2>1. /\ Idle' = Idle \ {Head(clients)} /\ Head(clients) \in Idle
          /\ Head(clients) \in Contexts
      BY <1>1, PopsIdle DEF PopIdle, Inv, Exclusive
    <2>2. ctx[t] = None /\ ctx' = [ctx EXCEPT ![t] = Head(clients)]
      BY <1>1 DEF PopIdle, TakeContext, Holding
    <2>3. Pool!LendIdle(t, Head(clients))
      BY <2>1, <2>2 DEF Pool!LendIdle
    <2> QED BY <2>1, <2>3 DEF Pool!Next
  <1>2. CASE UNCHANGED <<clients, ctx>>
    BY <1>2, SameIdle DEF Pool!vars
  <1> QED BY <1>1, <1>2 DEF TakeContext

LEMMA ConnectLends ==
  ASSUME Inv, Holding, NEW t \in Threads, Connect(t)
  PROVE  Pool!Next \/ UNCHANGED Pool!vars
  <1>1. UNCHANGED Idle
    BY SameIdle DEF Connect
  <1>2. ASSUME NEW c \in Contexts \ open, ctx' = [ctx EXCEPT ![t] = c]
        PROVE  Pool!LendNew(t, c)
    <2>1. ctx[t] = None
      BY DEF Connect, Holding
    <2>2. ~ Pool!Known(c)
      BY <1>2, KnownIsOpen
    <2> QED BY <1>1, <1>2, <2>1, <2>2 DEF Pool!LendNew
  <1>3. CASE UNCHANGED ctx
    BY <1>1, <1>3 DEF Pool!vars
  <1> QED BY <1>2, <1>3 DEF Connect, Pool!Next

LEMMA ReleaseLends ==
  ASSUME Inv, Holding, NEW t \in Threads, Release(t)
  PROVE  Pool!Next
  <1>1. ctx[t] # None /\ ctx' = [ctx EXCEPT ![t] = None] /\ ctx[t] \in Contexts \ Idle
    BY DEF Release, Holding, Inv, TypeOK, Exclusive, Users
  <1>2. CASE clients' = Append(clients, ctx[t])
    <2>1. Idle' = Idle \cup {ctx[t]}
      BY <1>1, <1>2, PushesIdle DEF Inv, Exclusive
    <2>2. Pool!Return(t)
      BY <1>1, <2>1 DEF Pool!Return
    <2> QED BY <2>2 DEF Pool!Next
  <1>3. CASE FreeContext(t)
    <2>1. Pool!Break(t)
      BY <1>1, <1>3, SameIdle DEF FreeContext, Pool!Break
    <2> QED BY <2>1 DEF Pool!Next
  <1> QED BY <1>2, <1>3 DEF Release

LEMMA StepLends == Inv /\ Holding /\ [Next]_vars => [Pool!Next]_(Pool!vars)
  <1> SUFFICES ASSUME Inv, Holding, [Next]_vars PROVE [Pool!Next]_(Pool!vars)
    OBVIOUS
  <1>1. CASE UNCHANGED <<clients, ctx>>
    BY <1>1, SameIdle DEF Pool!vars
  <1>2. ASSUME NEW t \in Threads, TakeContext(t) \/ Connect(t) \/ Release(t)
        PROVE  [Pool!Next]_(Pool!vars)
    BY <1>2, TakeLends, ConnectLends, ReleaseLends
  <1> QED BY <1>1, <1>2 DEF Next, vars, ReadClock, CheckBackoff, StoreFailure, Tick

\* For any threads and contexts the pool of contexts lends them: each is idle,
\* used by one thread, or gone, and comes from and goes to the queue of idle
\* ones in one step (redis_pool.cpp:143-175, 225-231).
THEOREM PoolLendsContexts == Spec => ImplementsLending
  <1>1. Init => Holding /\ Pool!Init
    BY RedisAssumption DEF Init, Holding, Pool!Init, Idle
  <1>2. Inv => TypeOK
    BY DEF Inv
  <1>3. Spec => []Holding
    BY <1>1, <1>2, HoldingStep, AlwaysInv, PTL DEF Spec
  <1> QED
    BY <1>1, <1>3, StepLends, AlwaysInv, PTL DEF Spec, ImplementsLending, Pool!Spec
=============================================================================
