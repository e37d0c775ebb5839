# A TLA+ model of the chat server and its thread plumbing

The program is a small chat system in C++: a server (epoll thread, thread pool,
MySQL and Redis clients, one sender thread) and a terminal client (game loop,
terminal thread, sender and receiver threads). `SERVER_COMPARE` and
`CLIENT_COMPARE` select the half that is compiled. Paths below are relative to
`src/smer/`.

## 1. The system

| Component | State | Operations | Hard because |
|---|---|---|---|
| Blocking queue `Util/inc/ConcQueue.h` | `data`, a mutex, `data_cond`, `empty_cond` | `push`, `pop`, `tryAndPop`, `waitTillNotEmpty`, `waitPushTillEmpty` | two condition variables, several kinds of waiters, `notify_one` |
| Thread pool `Util/inc/ThreadPool.h` | `tasks`, `stop`, workers | `enqueue`, worker loop, destructor | notification after the unlock, stop against sleep, jobs that never return |
| MySQL pool `Mysql/src/mysql_pool.cpp` | `connList`, `curSize`, `maxSize` | `initPool`, `GetConnection`, `ReleaseConnection`, `ExecQuery`, `ExecInsert`, destructor | a limit; connections that die, are lost to an exception, cannot be re-made |
| Redis client `Redis/src/redis_pool.cpp` | two queues of contexts, `m_beginInvalidTime`, `cmdBuf` | `ExecuteCmd_spop` and a wrapper per command | one command buffer for all threads, unlocked clock, connect outside the mutex |
| Request handlers `HandleMsg/src/HandleMsg.cpp`, `Communication/` | table `userinfo`; Redis set `userSession`, a hash per id | register, log in, ask for a friend, accept, talk | check-then-act in several statements, failures in between, state that outlives the process |
| Epoll server `Server/inc/Zepoll.h` | handlers by descriptor | accept, receive and dispatch, remove | descriptors are never closed |
| Sender `Client/src/Client.cpp` | the send queue | `run` | the descriptor in the object may be stale; SIGPIPE |
| Wire object `Seqeue/inc/SeqAbleObj.h` | id, recverId, fd, type, 64 bytes of text | `setMsg`, `transBuff2Obj` | streams are read as if they were records |
| Game loop and terminal `Game/`, `IOMange/`, `SmerSystem/`, `Input/` | `talking`, `outputMsg`, `data_mutex`, system messages, key commands, descriptors of `/dev/tty` | `update`, `scanKeyBoard`, `handleTalk`, `handleOutputMsg` | the terminal is read with the mutex held; a descriptor is opened for every look at the keyboard and none is closed |
| Player `Player/` | friends, login state, a file | `addFriend`, `setPlayerLogin`, save, load | changed from two threads without a lock |
| Log `Log/`, `Util/inc/FileIO.h`, `ZTime.h` | a queue of lines | `run`, `put...Log` | as the queue |
| `Actor/`, `Command/`, `Util/inc/Singleton.h`, `MyEnum.h` | none | print a line per key | no |

How they meet. The epoll thread turns what it receives into a `TransObj` and
`enqueue`s a task. A worker runs it: statements go through the MySQL pool,
session commands through the Redis client, the answer is pushed on the send
queue. One job of the pool, `Client::run`, pops that queue, until it takes a
`MSG_BUTTON` (the pill), and writes each object to the descriptor it carries;
another, `MyLog::run`, does the same with log lines, for ever. On the client the
receiver thread feeds a second queue that the game loop empties with
`tryAndPop`, one object a frame.

What makes each part correct: the queue is a FIFO that loses no wake-up; the
pool starts every accepted job and can be stopped; connections and contexts are
never shared and never exceed their bound; a session names the right user and a
connection on which the user gave the password; a friend request reaches its
receiver and nobody else; a registration is answered, with the id of its
own row, and a name is registered once.

## 2. The modules

| Module | Models | Kind |
|---|---|---|
| `Fifo` | what a queue promises | abstract |
| `ConcQueue` | `ConcQueue.h`; implements `Fifo` with `queue <- data` | component |
| `Executor` | what a thread pool promises | abstract |
| `ThreadPool` | `ThreadPool.h`; implements `Executor` | component |
| `Lending` | what a pool of resources promises | abstract |
| `MysqlPool` | `mysql_pool.cpp`; implements `Lending` | component |
| `RedisPool` | the contexts of `redis_pool.cpp`; implements `Lending` | component |
| `Stream` | one direction of a connection, read as if it kept records | operators |
| `Network` | `Zepoll.h`, the senders and the receiver of `Client.cpp`, the connections | composition |
| `ChatServer` | epoll thread, handlers, sessions, database, Redis, sender | composition |
| `GameClient` | game loop, terminal thread, player, commands of the client | composition |
| `MC...` and `.cfg` | small instances | for TLC |
| `...Proofs` | theorems | for TLAPS |
| `QueueLemmas` | the elements of a queue, distinct or rising, and what `Append` and `Tail` do to them | lemmas for the proofs |

**ConcQueue.** A method holds the mutex from its first statement to its return
or its wait, so one action is one critical section. `dataWait` and `emptyWait`
are the wait sets of the two condition variables; `notify_one` removes any one
member (`WakeOne`). A woken thread has to take the mutex again: it is out of the
wait set and its `pc` says which call it is in. Spurious wake-ups are actions.
The logger's `waitTillNotEmpty` and `pop` are two critical sections. A closer
pushes the pill, which nobody else makes; a popper that takes it leaves
(`AfterPop`, `Client.cpp:60-63`) and pops no more, while the logger knows no
pill. `Fifo` has the same: `Quitters` leave with the pill, and its fairness asks
that a value is taken only of those who wait and have not left.

**ThreadPool.** The worker's predicate, its exit, and its taking of a task are
one critical section, split in `Exit`, `Sleep` and `TakeTask`. `Enqueue` ends
with the unlock and `NotifyOne` comes after it; the destructor is `SetStop`,
`NotifyAll`, `JoinAll`. `Forever` are the jobs that do not return. `accepted`,
`refused` and `done` are history variables. In `Executor` a job is new, waiting,
executing or ended, and there are no threads, queue or wake-ups. A job's stage
is where `ThreadPool` has it (`Stage`: in `tasks`, in a worker's hands, neither
but in `done`); the executor is closing when `stop` is set and closed when the
destructor has joined. `Sleep`, the wake-ups, the notifications and a worker's
exit are stutters; so a join that did not wait for every worker would close an
executor with a job that executes.

**MysqlPool.** `GetConnection`, `ReleaseConnection` and `DestoryConnPool` are
critical sections. A thread that has a connection calls `setSchema` and
`createStatement` outside any `try` (`Prepare`, `PrepareThrows`), then the
statement, then `ReleaseConnection` on both paths. A connection may die at any
time (`ConnectionDies`). In `Lending` a resource is idle, lent to one borrower, or
lost; the connections that are idle in `connList` are the idle ones, what a
thread holds is lent, and a connection an exception took away is lost. Replacing a
dead connection on the way out is one step (`LendInstead`).

**RedisPool.** `TakeContext` is the critical section of `CreateClusterContext`.
What comes after it has no mutex and is one step for each look at the clock or at
`m_beginInvalidTime`: `ReadClock`, `CheckBackoff` (the comparison), `Connect`,
which reads the clock again when it fails, and `StoreFailure`. `Release` is the
command and `ReleaseClusterContext`. The clock ticks between any two steps, and
any number of seconds may pass between reading it and storing what was read: a
stale store may overwrite a newer one, and then a thread retries early. `slip`
is the longest any store was behind the clock, and `NoEarlyRetry` says that no
retry is early by more than that. As a
`Lending`, the free contexts are those that are idle, and a context is lent from
the step that took it from the queue or connected it to the end of the command;
the way to the mutex, the check of the interval and the clock are stutters.

**Stream.** A byte is its position in the stream, an object the position of its
first byte. `Write` puts an object at the beginning of what is sent; `Read` is
`recv` into a buffer that keeps what was there, and `transBuff2Obj` of its first
bytes, whatever they are. `marks` remembers what became of the objects (torn,
lost, taken again) and how they were read (a short read, several at once).
`ObjLen` and `BufLen` are the 84 and the 512 bytes of the code.

**Network.** The client sends the whole buffer, the server the object alone
(`ClientSends`, `ServerSends`); the epoll thread is `EpollWait` and, for each
event it returned, one of `Accept`, `Recv` and `Leave`. `handlers` is the map of
`IOLoop`, `interest` what was given to `epoll_ctl`. The rest is the kernel's,
and external: `backlog`, `fds` (never closed, so that a client stands for its
descriptor), the order in which `epoll_wait` returns more than `MAX_EVENTS`
descriptors (`passed`: those left over come first the next time), how the end of
a client looks (`peer`: a FIN, or a reset when bytes were unread or the server
sent to it), and SIGPIPE, which nothing handles and which ends the process
(`serving`). A descriptor whose connection was reset reports `EPOLLHUP`, which
`handle` looks at before there is anything to read. What the objects say is not
in this module but in `ChatServer`, whose `Recv` takes whole requests: that
this is so for the requests, and for the answers unless they pile up, is
`CompleteUnlessCut`.

**ChatServer.** One step of a worker is one statement, or one half of a Redis
command. `Format` writes the shared `cmdBuf`; `Run` executes what the buffer
holds then. If two workers are in that window the buffer holds either text or a
mixture (a data race on a `char[100]`), and `raced` remembers it: properties of
the sessions are stated for behaviours in which that never happened, and the run
`two_logins` shows what happens otherwise. Statements and Redis commands may
fail (`DbFaults`, `RedisFaults`): before or after their effect, with an
exception, or with a `nullptr` that three handlers use, which ends the process
(`DbNull`). `Die` forgets what is in memory and keeps the database and Redis;
`Restart` may end in a server that listens without workers, as `serverInit`
returns 0 on both paths. Text is not modelled: a name or a password is a model
value, `Text` stands for any sentence `setMsg` writes over them. Requests are
those the client's commands build (`Util/src/Util.cpp:60-216`), with id,
recverId and fd as they are filled in there; for the acceptance of a friend the
recverId ranges over all ids as well, because the handler is written for any,
although this client only ever sends -1 (the request it answers carries id -1).

**GameClient.** A frame of the game loop is the steps `sysMsg` (`put` when there
is something to put out), `recv`, `sysInput` and `scan` (`keys` while it reads a
key without the mutex); a login or a new friend adds `login`, `open` and `write`.
The terminal thread is `run` when it wants the mutex, `asleep` in its wait,
`reading` while it waits for a word, `open` and `write` while it saves a friend,
the last three with the mutex held. The loop waits for the mutex in
`PutOutputMsg`, `HandleSysInput` (for ENTER) and `ScanKeyBoard`. A line has
several words, and each talk takes one: the rest waits in `ahead` for the next
talk. Saving empties the file and then writes it, and `Restart` may come in
between. `addFriend` of a known name changes the id and saves nothing. After half
a second without a key `scanKeyBoard` uses an uninitialized variable, so a key
may be found at any time (`KeyFound`). Both threads at the player's data is a
data race; `raced` remembers it and the property about friends excludes it.
A write that fails or is cut short leaves an empty or a torn file, and nobody
notices (`WriteFile`). An empty file is no player, and of a torn one the archive
throws (`LoadThrows`), so that this start of the client and every later one
ends. (The file is taken to fit in the buffer of its stream: it is written, or
not, when it is closed.) Every look for a key opens `/dev/tty` once more
(`OpenTty`); nothing closes it, and when no descriptor is left
`assert(keyboard>0)` ends the client with all its threads (`Abort`: `game` and
`term` are `ended`). The limit is the system's and not known here: the first
`MaxTtys` opens succeed, and any later one may be the one that fails.
Every object the server may send arrives in any order (`Received`, external to
this module; that the server sends no other ids is `AnswersStayUsable` of
`ChatServerProofs`; `Names` stands for whatever text an acceptance carries, and
`NoName` for one that is too long, of which nothing is shown);
text is left out, `about` says which object an output is about.

## 3. The runs

| Run | Instance | Shows |
|---|---|---|
| `queue` | 2 pushers, 2 poppers, 1 logger, 1 tryer, 2 closers, 2 values and the pill, 3 pushes | no lost wake-up, no lost empty signal, FIFO, fair service by those who have not left, the closers return |
| `pool` | 3 workers, 2 submitters, 4 jobs, 1 of them endless | no idle backlog, stop drains, it is an `Executor`, accepted jobs start, the destructor returns |
| `mysql` | 3 threads, `maxSize` 3, 4 connection objects | exact count, the limit, it is a `Lending`, refusal only after a leak |
| `redis` | 3 threads, 4 contexts, interval 2, 5 instants | it is a `Lending`, no more contexts than threads, no retry earlier than a store was late |
| `server_faults` | 1 worker, 2 connections, 2 names, 2 passwords, 2 requests, 1 restart, all faults | sessions, routing, unique names, own ids |
| `server_two` | 2 workers, 2 requests, no faults, fair | an accepted login is online, every registration is answered |
| `network` | 3 clients, 2 descriptors, 2 events at once, objects of 2 and buffers of 5 bytes, 2 writes, 1 short read, fair epoll thread | no event without handler, no recv that waits, objects in order and whole, everybody is served |
| `client` | 2 objects received, 2 keys, 2 words a line, 1 descriptor for sure, saves that fail, 1 restart, fair | one reader of the keyboard, no sleeping on work, members only, saved friends, frames go on until the client ends or waits for the player, what is received is shown |
| `frames` | keys that are sent, no talk, 2 descriptors for sure, fair | **violated**: frame follows frame; the descriptors of `/dev/tty` run out and the client is ended |
| `two_names` | 2 workers | **violated**: one name, two rows |
| `two_ids` | 2 workers | **violated**: the id of another registration |
| `two_logins` | 2 workers | **violated**: an accepted login Redis never saw |

Bounds. `MaxPush` 3 lets a push meet an empty queue, a waiting consumer and a
closer; a fourth adds no new kind of state (the theorems hold without bound).
`MaxReqs` counts requests in a behaviour: two, one for each worker, give every
interleaving of two handlers and, one after the other, a login and the request
that needs it; longer chains are left to the theorems, which have no bound. `MaxUsers`
leaves room for one registration more than `InitUsers`. `MaxRestarts` 1 reaches
every state a second restart would, as only Redis and the database survive.
`MaxTime` 4 with an interval of 2 holds two full intervals, and a store that is
any number of them late. Two closers and the pill of each let both poppers leave,
or one and the logger take a pill, with values before, between and after. `pool` and `mysql`
have one thread and one object more than needed for a conflict.

In `network` a buffer of 5 and objects of 2 bytes, as 512 and 84, hold several
objects and the beginning of one. Two writes are enough for two answers that
pile up and for a client's second buffer read with the end of the first; one
short read cuts an object in two. A third client and a third event find no
descriptor and no room. The theorems hold for any lengths and numbers.

In `client` two objects are enough for a login and a request that is accepted,
two keys for a talk that finds the word an earlier one left; 2 names and
`MaxFriends` 2 hold a new friend, a known one and a full list. `enter` is the one
key that changes what the client does; keys that are sent are in `frames`,
and those that do nothing are in the theorems only. `talk` and `accept` stand for
the commands that need a login (the others differ in what they push). With
`MaxTtys` 1 the client may end at any look for a key but the first, or never. One
restart reads what any later one could find in the file.

Deadlock is checked in `redis`, where a command can always follow, and not
elsewhere: the client may end, every other instance stops when its requests or
pushes are used up, and the program itself may rest with nobody asking anything.

Fairness. Weak fairness of each thread's step: a thread that can take a step
goes on (a C++ thread is scheduled, a database call returns). Pushers,
submitters, clients, peers that close, crashes, restarts, spurious wake-ups and
the start of a destructor get none. In `ConcQueue` a popper is fair until it takes
the pill, the logger for ever. In `Network` the epoll thread is fair and nobody else:
clients need not read, send or end. In `GameClient` the loop, the terminal thread and the sender are fair, the player
who types, the server, and the end of the client are not; the mutex needs no
strong fairness as the terminal takes it again for a talk only after the loop
asked for one. In `ChatServer` the sender is fair because it
is a job of the pool and accepted jobs start (`AcceptedJobsStart`).

The definitions named faulty in the modules are plausible mistakes in the one
that follows (a dropped check, an off-by-one, a missing notification); no action
uses them. `PROJECT.json` says which property notices which.

## 4. What is proved

All theorems are for any values of the constants that satisfy the module's one
ASSUME: sets of threads and names are finite, bounds are natural numbers,
descriptors are above 2, `None`, `Empty`, `Torn` and the replies of Redis are not
among the values they stand beside, the pill is a value of the queue, and a
thread that pops until the pill neither polls nor closes. TLC evaluates each of them in a run. A
theorem that needs more says so in its own ASSUME:

* `Workers # {}` (`PoolImplementsExecutor`): the pool is made with four workers;
  without any the destructor joins nobody and leaves the queue as it is.
* `OneWorker` (`OneWorkerKeepsNamesUnique`, `OneWorkerKeepsIdsOwn`,
  `OneWorkerRecordsLogins`): the three runs with two workers show that this is
  what the code needs and does not have.
* `~ RedisFaults` (`OneWorkerRecordsLogins`; `AcceptedIsOnline` says it itself) and
  `~ DbFaults` (`RegistrationsAreHeld`): the results of SADD and HMSET are
  ignored, and a statement that throws takes the answer with it.

Refinements. Each is proved with the initial states, one step of the abstract
specification or a stutter for every action, and an invariant of its own.

* `QueueImplementsFifo`: the queue is a `Fifo`, in which a popper that took the
  pill has left.
* `PoolImplementsExecutor`: the thread pool is an `Executor`. It needs `Once`: a job
  is in the queue once and not started, or started and in one worker's hands; and,
  for the last step of the destructor, `StopOrder` and `DrainsBeforeExit`.
* `PoolLendsConnections` and `PoolLendsContexts`: both pools are a `Lending`. A
  thread has a connection or a context exactly at the steps that use it
  (`Holding`); with exclusive use this says which step of `Lending` a step is.

Components.

* `ConcQueueProofs`: `TypeOK`; `NoLostWakeup`, by an invariant that adds that
  a thread in a wait set is in a call that waits there (`WaitersAreWaiting`) -
  without it the count of awake consumers is not preserved by a notification;
  `NoLostEmptySignal` from the same.
* `ThreadPoolProofs`: `TypeOK`; `NoIdleBacklog`, with the invariant that a worker
  is in one place only; `DrainsBeforeExit` and that nobody sleeps after the
  destructor's `notify_all` (`NobodySleepsThroughStop`), with the order in which
  the destructor's steps happen (`StopOrder`) and that a job is accepted exactly
  if it is queued or was started.
* `MysqlPoolProofs`: `TypeOK`, `Exclusive`, `CountIsExact`, `WithinMaxSize`,
  `RefusedOnlyAfterLeak`. The count is exact because the three places a
  connection can be in are disjoint, which is `Exclusive`.
* `RedisPoolProofs`: `TypeOK`, `Exclusive`, `NoMoreThanThreads`,
  `NoEarlyRetry`. The bound on the contexts follows from two facts: every open
  context is idle or in a hand (`NoneLost`), and the contexts together with the
  threads that are about to open one are no more than the threads
  (`Reserved`). `NoEarlyRetry` assumes nothing about delays
  (`PastFailures`): no time a thread carries is ahead of the clock, and no failure
  is later than the recorded one by more than `slip`, except one still to be
  stored.
* `ChatServerProofs`, for any workers: `TypeOK`, `SessionSound`,
  `RoutedToReceiver`, `AcceptedIsOnline`. `TypeOK` needs the shape of the request
  at each step of a worker (`Jobs`): the id a step looks up was found by an
  earlier step. `SessionSound` is not inductive without two facts: as long as
  nobody raced, the buffer holds the command of the one worker between formatting
  and running it (`BufferIsOwn`); and a worker about to store a login has seen
  the password in this process (`LoginsAreOwned`). `RoutedToReceiver` follows from
  `SessionSound` and from the descriptor a worker carries after its HGET
  (`RoutesAreOwned`); `AcceptedIsOnline` from the id being in the set while the
  hash is written (`OnlineInv`), and from Redis never forgetting (`Kept`).
  `AnswersStayUsable` needs the shape of the requests alone: what is queued for a
  connection carries the ids and names the client is modelled for, even when
  the command buffer was mixed - the assumption `GameClient` makes about its server.
  `NobodyIsLetInWithoutPassword` has no such condition either: every worker that
  stores a login comes from the query that compared the password
  (`LoginsAreChecked`), whatever the buffer holds.
  `RegistrationsAreHeld`, by `HeldInv`: whoever waits for the answer to a
  registration is in the pool's queue, with a worker, or in the send queue, and
  the request of a worker past its first step names its own descriptor.
* `ChatServerProofs`, for one worker: `UniqueNames`, because no row of the name
  appears between the query and the insertion (`NamesInv`);
  `RegisteredIdIsOwn`, because the row a worker asks the id of is still the last
  one (`OwnInv`); and `LoginIsRecorded`, because one worker is never in the
  buffer together with another (`OneWorkerKeepsApart`), which makes it a case of
  `AcceptedIsOnline`. With two workers all three fail: the runs `two_names`,
  `two_ids` and `two_logins`.
* `NetworkProofs`: `TypeOK`, `EventsAreServable`, `NeverAgain`,
  `CompleteUnlessCut`, for any clients, lengths and limits. The first needs that
  a descriptor has a handler exactly if epoll watches it and that a round has
  one event for each descriptor (`EventsInv`). The streams need the shape each
  writer gives them (`UpInv`: objects start `BufLen` apart; `DownInv`: `ObjLen`
  apart) and that, as long as no read was cut, the reader stands at the start of
  an object (`Whole`). That no object is taken again needs only that the last one
  begins before what was read (`InOrder`): whatever is taken next begins with a
  byte of the new read. `ConnectionsAreKept` follows the connections
  themselves: each waits in the backlog, once, or has one of `MaxFds`
  descriptors, and its handler is dropped only when it was reset or all it sent
  was received. That is inductive together with `HupsAreResets`: an event that says
  the connection was reset is still true when its turn comes.
* `GameClientProofs`: `TypeOK`, `OneReader`, `TerminalAwake`, `SentByMembers`,
  `NoFriendForgotten`. `OneReader` needs that a key is in the queue only until
  the game loop acts on it (`ReaderInv`); `SentByMembers` that only a member gets
  as far as saving a request (`MembersInv`); `NoFriendForgotten` that, without a
  race, only one thread saves, that file and memory agree when nobody does
  (`FriendsInv`), and that the client does not end itself while the terminal
  thread saves, as that thread holds the mutex the game loop needs to look for a
  key (`Holding`). `ReceivedIsKept` and `ReceivedIsShownInOrder` share the invariant
  that the five places an object goes through are one line (`LineInv`): what the
  terminal has is earlier than what the loop is about to hand to it, that is
  earlier than the system messages, those than the object that is handled, and
  that one than what is still in the queue. Each object is in one place of
  the line until it is shown, unless a friend could not be added or saved.

Several of these are the safety half of a liveness property of the runs:
`NoEmptySignalIsLost` of `CloseCompletes`, `NoBacklogIsIdle` of `AcceptedJobsStart`,
`NobodyOversleeps` of `DestructorReturns`, `RegistrationsAreHeld` of
`RegistrationAnswered`, `ConnectionsAreKept` of `EverybodyIsServed`,
`ReceivedIsKept` of `ReceivedIsShown`. What remains for the fairness is that
the thread whose turn it is goes on.

The proofs about queues cite `QueueLemmas`: which elements `Append` and `Tail`
leave, and that they keep a queue without repetition or in rising order.

Only model-checked: liveness in every module, and with it `ImplementsFairFifo`,
whose fairness the prover does not handle. Every invariant and every other action
property or refinement of the passing runs is a theorem. The strengthened
invariants were given to TLC on the instances of the runs before they were
proved.

## 5. Not modelled, and the plan

Not modelled: log formatting and files, `Actor` and `Command` (no state),
terminal settings, declarations. Never reached in the program, and so left out:
`removeSessionTalker` and `handleUserLogOutMsg` (logging out is not dispatched),
`serverEnd` (the epoll loop does not return), the user map of `ComManger`.

Seen in the model, with no property of its own: a refused login and a talk message
are pushed with the descriptor their client filled in (-1, `HandleMsg.cpp:248`,
and 1, `HandleMsg.cpp:77`), so that neither reaches anybody; and the `hazards`
of `PROJECT.json` that carry a note instead of a property.

Left out of `Network`: an `epoll_ctl` that fails, `EPOLLERR` without
`EPOLLHUP`, `EPOLLOUT` (never subscribed to), a `connect` that fails and the
`exit(1)` of the set-up.

What could come next:

1. A client and the server together for the friend protocol: a forwarded request
   carries the receiver's own name and the id -1, so the acceptance has nobody to
   go to. It is one sequential path, seen in `Requests` and `AskQuery` of
   `ChatServer`.
2. The operations of `ConcList.h` nobody calls, and logging out, when they are
   used.
