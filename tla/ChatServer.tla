----------------------------- MODULE ChatServer -----------------------------
(***************************************************************************)
(* The server: the epoll thread that receives requests and hands each to   *)
(* the thread pool (Zepoll.h, HandleMsg.cpp), the worker threads that      *)
(* carry them out against the database (table userinfo) and Redis (the set *)
(* userSession and one hash per user id), and the sender thread that       *)
(* writes the answers in the order of the send queue (Client.cpp).         *)
(*                                                                         *)
(* The queue, the pool and the connection pool are used here by what they  *)
(* promise (ConcQueue, ThreadPool, MysqlPool).  One step of a worker is one*)
(* statement sent to the database, or one of the two halves of a Redis     *)
(* command: formatting it in the buffer cmdBuf all workers share, and      *)
(* running what the buffer holds.  A definition marked faulty is a         *)
(* plausible error in the one after it; no action uses it.                 *)
(***************************************************************************)
EXTENDS Integers, Sequences, FiniteSets

CONSTANTS
    Conns,          \* descriptors accept may return: numbers above 2, since
                    \* 0, 1 and 2 are the terminal
    Workers,        \* pool threads left for requests
    Names, Pwds,    \* what users choose
    InitUsers,      \* rows of userinfo the server starts with
    Text,           \* a sentence setMsg wrote over the name and the password
    None,           \* no value; Redis's nil
    Ok, Err,        \* Redis's status reply and its error reply
    Lost,           \* no reply: no context, or reply == NULL
    MaxUsers,       \* bound: rows of userinfo
    MaxReqs,        \* bound: requests received
    MaxRestarts,    \* bound: restarts of the server
    DbFaults,       \* whether statements may fail
    RedisFaults     \* whether Redis commands may fail

Ids == 1..MaxUsers
Rows == [name : Names, fd : Int, pwd : Pwds]
Talker == [name : Names \cup {Text, None}, fd : Int]

ASSUME ServerAssumption ==
    /\ Conns \subseteq Int /\ \A f \in Conns : f > 2
    /\ InitUsers \in Seq(Rows)
    /\ MaxUsers \in Nat /\ MaxReqs \in Nat /\ MaxRestarts \in Nat
    /\ Len(InitUsers) <= MaxUsers
    /\ None \notin Names \cup Pwds \cup Int \cup {Text, Ok, Err, Lost} \cup Talker
    /\ {Ok, Err, Lost} \cap (Names \cup Int) = {}
    /\ Ok # Err /\ Ok # Lost /\ Err # Lost
    /\ Names \cap Int = {}

VARIABLES
    up,             \* "serving"; "deaf": listening with no worker; "down"
    conn,           \* each descriptor: "free", "open", or "gone" (peer closed)
    tasks,          \* ThreadPool::tasks, the requests no worker has taken
    pc,             \* the next step of each worker
    job,            \* the request each worker carries out
    userinfo,       \* the table; a row's userid is its index
    session,        \* Redis set userSession
    talker,         \* Redis hash of each id: name and fd
    cmdBuf,         \* KGRedisClient::cmdBuf
    fmt,            \* workers between formatting cmdBuf and running it
    out,            \* SeqToBin's send queue
    raced,          \* history: two workers have been in that window together
    owner,          \* history: <<id, fd>> for each password checked since start
    waiting,        \* history: connections whose registration is unanswered
    reqs, restarts

vars == <<up, conn, tasks, pc, job, userinfo, session, talker, cmdBuf, fmt, out,
          raced, owner, waiting, reqs, restarts>>

net   == <<conn, waiting, reqs>>
redis == <<session, talker>>
buf   == <<cmdBuf, fmt, raced>>
proc  == <<up, restarts>>
-----------------------------------------------------------------------------
(***************************************************************************)
(* Requests.  The client fills id, recverId and fd with -1 except in the   *)
(* two cases below (Util.cpp:60-178, 201).                                 *)
(***************************************************************************)
Obj(type, id, rid, fd, name, pwd) ==
    [type |-> type, id |-> id, rid |-> rid, fd |-> fd, name |-> name, pwd |-> pwd]

Requests ==
    {Obj(type, -1, -1, -1, n, p) : type \in {"REG", "LOGIN"}, n \in Names, p \in Pwds}
      \cup {Obj("ASK", -1, -1, -1, n, None) : n \in Names}
      \cup {Obj("ACC", i, r, -1, None, None) : i \in Ids, r \in Ids \cup {-1}}
      \cup {Obj("TALK", 1, 1, 1, Text, None), Obj("LOGOUT", -1, -1, -1, None, None)}

\* g_msgHandle: the first step of each request it dispatches to the pool.
\* MSG_LOGOUT is not in the table.
FirstStep == [REG |-> "regQuery", LOGIN |-> "logQuery", TALK |-> "talkIs",
              ASK |-> "askQuery", ACC |-> "accIs"]

DbSteps == {"regQuery", "regInsert", "regMax", "logQuery", "askQuery"}
RedisSteps == {"logSadd", "logHmset", "talkIs", "askIs", "askFd", "accIs", "accFd", "accName"}

NoJob == [obj |-> Obj("none", -1, -1, -1, None, None), fd |-> -1]

Idle == [w \in Workers |-> "idle"]
NoJobs == [w \in Workers |-> NoJob]
Free == [f \in Conns |-> "free"]

Init ==
    /\ up = "serving"
    /\ conn = Free
    /\ tasks = <<>>
    /\ pc = Idle
    /\ job = NoJobs
    /\ userinfo = InitUsers
    /\ session = {}
    /\ talker = [i \in Ids |-> None]
    /\ cmdBuf = None
    /\ fmt = {}
    /\ out = <<>>
    /\ raced = FALSE
    /\ owner = {}
    /\ waiting = {}
    /\ reqs = 0
    /\ restarts = 0
-----------------------------------------------------------------------------
(***************************************************************************)
(* The epoll thread.                                                       *)
(***************************************************************************)
Accept(f) ==
    /\ up # "down"
    /\ conn[f] = "free"
    /\ conn' = [conn EXCEPT ![f] = "open"]
    /\ UNCHANGED <<tasks, pc, job, userinfo, redis, buf, out, owner, waiting, reqs, proc>>

\* The peer closes: recv answers 0 and removeHandler forgets the connection.
\* The descriptor is never closed, so accept never returns it again.
PeerClose(f) ==
    /\ up # "down"
    /\ conn[f] = "open"
    /\ conn' = [conn EXCEPT ![f] = "gone"]
    /\ waiting' = waiting \ {f}
    /\ UNCHANGED <<tasks, pc, job, userinfo, redis, buf, out, owner, reqs, proc>>

\* EchoHandler::handle: recv, transBuff2Obj, MsgHandler::handle, enqueue.
Recv(f, o) ==
    /\ up # "down"
    /\ conn[f] = "open"
    /\ reqs < MaxReqs
    /\ reqs' = reqs + 1
    /\ waiting' = IF o.type = "REG" THEN waiting \cup {f} ELSE waiting
    /\ tasks' = IF o.type \in DOMAIN FirstStep
                THEN Append(tasks, [obj |-> o, fd |-> f])
                ELSE tasks
    /\ UNCHANGED <<conn, pc, job, userinfo, redis, buf, out, owner, proc>>
-----------------------------------------------------------------------------
(***************************************************************************)
(* The workers.  Goto, Return and Answer end a step: go on with the        *)
(* request as it is now, end the task, end it and queue an answer.         *)
(***************************************************************************)
Goto(w, step, o) ==
    /\ pc' = [pc EXCEPT ![w] = step]
    /\ job' = [job EXCEPT ![w] = [obj |-> o, fd |-> job[w].fd]]
    /\ UNCHANGED out

Return(w) ==
    /\ pc' = [pc EXCEPT ![w] = "idle"]
    /\ job' = [job EXCEPT ![w] = NoJob]
    /\ UNCHANGED out

Answer(w, o) ==
    /\ pc' = [pc EXCEPT ![w] = "idle"]
    /\ job' = [job EXCEPT ![w] = NoJob]
    /\ out' = Append(out, o)

\* The process ends: everything in memory and every connection is lost.
Die ==
    /\ up' = "down"
    /\ conn' = Free
    /\ tasks' = <<>>
    /\ pc' = Idle
    /\ job' = NoJobs
    /\ cmdBuf' = None
    /\ fmt' = {}
    /\ out' = <<>>
    /\ owner' = {}
    /\ waiting' = {}
    /\ UNCHANGED <<userinfo, redis, raced, reqs, restarts>>

Take(w) ==
    /\ up = "serving"
    /\ pc[w] = "idle"
    /\ tasks # <<>>
    /\ pc' = [pc EXCEPT ![w] = FirstStep[Head(tasks).obj.type]]
    /\ job' = [job EXCEPT ![w] = Head(tasks)]
    /\ tasks' = Tail(tasks)
    /\ UNCHANGED <<net, userinfo, redis, buf, out, owner, proc>>

\* Rows of userinfo with a name, and the row executeQuery delivers first.
IdsOf(n) == {i \in DOMAIN userinfo : userinfo[i].name = n}
FirstId(n) == CHOOSE i \in IdsOf(n) : \A j \in IdsOf(n) : i <= j

\* setMsg clears the whole buffer, name and password, and writes a text.
SetMsg(o, text) == [o EXCEPT !.name = text, !.pwd = None]

\* Faulty: the descriptor is lost.
RefusedToNobody(o, type) == [SetMsg(o, Text) EXCEPT !.type = type, !.fd = -1]

\* An answer of this type with a sentence.
Refused(o, type) == [SetMsg(o, Text) EXCEPT !.type = type]

\* handleUserRegMsg: is the name taken, insert the row, ask for the largest id.
NeverTaken(n) == FALSE          \* faulty: the check dropped
NameTaken(n) == IdsOf(n) # {}

RegQuery(w) ==
    /\ pc[w] = "regQuery"
    /\ LET o == [job[w].obj EXCEPT !.fd = job[w].fd]
       IN  \/ NameTaken(o.name) /\ Answer(w, Refused(o, "REG_REFUSE"))
           \/ ~ NameTaken(o.name) /\ Goto(w, "regInsert", o)
    /\ UNCHANGED <<net, tasks, userinfo, redis, buf, owner, proc>>

RegInsert(w) ==
    /\ pc[w] = "regInsert"
    /\ LET o == job[w].obj
           row == [name |-> o.name, fd |-> o.fd, pwd |-> o.pwd]
       IN  \/ /\ Len(userinfo) < MaxUsers
              /\ userinfo' = Append(userinfo, row)
              /\ Goto(w, "regMax", o)
           \/ /\ DbFaults                       \* executeUpdate throws or its
              /\ Answer(w, Refused(o, "REG_REFUSE"))     \* answer is lost
              /\ \/ UNCHANGED userinfo
                 \/ Len(userinfo) < MaxUsers /\ userinfo' = Append(userinfo, row)
    /\ UNCHANGED <<net, tasks, redis, buf, owner, proc>>

NextUserId == Len(userinfo) + 1 \* faulty: the id of the next row
MaxUserId == Len(userinfo)

RegMax(w) ==
    /\ pc[w] = "regMax"
    /\ Answer(w, [SetMsg(job[w].obj, Text) EXCEPT !.type = "REG_ACCEPT", !.id = MaxUserId])
    /\ UNCHANGED <<net, tasks, userinfo, redis, buf, owner, proc>>

\* handleUserLogMsg: a wrong password is refused without setting the
\* descriptor of the answer; no row at all skips to the ACCEPT.
PasswordEqual(o) == userinfo[FirstId(o.name)].pwd = o.pwd

LogQuery(w) ==
    /\ pc[w] = "logQuery"
    /\ LET o == job[w].obj
           i == FirstId(o.name)
       IN  \/ /\ IdsOf(o.name) # {} /\ PasswordEqual(o)
              /\ Goto(w, "logSadd", [o EXCEPT !.id = i, !.fd = job[w].fd])
              /\ owner' = IF userinfo[i].pwd = o.pwd
                          THEN owner \cup {<<i, job[w].fd>>} ELSE owner
           \/ /\ IdsOf(o.name) # {} /\ ~ PasswordEqual(o)
              /\ Answer(w, Refused(o, "LOGIN_REFUSE"))
              /\ UNCHANGED owner
           \/ /\ IdsOf(o.name) = {}
              /\ Answer(w, [o EXCEPT !.type = "LOGIN_ACCEPT"])
              /\ UNCHANGED owner
           \/ /\ DbFaults                       \* ExecQuery returned nullptr
              /\ Answer(w, Refused(o, "LOGIN_REFUSE"))
              /\ UNCHANGED owner
    /\ UNCHANGED <<net, tasks, userinfo, redis, buf, proc>>

\* handleAskForFriendMsg: find the id of the person asked for.
AskQuery(w) ==
    /\ pc[w] = "askQuery"
    /\ LET o == job[w].obj
       IN  \/ /\ IdsOf(o.name) # {}
              /\ Goto(w, "askIs", [o EXCEPT !.rid = FirstId(o.name)])
           \/ /\ IdsOf(o.name) = {}
              /\ Answer(w, [o EXCEPT !.type = "ASK_NOT_FOUND", !.fd = job[w].fd])
    /\ UNCHANGED <<net, tasks, userinfo, redis, buf, owner, proc>>

\* A statement throws past the handler: the task ends, packaged_task keeps the
\* exception, nobody is answered.
DbThrows(w) ==
    /\ DbFaults
    /\ pc[w] \in DbSteps
    /\ Return(w)
    /\ UNCHANGED <<net, tasks, userinfo, redis, buf, owner, proc>>

\* ExecQuery returns nullptr and the handler uses it (HandleMsg.cpp:131, 147, 345).
DbNull(w) ==
    /\ DbFaults
    /\ pc[w] \in {"regQuery", "regMax", "askQuery"}
    /\ Die
-----------------------------------------------------------------------------
(***************************************************************************)
(* Redis.  A worker formats its command in cmdBuf and then runs what the   *)
(* buffer holds; nothing keeps another worker from formatting in between.  *)
(***************************************************************************)
Cmd(op, id, name, fd) == [op |-> op, id |-> id, name |-> name, fd |-> fd]

\* Faulty: the descriptor stored when the user registered
HmsetCmdRegisteredFd(o) == Cmd("HMSET", o.id, o.name, userinfo[o.id].fd)

HmsetCmd(o) == Cmd("HMSET", o.id, o.name, o.fd)
SaddCmd(o) == Cmd("SADD", o.id, None, -1)
IsMemberCmd(id) == Cmd("SISMEMBER", id, None, -1)
FdCmd(id) == Cmd("HGET fd", id, None, -1)
NameCmd(id) == Cmd("HGET name", id, None, -1)

\* The command each Redis step sends.
CmdOf(w) ==
    LET o == job[w].obj
    IN  CASE pc[w] = "logSadd" -> SaddCmd(o)
          [] pc[w] = "logHmset" -> HmsetCmd(o)
          [] pc[w] \in {"talkIs", "askIs", "accIs"} -> IsMemberCmd(o.rid)
          [] pc[w] \in {"askFd", "accFd"} -> FdCmd(o.rid)
          [] OTHER -> NameCmd(o.id)

\* The text of two commands mixed: Redis answers it with an error.
Mixed == Cmd("mixed", -1, None, -1)

\* memset and vsnprintf.  Against another worker's use of the buffer they are
\* a data race, which the model lets end with either text or a mixture.
Format(w) ==
    /\ pc[w] \in RedisSteps
    /\ w \notin fmt
    /\ fmt' = fmt \cup {w}
    /\ cmdBuf' \in IF fmt = {} THEN {CmdOf(w)} ELSE {CmdOf(w), Mixed}
    /\ raced' = (raced \/ fmt # {})
    /\ UNCHANGED <<net, tasks, pc, job, out, userinfo, redis, owner, proc>>

Known(id) == id \in Ids /\ talker[id] # None

Reply(c) ==
    CASE c.op = "SADD" -> IF c.id \in session THEN 0 ELSE 1
      [] c.op = "SISMEMBER" -> IF c.id \in session THEN 1 ELSE 0
      [] c.op = "HMSET" -> Ok
      [] c.op = "HGET fd" -> IF Known(c.id) THEN talker[c.id].fd ELSE None
      [] c.op = "HGET name" -> IF Known(c.id) THEN talker[c.id].name ELSE None
      [] OTHER -> Err

Apply(c) ==
    /\ session' = IF c.op = "SADD" THEN session \cup {c.id} ELSE session
    /\ talker' = IF c.op = "HMSET"
                 THEN [talker EXCEPT ![c.id] = [name |-> c.name, fd |-> c.fd]]
                 ELSE talker

FdUnparsed(r) == r      \* faulty: the reply as it is

\* getTalkerFd: atoi of the reply, -1 without one.
FdOf(r) == IF r = Lost THEN -1 ELSE IF r \in Int THEN r ELSE 0

\* Faulty: the hash is left out.
AcceptAfterSadd(w, r) ==
    /\ pc[w] \in {"logSadd", "logHmset"}
    /\ Answer(w, [job[w].obj EXCEPT !.type = "LOGIN_ACCEPT"])

\* What the worker does with the reply.
LogReply(w, r) ==
    LET o == job[w].obj
        accepted == [o EXCEPT !.type = "LOGIN_ACCEPT"]
    IN  \/ pc[w] = "logSadd" /\ r # Lost /\ Goto(w, "logHmset", o)
        \/ pc[w] = "logSadd" /\ r = Lost /\ Answer(w, accepted)
        \/ pc[w] = "logHmset" /\ Answer(w, accepted)

OnlineReply(w, r) ==
    LET o == job[w].obj
    IN  \/ pc[w] = "talkIs" /\ r = 1 /\ Answer(w, o)
        \/ pc[w] = "askIs" /\ r = 1 /\ Goto(w, "askFd", o)
        \/ pc[w] = "accIs" /\ r = 1 /\ Goto(w, "accFd", o)
        \/ pc[w] \in {"talkIs", "askIs", "accIs"} /\ r # 1 /\ Return(w)

\* A reply that is no name is taken for one, or is too long for one.
RouteReply(w, r) ==
    LET o == job[w].obj
        named == IF r = Lost THEN o ELSE SetMsg(o, IF r \in Names THEN r ELSE Text)
    IN  \/ pc[w] = "askFd" /\ Answer(w, [o EXCEPT !.fd = FdOf(r)])
        \/ pc[w] = "accFd" /\ Goto(w, "accName", [o EXCEPT !.fd = FdOf(r)])
        \/ pc[w] = "accName" /\ Answer(w, named)
        \/ pc[w] = "accName" /\ r \notin Names \cup {Lost} /\ Return(w)

Use(w, r) == LogReply(w, r) \/ OnlineReply(w, r) \/ RouteReply(w, r)

\* redisClusterCommand on the buffer as it is now.
Run(w) ==
    /\ w \in fmt
    /\ fmt' = fmt \ {w}
    /\ \/ Apply(cmdBuf) /\ Use(w, Reply(cmdBuf))
       \/ RedisFaults /\ Apply(cmdBuf) /\ Use(w, Lost)
       \/ RedisFaults /\ UNCHANGED redis /\ Use(w, Lost)
    /\ UNCHANGED <<net, tasks, userinfo, cmdBuf, raced, owner, proc>>
-----------------------------------------------------------------------------
\* Client::run: take the first answer and write it to its descriptor.  An
\* error is logged; writing to a connection the peer reset raises SIGPIPE,
\* which nothing ignores.
Sends(f, o) == o.fd = f /\ o.fd \in Conns /\ conn[f] = "open"

Send ==
    /\ up = "serving"
    /\ out # <<>>
    /\ \/ /\ out' = Tail(out)
          /\ waiting' = IF Head(out).type \in {"REG_ACCEPT", "REG_REFUSE"}
                        THEN {f \in waiting : ~ Sends(f, Head(out))} ELSE waiting
          /\ UNCHANGED <<tasks, pc, job, userinfo, redis, buf, owner, conn, reqs, proc>>
       \/ /\ Head(out).fd \in Conns /\ conn[Head(out).fd] = "gone"
          /\ Die

\* The process is killed, and started again.  ComManger::init asks Redis for
\* userHash; without an answer serverInit returns before it starts the pool
\* and the sender, and the caller goes on to listen.  userSession is kept.
Crash == up # "down" /\ restarts < MaxRestarts /\ Die

Restart ==
    /\ up = "down"
    /\ restarts < MaxRestarts
    /\ restarts' = restarts + 1
    /\ up' \in IF RedisFaults THEN {"serving", "deaf"} ELSE {"serving"}
    /\ UNCHANGED <<net, tasks, pc, job, userinfo, redis, buf, out, owner>>

WorkerStep(w) ==
    \/ Take(w)
    \/ RegQuery(w) \/ RegInsert(w) \/ RegMax(w)
    \/ LogQuery(w) \/ AskQuery(w)
    \/ DbThrows(w) \/ DbNull(w)
    \/ Format(w) \/ Run(w)

Next ==
    \/ \E f \in Conns : Accept(f) \/ PeerClose(f)
    \/ \E f \in Conns, o \in Requests : Recv(f, o)
    \/ \E w \in Workers : WorkerStep(w)
    \/ Send \/ Crash \/ Restart

Spec == Init /\ [][Next]_vars

\* A worker that has work goes on, and the sender does.  Requests, closing
\* peers, crashes and restarts are up to the world.
Fairness ==
    /\ \A w \in Workers : WF_vars(WorkerStep(w))
    /\ WF_vars(Send)

FairSpec == Spec /\ Fairness
-----------------------------------------------------------------------------
Steps == {"idle"} \cup DbSteps \cup RedisSteps
Types == {"REG", "LOGIN", "ASK", "ACC", "TALK", "LOGOUT", "REG_ACCEPT", "REG_REFUSE",
          "LOGIN_ACCEPT", "LOGIN_REFUSE", "ASK_NOT_FOUND", "none"}
TransObj == [type : Types, id : Int, rid : Int, fd : Int,
             name : Names \cup {Text, None}, pwd : Pwds \cup {None}]
Task == [obj : TransObj, fd : Int]

TypeOK ==
    /\ up \in {"serving", "deaf", "down"}
    /\ conn \in [Conns -> {"free", "open", "gone"}]
    /\ tasks \in Seq(Task)
    /\ pc \in [Workers -> Steps]
    /\ job \in [Workers -> Task]
    /\ userinfo \in Seq(Rows)
    /\ session \in SUBSET Ids
    /\ talker \in [Ids -> Talker \cup {None}]
    /\ fmt \in SUBSET Workers
    /\ out \in Seq(TransObj)
    /\ raced \in BOOLEAN
    /\ owner \in SUBSET (Ids \X Conns)
    /\ waiting \in SUBSET Conns
    /\ reqs \in 0..MaxReqs
    /\ restarts \in 0..MaxRestarts

Queued == {out[k] : k \in DOMAIN out}

\* The server has run without interruption since it was first started, so
\* that everything in Redis was written by this process.
SameProcess == restarts = 0 /\ up # "down"

\* As long as no two workers used cmdBuf together, Redis's hash of an id is
\* that of a registered user with this name, and its descriptor is one on
\* which somebody gave this user's password (HandleMsg.cpp:231-271,
\* ComManger.cpp:7-25).
SessionSound ==
    ~ raced => \A i \in Ids : talker[i] # None =>
        /\ i \in DOMAIN userinfo
        /\ talker[i].name = userinfo[i].name
        /\ SameProcess => <<i, talker[i].fd>> \in owner

\* ... and a friend request, or its acceptance, is only ever queued for a
\* connection on which its receiver gave the password (HandleMsg.cpp:343-363,
\* 408-425).
RoutedToReceiver ==
    ~ raced /\ SameProcess => \A o \in Queued :
        o.type \in {"ASK", "ACC"} /\ o.fd \in Conns => <<o.rid, o.fd>> \in owner

\* ... and, if Redis answers, a user told that the login succeeded can be
\* found by others: it is in userSession and has its hash (HandleMsg.cpp:271-274).
AcceptedIsOnline ==
    ~ raced /\ ~ RedisFaults => \A o \in Queued :
        o.type = "LOGIN_ACCEPT" /\ o.id \in Ids => o.id \in session /\ talker[o.id] # None

\* A name is registered once (HandleMsg.cpp:131-139).
UniqueNames ==
    \A i, j \in DOMAIN userinfo : userinfo[i].name = userinfo[j].name => i = j

\* The id a client gets with REG_ACCEPT is that of a row it registered
\* (HandleMsg.cpp:142-157).
RegisteredIdIsOwn ==
    \A o \in Queued : o.type = "REG_ACCEPT" =>
        o.id \in DOMAIN userinfo /\ userinfo[o.id].fd = o.fd

\* Every registration is answered, unless its connection or the server ends.
RegistrationAnswered == \A f \in Conns : f \in waiting ~> f \notin waiting

\* A login that was accepted with an id is in Redis, whatever the other
\* workers do meanwhile (README.md:3).
LoginIsRecorded ==
    \A o \in Queued : o.type = "LOGIN_ACCEPT" /\ o.id \in Ids =>
        o.id \in session /\ talker[o.id] # None
=============================================================================
