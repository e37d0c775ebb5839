--------------------------- MODULE ChatServerProofs ---------------------------
(***************************************************************************)
(* Safety of ChatServer for any connections, workers, users and requests,  *)
(* any crashes and restarts, and faults of the database and of Redis.      *)
(*                                                                         *)
(* The types need to know what a worker's request looks like at each step  *)
(* (Jobs).  What is in Redis is sound because, as long as no two workers   *)
(* used cmdBuf together, the buffer holds the command of the one worker    *)
(* between formatting and running it (BufferIsOwn), and a worker that will *)
(* store a user's descriptor got the password on it (LoginsAreOwned).      *)
(***************************************************************************)
EXTENDS ChatServer, QueueLemmas, WellFoundedInduction, TLAPS

\* What the epoll thread hands to the pool.
Given == {t \in Task : /\ t.fd \in Conns
                       /\ t.obj \in Requests
                       /\ t.obj.type \in DOMAIN FirstStep}

\* The type of the request at each step.
TypeAt == [regQuery |-> "REG", regInsert |-> "REG", regMax |-> "REG",
           logQuery |-> "LOGIN", logSadd |-> "LOGIN", logHmset |-> "LOGIN",
           talkIs |-> "TALK",
           askQuery |-> "ASK", askIs |-> "ASK", askFd |-> "ASK",
           accIs |-> "ACC", accFd |-> "ACC", accName |-> "ACC"]

Named == {"regQuery", "regInsert", "logQuery", "askQuery"}

\* A request at a step, when the table has these rows.
JobAt(step, t, rows) ==
    /\ t.fd \in Conns
    /\ t.obj.type = TypeAt[step]
    /\ step \in Named => t.obj.name \in Names
    /\ step \in {"regQuery", "regInsert"} => t.obj.pwd \in Pwds
    /\ step = "regMax" => 1 \in DOMAIN rows
    /\ step = "logQuery" => t.obj.id = -1 /\ t.obj.fd = -1
    /\ step \in {"askQuery", "askIs", "askFd"} => t.obj.id = -1 /\ t.obj.name \in Names
    /\ step \in {"accIs", "accFd", "accName"} => t.obj.id \in Ids
    /\ step \in {"logSadd", "logHmset"} =>
          t.obj.id \in DOMAIN rows /\ t.obj.name = rows[t.obj.id].name

Jobs == \A w \in Workers : pc[w] # "idle" => JobAt(pc[w], job[w], userinfo)

Ops == {"SADD", "HMSET", "SISMEMBER", "HGET fd", "HGET name", "mixed"}

Cmds ==
    {c \in [op : Ops, id : Int, name : Names \cup {Text, None}, fd : Int] :
        c.op \in {"SADD", "HMSET"} => c.id \in Ids}

WorkersOK ==
    /\ pc \in [Workers -> Steps]
    /\ job \in [Workers -> Task]
    /\ out \in Seq(TransObj)
    /\ Jobs

DataOK ==
    /\ userinfo \in Seq(Rows) /\ Len(userinfo) <= MaxUsers
    /\ session \in SUBSET Ids
    /\ talker \in [Ids -> Talker \cup {None}]

BufferOK ==
    /\ fmt \in SUBSET Workers
    /\ raced \in BOOLEAN
    /\ \A w \in fmt : pc[w] \in RedisSteps
    /\ fmt # {} => cmdBuf \in Cmds

NetOK ==
    /\ up \in {"serving", "deaf", "down"}
    /\ conn \in [Conns -> {"free", "open", "gone"}]
    /\ tasks \in Seq(Given)
    /\ owner \in SUBSET (Ids \X Conns)
    /\ waiting \in SUBSET Conns
    /\ reqs \in 0..MaxReqs
    /\ restarts \in 0..MaxRestarts

TypeInv == WorkersOK /\ DataOK /\ BufferOK /\ NetOK

\* The table only grows.
Grown ==
    \A i \in DOMAIN userinfo : i \in DOMAIN userinfo' /\ userinfo'[i] = userinfo[i]
-----------------------------------------------------------------------------
LEMMA QueuePushes ==
  ASSUME NEW S, NEW q \in Seq(S), NEW x \in S
  PROVE  Append(q, x) \in Seq(S)
  OBVIOUS

LEMMA QueuePops ==
  ASSUME NEW S, NEW q \in Seq(S), q # <<>>
  PROVE  Head(q) \in S /\ Tail(q) \in Seq(S)
  OBVIOUS

LEMMA IdsAreInts == Ids \subseteq Int /\ 0 \notin Ids /\ -1 \notin Ids
  BY ServerAssumption DEF Ids

LEMMA NoJobIsTask == NoJob \in Task
  BY DEF NoJob, Obj, Task, TransObj, Types

LEMMA RequestsAreTyped == Requests \subseteq TransObj
  BY IdsAreInts DEF Requests, Obj, TransObj, Types

\* Each request carries what its handler uses.
LEMMA GivenIsJob ==
  ASSUME NEW t \in Given, NEW rows
  PROVE  /\ FirstStep[t.obj.type] \in Steps \ {"idle"}
         /\ JobAt(FirstStep[t.obj.type], t, rows)
  <1>1. t.fd \in Conns /\ t.obj \in Requests /\ t.obj.type \in DOMAIN FirstStep
    BY DEF Given
  <1>2. CASE t.obj.type \in {"REG", "LOGIN"}
    <2>1. /\ t.obj.name \in Names /\ t.obj.pwd \in Pwds
          /\ t.obj.id = -1 /\ t.obj.fd = -1
      BY <1>1, <1>2 DEF Requests, Obj
    <2> QED BY <1>1, <1>2, <2>1 DEF FirstStep, JobAt, TypeAt, Named, Steps, DbSteps, RedisSteps
  <1>3. CASE t.obj.type = "ASK"
    <2>1. t.obj.name \in Names /\ t.obj.id = -1
      BY <1>1, <1>3 DEF Requests, Obj
    <2> QED BY <1>1, <1>3, <2>1 DEF FirstStep, JobAt, TypeAt, Named, Steps, DbSteps, RedisSteps
  <1>4. CASE t.obj.type \in {"ACC", "TALK"}
    <2>1. t.obj.type = "ACC" => t.obj.id \in Ids
      BY <1>1 DEF Requests, Obj
    <2> QED BY <1>1, <1>4, <2>1 DEF FirstStep, JobAt, TypeAt, Named, Steps, DbSteps, RedisSteps
  <1> QED BY <1>1, <1>2, <1>3, <1>4 DEF FirstStep

LEMMA SetMsgIsTyped ==
  ASSUME NEW o \in TransObj, NEW text \in Names \cup {Text}
  PROVE  /\ SetMsg(o, text) \in TransObj
         /\ SetMsg(o, text).id = o.id /\ SetMsg(o, text).fd = o.fd
         /\ SetMsg(o, text).rid = o.rid /\ SetMsg(o, text).type = o.type
  BY DEF SetMsg, TransObj

LEMMA RefusedIsTyped ==
  ASSUME NEW o \in TransObj, NEW type \in Types
  PROVE  Refused(o, type) \in TransObj /\ Refused(o, type).type = type
  BY SetMsgIsTyped DEF Refused, SetMsg, TransObj

\* A set of numbers that is not empty has a least one.
LEMMA LeastNumber ==
  ASSUME NEW S \in SUBSET Nat, S # {}
  PROVE  \E i \in S : \A j \in S : i <= j
  <1> DEFINE Less == {ss \in Nat \X Nat : ss[1] < ss[2]}
  <1>1. IsWellFoundedOn(Less, Nat)
    BY NatLessThanWellFounded DEF OpToRel
  <1>2. \E i \in S : \A j \in S : ~ (<<j, i>> \in Less)
    <2> HIDE DEF Less
    <2> QED BY <1>1, WFMin
  <1>3. \A i, j \in S : ~ (<<j, i>> \in Less) => i <= j
    OBVIOUS
  <1> QED BY <1>2, <1>3

\* The row executeQuery delivers first is one with this name.
LEMMA FirstIdIsFirst ==
  ASSUME DataOK, NEW n, IdsOf(n) # {}
  PROVE  /\ FirstId(n) \in DOMAIN userinfo
         /\ FirstId(n) \in Ids
         /\ userinfo[FirstId(n)].name = n
  <1>1. IdsOf(n) \subseteq Nat
    BY DEF IdsOf, DataOK
  <1>2. \E i \in IdsOf(n) : \A j \in IdsOf(n) : i <= j
    BY <1>1, LeastNumber
  <1>3. FirstId(n) \in IdsOf(n)
    BY <1>2 DEF FirstId
  <1>4. DOMAIN userinfo \subseteq Ids
    BY ServerAssumption DEF DataOK, Ids
  <1> QED BY <1>3, <1>4 DEF IdsOf

LEMMA UnchangedIsGrown ==
  ASSUME UNCHANGED userinfo
  PROVE  Grown
  BY DEF Grown
-----------------------------------------------------------------------------
\* What a step of a worker does to the workers: it goes on, or it is done.
LEMMA OthersKeepJobs ==
  ASSUME WorkersOK, Grown, NEW v \in Workers, pc[v] # "idle",
         UNCHANGED <<pc[v], job[v]>>
  PROVE  JobAt(pc'[v], job'[v], userinfo')
  BY DEF WorkersOK, Jobs, JobAt, Grown

LEMMA GotoKeepsTypes ==
  ASSUME WorkersOK, Grown, NEW w \in Workers, NEW step \in Steps, NEW o \in TransObj,
         job[w].fd \in Conns, Goto(w, step, o),
         JobAt(step, [obj |-> o, fd |-> job[w].fd], userinfo')
  PROVE  WorkersOK' /\ (\A v \in Workers \ {w} : UNCHANGED <<pc[v], job[v]>>)
  <1>1. [obj |-> o, fd |-> job[w].fd] \in Task
    BY ServerAssumption DEF Task
  <1>2. /\ pc' = [pc EXCEPT ![w] = step] /\ UNCHANGED out
        /\ job' = [job EXCEPT ![w] = [obj |-> o, fd |-> job[w].fd]]
    BY DEF Goto
  <1>3. pc' \in [Workers -> Steps] /\ job' \in [Workers -> Task]
    BY <1>1, <1>2 DEF WorkersOK
  <1>4. \A v \in Workers \ {w} : pc'[v] = pc[v] /\ job'[v] = job[v]
    BY <1>2 DEF WorkersOK
  <1>5. pc'[w] = step /\ job'[w] = [obj |-> o, fd |-> job[w].fd]
    BY <1>2 DEF WorkersOK
  <1>6. \A v \in Workers : pc'[v] # "idle" => JobAt(pc'[v], job'[v], userinfo')
    BY <1>4, <1>5, OthersKeepJobs
  <1> QED BY <1>2, <1>3, <1>4, <1>6 DEF WorkersOK, Jobs

\* Return and Answer.
Done(w, o) == Return(w) \/ Answer(w, o)

LEMMA DoneKeepsTypes ==
  ASSUME WorkersOK, Grown, NEW w \in Workers, NEW o \in TransObj, Done(w, o)
  PROVE  WorkersOK' /\ (\A v \in Workers \ {w} : UNCHANGED <<pc[v], job[v]>>)
  <1>1. pc' = [pc EXCEPT ![w] = "idle"] /\ job' = [job EXCEPT ![w] = NoJob]
    BY DEF Done, Return, Answer
  <1>2. out' \in Seq(TransObj)
    BY QueuePushes DEF Done, Return, Answer, WorkersOK
  <1>3. pc' \in [Workers -> Steps] /\ job' \in [Workers -> Task]
    BY <1>1, NoJobIsTask DEF WorkersOK, Steps
  <1>4. \A v \in Workers \ {w} : pc'[v] = pc[v] /\ job'[v] = job[v]
    BY <1>1 DEF WorkersOK
  <1>5. pc'[w] = "idle"
    BY <1>1 DEF WorkersOK
  <1>6. \A v \in Workers : pc'[v] # "idle" => JobAt(pc'[v], job'[v], userinfo')
    BY <1>4, <1>5, OthersKeepJobs
  <1> QED BY <1>2, <1>3, <1>4, <1>6 DEF WorkersOK, Jobs

\* The object a worker holds at a step.
LEMMA JobIsTyped ==
  ASSUME TypeInv, NEW w \in Workers, pc[w] # "idle"
  PROVE  /\ job[w] \in Task /\ job[w].obj \in TransObj /\ job[w].fd \in Conns
         /\ JobAt(pc[w], job[w], userinfo)
  BY DEF TypeInv, WorkersOK, Jobs, JobAt, Task

\* Steps that do not use cmdBuf leave it to whoever formatted it.
LEMMA OthersKeepBuffer ==
  ASSUME BufferOK, NEW w \in Workers, w \notin fmt, UNCHANGED buf,
         \A v \in Workers \ {w} : UNCHANGED <<pc[v], job[v]>>
  PROVE  BufferOK'
  BY DEF BufferOK, buf

LEMMA DieKeepsTypes ==
  ASSUME TypeInv, Die
  PROVE  TypeInv'
  <1>1. WorkersOK'
    <2>1. pc' = Idle /\ job' = NoJobs /\ out' = <<>>
      BY DEF Die
    <2>2. Idle \in [Workers -> Steps] /\ (\A w \in Workers : Idle[w] = "idle")
      BY DEF Idle, Steps
    <2>3. NoJobs \in [Workers -> Task]
      BY NoJobIsTask DEF NoJobs
    <2>4. <<>> \in Seq(TransObj)
      OBVIOUS
    <2> QED BY <2>1, <2>2, <2>3, <2>4 DEF WorkersOK, Jobs
  <1>2. DataOK'
    BY DEF Die, TypeInv, DataOK, redis
  <1>3. BufferOK'
    BY DEF Die, TypeInv, BufferOK
  <1>4. NetOK'
    <2>1. conn' \in [Conns -> {"free", "open", "gone"}]
      BY DEF Die, Free
    <2>2. tasks' \in Seq(Given)
      BY DEF Die
    <2> QED BY <2>1, <2>2 DEF Die, TypeInv, NetOK
  <1> QED BY <1>1, <1>2, <1>3, <1>4 DEF TypeInv
-----------------------------------------------------------------------------
\* The epoll thread, the pool, the sender and restarts.
LEMMA NetKeepsTypes ==
  ASSUME TypeInv, NEW f \in Conns, Accept(f) \/ PeerClose(f)
  PROVE  TypeInv'
  <1>1. WorkersOK'
    BY DEF Accept, PeerClose, TypeInv, WorkersOK, Jobs
  <1>2. DataOK' /\ BufferOK'
    BY DEF Accept, PeerClose, TypeInv, DataOK, BufferOK, redis, buf
  <1>3. NetOK'
    BY DEF Accept, PeerClose, TypeInv, NetOK, proc
  <1> QED BY <1>1, <1>2, <1>3 DEF TypeInv

LEMMA RecvKeepsTypes ==
  ASSUME TypeInv, NEW f \in Conns, NEW o \in Requests, Recv(f, o)
  PROVE  TypeInv'
  <1>1. WorkersOK'
    BY DEF Recv, TypeInv, WorkersOK, Jobs
  <1>2. DataOK' /\ BufferOK'
    BY DEF Recv, TypeInv, DataOK, BufferOK, redis, buf
  <1>3. tasks' \in Seq(Given)
    <2>1. CASE o.type \in DOMAIN FirstStep
      <3>1. [obj |-> o, fd |-> f] \in Given
        BY <2>1, RequestsAreTyped, ServerAssumption DEF Given, Task
      <3> QED BY <2>1, <3>1, QueuePushes DEF Recv, TypeInv, NetOK
    <2>2. CASE o.type \notin DOMAIN FirstStep
      BY <2>2 DEF Recv, TypeInv, NetOK
    <2> QED BY <2>1, <2>2
  <1>4. reqs' \in 0..MaxReqs /\ waiting' \in SUBSET Conns
    BY ServerAssumption DEF Recv, TypeInv, NetOK
  <1>5. NetOK'
    BY <1>3, <1>4 DEF Recv, TypeInv, NetOK, proc
  <1> QED BY <1>1, <1>2, <1>5 DEF TypeInv

LEMMA TakeKeepsTypes ==
  ASSUME TypeInv, NEW w \in Workers, Take(w)
  PROVE  TypeInv' /\ (\A v \in Workers \ {w} : UNCHANGED <<pc[v], job[v]>>)
  <1> DEFINE t == Head(tasks)
             step == FirstStep[t.obj.type]
  <1>1. t \in Given /\ tasks' \in Seq(Given)
    BY QueuePops DEF Take, TypeInv, NetOK
  <1>2. step \in Steps /\ JobAt(step, t, userinfo') /\ t \in Task
    BY <1>1, GivenIsJob DEF Given
  <1>3. /\ pc' = [pc EXCEPT ![w] = step] /\ job' = [job EXCEPT ![w] = t]
        /\ UNCHANGED <<userinfo, out>>
    BY DEF Take
  <1> HIDE DEF t, step
  <1>4. pc' \in [Workers -> Steps] /\ job' \in [Workers -> Task]
    BY <1>2, <1>3 DEF TypeInv, WorkersOK
  <1>5. \A v \in Workers \ {w} : pc'[v] = pc[v] /\ job'[v] = job[v]
    BY <1>3 DEF TypeInv, WorkersOK
  <1>6. pc'[w] = step /\ job'[w] = t
    BY <1>3 DEF TypeInv, WorkersOK
  <1>7. \A v \in Workers : pc'[v] # "idle" => JobAt(pc'[v], job'[v], userinfo')
    BY <1>2, <1>3, <1>5, <1>6, OthersKeepJobs, UnchangedIsGrown DEF TypeInv
  <1>8. WorkersOK'
    BY <1>3, <1>4, <1>7 DEF TypeInv, WorkersOK, Jobs
  <1>9. w \notin fmt
    BY DEF Take, TypeInv, BufferOK, RedisSteps
  <1>10. UNCHANGED buf
    BY DEF Take
  <1>11. BufferOK'
    BY <1>5, <1>9, <1>10, OthersKeepBuffer DEF TypeInv
  <1>12. DataOK' /\ NetOK'
    BY <1>1 DEF Take, TypeInv, DataOK, NetOK, redis, net, proc
  <1> QED BY <1>5, <1>8, <1>11, <1>12 DEF TypeInv

LEMMA SendKeepsTypes ==
  ASSUME TypeInv, Send
  PROVE  TypeInv'
  <1>1. CASE Die
    BY <1>1, DieKeepsTypes
  <1>2. CASE ~ Die
    <2>1. /\ out' = Tail(out) /\ waiting' \subseteq waiting
          /\ UNCHANGED <<tasks, pc, job, userinfo, redis, buf, owner, conn, reqs, proc>>
      BY <1>2 DEF Send
    <2>2. out' \in Seq(TransObj)
      BY <1>2, QueuePops DEF Send, TypeInv, WorkersOK
    <2>3. WorkersOK'
      BY <2>1, <2>2 DEF TypeInv, WorkersOK, Jobs
    <2>4. DataOK' /\ BufferOK'
      BY <2>1 DEF TypeInv, DataOK, BufferOK, redis, buf
    <2>5. NetOK'
      BY <2>1 DEF TypeInv, NetOK, proc
    <2> QED BY <2>3, <2>4, <2>5 DEF TypeInv
  <1> QED BY <1>1, <1>2

LEMMA RestartKeepsTypes ==
  ASSUME TypeInv, Restart
  PROVE  TypeInv'
  <1>1. WorkersOK'
    BY DEF Restart, TypeInv, WorkersOK, Jobs
  <1>2. DataOK' /\ BufferOK'
    BY DEF Restart, TypeInv, DataOK, BufferOK, redis, buf
  <1>3. restarts' \in 0..MaxRestarts /\ up' \in {"serving", "deaf", "down"}
    BY ServerAssumption DEF Restart, TypeInv, NetOK
  <1>4. NetOK'
    BY <1>3 DEF Restart, TypeInv, NetOK, net
  <1> QED BY <1>1, <1>2, <1>4 DEF TypeInv
-----------------------------------------------------------------------------
\* The statements sent to the database.
Others(w) == \A v \in Workers \ {w} : UNCHANGED <<pc[v], job[v]>>

LEMMA DatabaseKeepsTypes ==
  ASSUME TypeInv, NEW w \in Workers, pc[w] \in DbSteps,
         WorkersOK', Others(w),
         UNCHANGED <<net, tasks, redis, buf, proc>>,
         userinfo' \in Seq(Rows), Len(userinfo') <= MaxUsers,
         owner' \in SUBSET (Ids \X Conns)
  PROVE  TypeInv'
  <1>1. w \notin fmt
    BY DEF TypeInv, BufferOK, DbSteps, RedisSteps
  <1>2. BufferOK'
    BY <1>1, OthersKeepBuffer DEF TypeInv, Others
  <1>3. DataOK'
    BY DEF TypeInv, DataOK, redis
  <1>4. NetOK'
    BY DEF TypeInv, NetOK, net, proc
  <1> QED BY <1>2, <1>3, <1>4 DEF TypeInv

LEMMA RegQueryKeepsTypes ==
  ASSUME TypeInv, NEW w \in Workers, RegQuery(w)
  PROVE  TypeInv' /\ Others(w)
  <1> DEFINE o == [job[w].obj EXCEPT !.fd = job[w].fd]
  <1>1. pc[w] = "regQuery" /\ pc[w] \in DbSteps /\ pc[w] # "idle"
    BY DEF RegQuery, DbSteps
  <1>2. /\ job[w].obj \in TransObj /\ job[w].fd \in Conns
        /\ JobAt("regQuery", job[w], userinfo)
    BY <1>1, JobIsTyped
  <1>3. /\ o \in TransObj /\ o.name = job[w].obj.name /\ o.pwd = job[w].obj.pwd
        /\ o.type = job[w].obj.type
    BY <1>2, ServerAssumption DEF TransObj
  <1>4. Answer(w, Refused(o, "REG_REFUSE")) \/ Goto(w, "regInsert", o)
    BY DEF RegQuery
  <1>5. UNCHANGED <<net, tasks, userinfo, redis, buf, owner, proc>> /\ Grown
    BY UnchangedIsGrown DEF RegQuery
  <1> HIDE DEF o
  <1>6. WorkersOK' /\ Others(w)
    <2>1. CASE Answer(w, Refused(o, "REG_REFUSE"))
      <3>1. Refused(o, "REG_REFUSE") \in TransObj
        BY <1>3, RefusedIsTyped DEF Types
      <3> QED BY <2>1, <3>1, <1>5, DoneKeepsTypes DEF Done, TypeInv, Others
    <2>2. CASE Goto(w, "regInsert", o)
      <3>1. JobAt("regInsert", [obj |-> o, fd |-> job[w].fd], userinfo')
        BY <1>2, <1>3 DEF JobAt, TypeAt, Named
      <3>2. "regInsert" \in Steps
        BY DEF Steps, DbSteps
      <3> QED BY <2>2, <3>1, <3>2, <1>2, <1>3, <1>5, GotoKeepsTypes DEF TypeInv, Others
    <2> QED BY <1>4, <2>1, <2>2
  <1> QED BY <1>1, <1>5, <1>6, DatabaseKeepsTypes DEF TypeInv, DataOK, NetOK

LEMMA RegInsertKeepsTypes ==
  ASSUME TypeInv, NEW w \in Workers, RegInsert(w)
  PROVE  TypeInv' /\ Others(w) /\ Grown
  <1> DEFINE o == job[w].obj
             row == [name |-> o.name, fd |-> o.fd, pwd |-> o.pwd]
  <1>1. pc[w] = "regInsert" /\ pc[w] \in DbSteps /\ pc[w] # "idle"
    BY DEF RegInsert, DbSteps
  <1>2. o \in TransObj /\ job[w].fd \in Conns /\ JobAt("regInsert", job[w], userinfo)
    BY <1>1, JobIsTyped
  <1>3. row \in Rows
    BY <1>2 DEF JobAt, Named, TransObj, Rows
  <1>4. userinfo \in Seq(Rows) /\ Len(userinfo) <= MaxUsers
    BY DEF TypeInv, DataOK
  <1>5. UNCHANGED userinfo \/ (Len(userinfo) < MaxUsers /\ userinfo' = Append(userinfo, row))
    BY DEF RegInsert
  <1>6. userinfo' \in Seq(Rows) /\ Len(userinfo') <= MaxUsers /\ Grown
    <2>1. CASE UNCHANGED userinfo
      BY <1>4, <2>1 DEF Grown
    <2>2. CASE Len(userinfo) < MaxUsers /\ userinfo' = Append(userinfo, row)
      <3> HIDE DEF row
      <3> QED BY <1>3, <1>4, <2>2, ServerAssumption DEF Grown
    <2> QED BY <1>5, <2>1, <2>2
  <1>7. \/ Answer(w, Refused(o, "REG_REFUSE"))
        \/ Goto(w, "regMax", o) /\ userinfo' = Append(userinfo, row)
    BY DEF RegInsert
  <1>8. UNCHANGED <<net, tasks, redis, buf, owner, proc>>
    BY DEF RegInsert
  <1> HIDE DEF o, row
  <1>9. WorkersOK' /\ Others(w)
    <2>1. CASE Answer(w, Refused(o, "REG_REFUSE"))
      <3>1. Refused(o, "REG_REFUSE") \in TransObj
        BY <1>2, RefusedIsTyped DEF Types
      <3> QED BY <2>1, <3>1, <1>6, DoneKeepsTypes DEF Done, TypeInv, Others
    <2>2. CASE Goto(w, "regMax", o) /\ userinfo' = Append(userinfo, row)
      <3>3. 1 \in DOMAIN userinfo'
        BY <1>4, <2>2
      <3>1. JobAt("regMax", [obj |-> o, fd |-> job[w].fd], userinfo')
        BY <1>2, <3>3 DEF JobAt, TypeAt, Named, o
      <3>2. "regMax" \in Steps
        BY DEF Steps, DbSteps
      <3> QED BY <2>2, <3>1, <3>2, <1>2, <1>6, GotoKeepsTypes DEF TypeInv, Others
    <2> QED BY <1>7, <2>1, <2>2
  <1> QED BY <1>1, <1>6, <1>8, <1>9, DatabaseKeepsTypes DEF TypeInv, NetOK

LEMMA RegMaxKeepsTypes ==
  ASSUME TypeInv, NEW w \in Workers, RegMax(w)
  PROVE  TypeInv' /\ Others(w)
  <1> DEFINE a == [SetMsg(job[w].obj, Text) EXCEPT !.type = "REG_ACCEPT", !.id = MaxUserId]
  <1>1. pc[w] = "regMax" /\ pc[w] \in DbSteps /\ pc[w] # "idle"
    BY DEF RegMax, DbSteps
  <1>2. job[w].obj \in TransObj
    BY <1>1, JobIsTyped
  <1>3. MaxUserId \in Int
    BY DEF MaxUserId, TypeInv, DataOK
  <1>4. a \in TransObj
    BY <1>2, <1>3, SetMsgIsTyped DEF TransObj, Types
  <1>5. Answer(w, a) /\ UNCHANGED <<net, tasks, userinfo, redis, buf, owner, proc>> /\ Grown
    BY UnchangedIsGrown DEF RegMax
  <1> HIDE DEF a
  <1>6. WorkersOK' /\ Others(w)
    BY <1>4, <1>5, DoneKeepsTypes DEF Done, TypeInv, Others
  <1> QED BY <1>1, <1>5, <1>6, DatabaseKeepsTypes DEF TypeInv, DataOK, NetOK

\* A login goes on only for a row with the name and the password, and the
\* password was given on the connection of the request.
LEMMA LoginFindsItsRow ==
  ASSUME TypeInv, NEW w \in Workers, pc[w] = "logQuery", IdsOf(job[w].obj.name) # {}
  PROVE  LET o == job[w].obj
             i == FirstId(o.name)
             p == [o EXCEPT !.id = i, !.fd = job[w].fd]
         IN  /\ i \in Ids /\ i \in DOMAIN userinfo
             /\ p \in TransObj /\ p.id = i /\ p.fd = job[w].fd
             /\ JobAt("logSadd", [obj |-> p, fd |-> job[w].fd], userinfo)
  <1> DEFINE o == job[w].obj
             i == FirstId(o.name)
             p == [o EXCEPT !.id = i, !.fd = job[w].fd]
  <1>1. o \in TransObj /\ job[w].fd \in Conns /\ JobAt("logQuery", job[w], userinfo)
    BY JobIsTyped
  <1>2. i \in Ids /\ i \in DOMAIN userinfo /\ userinfo[i].name = o.name
    BY FirstIdIsFirst DEF TypeInv
  <1>3. i \in Int /\ job[w].fd \in Int
    BY <1>1, <1>2, IdsAreInts, ServerAssumption
  <1>4. /\ p \in TransObj /\ p.id = i /\ p.fd = job[w].fd /\ p.name = o.name
        /\ p.type = o.type
    <2> HIDE DEF i
    <2> QED BY <1>1, <1>3 DEF TransObj
  <1>5. JobAt("logSadd", [obj |-> p, fd |-> job[w].fd], userinfo)
    <2> HIDE DEF p, i
    <2> QED BY <1>1, <1>2, <1>4 DEF JobAt, TypeAt, Named
  <1> QED BY <1>2, <1>4, <1>5

LEMMA LogQueryKeepsTypes ==
  ASSUME TypeInv, NEW w \in Workers, LogQuery(w)
  PROVE  TypeInv' /\ Others(w)
  <1> DEFINE o == job[w].obj
             i == FirstId(o.name)
             p == [o EXCEPT !.id = i, !.fd = job[w].fd]
  <1>1. pc[w] = "logQuery" /\ pc[w] \in DbSteps /\ pc[w] # "idle"
    BY DEF LogQuery, DbSteps
  <1>2. o \in TransObj /\ job[w].fd \in Conns
    BY <1>1, JobIsTyped
  <1>3. UNCHANGED <<net, tasks, userinfo, redis, buf, proc>> /\ Grown
    BY UnchangedIsGrown DEF LogQuery
  <1>4. \/ /\ IdsOf(o.name) # {} /\ Goto(w, "logSadd", p)
           /\ owner' = owner \/ owner' = owner \cup {<<i, job[w].fd>>}
        \/ /\ owner' = owner
           /\ \/ Answer(w, Refused(o, "LOGIN_REFUSE"))
              \/ Answer(w, [o EXCEPT !.type = "LOGIN_ACCEPT"])
    BY DEF LogQuery
  <1>5. IdsOf(o.name) # {} =>
           /\ i \in Ids /\ p \in TransObj
           /\ JobAt("logSadd", [obj |-> p, fd |-> job[w].fd], userinfo')
    BY <1>1, <1>3, LoginFindsItsRow
  <1>6. Refused(o, "LOGIN_REFUSE") \in TransObj /\ [o EXCEPT !.type = "LOGIN_ACCEPT"] \in TransObj
    BY <1>2, RefusedIsTyped DEF Types, TransObj
  <1> HIDE DEF p, i
  <1>7. owner' \in SUBSET (Ids \X Conns)
    BY <1>2, <1>4, <1>5 DEF TypeInv, NetOK
  <1>8. WorkersOK' /\ Others(w)
    <2>1. CASE IdsOf(o.name) # {} /\ Goto(w, "logSadd", p)
      <3>1. "logSadd" \in Steps
        BY DEF Steps, RedisSteps
      <3> QED BY <2>1, <3>1, <1>2, <1>3, <1>5, GotoKeepsTypes DEF TypeInv, Others
    <2>2. CASE Answer(w, Refused(o, "LOGIN_REFUSE"))
      BY <2>2, <1>3, <1>6, DoneKeepsTypes DEF Done, TypeInv, Others
    <2>3. CASE Answer(w, [o EXCEPT !.type = "LOGIN_ACCEPT"])
      BY <2>3, <1>3, <1>6, DoneKeepsTypes DEF Done, TypeInv, Others
    <2> QED BY <1>4, <2>1, <2>2, <2>3
  <1> QED BY <1>1, <1>3, <1>7, <1>8, DatabaseKeepsTypes DEF TypeInv, DataOK

LEMMA AskQueryKeepsTypes ==
  ASSUME TypeInv, NEW w \in Workers, AskQuery(w)
  PROVE  TypeInv' /\ Others(w)
  <1> DEFINE o == job[w].obj
             p == [o EXCEPT !.rid = FirstId(o.name)]
             q == [o EXCEPT !.type = "ASK_NOT_FOUND", !.fd = job[w].fd]
  <1>1. pc[w] = "askQuery" /\ pc[w] \in DbSteps /\ pc[w] # "idle"
    BY DEF AskQuery, DbSteps
  <1>2. o \in TransObj /\ job[w].fd \in Conns /\ JobAt("askQuery", job[w], userinfo)
    BY <1>1, JobIsTyped
  <1>3. UNCHANGED <<net, tasks, userinfo, redis, buf, owner, proc>> /\ Grown
    BY UnchangedIsGrown DEF AskQuery
  <1>4. (IdsOf(o.name) # {} /\ Goto(w, "askIs", p)) \/ Answer(w, q)
    BY DEF AskQuery
  <1>5. IdsOf(o.name) # {} =>
           p \in TransObj /\ JobAt("askIs", [obj |-> p, fd |-> job[w].fd], userinfo')
    <2> SUFFICES ASSUME IdsOf(o.name) # {}
                 PROVE  p \in TransObj
                        /\ JobAt("askIs", [obj |-> p, fd |-> job[w].fd], userinfo')
      OBVIOUS
    <2>1. FirstId(o.name) \in Int
      BY FirstIdIsFirst, IdsAreInts DEF TypeInv
    <2>2. p \in TransObj /\ p.type = o.type /\ p.id = o.id /\ p.name = o.name
      BY <1>2, <2>1 DEF TransObj
    <2> HIDE DEF p
    <2> QED BY <1>2, <2>2 DEF JobAt, TypeAt, Named
  <1>6. q \in TransObj
    BY <1>2, ServerAssumption DEF TransObj, Types
  <1> HIDE DEF p, q
  <1>7. WorkersOK' /\ Others(w)
    <2>1. CASE IdsOf(o.name) # {} /\ Goto(w, "askIs", p)
      <3>1. "askIs" \in Steps
        BY DEF Steps, RedisSteps
      <3> QED BY <2>1, <3>1, <1>2, <1>3, <1>5, GotoKeepsTypes DEF TypeInv, Others
    <2>2. CASE Answer(w, q)
      BY <2>2, <1>3, <1>6, DoneKeepsTypes DEF Done, TypeInv, Others
    <2> QED BY <1>4, <2>1, <2>2
  <1> QED BY <1>1, <1>3, <1>7, DatabaseKeepsTypes DEF TypeInv, DataOK, NetOK

LEMMA DbThrowsKeepsTypes ==
  ASSUME TypeInv, NEW w \in Workers, DbThrows(w)
  PROVE  TypeInv' /\ Others(w)
  <1>1. pc[w] \in DbSteps /\ Return(w)
        /\ UNCHANGED <<net, tasks, userinfo, redis, buf, owner, proc>> /\ Grown
    BY UnchangedIsGrown DEF DbThrows
  <1>2. NoJob.obj \in TransObj
    BY NoJobIsTask DEF Task
  <1>3. WorkersOK' /\ Others(w)
    BY <1>1, <1>2, DoneKeepsTypes DEF Done, TypeInv, Others
  <1> QED BY <1>1, <1>3, DatabaseKeepsTypes DEF TypeInv, DataOK, NetOK
-----------------------------------------------------------------------------
\* Redis.
LEMMA QuestionIsTyped ==
  ASSUME NEW op \in Ops \ {"SADD", "HMSET"}, NEW id \in Int
  PROVE  Cmd(op, id, None, -1) \in Cmds
  BY DEF Cmd, Cmds

LEMMA CmdIsTyped ==
  ASSUME TypeInv, NEW w \in Workers, pc[w] \in RedisSteps
  PROVE  CmdOf(w) \in Cmds
  <1> DEFINE o == job[w].obj
  <1>1. o \in TransObj /\ JobAt(pc[w], job[w], userinfo)
    BY JobIsTyped DEF RedisSteps
  <1>2. pc[w] \in {"logSadd", "logHmset"} => o.id \in Ids
    BY <1>1, ServerAssumption DEF JobAt, TypeInv, DataOK, Ids
  <1>3. o.id \in Int /\ o.rid \in Int /\ o.fd \in Int /\ o.name \in Names \cup {Text, None}
    BY <1>1 DEF TransObj
  <1> HIDE DEF o
  <1>4. CASE pc[w] = "logSadd"
    BY <1>2, <1>3, <1>4 DEF CmdOf, SaddCmd, Cmd, Cmds, Ops, o
  <1>5. CASE pc[w] = "logHmset"
    BY <1>2, <1>3, <1>5 DEF CmdOf, HmsetCmd, Cmd, Cmds, Ops, o
  <1>6. CASE pc[w] \in {"talkIs", "askIs", "accIs"}
    <2>1. CmdOf(w) = IsMemberCmd(o.rid)
      BY <1>6 DEF CmdOf, o
    <2> QED BY <1>3, <2>1, QuestionIsTyped DEF IsMemberCmd, Ops
  <1>7. CASE pc[w] \in {"askFd", "accFd"}
    <2>1. CmdOf(w) = FdCmd(o.rid)
      BY <1>7 DEF CmdOf, o
    <2> QED BY <1>3, <2>1, QuestionIsTyped DEF FdCmd, Ops
  <1>8. CASE pc[w] = "accName"
    <2>1. CmdOf(w) = NameCmd(o.id)
      BY <1>8 DEF CmdOf, o
    <2> QED BY <1>3, <2>1, QuestionIsTyped DEF NameCmd, Ops
  <1> QED BY <1>4, <1>5, <1>6, <1>7, <1>8 DEF RedisSteps

LEMMA FormatKeepsTypes ==
  ASSUME TypeInv, NEW w \in Workers, Format(w)
  PROVE  TypeInv'
  <1>1. pc[w] \in RedisSteps /\ CmdOf(w) \in Cmds
    BY CmdIsTyped DEF Format
  <1>2. Mixed \in Cmds
    <2>1. "mixed" \in Ops \ {"SADD", "HMSET"} /\ -1 \in Int
      BY DEF Ops
    <2>2. Cmd("mixed", -1, None, -1) \in Cmds
      BY <2>1, QuestionIsTyped
    <2> QED BY <2>2 DEF Mixed
  <1>3. cmdBuf' \in Cmds
    BY <1>1, <1>2 DEF Format
  <1>4. BufferOK'
    BY <1>1, <1>3 DEF Format, TypeInv, BufferOK
  <1>5. WorkersOK'
    BY DEF Format, TypeInv, WorkersOK, Jobs
  <1>6. DataOK' /\ NetOK'
    BY DEF Format, TypeInv, DataOK, NetOK, redis, net, proc
  <1> QED BY <1>4, <1>5, <1>6 DEF TypeInv

LEMMA AppliedIsTyped ==
  ASSUME DataOK, cmdBuf \in Cmds, Apply(cmdBuf)
  PROVE  session' \in SUBSET Ids /\ talker' \in [Ids -> Talker \cup {None}]
  <1>1. session' \in SUBSET Ids
    BY DEF Apply, Cmds, DataOK
  <1>2. [name |-> cmdBuf.name, fd |-> cmdBuf.fd] \in Talker
    BY DEF Cmds, Talker
  <1>3. talker' \in [Ids -> Talker \cup {None}]
    BY <1>2 DEF Apply, DataOK
  <1> QED BY <1>1, <1>3

LEMMA FdIsInt == \A r : FdOf(r) \in Int
  BY DEF FdOf

\* Whatever the reply, the request goes on to a step that fits it.
LEMMA UseKeepsTypes ==
  ASSUME TypeInv, NEW w \in Workers, pc[w] \in RedisSteps, NEW r, Use(w, r),
         UNCHANGED userinfo
  PROVE  WorkersOK' /\ Others(w)
  <1> DEFINE o == job[w].obj
             routed == [o EXCEPT !.fd = FdOf(r)]
  <1>1. o \in TransObj /\ job[w].fd \in Conns /\ JobAt(pc[w], job[w], userinfo) /\ Grown
    BY JobIsTyped, UnchangedIsGrown DEF RedisSteps
  <1>2. FdOf(r) \in Int
    BY FdIsInt
  <1>3. routed \in TransObj /\ routed.type = o.type /\ routed.id = o.id
    <2> HIDE DEF o
    <2> QED BY <1>1, <1>2 DEF TransObj
  <1>4. ASSUME NEW step, Goto(w, step, o),
               \/ pc[w] = "logSadd" /\ step = "logHmset"
               \/ pc[w] = "askIs" /\ step = "askFd"
               \/ pc[w] = "accIs" /\ step = "accFd"
        PROVE  WorkersOK' /\ Others(w)
    <2>1. JobAt(step, [obj |-> o, fd |-> job[w].fd], userinfo')
      <3>1. CASE pc[w] = "logSadd" /\ step = "logHmset"
        BY <1>1, <3>1 DEF JobAt, Named, TypeAt
      <3>2. CASE pc[w] = "askIs" /\ step = "askFd"
        BY <1>1, <3>2 DEF JobAt, Named, TypeAt
      <3>3. CASE pc[w] = "accIs" /\ step = "accFd"
        BY <1>1, <3>3 DEF JobAt, Named, TypeAt
      <3> QED BY <1>4, <3>1, <3>2, <3>3
    <2>2. step \in Steps
      BY <1>4 DEF Steps, RedisSteps
    <2> HIDE DEF o
    <2> QED BY <1>1, <1>4, <2>1, <2>2, GotoKeepsTypes DEF TypeInv, Others
  <1>5. ASSUME NEW a \in TransObj, Done(w, a)
        PROVE  WorkersOK' /\ Others(w)
    BY <1>1, <1>5, DoneKeepsTypes DEF TypeInv, Others
  <1>6. CASE LogReply(w, r)
    <2>1. [o EXCEPT !.type = "LOGIN_ACCEPT"] \in TransObj
      BY <1>1 DEF TransObj, Types
    <2>2. \/ pc[w] = "logSadd" /\ Goto(w, "logHmset", o)
          \/ Answer(w, [o EXCEPT !.type = "LOGIN_ACCEPT"])
      BY <1>6 DEF LogReply
    <2> HIDE DEF o
    <2> QED BY <2>1, <2>2, <1>4, <1>5 DEF Done
  <1>7. CASE OnlineReply(w, r)
    <2>1. \/ Answer(w, o) \/ Return(w)
          \/ pc[w] = "askIs" /\ Goto(w, "askFd", o)
          \/ pc[w] = "accIs" /\ Goto(w, "accFd", o)
      BY <1>7 DEF OnlineReply
    <2> HIDE DEF o
    <2> QED BY <2>1, <1>1, <1>4, <1>5 DEF Done
  <1>8. CASE RouteReply(w, r)
    <2> DEFINE named == IF r = Lost THEN o ELSE SetMsg(o, IF r \in Names THEN r ELSE Text)
    <2>1. named \in TransObj
      BY <1>1, SetMsgIsTyped
    <2>2. \/ Answer(w, routed) \/ Answer(w, named) \/ Return(w)
          \/ pc[w] = "accFd" /\ Goto(w, "accName", routed)
      BY <1>8 DEF RouteReply
    <2> HIDE DEF named, routed
    <2>3. ASSUME pc[w] = "accFd", Goto(w, "accName", routed)
          PROVE  WorkersOK' /\ Others(w)
      <3>1. JobAt("accName", [obj |-> routed, fd |-> job[w].fd], userinfo')
        BY <1>1, <1>3, <2>3 DEF JobAt, TypeAt, Named
      <3>2. "accName" \in Steps
        BY DEF Steps, RedisSteps
      <3> QED BY <1>1, <1>3, <2>3, <3>1, <3>2, GotoKeepsTypes DEF TypeInv, Others
    <2> QED BY <2>1, <2>2, <2>3, <1>3, <1>5 DEF Done
  <1> QED BY <1>6, <1>7, <1>8 DEF Use

LEMMA RunKeepsTypes ==
  ASSUME TypeInv, NEW w \in Workers, Run(w)
  PROVE  TypeInv' /\ Others(w)
  <1>1. w \in fmt /\ pc[w] \in RedisSteps /\ cmdBuf \in Cmds
    BY DEF Run, TypeInv, BufferOK
  <1>2. UNCHANGED <<net, tasks, userinfo, cmdBuf, raced, owner, proc>> /\ fmt' = fmt \ {w}
    BY DEF Run
  <1>3. Apply(cmdBuf) \/ UNCHANGED redis
    BY DEF Run
  <1>4. \E r : Use(w, r)
    BY DEF Run
  <1>5. WorkersOK' /\ Others(w)
    BY <1>1, <1>2, <1>4, UseKeepsTypes
  <1>6. DataOK'
    BY <1>1, <1>2, <1>3, AppliedIsTyped DEF TypeInv, DataOK, redis
  <1>7. BufferOK'
    BY <1>1, <1>2, <1>5 DEF TypeInv, BufferOK, Others
  <1>8. NetOK'
    BY <1>2 DEF TypeInv, NetOK, net, proc
  <1> QED BY <1>5, <1>6, <1>7, <1>8 DEF TypeInv
-----------------------------------------------------------------------------
LEMMA InitTypes == Init => TypeInv
  <1> SUFFICES ASSUME Init PROVE TypeInv
    OBVIOUS
  <1>1. WorkersOK
    <2>1. Idle \in [Workers -> Steps] /\ (\A w \in Workers : Idle[w] = "idle")
      BY DEF Idle, Steps
    <2>2. NoJobs \in [Workers -> Task]
      BY NoJobIsTask DEF NoJobs
    <2>3. <<>> \in Seq(TransObj)
      OBVIOUS
    <2> QED BY <2>1, <2>2, <2>3 DEF Init, WorkersOK, Jobs
  <1>2. DataOK
    BY ServerAssumption DEF Init, DataOK
  <1>3. BufferOK
    BY DEF Init, BufferOK
  <1>4. NetOK
    <2>1. Free \in [Conns -> {"free", "open", "gone"}]
      BY DEF Free
    <2>2. <<>> \in Seq(Given)
      OBVIOUS
    <2> QED BY <2>1, <2>2, ServerAssumption DEF Init, NetOK
  <1> QED BY <1>1, <1>2, <1>3, <1>4 DEF TypeInv

LEMMA TypesKept ==
  ASSUME TypeInv, [Next]_vars
  PROVE  TypeInv'
  <1>1. ASSUME NEW w \in Workers, WorkerStep(w)
        PROVE  TypeInv'
    BY <1>1, TakeKeepsTypes, RegQueryKeepsTypes, RegInsertKeepsTypes, RegMaxKeepsTypes,
       LogQueryKeepsTypes, AskQueryKeepsTypes, DbThrowsKeepsTypes, DieKeepsTypes,
       FormatKeepsTypes, RunKeepsTypes
       DEF WorkerStep, DbNull
  <1>2. CASE Crash
    BY <1>2, DieKeepsTypes DEF Crash
  <1>3. CASE UNCHANGED vars
    <2>1. WorkersOK'
      BY <1>3 DEF vars, TypeInv, WorkersOK, Jobs
    <2>2. DataOK' /\ BufferOK' /\ NetOK'
      BY <1>3 DEF vars, TypeInv, DataOK, BufferOK, NetOK, redis, buf, proc
    <2> QED BY <2>1, <2>2 DEF TypeInv
  <1> QED BY <1>1, <1>2, <1>3, NetKeepsTypes, RecvKeepsTypes, SendKeepsTypes,
             RestartKeepsTypes
       DEF Next

LEMMA AlwaysTypeInv == Spec => []TypeInv
  <1> QED BY InitTypes, TypesKept, PTL DEF Spec

LEMMA TypeInvImpliesTypes == TypeInv => TypeOK
  <1> SUFFICES ASSUME TypeInv PROVE TypeOK
    OBVIOUS
  <1>1. tasks \in Seq(Task)
    <2>1. Given \subseteq Task
      BY DEF Given
    <2> QED BY <2>1 DEF TypeInv, NetOK
  <1> QED BY <1>1 DEF TypeInv, WorkersOK, DataOK, BufferOK, NetOK, TypeOK

\* The server's variables keep their types, whatever is in the buffer when a
\* command is run (HandleMsg.cpp, ComManger.cpp, redis_pool.cpp).
THEOREM TypeCorrect == Spec => []TypeOK
  <1> QED BY AlwaysTypeInv, TypeInvImpliesTypes, PTL
-----------------------------------------------------------------------------
(***************************************************************************)
(* What is in Redis.                                                       *)
(***************************************************************************)
BufferIsOwn ==
    ~ raced => /\ \A v, w \in fmt : v = w
               /\ \A w \in fmt : cmdBuf = CmdOf(w)

LoginSteps == {"logSadd", "logHmset"}

LoginsAreOwned ==
    SameProcess => \A w \in Workers :
        pc[w] \in LoginSteps => <<job[w].obj.id, job[w].obj.fd>> \in owner

SessionInv == BufferIsOwn /\ LoginsAreOwned /\ SessionSound

\* What only grows while a process lives.
Forward ==
    /\ Grown
    /\ raced => raced'
    /\ SameProcess' => SameProcess /\ owner \subseteq owner'

\* Steps of a worker that do not touch the buffer or Redis.
Quiet(w) ==
    \/ Take(w) \/ RegQuery(w) \/ RegInsert(w) \/ RegMax(w) \/ LogQuery(w)
    \/ AskQuery(w) \/ DbThrows(w)

LEMMA QuietStep ==
  ASSUME TypeInv, NEW w \in Workers, Quiet(w)
  PROVE  /\ w \notin fmt /\ Others(w) /\ UNCHANGED <<buf, redis, proc>>
         /\ Grown /\ owner \subseteq owner' /\ Forward
  <1>1. w \notin fmt
    BY DEF Quiet, Take, RegQuery, RegInsert, RegMax, LogQuery, AskQuery, DbThrows, TypeInv,
           BufferOK, DbSteps, RedisSteps
  <1>2. Others(w)
    BY TakeKeepsTypes, RegQueryKeepsTypes, RegInsertKeepsTypes, RegMaxKeepsTypes,
       LogQueryKeepsTypes, AskQueryKeepsTypes, DbThrowsKeepsTypes DEF Quiet, Others
  <1>3. UNCHANGED <<buf, redis, proc>> /\ owner \subseteq owner'
    BY DEF Quiet, Take, RegQuery, RegInsert, RegMax, LogQuery, AskQuery, DbThrows
  <1>4. Grown
    <2>1. CASE RegInsert(w)
      BY <2>1, RegInsertKeepsTypes
    <2>2. CASE ~ RegInsert(w)
      BY <2>2, UnchangedIsGrown
         DEF Quiet, Take, RegQuery, RegMax, LogQuery, AskQuery, DbThrows
    <2> QED BY <2>1, <2>2
  <1>5. Forward
    BY <1>3, <1>4 DEF Forward, SameProcess, buf, proc
  <1> QED BY <1>1, <1>2, <1>3, <1>4, <1>5

LEMMA SameCmd ==
  ASSUME NEW v, UNCHANGED <<pc[v], job[v]>>
  PROVE  CmdOf(v)' = CmdOf(v)
  BY DEF CmdOf

LEMMA BufferStaysOwn ==
  ASSUME BufferOK, BufferIsOwn, UNCHANGED buf, \A v \in fmt : UNCHANGED <<pc[v], job[v]>>
  PROVE  BufferIsOwn'
  BY SameCmd DEF BufferIsOwn, buf

LEMMA OwnedStays ==
  ASSUME LoginsAreOwned, Forward,
         NEW W \in SUBSET Workers, \A v \in Workers \ W : UNCHANGED <<pc[v], job[v]>>,
         SameProcess => \A w \in W :
             pc'[w] \in LoginSteps => <<job'[w].obj.id, job'[w].obj.fd>> \in owner'
  PROVE  LoginsAreOwned'
  BY DEF LoginsAreOwned, Forward

LEMMA StoredStaysSound ==
  ASSUME SessionSound, Forward, UNCHANGED talker
  PROVE  SessionSound'
  BY DEF SessionSound, Forward, Grown

\* A worker comes to store a login only with the password of its row.
LEMMA QuietChecksPasswords ==
  ASSUME TypeInv, NEW w \in Workers, Quiet(w)
  PROVE  pc'[w] \in LoginSteps => <<job'[w].obj.id, job'[w].obj.fd>> \in owner'
  <1>1. CASE LogQuery(w)
    <2> DEFINE o == job[w].obj
               i == FirstId(o.name)
               p == [o EXCEPT !.id = i, !.fd = job[w].fd]
    <2>1. pc[w] = "logQuery" /\ pc \in [Workers -> Steps] /\ job \in [Workers -> Task]
      BY <1>1 DEF LogQuery, TypeInv, WorkersOK
    <2>2. \/ /\ IdsOf(o.name) # {} /\ Goto(w, "logSadd", p)
             /\ <<i, job[w].fd>> \in owner'
          \/ pc' = [pc EXCEPT ![w] = "idle"]
      BY <1>1 DEF LogQuery, PasswordEqual, Answer
    <2>3. IdsOf(o.name) # {} => p.id = i /\ p.fd = job[w].fd
      BY <2>1, LoginFindsItsRow
    <2>4. CASE IdsOf(o.name) # {} /\ Goto(w, "logSadd", p) /\ <<i, job[w].fd>> \in owner'
      <3> HIDE DEF p, i
      <3>1. job'[w].obj = p
        BY <2>1, <2>4 DEF Goto
      <3> QED BY <2>3, <2>4, <3>1
    <2>5. CASE pc' = [pc EXCEPT ![w] = "idle"]
      BY <2>1, <2>5 DEF LoginSteps
    <2> QED BY <2>2, <2>4, <2>5
  <1>2. CASE Take(w)
    <2>1. Head(tasks) \in Given
      BY <1>2, QueuePops DEF Take, TypeInv, NetOK
    <2>2. FirstStep[Head(tasks).obj.type] \notin LoginSteps
      BY <2>1 DEF Given, FirstStep, LoginSteps
    <2>3. pc'[w] = FirstStep[Head(tasks).obj.type]
      BY <1>2 DEF Take, TypeInv, WorkersOK
    <2> QED BY <2>2, <2>3
  <1>3. CASE ~ LogQuery(w) /\ ~ Take(w)
    <2>1. PICK step \in {"idle", "regInsert", "regMax", "askIs"} : pc' = [pc EXCEPT ![w] = step]
      BY <1>3 DEF Quiet, RegQuery, RegInsert, RegMax, AskQuery, DbThrows, Goto, Answer, Return
    <2> QED BY <2>1 DEF TypeInv, WorkersOK, LoginSteps
  <1> QED BY <1>1, <1>2, <1>3

LEMMA QuietKeepsSession ==
  ASSUME TypeInv, SessionInv, NEW w \in Workers, Quiet(w)
  PROVE  SessionInv'
  <1>1. /\ w \notin fmt /\ Others(w) /\ UNCHANGED <<buf, redis, proc>> /\ Forward
    BY QuietStep
  <1>2. BufferIsOwn'
    BY <1>1, BufferStaysOwn DEF TypeInv, BufferOK, Others, SessionInv
  <1>3. pc'[w] \in LoginSteps => <<job'[w].obj.id, job'[w].obj.fd>> \in owner'
    BY QuietChecksPasswords
  <1>4. LoginsAreOwned'
    <2>1. {w} \in SUBSET Workers /\ (\A v \in Workers \ {w} : UNCHANGED <<pc[v], job[v]>>)
      BY <1>1 DEF Others
    <2>2. \A v \in {w} : pc'[v] \in LoginSteps => <<job'[v].obj.id, job'[v].obj.fd>> \in owner'
      BY <1>3
    <2> QED BY <1>1, <2>1, <2>2, OwnedStays DEF SessionInv
  <1>5. SessionSound'
    BY <1>1, StoredStaysSound DEF SessionInv, redis
  <1> QED BY <1>2, <1>4, <1>5 DEF SessionInv

\* A command is formatted: the only one, or the two workers raced.
LEMMA FormatKeepsSession ==
  ASSUME TypeInv, SessionInv, NEW w \in Workers, Format(w)
  PROVE  SessionInv'
  <1>1. UNCHANGED <<pc, job, userinfo, talker, owner, up, restarts>> /\ (raced => raced')
    BY DEF Format, redis, proc
  <1>2. Forward
    BY <1>1, UnchangedIsGrown DEF Forward, SameProcess
  <1>3. BufferIsOwn'
    <2>1. CASE fmt = {}
      <3>1. fmt' = {w} /\ cmdBuf' = CmdOf(w)
        BY <2>1 DEF Format
      <3>2. CmdOf(w)' = CmdOf(w)
        BY <1>1, SameCmd
      <3> QED BY <3>1, <3>2 DEF BufferIsOwn
    <2>2. CASE fmt # {}
      BY <2>2 DEF Format, BufferIsOwn
    <2> QED BY <2>1, <2>2
  <1>4. LoginsAreOwned'
    BY <1>1, <1>2 DEF SessionInv, LoginsAreOwned, Forward
  <1>5. SessionSound'
    BY <1>1, <1>2, StoredStaysSound DEF SessionInv
  <1> QED BY <1>3, <1>4, <1>5 DEF SessionInv

\* Only the second step of a login stores a hash.
LEMMA OnlyLoginsStore ==
  ASSUME NEW w, pc[w] \in RedisSteps, CmdOf(w).op = "HMSET"
  PROVE  pc[w] = "logHmset" /\ CmdOf(w) = HmsetCmd(job[w].obj)
  <1>1. pc[w] = "logHmset"
    BY DEF CmdOf, SaddCmd, HmsetCmd, IsMemberCmd, FdCmd, NameCmd, Cmd, RedisSteps
  <1> QED BY <1>1 DEF CmdOf

\* What a worker runs without a race is its own command.
LEMMA RunsItsOwn ==
  ASSUME TypeInv, SessionInv, NEW w \in Workers, Run(w), ~ raced
  PROVE  cmdBuf = CmdOf(w) /\ pc[w] \in RedisSteps /\ fmt' = {}
  BY DEF Run, TypeInv, BufferOK, SessionInv, BufferIsOwn

LEMMA RunForward ==
  ASSUME NEW w, Run(w)
  PROVE  /\ UNCHANGED <<userinfo, owner, up, restarts, raced, cmdBuf>>
         /\ Forward
  BY UnchangedIsGrown DEF Run, Forward, SameProcess, proc

LEMMA RunKeepsSession ==
  ASSUME TypeInv, SessionInv, NEW w \in Workers, Run(w)
  PROVE  SessionInv'
  <1> DEFINE o == job[w].obj
  <1>1. UNCHANGED <<userinfo, owner, up, restarts, raced, cmdBuf>> /\ Forward
    BY RunForward
  <1>2. BufferIsOwn'
    BY <1>1, RunsItsOwn DEF BufferIsOwn
  <1>3. pc[w] \in RedisSteps /\ pc \in [Workers -> Steps] /\ job \in [Workers -> Task]
    BY DEF Run, TypeInv, BufferOK, WorkersOK
  <1>4. LoginsAreOwned'
    <2>1. pc'[w] \in LoginSteps => pc[w] = "logSadd" /\ job'[w].obj = o
      <3>1. PICK r : Use(w, r)
        BY DEF Run
      <3>2. \/ pc[w] = "logSadd" /\ Goto(w, "logHmset", o)
            \/ \E step \in {"idle", "askFd", "accFd", "accName"} : pc' = [pc EXCEPT ![w] = step]
        BY <3>1 DEF Use, LogReply, OnlineReply, RouteReply, Goto, Answer, Return
      <3> HIDE DEF o
      <3>3. CASE pc[w] = "logSadd" /\ Goto(w, "logHmset", o)
        BY <1>3, <3>3 DEF Goto
      <3>4. CASE \E step \in {"idle", "askFd", "accFd", "accName"} : pc' = [pc EXCEPT ![w] = step]
        BY <1>3, <3>4 DEF LoginSteps
      <3> QED BY <3>2, <3>3, <3>4
    <2>2. SameProcess /\ pc[w] = "logSadd" => <<o.id, o.fd>> \in owner'
      BY <1>1 DEF SessionInv, LoginsAreOwned, LoginSteps
    <2>3. {w} \in SUBSET Workers /\ (\A v \in Workers \ {w} : UNCHANGED <<pc[v], job[v]>>)
      BY RunKeepsTypes DEF Others
    <2>4. SameProcess => \A v \in {w} :
             pc'[v] \in LoginSteps => <<job'[v].obj.id, job'[v].obj.fd>> \in owner'
      BY <2>1, <2>2
    <2> QED BY <1>1, <2>3, <2>4, OwnedStays DEF SessionInv
  <1>5. SessionSound'
    <2>1. CASE UNCHANGED talker
      BY <1>1, <2>1, StoredStaysSound DEF SessionInv
    <2>2. CASE ~ raced /\ talker' # talker
      <3>1. /\ cmdBuf.op = "HMSET"
            /\ talker' = [talker EXCEPT ![cmdBuf.id] = [name |-> cmdBuf.name, fd |-> cmdBuf.fd]]
        BY <2>2 DEF Run, Apply, redis
      <3>2. pc[w] = "logHmset" /\ cmdBuf = HmsetCmd(o)
        BY <2>2, <3>1, RunsItsOwn, OnlyLoginsStore
      <3>3. cmdBuf.id = o.id /\ cmdBuf.name = o.name /\ cmdBuf.fd = o.fd
        BY <3>2 DEF HmsetCmd, Cmd
      <3>4. o.id \in DOMAIN userinfo /\ o.name = userinfo[o.id].name
        <4>1. JobAt("logHmset", job[w], userinfo)
          BY <3>2, JobIsTyped
        <4> QED BY <4>1 DEF JobAt
      <3>5. SameProcess => <<o.id, o.fd>> \in owner
        BY <3>2 DEF SessionInv, LoginsAreOwned, LoginSteps
      <3>6. talker' = [talker EXCEPT ![o.id] = [name |-> o.name, fd |-> o.fd]]
        BY <3>1, <3>3
      <3> HIDE DEF o
      <3>7. ASSUME NEW i \in Ids, talker'[i] # None
            PROVE  /\ i \in DOMAIN userinfo /\ talker'[i].name = userinfo[i].name
                   /\ SameProcess => <<i, talker'[i].fd>> \in owner
        <4>1. CASE i = o.id
          BY <3>4, <3>5, <3>6, <4>1 DEF TypeInv, DataOK
        <4>2. CASE i # o.id
          <5>1. talker'[i] = talker[i]
            BY <3>6, <4>2 DEF TypeInv, DataOK
          <5> QED BY <2>2, <3>7, <5>1 DEF SessionInv, SessionSound
        <4> QED BY <4>1, <4>2
      <3> QED BY <1>1, <3>7 DEF SessionSound, SameProcess
    <2>3. CASE raced
      BY <1>1, <2>3 DEF SessionSound
    <2> QED BY <2>1, <2>2, <2>3
  <1> QED BY <1>2, <1>4, <1>5 DEF SessionInv

LEMMA DieKeepsSession ==
  ASSUME SessionInv, Die
  PROVE  SessionInv'
  <1>1. /\ fmt' = {} /\ ~ SameProcess' /\ UNCHANGED <<userinfo, talker, raced>>
    BY DEF Die, SameProcess, redis
  <1>2. BufferIsOwn' /\ LoginsAreOwned'
    BY <1>1 DEF BufferIsOwn, LoginsAreOwned
  <1>3. SessionSound'
    BY <1>1 DEF SessionInv, SessionSound
  <1> QED BY <1>2, <1>3 DEF SessionInv

LEMMA NetKeepsSession ==
  ASSUME TypeInv, SessionInv,
         UNCHANGED <<pc, job, userinfo, redis, buf, owner>>, SameProcess' => SameProcess
  PROVE  SessionInv'
  <1>1. Forward
    BY UnchangedIsGrown DEF Forward, buf
  <1>2. BufferIsOwn'
    BY BufferStaysOwn DEF TypeInv, SessionInv
  <1>3. LoginsAreOwned'
    BY DEF SessionInv, LoginsAreOwned
  <1>4. SessionSound'
    BY <1>1, StoredStaysSound DEF SessionInv, redis
  <1> QED BY <1>2, <1>3, <1>4 DEF SessionInv

\* The actions that concern neither the workers nor Redis.
Elsewhere ==
    \/ \E f \in Conns : Accept(f) \/ PeerClose(f)
    \/ \E f \in Conns, o \in Requests : Recv(f, o)
    \/ Restart
    \/ UNCHANGED vars

LEMMA ElsewhereIsQuiet ==
  ASSUME TypeInv, Elsewhere
  PROVE  /\ UNCHANGED <<pc, job, userinfo, redis, buf, owner, out>>
         /\ SameProcess' => SameProcess
  <1>1. ASSUME NEW f \in Conns, Accept(f) \/ PeerClose(f) \/ \E o \in Requests : Recv(f, o)
        PROVE  UNCHANGED <<pc, job, userinfo, redis, buf, owner, out, proc>>
    BY <1>1 DEF Accept, PeerClose, Recv
  <1>2. CASE Restart
    <2>1. restarts \in Nat /\ restarts' = restarts + 1
      BY <1>2 DEF Restart, TypeInv, NetOK
    <2>2. UNCHANGED <<pc, job, userinfo, redis, buf, owner, out>>
      BY <1>2 DEF Restart
    <2> QED BY <2>1, <2>2 DEF SameProcess
  <1>3. CASE UNCHANGED vars
    BY <1>3 DEF vars, redis, buf, SameProcess
  <1> QED BY <1>1, <1>2, <1>3 DEF Elsewhere, SameProcess, proc

\* A send that does not end the process takes the first answer.
LEMMA SendTakes ==
  ASSUME Send, ~ Die
  PROVE  out # <<>> /\ out' = Tail(out)
         /\ UNCHANGED <<pc, job, userinfo, redis, buf, owner, proc>>
  BY DEF Send

LEMMA Cases ==
  ASSUME [Next]_vars
  PROVE  \/ \E w \in Workers : Quiet(w) \/ Format(w) \/ Run(w)
         \/ Die
         \/ Send /\ ~ Die
         \/ Elsewhere
  BY DEF Next, WorkerStep, Quiet, DbNull, Crash, Elsewhere

LEMMA SessionKept ==
  ASSUME TypeInv, SessionInv, [Next]_vars
  PROVE  SessionInv'
  <1>1. CASE Send /\ ~ Die
    BY <1>1, SendTakes, NetKeepsSession DEF SameProcess, proc
  <1> QED BY <1>1, Cases, QuietKeepsSession, FormatKeepsSession, RunKeepsSession,
             DieKeepsSession, ElsewhereIsQuiet, NetKeepsSession

LEMMA InitSession == Init => SessionInv
  <1> SUFFICES ASSUME Init PROVE SessionInv
    OBVIOUS
  <1>1. \A w \in Workers : pc[w] = "idle"
    BY DEF Init, Idle
  <1>2. \A i \in Ids : talker[i] = None
    BY DEF Init
  <1>3. fmt = {}
    BY DEF Init
  <1> QED BY <1>1, <1>2, <1>3
        DEF SessionInv, BufferIsOwn, LoginsAreOwned, LoginSteps, SessionSound

LEMMA AlwaysSessionInv == Spec => []SessionInv
  <1> QED BY InitSession, SessionKept, AlwaysTypeInv, PTL DEF Spec

\* For any number of workers, users and restarts: unless two workers used
\* cmdBuf together, Redis holds for each id the name of its row and a
\* descriptor on which its password was given (HandleMsg.cpp:231-271,
\* ComManger.cpp:7-25).
THEOREM SessionsAreSound == Spec => []SessionSound
  <1>1. SessionInv => SessionSound
    BY DEF SessionInv
  <1> QED BY AlwaysSessionInv, <1>1, PTL
-----------------------------------------------------------------------------
(***************************************************************************)
(* What is queued.                                                         *)
(***************************************************************************)
LEMMA QueuedPushes ==
  ASSUME out \in Seq(TransObj), NEW a, out' = Append(out, a)
  PROVE  Queued' = Queued \cup {a}
  BY DEF Queued

LEMMA QueuedPops ==
  ASSUME out \in Seq(TransObj), out # <<>>, out' = Tail(out)
  PROVE  Queued' \subseteq Queued
  BY DEF Queued

\* What a quiet step queues goes to its own connection, or is no success.
LEMMA QuietAnswers ==
  ASSUME TypeInv, NEW w \in Workers, Quiet(w)
  PROVE  /\ pc'[w] \notin {"accName", "logHmset"}
         /\ \A a \in Queued' \ Queued :
               /\ a.type \notin {"ASK", "ACC"}
               /\ a.type = "LOGIN_ACCEPT" => a.id \notin Ids /\ a.fd \notin Conns
  <1> DEFINE Harmless(a) ==
               /\ a.type \notin {"ASK", "ACC"}
               /\ a.type = "LOGIN_ACCEPT" => a.id \notin Ids /\ a.fd \notin Conns
  <1>1. pc \in [Workers -> Steps] /\ out \in Seq(TransObj)
    BY DEF TypeInv, WorkersOK
  <1>2. CASE Take(w)
    <2>1. Head(tasks) \in Given
      BY <1>2, QueuePops DEF Take, TypeInv, NetOK
    <2>2. pc'[w] = FirstStep[Head(tasks).obj.type] /\ out' = out
      BY <1>1, <1>2 DEF Take
    <2>3. FirstStep[Head(tasks).obj.type] \notin {"accName", "logHmset"}
      BY <2>1 DEF Given, FirstStep
    <2> QED BY <2>2, <2>3 DEF Queued
  <1>3. CASE ~ Take(w)
    <2>1. pc[w] \in DbSteps
      BY <1>3 DEF Quiet, RegQuery, RegInsert, RegMax, LogQuery, AskQuery, DbThrows, DbSteps
    <2>2. job[w].obj \in TransObj /\ job[w].fd \in Int /\ JobAt(pc[w], job[w], userinfo)
      BY <2>1, JobIsTyped, ServerAssumption DEF DbSteps
    <2>3. pc'[w] \notin {"accName", "logHmset"}
      <3>1. PICK step \in {"idle", "regInsert", "regMax", "logSadd", "askIs"} :
               pc' = [pc EXCEPT ![w] = step]
        BY <1>3 DEF Quiet, RegQuery, RegInsert, RegMax, LogQuery, AskQuery, DbThrows, Goto,
                    Answer, Return
      <3> QED BY <1>1, <3>1
    <2>4. UNCHANGED out \/ \E a : Harmless(a) /\ out' = Append(out, a)
      <3>1. CASE RegQuery(w)
        <4> DEFINE a == Refused([job[w].obj EXCEPT !.fd = job[w].fd], "REG_REFUSE")
        <4>1. UNCHANGED out \/ out' = Append(out, a)
          BY <3>1 DEF RegQuery, Answer, Goto
        <4>2. [job[w].obj EXCEPT !.fd = job[w].fd] \in TransObj
          BY <2>2 DEF TransObj
        <4>3. a.type = "REG_REFUSE"
          BY <4>2, RefusedIsTyped DEF Types
        <4> QED BY <4>1, <4>3
      <3>2. CASE RegInsert(w)
        <4> DEFINE a == Refused(job[w].obj, "REG_REFUSE")
        <4>1. UNCHANGED out \/ out' = Append(out, a)
          BY <3>2 DEF RegInsert, Answer, Goto
        <4>2. a.type = "REG_REFUSE"
          BY <2>2, RefusedIsTyped DEF Types
        <4> QED BY <4>1, <4>2
      <3>3. CASE RegMax(w)
        <4> DEFINE a == [SetMsg(job[w].obj, Text) EXCEPT !.type = "REG_ACCEPT", !.id = MaxUserId]
        <4>1. out' = Append(out, a)
          BY <3>3 DEF RegMax, Answer
        <4>2. a.type = "REG_ACCEPT"
          BY <2>2, SetMsgIsTyped DEF TransObj
        <4> QED BY <4>1, <4>2
      <3>4. CASE LogQuery(w)
        <4> DEFINE a == [job[w].obj EXCEPT !.type = "LOGIN_ACCEPT"]
                   b == Refused(job[w].obj, "LOGIN_REFUSE")
        <4>1. UNCHANGED out \/ out' = Append(out, a) \/ out' = Append(out, b)
          BY <3>4 DEF LogQuery, Answer, Goto
        <4>2. b.type = "LOGIN_REFUSE"
          BY <2>2, RefusedIsTyped DEF Types
        <4>3. a.type = "LOGIN_ACCEPT" /\ a.id = job[w].obj.id /\ a.fd = job[w].obj.fd
          BY <2>2 DEF TransObj
        <4>4. job[w].obj.id \notin Ids /\ job[w].obj.fd \notin Conns
          BY <2>2, <3>4, IdsAreInts, ServerAssumption DEF LogQuery, JobAt
        <4> HIDE DEF a, b
        <4> QED BY <4>1, <4>2, <4>3, <4>4
      <3>5. CASE AskQuery(w)
        <4> DEFINE a == [job[w].obj EXCEPT !.type = "ASK_NOT_FOUND", !.fd = job[w].fd]
        <4>1. UNCHANGED out \/ out' = Append(out, a)
          BY <3>5 DEF AskQuery, Answer, Goto
        <4>2. a.type = "ASK_NOT_FOUND"
          BY <2>2 DEF TransObj
        <4> QED BY <4>1, <4>2
      <3>6. CASE DbThrows(w)
        BY <3>6 DEF DbThrows, Return
      <3> QED BY <1>3, <3>1, <3>2, <3>3, <3>4, <3>5, <3>6 DEF Quiet
    <2>5. CASE UNCHANGED out
      BY <2>3, <2>5 DEF Queued
    <2>6. ASSUME NEW a, Harmless(a), out' = Append(out, a)
          PROVE  \A b \in Queued' \ Queued : Harmless(b)
      BY <1>1, <2>6, QueuedPushes
    <2> QED BY <2>3, <2>4, <2>5, <2>6
  <1> QED BY <1>2, <1>3

\* The answers of Redis to the command a worker formatted.
LEMMA ReplyToFd ==
  ASSUME NEW w, pc[w] \in {"askFd", "accFd"}
  PROVE  Reply(CmdOf(w)) = IF Known(job[w].obj.rid) THEN talker[job[w].obj.rid].fd ELSE None
  <1>1. CmdOf(w) = FdCmd(job[w].obj.rid)
    BY DEF CmdOf
  <1>2. FdCmd(job[w].obj.rid).op = "HGET fd" /\ FdCmd(job[w].obj.rid).id = job[w].obj.rid
    BY DEF FdCmd, Cmd
  <1> HIDE DEF FdCmd
  <1> QED BY <1>1, <1>2 DEF Reply

\* A descriptor that a worker looked up is one of the receiver's, or none.
LEMMA LookedUpIsOwned ==
  ASSUME TypeInv, SessionInv, NEW w \in Workers, Run(w), ~ raced, SameProcess,
         pc[w] \in {"askFd", "accFd"}, NEW r \in {Reply(cmdBuf), Lost}, FdOf(r) \in Conns
  PROVE  <<job[w].obj.rid, FdOf(r)>> \in owner
  <1> DEFINE rid == job[w].obj.rid
  <1>1. FdOf(r) > 2
    BY ServerAssumption
  <1>2. r # Lost /\ r \in Int /\ FdOf(r) = r
    BY <1>1 DEF FdOf
  <1>3. r = IF Known(rid) THEN talker[rid].fd ELSE None
    BY <1>2, RunsItsOwn, ReplyToFd
  <1>4. Known(rid) /\ r = talker[rid].fd
    BY <1>2, <1>3, ServerAssumption
  <1> QED BY <1>2, <1>4 DEF Known, SessionInv, SessionSound

Owned(o, known) == o.fd \in Conns => <<o.rid, o.fd>> \in known

RoutesAreOwned ==
    ~ raced /\ SameProcess => \A w \in Workers :
        pc[w] = "accName" => Owned(job[w].obj, owner)

RouteInv == RoutesAreOwned /\ RoutedToReceiver

LEMMA RoutesStay ==
  ASSUME RouteInv, Forward,
         NEW W \in SUBSET Workers, \A v \in Workers \ W : UNCHANGED <<pc[v], job[v]>>,
         ~ raced' /\ SameProcess' =>
            /\ \A w \in W : pc'[w] = "accName" => Owned(job'[w].obj, owner')
            /\ \A a \in Queued' \ Queued : a.type \in {"ASK", "ACC"} => Owned(a, owner')
  PROVE  RouteInv'
  <1> SUFFICES ASSUME ~ raced', SameProcess'
               PROVE  /\ \A w \in Workers : pc'[w] = "accName" => Owned(job'[w].obj, owner')
                      /\ \A a \in Queued' : a.type \in {"ASK", "ACC"} => Owned(a, owner')
    BY DEF RouteInv, RoutesAreOwned, RoutedToReceiver, Owned
  <1>1. ~ raced /\ SameProcess /\ owner \subseteq owner'
    BY DEF Forward
  <1>2. ASSUME NEW w \in Workers, pc'[w] = "accName"
        PROVE  Owned(job'[w].obj, owner')
    BY <1>1, <1>2 DEF RouteInv, RoutesAreOwned, Owned
  <1>3. ASSUME NEW a \in Queued', a.type \in {"ASK", "ACC"}
        PROVE  Owned(a, owner')
    BY <1>1, <1>3 DEF RouteInv, RoutedToReceiver, Owned
  <1> QED BY <1>2, <1>3

\* The request as a reply to "HGET fd" routes it.
Routed(w, r) == [job[w].obj EXCEPT !.fd = FdOf(r)]

LEMMA UsedJob ==
  ASSUME TypeInv, NEW w \in Workers, NEW r, Use(w, r)
  PROVE  /\ pc'[w] = "accName" => pc[w] = "accFd" /\ job'[w].obj = Routed(w, r)
         /\ pc'[w] = "logHmset" => pc[w] = "logSadd" /\ job'[w].obj = job[w].obj
        /\ pc'[w] # "logSadd"
  <1>1. pc \in [Workers -> Steps] /\ job \in [Workers -> Task]
    BY DEF TypeInv, WorkersOK
  <1>2. \/ pc[w] = "logSadd" /\ Goto(w, "logHmset", job[w].obj)
        \/ pc[w] = "accFd" /\ Goto(w, "accName", Routed(w, r))
        \/ \E step \in {"idle", "askFd", "accFd"} : pc' = [pc EXCEPT ![w] = step]
    BY DEF Use, LogReply, OnlineReply, RouteReply, Routed, Goto, Answer, Return
  <1>3. CASE pc[w] = "logSadd" /\ Goto(w, "logHmset", job[w].obj)
    BY <1>1, <1>3 DEF Goto
  <1>4. CASE pc[w] = "accFd" /\ Goto(w, "accName", Routed(w, r))
    BY <1>1, <1>4 DEF Goto
  <1>5. CASE \E step \in {"idle", "askFd", "accFd"} : pc' = [pc EXCEPT ![w] = step]
    BY <1>1, <1>5
  <1> QED BY <1>2, <1>3, <1>4, <1>5

\* What a worker may answer.
RoutedAnswer(w, r, a) == pc[w] = "askFd" /\ a = Routed(w, r)

NamedAnswer(w, a) == pc[w] = "accName" /\ a.fd = job[w].obj.fd /\ a.rid = job[w].obj.rid
                       /\ a.type = "ACC" /\ a.id = job[w].obj.id

LoginAnswer(w, r, a) == a.type = "LOGIN_ACCEPT"
                          /\ a.id = job[w].obj.id /\ a.fd = job[w].obj.fd
                          /\ (pc[w] = "logHmset" \/ (pc[w] = "logSadd" /\ r = Lost))

LEMMA UsedAnswer ==
  ASSUME TypeInv, NEW w \in Workers, pc[w] \in RedisSteps, NEW r, Use(w, r)
  PROVE  UNCHANGED out \/ \E a : /\ out' = Append(out, a)
                                /\ \/ RoutedAnswer(w, r, a) \/ NamedAnswer(w, a)
                                   \/ LoginAnswer(w, r, a) \/ a.type = "TALK"
  <1> DEFINE o == job[w].obj
             accepted == [o EXCEPT !.type = "LOGIN_ACCEPT"]
             named == IF r = Lost THEN o ELSE SetMsg(o, IF r \in Names THEN r ELSE Text)
  <1>1. o \in TransObj /\ JobAt(pc[w], job[w], userinfo)
    BY JobIsTyped DEF RedisSteps
  <1>2. accepted.type = "LOGIN_ACCEPT" /\ accepted.id = o.id /\ accepted.fd = o.fd
    BY <1>1 DEF TransObj
  <1>3. named.fd = o.fd /\ named.rid = o.rid /\ named.type = o.type /\ named.id = o.id
    BY <1>1, SetMsgIsTyped
  <1>4. /\ pc[w] = "talkIs" => o.type = "TALK"
        /\ pc[w] = "accName" => o.type = "ACC"
    BY <1>1 DEF JobAt, TypeAt
  <1>5. \/ UNCHANGED out
        \/ Answer(w, accepted) /\ (pc[w] = "logHmset" \/ (pc[w] = "logSadd" /\ r = Lost))
        \/ Answer(w, o) /\ pc[w] = "talkIs"
        \/ Answer(w, Routed(w, r)) /\ pc[w] = "askFd"
        \/ Answer(w, named) /\ pc[w] = "accName"
    BY DEF Use, LogReply, OnlineReply, RouteReply, Routed, Goto, Return
  <1>6. CASE Answer(w, accepted) /\ (pc[w] = "logHmset" \/ (pc[w] = "logSadd" /\ r = Lost))
    <2>1. LoginAnswer(w, r, accepted)
      BY <1>2, <1>6 DEF LoginAnswer
    <2> HIDE DEF accepted
    <2> QED BY <1>6, <2>1 DEF Answer
  <1>7. CASE Answer(w, o) /\ pc[w] = "talkIs"
    BY <1>4, <1>7 DEF Answer
  <1>8. CASE Answer(w, Routed(w, r)) /\ pc[w] = "askFd"
    <2>1. RoutedAnswer(w, r, Routed(w, r))
      BY <1>8 DEF RoutedAnswer
    <2> QED BY <1>8, <2>1 DEF Answer
  <1>9. CASE Answer(w, named) /\ pc[w] = "accName"
    <2>1. NamedAnswer(w, named)
      BY <1>3, <1>4, <1>9 DEF NamedAnswer
    <2> HIDE DEF named
    <2> QED BY <1>9, <2>1 DEF Answer
  <1> QED BY <1>5, <1>6, <1>7, <1>8, <1>9

LEMMA RunKeepsRoutes ==
  ASSUME TypeInv, SessionInv, RouteInv, NEW w \in Workers, Run(w)
  PROVE  RouteInv'
  <1> DEFINE o == job[w].obj
  <1>1. UNCHANGED <<userinfo, owner, up, restarts, raced, cmdBuf>> /\ Forward
    BY RunForward
  <1>2. {w} \in SUBSET Workers /\ (\A v \in Workers \ {w} : UNCHANGED <<pc[v], job[v]>>)
    BY RunKeepsTypes DEF Others
  <1>3. ASSUME ~ raced, SameProcess
        PROVE  /\ pc'[w] = "accName" => Owned(job'[w].obj, owner)
               /\ \A a \in Queued' \ Queued : a.type \in {"ASK", "ACC"} => Owned(a, owner)
    <2>1. PICK r \in {Reply(cmdBuf), Lost} : Use(w, r)
      BY DEF Run
    <2>2. pc[w] \in RedisSteps /\ out \in Seq(TransObj) /\ o \in TransObj
      BY RunsItsOwn, JobIsTyped, <1>3 DEF TypeInv, WorkersOK, RedisSteps
    <2>3. Routed(w, r).fd = FdOf(r) /\ Routed(w, r).rid = o.rid
      BY <2>2 DEF Routed, TransObj
    <2>4. pc[w] \in {"askFd", "accFd"} => Owned(Routed(w, r), owner)
      BY <1>3, <2>3, LookedUpIsOwned DEF Owned
    <2>5. pc'[w] = "accName" => Owned(job'[w].obj, owner)
      BY <2>1, <2>4, UsedJob
    <2>6. ASSUME NEW a, out' = Append(out, a),
                 \/ RoutedAnswer(w, r, a) \/ NamedAnswer(w, a)
                 \/ LoginAnswer(w, r, a) \/ a.type = "TALK",
                 a.type \in {"ASK", "ACC"}
          PROVE  Owned(a, owner)
      <3>1. CASE RoutedAnswer(w, r, a)
        BY <2>4, <3>1 DEF RoutedAnswer
      <3>2. CASE NamedAnswer(w, a)
        BY <1>3, <3>2 DEF NamedAnswer, RouteInv, RoutesAreOwned, Owned
      <3> QED BY <2>6, <3>1, <3>2 DEF LoginAnswer
    <2>7. CASE UNCHANGED out
      BY <2>5, <2>7 DEF Queued
    <2>8. ASSUME NEW a, out' = Append(out, a),
                 \/ RoutedAnswer(w, r, a) \/ NamedAnswer(w, a)
                 \/ LoginAnswer(w, r, a) \/ a.type = "TALK"
          PROVE  \A b \in Queued' \ Queued : b.type \in {"ASK", "ACC"} => Owned(b, owner)
      BY <2>2, <2>6, <2>8, QueuedPushes
    <2> QED BY <2>1, <2>2, <2>5, <2>7, <2>8, UsedAnswer
  <1>4. ~ raced' /\ SameProcess' =>
           /\ \A v \in {w} : pc'[v] = "accName" => Owned(job'[v].obj, owner')
           /\ \A a \in Queued' \ Queued : a.type \in {"ASK", "ACC"} => Owned(a, owner')
    BY <1>1, <1>3 DEF Forward
  <1> QED BY <1>1, <1>2, <1>4, RoutesStay

\* A step after which no worker and no answer is new.
LEMMA NothingRouted ==
  ASSUME RouteInv, Forward, UNCHANGED <<pc, job>>, Queued' \subseteq Queued
  PROVE  RouteInv'
  <1>1. Workers \in SUBSET Workers /\ {} \in SUBSET Workers
    OBVIOUS
  <1> QED BY <1>1, RoutesStay

LEMMA RoutesKept ==
  ASSUME TypeInv, SessionInv, RouteInv, [Next]_vars
  PROVE  RouteInv'
  <1>1. ASSUME NEW w \in Workers, Quiet(w)
        PROVE  RouteInv'
    <2>1. {w} \in SUBSET Workers /\ (\A v \in Workers \ {w} : UNCHANGED <<pc[v], job[v]>>)
          /\ Forward
      BY <1>1, QuietStep DEF Others
    <2>2. /\ \A v \in {w} : pc'[v] # "accName"
          /\ \A a \in Queued' \ Queued : a.type \notin {"ASK", "ACC"}
      BY <1>1, QuietAnswers
    <2> QED BY <2>1, <2>2, RoutesStay
  <1>2. ASSUME NEW w \in Workers, Format(w)
        PROVE  RouteInv'
    <2>1. UNCHANGED <<pc, job, out, userinfo, owner, up, restarts>> /\ (raced => raced')
      BY <1>2 DEF Format, proc
    <2>2. Forward /\ Queued' \subseteq Queued
      BY <2>1, UnchangedIsGrown DEF Forward, SameProcess, Queued
    <2> QED BY <2>1, <2>2, NothingRouted
  <1>3. ASSUME NEW w \in Workers, Run(w)
        PROVE  RouteInv'
    BY <1>3, RunKeepsRoutes
  <1>4. CASE Die
    <2>1. ~ SameProcess'
      BY <1>4 DEF Die, SameProcess
    <2> QED BY <2>1 DEF RouteInv, RoutesAreOwned, RoutedToReceiver
  <1>5. CASE Send /\ ~ Die
    <2>1. UNCHANGED <<pc, job, userinfo, buf, owner, proc>>
      BY <1>5, SendTakes
    <2>2. Forward
      BY <2>1, UnchangedIsGrown DEF Forward, SameProcess, buf, proc
    <2>3. Queued' \subseteq Queued
      BY <1>5, SendTakes, QueuedPops DEF TypeInv, WorkersOK
    <2> QED BY <2>1, <2>2, <2>3, NothingRouted
  <1>6. CASE Elsewhere
    <2>1. UNCHANGED <<pc, job, userinfo, buf, owner, out>> /\ (SameProcess' => SameProcess)
      BY <1>6, ElsewhereIsQuiet
    <2>2. Forward /\ Queued' \subseteq Queued
      BY <2>1, UnchangedIsGrown DEF Forward, buf, Queued
    <2> QED BY <2>1, <2>2, NothingRouted
  <1> QED BY <1>1, <1>2, <1>3, <1>4, <1>5, <1>6, Cases

\* For any number of workers, users and connections: unless two workers used
\* cmdBuf together or the server was started again, a friend request and its
\* acceptance are queued for a connection on which their receiver gave the
\* password (HandleMsg.cpp:343-363, 408-425).
THEOREM RequestsReachTheirReceiver == Spec => []RoutedToReceiver
  <1>1. Init => RouteInv
    <2> SUFFICES ASSUME Init PROVE RouteInv
      OBVIOUS
    <2>1. \A w \in Workers : pc[w] = "idle"
      BY DEF Init, Idle
    <2>2. Queued = {}
      BY DEF Init, Queued
    <2> QED BY <2>1, <2>2 DEF RouteInv, RoutesAreOwned, RoutedToReceiver
  <1>2. RouteInv => RoutedToReceiver
    BY DEF RouteInv
  <1> QED BY <1>1, <1>2, RoutesKept, AlwaysTypeInv, AlwaysSessionInv, PTL DEF Spec
-----------------------------------------------------------------------------
\* Users that are told that they are logged in.
Online(i, ids, hashes) == i \in ids /\ hashes[i] # None

OnlineInv ==
    ~ raced /\ ~ RedisFaults =>
        /\ \A w \in Workers : pc[w] = "logHmset" => job[w].obj.id \in session
        /\ \A a \in Queued : a.type = "LOGIN_ACCEPT" /\ a.id \in Ids
                                => Online(a.id, session, talker)

\* Nobody is forgotten by Redis.
Kept ==
    /\ session \subseteq session'
    /\ \A i \in Ids : talker[i] # None => talker'[i] # None

LEMMA OnlineStays ==
  ASSUME OnlineInv, raced => raced', Kept,
         NEW W \in SUBSET Workers, \A v \in Workers \ W : UNCHANGED <<pc[v], job[v]>>,
         ~ raced' /\ ~ RedisFaults =>
            /\ \A w \in W : pc'[w] = "logHmset" => job'[w].obj.id \in session'
            /\ \A a \in Queued' \ Queued : a.type = "LOGIN_ACCEPT" /\ a.id \in Ids
                                         => Online(a.id, session', talker')
  PROVE  OnlineInv'
  <1> SUFFICES ASSUME ~ raced', ~ RedisFaults
               PROVE  /\ \A w \in Workers : pc'[w] = "logHmset" => job'[w].obj.id \in session'
                      /\ \A a \in Queued' : a.type = "LOGIN_ACCEPT" /\ a.id \in Ids
                                              => Online(a.id, session', talker')
    BY DEF OnlineInv, Online
  <1>1. ASSUME NEW w \in Workers, pc'[w] = "logHmset"
        PROVE  job'[w].obj.id \in session'
    BY <1>1 DEF OnlineInv, Kept
  <1>2. ASSUME NEW a \in Queued', a.type = "LOGIN_ACCEPT", a.id \in Ids
        PROVE  Online(a.id, session', talker')
    BY <1>2 DEF OnlineInv, Online, Kept
  <1> QED BY <1>1, <1>2

LEMMA RunKeeps ==
  ASSUME TypeInv, NEW w \in Workers, Run(w)
  PROVE  Kept
  <1>1. cmdBuf \in Cmds /\ talker \in [Ids -> Talker \cup {None}]
    BY DEF Run, TypeInv, BufferOK, DataOK
  <1>2. CASE UNCHANGED redis
    BY <1>2 DEF Kept, redis
  <1>3. CASE Apply(cmdBuf)
    <2>1. [name |-> cmdBuf.name, fd |-> cmdBuf.fd] \in Talker
      BY <1>1 DEF Cmds, Talker
    <2>2. [name |-> cmdBuf.name, fd |-> cmdBuf.fd] # None
      BY <2>1, ServerAssumption
    <2>3. session \subseteq session'
      BY <1>3 DEF Apply
    <2>4. \A i \in Ids : talker[i] # None => talker'[i] # None
      BY <1>1, <1>3, <2>2 DEF Apply
    <2> QED BY <2>3, <2>4 DEF Kept
  <1> QED BY <1>2, <1>3 DEF Run

LEMMA RunKeepsOnline ==
  ASSUME TypeInv, SessionInv, OnlineInv, NEW w \in Workers, Run(w)
  PROVE  OnlineInv'
  <1> DEFINE o == job[w].obj
  <1>1. Kept /\ raced' = raced
    BY RunKeeps, RunForward
  <1>2. {w} \in SUBSET Workers /\ (\A v \in Workers \ {w} : UNCHANGED <<pc[v], job[v]>>)
    BY RunKeepsTypes DEF Others
  <1>3. ASSUME ~ raced, ~ RedisFaults
        PROVE  /\ pc'[w] = "logHmset" => job'[w].obj.id \in session'
               /\ \A a \in Queued' \ Queued : a.type = "LOGIN_ACCEPT" /\ a.id \in Ids
                                            => Online(a.id, session', talker')
    <2> DEFINE r == Reply(CmdOf(w))
    <2>1. Apply(CmdOf(w)) /\ Use(w, r) /\ pc[w] \in RedisSteps
      BY <1>3, RunsItsOwn DEF Run
    <2>2. out \in Seq(TransObj) /\ o \in TransObj /\ JobAt(pc[w], job[w], userinfo)
      BY <2>1, JobIsTyped DEF TypeInv, WorkersOK, RedisSteps
    <2>3. pc[w] = "logSadd" => r # Lost /\ o.id \in session'
      <3> SUFFICES ASSUME pc[w] = "logSadd" PROVE r # Lost /\ o.id \in session'
        OBVIOUS
      <3>1. CmdOf(w) = SaddCmd(o)
        BY DEF CmdOf
      <3>2. CmdOf(w).op = "SADD" /\ CmdOf(w).id = o.id
        BY <3>1 DEF SaddCmd, Cmd
      <3>3. r \in {0, 1}
        BY <3>2 DEF Reply
      <3>4. r # Lost
        BY <3>3, ServerAssumption
      <3> HIDE DEF o
      <3>5. o.id \in session'
        BY <2>1, <3>2 DEF Apply
      <3> QED BY <3>4, <3>5
    <2>4. pc[w] = "logHmset" => o.id \in session' /\ (o.id \in Ids => talker'[o.id] # None)
      <3> SUFFICES ASSUME pc[w] = "logHmset"
                   PROVE  o.id \in session' /\ (o.id \in Ids => talker'[o.id] # None)
        OBVIOUS
      <3>1. CmdOf(w) = HmsetCmd(o)
        BY DEF CmdOf
      <3>2. CmdOf(w).op = "HMSET" /\ CmdOf(w).id = o.id /\ CmdOf(w).name = o.name
            /\ CmdOf(w).fd = o.fd
        BY <3>1 DEF HmsetCmd, Cmd
      <3>3. [name |-> o.name, fd |-> o.fd] # None
        <4>1. [name |-> o.name, fd |-> o.fd] \in Talker
          BY <2>2 DEF TransObj, Talker
        <4> QED BY <4>1, ServerAssumption
      <3>4. o.id \in session'
        BY <1>1, <1>3 DEF OnlineInv, Kept
      <3> HIDE DEF o
      <3>5. talker' = [talker EXCEPT ![o.id] = [name |-> o.name, fd |-> o.fd]]
        BY <2>1, <3>2 DEF Apply
      <3>6. o.id \in Ids => talker'[o.id] # None
        BY <3>3, <3>5 DEF TypeInv, DataOK
      <3> QED BY <3>4, <3>6
    <2> HIDE DEF r
    <2>5. pc'[w] = "logHmset" => job'[w].obj.id \in session'
      BY <2>1, <2>3, UsedJob
    <2>6. ASSUME NEW a, out' = Append(out, a),
                 \/ RoutedAnswer(w, r, a) \/ NamedAnswer(w, a)
                 \/ LoginAnswer(w, r, a) \/ a.type = "TALK"
          PROVE  \A b \in Queued' \ Queued : b.type = "LOGIN_ACCEPT" /\ b.id \in Ids
                                            => Online(b.id, session', talker')
      <3>1. ASSUME a.type = "LOGIN_ACCEPT", a.id \in Ids
            PROVE  Online(a.id, session', talker')
        <4>1. CASE RoutedAnswer(w, r, a)
          <5>1. a.type = o.type /\ o.type = "ASK"
            BY <2>2, <4>1 DEF RoutedAnswer, Routed, TransObj, JobAt, TypeAt
          <5> QED BY <3>1, <5>1
        <4>2. CASE LoginAnswer(w, r, a)
          BY <2>3, <2>4, <3>1, <4>2 DEF LoginAnswer, Online
        <4> QED BY <2>6, <3>1, <4>1, <4>2 DEF NamedAnswer
      <3> QED BY <2>2, <2>6, <3>1, QueuedPushes
    <2>7. CASE UNCHANGED out
      BY <2>5, <2>7 DEF Queued
    <2> QED BY <2>1, <2>5, <2>6, <2>7, UsedAnswer
  <1>4. ~ raced' /\ ~ RedisFaults =>
            /\ \A v \in {w} : pc'[v] = "logHmset" => job'[v].obj.id \in session'
            /\ \A a \in Queued' \ Queued : a.type = "LOGIN_ACCEPT" /\ a.id \in Ids
                                         => Online(a.id, session', talker')
    BY <1>1, <1>3
  <1> QED BY <1>1, <1>2, <1>4, OnlineStays

\* A step after which no worker and no answer is new, and Redis is as it was.
LEMMA NothingStored ==
  ASSUME OnlineInv, raced => raced', UNCHANGED <<pc, job, redis>>, Queued' \subseteq Queued
  PROVE  OnlineInv'
  <1>1. {} \in SUBSET Workers
    OBVIOUS
  <1>2. Kept
    BY DEF Kept, redis
  <1> QED BY <1>1, <1>2, OnlineStays

LEMMA OnlineKept ==
  ASSUME TypeInv, SessionInv, OnlineInv, [Next]_vars
  PROVE  OnlineInv'
  <1>1. ASSUME NEW w \in Workers, Quiet(w)
        PROVE  OnlineInv'
    <2>1. /\ {w} \in SUBSET Workers /\ (\A v \in Workers \ {w} : UNCHANGED <<pc[v], job[v]>>)
          /\ UNCHANGED <<raced, session, talker>>
      BY <1>1, QuietStep DEF Others, buf, redis
    <2>2. /\ \A v \in {w} : pc'[v] # "logHmset"
          /\ \A a \in Queued' \ Queued : a.type = "LOGIN_ACCEPT" => a.id \notin Ids
      BY <1>1, QuietAnswers
    <2>3. Kept
      BY <2>1 DEF Kept
    <2> QED BY <2>1, <2>2, <2>3, OnlineStays
  <1>2. ASSUME NEW w \in Workers, Format(w)
        PROVE  OnlineInv'
    <2>1. UNCHANGED <<pc, job, redis, out>> /\ (raced => raced')
      BY <1>2 DEF Format
    <2>2. Queued' \subseteq Queued
      BY <2>1 DEF Queued
    <2> QED BY <2>1, <2>2, NothingStored
  <1>3. ASSUME NEW w \in Workers, Run(w)
        PROVE  OnlineInv'
    BY <1>3, RunKeepsOnline
  <1>4. CASE Die
    <2>1. UNCHANGED <<raced, session, talker>> /\ (\A w \in Workers : pc'[w] = "idle")
      BY <1>4 DEF Die, Idle, redis
    <2>2. Queued' = {}
      BY <1>4 DEF Die, Queued
    <2> QED BY <2>1, <2>2 DEF OnlineInv
  <1>5. CASE Send /\ ~ Die
    <2>1. UNCHANGED <<pc, job, redis, raced>>
      BY <1>5, SendTakes DEF buf
    <2>2. Queued' \subseteq Queued
      BY <1>5, SendTakes, QueuedPops DEF TypeInv, WorkersOK
    <2> QED BY <2>1, <2>2, NothingStored
  <1>6. CASE Elsewhere
    <2>1. UNCHANGED <<pc, job, redis, out, raced>>
      BY <1>6, ElsewhereIsQuiet DEF buf
    <2>2. Queued' \subseteq Queued
      BY <2>1 DEF Queued
    <2> QED BY <2>1, <2>2, NothingStored
  <1> QED BY <1>1, <1>2, <1>3, <1>4, <1>5, <1>6, Cases

\* For any number of workers, users, crashes and restarts: if Redis answers and
\* no two workers used cmdBuf together, whoever is told that the login
\* succeeded is in userSession and has a hash (HandleMsg.cpp:271-274).
THEOREM AcceptedAreOnline == Spec => []AcceptedIsOnline
  <1>1. Init => OnlineInv
    <2> SUFFICES ASSUME Init PROVE OnlineInv
      OBVIOUS
    <2>1. \A w \in Workers : pc[w] = "idle"
      BY DEF Init, Idle
    <2>2. Queued = {}
      BY DEF Init, Queued
    <2> QED BY <2>1, <2>2 DEF OnlineInv
  <1>2. OnlineInv => AcceptedIsOnline
    BY DEF OnlineInv, AcceptedIsOnline, Online
  <1> QED BY <1>1, <1>2, OnlineKept, AlwaysTypeInv, AlwaysSessionInv, PTL DEF Spec
-----------------------------------------------------------------------------
(***************************************************************************)
(* With one worker the statements of a registration are not interleaved.   *)
(***************************************************************************)
OneWorker == \A v, w \in Workers : v = w

\* Only the insertion changes the table, and only these steps lead to the next
\* one of a registration.
LEMMA OutsideRegistration ==
  ASSUME TypeInv, NEW w \in Workers,
         \/ Quiet(w) /\ ~ RegQuery(w) /\ ~ RegInsert(w)
         \/ Format(w) \/ Run(w)
  PROVE  UNCHANGED userinfo /\ pc'[w] \notin {"regInsert", "regMax"}
  <1>1. pc \in [Workers -> Steps]
    BY DEF TypeInv, WorkersOK
  <1>2. CASE Take(w)
    <2>1. Head(tasks) \in Given
      BY <1>2, QueuePops DEF Take, TypeInv, NetOK
    <2>2. FirstStep[Head(tasks).obj.type] \notin {"regInsert", "regMax"}
      BY <2>1 DEF Given, FirstStep
    <2> QED BY <1>1, <1>2, <2>2 DEF Take
  <1>3. CASE RegMax(w) \/ LogQuery(w) \/ AskQuery(w) \/ DbThrows(w)
    <2>1. PICK step \in {"idle", "logSadd", "askIs"} : pc' = [pc EXCEPT ![w] = step]
      BY <1>3 DEF RegMax, LogQuery, AskQuery, DbThrows, Goto, Answer, Return
    <2>2. UNCHANGED userinfo
      BY <1>3 DEF RegMax, LogQuery, AskQuery, DbThrows
    <2> QED BY <1>1, <2>1, <2>2
  <1>4. CASE Format(w)
    BY <1>4 DEF Format, TypeInv, BufferOK, RedisSteps
  <1>5. CASE Run(w)
    <2>1. PICK r : Use(w, r)
      BY <1>5 DEF Run
    <2>2. PICK step \in {"idle", "logHmset", "askFd", "accFd", "accName"} :
             pc' = [pc EXCEPT ![w] = step]
      BY <2>1 DEF Use, LogReply, OnlineReply, RouteReply, Goto, Answer, Return
    <2> QED BY <1>1, <1>5, <2>2, RunForward
  <1> QED BY <1>2, <1>3, <1>4, <1>5 DEF Quiet

\* What a worker that is inserting looked up is still so.
NamesInv ==
    /\ UniqueNames
    /\ \A w \in Workers : pc[w] = "regInsert" => IdsOf(job[w].obj.name) = {}

LEMMA NamesStay ==
  ASSUME NamesInv, UNCHANGED userinfo,
         \A w \in Workers : pc'[w] = "regInsert" => UNCHANGED <<pc[w], job[w]>>
  PROVE  NamesInv'
  BY DEF NamesInv, UniqueNames, IdsOf

LEMMA NamesKept ==
  ASSUME OneWorker, TypeInv, NamesInv, [Next]_vars
  PROVE  NamesInv'
  <1>1. ASSUME NEW w \in Workers, RegQuery(w)
        PROVE  NamesInv'
    <2> DEFINE o == [job[w].obj EXCEPT !.fd = job[w].fd]
    <2>1. pc \in [Workers -> Steps] /\ job \in [Workers -> Task] /\ job[w].obj \in TransObj
      BY DEF TypeInv, WorkersOK, Task
    <2>2. o.name = job[w].obj.name
      BY <2>1 DEF TransObj
    <2>3. UNCHANGED userinfo
      BY <1>1 DEF RegQuery
    <2>4. \/ pc' = [pc EXCEPT ![w] = "idle"]
          \/ Goto(w, "regInsert", o) /\ IdsOf(o.name) = {}
      BY <1>1 DEF RegQuery, NameTaken, Answer
    <2> HIDE DEF o
    <2>5. pc'[w] = "regInsert" => job'[w].obj = o /\ IdsOf(o.name) = {}
      BY <2>1, <2>4 DEF Goto
    <2>6. UniqueNames'
      BY <2>3 DEF NamesInv, UniqueNames
    <2>7. pc'[w] = "regInsert" =>
             {i \in DOMAIN userinfo' : userinfo'[i].name = job'[w].obj.name} = {}
      BY <2>3, <2>5 DEF IdsOf
    <2>8. \A v \in Workers : v = w
      BY DEF OneWorker
    <2> QED BY <2>6, <2>7, <2>8 DEF NamesInv, IdsOf
  <1>2. ASSUME NEW w \in Workers, RegInsert(w)
        PROVE  NamesInv'
    <2> DEFINE o == job[w].obj
               row == [name |-> o.name, fd |-> o.fd, pwd |-> o.pwd]
    <2>1. pc \in [Workers -> Steps] /\ userinfo \in Seq(Rows)
      BY DEF TypeInv, WorkersOK, DataOK
    <2>2. IdsOf(o.name) = {} /\ UniqueNames
      BY <1>2 DEF RegInsert, NamesInv
    <2>3. UNCHANGED userinfo \/ userinfo' = Append(userinfo, row)
      BY <1>2 DEF RegInsert
    <2>4. row.name = o.name
      OBVIOUS
    <2>10. row \in Rows
      <3>1. o \in TransObj /\ JobAt("regInsert", job[w], userinfo)
        BY <1>2, JobIsTyped DEF RegInsert
      <3> QED BY <3>1 DEF JobAt, Named, TransObj, Rows
    <2> HIDE DEF row, o
    <2>5. ASSUME userinfo' = Append(userinfo, row) PROVE UniqueNames'
      <3>1. \A i \in DOMAIN userinfo : userinfo[i].name # row.name
        BY <2>2, <2>4 DEF IdsOf
      <3>2. /\ DOMAIN userinfo' = DOMAIN userinfo \cup {Len(userinfo) + 1}
            /\ userinfo'[Len(userinfo) + 1] = row
            /\ \A i \in DOMAIN userinfo : userinfo'[i] = userinfo[i]
        BY <2>1, <2>5, <2>10
      <3> QED BY <2>2, <3>1, <3>2 DEF UniqueNames
    <2>6. UniqueNames'
      BY <2>2, <2>3, <2>5 DEF UniqueNames
    <2>8. \A v \in Workers : v = w
      BY DEF OneWorker
    <2>7. PICK step \in {"idle", "regMax"} : pc' = [pc EXCEPT ![w] = step]
      BY <1>2 DEF RegInsert, Goto, Answer
    <2>9. pc'[w] # "regInsert"
      BY <2>1, <2>7
    <2> QED BY <2>6, <2>8, <2>9 DEF NamesInv
  <1>3. ASSUME NEW w \in Workers,
               \/ Quiet(w) /\ ~ RegQuery(w) /\ ~ RegInsert(w)
               \/ Format(w) \/ Run(w)
        PROVE  NamesInv'
    <2>1. UNCHANGED userinfo /\ pc'[w] # "regInsert"
      BY <1>3, OutsideRegistration
    <2> QED BY <2>1, NamesStay DEF OneWorker
  <1>4. CASE Die
    <2>1. UNCHANGED userinfo /\ \A w \in Workers : pc'[w] = "idle"
      BY <1>4 DEF Die, Idle
    <2> QED BY <2>1, NamesStay
  <1>5. CASE (Send /\ ~ Die) \/ Elsewhere
    <2>1. UNCHANGED <<pc, job, userinfo>>
      BY <1>5, SendTakes, ElsewhereIsQuiet
    <2> QED BY <2>1, NamesStay
  <1> QED BY <1>1, <1>2, <1>3, <1>4, <1>5, Cases

\* With one worker, and a table of distinct names to start with, a name is
\* registered once, whatever statement fails or process ends (HandleMsg.cpp:
\* 131-139).
THEOREM OneWorkerKeepsNamesUnique ==
  ASSUME OneWorker,
         \A i, j \in DOMAIN InitUsers : InitUsers[i].name = InitUsers[j].name => i = j
  PROVE  Spec => []UniqueNames
  <1>1. Init => NamesInv
    BY DEF Init, Idle, NamesInv, UniqueNames
  <1>2. TypeInv /\ NamesInv /\ [Next]_vars => NamesInv'
    BY NamesKept
  <1>3. NamesInv => UniqueNames
    BY DEF NamesInv
  <1> QED BY <1>1, <1>2, <1>3, AlwaysTypeInv, PTL DEF Spec

\* Nothing but the last step of a registration says that it succeeded.
LEMMA NobodyElseAccepts ==
  ASSUME TypeInv, NEW w \in Workers,
         (Quiet(w) /\ ~ RegMax(w)) \/ Format(w) \/ Run(w)
  PROVE  \A a \in Queued' \ Queued : a.type # "REG_ACCEPT"
  <1>1. out \in Seq(TransObj)
    BY DEF TypeInv, WorkersOK
  <1>2. CASE UNCHANGED out
    BY <1>2 DEF Queued
  <1>3. ASSUME NEW a, a.type # "REG_ACCEPT", out' = Append(out, a)
        PROVE  \A b \in Queued' \ Queued : b.type # "REG_ACCEPT"
    BY <1>1, <1>3, QueuedPushes
  <1>4. CASE RegQuery(w) \/ RegInsert(w) \/ LogQuery(w) \/ AskQuery(w)
    <2> DEFINE o == job[w].obj
               p == [o EXCEPT !.fd = job[w].fd]
    <2>1. pc[w] # "idle"
      BY <1>4 DEF RegQuery, RegInsert, LogQuery, AskQuery
    <2>2. o \in TransObj /\ p \in TransObj
      BY <2>1, JobIsTyped, ServerAssumption DEF TransObj
    <2>3. /\ Refused(o, "REG_REFUSE").type = "REG_REFUSE"
          /\ Refused(p, "REG_REFUSE").type = "REG_REFUSE"
          /\ Refused(o, "LOGIN_REFUSE").type = "LOGIN_REFUSE"
      BY <2>2, RefusedIsTyped DEF Types
    <2>4. /\ [o EXCEPT !.type = "LOGIN_ACCEPT"].type = "LOGIN_ACCEPT"
          /\ [o EXCEPT !.type = "ASK_NOT_FOUND", !.fd = job[w].fd].type = "ASK_NOT_FOUND"
      BY <2>2 DEF TransObj
    <2>5. \/ UNCHANGED out
          \/ out' = Append(out, Refused(p, "REG_REFUSE"))
          \/ out' = Append(out, Refused(o, "REG_REFUSE"))
          \/ out' = Append(out, Refused(o, "LOGIN_REFUSE"))
          \/ out' = Append(out, [o EXCEPT !.type = "LOGIN_ACCEPT"])
          \/ out' = Append(out, [o EXCEPT !.type = "ASK_NOT_FOUND", !.fd = job[w].fd])
      BY <1>4 DEF RegQuery, RegInsert, LogQuery, AskQuery, Answer, Goto
    <2> QED BY <1>2, <1>3, <2>3, <2>4, <2>5
  <1>5. CASE Take(w) \/ DbThrows(w) \/ Format(w)
    BY <1>2, <1>5 DEF Take, DbThrows, Return, Format
  <1>6. CASE Run(w)
    <2>1. PICK r : Use(w, r)
      BY <1>6 DEF Run
    <2>2. pc[w] # "idle"
      BY <1>6 DEF Run, TypeInv, BufferOK, RedisSteps
    <2>3. job[w].obj \in TransObj /\ JobAt(pc[w], job[w], userinfo)
      BY <2>2, JobIsTyped
    <2>4. ASSUME NEW a, out' = Append(out, a),
                 \/ RoutedAnswer(w, r, a) \/ NamedAnswer(w, a)
                 \/ LoginAnswer(w, r, a) \/ a.type = "TALK"
          PROVE  a.type # "REG_ACCEPT"
      <3>1. CASE RoutedAnswer(w, r, a)
        BY <2>3, <3>1 DEF RoutedAnswer, Routed, TransObj, JobAt, TypeAt
      <3> QED BY <2>4, <3>1 DEF NamedAnswer, LoginAnswer
    <2> QED BY <1>2, <1>3, <1>6, <2>1, <2>4, UsedAnswer DEF Run, TypeInv, BufferOK
  <1> QED BY <1>4, <1>5, <1>6 DEF Quiet

\* The last row is that of the registration that is about to ask for its id.
OwnInv ==
    /\ RegisteredIdIsOwn
    /\ \A w \in Workers : pc[w] = "regMax" =>
          /\ Len(userinfo) \in DOMAIN userinfo
          /\ userinfo[Len(userinfo)].fd = job[w].obj.fd

\* A row stays what it is.
LEMMA IdsStayOwn ==
  ASSUME RegisteredIdIsOwn, Grown, \A a \in Queued' \ Queued : a.type # "REG_ACCEPT"
  PROVE  RegisteredIdIsOwn'
  BY DEF RegisteredIdIsOwn, Grown

LEMMA OwnStays ==
  ASSUME OwnInv, UNCHANGED userinfo,
         \A w \in Workers : pc'[w] = "regMax" => UNCHANGED <<pc[w], job[w]>>,
         \A a \in Queued' \ Queued : a.type # "REG_ACCEPT"
  PROVE  OwnInv'
  <1>1. RegisteredIdIsOwn'
    BY IdsStayOwn, UnchangedIsGrown DEF OwnInv
  <1> QED BY <1>1 DEF OwnInv

LEMMA OwnKept ==
  ASSUME OneWorker, TypeInv, OwnInv, [Next]_vars
  PROVE  OwnInv'
  <1>0. pc \in [Workers -> Steps] /\ job \in [Workers -> Task] /\ out \in Seq(TransObj)
    BY DEF TypeInv, WorkersOK
  <1>1. ASSUME NEW w \in Workers, RegQuery(w)
        PROVE  OwnInv'
    <2>1. PICK step \in {"idle", "regInsert"} : pc' = [pc EXCEPT ![w] = step]
      BY <1>1 DEF RegQuery, Goto, Answer
    <2>2. \A v \in Workers : pc'[v] # "regMax"
      BY <1>0, <2>1 DEF OneWorker
    <2>3. UNCHANGED userinfo /\ ~ RegMax(w)
      BY <1>1 DEF RegQuery, RegMax
    <2>4. \A a \in Queued' \ Queued : a.type # "REG_ACCEPT"
      BY <1>1, <2>3, NobodyElseAccepts DEF Quiet
    <2> QED BY <2>2, <2>3, <2>4, OwnStays
  <1>2. ASSUME NEW w \in Workers, RegInsert(w)
        PROVE  OwnInv'
    <2> DEFINE o == job[w].obj
               row == [name |-> o.name, fd |-> o.fd, pwd |-> o.pwd]
    <2>1. /\ \A v \in Workers : v = w
          /\ ~ RegMax(w)
      BY <1>2 DEF OneWorker, RegInsert, RegMax
    <2>2. RegisteredIdIsOwn'
      <3>1. \A a \in Queued' \ Queued : a.type # "REG_ACCEPT"
        BY <1>2, <2>1, NobodyElseAccepts DEF Quiet
      <3> QED BY <1>2, <3>1, RegInsertKeepsTypes, IdsStayOwn DEF OwnInv
    <2>3. \/ Goto(w, "regMax", o) /\ userinfo' = Append(userinfo, row)
          \/ pc' = [pc EXCEPT ![w] = "idle"]
      BY <1>2 DEF RegInsert, Answer
    <2>4. row.fd = o.fd /\ row \in Rows /\ userinfo \in Seq(Rows)
      <3>1. o \in TransObj /\ JobAt("regInsert", job[w], userinfo)
        BY <1>2, JobIsTyped DEF RegInsert
      <3> QED BY <3>1 DEF JobAt, Named, TransObj, Rows, TypeInv, DataOK
    <2> HIDE DEF row, o
    <2>5. ASSUME pc'[w] = "regMax"
          PROVE  /\ Len(userinfo') \in DOMAIN userinfo'
                 /\ userinfo'[Len(userinfo')].fd = job'[w].obj.fd
      <3>1. Goto(w, "regMax", o) /\ userinfo' = Append(userinfo, row)
        BY <1>0, <2>3, <2>5
      <3>2. job'[w].obj = o
        BY <1>0, <3>1 DEF Goto
      <3>3. Len(userinfo') \in DOMAIN userinfo' /\ userinfo'[Len(userinfo')] = row
        BY <2>4, <3>1
      <3> QED BY <2>4, <3>2, <3>3
    <2> QED BY <2>1, <2>2, <2>5 DEF OwnInv
  <1>3. ASSUME NEW w \in Workers, RegMax(w)
        PROVE  OwnInv'
    <2> DEFINE o == job[w].obj
               a == [SetMsg(o, Text) EXCEPT !.type = "REG_ACCEPT", !.id = MaxUserId]
    <2>1. o \in TransObj
      BY <1>3, JobIsTyped DEF RegMax
    <2>2. a.id = Len(userinfo) /\ a.fd = o.fd
      BY <2>1, SetMsgIsTyped DEF TransObj, MaxUserId
    <2>3. /\ Len(userinfo) \in DOMAIN userinfo
          /\ userinfo[Len(userinfo)].fd = o.fd
      BY <1>3 DEF RegMax, OwnInv
    <2>4. pc' = [pc EXCEPT ![w] = "idle"] /\ out' = Append(out, a) /\ UNCHANGED userinfo
      BY <1>3 DEF RegMax, Answer
    <2> HIDE DEF a, o
    <2>5. Queued' = Queued \cup {a}
      BY <1>0, <2>4, QueuedPushes
    <2>6. RegisteredIdIsOwn'
      BY <2>2, <2>3, <2>4, <2>5 DEF OwnInv, RegisteredIdIsOwn
    <2>7. \A v \in Workers : pc'[v] # "regMax"
      BY <1>0, <2>4 DEF OneWorker
    <2> QED BY <2>6, <2>7 DEF OwnInv
  <1>4. ASSUME NEW w \in Workers,
               \/ Quiet(w) /\ ~ RegQuery(w) /\ ~ RegInsert(w) /\ ~ RegMax(w)
               \/ Format(w) \/ Run(w)
        PROVE  OwnInv'
    <2>1. UNCHANGED userinfo /\ pc'[w] # "regMax"
      BY <1>4, OutsideRegistration
    <2>2. \A v \in Workers : pc'[v] # "regMax"
      BY <2>1 DEF OneWorker
    <2>3. \A a \in Queued' \ Queued : a.type # "REG_ACCEPT"
      BY <1>4, NobodyElseAccepts
    <2> QED BY <2>1, <2>2, <2>3, OwnStays
  <1>5. CASE Die
    <2>1. UNCHANGED userinfo /\ (\A w \in Workers : pc'[w] = "idle") /\ Queued' = {}
      BY <1>5 DEF Die, Idle, Queued
    <2> QED BY <2>1, OwnStays
  <1>6. CASE Send /\ ~ Die
    <2>1. UNCHANGED <<pc, job, userinfo>> /\ Queued' \subseteq Queued
      BY <1>0, <1>6, SendTakes, QueuedPops
    <2> QED BY <2>1, OwnStays
  <1>7. CASE Elsewhere
    <2>1. UNCHANGED <<pc, job, userinfo, out>>
      BY <1>7, ElsewhereIsQuiet
    <2>2. Queued' = Queued
      BY <2>1 DEF Queued
    <2> QED BY <2>1, <2>2, OwnStays
  <1> QED BY <1>1, <1>2, <1>3, <1>4, <1>5, <1>6, <1>7, Cases

\* With one worker a client that registered gets the id of a row it registered,
\* whatever statement fails or process ends (HandleMsg.cpp:142-157).
THEOREM OneWorkerKeepsIdsOwn ==
  ASSUME OneWorker
  PROVE  Spec => []RegisteredIdIsOwn
  <1>1. Init => OwnInv
    <2>1. Init => Queued = {} /\ \A w \in Workers : pc[w] = "idle"
      BY DEF Init, Idle, Queued
    <2> QED BY <2>1 DEF OwnInv, RegisteredIdIsOwn
  <1>2. TypeInv /\ OwnInv /\ [Next]_vars => OwnInv'
    BY OwnKept
  <1>3. OwnInv => RegisteredIdIsOwn
    BY DEF OwnInv
  <1> QED BY <1>1, <1>2, <1>3, AlwaysTypeInv, PTL DEF Spec
-----------------------------------------------------------------------------
(***************************************************************************)
(* What a client may be sent.                                              *)
(***************************************************************************)
\* What is queued for a connection: the acceptance of a registration or login
\* carries an id, a friend request the id -1 and a name, and the acceptance of a
\* friend an id.
Usable(o) ==
    o.fd \in Conns =>
        /\ o.type \in {"REG_ACCEPT", "LOGIN_ACCEPT", "ACC"} => o.id \in Ids
        /\ o.type = "ASK" => o.id = -1 /\ o.name \in Names

AnswersAreUsable == \A o \in Queued : Usable(o)

LEMMA RowsAreIds ==
  ASSUME DataOK
  PROVE  /\ DOMAIN userinfo \subseteq Ids
         /\ 1 \in DOMAIN userinfo => Len(userinfo) \in Ids
  BY ServerAssumption DEF DataOK, Ids

LEMMA QuietAnswersAreUsable ==
  ASSUME TypeInv, NEW w \in Workers, Quiet(w)
  PROVE  \A a \in Queued' \ Queued : Usable(a)
  <1>1. CASE RegMax(w)
    <2> DEFINE o == job[w].obj
               a == [SetMsg(o, Text) EXCEPT !.type = "REG_ACCEPT", !.id = MaxUserId]
    <2>1. o \in TransObj /\ 1 \in DOMAIN userinfo
      BY <1>1, JobIsTyped DEF RegMax, JobAt
    <2>2. a.type = "REG_ACCEPT" /\ a.id = Len(userinfo)
      BY <2>1, SetMsgIsTyped DEF TransObj, MaxUserId
    <2>3. Len(userinfo) \in Ids
      BY <2>1, RowsAreIds DEF TypeInv
    <2>4. out \in Seq(TransObj) /\ out' = Append(out, a)
      BY <1>1 DEF RegMax, Answer, TypeInv, WorkersOK
    <2> HIDE DEF a
    <2> QED BY <2>2, <2>3, <2>4, QueuedPushes DEF Usable
  <1>2. CASE ~ RegMax(w)
    BY <1>2, QuietAnswers, NobodyElseAccepts DEF Usable
  <1> QED BY <1>1, <1>2

LEMMA RunAnswersAreUsable ==
  ASSUME TypeInv, NEW w \in Workers, Run(w)
  PROVE  \A a \in Queued' \ Queued : Usable(a)
  <1> DEFINE o == job[w].obj
  <1>1. PICK r : Use(w, r)
    BY DEF Run
  <1>2. pc[w] \in RedisSteps /\ out \in Seq(TransObj)
    BY DEF Run, TypeInv, BufferOK, WorkersOK
  <1>3. o \in TransObj /\ JobAt(pc[w], job[w], userinfo)
    BY <1>2, JobIsTyped DEF RedisSteps
  <1>4. ASSUME NEW a, \/ RoutedAnswer(w, r, a) \/ NamedAnswer(w, a)
                      \/ LoginAnswer(w, r, a) \/ a.type = "TALK"
        PROVE  Usable(a)
    <2>1. CASE RoutedAnswer(w, r, a)
      <3>1. a.type = "ASK" /\ a.id = -1 /\ a.name \in Names
        BY <1>3, <2>1 DEF RoutedAnswer, Routed, TransObj, JobAt, TypeAt
      <3> QED BY <3>1 DEF Usable
    <2>2. CASE NamedAnswer(w, a)
      <3>1. a.type = "ACC" /\ a.id \in Ids
        BY <1>3, <2>2 DEF NamedAnswer, JobAt
      <3> QED BY <3>1 DEF Usable
    <2>3. CASE LoginAnswer(w, r, a)
      <3>1. a.type = "LOGIN_ACCEPT" /\ a.id \in DOMAIN userinfo
        BY <1>3, <2>3 DEF LoginAnswer, JobAt
      <3> QED BY <3>1, RowsAreIds DEF Usable, TypeInv
    <2> QED BY <1>4, <2>1, <2>2, <2>3 DEF Usable
  <1>5. CASE UNCHANGED out
    BY <1>5 DEF Queued
  <1>6. ASSUME NEW a, out' = Append(out, a), Usable(a)
        PROVE  \A b \in Queued' \ Queued : Usable(b)
    BY <1>2, <1>6, QueuedPushes
  <1> QED BY <1>1, <1>2, <1>4, <1>5, <1>6, UsedAnswer

\* For any workers, users, faults and restarts, and even when two workers used
\* cmdBuf together, a client is sent only what its handlers are modelled for in
\* GameClient (Received there; HandleMsg.cpp:153-157, 251-271, 343-363, 408-425).
THEOREM AnswersStayUsable == Spec => []AnswersAreUsable
  <1>1. Init => AnswersAreUsable
    BY DEF Init, Queued, AnswersAreUsable
  <1>2. ASSUME TypeInv, AnswersAreUsable, [Next]_vars
        PROVE  AnswersAreUsable'
    <2>1. ASSUME NEW w \in Workers, Quiet(w) \/ Run(w)
          PROVE  AnswersAreUsable'
      BY <1>2, <2>1, QuietAnswersAreUsable, RunAnswersAreUsable DEF AnswersAreUsable, Usable
    <2>2. ASSUME NEW w \in Workers, Format(w)
          PROVE  AnswersAreUsable'
      BY <1>2, <2>2 DEF Format, Queued, AnswersAreUsable, Usable
    <2>3. CASE Die
      BY <2>3 DEF Die, Queued, AnswersAreUsable
    <2>4. CASE Send /\ ~ Die
      BY <1>2, <2>4, SendTakes, QueuedPops DEF TypeInv, WorkersOK, AnswersAreUsable, Usable
    <2>5. CASE Elsewhere
      BY <1>2, <2>5, ElsewhereIsQuiet DEF Queued, AnswersAreUsable, Usable
    <2> QED BY <1>2, <2>1, <2>2, <2>3, <2>4, <2>5, Cases
  <1> QED BY <1>1, <1>2, AlwaysTypeInv, PTL DEF Spec
-----------------------------------------------------------------------------
(***************************************************************************)
(* One worker cannot meet another in cmdBuf.                               *)
(***************************************************************************)
LEMMA OneWorkerKeepsApart ==
  ASSUME OneWorker, TypeInv, ~ raced, [Next]_vars
  PROVE  ~ raced'
  <1>1. ASSUME NEW w \in Workers, Format(w)
        PROVE  ~ raced'
    <2>1. fmt = {}
      BY <1>1 DEF Format, OneWorker, TypeInv, BufferOK
    <2> QED BY <1>1, <2>1 DEF Format
  <1>2. ASSUME NEW w \in Workers, Quiet(w) \/ Run(w)
        PROVE  raced' = raced
    BY <1>2, QuietStep DEF Run, buf
  <1>3. Die => raced' = raced
    BY DEF Die
  <1>4. (Send /\ ~ Die) \/ Elsewhere => raced' = raced
    BY SendTakes, ElsewhereIsQuiet DEF buf
  <1> QED BY <1>1, <1>2, <1>3, <1>4, Cases

\* With one worker a user who is told that the login succeeded is in userSession
\* and has a hash, through any crashes, if Redis answers: what goes wrong with
\* two is the buffer they share (ComManger.cpp:7-25, redis_pool.cpp).
THEOREM OneWorkerRecordsLogins ==
  ASSUME OneWorker, ~ RedisFaults
  PROVE  Spec => []LoginIsRecorded
  <1>1. Init => ~ raced
    BY DEF Init
  <1>2. TypeInv /\ ~ raced /\ [Next]_vars => ~ raced'
    BY OneWorkerKeepsApart
  <1>3. AcceptedIsOnline /\ ~ raced => LoginIsRecorded
    BY DEF AcceptedIsOnline, LoginIsRecorded
  <1> QED BY <1>1, <1>2, <1>3, AlwaysTypeInv, AcceptedAreOnline, PTL DEF Spec
-----------------------------------------------------------------------------
(***************************************************************************)
(* A registration is on its way until it is answered.                      *)
(***************************************************************************)
RegSteps == {"regQuery", "regInsert", "regMax"}
RegAnswers == {"REG_ACCEPT", "REG_REFUSE"}

InTasks(f) == \E t \in Elements(tasks) : t.obj.type = "REG" /\ t.fd = f
InHand(f) == \E w \in Workers : pc[w] \in RegSteps /\ job[w].fd = f
InOut(f) == \E o \in Queued : o.type \in RegAnswers /\ o.fd = f
OnItsWay(f) == InTasks(f) \/ InHand(f) \/ InOut(f)

\* Whoever waits for the answer to a registration has it in the queue of the
\* pool, with a worker, or in the send queue; and still has the connection
\* (HandleMsg.cpp:109-172, ThreadPool.h, SeqToBin.h).
RegistrationHeld == \A f \in waiting : conn[f] = "open" /\ OnItsWay(f)

\* After its first step a registration answers to its own connection.
RegistrationAddressed ==
    \A w \in Workers : pc[w] \in {"regInsert", "regMax"} => job[w].obj.fd = job[w].fd

HeldInv == RegistrationHeld /\ RegistrationAddressed

LEMMA WorkerHolds ==
  ASSUME TypeInv, HeldInv, NEW w \in Workers, Others(w), UNCHANGED <<conn, waiting>>,
         Queued \subseteq Queued',
         \A f : InTasks(f) => InTasks(f)' \/ InHand(f)',
         \A f : pc[w] \in RegSteps /\ job[w].fd = f => OnItsWay(f)',
         pc'[w] \in {"regInsert", "regMax"} => job'[w].obj.fd = job'[w].fd
  PROVE  HeldInv'
  <1>1. RegistrationAddressed'
    BY DEF HeldInv, RegistrationAddressed, Others
  <1>2. ASSUME NEW f, InHand(f) PROVE OnItsWay(f)'
    <2>1. PICK v \in Workers : pc[v] \in RegSteps /\ job[v].fd = f
      BY <1>2 DEF InHand
    <2>2. CASE v = w
      BY <2>1, <2>2
    <2>3. CASE v # w
      BY <2>1, <2>3 DEF Others, OnItsWay, InHand
    <2> QED BY <2>2, <2>3
  <1>3. ASSUME NEW f, InOut(f) PROVE OnItsWay(f)'
    BY <1>3 DEF InOut, OnItsWay
  <1>4. \A f \in waiting : OnItsWay(f)'
    BY <1>2, <1>3 DEF HeldInv, RegistrationHeld, OnItsWay
  <1>5. RegistrationHeld'
    BY <1>4 DEF HeldInv, RegistrationHeld
  <1> QED BY <1>1, <1>5 DEF HeldInv

\* The worker queues an answer for f.
LEMMA AnswerInOut ==
  ASSUME out \in Seq(TransObj), NEW w, NEW o, Answer(w, o), NEW f,
         o.type \in RegAnswers, o.fd = f
  PROVE  InOut(f)'
  BY QueuedPushes DEF Answer, InOut

LEMMA QuietQueues ==
  ASSUME TypeInv, NEW w \in Workers, Quiet(w) \/ Format(w) \/ Run(w)
  PROVE  Queued \subseteq Queued' /\ UNCHANGED <<conn, waiting>>
  <1>1. UNCHANGED <<conn, waiting>>
    BY DEF Quiet, Take, RegQuery, RegInsert, RegMax, LogQuery, AskQuery, DbThrows, Format,
           Run, net
  <1>2. UNCHANGED out \/ \E a : out' = Append(out, a)
    BY DEF Quiet, Take, RegQuery, RegInsert, RegMax, LogQuery, AskQuery, DbThrows, Format,
           Run, Use, LogReply, OnlineReply, RouteReply, Goto, Answer, Return
  <1>3. ASSUME NEW a, out' = Append(out, a) PROVE Queued \subseteq Queued'
    BY <1>3, QueuedPushes DEF TypeInv, WorkersOK
  <1> QED BY <1>1, <1>2, <1>3 DEF Queued

LEMMA QuietHolds ==
  ASSUME ~ DbFaults, TypeInv, HeldInv, NEW w \in Workers, Quiet(w)
  PROVE  HeldInv'
  <1> DEFINE o == job[w].obj
  <1>1. /\ pc \in [Workers -> Steps] /\ job \in [Workers -> Task] /\ out \in Seq(TransObj)
        /\ tasks \in Seq(Given)
    BY DEF TypeInv, WorkersOK, NetOK
  <1>2. /\ Others(w) /\ Queued \subseteq Queued' /\ UNCHANGED <<conn, waiting>>
    BY QuietStep, QuietQueues
  <1>3. CASE Take(w)
    <2> DEFINE t == Head(tasks)
    <2>1. /\ pc[w] = "idle" /\ tasks # <<>> /\ tasks' = Tail(tasks)
          /\ pc'[w] = FirstStep[t.obj.type] /\ job'[w] = t
      BY <1>1, <1>3 DEF Take
    <2>2. Elements(tasks) = {t} \cup Elements(tasks') /\ t \in Given
      BY <1>1, <2>1, TailElements, TailOf
    <2>3. pc'[w] \notin {"regInsert", "regMax"}
      BY <2>1, <2>2 DEF Given, FirstStep
    <2>4. t.obj.type = "REG" => pc'[w] = "regQuery"
      BY <2>1 DEF FirstStep
    <2> HIDE DEF t
    <2>5. ASSUME NEW f, InTasks(f) PROVE InTasks(f)' \/ InHand(f)'
      BY <2>1, <2>2, <2>4, <2>5 DEF InTasks, InHand, RegSteps
    <2> QED BY <1>2, <2>1, <2>3, <2>5, WorkerHolds DEF RegSteps
  <1>4. ~ Take(w) => UNCHANGED tasks
    BY DEF Quiet, RegQuery, RegInsert, RegMax, LogQuery, AskQuery, DbThrows
  <1>5. ~ Take(w) => \A f : InTasks(f) => InTasks(f)'
    BY <1>4 DEF InTasks
  <1>6. CASE RegQuery(w)
    <2> DEFINE q == [o EXCEPT !.fd = job[w].fd]
               a == Refused(q, "REG_REFUSE")
    <2>1. pc[w] = "regQuery" /\ ~ Take(w) /\ (Answer(w, a) \/ Goto(w, "regInsert", q))
      BY <1>6 DEF RegQuery, Take
    <2>2. o \in TransObj /\ job[w].fd \in Int
      BY <2>1, JobIsTyped DEF Task
    <2>3. q \in TransObj /\ q.fd = job[w].fd
      BY <2>2 DEF TransObj
    <2>4. a.type \in RegAnswers /\ a.fd = job[w].fd
      BY <2>3, RefusedIsTyped, SetMsgIsTyped DEF RegAnswers, Types, Refused, SetMsg, TransObj
    <2> HIDE DEF q, a
    <2>5. CASE Answer(w, a)
      <3>1. \A f : job[w].fd = f => OnItsWay(f)'
        BY <1>1, <2>4, <2>5, AnswerInOut DEF OnItsWay
      <3>2. pc'[w] = "idle"
        BY <1>1, <2>5 DEF Answer
      <3> QED BY <1>2, <1>5, <2>1, <3>1, <3>2, WorkerHolds
    <2>6. CASE Goto(w, "regInsert", q)
      <3>1. pc'[w] = "regInsert" /\ job'[w] = [obj |-> q, fd |-> job[w].fd]
        BY <1>1, <2>6 DEF Goto
      <3>2. \A f : job[w].fd = f => OnItsWay(f)'
        BY <3>1 DEF OnItsWay, InHand, RegSteps
      <3> QED BY <1>2, <1>5, <2>1, <2>3, <3>1, <3>2, WorkerHolds
    <2> QED BY <2>1, <2>5, <2>6
  <1>7. CASE RegInsert(w)
    <2>1. pc[w] = "regInsert" /\ ~ Take(w) /\ Goto(w, "regMax", o)
      BY <1>7 DEF RegInsert, Take
    <2>2. o.fd = job[w].fd
      BY <2>1 DEF HeldInv, RegistrationAddressed
    <2>3. pc'[w] = "regMax" /\ job'[w] = [obj |-> o, fd |-> job[w].fd]
      BY <1>1, <2>1 DEF Goto
    <2>4. \A f : job[w].fd = f => OnItsWay(f)'
      BY <2>3 DEF OnItsWay, InHand, RegSteps
    <2> QED BY <1>2, <1>5, <2>1, <2>2, <2>3, <2>4, WorkerHolds
  <1>8. CASE RegMax(w)
    <2> DEFINE a == [SetMsg(o, Text) EXCEPT !.type = "REG_ACCEPT", !.id = MaxUserId]
    <2>1. pc[w] = "regMax" /\ ~ Take(w) /\ Answer(w, a)
      BY <1>8 DEF RegMax, Take
    <2>2. o \in TransObj /\ o.fd = job[w].fd
      BY <2>1, JobIsTyped DEF HeldInv, RegistrationAddressed
    <2>3. a.type \in RegAnswers /\ a.fd = job[w].fd
      BY <2>2, SetMsgIsTyped DEF RegAnswers, TransObj
    <2> HIDE DEF a
    <2>4. \A f : job[w].fd = f => OnItsWay(f)'
      BY <1>1, <2>1, <2>3, AnswerInOut DEF OnItsWay
    <2>5. pc'[w] = "idle"
      BY <1>1, <2>1 DEF Answer
    <2> QED BY <1>2, <1>5, <2>1, <2>4, <2>5, WorkerHolds
  <1>9. CASE LogQuery(w) \/ AskQuery(w)
    <2>1. pc[w] \notin RegSteps /\ ~ Take(w)
      BY <1>9 DEF LogQuery, AskQuery, Take, RegSteps
    <2>2. pc'[w] \notin {"regInsert", "regMax"}
      BY <1>1, <1>9 DEF LogQuery, AskQuery, Goto, Answer
    <2> QED BY <1>2, <1>5, <2>1, <2>2, WorkerHolds
  <1> QED BY <1>3, <1>6, <1>7, <1>8, <1>9 DEF Quiet, DbThrows

LEMMA RedisHolds ==
  ASSUME TypeInv, HeldInv, NEW w \in Workers, Format(w) \/ Run(w)
  PROVE  HeldInv'
  <1>1. Queued \subseteq Queued' /\ UNCHANGED <<conn, waiting>>
    BY QuietQueues
  <1>2. pc[w] \in RedisSteps /\ UNCHANGED tasks
    BY DEF Format, Run, TypeInv, BufferOK
  <1>3. pc[w] \notin RegSteps
    BY <1>2 DEF RedisSteps, RegSteps
  <1>4. pc'[w] \notin {"regInsert", "regMax"}
    BY OutsideRegistration
  <1>5. Others(w)
    BY FormatKeepsTypes, RunKeepsTypes DEF Others, Format
  <1>6. \A f : InTasks(f) => InTasks(f)'
    BY <1>2 DEF InTasks
  <1> QED BY <1>1, <1>3, <1>4, <1>5, <1>6, WorkerHolds

LEMMA DieHolds ==
  ASSUME Die
  PROVE  HeldInv'
  BY DEF Die, Idle, HeldInv, RegistrationHeld, RegistrationAddressed

\* The sender takes an answer away, and then whoever waited for it has it.
LEMMA SendHolds ==
  ASSUME TypeInv, HeldInv, Send, ~ Die
  PROVE  HeldInv'
  <1>1. out \in Seq(TransObj) /\ out # <<>> /\ out' = Tail(out)
    BY SendTakes DEF TypeInv, WorkersOK
  <1>2. /\ UNCHANGED <<pc, job, tasks, conn>>
        /\ waiting' = IF Head(out).type \in RegAnswers
                      THEN {f \in waiting : ~ Sends(f, Head(out))} ELSE waiting
    BY DEF Send, RegAnswers
  <1>3. Queued = {Head(out)} \cup Queued'
    <2>1. Elements(out) = {Head(out)} \cup Elements(Tail(out))
      BY <1>1, TailElements
    <2>2. Queued = Elements(out) /\ Queued' = Elements(Tail(out))
      BY <1>1 DEF Queued, Elements
    <2> QED BY <2>1, <2>2
  <1>4. ASSUME NEW f \in waiting', InOut(f)
        PROVE  InOut(f)'
    <2>1. PICK a \in Queued : a.type \in RegAnswers /\ a.fd = f
      BY <1>4 DEF InOut
    <2>2. f \in waiting /\ conn[f] = "open" /\ f \in Conns
      BY <1>2 DEF HeldInv, RegistrationHeld, TypeInv, NetOK
    <2>3. a # Head(out)
      BY <1>2, <2>1, <2>2 DEF Sends
    <2> QED BY <1>3, <2>1, <2>3 DEF InOut
  <1>5. ASSUME NEW f \in waiting'
        PROVE  conn'[f] = "open" /\ OnItsWay(f)'
    <2>1. conn[f] = "open" /\ OnItsWay(f)
      BY <1>2 DEF HeldInv, RegistrationHeld
    <2> QED BY <1>2, <1>4, <2>1 DEF OnItsWay, InTasks, InHand
  <1>6. RegistrationAddressed'
    BY <1>2 DEF HeldInv, RegistrationAddressed
  <1> QED BY <1>5, <1>6 DEF HeldInv, RegistrationHeld

LEMMA ElsewhereHolds ==
  ASSUME TypeInv, HeldInv, Elsewhere
  PROVE  HeldInv'
  <1>1. UNCHANGED <<pc, job, out>>
    BY ElsewhereIsQuiet
  <1>2. RegistrationAddressed'
    BY <1>1 DEF HeldInv, RegistrationAddressed
  <1>3. \A f : InHand(f) => InHand(f)'
    BY <1>1 DEF InHand
  <1>4. \A f : InOut(f) => InOut(f)'
    BY <1>1 DEF InOut, Queued
  <1>5. /\ conn \in [Conns -> {"free", "open", "gone"}] /\ tasks \in Seq(Given)
        /\ waiting \in SUBSET Conns
    BY DEF TypeInv, NetOK
  <1>6. ASSUME UNCHANGED tasks, waiting' \subseteq waiting,
               \A f \in waiting' : conn[f] = "open" => conn'[f] = "open"
        PROVE  RegistrationHeld'
    <2>1. \A f : InTasks(f) => InTasks(f)'
      BY <1>6 DEF InTasks
    <2> QED BY <1>3, <1>4, <1>6, <2>1 DEF HeldInv, RegistrationHeld, OnItsWay
  <1>7. ASSUME NEW f \in Conns, Accept(f) PROVE RegistrationHeld'
    <2>1. \A g \in waiting : conn[g] = "open" => conn'[g] = "open"
      BY <1>5, <1>7 DEF Accept
    <2> QED BY <1>6, <1>7, <2>1 DEF Accept
  <1>8. ASSUME NEW f \in Conns, PeerClose(f) PROVE RegistrationHeld'
    <2>1. UNCHANGED tasks /\ waiting' = waiting \ {f}
          /\ conn' = [conn EXCEPT ![f] = "gone"]
      BY <1>8 DEF PeerClose
    <2>2. \A g \in waiting' : conn[g] = "open" => conn'[g] = "open"
      BY <1>5, <2>1
    <2> QED BY <1>6, <2>1, <2>2
  <1>9. ASSUME NEW f \in Conns, NEW o \in Requests, Recv(f, o) PROVE RegistrationHeld'
    <2> DEFINE t == [obj |-> o, fd |-> f]
    <2>1. /\ conn[f] = "open" /\ UNCHANGED conn
          /\ waiting' = IF o.type = "REG" THEN waiting \cup {f} ELSE waiting
          /\ tasks' = IF o.type \in DOMAIN FirstStep THEN Append(tasks, t) ELSE tasks
      BY <1>9 DEF Recv
    <2>2. o.type \in DOMAIN FirstStep => t \in Given
      BY RequestsAreTyped, ServerAssumption DEF Given, Task
    <2>3. o.type \in DOMAIN FirstStep => Elements(tasks') = Elements(tasks) \cup {t}
      BY <1>5, <2>1, <2>2, AppendElements
    <2>4. \A g : InTasks(g) => InTasks(g)'
      BY <2>1, <2>3 DEF InTasks
    <2>5. o.type = "REG" => InTasks(f)'
      <3>1. "REG" \in DOMAIN FirstStep
        BY DEF FirstStep
      <3>2. t.obj = o /\ t.fd = f
        OBVIOUS
      <3> HIDE DEF t
      <3> QED BY <2>3, <3>1, <3>2 DEF InTasks
    <2> QED BY <1>3, <1>4, <2>1, <2>4, <2>5 DEF HeldInv, RegistrationHeld, OnItsWay
  <1>10. CASE Restart \/ UNCHANGED vars
    <2>1. UNCHANGED tasks /\ UNCHANGED waiting /\ UNCHANGED conn
      BY <1>10 DEF Restart, net, vars
    <2>2. \A f : InTasks(f) => InTasks(f)'
      BY <2>1 DEF InTasks
    <2> QED BY <1>2, <1>3, <1>4, <2>1, <2>2 DEF HeldInv, RegistrationHeld, OnItsWay
  <1> QED BY <1>2, <1>7, <1>8, <1>9, <1>10 DEF Elsewhere, HeldInv

\* If no statement throws, no registration is lost on its way through the pool,
\* the three statements and the send queue, for any number of workers and
\* requests: what RegistrationAnswered needs of the fairness is only that the
\* threads go on.
THEOREM RegistrationsAreHeld ==
  ASSUME ~ DbFaults
  PROVE  Spec => []RegistrationHeld
  <1>1. Init => HeldInv
    BY DEF Init, Idle, HeldInv, RegistrationHeld, RegistrationAddressed
  <1>2. TypeInv /\ HeldInv /\ [Next]_vars => HeldInv'
    BY Cases, QuietHolds, RedisHolds, DieHolds, SendHolds, ElsewhereHolds
  <1>3. HeldInv => RegistrationHeld
    BY DEF HeldInv
  <1> QED BY <1>1, <1>2, <1>3, AlwaysTypeInv, PTL DEF Spec
-----------------------------------------------------------------------------
(***************************************************************************)
(* What a race in cmdBuf cannot spoil: the decision who may log in is made *)
(* from the worker's own request before Redis is asked.                    *)
(***************************************************************************)
LoginsAreChecked ==
    \A w \in Workers : pc[w] \in LoginSteps => <<job[w].obj.id, job[w].obj.fd>> \in owner

\* A connection is told that it is logged in as a user only if it gave the
\* password of that user since the server started (HandleMsg.cpp:174-275).
AcceptedGavePassword ==
    \A o \in Queued :
        o.type = "LOGIN_ACCEPT" /\ o.fd \in Conns => <<o.id, o.fd>> \in owner

PasswordInv == LoginsAreChecked /\ AcceptedGavePassword

LEMMA WorkerChecks ==
  ASSUME PasswordInv, NEW w \in Workers, Others(w), owner \subseteq owner',
         pc'[w] \in LoginSteps => <<job'[w].obj.id, job'[w].obj.fd>> \in owner',
         \A a \in Queued' \ Queued : a.type = "LOGIN_ACCEPT" /\ a.fd \in Conns
                                       => <<a.id, a.fd>> \in owner'
  PROVE  PasswordInv'
  <1>1. LoginsAreChecked'
    BY DEF PasswordInv, LoginsAreChecked, Others
  <1>2. AcceptedGavePassword'
    BY DEF PasswordInv, AcceptedGavePassword
  <1> QED BY <1>1, <1>2 DEF PasswordInv

LEMMA RunChecks ==
  ASSUME TypeInv, PasswordInv, NEW w \in Workers, Run(w)
  PROVE  PasswordInv'
  <1>1. PICK r : Use(w, r)
    BY DEF Run
  <1>2. pc[w] \in RedisSteps /\ out \in Seq(TransObj) /\ Others(w) /\ owner' = owner
    BY RunKeepsTypes DEF Run, TypeInv, BufferOK, WorkersOK
  <1>3. pc'[w] \in LoginSteps => <<job'[w].obj.id, job'[w].obj.fd>> \in owner'
    BY <1>1, <1>2, UsedJob DEF PasswordInv, LoginsAreChecked, LoginSteps
  <1>4. ASSUME NEW a, \/ RoutedAnswer(w, r, a) \/ NamedAnswer(w, a)
                      \/ LoginAnswer(w, r, a) \/ a.type = "TALK"
        PROVE  a.type = "LOGIN_ACCEPT" => <<a.id, a.fd>> \in owner'
    <2>1. CASE RoutedAnswer(w, r, a)
      <3>1. job[w].obj \in TransObj /\ JobAt(pc[w], job[w], userinfo)
        BY <1>2, JobIsTyped DEF RedisSteps
      <3> QED BY <2>1, <3>1 DEF RoutedAnswer, Routed, TransObj, JobAt, TypeAt
    <2>2. CASE LoginAnswer(w, r, a)
      BY <1>2, <2>2 DEF LoginAnswer, PasswordInv, LoginsAreChecked, LoginSteps
    <2> QED BY <1>4, <2>1, <2>2 DEF NamedAnswer
  <1>5. \A a \in Queued' \ Queued : a.type = "LOGIN_ACCEPT" /\ a.fd \in Conns
                                     => <<a.id, a.fd>> \in owner'
    <2>1. CASE UNCHANGED out
      BY <2>1 DEF Queued
    <2>2. ASSUME NEW a, out' = Append(out, a),
                 a.type = "LOGIN_ACCEPT" => <<a.id, a.fd>> \in owner'
          PROVE  \A b \in Queued' \ Queued : b.type = "LOGIN_ACCEPT" => <<b.id, b.fd>> \in owner'
      BY <1>2, <2>2, QueuedPushes
    <2> QED BY <1>1, <1>2, <1>4, <2>1, <2>2, UsedAnswer
  <1> QED BY <1>2, <1>3, <1>5, WorkerChecks

\* For any workers, faults and restarts, and even when two workers used cmdBuf
\* together, nobody is let in without the password of the id the answer carries.
THEOREM NobodyIsLetInWithoutPassword == Spec => []AcceptedGavePassword
  <1>1. Init => PasswordInv
    BY DEF Init, Idle, Queued, PasswordInv, LoginsAreChecked, AcceptedGavePassword, LoginSteps
  <1>2. ASSUME TypeInv, PasswordInv, [Next]_vars
        PROVE  PasswordInv'
    <2>1. ASSUME NEW w \in Workers, Quiet(w)
          PROVE  PasswordInv'
      BY <1>2, <2>1, QuietStep, QuietChecksPasswords, QuietAnswers, WorkerChecks
    <2>2. ASSUME NEW w \in Workers, Format(w)
          PROVE  PasswordInv'
      BY <1>2, <2>2 DEF Format, Queued, PasswordInv, LoginsAreChecked, AcceptedGavePassword
    <2>3. CASE Die
      BY <2>3 DEF Die, Idle, Queued, PasswordInv, LoginsAreChecked, AcceptedGavePassword,
                  LoginSteps
    <2>4. CASE Send /\ ~ Die
      BY <1>2, <2>4, SendTakes, QueuedPops
         DEF TypeInv, WorkersOK, PasswordInv, LoginsAreChecked, AcceptedGavePassword
    <2>5. CASE Elsewhere
      BY <1>2, <2>5, ElsewhereIsQuiet
         DEF Queued, PasswordInv, LoginsAreChecked, AcceptedGavePassword
    <2> QED BY <1>2, <2>1, <2>2, <2>3, <2>4, <2>5, RunChecks, Cases
  <1>3. PasswordInv => AcceptedGavePassword
    BY DEF PasswordInv
  <1> QED BY <1>1, <1>2, <1>3, AlwaysTypeInv, PTL DEF Spec
=============================================================================
