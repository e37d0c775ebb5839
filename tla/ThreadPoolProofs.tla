-------------------------- MODULE ThreadPoolProofs --------------------------
(***************************************************************************)
(* Safety of ThreadPool for any finite sets of workers and submitters, any *)
(* jobs, and any subset of them never returning.                           *)
(***************************************************************************)
EXTENDS ThreadPool, QueueLemmas, FiniteSetTheorems, TLAPS

\* A worker is in one place: asleep, running a job, gone, or about to look.
WorkersAreSomewhere ==
    /\ \A w \in sleeping : running[w] = None /\ w \notin exited
    /\ \A w \in exited : running[w] = None

\* How far the destructor is decides stop, and only a stopped worker leaves.
StopOrder ==
    /\ stop <=> destroying # "no"
    /\ exited # {} => stop
    /\ destroying = "joined" => exited = Workers

\* Nothing is accepted and then forgotten.
AcceptedAccounted == accepted = done \cup Queued

Inv ==
    /\ TypeOK /\ WorkersAreSomewhere /\ StopOrder /\ AcceptedAccounted
    /\ NoIdleBacklog /\ DrainsBeforeExit /\ NobodySleepsThroughStop
-----------------------------------------------------------------------------
LEMMA CountsAreNumbers ==
  /\ IsFiniteSet(Awake) /\ Cardinality(Awake) \in Nat
  /\ notifying \in SUBSET Submitters =>
        IsFiniteSet(notifying) /\ Cardinality(notifying) \in Nat
  <1>1. IsFiniteSet(Awake)
    BY PoolAssumption, FS_Subset DEF Awake
  <1>2. notifying \in SUBSET Submitters => IsFiniteSet(notifying)
    BY PoolAssumption, FS_Subset
  <1> QED BY <1>1, <1>2, FS_CardinalityType

\* The head and the tail of the queue, and the jobs they hold.
LEMMA TakeType ==
  ASSUME tasks \in Seq(Jobs), tasks # <<>>
  PROVE  /\ Head(tasks) \in Jobs
         /\ Tail(tasks) \in Seq(Jobs)
         /\ Len(Tail(tasks)) = Len(tasks) - 1
  OBVIOUS

LEMMA TakeQueued ==
  ASSUME tasks \in Seq(Jobs), tasks # <<>>, tasks' = Tail(tasks)
  PROVE  Queued = {Head(tasks)} \cup Queued'
  <1>1. Queued = Elements(tasks) /\ Queued' = Elements(Tail(tasks))
    BY DEF Queued, Elements
  <1> QED BY <1>1, TailElements

LEMMA PushQueued ==
  ASSUME tasks \in Seq(Jobs), NEW j \in Jobs, tasks' = Append(tasks, j)
  PROVE  Queued' = Queued \cup {j}
  <1>1. Queued = Elements(tasks) /\ Queued' = Elements(Append(tasks, j))
    BY DEF Queued, Elements
  <1> QED BY <1>1, AppendElements
-----------------------------------------------------------------------------
LEMMA TypeStep == TypeOK /\ [Next]_vars => TypeOK'
  <1> SUFFICES ASSUME TypeOK, [Next]_vars PROVE TypeOK'
    OBVIOUS
  <1> USE DEF TypeOK
  <1>1. CASE \E w \in Workers : Exit(w) \/ Sleep(w) \/ FinishTask(w)
    BY <1>1 DEF Exit, Sleep, FinishTask
  <1>2. CASE \E w \in Workers : TakeTask(w)
    BY <1>2, TakeType DEF TakeTask
  <1>3. CASE \E w \in Workers : SpuriousWakeup(w)
    BY <1>3 DEF SpuriousWakeup
  <1>4. CASE \E s \in Submitters, j \in Jobs : Enqueue(s, j)
    BY <1>4 DEF Enqueue, PutTask
  <1>5. CASE \E s \in Submitters : NotifyOne(s)
    BY <1>5 DEF NotifyOne
  <1>6. CASE SetStop \/ NotifyAll \/ JoinAll
    BY <1>6 DEF SetStop, NotifyAll, JoinAll
  <1>7. CASE UNCHANGED vars
    BY <1>7 DEF vars
  <1> QED BY <1>1, <1>2, <1>3, <1>4, <1>5, <1>6, <1>7 DEF Next

\* The parts of Inv that say where workers are, how far the destructor is and
\* what became of each accepted job.
Places == WorkersAreSomewhere /\ StopOrder /\ AcceptedAccounted
              /\ DrainsBeforeExit /\ NobodySleepsThroughStop

LEMMA PlacesStep == TypeOK /\ Places /\ [Next]_vars => Places'
  <1> SUFFICES ASSUME TypeOK, Places, [Next]_vars PROVE Places'
    OBVIOUS
  <1> USE DEF TypeOK, Places, WorkersAreSomewhere, StopOrder, DrainsBeforeExit,
              NobodySleepsThroughStop, Awake
  \* A queue that does not change holds the same jobs.
  <1>q. UNCHANGED tasks => UNCHANGED Queued
    BY DEF Queued
  <1>e. tasks = <<>> => Queued = {}
    BY DEF Queued
  <1>1. CASE \E w \in Workers : Exit(w)
    BY <1>1, <1>q, <1>e DEF Exit, MayExit, AcceptedAccounted
  <1>2. CASE \E w \in Workers : Sleep(w) \/ FinishTask(w)
    <2> PICK w \in Workers : Sleep(w) \/ FinishTask(w)
      BY <1>2
    <2>1. CASE Sleep(w)
      BY <2>1, <1>q DEF Sleep, AcceptedAccounted
    <2>2. CASE FinishTask(w)
      <3>1. w \notin exited /\ w \notin sleeping
        BY <2>2, PoolAssumption DEF FinishTask
      <3> QED BY <2>2, <3>1, <1>q DEF FinishTask, AcceptedAccounted
    <2> QED BY <2>1, <2>2
  <1>3. CASE \E w \in Workers : TakeTask(w)
    <2> PICK w \in Workers : TakeTask(w)
      BY <1>3
    <2>1. AcceptedAccounted'
      BY TakeQueued DEF TakeTask, AcceptedAccounted
    <2>2. exited = {}
      BY DEF TakeTask
    <2> QED BY <2>1, <2>2 DEF TakeTask
  <1>4. CASE \E w \in Workers : SpuriousWakeup(w)
    BY <1>4, <1>q DEF SpuriousWakeup, AcceptedAccounted
  <1>5. CASE \E s \in Submitters, j \in Jobs : Enqueue(s, j)
    <2> PICK s \in Submitters, j \in Jobs : Enqueue(s, j)
      BY <1>5
    <2>1. AcceptedAccounted'
      BY <1>q, PushQueued DEF Enqueue, PutTask, AcceptedAccounted
    <2> QED BY <2>1 DEF Enqueue, PutTask
  <1>6. CASE \E s \in Submitters : NotifyOne(s)
    <2> PICK s \in Submitters : NotifyOne(s)
      BY <1>6
    <2>1. sleeping' \subseteq sleeping
      BY DEF NotifyOne
    <2> QED BY <1>q, <2>1 DEF NotifyOne, AcceptedAccounted
  <1>7. CASE SetStop \/ NotifyAll \/ JoinAll
    BY <1>7, <1>q DEF SetStop, NotifyAll, JoinAll, AcceptedAccounted
  <1>8. CASE UNCHANGED vars
    BY <1>8, <1>q DEF vars, AcceptedAccounted
  <1> QED BY <1>1, <1>2, <1>3, <1>4, <1>5, <1>6, <1>7, <1>8 DEF Next
-----------------------------------------------------------------------------
(***************************************************************************)
(* No task is left behind with the workers asleep.                         *)
(***************************************************************************)
LEMMA BacklogStep ==
  TypeOK /\ Places /\ NoIdleBacklog /\ [Next]_vars => NoIdleBacklog'
  <1> SUFFICES ASSUME TypeOK, Places, NoIdleBacklog, [Next]_vars, sleeping' # {}
               PROVE  Len(tasks') <= Cardinality(Awake') + Cardinality(notifying')
    BY DEF NoIdleBacklog
  <1> USE DEF TypeOK
  <1>f. /\ Len(tasks) \in Nat /\ Cardinality(Awake) \in Nat
        /\ Cardinality(notifying) \in Nat
        /\ IsFiniteSet(Awake) /\ IsFiniteSet(notifying)
    BY CountsAreNumbers
  <1>g. TypeOK'
    BY TypeStep
  <1>h. Cardinality(Awake') \in Nat /\ Cardinality(notifying') \in Nat
    <2>1. IsFiniteSet(Awake') /\ IsFiniteSet(notifying')
      BY <1>g, PoolAssumption, FS_Subset DEF Awake
    <2> QED BY <2>1, FS_CardinalityType
  \* With an empty queue there is nothing to show.
  <1>e. CASE tasks' = <<>>
    <2>1. Len(tasks') = 0
      BY <1>e
    <2> QED BY <1>h, <2>1
  \* A woken sleeper is one more awake worker.
  <1>w. ASSUME NEW w \in sleeping, sleeping' = sleeping \ {w},
               UNCHANGED <<running, exited>>
        PROVE  Cardinality(Awake') = Cardinality(Awake) + 1
    <2>1. w \in Workers /\ w \notin Awake /\ running[w] = None /\ w \notin exited
      BY DEF Awake, Places, WorkersAreSomewhere
    <2>2. Awake' = Awake \cup {w}
      BY <1>w, <2>1 DEF Awake
    <2>3. Cardinality(Awake \cup {w}) = Cardinality(Awake) + 1
      BY <1>f, <2>1, FS_AddElement
    <2> QED BY <2>2, <2>3
  <1>1. CASE \E w \in Workers : Exit(w) \/ Sleep(w)
    BY <1>1, <1>e DEF Exit, MayExit, Sleep
  <1>2. CASE \E w \in Workers : TakeTask(w)
    <2> PICK w \in Workers : TakeTask(w)
      BY <1>2
    <2>1. Len(tasks') = Len(tasks) - 1
      BY TakeType DEF TakeTask
    <2>2. Awake' = Awake \ {w} /\ w \in Awake
      <3>1. Head(tasks) \in Jobs
        BY TakeType DEF TakeTask
      <3> QED BY <3>1, PoolAssumption DEF Awake, TakeTask
    <2>3. Cardinality(Awake \ {w}) = Cardinality(Awake) - 1
      BY <1>f, <2>2, FS_RemoveElement
    <2>4. Len(tasks) <= Cardinality(Awake) + Cardinality(notifying)
      BY DEF NoIdleBacklog, TakeTask
    <2> QED BY <1>f, <2>1, <2>2, <2>3, <2>4 DEF TakeTask
  <1>3. CASE \E w \in Workers : FinishTask(w)
    <2> PICK w \in Workers : FinishTask(w)
      BY <1>3
    <2>1. Awake' = Awake \cup {w}
      <3>1. w \notin sleeping /\ w \notin exited
        BY PoolAssumption DEF FinishTask, Places, WorkersAreSomewhere
      <3> QED BY <3>1 DEF FinishTask, Awake
    <2>2. Cardinality(Awake \cup {w}) =
            IF w \in Awake THEN Cardinality(Awake) ELSE Cardinality(Awake) + 1
      BY <1>f, FS_AddElement
    <2>3. Len(tasks) <= Cardinality(Awake) + Cardinality(notifying)
      BY DEF NoIdleBacklog, FinishTask
    <2> QED BY <1>f, <2>1, <2>2, <2>3 DEF FinishTask
  <1>4. CASE \E w \in Workers : SpuriousWakeup(w)
    BY <1>4, <1>f, <1>w DEF SpuriousWakeup, NoIdleBacklog
  <1>5. CASE \E s \in Submitters, j \in Jobs : Enqueue(s, j)
    <2> PICK s \in Submitters, j \in Jobs : Enqueue(s, j)
      BY <1>5
    <2>1. Awake' = Awake /\ UNCHANGED sleeping
      BY DEF Enqueue, PutTask, Awake
    <2>2. Len(tasks) <= Cardinality(Awake) + Cardinality(notifying)
      BY <2>1 DEF NoIdleBacklog
    <2>3. CASE ~ stop
      <3>1. Len(tasks') = Len(tasks) + 1
        BY <2>3 DEF Enqueue, PutTask
      <3>2. Cardinality(notifying \cup {s}) = Cardinality(notifying) + 1
        BY <1>f, FS_AddElement DEF Enqueue, PutTask
      <3>3. notifying' = notifying \cup {s}
        BY <2>3 DEF Enqueue, PutTask
      <3>4. Cardinality(Awake') = Cardinality(Awake)
        BY <2>1
      <3>5. Cardinality(notifying') = Cardinality(notifying) + 1
        BY <3>2, <3>3
      <3> QED BY <1>f, <2>2, <3>1, <3>4, <3>5
    <2>4. CASE stop
      BY <2>1, <2>2, <2>4 DEF Enqueue, PutTask
    <2> QED BY <2>3, <2>4
  <1>6. CASE \E s \in Submitters : NotifyOne(s)
    <2> PICK s \in Submitters : NotifyOne(s)
      BY <1>6
    <2>1. PICK w \in sleeping : sleeping' = sleeping \ {w}
      BY DEF NotifyOne
    <2>2. Cardinality(Awake') = Cardinality(Awake) + 1
      BY <1>w, <2>1 DEF NotifyOne
    <2>3. Cardinality(notifying \ {s}) = Cardinality(notifying) - 1
      BY <1>f, FS_RemoveElement DEF NotifyOne
    <2> QED BY <1>f, <2>1, <2>2, <2>3 DEF NotifyOne, NoIdleBacklog
  <1>7. CASE SetStop \/ NotifyAll \/ JoinAll
    BY <1>7 DEF SetStop, NotifyAll, JoinAll, NoIdleBacklog, Awake
  <1>8. CASE UNCHANGED vars
    BY <1>8 DEF vars, NoIdleBacklog, Awake
  <1> QED BY <1>1, <1>2, <1>3, <1>4, <1>5, <1>6, <1>7, <1>8 DEF Next
-----------------------------------------------------------------------------
LEMMA InvInit == Init => Inv
  <1> SUFFICES ASSUME Init PROVE Inv
    OBVIOUS
  <1>1. TypeOK
    <2>1. tasks \in Seq(Jobs)
      BY DEF Init
    <2> QED BY <2>1 DEF Init, TypeOK
  <1>2. AcceptedAccounted
    BY DEF Init, AcceptedAccounted, Queued
  <1> QED BY <1>1, <1>2 DEF Init, Inv, WorkersAreSomewhere, StopOrder,
            NoIdleBacklog, DrainsBeforeExit, NobodySleepsThroughStop

LEMMA InvStep == Inv /\ [Next]_vars => Inv'
  BY TypeStep, PlacesStep, BacklogStep DEF Inv, Places

LEMMA Invariance == Spec => []Inv
  BY InvInit, InvStep, PTL DEF Spec

\* The pool's members keep their types (ThreadPool.h:25-34).
THEOREM TypeCorrect == Spec => []TypeOK
  BY Invariance, PTL DEF Inv

\* For any number of workers and submitters, notifying after the unlock
\* (ThreadPool.h:89) never leaves a queued task behind with nobody to run it.
THEOREM NoBacklogIsIdle == Spec => []NoIdleBacklog
  BY Invariance, PTL DEF Inv

\* For any number of workers, none returns from its loop before every accepted
\* task was started (ThreadPool.h:52-55), and stop cannot overtake enqueue.
THEOREM StopDrains == Spec => []DrainsBeforeExit
  BY Invariance, PTL DEF Inv

\* For any number of workers, notify_all after stop (ThreadPool.h:98-100)
\* reaches every worker there will ever be asleep.
THEOREM NobodyOversleeps == Spec => []NobodySleepsThroughStop
  BY Invariance, PTL DEF Inv
-----------------------------------------------------------------------------
(***************************************************************************)
(* The pool is an Executor.  What makes it one is that a job is in one     *)
(* place: in the queue once and not started, or started and executed by at *)
(* most one worker.                                                        *)
(***************************************************************************)
Once ==
    /\ Distinct(tasks)
    /\ Queued \cap done = {}
    /\ \A w \in Workers : running[w] # None => running[w] \in done
    /\ \A v, w \in Workers : running[v] # None /\ running[v] = running[w] => v = w

LEMMA QueuedElements == Queued = Elements(tasks) /\ Queued' = Elements(tasks')
  BY DEF Queued, Elements

LEMMA TakeOnce ==
  ASSUME TypeOK, Once, tasks # <<>>
  PROVE  /\ Head(tasks) \in Jobs /\ Head(tasks) \in Queued
         /\ tasks' = Tail(tasks) => /\ Distinct(tasks')
                                     /\ Queued' = Queued \ {Head(tasks)}
  <1>1. tasks \in Seq(Jobs) /\ Distinct(tasks)
    BY DEF TypeOK, Once
  <1>2. Head(tasks) \in Jobs /\ Head(tasks) \in Elements(tasks)
    BY <1>1, TailOf, TailElements
  <1>3. Distinct(Tail(tasks)) /\ Elements(Tail(tasks)) = Elements(tasks) \ {Head(tasks)}
    BY <1>1, TailDistinct
  <1> QED BY <1>2, <1>3, QueuedElements

LEMMA OnceStep == TypeOK /\ AcceptedAccounted /\ Once /\ [Next]_vars => Once'
  <1> SUFFICES ASSUME TypeOK, AcceptedAccounted, Once, [Next]_vars PROVE Once'
    OBVIOUS
  <1> USE PoolAssumption DEF TypeOK, Once
  <1>1. CASE UNCHANGED <<tasks, running, done>>
    BY <1>1, QueuedElements
  <1>2. ASSUME NEW w \in Workers, TakeTask(w)
        PROVE  Once'
    <2>1. /\ tasks # <<>> /\ tasks' = Tail(tasks)
          /\ running[w] = None /\ running' = [running EXCEPT ![w] = Head(tasks)]
          /\ done' = done \cup {Head(tasks)}
      BY <1>2 DEF TakeTask, Awake
    <2>2. /\ Head(tasks) \in Jobs /\ Head(tasks) \in Queued
          /\ Distinct(tasks') /\ Queued' = Queued \ {Head(tasks)}
      BY <2>1, TakeOnce
    <2>3. \A v \in Workers : running[v] # Head(tasks)
      BY <2>2
    <2> QED BY <2>1, <2>2, <2>3
  <1>3. ASSUME NEW w \in Workers, FinishTask(w)
        PROVE  Once'
    <2>1. UNCHANGED Queued
      BY <1>3, QueuedElements DEF FinishTask
    <2> QED BY <1>3, <2>1 DEF FinishTask
  <1>4. ASSUME NEW s \in Submitters, NEW j \in Jobs, Enqueue(s, j), tasks' = Append(tasks, j)
        PROVE  Once'
    <2>1. j \notin Queued /\ j \notin done /\ UNCHANGED <<running, done>>
      BY <1>4 DEF Enqueue, AcceptedAccounted
    <2>2. Distinct(tasks') /\ Queued' = Queued \cup {j}
      BY <1>4, <2>1, QueuedElements, AppendDistinct, AppendElements
    <2> QED BY <2>1, <2>2
  <1>5. CASE \E w \in Workers : Exit(w) \/ Sleep(w) \/ SpuriousWakeup(w)
    BY <1>1, <1>5 DEF Exit, Sleep, SpuriousWakeup
  <1>6. CASE \E s \in Submitters, j \in Jobs : Enqueue(s, j)
    BY <1>1, <1>4, <1>6 DEF Enqueue, PutTask
  <1>7. CASE (\E s \in Submitters : NotifyOne(s)) \/ SetStop \/ NotifyAll \/ JoinAll
    BY <1>1, <1>7 DEF NotifyOne, SetStop, NotifyAll, JoinAll
  <1> QED BY <1>1, <1>2, <1>3, <1>5, <1>6, <1>7 DEF Next, vars

\* The stage of one job changes as Move says, that of no other.
LEMMA Moves ==
  ASSUME NEW j \in Jobs, NEW from, NEW to, Stage(j) = from, Stage(j)' = to,
         \A k \in Jobs \ {j} : Stage(k)' = Stage(k),
         UNCHANGED <<stop, destroying>>
  PROVE  Abstract!Move(j, from, to)
  BY DEF Abstract!Move

LEMMA SameStages ==
  ASSUME UNCHANGED <<tasks, running, done>>
  PROVE  \A k \in Jobs : Stage(k)' = Stage(k)
  BY QueuedElements DEF Stage, Executing

LEMMA TakeStarts ==
  ASSUME TypeOK, Once, destroying # "joined", NEW w \in Workers, TakeTask(w)
  PROVE  Abstract!Next
  <1> PICK j \in Jobs : j = Head(tasks)
    BY TakeOnce DEF TakeTask
  <1>1. /\ tasks # <<>> /\ tasks' = Tail(tasks)
        /\ running[w] = None /\ running' = [running EXCEPT ![w] = j]
        /\ done' = done \cup {j}
        /\ UNCHANGED <<stop, destroying>>
    BY DEF TakeTask, Awake
  <1>2. j \in Jobs /\ j \in Queued /\ Queued' = Queued \ {j}
    BY <1>1, TakeOnce
  <1>3. Stage(j) = "waiting"
    BY <1>2 DEF Stage
  <1>4. running'[w] = j /\ \A v \in Workers \ {w} : running'[v] = running[v]
    BY <1>1 DEF TypeOK
  <1>5. Stage(j)' = "executing"
    BY <1>2, <1>4 DEF Stage, Executing
  <1>6. ASSUME NEW k \in Jobs \ {j}
        PROVE  Stage(k)' = Stage(k)
    <2>1. Executing(k)' <=> Executing(k)
      BY <1>1, <1>4, PoolAssumption DEF Executing
    <2> QED BY <1>1, <1>2, <2>1 DEF Stage
  <1>7. Abstract!Move(j, "waiting", "executing")
    BY <1>1, <1>2, <1>3, <1>5, <1>6, Moves
  <1> QED BY <1>2, <1>7 DEF Abstract!Next, Abstract!Start

LEMMA FinishEnds ==
  ASSUME TypeOK, Once, NEW w \in Workers, FinishTask(w)
  PROVE  Abstract!Next
  <1> PICK j \in Jobs : j = running[w]
    BY DEF FinishTask
  <1>1. /\ j \in Jobs \ Forever /\ running' = [running EXCEPT ![w] = None]
        /\ UNCHANGED <<tasks, done, stop, destroying>>
    BY DEF FinishTask
  <1>2. j \in done /\ j \notin Queued
    BY <1>1, PoolAssumption DEF Once
  <1>3. running'[w] = None /\ \A v \in Workers \ {w} : running'[v] = running[v]
    BY <1>1 DEF TypeOK
  <1>4. Stage(j) = "executing"
    BY <1>2 DEF Stage, Executing
  <1>5. UNCHANGED Queued
    BY <1>1, QueuedElements
  <1>6. \A v \in Workers : running'[v] # j
    BY <1>1, <1>3, PoolAssumption DEF Once
  <1>7. ASSUME NEW k \in Jobs \ {j}
        PROVE  Stage(k)' = Stage(k)
    <2>1. Executing(k)' <=> Executing(k)
      BY <1>1, <1>3, PoolAssumption DEF Executing
    <2> QED BY <1>1, <1>5, <2>1 DEF Stage
  <1>8. Stage(j)' = "ended"
    BY <1>1, <1>2, <1>5, <1>6 DEF Stage, Executing
  <1>9. Abstract!Move(j, "executing", "ended")
    BY <1>1, <1>4, <1>7, <1>8, Moves
  <1> QED BY <1>1, <1>9 DEF Abstract!Next, Abstract!End

LEMMA EnqueueSubmits ==
  ASSUME TypeOK, Once, AcceptedAccounted, StopOrder,
         NEW s \in Submitters, NEW j \in Jobs, Enqueue(s, j)
  PROVE  [Abstract!Next]_(Abstract!vars)
  <1>1. UNCHANGED <<running, done, stop, destroying>>
    BY DEF Enqueue
  <1>2. CASE ~ stop /\ tasks' = Append(tasks, j)
    <2>1. j \notin Queued /\ j \notin done
      BY DEF Enqueue, AcceptedAccounted
    <2>2. Queued' = Queued \cup {j}
      BY <1>2, PushQueued DEF TypeOK
    <2>3. ~ Executing(j)
      BY <2>1, PoolAssumption DEF Once, Executing
    <2>4. \A k \in Jobs : Executing(k)' <=> Executing(k)
      BY <1>1 DEF Executing
    <2>5. Stage(j) = "new" /\ Stage(j)' = "waiting"
      BY <2>1, <2>2, <2>3 DEF Stage
    <2>6. \A k \in Jobs \ {j} : Stage(k)' = Stage(k)
      BY <1>1, <2>2, <2>4 DEF Stage
    <2>7. Abstract!Move(j, "new", "waiting")
      BY <1>1, <2>5, <2>6, Moves
    <2>8. destroying # "joined"
      BY <1>2 DEF StopOrder
    <2> QED BY <1>2, <2>7, <2>8 DEF Abstract!Next, Abstract!Submit
  <1>3. CASE UNCHANGED tasks
    BY <1>1, <1>3, SameStages DEF Abstract!vars
  <1> QED BY <1>2, <1>3 DEF Enqueue, PutTask

\* When the last worker has left none executes anything and the queue is empty.
LEMMA JoinCloses ==
  ASSUME Inv, Workers # {}, JoinAll
  PROVE  Abstract!Next
  <1>1. /\ exited = Workers /\ destroying = "joining" /\ destroying' = "joined"
        /\ UNCHANGED <<tasks, running, done, stop>>
    BY DEF JoinAll
  <1>2. tasks = <<>> /\ stop
    BY <1>1 DEF Inv, DrainsBeforeExit, StopOrder
  <1>3. \A w \in Workers : running[w] = None
    BY <1>1 DEF Inv, WorkersAreSomewhere
  <1>4. \A j \in Jobs : Stage(j) \in {"new", "ended"}
    BY <1>2, <1>3, PoolAssumption, EmptyElements, QueuedElements DEF Stage, Executing
  <1>5. Abstract!Close
    BY <1>1, <1>2, <1>4, SameStages DEF Abstract!Close
  <1> QED BY <1>5 DEF Abstract!Next

LEMMA ExecutorStep ==
  ASSUME Workers # {}
  PROVE  Inv /\ Once /\ [Next]_vars => [Abstract!Next]_(Abstract!vars)
  <1> SUFFICES ASSUME Inv, Once, [Next]_vars PROVE [Abstract!Next]_(Abstract!vars)
    OBVIOUS
  <1>1. CASE UNCHANGED <<tasks, running, done, stop, destroying>>
    BY <1>1, SameStages DEF Abstract!vars
  <1>2. ASSUME NEW w \in Workers, TakeTask(w)
        PROVE  Abstract!Next
    <2>1. tasks # <<>> /\ exited # Workers
      BY <1>2 DEF TakeTask, Awake
    <2>2. destroying # "joined"
      BY <2>1 DEF Inv, StopOrder
    <2> QED BY <1>2, <2>2, TakeStarts DEF Inv
  <1>3. ASSUME NEW w \in Workers, FinishTask(w)
        PROVE  Abstract!Next
    BY <1>3, FinishEnds DEF Inv
  <1>4. CASE SetStop
    <2>1. Abstract!BeginClose
      BY <1>4, SameStages DEF SetStop, Inv, StopOrder, Abstract!BeginClose
    <2> QED BY <2>1 DEF Abstract!Next
  <1>5. CASE NotifyAll
    <2>1. \A k \in Jobs : Stage(k)' = Stage(k)
      BY <1>5, SameStages DEF NotifyAll
    <2> QED BY <1>5, <2>1 DEF NotifyAll, Abstract!vars
  <1>6. CASE \E w \in Workers : Exit(w) \/ Sleep(w) \/ SpuriousWakeup(w)
    BY <1>1, <1>6 DEF Exit, Sleep, SpuriousWakeup
  <1>7. CASE \E s \in Submitters, j \in Jobs : Enqueue(s, j)
    BY <1>7, EnqueueSubmits DEF Inv
  <1>8. CASE \E s \in Submitters : NotifyOne(s)
    BY <1>1, <1>8 DEF NotifyOne
  <1> QED BY <1>1, <1>2, <1>3, <1>4, <1>5, <1>6, <1>7, <1>8, JoinCloses DEF Next, vars

\* A pool of any number of workers, of which there is at least one, is an
\* executor: no job is started twice, and the destructor returns when each job
\* enqueue took has ended (ThreadPool.h:38-64, 93-103).
THEOREM PoolImplementsExecutor ==
  ASSUME Workers # {}
  PROVE  Spec => ImplementsExecutor
  <1>1. Init => Once /\ Abstract!Init
    <2> SUFFICES ASSUME Init PROVE Once /\ Abstract!Init
      OBVIOUS
    <2>1. Distinct(tasks) /\ Queued = {}
      BY EmptyElements, QueuedElements DEF Init
    <2>2. \A j \in Jobs : Stage(j) = "new"
      BY <2>1, PoolAssumption DEF Init, Stage, Executing
    <2> QED BY <2>1, <2>2 DEF Init, Once, Abstract!Init
  <1>2. Inv => TypeOK /\ AcceptedAccounted
    BY DEF Inv
  <1>3. Spec => []Once
    BY <1>1, <1>2, OnceStep, Invariance, PTL DEF Spec
  <1> QED
    BY <1>1, <1>3, ExecutorStep, Invariance, PTL DEF Spec, ImplementsExecutor, Abstract!Spec
=============================================================================
