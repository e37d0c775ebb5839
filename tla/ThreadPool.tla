----------------------------- MODULE ThreadPool -----------------------------
(***************************************************************************)
(* The pool of worker threads (smer/Util/inc/ThreadPool.h) that runs the   *)
(* three services of the client, the two of the server, and one task per   *)
(* message the server receives.  enqueue pushes inside the critical        *)
(* section and notifies after it; a worker evaluates its predicate, takes  *)
(* a task or leaves in one critical section; the destructor sets stop in   *)
(* one, wakes everybody and joins.                                         *)
(***************************************************************************)
EXTENDS Naturals, Sequences, FiniteSets

CONSTANTS
    Workers,    \* the threads created by init
    Submitters, \* threads that call enqueue
    Jobs,       \* what is enqueued, each once
    Forever,    \* the jobs that never return: Client::run, MyLog::run, IOManger::run
    None

ASSUME PoolAssumption ==
    /\ IsFiniteSet(Workers)
    /\ IsFiniteSet(Submitters)
    /\ Forever \subseteq Jobs
    /\ None \notin Jobs

VARIABLES
    tasks,      \* std::queue tasks
    sleeping,   \* workers blocked in condition.wait
    running,    \* the job each worker executes, None between two jobs
    exited,     \* workers that returned from their loop
    notifying,  \* submitters between the unlock and notify_one of enqueue
    stop,       \* bool stop
    destroying, \* how far ~ThreadPool is: "no", "stopped", "joining", "joined"
    accepted,   \* history: jobs enqueue took
    refused,    \* history: jobs enqueue threw on
    done        \* history: jobs that were started

vars == <<tasks, sleeping, running, exited, notifying, stop, destroying,
          accepted, refused, done>>

TypeOK ==
    /\ tasks \in Seq(Jobs)
    /\ sleeping \in SUBSET Workers
    /\ running \in [Workers -> Jobs \cup {None}]
    /\ exited \in SUBSET Workers
    /\ notifying \in SUBSET Submitters
    /\ stop \in BOOLEAN
    /\ destroying \in {"no", "stopped", "joining", "joined"}
    /\ accepted \in SUBSET Jobs
    /\ refused \in SUBSET Jobs
    /\ done \in SUBSET Jobs

Init ==
    /\ tasks = <<>>
    /\ sleeping = {}
    /\ running = [w \in Workers |-> None]
    /\ exited = {}
    /\ notifying = {}
    /\ stop = FALSE
    /\ destroying = "no"
    /\ accepted = {}
    /\ refused = {}
    /\ done = {}

\* Workers that will evaluate their predicate without being notified.
Awake == {w \in Workers : w \notin sleeping \cup exited /\ running[w] = None}
-----------------------------------------------------------------------------
\* Faulty: plausible errors in definitions below; no action uses them.
ExitWhenStopped(w) == stop
NotifyNobody(s) ==
    /\ s \in notifying
    /\ notifying' = notifying \ {s}
    /\ UNCHANGED <<tasks, sleeping, running, exited, stop, destroying,
                   accepted, refused, done>>
NotifyAllWakesOne ==
    /\ destroying = "stopped"
    /\ destroying' = "joining"
    /\ sleeping' \in IF sleeping = {} THEN {{}} ELSE {sleeping \ {w} : w \in sleeping}
    /\ UNCHANGED <<tasks, running, exited, notifying, stop, accepted, refused, done>>
JoinOne ==
    /\ destroying = "joining"
    /\ exited # {}
    /\ destroying' = "joined"
    /\ UNCHANGED <<tasks, sleeping, running, exited, notifying, stop,
                   accepted, refused, done>>

PutEmptyTask(j) == tasks' = Append(tasks, None)

\* The worker's return: the pool is stopped and nothing is left to run.
MayExit(w) == stop /\ tasks = <<>>

Exit(w) ==
    /\ w \in Awake
    /\ MayExit(w)
    /\ exited' = exited \cup {w}
    /\ UNCHANGED <<tasks, sleeping, running, notifying, stop, destroying,
                   accepted, refused, done>>

Sleep(w) ==
    /\ w \in Awake
    /\ ~ stop /\ tasks = <<>>
    /\ sleeping' = sleeping \cup {w}
    /\ UNCHANGED <<tasks, running, exited, notifying, stop, destroying,
                   accepted, refused, done>>

TakeTask(w) ==
    /\ w \in Awake
    /\ tasks # <<>>
    /\ ~ MayExit(w)
    /\ running' = [running EXCEPT ![w] = Head(tasks)]
    /\ tasks' = Tail(tasks)
    /\ done' = done \cup {Head(tasks)}
    /\ UNCHANGED <<sleeping, exited, notifying, stop, destroying, accepted, refused>>

\* task() returns; packaged_task stores what it throws in a future nobody reads.
FinishTask(w) ==
    /\ running[w] \in Jobs \ Forever
    /\ running' = [running EXCEPT ![w] = None]
    /\ UNCHANGED <<tasks, sleeping, exited, notifying, stop, destroying,
                   accepted, refused, done>>

PutTask(j) == tasks' = Append(tasks, j)

Enqueue(s, j) ==
    /\ s \notin notifying
    /\ j \notin accepted \cup refused
    /\ \/ /\ ~ stop
          /\ PutTask(j)
          /\ accepted' = accepted \cup {j}
          /\ notifying' = notifying \cup {s}
          /\ UNCHANGED refused
       \/ /\ stop                            \* throws runtime_error
          /\ refused' = refused \cup {j}
          /\ UNCHANGED <<tasks, accepted, notifying>>
    /\ UNCHANGED <<sleeping, running, exited, stop, destroying, done>>

NotifyOne(s) ==
    /\ s \in notifying
    /\ notifying' = notifying \ {s}
    /\ sleeping' \in IF sleeping = {} THEN {{}} ELSE {sleeping \ {w} : w \in sleeping}
    /\ UNCHANGED <<tasks, running, exited, stop, destroying, accepted, refused, done>>

SetStop ==
    /\ destroying = "no"
    /\ destroying' = "stopped"
    /\ stop' = TRUE
    /\ UNCHANGED <<tasks, sleeping, running, exited, notifying, accepted, refused, done>>

NotifyAll ==
    /\ destroying = "stopped"
    /\ destroying' = "joining"
    /\ sleeping' = {}
    /\ UNCHANGED <<tasks, running, exited, notifying, stop, accepted, refused, done>>

\* The loop of join calls returns when the last worker has returned.
JoinAll ==
    /\ destroying = "joining"
    /\ exited = Workers
    /\ destroying' = "joined"
    /\ UNCHANGED <<tasks, sleeping, running, exited, notifying, stop,
                   accepted, refused, done>>

SpuriousWakeup(w) ==
    /\ w \in sleeping
    /\ sleeping' = sleeping \ {w}
    /\ UNCHANGED <<tasks, running, exited, notifying, stop, destroying,
                   accepted, refused, done>>

WorkerStep(w) == Exit(w) \/ Sleep(w) \/ TakeTask(w) \/ FinishTask(w)

Next ==
    \/ \E w \in Workers : Exit(w) \/ Sleep(w) \/ TakeTask(w) \/ FinishTask(w)
    \/ \E w \in Workers : SpuriousWakeup(w)
    \/ \E s \in Submitters, j \in Jobs : Enqueue(s, j)
    \/ \E s \in Submitters : NotifyOne(s)
    \/ SetStop \/ NotifyAll \/ JoinAll

Spec == Init /\ [][Next]_vars

\* A worker and a submitter inside enqueue keep running, and so does a
\* destructor once it started.  Nothing obliges anybody to enqueue or to
\* destroy, nor a wait to wake spuriously.
Fairness ==
    /\ \A w \in Workers : WF_vars(WorkerStep(w))
    /\ \A s \in Submitters : WF_vars(NotifyOne(s))
    /\ WF_vars(NotifyAll) /\ WF_vars(JoinAll)

FairSpec == Spec /\ Fairness
-----------------------------------------------------------------------------
\* While a worker sleeps, every queued task has an awake worker about to look
\* or a submitter about to notify (ThreadPool.h:78-89: the notify_one comes
\* after the unlock, and a worker may take the task in between).
NoIdleBacklog ==
    sleeping # {} => Len(tasks) <= Cardinality(Awake) + Cardinality(notifying)

\* A stop never loses an accepted task: when the last worker has left, each
\* task enqueue accepted was started, and nothing is left in the queue
\* (ThreadPool.h:52-55: a stopped worker leaves only when the queue is empty).
DrainsBeforeExit ==
    exited # {} => tasks = <<>> /\ accepted = done

\* Once the destructor notified everybody, nobody sleeps any more: a worker
\* that went to sleep between the store of stop and notify_all is woken by it
\* and no worker goes to sleep after it (ThreadPool.h:96-100).
NobodySleepsThroughStop ==
    destroying \in {"joining", "joined"} => sleeping = {}

\* Every accepted job is eventually started, as long as a worker is left that
\* is not held by a job that never returns.
AcceptedJobsStart == \A j \in Jobs : j \in accepted ~> j \in done

\* The destructor joins all threads (ThreadPool.h:93-103) and returns, provided
\* no job was accepted that never returns.  The program enqueues such jobs.
DestructorReturns == stop /\ accepted \cap Forever = {} ~> destroying = "joined"

Queued == {tasks[i] : i \in DOMAIN tasks}
Executing(j) == \E w \in Workers : running[w] = j

Stage(j) ==
    IF j \in Queued THEN "waiting"
    ELSE IF Executing(j) THEN "executing"
    ELSE IF j \in done THEN "ended" ELSE "new"

\* A job is started once and executed by one worker, and when the destructor
\* returns every job that enqueue took has ended (ThreadPool.h:38-64, 93-103).
Abstract == INSTANCE Executor WITH
                Endless <- Forever,
                stage <- [j \in Jobs |-> Stage(j)],
                state <- IF destroying = "joined" THEN "closed"
                         ELSE IF stop THEN "closing" ELSE "open"

ImplementsExecutor == Abstract!Spec
=============================================================================
