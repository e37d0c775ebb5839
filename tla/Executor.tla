------------------------------ MODULE Executor ------------------------------
(***************************************************************************)
(* What a thread pool promises, with no threads, queue, mutex or condition *)
(* variable: a job that was submitted is started once and executed to its  *)
(* end by one worker, nothing is submitted any more once closing began,    *)
(* and when the executor is closed every job that was submitted has ended. *)
(***************************************************************************)
CONSTANTS
    Jobs,
    Endless     \* jobs that never end

VARIABLES
    stage,      \* of each job: "new", "waiting", "executing", "ended"
    state       \* "open", "closing", "closed"

vars == <<stage, state>>

Init ==
    /\ stage = [j \in Jobs |-> "new"]
    /\ state = "open"

Move(j, from, to) ==
    /\ stage[j] = from
    /\ stage' = [stage EXCEPT ![j] = to]
    /\ UNCHANGED state

Submit(j) == state = "open" /\ Move(j, "new", "waiting")
Start(j) == state # "closed" /\ Move(j, "waiting", "executing")
End(j) == j \notin Endless /\ Move(j, "executing", "ended")

BeginClose ==
    /\ state = "open"
    /\ state' = "closing"
    /\ UNCHANGED stage

Close ==
    /\ state = "closing"
    /\ \A j \in Jobs : stage[j] \in {"new", "ended"}
    /\ state' = "closed"
    /\ UNCHANGED stage

Next ==
    \/ \E j \in Jobs : Submit(j) \/ Start(j) \/ End(j)
    \/ BeginClose \/ Close

Spec == Init /\ [][Next]_vars
=============================================================================
