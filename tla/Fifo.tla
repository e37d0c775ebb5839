-------------------------------- MODULE Fifo --------------------------------
(***************************************************************************)
(* What a ConcQueue promises to the threads that share it, with no mutex   *)
(* and no condition variable: values come out in the order they went in,   *)
(* each of them once, a consumer that quits takes nothing after its pill,  *)
(* and (FairSpec) a queue that holds a value is served in the end, as long *)
(* as a consumer that waits for values has not left.                       *)
(***************************************************************************)
EXTENDS Sequences

CONSTANTS
    Consumers,  \* threads that take values out
    Waiters,    \* those of them that wait for a value
    Quitters,   \* those of them that leave with the pill
    Values,     \* what travels in the queue
    Pill,
    Null        \* the nullptr a failed tryAndPop returns

VARIABLES
    queue,      \* the values put and not yet taken
    got,        \* what each consumer's last call returned
    left        \* the consumers that left

vars == <<queue, got, left>>

Init ==
    /\ queue = <<>>
    /\ got = [c \in Consumers |-> Null]
    /\ left = {}

Put(v) ==
    /\ queue' = Append(queue, v)
    /\ UNCHANGED <<got, left>>

Take(c) ==
    /\ c \notin left
    /\ queue # <<>>
    /\ got' = [got EXCEPT ![c] = Head(queue)]
    /\ queue' = Tail(queue)
    /\ left' = left \cup IF Head(queue) = Pill THEN {c} \cap Quitters ELSE {}

Miss(c) ==
    /\ queue = <<>>
    /\ got' = [got EXCEPT ![c] = Null]
    /\ UNCHANGED <<queue, left>>

Next ==
    \/ \E v \in Values : Put(v)
    \/ \E c \in Consumers : Take(c) \/ Miss(c)

Spec == Init /\ [][Next]_vars

FairSpec == Spec /\ WF_vars(\E c \in Waiters : Take(c))
=============================================================================
