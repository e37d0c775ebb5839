------------------------------ MODULE Lending -------------------------------
(***************************************************************************)
(* What the two pools of the server, that of the database connections and  *)
(* that of the Redis contexts, promise to the threads that share them: a   *)
(* resource is idle, or lent to one borrower, or lost; what is lent was    *)
(* idle or is new, and only what a borrower has comes back.  No queue, no  *)
(* count, no clock, and no step between asking and getting.                *)
(***************************************************************************)
CONSTANTS
    Borrowers,  \* threads
    Resources,  \* connections or contexts
    Nothing     \* what a borrower has that has none

VARIABLES
    idle,       \* resources that wait to be lent
    lent,       \* what each borrower has
    lost        \* resources nobody can give back any more

vars == <<idle, lent, lost>>

Init ==
    /\ idle = {}
    /\ lent = [b \in Borrowers |-> Nothing]
    /\ lost = {}

InUse(r) == \E b \in Borrowers : lent[b] = r
Known(r) == r \in idle \cup lost \/ InUse(r)

Provide(r) ==
    /\ ~ Known(r)
    /\ idle' = idle \cup {r}
    /\ UNCHANGED <<lent, lost>>

Discard(gone) ==
    /\ gone \subseteq idle
    /\ idle' = idle \ gone
    /\ UNCHANGED <<lent, lost>>

LendIdle(b, r) ==
    /\ lent[b] = Nothing /\ r \in idle
    /\ idle' = idle \ {r}
    /\ lent' = [lent EXCEPT ![b] = r]
    /\ UNCHANGED lost

LendNew(b, r) ==
    /\ lent[b] = Nothing /\ ~ Known(r)
    /\ lent' = [lent EXCEPT ![b] = r]
    /\ UNCHANGED <<idle, lost>>

\* An idle resource is thrown away, and a new one lent in its place.
LendInstead(b, old, r) ==
    /\ lent[b] = Nothing /\ old \in idle /\ ~ Known(r)
    /\ idle' = idle \ {old}
    /\ lent' = [lent EXCEPT ![b] = r]
    /\ UNCHANGED lost

Return(b) ==
    /\ lent[b] # Nothing
    /\ idle' = idle \cup {lent[b]}
    /\ lent' = [lent EXCEPT ![b] = Nothing]
    /\ UNCHANGED lost

\* The borrower destroys what it has, or loses it.
Break(b) ==
    /\ lent[b] # Nothing
    /\ lent' = [lent EXCEPT ![b] = Nothing]
    /\ lost' \in {lost, lost \cup {lent[b]}}
    /\ UNCHANGED idle

Next ==
    \/ \E r \in Resources : Provide(r)
    \/ \E gone \in SUBSET Resources : Discard(gone)
    \/ \E b \in Borrowers : Return(b) \/ Break(b)
    \/ \E b \in Borrowers, r \in Resources :
          LendIdle(b, r) \/ LendNew(b, r) \/ \E old \in Resources : LendInstead(b, old, r)

Spec == Init /\ [][Next]_vars
=============================================================================
