----------------------------- MODULE MysqlPool ------------------------------
(***************************************************************************)
(* The pool of database connections of the server (smer/Mysql/src/         *)
(* mysql_pool.cpp) and the two calls that use it, ExecQuery and ExecInsert:*)
(* take a connection, prepare it (setSchema, createStatement, outside any  *)
(* try), run the statement, put the connection back.  GetConnection,       *)
(* ReleaseConnection and DestoryConnPool are one critical section each.    *)
(* A connection is a pointer: a deleted one may come back from a later     *)
(* CreateConnection.                                                       *)
(***************************************************************************)
EXTENDS Integers, Sequences, FiniteSets

CONSTANTS
    Threads,    \* workers that call ExecQuery and ExecInsert
    Conns,      \* connection objects
    MaxSize,    \* maxSize of initPool
    None

ASSUME MysqlAssumption ==
    /\ IsFiniteSet(Threads) /\ IsFiniteSet(Conns)
    /\ MaxSize \in Nat
    /\ None \notin Conns

VARIABLES
    phase,      \* "init" inside initPool, "open", "destroyed"
    toCreate,   \* iterations left of InitConnection's loop
    connList,   \* idle connections, oldest first
    curSize,    \* the pool's count of its connections
    held,       \* the connection each thread works with, or None
    prepared,   \* threads past setSchema and createStatement
    leaked,     \* connections an exception made unreachable
    dead,       \* connections for which isClosed() answers true
    refused     \* threads whose last GetConnection met curSize = maxSize

vars == <<phase, toCreate, connList, curSize, held, prepared, leaked, dead, refused>>

Listed == {connList[i] : i \in DOMAIN connList}
Users == {t \in Threads : held[t] # None}
Live == Listed \cup {held[t] : t \in Users} \cup leaked

TypeOK ==
    /\ phase \in {"init", "open", "destroyed"}
    /\ toCreate \in Nat
    /\ connList \in Seq(Conns)
    /\ curSize \in Int
    /\ held \in [Threads -> Conns \cup {None}]
    /\ prepared \in SUBSET Threads
    /\ leaked \in SUBSET Conns
    /\ dead \in SUBSET Conns
    /\ refused \in SUBSET Threads

Init ==
    /\ phase = "init"
    /\ toCreate = MaxSize \div 2
    /\ connList = <<>>
    /\ curSize = 0
    /\ held = [t \in Threads |-> None]
    /\ prepared = {}
    /\ leaked = {}
    /\ dead = {}
    /\ refused = {}
-----------------------------------------------------------------------------
\* Faulty: plausible errors in definitions below; no action uses them.
KeepCount == UNCHANGED curSize
CreateOneMore == toCreate >= 0
BelowMaxOrEqual == curSize <= MaxSize
BelowMaxMinusOne == curSize < MaxSize - 1
HandOutWithoutRemoving(t) ==
    /\ held' = [held EXCEPT ![t] = Head(connList)]
    /\ UNCHANGED <<connList, curSize, dead>>

\* CreateConnection: driver->connect gives a new object, or throws and the
\* result is nullptr.
NewConnection(c) == c \in Conns \ Live

\* i < initSize
MoreToCreate == toCreate > 0

\* InitConnection(maxSize / 2): one iteration, the connect may fail.
InitConnection ==
    /\ phase = "init" /\ MoreToCreate
    /\ toCreate' = toCreate - 1
    /\ \/ \E c \in Conns :
            /\ NewConnection(c)
            /\ connList' = Append(connList, c)
            /\ curSize' = curSize + 1
       \/ UNCHANGED <<connList, curSize>>
    /\ UNCHANGED <<phase, held, prepared, leaked, dead, refused>>

InitDone ==
    /\ phase = "init" /\ toCreate = 0
    /\ phase' = "open"
    /\ UNCHANGED <<toCreate, connList, curSize, held, prepared, leaked, dead, refused>>

\* The first idle connection, as it is.
TakeOpen(t) ==
    /\ held' = [held EXCEPT ![t] = Head(connList)]
    /\ connList' = Tail(connList)
    /\ UNCHANGED <<curSize, dead>>

\* The count after the replacement of a closed connection could not be made.
CountLoss == curSize' = curSize - 1

\* The first idle connection is closed: it is deleted and a new one is made.
Recreate(t) ==
    /\ connList' = Tail(connList)
    /\ dead' = dead \ {Head(connList)}
    /\ \/ \E c \in Conns :
            /\ NewConnection(c) \/ c = Head(connList)
            /\ held' = [held EXCEPT ![t] = c]
            /\ UNCHANGED curSize
       \/ /\ CountLoss
          /\ UNCHANGED held

BelowMax == curSize < MaxSize

\* No idle connection: make one if the pool may grow.
Grow(t) ==
    /\ \/ \E c \in Conns :
            /\ NewConnection(c)
            /\ held' = [held EXCEPT ![t] = c]
            /\ curSize' = curSize + 1
       \/ UNCHANGED <<held, curSize>>
    /\ UNCHANGED <<connList, dead>>

\* GetConnection, with the test of its result: a thread that gets nullptr
\* returns from ExecQuery or ExecInsert at once.
GetConnection(t) ==
    /\ phase = "open"
    /\ t \notin Users
    /\ \/ /\ connList # <<>>
          /\ IF Head(connList) \in dead THEN Recreate(t) ELSE TakeOpen(t)
          /\ refused' = refused \ {t}
       \/ /\ connList = <<>> /\ BelowMax
          /\ Grow(t)
          /\ refused' = refused \ {t}
       \/ /\ connList = <<>> /\ ~ BelowMax
          /\ refused' = refused \cup {t}
          /\ UNCHANGED <<connList, curSize, held, dead>>
    /\ UNCHANGED <<phase, toCreate, prepared, leaked>>

\* setSchema and createStatement succeed.
Prepare(t) ==
    /\ phase = "open"
    /\ t \in Users \ prepared
    /\ held[t] \notin dead
    /\ prepared' = prepared \cup {t}
    /\ UNCHANGED <<phase, toCreate, connList, curSize, held, leaked, dead, refused>>

\* setSchema or createStatement throws: the exception leaves ExecQuery or
\* ExecInsert and the task, and nobody has the connection any more.
PrepareThrows(t) ==
    /\ phase = "open"
    /\ t \in Users \ prepared
    /\ held' = [held EXCEPT ![t] = None]
    /\ leaked' = leaked \cup {held[t]}
    /\ UNCHANGED <<phase, toCreate, connList, curSize, prepared, dead, refused>>

\* The statement ran, or threw inside the try: both ways the connection goes
\* back to the end of the list.
ReleaseConnection(t) ==
    /\ phase = "open"
    /\ t \in Users \cap prepared
    /\ connList' = Append(connList, held[t])
    /\ held' = [held EXCEPT ![t] = None]
    /\ prepared' = prepared \ {t}
    /\ UNCHANGED <<phase, toCreate, curSize, leaked, dead, refused>>

\* The database or the network closes a connection the pool knows.
ConnectionDies(c) ==
    /\ c \in Live \ dead
    /\ dead' = dead \cup {c}
    /\ UNCHANGED <<phase, toCreate, connList, curSize, held, prepared, leaked, refused>>

\* ~MysqlPool at exit.  The connections of the threads still at work are not
\* in the list; what these threads do with the destroyed pool is undefined, so
\* the model stops here.
DestoryConnPool ==
    /\ phase = "open"
    /\ phase' = "destroyed"
    /\ connList' = <<>>
    /\ dead' = dead \ Listed
    /\ curSize' = 0
    /\ UNCHANGED <<toCreate, held, prepared, leaked, refused>>

Next ==
    \/ InitConnection \/ InitDone
    \/ \E t \in Threads :
          GetConnection(t) \/ Prepare(t) \/ PrepareThrows(t) \/ ReleaseConnection(t)
    \/ \E c \in Conns : ConnectionDies(c)
    \/ DestoryConnPool

Spec == Init /\ [][Next]_vars
-----------------------------------------------------------------------------
\* The pool's count is the number of connections it made and still answers
\* for: idle, in use, or lost to an exception (mysql_pool.cpp:57, 113, 127).
CountIsExact ==
    phase # "destroyed" =>
        curSize = Len(connList) + Cardinality(Users) + Cardinality(leaked)

\* The pool never has more than maxSize connections open, whatever fails.
WithinMaxSize == Cardinality(Live) <= MaxSize

\* No connection is used by two threads, nor used while idle, nor twice in the
\* list, nor used after it was given up.
Exclusive ==
    /\ \A t, u \in Users : held[t] = held[u] => t = u
    /\ \A i, j \in DOMAIN connList : connList[i] = connList[j] => i = j
    /\ \A t \in Users : held[t] \notin Listed \cup leaked
    /\ Listed \cap leaked = {}

\* With no more threads than connections a worker meets a full pool only after
\* a connection has leaked: the pool size of serverInit (6 threads, of which
\* two run services, and 4 connections) is enough otherwise.
RefusedOnlyAfterLeak ==
    Cardinality(Threads) <= MaxSize /\ refused # {} => leaked # {}

\* GetConnection and ReleaseConnection lend connections: one that is handed
\* out was idle or is new and comes back to the pool from the thread that has
\* it; one that leaked is never seen again (mysql_pool.cpp:99-154).
Pool == INSTANCE Lending WITH
            Borrowers <- Threads, Resources <- Conns, Nothing <- None,
            idle <- Listed, lent <- held, lost <- leaked

ImplementsLending == Pool!Spec
=============================================================================
