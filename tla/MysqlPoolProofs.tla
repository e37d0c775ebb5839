-------------------------- MODULE MysqlPoolProofs ---------------------------
(***************************************************************************)
(* Safety of MysqlPool for any finite sets of threads and connections and  *)
(* any pool size.  Inv adds to the properties two bounds: what initPool    *)
(* may still create, and the pool size over everything handed out.         *)
(***************************************************************************)
EXTENDS MysqlPool, QueueLemmas, FiniteSetTheorems, TLAPS

\* Connections counted without looking at curSize.
Count == Len(connList) + Cardinality(Users) + Cardinality(leaked)

Bounded ==
    /\ Count <= MaxSize
    /\ phase = "init" =>
          Users = {} /\ leaked = {} /\ Len(connList) + toCreate <= MaxSize

Inv == TypeOK /\ Exclusive /\ CountIsExact /\ Bounded /\ RefusedOnlyAfterLeak
-----------------------------------------------------------------------------
LEMMA CountsAreNumbers ==
  ASSUME TypeOK
  PROVE  /\ Len(connList) \in Nat
         /\ IsFiniteSet(Users) /\ Cardinality(Users) \in Nat
         /\ IsFiniteSet(leaked) /\ Cardinality(leaked) \in Nat
         /\ IsFiniteSet(Threads) /\ Cardinality(Threads) \in Nat
         /\ Cardinality(Users) <= Cardinality(Threads)
  <1>1. IsFiniteSet(Users) /\ Cardinality(Users) <= Cardinality(Threads)
    BY MysqlAssumption, FS_Subset DEF Users
  <1>2. IsFiniteSet(leaked)
    BY MysqlAssumption, FS_Subset DEF TypeOK
  <1> QED BY <1>1, <1>2, MysqlAssumption, FS_CardinalityType DEF TypeOK

\* What taking the first idle connection does to the list.
LEMMA TakeListed ==
  ASSUME TypeOK, connList # <<>>, connList' = Tail(connList),
         \A i, j \in DOMAIN connList : connList[i] = connList[j] => i = j
  PROVE  /\ connList' \in Seq(Conns)
         /\ Len(connList) >= 1
         /\ Len(connList') = Len(connList) - 1
         /\ Head(connList) \in Conns /\ Head(connList) \in Listed
         /\ Listed' = Listed \ {Head(connList)}
         /\ \A i, j \in DOMAIN connList' : connList'[i] = connList'[j] => i = j
  <1>1. connList \in Seq(Conns) /\ Distinct(connList)
    BY DEF TypeOK, Distinct
  <1>2. Listed = Elements(connList) /\ Listed' = Elements(Tail(connList))
    BY DEF Listed, Elements
  <1>3. /\ Len(connList) \in Nat \ {0}
        /\ Tail(connList) \in Seq(Conns) /\ Len(Tail(connList)) = Len(connList) - 1
        /\ Head(connList) \in Conns /\ Head(connList) \in Elements(connList)
    BY <1>1, TailOf, TailElements
  <1>4. /\ Distinct(Tail(connList))
        /\ Elements(Tail(connList)) = Elements(connList) \ {Head(connList)}
    BY <1>1, TailDistinct
  <1>5. Len(connList) >= 1
    BY <1>3
  <1> QED BY <1>2, <1>3, <1>4, <1>5 DEF Distinct

\* What putting a connection at the end does to the list.
LEMMA PutListed ==
  ASSUME TypeOK, NEW c \in Conns, c \notin Listed, connList' = Append(connList, c),
         \A i, j \in DOMAIN connList : connList[i] = connList[j] => i = j
  PROVE  /\ connList' \in Seq(Conns)
         /\ Len(connList') = Len(connList) + 1
         /\ Listed' = Listed \cup {c}
         /\ \A i, j \in DOMAIN connList' : connList'[i] = connList'[j] => i = j
  <1>1. connList \in Seq(Conns) /\ Distinct(connList)
    BY DEF TypeOK, Distinct
  <1>2. Listed = Elements(connList) /\ Listed' = Elements(Append(connList, c))
    BY DEF Listed, Elements
  <1>3. Append(connList, c) \in Seq(Conns) /\ Len(Append(connList, c)) = Len(connList) + 1
    BY <1>1, AppendOf
  <1>4. Elements(Append(connList, c)) = Elements(connList) \cup {c}
    BY <1>1, AppendElements
  <1>5. Distinct(Append(connList, c))
    BY <1>1, <1>2, AppendDistinct
  <1> QED BY <1>2, <1>3, <1>4, <1>5 DEF Distinct

\* A list that keeps its value keeps its members.
LEMMA SameListed == UNCHANGED connList => UNCHANGED Listed
  BY DEF Listed

\* A thread that starts or stops using a connection.
LEMMA StartUsing ==
  ASSUME TypeOK, NEW t \in Threads \ Users, NEW c \in Conns,
         held' = [held EXCEPT ![t] = c]
  PROVE  /\ Users' = Users \cup {t}
         /\ Cardinality(Users') = Cardinality(Users) + 1
         /\ held'[t] = c
         /\ \A u \in Users : u # t /\ held'[u] = held[u]
  <1>1. Users' = Users \cup {t}
    BY MysqlAssumption DEF TypeOK, Users
  <1>2. Cardinality(Users \cup {t}) = Cardinality(Users) + 1
    BY CountsAreNumbers, FS_AddElement
  <1> QED BY <1>1, <1>2 DEF TypeOK, Users

LEMMA StopUsing ==
  ASSUME TypeOK, NEW t \in Users, held' = [held EXCEPT ![t] = None]
  PROVE  /\ Users' = Users \ {t}
         /\ Cardinality(Users') = Cardinality(Users) - 1
         /\ held[t] \in Conns
         /\ \A u \in Users' : held'[u] = held[u]
  <1>1. Users' = Users \ {t}
    BY DEF TypeOK, Users
  <1>2. Cardinality(Users \ {t}) = Cardinality(Users) - 1
    BY CountsAreNumbers, FS_RemoveElement
  <1> QED BY <1>1, <1>2 DEF TypeOK, Users
-----------------------------------------------------------------------------
\* GetConnection preserves Inv: one step for each of its five outcomes.
LEMMA GetConnectionStep ==
  ASSUME Inv, NEW t \in Threads, GetConnection(t)
  PROVE  Inv'
  <1> USE DEF TypeOK, Inv
  <1>f. /\ Len(connList) \in Nat
        /\ Cardinality(Users) \in Nat /\ Cardinality(leaked) \in Nat
        /\ MaxSize \in Nat
    BY CountsAreNumbers, MysqlAssumption
  <1>g. /\ phase = "open" /\ phase' = "open" /\ t \in Threads \ Users
        /\ UNCHANGED <<toCreate, prepared, leaked>>
    BY DEF GetConnection
  <1>u. UNCHANGED held => UNCHANGED Users
    BY DEF Users
  <1>x. /\ \A i, j \in DOMAIN connList : connList[i] = connList[j] => i = j
        /\ \A i, j \in Users : held[i] = held[j] => i = j
        /\ \A i \in Users : held[i] \notin Listed \cup leaked
        /\ Listed \cap leaked = {}
    BY DEF Exclusive
  \* The connection taken is the one at the head of the list.
  <1>1. CASE connList # <<>> /\ TakeOpen(t) /\ refused' = refused \ {t}
    <2> DEFINE c == Head(connList)
    <2>1. connList' = Tail(connList) /\ held' = [held EXCEPT ![t] = c]
          /\ UNCHANGED <<curSize, dead>>
      BY <1>1 DEF TakeOpen
    <2>2. /\ connList' \in Seq(Conns) /\ Len(connList') = Len(connList) - 1
          /\ c \in Conns /\ c \in Listed /\ Listed' \subseteq Listed
          /\ c \notin Listed'
          /\ \A i, j \in DOMAIN connList' : connList'[i] = connList'[j] => i = j
      BY <1>1, <2>1, <1>x, TakeListed
    <2>3. /\ Users' = Users \cup {t}
          /\ Cardinality(Users') = Cardinality(Users) + 1
          /\ held'[t] = c
          /\ \A u \in Users : u # t /\ held'[u] = held[u]
      BY <1>g, <2>1, <2>2, StartUsing
    <2>4. TypeOK'
      BY <1>1, <1>g, <2>1, <2>2
    <2>5. Exclusive'
      BY <1>g, <1>x, <2>2, <2>3 DEF Exclusive
    <2>6. CountIsExact' /\ Bounded'
      <3>1. Count' = Count
        BY <1>f, <1>g, <2>2, <2>3 DEF Count
      <3> QED BY <1>g, <2>1, <3>1 DEF CountIsExact, Bounded, Count
    <2>7. RefusedOnlyAfterLeak'
      BY <1>1, <1>g DEF RefusedOnlyAfterLeak
    <2> QED BY <2>4, <2>5, <2>6, <2>7
  \* The connection at the head was closed: another one replaces it, or none.
  <1>2. CASE connList # <<>> /\ Recreate(t) /\ refused' = refused \ {t}
    <2>1. connList' = Tail(connList) /\ dead' = dead \ {Head(connList)}
      BY <1>2 DEF Recreate
    <2>2. /\ connList' \in Seq(Conns) /\ Len(connList') = Len(connList) - 1
          /\ Head(connList) \in Conns /\ Head(connList) \in Listed
          /\ Listed' \subseteq Listed /\ Head(connList) \notin Listed'
          /\ \A i, j \in DOMAIN connList' : connList'[i] = connList'[j] => i = j
      BY <1>2, <2>1, <1>x, TakeListed
    <2>3. RefusedOnlyAfterLeak'
      BY <1>2, <1>g DEF RefusedOnlyAfterLeak
    <2>4. CASE CountLoss /\ UNCHANGED held
      <3>1. TypeOK'
        BY <1>2, <1>g, <2>1, <2>2, <2>4 DEF CountLoss
      <3>2. Exclusive'
        BY <1>g, <1>u, <1>x, <2>2, <2>4 DEF Exclusive
      <3>3. CountIsExact' /\ Bounded'
        BY <1>f, <1>g, <1>u, <2>2, <2>4 DEF CountIsExact, Bounded, Count, CountLoss
      <3> QED BY <2>3, <3>1, <3>2, <3>3
    <2>5. ASSUME NEW c \in Conns, NewConnection(c) \/ c = Head(connList),
                 held' = [held EXCEPT ![t] = c], UNCHANGED curSize
          PROVE  Inv'
      <3>1. c \notin Listed' \cup leaked /\ \A u \in Users : held[u] # c
        BY <1>x, <2>2, <2>5 DEF NewConnection, Live
      <3>2. /\ Users' = Users \cup {t}
            /\ Cardinality(Users') = Cardinality(Users) + 1
            /\ held'[t] = c
            /\ \A u \in Users : u # t /\ held'[u] = held[u]
        BY <1>g, <2>5, StartUsing
      <3>3. TypeOK'
        BY <1>2, <1>g, <2>1, <2>2, <2>5
      <3>4. Exclusive'
        BY <1>g, <1>x, <2>2, <3>1, <3>2 DEF Exclusive
      <3>5. CountIsExact' /\ Bounded'
        <4>1. Count' = Count
          BY <1>f, <1>g, <2>2, <3>2 DEF Count
        <4> QED BY <1>g, <2>5, <4>1 DEF CountIsExact, Bounded, Count
      <3> QED BY <2>3, <3>3, <3>4, <3>5
    <2> QED BY <1>2, <2>4, <2>5 DEF Recreate
  \* The list is empty and the pool may grow.
  <1>3. CASE connList = <<>> /\ BelowMax /\ Grow(t) /\ refused' = refused \ {t}
    <2>1. UNCHANGED <<connList, dead>> /\ UNCHANGED Listed
      BY <1>3, SameListed DEF Grow
    <2>2. RefusedOnlyAfterLeak'
      BY <1>3, <1>g DEF RefusedOnlyAfterLeak
    <2>3. CASE UNCHANGED <<held, curSize>>
      BY <1>3, <1>f, <1>g, <1>u, <2>1, <2>2, <2>3
         DEF Exclusive, CountIsExact, Bounded, Count
    <2>4. ASSUME NEW c \in Conns, NewConnection(c),
                 held' = [held EXCEPT ![t] = c], curSize' = curSize + 1
          PROVE  Inv'
      <3>1. c \notin Listed \cup leaked /\ \A u \in Users : held[u] # c
        BY <2>4 DEF NewConnection, Live
      <3>2. /\ Users' = Users \cup {t}
            /\ Cardinality(Users') = Cardinality(Users) + 1
            /\ held'[t] = c
            /\ \A u \in Users : u # t /\ held'[u] = held[u]
        BY <1>g, <2>4, StartUsing
      <3>3. TypeOK'
        BY <1>3, <1>g, <2>1, <2>4
      <3>4. Exclusive'
        BY <1>g, <1>x, <2>1, <3>1, <3>2 DEF Exclusive
      <3>5. CountIsExact' /\ Bounded'
        BY <1>3, <1>f, <1>g, <2>1, <2>4, <3>2
           DEF CountIsExact, Bounded, Count, BelowMax
      <3> QED BY <2>2, <3>3, <3>4, <3>5
    <2> QED BY <1>3, <2>3, <2>4 DEF Grow
  \* The list is empty and the pool is full: every connection is in use or
  \* leaked, and t uses none, so with enough connections one has leaked.
  <1>4. CASE /\ connList = <<>> /\ ~ BelowMax
             /\ refused' = refused \cup {t}
             /\ UNCHANGED <<connList, curSize, held, dead>>
    <2>1. Exclusive' /\ TypeOK' /\ CountIsExact' /\ Bounded'
      BY <1>4, <1>f, <1>g, <1>u, SameListed DEF Exclusive, CountIsExact, Bounded, Count
    <2>2. ASSUME Cardinality(Threads) <= MaxSize, leaked = {}
          PROVE  FALSE
      <3>1. Len(connList) = 0 /\ Cardinality(leaked) = 0
        BY <1>4, <2>2, FS_EmptySet
      <3>2. Cardinality(Users) >= MaxSize
        BY <1>4, <1>f, <1>g, <3>1 DEF BelowMax, CountIsExact
      <3>3. Cardinality(Users) = Cardinality(Threads)
        BY <1>f, <2>2, <3>2, CountsAreNumbers
      <3>4. Users = Threads
        BY <3>3, MysqlAssumption, FS_Subset DEF Users
      <3> QED BY <1>g, <3>4
    <2> QED BY <1>g, <2>1, <2>2 DEF RefusedOnlyAfterLeak
  <1> QED BY <1>1, <1>2, <1>3, <1>4 DEF GetConnection
-----------------------------------------------------------------------------
LEMMA InvInit == Init => Inv
  <1> SUFFICES ASSUME Init PROVE Inv
    OBVIOUS
  <1>1. TypeOK
    BY MysqlAssumption DEF Init, TypeOK
  <1>2. Users = {} /\ leaked = {} /\ Len(connList) = 0 /\ DOMAIN connList = {}
    BY DEF Init, Users
  <1>3. Count = 0
    BY <1>2, FS_EmptySet DEF Count
  <1>4. MaxSize \div 2 <= MaxSize
    BY MysqlAssumption
  <1> QED BY <1>1, <1>2, <1>3, <1>4, MysqlAssumption
          DEF Init, Inv, Exclusive, CountIsExact, Bounded, Count, RefusedOnlyAfterLeak,
              Listed

LEMMA InvStep == Inv /\ [Next]_vars => Inv'
  <1> SUFFICES ASSUME Inv, [Next]_vars PROVE Inv'
    OBVIOUS
  <1> USE DEF TypeOK, Inv
  <1>f. /\ Len(connList) \in Nat
        /\ Cardinality(Users) \in Nat /\ Cardinality(leaked) \in Nat
        /\ MaxSize \in Nat
    BY CountsAreNumbers, MysqlAssumption
  <1>u. UNCHANGED held => UNCHANGED Users
    BY DEF Users
  <1>x. /\ \A i, j \in DOMAIN connList : connList[i] = connList[j] => i = j
        /\ \A i, j \in Users : held[i] = held[j] => i = j
        /\ \A i \in Users : held[i] \notin Listed \cup leaked
        /\ Listed \cap leaked = {}
    BY DEF Exclusive
  <1>s. ASSUME UNCHANGED <<connList, curSize, held, leaked, refused>>,
               toCreate' = toCreate,
               phase' = phase \/ (phase = "init" /\ phase' = "open"),
               TypeOK'
        PROVE  Inv'
    <2>1. UNCHANGED Users /\ UNCHANGED Listed
      BY <1>s, <1>u, SameListed
    <2>2. Exclusive' /\ RefusedOnlyAfterLeak'
      BY <1>s, <2>1 DEF Exclusive, RefusedOnlyAfterLeak
    <2>3. CountIsExact' /\ Bounded'
      BY <1>s, <2>1 DEF CountIsExact, Bounded, Count
    <2> QED BY <1>s, <2>2, <2>3
  <1>1. CASE InitConnection
    <2>1. /\ phase = "init" /\ phase' = "init" /\ toCreate > 0
          /\ toCreate' = toCreate - 1 /\ Users = {} /\ leaked = {}
          /\ UNCHANGED <<held, prepared, leaked, dead, refused>> /\ UNCHANGED Users
      BY <1>1, <1>u DEF InitConnection, MoreToCreate, Bounded
    <2>2. CASE UNCHANGED <<connList, curSize>>
      BY <1>f, <2>1, <2>2, SameListed
         DEF Exclusive, CountIsExact, Bounded, Count, RefusedOnlyAfterLeak
    <2>3. ASSUME NEW c \in Conns, NewConnection(c),
                 connList' = Append(connList, c), curSize' = curSize + 1
          PROVE  Inv'
      <3>1. /\ connList' \in Seq(Conns)
            /\ Len(connList') = Len(connList) + 1
            /\ Listed' = Listed \cup {c}
            /\ \A i, j \in DOMAIN connList' : connList'[i] = connList'[j] => i = j
        BY <1>x, <2>3, PutListed DEF NewConnection, Live
      <3>2. TypeOK' /\ Exclusive' /\ RefusedOnlyAfterLeak'
        BY <2>1, <2>3, <3>1 DEF Exclusive, RefusedOnlyAfterLeak
      <3>3. Cardinality(Users) = 0 /\ Cardinality(leaked) = 0
        BY <2>1, FS_EmptySet
      <3>4. Count' = Len(connList) + 1
        BY <1>f, <2>1, <3>1, <3>3 DEF Count
      <3>5. Len(connList) + toCreate <= MaxSize
        BY <2>1 DEF Bounded
      <3>6. CountIsExact' /\ Bounded'
        BY <1>f, <2>1, <2>3, <3>1, <3>3, <3>4, <3>5 DEF CountIsExact, Bounded, Count
      <3> QED BY <3>2, <3>6
    <2> QED BY <1>1, <2>2, <2>3 DEF InitConnection, MoreToCreate
  <1>2. CASE InitDone
    BY <1>2, <1>s DEF InitDone
  <1>3. CASE \E t \in Threads : GetConnection(t)
    BY <1>3, GetConnectionStep
  <1>4. CASE \E t \in Threads : Prepare(t)
    BY <1>4, <1>s DEF Prepare
  <1>5. CASE \E t \in Threads : PrepareThrows(t)
    <2> PICK t \in Threads : PrepareThrows(t)
      BY <1>5
    <2>1. /\ t \in Users /\ held' = [held EXCEPT ![t] = None]
          /\ leaked' = leaked \cup {held[t]} /\ held[t] \notin leaked \cup Listed
          /\ phase = "open" /\ phase' = "open"
          /\ UNCHANGED <<connList, curSize, toCreate, refused, prepared, dead>>
          /\ UNCHANGED Listed
      BY <1>x, SameListed DEF PrepareThrows
    <2>2. /\ Users' = Users \ {t}
          /\ Cardinality(Users') = Cardinality(Users) - 1
          /\ held[t] \in Conns
          /\ \A u \in Users' : held'[u] = held[u]
      BY <2>1, StopUsing
    <2>3. Cardinality(leaked') = Cardinality(leaked) + 1
      <3>1. Cardinality(leaked \cup {held[t]}) = Cardinality(leaked) + 1
        BY <2>1, CountsAreNumbers, FS_AddElement
      <3> QED BY <2>1, <3>1
    <2>4. TypeOK'
      BY <2>1, <2>2
    <2>5. Exclusive'
      BY <1>x, <2>1, <2>2 DEF Exclusive
    <2>6. CountIsExact' /\ Bounded'
      <3>1. Count' = Count
        BY <1>f, <2>1, <2>2, <2>3 DEF Count
      <3> QED BY <2>1, <3>1 DEF CountIsExact, Bounded, Count
    <2>7. RefusedOnlyAfterLeak'
      BY <2>1 DEF RefusedOnlyAfterLeak
    <2> QED BY <2>4, <2>5, <2>6, <2>7
  <1>6. CASE \E t \in Threads : ReleaseConnection(t)
    <2> PICK t \in Threads : ReleaseConnection(t)
      BY <1>6
    <2> DEFINE c == held[t]
    <2>1. /\ t \in Users /\ held' = [held EXCEPT ![t] = None]
          /\ connList' = Append(connList, c) /\ c \notin leaked \cup Listed
          /\ phase = "open" /\ phase' = "open" /\ prepared' = prepared \ {t}
          /\ UNCHANGED <<curSize, toCreate, refused, leaked, dead>>
      BY <1>x DEF ReleaseConnection
    <2>2. /\ Users' = Users \ {t}
          /\ Cardinality(Users') = Cardinality(Users) - 1
          /\ c \in Conns
          /\ \A u \in Users' : held'[u] = held[u]
      BY <2>1, StopUsing
    <2>3. /\ connList' \in Seq(Conns)
          /\ Len(connList') = Len(connList) + 1
          /\ Listed' = Listed \cup {c}
          /\ \A i, j \in DOMAIN connList' : connList'[i] = connList'[j] => i = j
      BY <1>x, <2>1, <2>2, PutListed
    <2>4. TypeOK'
      BY <2>1, <2>2, <2>3
    <2>5. Exclusive'
      BY <1>x, <2>1, <2>2, <2>3 DEF Exclusive
    <2>6. CountIsExact' /\ Bounded'
      <3>1. Count' = Count
        BY <1>f, <2>1, <2>2, <2>3 DEF Count
      <3> QED BY <2>1, <3>1 DEF CountIsExact, Bounded, Count
    <2>7. RefusedOnlyAfterLeak'
      BY <2>1 DEF RefusedOnlyAfterLeak
    <2> QED BY <2>4, <2>5, <2>6, <2>7
  <1>7. CASE \E c \in Conns : ConnectionDies(c)
    BY <1>7, <1>s DEF ConnectionDies
  <1>8. CASE DestoryConnPool
    <2>1. /\ connList' = <<>> /\ phase' = "destroyed" /\ curSize' = 0
          /\ UNCHANGED <<held, leaked, refused, toCreate, prepared>> /\ UNCHANGED Users
          /\ dead' \in SUBSET Conns
      BY <1>8, <1>u DEF DestoryConnPool
    <2>2. Listed' = {} /\ Len(connList') = 0 /\ DOMAIN connList' = {}
      BY <2>1 DEF Listed
    <2>3. TypeOK' /\ Exclusive' /\ RefusedOnlyAfterLeak'
      BY <1>x, <2>1, <2>2 DEF Exclusive, RefusedOnlyAfterLeak
    <2>4. CountIsExact' /\ Bounded'
      BY <1>f, <2>1, <2>2 DEF CountIsExact, Bounded, Count
    <2> QED BY <2>3, <2>4
  <1>9. CASE UNCHANGED vars
    BY <1>9, <1>s DEF vars
  <1> QED BY <1>1, <1>2, <1>3, <1>4, <1>5, <1>6, <1>7, <1>8, <1>9 DEF Next

LEMMA Invariance == Spec => []Inv
  BY InvInit, InvStep, PTL DEF Spec

\* There are at most as many connections as the three places they can be in
\* hold together.
LEMMA LiveAtMostCount == Inv => Cardinality(Live) <= Count
  <1> SUFFICES ASSUME Inv PROVE Cardinality(Live) <= Count
    OBVIOUS
  <1> USE DEF Inv
  <1> DEFINE Used == {held[t] : t \in Users}
             idle == [i \in 1..Len(connList) |-> connList[i]]
             using == [t \in Users |-> held[t]]
  <1>f. /\ Len(connList) \in Nat
        /\ IsFiniteSet(Users) /\ Cardinality(Users) \in Nat
        /\ IsFiniteSet(leaked) /\ Cardinality(leaked) \in Nat
    BY CountsAreNumbers
  <1>1. IsFiniteSet(Listed) /\ Cardinality(Listed) <= Len(connList)
    <2>1. idle \in Surjection(1..Len(connList), Listed)
      <3>1. DOMAIN connList = 1..Len(connList)
        BY DEF TypeOK
      <3> QED BY <3>1 DEF Surjection, Listed
    <2>2. IsFiniteSet(1..Len(connList)) /\ Cardinality(1..Len(connList)) = Len(connList)
      <3>1. /\ IsFiniteSet(1..Len(connList))
            /\ Cardinality(1..Len(connList)) =
                  IF 1 > Len(connList) THEN 0 ELSE Len(connList) - 1 + 1
        <4>1. 1 \in Int /\ Len(connList) \in Int
          BY <1>f
        <4> QED BY <4>1, FS_Interval
      <3> QED BY <1>f, <3>1
    <2> QED BY <2>1, <2>2, FS_Surjection
  <1>2. IsFiniteSet(Used) /\ Cardinality(Used) <= Cardinality(Users)
    <2>1. using \in Surjection(Users, Used)
      BY DEF Surjection
    <2> QED BY <1>f, <2>1, FS_Surjection
  <1>3. ASSUME NEW S, NEW T, IsFiniteSet(S), IsFiniteSet(T)
        PROVE  /\ IsFiniteSet(S \cup T)
               /\ Cardinality(S \cup T) <= Cardinality(S) + Cardinality(T)
    <2>1. IsFiniteSet(S \cap T)
      BY <1>3, FS_Subset
    <2>2. /\ Cardinality(S) \in Nat /\ Cardinality(T) \in Nat
          /\ Cardinality(S \cap T) \in Nat
      BY <1>3, <2>1, FS_CardinalityType
    <2>3. /\ IsFiniteSet(S \cup T)
          /\ Cardinality(S \cup T) = Cardinality(S) + Cardinality(T) - Cardinality(S \cap T)
      BY <1>3, FS_Union
    <2> QED BY <2>2, <2>3
  <1>4. /\ IsFiniteSet(Listed \cup Used)
        /\ Cardinality(Listed \cup Used) <= Cardinality(Listed) + Cardinality(Used)
    BY <1>1, <1>2, <1>3
  <1>5. Cardinality((Listed \cup Used) \cup leaked)
          <= Cardinality(Listed \cup Used) + Cardinality(leaked)
        /\ IsFiniteSet((Listed \cup Used) \cup leaked)
    BY <1>f, <1>3, <1>4
  <1>6. /\ Cardinality(Listed) \in Nat /\ Cardinality(Used) \in Nat
        /\ Cardinality(Listed \cup Used) \in Nat
        /\ Cardinality((Listed \cup Used) \cup leaked) \in Nat
    BY <1>1, <1>2, <1>4, <1>5, FS_CardinalityType
  <1>7. Live = (Listed \cup Used) \cup leaked
    BY DEF Live
  <1>8. Cardinality((Listed \cup Used) \cup leaked)
          <= Len(connList) + Cardinality(Users) + Cardinality(leaked)
    BY <1>f, <1>1, <1>2, <1>4, <1>5, <1>6
  <1> QED BY <1>7, <1>8 DEF Count

LEMMA InvWithinMaxSize == Inv => WithinMaxSize
  <1> SUFFICES ASSUME Inv PROVE WithinMaxSize
    OBVIOUS
  <1>1. Cardinality(Live) <= Count /\ Count <= MaxSize
    BY LiveAtMostCount DEF Inv, Bounded
  <1>2. Count \in Nat /\ MaxSize \in Nat
    BY CountsAreNumbers, MysqlAssumption DEF Inv, Count
  <1>3. IsFiniteSet(Live)
    BY MysqlAssumption, FS_Subset DEF Inv, TypeOK, Live, Listed, Users
  <1>4. Cardinality(Live) \in Nat
    BY <1>3, FS_CardinalityType
  <1> QED BY <1>1, <1>2, <1>4 DEF WithinMaxSize
-----------------------------------------------------------------------------
\* The pool's members keep their types (mysql_pool.h:62-72).
THEOREM TypeCorrect == Spec => []TypeOK
  BY Invariance, PTL DEF Inv

\* For any pool size, curSize is the number of connections the pool made and
\* still answers for, whatever connects fail and whatever statements throw
\* (mysql_pool.cpp:95-154, 195-259).
THEOREM CountStaysExact == Spec => []CountIsExact
  BY Invariance, PTL DEF Inv

\* For any pool size and any number of threads there are never more
\* connections than maxSize (mysql_pool.cpp:122).
THEOREM NeverMoreThanMaxSize == Spec => []WithinMaxSize
  BY Invariance, InvWithinMaxSize, PTL

\* For any pool size no connection has two owners (mysql_pool.cpp:103-104, 151).
THEOREM ConnectionsAreExclusive == Spec => []Exclusive
  BY Invariance, PTL DEF Inv

\* With at most maxSize threads, GetConnection meets a full pool only after an
\* exception has leaked a connection (mysql_pool.cpp:138-141, 203-205, 236).
THEOREM RefusalNeedsALeak == Spec => []RefusedOnlyAfterLeak
  BY Invariance, PTL DEF Inv
-----------------------------------------------------------------------------
(***************************************************************************)
(* The pool lends connections (Lending).  Inv says that a thread without a *)
(* connection gets one nobody has, and that what it gives back is not in   *)
(* the list; each outcome of a step is then one step of Lending.           *)
(***************************************************************************)
\* What Lending knows are the connections that are not new.
LEMMA KnownIsLive ==
  ASSUME TypeOK, NEW c \in Conns
  PROVE  Pool!Known(c) <=> c \in Live
  <1>1. Pool!InUse(c) <=> \E t \in Users : held[t] = c
    BY MysqlAssumption DEF Users, Pool!InUse
  <1> QED BY <1>1 DEF Live, Pool!Known

LEMMA InitLends ==
  ASSUME Inv, InitConnection
  PROVE  [Pool!Next]_(Pool!vars)
  <1>1. UNCHANGED <<held, leaked>>
    BY DEF InitConnection
  <1>2. ASSUME NEW c \in Conns, NewConnection(c), connList' = Append(connList, c)
        PROVE  Pool!Provide(c)
    <2>1. Listed' = Listed \cup {c} /\ ~ Pool!Known(c)
      BY <1>2, PutListed, KnownIsLive DEF NewConnection, Live, Inv, Exclusive
    <2> QED BY <1>1, <2>1 DEF Pool!Provide
  <1>3. CASE UNCHANGED connList
    BY <1>1, <1>3, SameListed DEF Pool!vars
  <1> QED BY <1>2, <1>3 DEF InitConnection, Pool!Next

LEMMA GetLends ==
  ASSUME Inv, NEW t \in Threads, GetConnection(t)
  PROVE  [Pool!Next]_(Pool!vars)
  <1>1. held[t] = None /\ UNCHANGED leaked
    BY DEF GetConnection, Users
  \* The head of the list is taken.
  <1>2. ASSUME connList # <<>>, connList' = Tail(connList)
        PROVE  /\ Head(connList) \in Conns /\ Head(connList) \in Listed
               /\ Listed' = Listed \ {Head(connList)}
    BY <1>2, TakeListed DEF Inv, Exclusive
  <1>3. ASSUME NEW c \in Conns, NewConnection(c)
        PROVE  ~ Pool!Known(c)
    BY <1>3, KnownIsLive DEF NewConnection, Inv
  <1>4. CASE connList # <<>> /\ TakeOpen(t)
    <2>1. Pool!LendIdle(t, Head(connList))
      BY <1>1, <1>2, <1>4 DEF TakeOpen, Pool!LendIdle
    <2> QED BY <1>2, <1>4, <2>1 DEF TakeOpen, Pool!Next
  <1>5. CASE connList # <<>> /\ Recreate(t)
    <2>1. connList' = Tail(connList)
      BY <1>5 DEF Recreate
    <2>2. ASSUME NEW c \in Conns, NewConnection(c), held' = [held EXCEPT ![t] = c]
          PROVE  Pool!LendInstead(t, Head(connList), c)
      BY <1>1, <1>2, <1>3, <1>5, <2>1, <2>2 DEF Pool!LendInstead
    <2>3. CASE held' = [held EXCEPT ![t] = Head(connList)]
      <3>1. Pool!LendIdle(t, Head(connList))
        BY <1>1, <1>2, <1>5, <2>1, <2>3 DEF Pool!LendIdle
      <3> QED BY <1>2, <1>5, <2>1, <3>1 DEF Pool!Next
    <2>4. CASE UNCHANGED held
      <3>1. Pool!Discard({Head(connList)}) /\ {Head(connList)} \in SUBSET Conns
        BY <1>1, <1>2, <1>5, <2>1, <2>4 DEF Pool!Discard
      <3> QED BY <3>1 DEF Pool!Next
    <2>5. Head(connList) \in Conns
      BY <1>2, <1>5, <2>1
    <2> QED BY <1>5, <2>2, <2>3, <2>4, <2>5 DEF Recreate, Pool!Next
  <1>6. CASE Grow(t)
    <2>1. UNCHANGED Listed
      BY <1>6, SameListed DEF Grow
    <2>2. ASSUME NEW c \in Conns, NewConnection(c), held' = [held EXCEPT ![t] = c]
          PROVE  Pool!LendNew(t, c)
      BY <1>1, <1>3, <2>1, <2>2 DEF Pool!LendNew
    <2>3. CASE UNCHANGED held
      BY <1>1, <2>1, <2>3 DEF Pool!vars
    <2> QED BY <1>6, <2>2, <2>3 DEF Grow, Pool!Next
  <1>7. CASE UNCHANGED <<connList, held>>
    BY <1>1, <1>7, SameListed DEF Pool!vars
  <1> QED BY <1>4, <1>5, <1>6, <1>7 DEF GetConnection

LEMMA ThrowLoses ==
  ASSUME Inv, NEW t \in Threads, PrepareThrows(t)
  PROVE  Pool!Next
  <1>1. Pool!Break(t)
    BY SameListed DEF PrepareThrows, Users, Pool!Break
  <1> QED BY <1>1 DEF Pool!Next

LEMMA ReleaseReturns ==
  ASSUME Inv, NEW t \in Threads, ReleaseConnection(t)
  PROVE  Pool!Next
  <1>1. /\ held[t] # None /\ held' = [held EXCEPT ![t] = None]
        /\ connList' = Append(connList, held[t]) /\ UNCHANGED leaked
    BY DEF ReleaseConnection, Users
  <1>2. held[t] \in Conns /\ held[t] \notin Listed
    BY <1>1 DEF Inv, TypeOK, Exclusive, Users
  <1>3. Listed' = Listed \cup {held[t]}
    BY <1>1, <1>2, PutListed DEF Inv, Exclusive
  <1>4. Pool!Return(t)
    BY <1>1, <1>3 DEF Pool!Return
  <1> QED BY <1>4 DEF Pool!Next

LEMMA DestoryDiscards ==
  ASSUME Inv, DestoryConnPool
  PROVE  Pool!Next
  <1>1. Listed' = {} /\ Listed \in SUBSET Conns
    BY DEF DestoryConnPool, Listed, Inv, TypeOK
  <1>2. Pool!Discard(Listed)
    BY <1>1 DEF DestoryConnPool, Pool!Discard
  <1> QED BY <1>1, <1>2 DEF Pool!Next

LEMMA StepLends == Inv /\ [Next]_vars => [Pool!Next]_(Pool!vars)
  <1> SUFFICES ASSUME Inv, [Next]_vars PROVE [Pool!Next]_(Pool!vars)
    OBVIOUS
  <1>1. CASE UNCHANGED <<connList, held, leaked>>
    BY <1>1, SameListed DEF Pool!vars
  <1>2. ASSUME NEW t \in Threads,
               GetConnection(t) \/ PrepareThrows(t) \/ ReleaseConnection(t)
        PROVE  [Pool!Next]_(Pool!vars)
    BY <1>2, GetLends, ThrowLoses, ReleaseReturns
  <1> QED BY <1>1, <1>2, InitLends, DestoryDiscards
          DEF Next, vars, InitDone, Prepare, ConnectionDies

\* For any pool size and any threads the pool lends connections: none is handed
\* out that somebody has or that was lost, and one that is given back comes
\* from the thread that had it (mysql_pool.cpp:95-154).
THEOREM PoolLendsConnections == Spec => ImplementsLending
  <1>1. Init => Pool!Init
    BY DEF Init, Pool!Init, Listed
  <1> QED
    BY <1>1, StepLends, Invariance, PTL DEF Spec, ImplementsLending, Pool!Spec
=============================================================================
