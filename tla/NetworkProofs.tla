--------------------------- MODULE NetworkProofs ----------------------------
(***************************************************************************)
(* Proofs about Network and the operators of Stream, for any number of     *)
(* clients and any lengths of objects and buffers.                         *)
(***************************************************************************)
EXTENDS Network, QueueLemmas, FiniteSetTheorems, TLAPS

-----------------------------------------------------------------------------
(***************************************************************************)
(* Streams.                                                                *)
(***************************************************************************)
LEMMA NewIsStream == New \in Streams
  BY StreamAssumption DEF New, Streams, Marks

LEMMA StreamParts ==
  ASSUME NEW s \in Streams
  PROVE  /\ s.end \in Nat /\ s.starts \subseteq Nat /\ s.read \in Nat
         /\ s.buf \in [1..ObjLen -> Nat \cup {Junk}]
         /\ s.last \in Int /\ s.marks \subseteq Marks
         /\ s = [end |-> s.end, starts |-> s.starts, read |-> s.read,
                 buf |-> s.buf, last |-> s.last, marks |-> s.marks]
  BY DEF Streams

LEMMA WriteFields ==
  ASSUME NEW s \in Streams, NEW len \in Nat
  PROVE  /\ Write(s, len) = [end |-> s.end + len, starts |-> s.starts \cup {s.end},
                             read |-> s.read, buf |-> s.buf, last |-> s.last,
                             marks |-> s.marks]
         /\ Write(s, len) \in Streams
  <1> DEFINE e == s.end + len
             t == s.starts \cup {s.end}
  <1>1. Write(s, len) = [s EXCEPT !.end = e, !.starts = t]
    BY DEF Write
  <1>2. e \in Nat /\ t \subseteq Nat
    BY StreamParts
  <1> HIDE DEF e, t
  <1>3. Write(s, len) = [end |-> e, starts |-> t, read |-> s.read, buf |-> s.buf,
                         last |-> s.last, marks |-> s.marks]
    BY <1>1 DEF Streams
  <1>4. Write(s, len) \in Streams
    BY <1>2, <1>3, StreamParts DEF Streams
  <1> QED BY <1>3, <1>4 DEF e, t

LEMMA CountsAreBounded ==
  ASSUME NEW s \in Streams, NEW n \in Counts(s)
  PROVE  /\ n \in Nat \ {0} /\ n <= BufLen
         /\ s.read + n <= s.end
  BY StreamAssumption DEF Counts, Waiting, Streams

\* The first byte of the buffer is always the first byte received.
LEMMA FirstByte ==
  ASSUME NEW s \in Streams, NEW n \in Counts(s)
  PROVE  /\ Received(s, n)[1] = s.read
         /\ Received(s, n) \in [1..ObjLen -> Nat \cup {Junk}]
  <1>1. n \in Nat /\ n >= 1
    BY CountsAreBounded
  <1>2. 1 \in 1..ObjLen
    BY StreamAssumption
  <1>3. s.read \in Nat /\ s.buf \in [1..ObjLen -> Nat \cup {Junk}]
    BY DEF Streams
  <1>4. Received(s, n)[1] = s.read
    BY <1>1, <1>2, <1>3 DEF Received
  <1>5. Received(s, n) \in [1..ObjLen -> Nat \cup {Junk}]
    BY <1>1, <1>3, StreamAssumption DEF Received
  <1> QED BY <1>4, <1>5

LEMMA ReadFields ==
  ASSUME NEW s \in Streams, NEW n \in Counts(s)
  PROVE  /\ Read(s, n).end = s.end
         /\ Read(s, n).starts = s.starts
         /\ Read(s, n).read = s.read + n
         /\ Read(s, n).marks = MarksOf(s, n)
         /\ Read(s, n).last = s.read \/ Read(s, n).last = s.last
         /\ IsObject(Received(s, n), s.starts) => Read(s, n).last = s.read
         /\ Read(s, n) \in Streams
  <1> DEFINE b == Received(s, n)
  <1>1. b[1] = s.read /\ b \in [1..ObjLen -> Nat \cup {Junk}]
    BY FirstByte
  <1>2. n \in Nat
    BY CountsAreBounded
  <1>3. MarksOf(s, n) \in SUBSET Marks
    <2>1. s.marks \subseteq Marks
      BY DEF Streams
    <2> QED BY <2>1 DEF MarksOf, Marks
  <1> DEFINE l == IF IsObject(b, s.starts) THEN b[1] ELSE s.last
             m == MarksOf(s, n)
  <1>4. Read(s, n) = [s EXCEPT !.read = s.read + n, !.buf = b, !.last = l, !.marks = m]
    BY DEF Read
  <1>5. l = s.read \/ l = s.last
    BY <1>1
  <1>6. IsObject(b, s.starts) => l = s.read
    BY <1>1
  <1> HIDE DEF b, l, m
  <1>7. Read(s, n) = [end |-> s.end, starts |-> s.starts, read |-> s.read + n,
                      buf |-> b, last |-> l, marks |-> m]
    BY <1>4 DEF Streams
  <1>8. l \in Int /\ s.read + n \in Nat
    BY <1>2, <1>5, StreamParts
  <1>9. Read(s, n) \in Streams
    BY <1>1, <1>3, <1>7, <1>8, StreamParts DEF Streams, m
  <1> QED BY <1>5, <1>6, <1>7, <1>9 DEF b, m
-----------------------------------------------------------------------------
(***************************************************************************)
(* Types.                                                                  *)
(***************************************************************************)
LEMMA ClientsAndListener == Clients \subseteq Descriptors /\ Listener \in Descriptors
  BY DEF Descriptors

LEMMA UpLenIsNat == UpLen \in Nat /\ ObjLen \in Nat
  BY StreamAssumption DEF UpLen

LEMMA TypeInit == Init => TypeOK
  BY NewIsStream, ClientsAndListener, NetworkAssumption DEF Init, TypeOK

LEMMA TypeStep ==
  ASSUME TypeOK, [Next]_vars
  PROVE  TypeOK'
  <1> USE DEF TypeOK
  <1>1. ASSUME NEW c \in Clients, Connect(c) PROVE TypeOK'
    BY <1>1 DEF Connect, streams
  <1>2. ASSUME NEW c \in Clients, ClientSends(c) PROVE TypeOK'
    <2>1. Write(up[c], UpLen) \in Streams
      BY WriteFields, UpLenIsNat
    <2>2. up' \in [Clients -> Streams]
      BY <1>2, <2>1 DEF ClientSends
    <2>3. writes' \in 0..MaxWrites
      BY <1>2, NetworkAssumption DEF ClientSends
    <2> QED BY <1>2, <2>2, <2>3 DEF ClientSends, epoll
  <1>3. ASSUME NEW c \in Clients, ClientReads(c) PROVE TypeOK'
    <2>1. PICK n \in Counts(down[c]) :
             /\ IsShort(down[c], n) => shorts < MaxShorts
             /\ Counted(down[c], n)
             /\ down' = [down EXCEPT ![c] = Read(@, n)]
      BY <1>3 DEF ClientReads
    <2>2. Read(down[c], n) \in Streams
      BY ReadFields
    <2>3. down' \in [Clients -> Streams]
      BY <2>1, <2>2
    <2>4. shorts' \in 0..MaxShorts
      BY <2>1, NetworkAssumption DEF Counted
    <2> QED BY <1>3, <2>3, <2>4 DEF ClientReads, epoll
  <1>4. ASSUME NEW c \in Clients, ClientEnds(c) PROVE TypeOK'
    BY <1>4 DEF ClientEnds, epoll, streams
  <1>5. ASSUME NEW c \in Clients, ServerSends(c) PROVE TypeOK'
    <2>1. Write(down[c], ObjLen) \in Streams
      BY WriteFields, UpLenIsNat
    <2>2. down' \in [Clients -> Streams]
      BY <1>5, <2>1 DEF ServerSends
    <2>3. peer' \in [Clients -> {"away", "up", "closed", "reset"}]
      BY <1>5 DEF ServerSends
    <2>4. writes' \in 0..MaxWrites
      BY <1>5, NetworkAssumption DEF ServerSends
    <2>5. serving' \in BOOLEAN
      BY <1>5, Zenon DEF ServerSends
    <2> QED BY <1>5, <2>2, <2>3, <2>4, <2>5 DEF ServerSends, epoll
  <1>6. CASE EpollWait
    <2>1. Ready \in SUBSET Descriptors
      BY DEF Ready
    <2>2. PICK batch \in SUBSET Ready :
             /\ events' = {[fd |-> x, hup |-> Hup(x)] : x \in batch}
             /\ passed' = (IF passed \cap Ready \subseteq batch THEN Ready
                           ELSE passed \cap Ready) \ batch
      BY <1>6 DEF EpollWait
    <2>3. \A x : Hup(x) \in BOOLEAN
      BY DEF Hup
    <2>4. events' \in SUBSET [fd : Descriptors, hup : BOOLEAN]
      BY <2>1, <2>2, <2>3
    <2>5. passed' \in SUBSET Descriptors
      BY <2>1, <2>2
    <2> QED BY <1>6, <2>4, <2>5 DEF EpollWait, streams
  <1>7. ASSUME NEW e \in events, Accept(e) PROVE TypeOK'
    <2>1. CASE backlog # <<>> /\ Cardinality(fds) < MaxFds
                 /\ backlog' = Tail(backlog)
                 /\ fds' = fds \cup {Head(backlog)}
                 /\ handlers' = handlers \cup {Head(backlog)}
                 /\ interest' = interest \cup {Head(backlog)}
      <3>1. Head(backlog) \in Clients /\ Tail(backlog) \in Seq(Clients)
        BY <2>1
      <3> QED BY <1>7, <2>1, <3>1, ClientsAndListener DEF Accept, Handling, streams
    <2>2. CASE AcceptFails
      BY <1>7, <2>2 DEF Accept, Handling, AcceptFails, streams
    <2> QED BY <1>7, <2>1, <2>2 DEF Accept
  <1>8. ASSUME NEW e \in events, Recv(e) PROVE TypeOK'
    <2>1. e.fd \in Clients
      BY <1>8 DEF Recv
    <2>2. PICK n \in Counts(up[e.fd]) :
             /\ IsShort(up[e.fd], n) => shorts < MaxShorts
             /\ Counted(up[e.fd], n)
             /\ up' = [up EXCEPT ![e.fd] = Read(@, n)]
      BY <1>8 DEF Recv
    <2>3. Read(up[e.fd], n) \in Streams
      BY <2>1, ReadFields
    <2>4. up' \in [Clients -> Streams]
      BY <2>1, <2>2, <2>3
    <2>5. shorts' \in 0..MaxShorts
      BY <2>2, NetworkAssumption DEF Counted
    <2> QED BY <1>8, <2>4, <2>5 DEF Recv, Handling
  <1>9. ASSUME NEW e \in events, Leave(e) PROVE TypeOK'
    BY <1>9 DEF Leave, Handling, RemoveHandler, streams
  <1>10. CASE UNCHANGED vars
    BY <1>10 DEF vars, epoll, streams
  <1> QED BY <1>1, <1>2, <1>3, <1>4, <1>5, <1>6, <1>7, <1>8, <1>9, <1>10
          DEF Next, EpollStep

\* The variables keep their types, the streams of all connections included.
THEOREM TypeCorrect == Spec => []TypeOK
  BY TypeInit, TypeStep, PTL DEF Spec
-----------------------------------------------------------------------------
(***************************************************************************)
(* Events.                                                                 *)
(***************************************************************************)

\* Watched are exactly the descriptors with a handler, and a descriptor has at
\* most one event: what an earlier event of a batch does to its own descriptor
\* is no concern of the later ones.
EventsInv ==
    /\ interest = handlers
    /\ \A e, f \in events : e.fd = f.fd => e = f
    /\ EventsAreServable

\* More bytes, or an end of the client, leave what was pending pending.
LEMMA StillServable ==
  ASSUME TypeOK, EventsInv, UNCHANGED <<interest, handlers, events>>,
         \A c \in Clients : Pending(c) => Pending(c)'
  PROVE  EventsInv'
  BY DEF EventsInv, EventsAreServable

LEMMA EventsInit == Init => EventsInv
  BY DEF Init, EventsInv, EventsAreServable

LEMMA EventsStep ==
  ASSUME TypeOK, EventsInv, [Next]_vars
  PROVE  EventsInv'
  <1>1. ASSUME NEW c \in Clients, Connect(c) PROVE EventsInv'
    BY <1>1, StillServable DEF Connect, streams, Pending, Waiting, TypeOK
  <1>2. ASSUME NEW c \in Clients, ClientSends(c) PROVE EventsInv'
    <2>1. up' = [up EXCEPT ![c] = Write(@, UpLen)] /\ up[c] \in Streams
      BY <1>2 DEF ClientSends, TypeOK
    <2>2. Write(up[c], UpLen).end = up[c].end + UpLen /\ Write(up[c], UpLen).read = up[c].read
      BY <2>1, WriteFields, UpLenIsNat
    <2>3. up[c].end \in Nat /\ up[c].read \in Nat
      BY <2>1, StreamParts
    <2>4. Waiting(up[c]) > 0 => Waiting(up'[c]) > 0
      BY <2>1, <2>2, <2>3, UpLenIsNat DEF Waiting, TypeOK
    <2>5. \A d \in Clients : Pending(d) => Pending(d)'
      BY <1>2, <2>1, <2>4 DEF Pending, ClientSends, TypeOK
    <2> QED BY <1>2, <2>5, StillServable DEF ClientSends, epoll
  <1>3. ASSUME NEW c \in Clients, ClientReads(c) PROVE EventsInv'
    BY <1>3, StillServable DEF ClientReads, epoll, Pending, Waiting
  <1>4. ASSUME NEW c \in Clients, ClientEnds(c) PROVE EventsInv'
    <2>1. \A d \in Clients : Pending(d) => Pending(d)'
      BY <1>4 DEF ClientEnds, streams, Pending, Waiting, TypeOK
    <2> QED BY <1>4, <2>1, StillServable DEF ClientEnds, epoll
  <1>5. ASSUME NEW c \in Clients, ServerSends(c) PROVE EventsInv'
    <2>1. \A d \in Clients : Pending(d) => Pending(d)'
      BY <1>5 DEF ServerSends, Pending, Waiting, TypeOK
    <2> QED BY <1>5, <2>1, StillServable DEF ServerSends, epoll
  <1>6. CASE EpollWait
    <2>1. PICK batch \in SUBSET Ready : events' = {[fd |-> x, hup |-> Hup(x)] : x \in batch}
      BY <1>6 DEF EpollWait
    <2>2. UNCHANGED <<interest, handlers, peer, up>>
      BY <1>6 DEF EpollWait, streams
    <2>3. \A e \in events' : e.fd \in batch /\ e = [fd |-> e.fd, hup |-> Hup(e.fd)]
      BY <2>1
    <2>4. \A x \in batch : x \in handlers /\ (x \in Clients => Pending(x))
      BY NetworkAssumption DEF Ready, EventsInv
    <2>5. \A e, f \in events' : e.fd = f.fd => e = f
      BY <2>3
    <2>6. EventsAreServable'
      BY <2>2, <2>3, <2>4 DEF EventsAreServable, Pending, Waiting
    <2> QED BY <2>2, <2>5, <2>6 DEF EventsInv
  <1>7. ASSUME NEW e \in events, Accept(e) PROVE EventsInv'
    <2>1. interest' = handlers' /\ handlers \subseteq handlers'
      BY <1>7 DEF Accept, AcceptFails, EventsInv
    <2>2. events' \subseteq events /\ UNCHANGED <<peer, up>>
      BY <1>7 DEF Accept, Handling, streams
    <2> QED BY <2>1, <2>2 DEF EventsInv, EventsAreServable, Pending, Waiting
  <1>8. ASSUME NEW e \in events, Recv(e) PROVE EventsInv'
    <2>1. events' = events \ {e} /\ UNCHANGED <<peer, handlers, interest>>
      BY <1>8 DEF Recv, Handling
    <2>2. \A f \in events' : f.fd # e.fd
      BY <2>1 DEF EventsInv
    <2>3. \A d \in Clients : d # e.fd => up'[d] = up[d]
      BY <1>8 DEF Recv, TypeOK
    <2>4. \A f \in events' : f.fd \in Clients => Pending(f.fd)'
      <3> SUFFICES ASSUME NEW f \in events', f.fd \in Clients PROVE Pending(f.fd)'
        OBVIOUS
      <3>1. f \in events /\ Pending(f.fd)
        BY <2>1 DEF EventsInv, EventsAreServable
      <3>2. up'[f.fd] = up[f.fd]
        BY <2>2, <2>3
      <3> QED BY <2>1, <3>1, <3>2 DEF Pending, Waiting
    <2> QED BY <2>1, <2>4 DEF EventsInv, EventsAreServable
  <1>9. ASSUME NEW e \in events, Leave(e) PROVE EventsInv'
    <2>1. /\ events' = events \ {e} /\ UNCHANGED <<peer, up>>
          /\ handlers' = handlers \ {e.fd} /\ interest' = interest \ {e.fd}
      BY <1>9 DEF Leave, Handling, RemoveHandler, streams
    <2>2. \A f \in events' : f.fd # e.fd
      BY <2>1 DEF EventsInv
    <2> QED BY <2>1, <2>2 DEF EventsInv, EventsAreServable, Pending, Waiting
  <1>10. CASE UNCHANGED vars
    BY <1>10, StillServable DEF vars, epoll, streams, Pending, Waiting
  <1> QED BY <1>1, <1>2, <1>3, <1>4, <1>5, <1>6, <1>7, <1>8, <1>9, <1>10
          DEF Next, EpollStep

\* For any number of connections, an event is handled by a handler that exists
\* and by a recv that does not wait.
THEOREM EventsStayServable == Spec => []EventsAreServable
  <1>1. Init => TypeOK /\ EventsInv
    BY TypeInit, EventsInit
  <1>2. TypeOK /\ EventsInv /\ [Next]_vars => (TypeOK /\ EventsInv)'
    BY TypeStep, EventsStep
  <1>3. EventsInv => EventsAreServable
    BY DEF EventsInv
  <1> QED BY <1>1, <1>2, <1>3, PTL DEF Spec
-----------------------------------------------------------------------------
(***************************************************************************)
(* Connections.                                                            *)
(***************************************************************************)

\* A connection waits in the backlog, once, or has a descriptor, and there are
\* never more descriptors than there can be (Zepoll.h:50-64).
WaitingOrAccepted ==
    /\ Distinct(backlog)
    /\ Elements(backlog) \cap fds = {}
    /\ \A c \in Clients : peer[c] # "away" <=> c \in Elements(backlog) \cup fds
    /\ Cardinality(fds) <= MaxFds

\* The server listens as long as it lives, handles only what it accepted, and
\* forgets a connection only when it was reset, or when its client has ended and
\* everything it sent was received (Zepoll.h:77-159, 206-212).
ForgottenAtTheEnd ==
    /\ Listener \in handlers
    /\ handlers \subseteq fds \cup {Listener}
    /\ \A c \in fds \ handlers : EndOfStream(c)

\* EPOLLHUP is reported of connections that were reset, which they stay.
HupsAreResets == \A e \in events : e.hup => e.fd \in Clients /\ peer[e.fd] = "reset"

ConnectionsInv == WaitingOrAccepted /\ ForgottenAtTheEnd /\ HupsAreResets

LEMMA ConnectionsInit == Init => ConnectionsInv
  <1> SUFFICES ASSUME Init PROVE ConnectionsInv
    OBVIOUS
  <1>1. WaitingOrAccepted
    BY EmptyElements, FS_EmptySet, NetworkAssumption DEF Init, WaitingOrAccepted
  <1> QED BY <1>1 DEF Init, ConnectionsInv, ForgottenAtTheEnd, HupsAreResets

\* What only ends connections, or resets those that have ended, keeps all this.
LEMMA StillConnected ==
  ASSUME TypeOK, ConnectionsInv, UNCHANGED <<epoll, up>>,
         \A c \in Clients :
            \/ peer'[c] = peer[c]
            \/ peer[c] = "up" /\ peer'[c] # "away"
            \/ peer[c] = "closed" /\ peer'[c] = "reset"
  PROVE  ConnectionsInv'
  <1>1. UNCHANGED <<backlog, fds, handlers, events>>
    BY DEF epoll
  <1>2. \A c \in Clients : (peer[c] # "away" <=> peer'[c] # "away")
                           /\ (peer[c] = "reset" => peer'[c] = "reset")
    BY DEF ConnectionsInv
  <1>3. WaitingOrAccepted'
    BY <1>1, <1>2 DEF ConnectionsInv, WaitingOrAccepted
  <1>4. \A c \in Clients : EndOfStream(c) => EndOfStream(c)'
    BY DEF EndOfStream, Waiting
  <1>5. ForgottenAtTheEnd'
    BY <1>1, <1>4 DEF ConnectionsInv, ForgottenAtTheEnd, TypeOK
  <1>6. HupsAreResets'
    BY <1>1, <1>2 DEF ConnectionsInv, HupsAreResets
  <1> QED BY <1>3, <1>5, <1>6 DEF ConnectionsInv

LEMMA ConnectionsStep ==
  ASSUME TypeOK, EventsInv, ConnectionsInv, [Next]_vars
  PROVE  ConnectionsInv'
  <1>1. ASSUME NEW c \in Clients, Connect(c) PROVE ConnectionsInv'
    <2>1. /\ peer[c] = "away" /\ peer' = [peer EXCEPT ![c] = "up"]
          /\ backlog' = Append(backlog, c)
          /\ UNCHANGED <<fds, handlers, events, up>>
      BY <1>1 DEF Connect, streams
    <2>2. c \notin Elements(backlog) \cup fds
      BY <2>1 DEF ConnectionsInv, WaitingOrAccepted
    <2>3. Elements(backlog') = Elements(backlog) \cup {c} /\ Distinct(backlog')
      BY <2>1, <2>2, AppendElements, AppendDistinct
         DEF TypeOK, ConnectionsInv, WaitingOrAccepted
    <2>4. WaitingOrAccepted'
      BY <2>1, <2>2, <2>3 DEF TypeOK, ConnectionsInv, WaitingOrAccepted
    <2>5. \A d \in fds : EndOfStream(d) => EndOfStream(d)'
      BY <2>1, <2>2 DEF EndOfStream, Waiting, TypeOK
    <2>6. ForgottenAtTheEnd'
      BY <2>1, <2>5 DEF ConnectionsInv, ForgottenAtTheEnd
    <2>7. HupsAreResets'
      BY <2>1 DEF ConnectionsInv, HupsAreResets, TypeOK
    <2> QED BY <2>4, <2>6, <2>7 DEF ConnectionsInv
  <1>2. ASSUME NEW c \in Clients, ClientSends(c) PROVE ConnectionsInv'
    <2>1. /\ peer[c] = "up" /\ up' = [up EXCEPT ![c] = Write(@, UpLen)]
          /\ UNCHANGED <<peer, backlog, fds, handlers, events>>
      BY <1>2 DEF ClientSends, epoll
    <2>2. \A d \in Clients : EndOfStream(d) => EndOfStream(d)'
      BY <2>1 DEF EndOfStream, Waiting, TypeOK
    <2>3. ForgottenAtTheEnd'
      BY <2>1, <2>2 DEF ConnectionsInv, ForgottenAtTheEnd, TypeOK
    <2> QED BY <2>1, <2>3 DEF ConnectionsInv, WaitingOrAccepted, HupsAreResets
  <1>3. ASSUME NEW c \in Clients, ClientReads(c) PROVE ConnectionsInv'
    BY <1>3, StillConnected DEF ClientReads
  <1>4. ASSUME NEW c \in Clients, ClientEnds(c) PROVE ConnectionsInv'
    <2>1. \A d \in Clients : peer'[d] = peer[d] \/ (peer[d] = "up" /\ peer'[d] # "away")
      BY <1>4 DEF ClientEnds, TypeOK
    <2> QED BY <1>4, <2>1, StillConnected DEF ClientEnds, streams
  <1>5. ASSUME NEW c \in Clients, ServerSends(c) PROVE ConnectionsInv'
    <2>1. \A d \in Clients : peer'[d] = peer[d] \/ (peer[d] = "closed" /\ peer'[d] = "reset")
      BY <1>5 DEF ServerSends, TypeOK
    <2> QED BY <1>5, <2>1, StillConnected DEF ServerSends
  <1>6. CASE EpollWait
    <2>1. PICK batch \in SUBSET Ready : events' = {[fd |-> x, hup |-> Hup(x)] : x \in batch}
      BY <1>6 DEF EpollWait
    <2>2. UNCHANGED <<peer, backlog, fds, handlers, up>>
      BY <1>6 DEF EpollWait, streams
    <2>3. \A e \in events' : \E x \in batch : e = [fd |-> x, hup |-> Hup(x)]
      BY <2>1
    <2>4. \A e \in events' : e.hup => Hup(e.fd)
      BY <2>3
    <2>5. HupsAreResets'
      BY <2>2, <2>4 DEF HupsAreResets, Hup
    <2> QED BY <2>2, <2>5
            DEF ConnectionsInv, WaitingOrAccepted, ForgottenAtTheEnd, EndOfStream, Waiting
  <1>7. ASSUME NEW e \in events, Accept(e) PROVE ConnectionsInv'
    <2>1. events' \subseteq events /\ UNCHANGED <<peer, up>>
      BY <1>7 DEF Accept, Handling, streams
    <2>2. HupsAreResets'
      BY <2>1 DEF ConnectionsInv, HupsAreResets
    <2>3. \A d \in Clients : EndOfStream(d) => EndOfStream(d)'
      BY <2>1 DEF EndOfStream, Waiting
    <2>4. CASE UNCHANGED <<backlog, fds, handlers>>
      BY <2>1, <2>2, <2>3, <2>4
         DEF ConnectionsInv, WaitingOrAccepted, ForgottenAtTheEnd, EndOfStream, Waiting
    <2>5. CASE /\ backlog # <<>> /\ Cardinality(fds) < MaxFds
               /\ backlog' = Tail(backlog)
               /\ fds' = fds \cup {Head(backlog)}
               /\ handlers' = handlers \cup {Head(backlog)}
      <3> DEFINE h == Head(backlog)
      <3>1. backlog \in Seq(Clients) /\ h \in Clients
        BY <2>5 DEF TypeOK
      <3>2. /\ Distinct(Tail(backlog))
            /\ Elements(Tail(backlog)) = Elements(backlog) \ {h}
            /\ h \in Elements(backlog)
        BY <2>5, <3>1, TailDistinct, TailElements DEF ConnectionsInv, WaitingOrAccepted
      <3>3. h \notin fds
        BY <3>2 DEF ConnectionsInv, WaitingOrAccepted
      <3>4. Cardinality(fds') <= MaxFds
        <4>1. IsFiniteSet(fds)
          BY FS_Subset, NetworkAssumption DEF TypeOK
        <4>2. Cardinality(fds) \in Nat /\ Cardinality(fds \cup {h}) = Cardinality(fds) + 1
          BY <3>3, <4>1, FS_AddElement, FS_CardinalityType
        <4> QED BY <2>5, <4>2, NetworkAssumption
      <3> HIDE DEF h
      <3>5. WaitingOrAccepted'
        BY <2>1, <2>5, <3>1, <3>2, <3>3, <3>4 DEF ConnectionsInv, WaitingOrAccepted, h
      <3>6. ForgottenAtTheEnd'
        BY <2>3, <2>5, <3>1 DEF ConnectionsInv, ForgottenAtTheEnd, TypeOK, h
      <3> QED BY <2>2, <3>5, <3>6 DEF ConnectionsInv
    <2> QED BY <1>7, <2>4, <2>5 DEF Accept, AcceptFails
  <1>8. ASSUME NEW e \in events, Recv(e) PROVE ConnectionsInv'
    <2>1. /\ events' \subseteq events
          /\ UNCHANGED <<peer, backlog, fds, handlers>>
          /\ e.fd \in handlers
      BY <1>8 DEF Recv, Handling, EventsInv, EventsAreServable
    <2>2. \A d \in Clients : d # e.fd => up'[d] = up[d]
      BY <1>8 DEF Recv, TypeOK
    <2>3. \A d \in fds \ handlers : EndOfStream(d) => EndOfStream(d)'
      BY <2>1, <2>2 DEF EndOfStream, Waiting, TypeOK
    <2>4. ForgottenAtTheEnd'
      BY <2>1, <2>3 DEF ConnectionsInv, ForgottenAtTheEnd
    <2> QED BY <2>1, <2>4 DEF ConnectionsInv, WaitingOrAccepted, HupsAreResets
  <1>9. ASSUME NEW e \in events, Leave(e) PROVE ConnectionsInv'
    <2>1. /\ e.fd \in Clients /\ events' \subseteq events
          /\ handlers' = handlers \ {e.fd}
          /\ UNCHANGED <<peer, backlog, fds, up>>
      BY <1>9 DEF Leave, Handling, RemoveHandler, streams
    <2>2. EndOfStream(e.fd)
      BY <1>9 DEF Leave, EndOfStream, ConnectionsInv, HupsAreResets
    <2>3. \A d \in Clients : EndOfStream(d) => EndOfStream(d)'
      BY <2>1 DEF EndOfStream, Waiting
    <2>4. ForgottenAtTheEnd'
      BY <2>1, <2>2, <2>3, NetworkAssumption DEF ConnectionsInv, ForgottenAtTheEnd, TypeOK
    <2> QED BY <2>1, <2>4 DEF ConnectionsInv, WaitingOrAccepted, HupsAreResets
  <1>10. CASE UNCHANGED vars
    BY <1>10, StillConnected DEF vars, streams
  <1> QED BY <1>1, <1>2, <1>3, <1>4, <1>5, <1>6, <1>7, <1>8, <1>9, <1>10
          DEF Next, EpollStep

\* No connection is lost on its way: it waits to be accepted or has one of at
\* most MaxFds descriptors, and its handler is dropped only when nothing it sent
\* is left to be received or it was reset.
THEOREM ConnectionsAreKept == Spec => [](WaitingOrAccepted /\ ForgottenAtTheEnd)
  <1>1. Init => TypeOK /\ EventsInv /\ ConnectionsInv
    BY TypeInit, EventsInit, ConnectionsInit
  <1>2. TypeOK /\ EventsInv /\ ConnectionsInv /\ [Next]_vars
           => (TypeOK /\ EventsInv /\ ConnectionsInv)'
    BY TypeStep, EventsStep, ConnectionsStep
  <1>3. ConnectionsInv => WaitingOrAccepted /\ ForgottenAtTheEnd
    BY DEF ConnectionsInv
  <1> QED BY <1>1, <1>2, <1>3, PTL DEF Spec
-----------------------------------------------------------------------------
(***************************************************************************)
(* What is taken out of a stream.                                          *)
(***************************************************************************)
InOrder(s) == s.last < s.read /\ "again" \notin s.marks

\* The stream is a row of writes of len bytes.
Spaced(s, len) ==
    /\ \A p \in s.starts : p < s.end /\ (p + len \in s.starts \/ p + len = s.end)
    /\ \A p, q \in s.starts : p < q => p + len <= q

\* Reading stands between two writes, and all before was taken.
Whole(s) ==
    /\ s.read \in s.starts \/ s.read = s.end
    /\ AllTaken(s)

LEMMA NewIsWhole ==
  ASSUME NEW len \in Nat
  PROVE  InOrder(New) /\ Spaced(New, len) /\ Whole(New)
  BY DEF New, InOrder, Spaced, Whole, AllTaken

LEMMA WriteKeeps ==
  ASSUME NEW s \in Streams, NEW len \in Nat \ {0}
  PROVE  /\ Write(s, len).marks = s.marks
         /\ InOrder(s) => InOrder(Write(s, len))
         /\ Spaced(s, len) => Spaced(Write(s, len), len)
         /\ Spaced(s, len) /\ Whole(s) => Whole(Write(s, len))
  <1> DEFINE w == Write(s, len)
  <1>1. /\ w.end = s.end + len /\ w.starts = s.starts \cup {s.end}
        /\ w.read = s.read /\ w.last = s.last /\ w.marks = s.marks
    BY WriteFields
  <1>2. s.end \in Nat /\ s.starts \subseteq Nat /\ s.read \in Nat /\ s.last \in Int
    BY StreamParts
  <1> HIDE DEF w
  <1>3. Spaced(s, len) => Spaced(w, len)
    BY <1>1, <1>2 DEF Spaced
  <1>4. Spaced(s, len) /\ Whole(s) => Whole(w)
    <2> SUFFICES ASSUME Spaced(s, len), Whole(s) PROVE Whole(w)
      OBVIOUS
    <2>1. s.read <= s.end
      BY <1>2 DEF Spaced, Whole
    <2>2. \A p \in w.starts : p < w.read => p <= w.last
      BY <1>1, <1>2, <2>1 DEF Whole, AllTaken
    <2> QED BY <1>1, <2>2 DEF Whole, AllTaken
  <1> QED BY <1>1, <1>3, <1>4 DEF InOrder, w

LEMMA ReadInOrder ==
  ASSUME NEW s \in Streams, NEW n \in Counts(s), InOrder(s)
  PROVE  InOrder(Read(s, n))
  <1>1. s.read \in Nat /\ s.last \in Int /\ n \in Nat \ {0}
    BY StreamParts, CountsAreBounded
  <1>2. Received(s, n)[1] = s.read
    BY FirstByte
  <1>3. "again" \notin MarksOf(s, n)
    BY <1>1, <1>2 DEF MarksOf, InOrder
  <1>4. Read(s, n).last < Read(s, n).read
    BY <1>1, ReadFields DEF InOrder
  <1> QED BY <1>3, <1>4, ReadFields DEF InOrder

LEMMA ReadKeepsSpaced ==
  ASSUME NEW s \in Streams, NEW n \in Counts(s), NEW len \in Nat, Spaced(s, len)
  PROVE  Spaced(Read(s, n), len)
  BY ReadFields DEF Spaced

\* There is a write to read.
LEMMA AtAStart ==
  ASSUME NEW s \in Streams, NEW n \in Counts(s), Whole(s)
  PROVE  s.read \in s.starts
  BY CountsAreBounded, StreamParts DEF Whole

\* A read of exactly one write takes the object in it, and no other.
LEMMA ReadWhole ==
  ASSUME NEW s \in Streams, NEW n \in Counts(s),
         InOrder(s), Whole(s), Spaced(s, n), ObjLen <= n
  PROVE  Whole(Read(s, n))
  <1> DEFINE b == Received(s, n)
             t == Read(s, n)
  <1>1. /\ s.read \in s.starts /\ n \in Nat \ {0} /\ ObjLen \in Nat \ {0}
        /\ s.starts \subseteq Nat /\ s.read \in Nat /\ s.last \in Int /\ s.end \in Nat
    BY AtAStart, StreamParts, CountsAreBounded, StreamAssumption
  <1>2. b[1] = s.read
    BY FirstByte
  <1>3. \A j \in 1..ObjLen : b[j] = s.read + j - 1
    BY <1>1 DEF Received
  <1>4. IsObject(b, s.starts)
    BY <1>1, <1>2, <1>3 DEF IsObject
  <1>5. /\ t.end = s.end /\ t.starts = s.starts /\ t.read = s.read + n
        /\ t.last = s.read /\ t.marks = MarksOf(s, n)
    BY <1>4, ReadFields
  <1>6. ~ \E q \in s.starts : s.last < q /\ q < b[1]
    BY <1>1, <1>2 DEF Whole, AllTaken
  <1>7. "again" \notin MarksOf(s, n)
    BY <1>1, <1>2 DEF MarksOf, InOrder
  <1>8. MarksOf(s, n) \cap {"torn", "lost", "again"} = {}
    BY <1>4, <1>6, <1>7 DEF MarksOf, Whole, AllTaken
  <1>9. t.read \in t.starts \/ t.read = t.end
    BY <1>1, <1>5 DEF Spaced
  <1>10. \A p \in t.starts : p < t.read => p <= t.last
    BY <1>1, <1>5 DEF Spaced
  <1> QED BY <1>5, <1>8, <1>9, <1>10 DEF Whole, AllTaken

\* A client sends whole buffers: recv gets one, or is short.
LEMMA UpCount ==
  ASSUME NEW s \in Streams, NEW n \in Counts(s),
         Whole(s), Spaced(s, BufLen), ~ IsShort(s, n)
  PROVE  n = BufLen
  <1>1. /\ s.read \in s.starts /\ s.starts \subseteq Nat /\ s.read \in Nat /\ s.end \in Nat
        /\ n \in Nat /\ n <= BufLen /\ BufLen \in Nat
    BY AtAStart, StreamParts, CountsAreBounded, StreamAssumption
  <1>2. s.read + BufLen <= s.end
    BY <1>1 DEF Spaced
  <1> QED BY <1>1, <1>2 DEF IsShort, Waiting

\* The server sends objects: recv gets one, or is short, or there are two.
LEMMA DownCount ==
  ASSUME NEW s \in Streams, NEW n \in Counts(s),
         Whole(s), Spaced(s, ObjLen), ~ IsShort(s, n),
         ~ \E q, r \in Ahead(s) : q < r
  PROVE  n = ObjLen
  <1>1. /\ s.read \in s.starts /\ s.starts \subseteq Nat /\ s.read \in Nat /\ s.end \in Nat
        /\ n \in Nat /\ n <= BufLen /\ BufLen \in Nat /\ ObjLen \in Nat \ {0}
        /\ ObjLen <= BufLen /\ s.read + n <= s.end
    BY AtAStart, StreamParts, CountsAreBounded, StreamAssumption
  <1>2. s.read + ObjLen = s.end
    <2>1. s.read + ObjLen \notin s.starts
      BY <1>1 DEF Ahead
    <2> QED BY <1>1, <2>1 DEF Spaced
  <1> QED BY <1>1, <1>2 DEF IsShort, Waiting

UpInv(s) ==
    /\ InOrder(s) /\ Spaced(s, BufLen)
    /\ "short" \notin s.marks => Whole(s)

DownInv(s) ==
    /\ InOrder(s) /\ Spaced(s, ObjLen)
    /\ s.marks \cap {"short", "crowded"} = {} => Whole(s)

LEMMA WriteUp ==
  ASSUME NEW s \in Streams, UpInv(s)
  PROVE  UpInv(Write(s, BufLen))
  BY WriteKeeps, StreamAssumption DEF UpInv

LEMMA WriteDown ==
  ASSUME NEW s \in Streams, DownInv(s)
  PROVE  DownInv(Write(s, ObjLen))
  BY WriteKeeps, StreamAssumption DEF DownInv

LEMMA ReadUp ==
  ASSUME NEW s \in Streams, UpInv(s), NEW n \in Counts(s)
  PROVE  UpInv(Read(s, n))
  <1>1. InOrder(Read(s, n)) /\ Spaced(Read(s, n), BufLen)
    BY ReadInOrder, ReadKeepsSpaced, StreamAssumption DEF UpInv
  <1>2. ASSUME "short" \notin Read(s, n).marks PROVE Whole(Read(s, n))
    <2>1. "short" \notin s.marks /\ ~ IsShort(s, n)
      BY <1>2, ReadFields DEF MarksOf
    <2>2. n = BufLen
      BY <2>1, UpCount DEF UpInv
    <2> QED BY <2>1, <2>2, ReadWhole, StreamAssumption DEF UpInv
  <1> QED BY <1>1, <1>2 DEF UpInv

LEMMA ReadDown ==
  ASSUME NEW s \in Streams, DownInv(s), NEW n \in Counts(s)
  PROVE  DownInv(Read(s, n))
  <1>1. InOrder(Read(s, n)) /\ Spaced(Read(s, n), ObjLen)
    BY ReadInOrder, ReadKeepsSpaced, StreamAssumption DEF DownInv
  <1>2. ASSUME Read(s, n).marks \cap {"short", "crowded"} = {} PROVE Whole(Read(s, n))
    <2>1. /\ s.marks \cap {"short", "crowded"} = {} /\ ~ IsShort(s, n)
          /\ ~ \E q, r \in Ahead(s) : q < r
      BY <1>2, ReadFields DEF MarksOf
    <2>2. n = ObjLen
      BY <2>1, DownCount DEF DownInv
    <2> QED BY <2>1, <2>2, ReadWhole, StreamAssumption DEF DownInv
  <1> QED BY <1>1, <1>2 DEF DownInv
-----------------------------------------------------------------------------
StreamsInv == \A c \in Clients : UpInv(up[c]) /\ DownInv(down[c])

LEMMA StreamsInit == Init => StreamsInv
  BY NewIsWhole, StreamAssumption DEF Init, StreamsInv, UpInv, DownInv

LEMMA StreamsStep ==
  ASSUME TypeOK, StreamsInv, [Next]_vars
  PROVE  StreamsInv'
  <1>1. ASSUME NEW c \in Clients, ClientSends(c) PROVE StreamsInv'
    <2>1. UpInv(Write(up[c], UpLen))
      BY WriteUp DEF TypeOK, StreamsInv, UpLen
    <2> QED BY <1>1, <2>1 DEF ClientSends, TypeOK, StreamsInv
  <1>2. ASSUME NEW c \in Clients, ClientReads(c) PROVE StreamsInv'
    <2>1. PICK n \in Counts(down[c]) : down' = [down EXCEPT ![c] = Read(@, n)]
      BY <1>2 DEF ClientReads
    <2>2. DownInv(Read(down[c], n))
      BY ReadDown DEF TypeOK, StreamsInv
    <2> QED BY <1>2, <2>1, <2>2 DEF ClientReads, TypeOK, StreamsInv
  <1>3. ASSUME NEW c \in Clients, ServerSends(c) PROVE StreamsInv'
    <2>1. DownInv(Write(down[c], ObjLen))
      BY WriteDown DEF TypeOK, StreamsInv
    <2>2. up' = up /\ (down' = down \/ down' = [down EXCEPT ![c] = Write(@, ObjLen)])
      BY <1>3 DEF ServerSends
    <2> QED BY <2>1, <2>2 DEF TypeOK, StreamsInv
  <1>4. ASSUME NEW e \in events, Recv(e) PROVE StreamsInv'
    <2>1. PICK n \in Counts(up[e.fd]) : up' = [up EXCEPT ![e.fd] = Read(@, n)]
      BY <1>4 DEF Recv
    <2>2. UpInv(Read(up[e.fd], n))
      BY <1>4, ReadUp DEF Recv, TypeOK, StreamsInv
    <2> QED BY <1>4, <2>1, <2>2 DEF Recv, TypeOK, StreamsInv
  <1>5. ASSUME UNCHANGED <<up, down>> PROVE StreamsInv'
    BY <1>5 DEF StreamsInv
  <1>6. ASSUME NEW c \in Clients, Connect(c) \/ ClientEnds(c) PROVE UNCHANGED <<up, down>>
    BY <1>6 DEF Connect, ClientEnds, streams
  <1>7. EpollWait => UNCHANGED <<up, down>>
    BY DEF EpollWait, streams
  <1>8. ASSUME NEW e \in events, Accept(e) \/ Leave(e) PROVE UNCHANGED <<up, down>>
    BY <1>8 DEF Accept, Leave, streams
  <1>9. UNCHANGED vars => UNCHANGED <<up, down>>
    BY DEF vars, streams
  <1> QED BY <1>1, <1>2, <1>3, <1>4, <1>5, <1>6, <1>7, <1>8, <1>9 DEF Next, EpollStep

LEMMA StreamsAlways == Spec => [](TypeOK /\ StreamsInv)
  <1>1. Init => TypeOK /\ StreamsInv
    BY TypeInit, StreamsInit
  <1>2. TypeOK /\ StreamsInv /\ [Next]_vars => (TypeOK /\ StreamsInv)'
    BY TypeStep, StreamsStep
  <1> QED BY <1>1, <1>2, PTL DEF Spec

\* For any lengths and any cuts, no object is taken twice or out of order.
THEOREM ObjectsAreTakenOnce == Spec => []NeverAgain
  <1>1. TypeOK /\ StreamsInv => NeverAgain
    BY DEF StreamsInv, UpInv, DownInv, InOrder, NeverAgain
  <1> QED BY <1>1, StreamsAlways, PTL

\* For any lengths: without short reads every request is taken whole and in
\* order, and so is every answer if no two of them wait together.
THEOREM TakenWhole == Spec => []CompleteUnlessCut
  <1>1. TypeOK /\ StreamsInv => CompleteUnlessCut
    BY DEF StreamsInv, UpInv, DownInv, Whole, CompleteUnlessCut
  <1> QED BY <1>1, StreamsAlways, PTL
=============================================================================
