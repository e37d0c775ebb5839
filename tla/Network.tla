------------------------------ MODULE Network -------------------------------
(***************************************************************************)
(* The connections between clients and server: the epoll thread of the     *)
(* server (Zepoll.h), which accepts, reads and forgets connections, the    *)
(* threads that write and read the two streams of each connection          *)
(* (Client.cpp), and what the kernel keeps for them.                       *)
(*                                                                         *)
(* A connection is named after its client, and so is its descriptor: the   *)
(* server never closes one, so accept never returns a number twice.  What  *)
(* the bytes of a stream become is in Stream.  A definition marked faulty  *)
(* is a plausible error in the one after it; no action uses it.            *)
(***************************************************************************)
EXTENDS Stream, Sequences, FiniteSets

CONSTANTS
    Clients,        \* each connects once
    Listener,       \* the descriptor the server listens on
    MaxFds,         \* how many connections the process may have open
    MaxEvents,      \* MAX_EVENTS: 32
    MaxWrites,      \* bound: objects written, in both directions
    MaxShorts       \* bound: reads that return less than they could

ASSUME NetworkAssumption ==
    /\ IsFiniteSet(Clients) /\ Listener \notin Clients
    /\ MaxFds \in Nat /\ MaxEvents \in Nat \ {0}
    /\ MaxWrites \in Nat /\ MaxShorts \in Nat

VARIABLES
    peer,       \* each client's end: "away", "up", "closed" (FIN), "reset" (RST)
    backlog,    \* connections that wait to be accepted
    fds,        \* connections the server has a descriptor of
    handlers,   \* the keys of IOLoop::handlers_
    interest,   \* what epoll watches
    events,     \* what epoll_wait returned and start has not yet handled
    passed,     \* kernel: what was ready and not returned in this round
    up,         \* the stream from each client to the server
    down,       \* the stream from the server to each client
    serving,    \* the server process has not ended
    writes, shorts

epoll   == <<backlog, fds, handlers, interest, events, passed>>
streams == <<up, down, writes, shorts>>
vars    == <<peer, epoll, streams, serving>>

Descriptors == Clients \cup {Listener}

Init ==
    /\ peer = [c \in Clients |-> "away"]
    /\ backlog = <<>>
    /\ fds = {}
    /\ handlers = {Listener} /\ interest = {Listener}
    /\ events = {} /\ passed = {}
    /\ up = [c \in Clients |-> New] /\ down = [c \in Clients |-> New]
    /\ serving = TRUE
    /\ writes = 0 /\ shorts = 0
-----------------------------------------------------------------------------
(***************************************************************************)
(* The client: its process, its sender and its receiver.                   *)
(***************************************************************************)
Connect(c) ==
    /\ serving
    /\ peer[c] = "away"
    /\ peer' = [peer EXCEPT ![c] = "up"]
    /\ backlog' = Append(backlog, c)
    /\ UNCHANGED <<fds, handlers, interest, events, passed, streams, serving>>

UpLenOfObject == ObjLen     \* faulty: the object alone
UpLen == BufLen

\* Client::run sends the whole buffer, of which the object is the beginning.
ClientSends(c) ==
    /\ serving
    /\ peer[c] = "up"
    /\ writes < MaxWrites
    /\ writes' = writes + 1
    /\ up' = [up EXCEPT ![c] = Write(@, UpLen)]
    /\ UNCHANGED <<peer, epoll, down, shorts, serving>>

Counted(s, n) == shorts' = IF IsShort(s, n) THEN shorts + 1 ELSE shorts

\* Client::recvMsg
ClientReads(c) ==
    /\ peer[c] = "up"
    /\ \E n \in Counts(down[c]) :
          /\ IsShort(down[c], n) => shorts < MaxShorts
          /\ Counted(down[c], n)
          /\ down' = [down EXCEPT ![c] = Read(@, n)]
    /\ UNCHANGED <<peer, epoll, up, writes, serving>>

\* The process ends.  A connection with bytes nobody read is reset.
ClientEnds(c) ==
    /\ peer[c] = "up"
    /\ peer' = [peer EXCEPT ![c] = IF Waiting(down[c]) > 0 THEN "reset" ELSE "closed"]
    /\ UNCHANGED <<epoll, streams, serving>>
-----------------------------------------------------------------------------
\* The sender thread of the server: Client::run sends the object alone.  The
\* end of a process answers with a reset.  On a connection that was reset send
\* fails, or, when the error was already reported, raises SIGPIPE, which nothing
\* handles.
ServerSends(c) ==
    /\ serving /\ c \in fds
    /\ writes < MaxWrites
    /\ writes' = writes + 1
    /\ \/ /\ peer[c] = "up"
          /\ down' = [down EXCEPT ![c] = Write(@, ObjLen)]
          /\ UNCHANGED <<peer, serving>>
       \/ /\ peer[c] = "closed"
          /\ peer' = [peer EXCEPT ![c] = "reset"]
          /\ UNCHANGED <<down, serving>>
       \/ /\ peer[c] = "reset"
          /\ serving' \in BOOLEAN
          /\ UNCHANGED <<peer, down>>
    /\ UNCHANGED <<epoll, up, shorts>>
-----------------------------------------------------------------------------
(***************************************************************************)
(* The epoll thread.                                                       *)
(***************************************************************************)
Pending(c) == Waiting(up[c]) > 0 \/ peer[c] \in {"closed", "reset"}
Ready == {x \in interest : IF x = Listener THEN backlog # <<>> ELSE Pending(x)}
Hup(x) == x \in Clients /\ peer[x] = "reset"

\* epoll_wait: as much as is ready, up to MAX_EVENTS.  What is passed over comes
\* first the next time.
EpollWait ==
    /\ serving /\ events = {}
    /\ \E batch \in SUBSET Ready :
          /\ batch # {}
          /\ Cardinality(batch) <= MaxEvents
          /\ batch # Ready => Cardinality(batch) = MaxEvents
          /\ passed \cap Ready \subseteq batch \/ batch \subseteq passed
          /\ events' = {[fd |-> x, hup |-> Hup(x)] : x \in batch}
          /\ passed' = (IF passed \cap Ready \subseteq batch THEN Ready ELSE passed \cap Ready) \ batch
    /\ UNCHANGED <<peer, backlog, fds, handlers, interest, streams, serving>>

Handling(e) == events' = events \ {e}

\* faulty: the result of accept is not looked at
AddsMinusOne ==
    /\ handlers' = handlers \cup {-1}
    /\ UNCHANGED <<backlog, fds, interest>>
AcceptFails == UNCHANGED <<backlog, fds, handlers, interest>>

\* ServerHandler::handle: accept, and addHandler for a new EchoHandler.  Without
\* a descriptor accept fails, and the connection goes on waiting.
Accept(e) ==
    /\ serving /\ e.fd = Listener
    /\ Handling(e)
    /\ \/ /\ backlog # <<>> /\ Cardinality(fds) < MaxFds
          /\ backlog' = Tail(backlog)
          /\ fds' = fds \cup {Head(backlog)}
          /\ handlers' = handlers \cup {Head(backlog)}
          /\ interest' = interest \cup {Head(backlog)}
       \/ Cardinality(fds) >= MaxFds /\ AcceptFails
    /\ UNCHANGED <<peer, passed, streams, serving>>

Forget(c) == handlers' = handlers \ {c} /\ UNCHANGED interest  \* faulty: no EPOLL_CTL_DEL
RemoveHandler(c) ==
    /\ handlers' = handlers \ {c}
    /\ interest' = interest \ {c}

\* EchoHandler::handle, when there is something to read.
Recv(e) ==
    /\ serving /\ e.fd \in Clients /\ ~ e.hup
    /\ Handling(e)
    /\ \E n \in Counts(up[e.fd]) :
          /\ IsShort(up[e.fd], n) => shorts < MaxShorts
          /\ Counted(up[e.fd], n)
          /\ up' = [up EXCEPT ![e.fd] = Read(@, n)]
    /\ UNCHANGED <<peer, backlog, fds, handlers, interest, passed, down, writes, serving>>

OnlyErrors(c) == peer[c] = "reset"      \* faulty: received < 0
\* recv returned 0 or an error.
EndOfStream(c) == peer[c] = "reset" \/ (peer[c] = "closed" /\ Waiting(up[c]) = 0)

\* EchoHandler::handle of a connection that was reset or has ended.  The
\* descriptor stays open.
Leave(e) ==
    /\ serving /\ e.fd \in Clients
    /\ e.hup \/ EndOfStream(e.fd)
    /\ Handling(e)
    /\ RemoveHandler(e.fd)
    /\ UNCHANGED <<peer, backlog, fds, passed, streams, serving>>

EpollStep ==
    \/ EpollWait
    \/ \E e \in events : Accept(e) \/ Recv(e) \/ Leave(e)

Next ==
    \/ \E c \in Clients :
          Connect(c) \/ ClientSends(c) \/ ClientReads(c) \/ ClientEnds(c) \/ ServerSends(c)
    \/ EpollStep

Spec == Init /\ [][Next]_vars

\* The epoll thread goes on; everybody else may stop.
FairSpec == Spec /\ WF_vars(EpollStep)
-----------------------------------------------------------------------------
TypeOK ==
    /\ peer \in [Clients -> {"away", "up", "closed", "reset"}]
    /\ backlog \in Seq(Clients)
    /\ fds \in SUBSET Clients
    /\ handlers \in SUBSET Descriptors
    /\ interest \in SUBSET Descriptors
    /\ events \in SUBSET [fd : Descriptors, hup : BOOLEAN]
    /\ passed \in SUBSET Descriptors
    /\ up \in [Clients -> Streams]
    /\ down \in [Clients -> Streams]
    /\ serving \in BOOLEAN
    /\ writes \in 0..MaxWrites
    /\ shorts \in 0..MaxShorts

\* Whatever epoll_wait returned still has its handler when it is its turn, and
\* is something recv answers at once: the accepted sockets block, and a recv
\* that waits would stop the server (Zepoll.h:57-62, 85-91, 138).
EventsAreServable ==
    \A e \in events : e.fd \in handlers /\ (e.fd \in Clients => Pending(e.fd))

\* However the streams are cut into reads, no object is taken twice or before
\* an earlier one, although the reader's buffer keeps the bytes of the objects
\* before (Client.cpp:89-96, Zepoll.h:138-154).
NeverAgain ==
    \A c \in Clients : "again" \notin up[c].marks \cup down[c].marks

AllTaken(s) ==
    /\ s.marks \cap {"torn", "lost", "again"} = {}
    /\ \A p \in s.starts : p < s.read => p <= s.last

\* As long as recv returns all there is, up to the size of the buffer, the
\* server takes every request whole and in order; the client does if, besides,
\* never two answers wait for it (Client.cpp:70-96, Zepoll.h:138-154).
CompleteUnlessCut ==
    \A c \in Clients :
        /\ "short" \notin up[c].marks => AllTaken(up[c])
        /\ down[c].marks \cap {"short", "crowded"} = {} => AllTaken(down[c])

\* As long as the server process lives, a connection is accepted unless the
\* descriptors are used up; what arrives on it is read, unless it is reset, even
\* when accept fails for ever; and it is forgotten when its client has ended
\* (Zepoll.h:50-64, 111-159, 206-212).
EverybodyIsServed ==
    \A c \in Clients :
        /\ (peer[c] # "away" /\ c \notin fds) ~> (c \in fds \/ Cardinality(fds) >= MaxFds \/ ~ serving)
        /\ (c \in handlers /\ Waiting(up[c]) > 0) ~> (c \notin handlers \/ Waiting(up[c]) = 0 \/ ~ serving)
        /\ (c \in handlers /\ peer[c] # "up") ~> (c \notin handlers \/ ~ serving)
=============================================================================
