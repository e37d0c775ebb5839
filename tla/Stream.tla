------------------------------- MODULE Stream -------------------------------
(***************************************************************************)
(* One direction of a connection: a stream of bytes that is written and    *)
(* read as if it kept records.  The writer puts one object at the start of *)
(* each write; the reader receives what is there into its buffer, over     *)
(* what was there before, and takes the first bytes of the buffer for an   *)
(* object (Client.cpp:50-100, Zepoll.h:136-164, SeqAbleObj.h:123-134).     *)
(*                                                                         *)
(* A byte is its position in the stream, and an object the position of its *)
(* first byte: what the buffer holds says which bytes of which objects     *)
(* were put together.                                                      *)
(***************************************************************************)
EXTENDS Integers

CONSTANTS
    ObjLen,         \* sizeof(TransObj): 84
    BufLen,         \* MAX_LEN_OF_SEND_BUFF, BUFFER_SIZE: 512
    Junk            \* a byte that was in the buffer before anything was read

ASSUME StreamAssumption ==
    /\ ObjLen \in Nat \ {0}
    /\ BufLen \in Nat /\ ObjLen <= BufLen
    /\ Junk \notin Int

\* What may be wrong with the objects taken, and two circumstances of a read.
\*   torn     an object was put together from bytes that are not one object
\*   lost     an object was skipped
\*   again    an object was taken that is not after the last one
\*   short    recv returned less than there was, though the buffer had room
\*   crowded  more than one object was there
Marks == {"torn", "lost", "again", "short", "crowded"}

\* end, read: bytes written and read; starts: where objects begin; buf: the part
\* of the buffer that is taken for an object; last: the last object taken.
New == [end |-> 0, starts |-> {}, read |-> 0, buf |-> [j \in 1..ObjLen |-> Junk],
        last |-> -1, marks |-> {}]

\* memcpy of an object into a buffer of which len bytes are sent.
Write(s, len) == [s EXCEPT !.end = @ + len, !.starts = @ \cup {s.end}]

Waiting(s) == s.end - s.read

\* What recv may return when something is there.
Counts(s) == {n \in 1..BufLen : n <= Waiting(s)}
IsShort(s, n) == n < BufLen /\ n < Waiting(s)

\* faulty: part of an object is left for later, and the buffer handled all the same
KeptForLater(s, n) ==
    [j \in 1..ObjLen |-> IF n >= ObjLen /\ j <= n THEN s.read + j - 1 ELSE s.buf[j]]

\* The buffer after n bytes were received.
Received(s, n) == [j \in 1..ObjLen |-> IF j <= n THEN s.read + j - 1 ELSE s.buf[j]]

IsObject(b, starts) == b[1] \in starts /\ \A j \in 1..ObjLen : b[j] = b[1] + j - 1

\* The objects there are.
Ahead(s) == {p \in s.starts : p >= s.read}

MarksOf(s, n) ==
    LET b == Received(s, n)
        p == b[1]
    IN  s.marks
          \cup {m \in {"torn"} : ~ IsObject(b, s.starts)}
          \cup {m \in {"again"} : IsObject(b, s.starts) /\ p <= s.last}
          \cup {m \in {"lost"} : IsObject(b, s.starts)
                                   /\ \E q \in s.starts : s.last < q /\ q < p}
          \cup {m \in {"short"} : IsShort(s, n)}
          \cup {m \in {"crowded"} : \E q, r \in Ahead(s) : q < r}

\* recv of n bytes and transBuff2Obj of the buffer.
Read(s, n) ==
    LET b == Received(s, n)
    IN  [s EXCEPT !.read = @ + n,
                  !.buf = b,
                  !.last = IF IsObject(b, s.starts) THEN b[1] ELSE @,
                  !.marks = MarksOf(s, n)]
-----------------------------------------------------------------------------
Streams ==
    [end : Nat, starts : SUBSET Nat, read : Nat,
     buf : [1..ObjLen -> Nat \cup {Junk}], last : Int, marks : SUBSET Marks]
=============================================================================
