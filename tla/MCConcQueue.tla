---------------------------- MODULE MCConcQueue -----------------------------
(* The send queue of the server (Communication/inc/Client.h, msgs) with one   *)
(* more consumer of each kind than the program starts.                        *)
EXTENDS ConcQueue

CONSTANTS w1, w2, s1, s2, g1, y1, e1, e2, v1, v2, p

MCPushers == {w1, w2}
MCPoppers == {s1, s2}
MCLoggers == {g1}
MCTryers  == {y1}
MCClosers == {e1, e2}
MCValues  == {v1, v2, p}
=============================================================================
