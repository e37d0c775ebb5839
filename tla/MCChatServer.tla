---------------------------- MODULE MCChatServer ----------------------------
(* Small instances of ChatServer: two connections, one or two workers, one    *)
(* user registered before the start.                                          *)
EXTENDS ChatServer

CONSTANTS w1, w2, ann, bob, p1, p2

MCConns == {5, 6}
OneWorker == {w1}
TwoWorkers == {w1, w2}
MCNames == {ann, bob}
OnePwd  == {p1}
TwoPwds == {p1, p2}
MCInitUsers == <<[name |-> ann, fd |-> 5, pwd |-> p1]>>
=============================================================================
