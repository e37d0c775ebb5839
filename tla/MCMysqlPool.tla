---------------------------- MODULE MCMysqlPool -----------------------------
(* As many workers as connections (serverInit), and one connection object     *)
(* more than the pool may have.                                               *)
EXTENDS MysqlPool, TLC

CONSTANTS t1, t2, t3, c1, c2, c3, c4

MCThreads == {t1, t2, t3}
MCConns   == {c1, c2, c3, c4}

\* Threads and connection objects have no identity of their own.
Symmetric == Permutations(MCThreads) \cup Permutations(MCConns)
=============================================================================
