----------------------------- MODULE MCRedisPool -----------------------------
(* Three workers, and one context object more than they can need.             *)
EXTENDS RedisPool, TLC

CONSTANTS t1, t2, t3, c1, c2, c3, c4

MCThreads  == {t1, t2, t3}
MCContexts == {c1, c2, c3, c4}

\* Threads and context objects have no identity of their own.
Symmetric == Permutations(MCThreads) \cup Permutations(MCContexts)
=============================================================================
