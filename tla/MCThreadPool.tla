---------------------------- MODULE MCThreadPool ----------------------------
(* A pool of three workers and two submitting threads.  One of the four jobs  *)
(* never returns.                                                             *)
EXTENDS ThreadPool

CONSTANTS w1, w2, w3, s1, s2, j1, j2, j3, j4

MCWorkers    == {w1, w2, w3}
MCSubmitters == {s1, s2}
MCJobs       == {j1, j2, j3, j4}
OneForever   == {j1}
=============================================================================
