---------------------------- MODULE MCNetwork -----------------------------
(* Three clients of whom two are served; objects of 2 bytes, buffers of 5:    *)
(* as with 84 and 512 a buffer holds several objects and the start of one.    *)
EXTENDS Network

CONSTANTS c1, c2, c3

MCClients == {c1, c2, c3}
=============================================================================
