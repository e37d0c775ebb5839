----------------------------- MODULE MCGameClient -----------------------------
(* One client with two names for friends, one id, and one word of each kind   *)
(* the commands come in.  The player talks, or presses the actor's keys only. *)
EXTENDS GameClient

CONSTANTS ann, bob

MCNames    == {ann, bob}
MCIds      == {1}
MCKeys     == {"enter"}
MCMoves    == {"move"}
MCCommands == {"talk", "accept"}
=============================================================================
