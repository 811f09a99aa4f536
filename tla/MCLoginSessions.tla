-------------------------- MODULE MCLoginSessions --------------------------
(* Three sessions in a behaviour: one, its successor of the same or of another *)
(* product, and one more after a restart.                                      *)
EXTENDS LoginSessions
=============================================================================
