------------------------- MODULE MCEngineWorkerHost -------------------------
(* Small instances of EngineWorkerHost: the two calls may be a token POST and a *)
(* quota GET in either order.                                                   *)
EXTENDS EngineWorkerHost

CONSTANTS c1, c2, w1, w2

=============================================================================
