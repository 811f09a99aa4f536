---------------------------- MODULE MCCodexAuth ----------------------------
(* Small instances of CodexAuth: two accounts, two operations in progress,  *)
(* each of which may be the user's.                                         *)
EXTENDS CodexAuth, TLC

CONSTANTS a1, a2, p1, p2

MCSymmetry == Permutations({a1, a2}) \cup Permutations({p1, p2})
=============================================================================
