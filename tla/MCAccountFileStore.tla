------------------------ MODULE MCAccountFileStore ------------------------
(***************************************************************************)
(* Four worlds: everything is called and goes wrong while the account      *)
(* files themselves are safe; any file is damaged while nothing fails; and *)
(* the repair of a damaged account is killed, or fails as well.            *)
(***************************************************************************)
EXTENDS AccountFileStore, TLC

CONSTANTS a1, a2

MCSymmetry == Permutations(Accts)

AllKinds == {"save", "upsert", "point", "delete", "drop", "read", "load", "peek", "sync"}
Damage == [kinds |-> AllKinds, trouble |-> {}, tearable |-> Files]
Repair(trouble) ==
  [kinds |-> {"save", "upsert", "load", "read", "peek"}, trouble |-> trouble, tearable |-> Accts]
MCWorlds ==
  {[kinds |-> AllKinds, trouble |-> {"crash", "fail", "lock"}, tearable |-> {Index}],
   Damage, Repair({"crash"}), Repair({"crash", "fail", "lock"})}
DamageAlone == {Damage}
=============================================================================
