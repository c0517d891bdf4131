---------------------------- MODULE MCCcdRoutes ----------------------------
(* Model values for CcdRoutes: d1 resolves to a1, d2 never resolves.         *)
EXTENDS CcdRoutes, TLC

CONSTANTS d1, d2, a1

MCZone == d1 :> {a1} @@ d2 :> {}
Symmetry == Permutations(Users)
=============================================================================
