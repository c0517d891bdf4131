----------------------------- MODULE MCVpnUsers -----------------------------
(* Model values for VpnUsers; every bound is set in the cfg files.          *)
EXTENDS VpnUsers, TLC

Symmetry == Permutations(Users)
=============================================================================
