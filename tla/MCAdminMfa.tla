----------------------------- MODULE MCAdminMfa -----------------------------
(* Model values for the runs of AdminMfa; the login slots are alike. *)
EXTENDS AdminMfa, TLC

LoginSymmetry == Permutations(Loginers)
=============================================================================
