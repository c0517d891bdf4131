----------------------------- MODULE MCMgmtBroker -----------------------------
(* MgmtBroker, for TLC: the constants are given by the configurations. *)
EXTENDS MgmtBroker

=============================================================================
