----------------------------- MODULE MCFirewall -----------------------------
(* Model values for Firewall; every bound is set in the cfg files.          *)
EXTENDS Firewall
=============================================================================
