----------------------------- MODULE MCTraffic -----------------------------
(* Model values for Traffic; every bound is set in the cfg file.            *)
EXTENDS Traffic
=============================================================================
