--------------------------- MODULE MCAdminSessions ---------------------------
(* Model values for AdminSessions; every bound is set in the cfg files.      *)
EXTENDS AdminSessions
=============================================================================
