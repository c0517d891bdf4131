--------------------------- MODULE MCServerConfig ---------------------------
(* Model values for ServerConfig; every bound is set in the cfg files.      *)
EXTENDS ServerConfig
=============================================================================
