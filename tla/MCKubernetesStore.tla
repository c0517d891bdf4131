-------------------------- MODULE MCKubernetesStore --------------------------
(* Model values for KubernetesStore; every bound is set in the cfg files.   *)
EXTENDS KubernetesStore
=============================================================================
