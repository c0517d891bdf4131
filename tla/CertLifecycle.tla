---------------------------- MODULE CertLifecycle ----------------------------
(***************************************************************************)
(* What a certificate store promises to the rest of the program, whichever *)
(* backend keeps the certificates (storage.Store): a certificate that was  *)
(* reported as withdrawn (revoked, rotated out or deleted) does not pass   *)
(* OpenVPN's check of the CRL until an unrevoke of its user is requested.  *)
(***************************************************************************)
CONSTANT Certs      \* the certificates that can ever be issued

VARIABLES
    issued,         \* certificates that were signed
    usable,         \* those that the published CRL does not list
    withdrawn       \* those that were reported as withdrawn

vars == <<issued, usable, withdrawn>>

Init ==
    /\ issued = {}
    /\ usable = {}
    /\ withdrawn = {}

\* BuildClient, or the new certificate of RotateClient.
Issue(c) ==
    /\ c \in Certs \ issued
    /\ issued' = issued \cup {c}
    /\ usable' = usable \cup {c}
    /\ UNCHANGED withdrawn

\* A new CRL is in force; it lists every withdrawn certificate.
Publish(S) ==
    /\ S \subseteq issued \ withdrawn
    /\ usable' = S
    /\ UNCHANGED <<issued, withdrawn>>

\* The operation is reported, after the CRL took effect.
Withdraw(c) ==
    /\ c \in issued \ usable
    /\ withdrawn' = withdrawn \cup {c}
    /\ UNCHANGED <<issued, usable>>

\* UnrevokeClient is called.
Readmit(C) ==
    /\ withdrawn' = withdrawn \ C
    /\ UNCHANGED <<issued, usable>>

Next ==
    \/ \E c \in Certs : Issue(c) \/ Withdraw(c)
    \/ \E S \in SUBSET Certs : Publish(S) \/ Readmit(S)

Spec == Init /\ [][Next]_vars
=============================================================================
