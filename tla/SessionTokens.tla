---------------------------- MODULE SessionTokens ----------------------------
(***************************************************************************)
(* The session layer of the admin portal (auth.go): signed session tokens, *)
(* the per-user session epochs that invalidate them wholesale, and the     *)
(* logout blacklist that invalidates them one by one.                      *)
(*                                                                         *)
(* A token is its payload: the HMAC is a function of the payload and of a  *)
(* key that outlives restarts, so two sessions minted for the same user in *)
(* the same second, at the same epoch and with the same second-factor      *)
(* outcome are the same token, in the code as here.  A token that was not  *)
(* minted by signSession fails the HMAC check and is not modelled.         *)
(*                                                                         *)
(* Epochs and blacklist are each kept twice: in memory, and in a file that *)
(* is replaced by an atomic rename (writeFileAtomicMode).  A write fails   *)
(* before the rename or not at all, so a failed write leaves the old file. *)
(***************************************************************************)
EXTENDS Naturals, FiniteSets

CONSTANTS
    Admins,            \* the usernames of the admin htpasswd table
    sessionTTL,        \* lifetime of a session, in clock ticks
    maxRevokedTokens,  \* cap of the logout blacklist
    MaxTime            \* bound on the clock

ASSUME SessionAssumption ==
    /\ sessionTTL \in Nat
    /\ maxRevokedTokens \in Nat
    /\ MaxTime \in Nat

VARIABLES
    now,                \* the wall clock, in seconds
    sessionEpochs,      \* per-user session epoch, in memory
    sessionEpochsFile,  \* the same, in .session_epochs.json
    revokedTokens,      \* logout blacklist, in memory
    revokedTokensFile,  \* the same, in .session_blacklist.json
    issued              \* every token ever minted

sessionVars == <<now, sessionEpochs, sessionEpochsFile, revokedTokens,
                 revokedTokensFile, issued>>

Token == [User : Admins, Exp : Nat, MFA : BOOLEAN, Epoch : Nat]

SessionTypeOK ==
    /\ now \in Nat
    /\ sessionEpochs \in [Admins -> Nat]
    /\ sessionEpochsFile \in [Admins -> Nat]
    /\ revokedTokens \in SUBSET Token
    /\ revokedTokensFile \in SUBSET Token
    /\ issued \in SUBSET Token

SessionInit ==
    /\ now = 0
    /\ sessionEpochs = [u \in Admins |-> 0]
    /\ sessionEpochsFile = [u \in Admins |-> 0]
    /\ revokedTokens = {}
    /\ revokedTokensFile = {}
    /\ issued = {}

-----------------------------------------------------------------------------
(* Minting and verification *)

\* signSession embeds the epoch read at the moment of signing.
SignedPayload(user, mfaSatisfied) ==
    [User |-> user, Exp |-> now + sessionTTL, MFA |-> mfaSatisfied,
     Epoch |-> sessionEpochs[user]]

signSession(user, mfaSatisfied) ==
    issued' = issued \cup {SignedPayload(user, mfaSatisfied)}

\* The epoch and the blacklist are read under two locks, one after the other.
\* They are one step here: a live token that is not on the blacklist when it is
\* looked up was not on it when the epoch was read.
verifySessionPayload(t) ==
    /\ now <= t.Exp
    /\ t.Epoch = sessionEpochs[t.User]
    /\ t \notin revokedTokens

-----------------------------------------------------------------------------
(* Epochs *)

\* Mutant: the bump lives in memory only.
bumpUserEpochMemoryOnly(u, persisted) ==
    /\ sessionEpochs' = [sessionEpochs EXCEPT ![u] = @ + 1]
    /\ UNCHANGED sessionEpochsFile

\* Mutant: a bump that did not reach the disk is not rolled back.
bumpUserEpochNoRollback(u, persisted) ==
    /\ sessionEpochs' = [sessionEpochs EXCEPT ![u] = @ + 1]
    /\ sessionEpochsFile' = IF persisted THEN sessionEpochs' ELSE sessionEpochsFile

\* Mutant: the rollback takes back more than was added.
bumpUserEpochDoubleRollback(u, persisted) ==
    /\ sessionEpochs' = [sessionEpochs EXCEPT ![u] = IF persisted THEN @ + 1 ELSE @ - 1]
    /\ sessionEpochsFile' = IF persisted THEN sessionEpochs' ELSE sessionEpochsFile

\* Increment and persist under one hold of sessionEpochsMu; a failed write
\* rolls the increment back before the lock is released.
bumpUserEpoch(u, persisted) ==
    LET bumped == [sessionEpochs EXCEPT ![u] = @ + 1] IN
    /\ sessionEpochs' = IF persisted THEN bumped ELSE sessionEpochs
    /\ sessionEpochsFile' = IF persisted THEN bumped ELSE sessionEpochsFile

-----------------------------------------------------------------------------
(* The logout blacklist *)

Unexpired(T) == {t \in T : now <= t.Exp}

BlacklistFull(t) ==
    /\ Cardinality(Unexpired(revokedTokens)) >= maxRevokedTokens
    /\ t \notin Unexpired(revokedTokens)

\* Mutant: the sweep also drops tokens in their last second of life.
revokeTokenEagerSweep(t, persisted) ==
    LET live == {s \in revokedTokens : now + 1 <= s.Exp} IN
    /\ revokedTokens' = live \cup {t}
    /\ revokedTokensFile' = IF persisted THEN live \cup {t} ELSE revokedTokensFile

\* The part of revokeToken that runs under revokedTokensMu: sweep what has
\* expired, give up at the cap, record, persist.  A failed write leaves the
\* entry in memory: the token is dead for this process only.
revokeToken(t, persisted) ==
    LET live == Unexpired(revokedTokens) IN
    IF BlacklistFull(t)
      THEN /\ revokedTokens' = live
           /\ UNCHANGED revokedTokensFile
      ELSE /\ revokedTokens' = live \cup {t}
           /\ revokedTokensFile' =
                IF persisted THEN live \cup {t} ELSE revokedTokensFile

-----------------------------------------------------------------------------
(* Restart and time *)

\* initAuth's loads; an unreadable file stops the start (log.Fatalf).
loadSessionState ==
    /\ sessionEpochs' = sessionEpochsFile
    /\ revokedTokens' = Unexpired(revokedTokensFile)
    /\ UNCHANGED <<now, sessionEpochsFile, revokedTokensFile, issued>>

Tick ==
    /\ now < MaxTime
    /\ now' = now + 1
    /\ UNCHANGED <<sessionEpochs, sessionEpochsFile, revokedTokens,
                   revokedTokensFile, issued>>

=============================================================================
