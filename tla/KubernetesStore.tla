--------------------------- MODULE KubernetesStore ---------------------------
(***************************************************************************)
(* The certificate store on Kubernetes secrets (kubernetes.go,             *)
(* store_kubernetes.go).  Every certificate is a secret; the user's name   *)
(* is one of its labels, the time of its revocation an annotation, the     *)
(* user's CCD one of its data fields.  index.txt and the CRL are built     *)
(* from a list of these secrets, put into a secret of their own and copied *)
(* to the disk, where OpenVPN reads the CRL.                               *)
(*                                                                         *)
(* Each of these steps is an API call of its own.  The API server refuses  *)
(* an update of a secret that has changed since it was read; the secrets   *)
(* of index.txt and the CRL are overwritten whatever they hold.  A call    *)
(* can fail, before or after it took effect, and the process can crash     *)
(* between two calls; run() rebuilds what it needs at the start.           *)
(*                                                                         *)
(* Passwords and tunnels belong to module VpnUsers.  Of a CCD only its     *)
(* place is modelled here (its content: module CcdRoutes), and not the     *)
(* copy that updateCcdOnDisk makes of it.                                  *)
(***************************************************************************)
EXTENDS Naturals, Sequences

CONSTANTS
    Users,         \* common names
    Ccds,          \* contents that a CCD can be given
    CertReqs,      \* slots for operations on certificates, the renewal among them
    CcdReqs,       \* slots for saves of a CCD
    MaxSerials,    \* bound on the certificates that are ever signed
    MaxRequests,   \* bound on the requests (the renewal is not counted)
    MaxFailures,   \* bound on API calls and writes that fail
    MaxCrashes     \* bound on crashes

ASSUME KubernetesStoreAssumption ==
    /\ MaxSerials \in Nat /\ MaxRequests \in Nat /\ MaxFailures \in Nat /\ MaxCrashes \in Nat
    /\ CertReqs \cap CcdReqs = {} /\ CertReqs # {}
    /\ "none" \notin Users \cup Ccds /\ "clean" \notin Ccds

VARIABLES
    secrets,       \* the secret of each certificate
    idxSecret,     \* the secret of index.txt
    idxDisk,       \* pki/index.txt
    crlSecret,     \* the secret of the CRL: the serials it lists
    crlDisk,       \* pki/crl.pem
    RevokedCerts,  \* the serials of the CRL that was built last (in memory)
    up,            \* the process is running
    req,           \* the requests in flight
    started, failures, crashes,
    out,           \* history: serials that were reported as withdrawn
    good,          \* history: users last reported as active
    saved          \* history: the CCD last reported as saved for a user, or "none"

store == <<secrets, idxSecret, idxDisk, crlSecret, crlDisk>>
counters == <<started, failures, crashes>>
history == <<out, good, saved>>
vars == <<store, RevokedCerts, up, req, counters, history>>

Reqs == CertReqs \cup CcdReqs
Serials == 1 .. MaxSerials
Archived == "REVOKED-"          \* the label of secrets that were rotated out or deleted
NoSecret == [name |-> "none", revokedAt |-> FALSE, ccd |-> "none", version |-> 0]
Secret == [name : Users \cup {Archived, "none"}, revokedAt : BOOLEAN,
           ccd : Ccds \cup {"clean", "none"}, version : Nat]
Issued == {s \in Serials : secrets[s] # NoSecret}
Usable == Issued \ crlDisk

\* secretsGetByLabels("name=" + u)
Named(u) == {s \in Serials : secrets[s].name = u}

\* indexTxtUpdate, easyrsaGenCRL: what they make of the list of secrets.
IndexTxt == [s \in Serials |-> [name |-> secrets[s].name, revokedAt |-> secrets[s].revokedAt]]
Revoked == {s \in Serials : secrets[s].revokedAt}

indexTxtUpdate == <<"listIndex", "putIndex">>
easyrsaGenCRL == indexTxtUpdate \o <<"listRevoked", "putCrl">>

\* Mutant: the renewed CRL is not copied to the disk.
RegenerateCRLUnpublished == easyrsaGenCRL
RegenerateCRL == easyrsaGenCRL \o <<"crlDisk">>

easyrsaBuildClient == <<"absent", "create">> \o indexTxtUpdate \o <<"indexDisk">>
SaveCcd == <<"getCcd", "putCcd", "ccdDisk">>
Withdrawal ==
    indexTxtUpdate \o <<"indexDisk">> \o easyrsaGenCRL \o <<"verify", "crlDisk", "answer">>

\* The calls of each operation, in order.
Path == [
    create   |-> <<"check">> \o easyrsaBuildClient \o SaveCcd,
    revoke   |-> <<"check", "get", "stamp">> \o Withdrawal,
    unrevoke |-> <<"check", "get", "clear">> \o indexTxtUpdate \o <<"indexDisk">>
                     \o RegenerateCRL,
    rotate   |-> <<"check", "get", "archive">> \o easyrsaBuildClient \o SaveCcd \o Withdrawal,
    delete   |-> <<"check", "get", "archive">> \o Withdrawal,
    renew    |-> RegenerateCRL,
    saveCcd  |-> SaveCcd,
    run      |-> indexTxtUpdate \o RegenerateCRL \o <<"crlDisk", "indexDisk", "ccdDisk">>]

NoIndex == [s \in Serials |-> [name |-> "none", revokedAt |-> FALSE]]
Idle == [op |-> "renew", user |-> "none", pc |-> 0, serial |-> 0, copy |-> NoSecret, old |-> 0,
         ccd |-> "none", alone |-> TRUE, keep |-> "none", index |-> NoIndex, crl |-> {}]

Init ==
    /\ secrets = [s \in Serials |-> NoSecret]
    /\ idxSecret = NoIndex /\ idxDisk = NoIndex
    /\ crlSecret = {} /\ crlDisk = {} /\ RevokedCerts = {}
    /\ up = TRUE
    /\ req = [r \in Reqs |-> Idle]
    /\ started = 0 /\ failures = 0 /\ crashes = 0
    /\ out = {} /\ good = {}
    /\ saved = [u \in Users |-> "none"]

At(r, step) == req[r].pc > 0 /\ Path[req[r].op][req[r].pc] = step

\* The certificate an operation withdraws: a rotation has gone on to the new one.
Withdrawing(e) == IF e.op = "rotate" THEN e.old ELSE e.serial
-----------------------------------------------------------------------------
(* Progress of a request *)

\* The operations that write a user's CCD, and whether one of them is under way.
WritesCcd == {"create", "rotate", "saveCcd"}
Replacing(u) == \E r \in Reqs : req[r].pc > 0 /\ req[r].op \in WritesCcd /\ req[r].user = u

Report(r, e) ==
    /\ req' = [req EXCEPT ![r] = Idle]
    /\ out' = IF e.op \in {"revoke", "rotate", "delete"} THEN out \cup {Withdrawing(e)} ELSE out
    /\ good' = IF e.op \in {"create", "unrevoke", "rotate"} THEN good \cup {e.user} ELSE good
    /\ saved' = IF e.op \in {"saveCcd", "rotate"} /\ e.alone
                THEN [saved EXCEPT ![e.user] = IF e.op = "rotate" THEN e.keep ELSE e.ccd]
                ELSE saved
    /\ UNCHANGED up

Abort(r) == req' = [req EXCEPT ![r] = Idle] /\ UNCHANGED <<up, history>>

\* The call is done; e is what the request knows now.
Continue(r, e) ==
    IF e.pc = Len(Path[e.op])
    THEN Report(r, e)
    ELSE req' = [req EXCEPT ![r] = [e EXCEPT !.pc = @ + 1]] /\ UNCHANGED <<up, history>>

SeedingCcd(r) == req[r].op = "create" /\ \E s \in {"getCcd", "putCcd", "ccdDisk"} : At(r, s)

\* Mutant: a CRL that was not rebuilt is not reported by an unrevoke (F36).
FailedSwallowed(r) ==
    CASE SeedingCcd(r)                                -> Report(r, req[r])
      [] req[r].op = "run" /\ At(r, "ccdDisk")        -> Report(r, req[r])
      [] req[r].op = "run" /\ ~At(r, "ccdDisk")       -> /\ up' = FALSE
                                                         /\ req' = [o \in Reqs |-> Idle]
                                                         /\ UNCHANGED history
      [] req[r].op = "unrevoke" /\ At(r, "putCrl")    -> Continue(r, req[r])
      [] OTHER                                        -> Abort(r)

\* The call has failed.  The seed of a new user's CCD and the CCD files at the start
\* are optional; any other failure ends a start, or is reported.
Failed(r) ==
    CASE SeedingCcd(r)                                -> Report(r, req[r])
      [] req[r].op = "run" /\ At(r, "ccdDisk")        -> Report(r, req[r])
      [] req[r].op = "run" /\ ~At(r, "ccdDisk")       -> /\ up' = FALSE
                                                         /\ req' = [o \in Reqs |-> Idle]
                                                         /\ UNCHANGED history
      [] OTHER                                        -> Abort(r)

Fault == failures < MaxFailures /\ failures' = failures + 1 /\ UNCHANGED <<started, crashes>>

\* A call that only reads: it fails, or the request goes on with what it learned.
Reads(r, e) ==
    /\ \/ Continue(r, e) /\ UNCHANGED counters
       \/ Failed(r) /\ Fault
    /\ UNCHANGED store

\* A call that changes v to new: it fails, with or without effect, or is done.
Writes(r, v, new) ==
    \/ v' = new /\ Continue(r, req[r]) /\ UNCHANGED counters
    \/ v' \in {v, new} /\ Failed(r) /\ Fault

\* The call is refused.
Refused(r) == Failed(r) /\ UNCHANGED <<store, counters>>
-----------------------------------------------------------------------------
(* Handlers start; an administrator's request is bounded by MaxRequests. *)

\* Nothing is served before run has returned.
Serving == up /\ \A r \in Reqs : req[r].pc > 0 => req[r].op # "run"

Start(r, op, u, ccd) ==
    /\ Serving /\ req[r].pc = 0
    /\ (op = "saveCcd") <=> (r \in CcdReqs)
    /\ (op = "saveCcd") <=> (ccd # "clean")
    /\ started < MaxRequests
    /\ op \in {"create", "rotate"} => Issued # Serials
    /\ started' = started + 1
    /\ req' = [o \in Reqs |->
                 IF o = r THEN [Idle EXCEPT !.op = op, !.user = u, !.pc = 1, !.ccd = ccd,
                                            !.alone = ~Replacing(u),
                                            !.keep = IF op = "rotate" THEN saved[u] ELSE "none"]
                 ELSE IF op \in WritesCcd /\ req[o].user = u
                 THEN [req[o] EXCEPT !.alone = FALSE]
                 ELSE req[o]]
    /\ out' = IF op = "unrevoke" THEN out \ Named(u) ELSE out
    /\ good' = IF op \in {"revoke", "unrevoke", "rotate", "delete"} THEN good \ {u} ELSE good
    /\ saved' = IF op \in WritesCcd \cup {"delete"} THEN [saved EXCEPT ![u] = "none"] ELSE saved
    /\ UNCHANGED <<store, RevokedCerts, up, failures, crashes>>

\* crlRenewalLoop: the ticker fires.
RenewalTick(r) ==
    /\ Serving /\ req[r].pc = 0 /\ r \in CertReqs
    /\ req' = [req EXCEPT ![r] = [Idle EXCEPT !.pc = 1]]
    /\ UNCHANGED <<store, RevokedCerts, up, counters, history>>

\* run, before any handler
Boot(r) ==
    /\ ~up /\ r \in CertReqs
    /\ up' = TRUE
    /\ req' = [req EXCEPT ![r] = [Idle EXCEPT !.op = "run", !.pc = 1]]
    /\ UNCHANGED <<store, RevokedCerts, counters, history>>

Crash ==
    /\ up
    /\ crashes < MaxCrashes
    /\ crashes' = crashes + 1
    /\ up' = FALSE
    /\ RevokedCerts' = {}
    /\ req' = [r \in Reqs |-> Idle]
    /\ UNCHANGED <<store, started, failures, history>>

\* userListHandler copies the secret of index.txt to the disk.
ListUsers ==
    /\ Serving
    /\ idxDisk' = idxSecret
    /\ UNCHANGED <<secrets, idxSecret, crlSecret, crlDisk, RevokedCerts, up, req, counters,
                   history>>
-----------------------------------------------------------------------------
(* Secrets of certificates *)

\* checkUserExist reads index.txt on the disk; userCreate holds createUserMutex.
Check(r) ==
    /\ At(r, "check")
    /\ req[r].op = "create" =>
           \A o \in Reqs \ {r} : req[o].op = "create" => req[o].pc <= 1
    /\ IF (\E s \in Serials : idxDisk[s].name = req[r].user) = (req[r].op # "create")
       THEN Continue(r, req[r]) ELSE Failed(r)
    /\ UNCHANGED <<store, RevokedCerts, counters>>

\* secretGetByLabels refuses when there is no such secret, and when there are two.
Get(r) ==
    /\ At(r, "get")
    /\ \/ \E s \in Named(req[r].user) :
             /\ Named(req[r].user) = {s}
             /\ Reads(r, [req[r] EXCEPT !.serial = s, !.copy = secrets[s]])
       \/ (\A s \in Named(req[r].user) : Named(req[r].user) # {s}) /\ Refused(r)
    /\ UNCHANGED RevokedCerts

\* Mutant: updates are made without the version that was read.
ConflictNever(r) == FALSE
Conflict(r) == secrets[req[r].serial].version # req[r].copy.version

\* The update of the secret that the request has read.
Update(r, new) ==
    LET s == req[r].serial IN
    /\ \/ /\ ~Conflict(r)
          /\ Writes(r, secrets, [secrets EXCEPT ![s] = [new EXCEPT !.version = @ + 1]])
          /\ UNCHANGED <<idxSecret, idxDisk, crlSecret, crlDisk>>
       \/ Conflict(r) /\ Refused(r)
    /\ UNCHANGED RevokedCerts

\* easyrsaRevoke: a secret that is marked already is not updated again.
Stamp(r) ==
    /\ At(r, "stamp")
    /\ IF req[r].copy.revokedAt
       THEN Continue(r, req[r]) /\ UNCHANGED <<store, RevokedCerts, counters>>
       ELSE Update(r, [req[r].copy EXCEPT !.revokedAt = TRUE])

\* easyrsaUnrevoke
Clear(r) == At(r, "clear") /\ Update(r, [req[r].copy EXCEPT !.revokedAt = FALSE])

\* easyrsaRotate, easyrsaDelete: the secret gets a unique label and is revoked for good.
Archive(r) ==
    /\ At(r, "archive")
    /\ Update(r, [req[r].copy EXCEPT !.name = Archived, !.revokedAt = TRUE])

\* Mutant: a certificate is built whether or not the user has one.
AbsentUnchecked(r) ==
    /\ At(r, "absent")
    /\ Continue(r, req[r])
    /\ UNCHANGED <<store, RevokedCerts, counters>>

\* easyrsaBuildClient goes on when the user has no secret - or when the call fails.
Absent(r) ==
    /\ At(r, "absent")
    /\ \/ /\ \E s \in Serials : Named(req[r].user) = {s}
          /\ Refused(r)
       \/ /\ \A s \in Serials : Named(req[r].user) # {s}
          /\ Continue(r, req[r]) /\ UNCHANGED <<store, counters>>
       \/ /\ Continue(r, req[r]) /\ Fault /\ UNCHANGED store
    /\ UNCHANGED RevokedCerts

Create(r) ==
    LET fresh == Serials \ Issued IN
    /\ At(r, "create")
    /\ \E s \in fresh :
          /\ \A t \in fresh : s <= t
          /\ Writes(r, secrets, [secrets EXCEPT ![s] = [NoSecret EXCEPT !.name = req[r].user,
                                                                       !.version = 1]])
    /\ UNCHANGED <<idxSecret, idxDisk, crlSecret, crlDisk, RevokedCerts>>

\* Mutant: a rotated user starts with an empty CCD.
TransferredNothing(q, secret) == IF q.op = "rotate" THEN "none" ELSE q.ccd

\* What SaveCcd is to put: transferRoutes takes it from the secret that was rotated out.
Transferred(q, secret) == IF q.op = "rotate" THEN secret.ccd ELSE q.ccd

\* secretUpdateCcd reads the secret of the name; a rotation without a CCD skips it.
GetCcd(r) ==
    LET q == req[r]
        content == Transferred(q, q.copy)
    IN
    /\ At(r, "getCcd")
    /\ IF content = "none"
       THEN /\ req' = [req EXCEPT ![r].pc = @ + Len(SaveCcd), ![r].old = q.serial]
            /\ UNCHANGED <<store, up, counters, history>>
       ELSE IF \E s \in Serials : Named(q.user) = {s}
       THEN \E s \in Named(q.user) :
                Reads(r, [q EXCEPT !.old = q.serial, !.serial = s, !.copy = secrets[s],
                                   !.ccd = content])
       ELSE Refused(r)
    /\ UNCHANGED RevokedCerts

PutCcd(r) == At(r, "putCcd") /\ Update(r, [req[r].copy EXCEPT !.ccd = req[r].ccd])

\* updateCcdOnDisk; what it writes is not modelled.
CcdDisk(r) == At(r, "ccdDisk") /\ Reads(r, req[r]) /\ UNCHANGED RevokedCerts
-----------------------------------------------------------------------------
(* index.txt and the CRL *)

ListIndex(r) ==
    /\ At(r, "listIndex")
    /\ Reads(r, [req[r] EXCEPT !.index = IndexTxt])
    /\ UNCHANGED RevokedCerts

PutIndex(r) ==
    /\ At(r, "putIndex")
    /\ Writes(r, idxSecret, req[r].index)
    /\ UNCHANGED <<secrets, idxDisk, crlSecret, crlDisk, RevokedCerts>>

IndexDisk(r) ==
    /\ At(r, "indexDisk")
    /\ Writes(r, idxDisk, idxSecret)
    /\ UNCHANGED <<secrets, idxSecret, crlSecret, crlDisk, RevokedCerts>>

\* The list is remembered in memory before the CRL is put.
ListRevoked(r) ==
    /\ At(r, "listRevoked")
    /\ \/ /\ RevokedCerts' = Revoked
          /\ Continue(r, [req[r] EXCEPT !.crl = Revoked])
          /\ UNCHANGED counters
       \/ Failed(r) /\ Fault /\ UNCHANGED RevokedCerts
    /\ UNCHANGED store

PutCrl(r) ==
    /\ At(r, "putCrl")
    /\ Writes(r, crlSecret, req[r].crl)
    /\ UNCHANGED <<secrets, idxSecret, idxDisk, crlDisk, RevokedCerts>>

\* verifyRevokedInCRL: after a rotation the secret in question is the old one.
Verify(r) ==
    /\ At(r, "verify")
    /\ IF Withdrawing(req[r]) \in RevokedCerts THEN Continue(r, req[r]) ELSE Failed(r)
    /\ UNCHANGED <<store, RevokedCerts, counters>>

CrlDisk(r) ==
    /\ At(r, "crlDisk")
    /\ Writes(r, crlDisk, crlSecret)
    /\ UNCHANGED <<secrets, idxSecret, idxDisk, crlSecret, RevokedCerts>>

\* userRevoke, userRotate and userDelete answer when the store is done.
AnswerDone(r) ==
    /\ At(r, "answer")
    /\ Continue(r, req[r])
    /\ UNCHANGED <<store, RevokedCerts, counters>>

Step(r) ==
    \/ Check(r) \/ Get(r) \/ Stamp(r) \/ Clear(r) \/ Archive(r) \/ Absent(r) \/ Create(r)
    \/ GetCcd(r) \/ PutCcd(r) \/ CcdDisk(r)
    \/ ListIndex(r) \/ PutIndex(r) \/ IndexDisk(r)
    \/ ListRevoked(r) \/ PutCrl(r) \/ Verify(r) \/ CrlDisk(r)
    \/ AnswerDone(r)

Next ==
    \/ \E r \in Reqs :
          \/ Step(r) \/ RenewalTick(r) \/ Boot(r)
          \/ \E op \in {"create", "revoke", "unrevoke", "rotate", "delete", "saveCcd"},
                u \in Users, c \in Ccds \cup {"clean"} : Start(r, op, u, c)
    \/ ListUsers \/ Crash

Spec == Init /\ [][Next]_vars

\* Handlers run on, the process is started again when it has stopped, and the
\* renewal's ticker keeps firing.  Nobody has to send a request.
FairSpec ==
    /\ Spec
    /\ \A r \in Reqs : WF_vars(Step(r))
    /\ \A r \in CertReqs : WF_vars(Boot(r)) /\ WF_vars(RenewalTick(r))
-----------------------------------------------------------------------------
(* The values the variables range over; a secret that was archived is        *)
(* revoked (easyrsaRotate and easyrsaDelete set revokedAt in the same        *)
(* update).                                                                  *)
TypeOK ==
    /\ secrets \in [Serials -> Secret]
    /\ \A s \in Serials : secrets[s].name = Archived => secrets[s].revokedAt
    /\ {idxSecret, idxDisk} \subseteq
           [Serials -> [name : Users \cup {Archived, "none"}, revokedAt : BOOLEAN]]
    /\ crlSecret \subseteq Serials /\ crlDisk \subseteq Serials /\ RevokedCerts \subseteq Serials
    /\ up \in BOOLEAN
    /\ \A r \in Reqs : /\ req[r].op \in DOMAIN Path
                       /\ req[r].pc \in 0 .. Len(Path[req[r].op])
                       /\ req[r].serial \in 0 .. MaxSerials /\ req[r].old \in 0 .. MaxSerials
                       /\ req[r].crl \subseteq Serials /\ req[r].alone \in BOOLEAN
                       /\ req[r].copy \in Secret
    /\ started \in 0 .. MaxRequests /\ failures \in 0 .. MaxFailures
    /\ crashes \in 0 .. MaxCrashes
    /\ out \subseteq Issued /\ good \subseteq Users
    /\ saved \in [Users -> Ccds \cup {"none"}]

(* The store keeps the promise of CertLifecycle, whichever call fails and    *)
(* wherever the process crashes, also while CCDs are being saved: what was   *)
(* reported as revoked, rotated out or deleted stays out until somebody asks *)
(* for an unrevoke, and a retry of a revoke that stopped half way completes  *)
(* it (F35).                                                                 *)
Lifecycle == INSTANCE CertLifecycle WITH
    Certs <- Serials,
    issued <- Issued,
    usable <- Usable,
    withdrawn <- out

ImplementsLifecycle == Lifecycle!Spec

(* A user who was reported as created, unrevoked or rotated has one secret,  *)
(* is listed as valid, and the CRL on the disk lets its certificate pass     *)
(* (F36: an unrevoke whose CRL was not rebuilt is not reported).             *)
ActiveIsConnectable ==
    \A u \in good : \E s \in Usable :
        /\ Named(u) = {s}
        /\ ~secrets[s].revokedAt
        /\ idxSecret[s] = [name |-> u, revokedAt |-> FALSE]

(* The CCD that was last reported as saved stays with the user: through      *)
(* revoke and unrevoke, and onto the new certificate of a rotation that was  *)
(* reported (transferRoutes), whatever failed in between.  (Nothing is said  *)
(* of a save that overlaps the creation or a rotation of its user, nor after *)
(* a rotation that failed: these may lose the CCD.)                          *)
CcdKept ==
    \A u \in good : saved[u] # "none" =>
        \A s \in Named(u) : secrets[s].ccd = saved[u]

(* Every revocation that reached its secret reaches the CRL that OpenVPN     *)
(* reads, also when the request failed or the process crashed right after:   *)
(* the renewal (F40) or the next start completes it.                         *)
CrlCatchesUp ==
    \A s \in Serials :
        secrets[s].revokedAt ~> (s \in crlDisk \/ ~secrets[s].revokedAt)

(* verifyRevokedInCRL: no "false success while the cert is still             *)
(* cryptographically valid".                                                 *)
WithdrawnNotUsable == out \cap Usable = {}

(* A retry of a creation that stopped half way does not build a second       *)
(* certificate: secretGetByLabels refuses every operation on a user with     *)
(* two.  That holds as long as one call fails at most; easyrsaBuildClient    *)
(* takes a list that fails for a user without a secret.                      *)
OneSecretPerUser == failures <= 1 => \A u \in Users : \A s, t \in Named(u) : s = t
=============================================================================
