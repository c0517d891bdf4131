------------------------------- MODULE VpnUsers -------------------------------
(***************************************************************************)
(* VPN accounts on the filesystem backend: the handlers of users.go, the   *)
(* certificate store of store_filesystem.go and the password rows of       *)
(* internal/ovpnuser.                                                      *)
(*                                                                         *)
(* A handler is a fixed series of calls, each of which can fail; Path      *)
(* lists them and every call is one action.  easyrsa works on index.txt    *)
(* and on the certificate files; the CRL that OpenVPN reads is rebuilt     *)
(* from index.txt by gen-crl.  The handlers themselves rewrite index.txt   *)
(* from a copy they read earlier, and no lock covers the two steps.        *)
(*                                                                         *)
(* A line of index.txt is found by its serial; where several lines carry   *)
(* one common name, which of them comes first is left open.  CCD files     *)
(* belong to module CcdRoutes.                                             *)
(***************************************************************************)
EXTENDS Naturals, Sequences, FiniteSets

CONSTANTS
    Users,         \* common names
    Reqs,          \* requests that can be in flight at the same time
    MaxSerials,    \* bound on the certificates that are ever signed
    MaxRequests,   \* bound on the requests that change something
    MaxFailures,   \* bound on the calls that fail and change nothing
    MaxLosses,     \* bound on the reads of index.txt that fail, and torn writes
    MaxCrashes     \* bound on crashes

ASSUME VpnUsersAssumption ==
    /\ MaxSerials \in Nat
    /\ MaxRequests \in Nat
    /\ MaxFailures \in Nat
    /\ MaxLosses \in Nat
    /\ MaxCrashes \in Nat
    /\ Users # {}
    /\ {"REVOKED-", "none"} \cap Users = {}    \* the placeholders Archived and Nobody

VARIABLES
    index,         \* pki/index.txt: the line of each serial
    crl,           \* pki/crl.pem: the serials it lists
    owner,         \* the common name in each certificate that was signed
    issued,        \* pki/issued/<cn>.crt: the serial of the certificate, or 0
    private,       \* pki/private/<cn>.key, likewise
    shelved,       \* serials whose certificate is in pki/revoked/
    shelvedKey,    \* serials whose key is in pki/revoked/
    rows,          \* users.db: the row of each user
    live,          \* certificates with an established tunnel
    req,           \* requests in flight
    started, failures, losses, crashes,
    out,           \* serials that were reported as withdrawn
    cut,           \* of those, the ones whose tunnels were reported as ended
    good,          \* users whose last request was reported to leave them active
    guarded        \* users who were given a password that nobody asked to drop

pki == <<index, crl, owner, issued, private, shelved, shelvedKey>>
faults == <<failures, losses, crashes>>
history == <<out, cut, good, guarded>>
vars == <<pki, rows, live, req, started, faults, history>>

Serials == 1 .. MaxSerials
Archived == "REVOKED-"       \* the names that rotate and delete give to old lines
Nobody == "none"             \* no such line, no such certificate

Line == [cn : Users \cup {Archived, Nobody}, flag : {"V", "R"}]
NoLine == [cn |-> Nobody, flag |-> "V"]
EmptyIndex == [s \in Serials |-> NoLine]

\* Mutant: the password row goes before the certificate is rotated.
PathPasswordFirst == [
    create         |-> <<"check", "build", "pwCreate">>,
    rollback       |-> <<"lookup", "easyrsaRevoke", "readIndex", "writeIndex",
                         "removeFiles", "genCrl">>,
    revoke         |-> <<"check", "lookup", "easyrsaRevoke", "genCrl", "pwRevoke",
                         "kill">>,
    unrevoke       |-> <<"check", "readIndex", "restore", "writeIndex", "genCrl",
                         "pwRestore">>,
    rotate         |-> <<"check", "pwDelete", "readIndex", "writeIndex", "removeFiles",
                         "build", "readSwap", "writeIndex", "genCrl", "pwCreate",
                         "kill">>,
    delete         |-> <<"check", "kill", "lookup", "easyrsaRevoke", "readIndex",
                         "writeIndex", "removeFiles", "genCrl", "pwDelete">>,
    changePassword |-> <<"check", "pwChange">>,
    removePassword |-> <<"pwDelete">>,
    disconnect     |-> <<"check", "kill">>]

\* The calls of each handler, in order.
Path == [
    create         |-> <<"check", "build", "pwCreate">>,
    rollback       |-> <<"lookup", "easyrsaRevoke", "readIndex", "writeIndex",
                         "removeFiles", "genCrl">>,
    revoke         |-> <<"check", "lookup", "easyrsaRevoke", "genCrl", "pwRevoke",
                         "kill">>,
    unrevoke       |-> <<"check", "readIndex", "restore", "writeIndex", "genCrl",
                         "pwRestore">>,
    rotate         |-> <<"check", "readIndex", "writeIndex", "removeFiles", "build",
                         "readSwap", "writeIndex", "genCrl", "pwDelete", "pwCreate",
                         "kill">>,
    delete         |-> <<"check", "kill", "lookup", "easyrsaRevoke", "readIndex",
                         "writeIndex", "removeFiles", "genCrl", "pwDelete">>,
    changePassword |-> <<"check", "pwChange">>,
    removePassword |-> <<"pwDelete">>,
    disconnect     |-> <<"check", "kill">>]

Op == DOMAIN Path
Request == [op : Op, user : Users, pw : BOOLEAN, pc : 0 .. 12,
            serial : 0 .. MaxSerials, flag : {"V", "R"}, copy : [Serials -> Line],
            killed : BOOLEAN]
AnyUser == CHOOSE u \in Users : TRUE
Idle == [op |-> "create", user |-> AnyUser, pw |-> FALSE, pc |-> 0, serial |-> 0,
         flag |-> "V", copy |-> EmptyIndex, killed |-> FALSE]

Init ==
    /\ index = EmptyIndex
    /\ crl = {}
    /\ owner = [s \in Serials |-> Nobody]
    /\ issued = [u \in Users |-> 0]
    /\ private = [u \in Users |-> 0]
    /\ shelved = {}
    /\ shelvedKey = {}
    /\ rows = [u \in Users |-> "none"]
    /\ live = {}
    /\ req = [r \in Reqs |-> Idle]
    /\ started = 0
    /\ failures = 0
    /\ losses = 0
    /\ crashes = 0
    /\ out = {}
    /\ cut = {}
    /\ good = {}
    /\ guarded = {}

At(r, step) == req[r].pc > 0 /\ Path[req[r].op][req[r].pc] = step
Last(r) == req[r].pc = Len(Path[req[r].op])

\* Serials whose line in the copy c carries the name u (indexTxtParser).
LinesOf(c, u) == {s \in Serials : c[s].cn = u}

\* fRead: what a read of index.txt returns; an error reads as an empty file.
fRead(c) ==
    \/ c = index /\ UNCHANGED losses
    \/ /\ losses < MaxLosses
       /\ c = EmptyIndex
       /\ losses' = losses + 1

Fails == failures < MaxFailures /\ failures' = failures + 1
Works == UNCHANGED failures

-----------------------------------------------------------------------------
(* Progress of a request *)

\* The request r goes on with its next call, having learned what e says.
Goto(r, pc, e) == req' = [req EXCEPT ![r] = [e EXCEPT !.pc = pc]]

\* A failure is reported.
Abort(r) == req' = [req EXCEPT ![r] = Idle] /\ UNCHANGED history

\* Success is reported.
Report(r, e) ==
    /\ req' = [req EXCEPT ![r] = Idle]
    /\ out' = IF e.op \in {"revoke", "rotate", "delete"} THEN out \cup ({e.serial} \ {0})
              ELSE out
    /\ cut' = IF e.op \in {"revoke", "rotate"} /\ e.killed THEN cut \cup ({e.serial} \ {0})
              ELSE cut
    /\ good' = IF e.op \in {"create", "unrevoke", "rotate"} THEN good \cup {e.user} ELSE good
    /\ guarded' = IF e.op \in {"create", "rotate", "changePassword"} /\ e.pw
                  THEN guarded \cup {e.user} ELSE guarded

\* The call is done, and the request has learned what e says.
Continue(r, e) ==
    IF ~Last(r) THEN Goto(r, req[r].pc + 1, e) /\ UNCHANGED history
    ELSE IF e.op = "rollback" THEN Abort(r)
    ELSE Report(r, e)

\* A handler starts.  What was promised about the user no longer holds, as far as
\* the request is to change it.
Start(r, op, u, pw) ==
    /\ req[r].pc = 0
    /\ op # "rollback"
    /\ pw => op \in {"create", "rotate"}
    /\ started < MaxRequests
    /\ started' = started + 1
    /\ req' = [req EXCEPT ![r] = [Idle EXCEPT !.op = op, !.user = u, !.pc = 1,
                                              !.pw = pw \/ op = "changePassword"]]
    /\ LET withdrawnNow == IF op = "unrevoke" THEN LinesOf(index, u) ELSE {}
       IN  out' = out \ withdrawnNow /\ cut' = cut \ withdrawnNow
    /\ good' = IF op \in {"revoke", "unrevoke", "rotate", "delete"} THEN good \ {u} ELSE good
    /\ guarded' = IF op = "removePassword" THEN guarded \ {u} ELSE guarded
    /\ UNCHANGED <<pki, rows, live, faults>>

\* checkUserExist; userCreate runs under createUserMutex.
Check(r) ==
    /\ At(r, "check")
    /\ LET q == req[r] IN
       /\ q.op = "create" =>
              \A o \in Reqs \ {r} : req[o].op \in {"create", "rollback"} => req[o].pc <= 1
       /\ \E c \in {index, EmptyIndex} :
              /\ fRead(c)
              /\ IF (LinesOf(c, q.user) = {}) = (q.op = "create")
                 THEN Continue(r, q)
                 ELSE Abort(r)
    /\ UNCHANGED <<pki, rows, live, started, failures, crashes>>

-----------------------------------------------------------------------------
(* The certificate store.  easyrsa itself is external: it is modelled by what *)
(* store_filesystem.go expects of it.                                         *)

\* easyrsa build-client-full refuses to overwrite a certificate or a key.
BuildClient(r) ==
    LET q == req[r]
        fresh == {s \in Serials : owner[s] = Nobody}
    IN
    /\ At(r, "build")
    /\ \/ /\ issued[q.user] = 0 /\ private[q.user] = 0
          /\ \E s \in fresh :
                /\ \A t \in fresh : s <= t
                /\ owner' = [owner EXCEPT ![s] = q.user]
                /\ index' = [index EXCEPT ![s] = [cn |-> q.user, flag |-> "V"]]
                /\ issued' = [issued EXCEPT ![q.user] = s]
                /\ private' = [private EXCEPT ![q.user] = s]
          /\ Works
          /\ Continue(r, q)
       \/ /\ issued[q.user] # 0 \/ private[q.user] # 0
          /\ Works
          /\ Abort(r)
          /\ UNCHANGED <<owner, index, issued, private>>
       \/ /\ Fails
          /\ Abort(r)
          /\ UNCHANGED <<owner, index, issued, private>>
    /\ UNCHANGED <<crl, shelved, shelvedKey, rows, live, started, losses, crashes>>

\* clientStatusInIndexTxt: RevokeClient and DeleteClient note flag and serial.
LookUp(r) ==
    /\ At(r, "lookup")
    /\ \E c \in {index, EmptyIndex} :
          /\ fRead(c)
          /\ LET found == LinesOf(c, req[r].user) IN
             \/ /\ found = {}
                /\ Continue(r, [req[r] EXCEPT !.serial = 0, !.flag = "V"])
             \/ \E s \in found :
                    Continue(r, [req[r] EXCEPT !.serial = s, !.flag = c[s].flag])
    /\ UNCHANGED <<pki, rows, live, started, failures, crashes>>

\* easyrsa revoke takes the certificate from issued/, marks its line and shelves
\* the files; it refuses a certificate that is marked already.
CanRevoke(u) == issued[u] # 0 /\ index[issued[u]] = [cn |-> u, flag |-> "V"]

EasyrsaRevoke(r) ==
    LET q == req[r]
        s == issued[q.user]
    IN
    /\ At(r, "easyrsaRevoke")
    /\ \/ /\ CanRevoke(q.user) /\ Works
          /\ index' = [index EXCEPT ![s].flag = "R"]
          /\ issued' = [issued EXCEPT ![q.user] = 0]
          /\ shelved' = shelved \cup {s}
          /\ private' = [private EXCEPT ![q.user] = 0]
          /\ shelvedKey' = IF private[q.user] # 0 THEN shelvedKey \cup {s} ELSE shelvedKey
          /\ UNCHANGED losses
          /\ Continue(r, q)
       \/ /\ IF CanRevoke(q.user) THEN Fails ELSE Works
          \* Benign if the line says R: RevokeClient reads it again, DeleteClient
          \* goes by what it noted before.
          /\ \E c \in {index, EmptyIndex} :
                /\ IF q.op = "revoke" THEN fRead(c) ELSE c = index /\ UNCHANGED losses
                /\ IF \/ q.op = "revoke" /\ \E t \in LinesOf(c, q.user) : c[t].flag = "R"
                      \/ q.op # "revoke" /\ q.flag = "R"
                   THEN Continue(r, q)
                   ELSE Abort(r)
          /\ UNCHANGED <<index, issued, private, shelved, shelvedKey>>
    /\ UNCHANGED <<crl, owner, rows, live, started, crashes>>

\* The copy of index.txt that UnrevokeClient, RotateClient or DeleteClient will
\* write, after its change to the line s.
Edited(op, c, s) ==
    CASE op = "unrevoke" -> [c EXCEPT ![s].flag = "V"]
      [] op = "rotate"   -> [c EXCEPT ![s] = [cn |-> Archived, flag |-> "R"]]
      [] OTHER           -> [c EXCEPT ![s].cn = Archived]

StepNumber(op, step) == CHOOSE i \in 1 .. Len(Path[op]) : Path[op][i] = step

ReadIndex(r) ==
    LET q == req[r] IN
    /\ At(r, "readIndex")
    /\ \E c \in {index, EmptyIndex} :
          /\ fRead(c)
          /\ \/ /\ LinesOf(c, q.user) = {}
                /\ CASE q.op = "rotate"   -> Abort(r)
                     [] q.op = "unrevoke" -> /\ Goto(r, StepNumber("unrevoke", "pwRestore"), q)
                                             /\ UNCHANGED history
                     [] OTHER             -> Continue(r, [q EXCEPT !.copy = c])
             \/ \E s \in LinesOf(c, q.user) :
                    LET e == [q EXCEPT !.serial = IF q.op \in {"rotate", "unrevoke"}
                                                  THEN s ELSE @,
                                       !.flag = IF q.op = "unrevoke" THEN c[s].flag ELSE @,
                                       !.copy = Edited(q.op, c, s)]
                    IN  IF q.op = "unrevoke" /\ c[s].flag # "R"
                        \* Nothing to restore: only the CRL may be behind.
                        THEN /\ Goto(r, StepNumber("unrevoke",
                                     IF s \in crl THEN "genCrl" ELSE "pwRestore"), e)
                             /\ UNCHANGED history
                        ELSE Continue(r, e)
    /\ UNCHANGED <<pki, rows, live, started, failures, crashes>>

\* RotateClient reads index.txt again, to put the new line in the old one's place.
ReadSwap(r) ==
    LET q == req[r] IN
    /\ At(r, "readSwap")
    /\ \E c \in {index, EmptyIndex} :
          /\ fRead(c)
          /\ IF LinesOf(c, q.user) # {} /\ c[q.serial].cn # Nobody
             THEN Continue(r, [q EXCEPT !.copy = c])
             ELSE Abort(r)
    /\ UNCHANGED <<pki, rows, live, started, failures, crashes>>

\* fWrite of the copy.  The file is truncated before it is written: a write that
\* fails leaves it as it was, or empty.  DeleteClient only logs the error.
WriteIndex(r) ==
    /\ At(r, "writeIndex")
    /\ \/ /\ index' = req[r].copy
          /\ Continue(r, req[r])
          /\ UNCHANGED <<failures, losses>>
       \/ /\ \/ Fails /\ UNCHANGED <<index, losses>>
             \/ /\ losses < MaxLosses /\ losses' = losses + 1
                /\ index' = EmptyIndex
                /\ Works
          /\ IF req[r].op \in {"delete", "rollback"} THEN Continue(r, req[r]) ELSE Abort(r)
    /\ UNCHANGED <<crl, owner, issued, private, shelved, shelvedKey, rows, live, started,
                   crashes>>

\* Mutant: a key that cannot be restored is taken for a detail (F36).
RestoreFilesLenient(r) ==
    LET q == req[r] IN
    /\ At(r, "restore")
    /\ q.serial \in shelved
    /\ issued' = [issued EXCEPT ![q.user] = q.serial]
    /\ shelved' = shelved \ {q.serial}
    /\ \/ /\ Works
          /\ private' = [private EXCEPT ![q.user] = q.serial]
          /\ shelvedKey' = shelvedKey \ {q.serial}
       \/ Fails /\ UNCHANGED <<private, shelvedKey>>
    /\ Continue(r, q)
    /\ UNCHANGED <<index, crl, owner, rows, live, started, losses, crashes>>

\* UnrevokeClient: the certificate is copied back, the key is moved back, and then
\* the shelved certificate is removed.
RestoreFiles(r) ==
    LET q == req[r]
        u == q.user
        s == q.serial
    IN
    /\ At(r, "restore")
    /\ \/ /\ s \in shelved /\ s \in shelvedKey
          /\ Works
          /\ issued' = [issued EXCEPT ![u] = s]
          /\ private' = [private EXCEPT ![u] = s]
          /\ shelved' = shelved \ {s}
          /\ shelvedKey' = shelvedKey \ {s}
          /\ Continue(r, q)
       \/ /\ s \notin shelved
          /\ Works
          /\ Abort(r)
          /\ UNCHANGED <<issued, private, shelved, shelvedKey>>
       \/ /\ s \in shelved
          /\ IF s \in shelvedKey THEN Fails ELSE Works
          /\ issued' = [issued EXCEPT ![u] = s]
          /\ Abort(r)
          /\ UNCHANGED <<private, shelved, shelvedKey>>
    /\ UNCHANGED <<index, crl, owner, rows, live, started, losses, crashes>>

\* RotateClient and DeleteClient remove what is left under the user's name, and
\* only log what they cannot remove.
RemoveFiles(r) ==
    LET u == req[r].user IN
    /\ At(r, "removeFiles")
    /\ \/ /\ Works
          /\ issued' = [issued EXCEPT ![u] = 0]
          /\ private' = [private EXCEPT ![u] = 0]
       \/ /\ Fails
          /\ \E cert \in {0, issued[u]}, key \in {0, private[u]} :
                /\ issued' = [issued EXCEPT ![u] = cert]
                /\ private' = [private EXCEPT ![u] = key]
    /\ Continue(r, req[r])
    /\ UNCHANGED <<index, crl, owner, shelved, shelvedKey, rows, live, started, losses,
                   crashes>>

\* easyrsa gen-crl lists the lines that are marked.
Marked(c) == {s \in Serials : c[s].cn # Nobody /\ c[s].flag = "R"}

\* verifySerialInCRL; an unrevoke that found its line valid looks for the opposite.
Verified(q, newCrl) ==
    CASE q.op = "unrevoke" -> q.flag = "V" => q.serial \notin newCrl
      [] OTHER             -> q.serial # 0 => q.serial \in newCrl

\* Mutant: a gen-crl that fails is only logged (F01).
GenCrlLogged(r) ==
    /\ At(r, "genCrl")
    /\ \/ Works /\ crl' = Marked(index)
       \/ Fails /\ UNCHANGED crl
    /\ Continue(r, req[r])
    /\ UNCHANGED <<index, owner, issued, private, shelved, shelvedKey, rows, live, started,
                   losses, crashes>>

GenCrl(r) ==
    LET q == req[r] IN
    /\ At(r, "genCrl")
    /\ \/ /\ Works
          /\ crl' = Marked(index)
          /\ IF Verified(q, Marked(index))
             THEN IF q.op \in {"rotate", "delete"}
                  \* The old certificate is gone, and its password may go with it.
                  THEN /\ Goto(r, q.pc + 1, q)
                       /\ guarded' = guarded \ {q.user}
                       /\ UNCHANGED <<out, cut, good>>
                  ELSE Continue(r, q)
             ELSE Abort(r)
       \/ /\ Fails
          /\ Abort(r)
          /\ UNCHANGED crl
    /\ UNCHANGED <<index, owner, issued, private, shelved, shelvedKey, rows, live, started,
                   losses, crashes>>

\* crlRenewalLoop
RegenerateCRL ==
    /\ crl' = Marked(index)
    /\ UNCHANGED <<index, owner, issued, private, shelved, shelvedKey, rows, live, req,
                   started, faults, history>>

-----------------------------------------------------------------------------
(* The password rows: openvpn-user and the calls of it *)

\* createUser refuses a user who has a row; deleteUser, revokeUser and restoreUser
\* refuse one who has none; changePassword takes both.
Accepts(command, row) ==
    CASE command = "create"          -> row = "none"
      [] command = "change-password" -> TRUE
      [] OTHER                       -> row # "none"

RowAfter(command) ==
    CASE command = "delete" -> "none"
      [] command = "revoke" -> "revoked"
      [] OTHER              -> "active"

\* Runs the command: either it is carried out, or it reports an error.
runOpenvpnUser(command, u, ok) ==
    \/ /\ ok /\ Accepts(command, rows[u]) /\ Works
       /\ rows' = [rows EXCEPT ![u] = RowAfter(command)]
    \/ /\ ~ok
       /\ IF Accepts(command, rows[u]) THEN Fails ELSE Works
       /\ UNCHANGED rows

PwCreate(r) ==
    LET q == req[r] IN
    /\ At(r, "pwCreate")
    /\ \/ ~q.pw /\ Continue(r, q) /\ UNCHANGED <<rows, failures>>
       \/ q.pw /\ runOpenvpnUser("create", q.user, TRUE) /\ Continue(r, q)
       \/ /\ q.pw /\ runOpenvpnUser("create", q.user, FALSE)
          /\ IF q.op = "create"
             THEN Goto(r, 1, [q EXCEPT !.op = "rollback"]) /\ UNCHANGED history
             ELSE Abort(r)
    /\ UNCHANGED <<pki, live, started, losses, crashes>>

\* Only userRotate ignores the error.
PwDelete(r) ==
    LET q == req[r] IN
    /\ At(r, "pwDelete")
    /\ \E ok \in BOOLEAN :
          /\ runOpenvpnUser("delete", q.user, ok)
          /\ IF ok \/ q.op = "rotate" THEN Continue(r, q) ELSE Abort(r)
    /\ UNCHANGED <<pki, live, started, losses, crashes>>

\* userRevoke and userUnrevoke ignore the error.
PwRevoke(r) ==
    /\ At(r, "pwRevoke")
    /\ \E ok \in BOOLEAN : runOpenvpnUser("revoke", req[r].user, ok)
    /\ Continue(r, req[r])
    /\ UNCHANGED <<pki, live, started, losses, crashes>>

PwRestore(r) ==
    /\ At(r, "pwRestore")
    /\ \E ok \in BOOLEAN : runOpenvpnUser("restore", req[r].user, ok)
    /\ Continue(r, req[r])
    /\ UNCHANGED <<pki, live, started, losses, crashes>>

PwChange(r) ==
    /\ At(r, "pwChange")
    /\ \E ok \in BOOLEAN :
          /\ runOpenvpnUser("change-password", req[r].user, ok)
          /\ IF ok THEN Continue(r, req[r]) ELSE Abort(r)
    /\ UNCHANGED <<pki, live, started, losses, crashes>>

\* Mutant: a kill that was sent counts as confirmed (F13).
KillUnverified(r) ==
    /\ At(r, "kill")
    /\ \/ Works /\ live' = {s \in live : owner[s] # req[r].user}
       \/ Fails /\ UNCHANGED live
    /\ Continue(r, [req[r] EXCEPT !.killed = TRUE])
    /\ UNCHANGED <<pki, rows, started, losses, crashes>>

\* killUserSessions: the console is asked for the sessions of the name and told to
\* end them, or the termination is not confirmed.
Kill(r) ==
    LET q == req[r] IN
    /\ At(r, "kill")
    /\ \/ /\ Works
          /\ live' = {s \in live : owner[s] # q.user}
          /\ Continue(r, [q EXCEPT !.killed = TRUE])
       \/ /\ Fails
          /\ Continue(r, [q EXCEPT !.killed = FALSE])
          /\ UNCHANGED live
    /\ UNCHANGED <<pki, rows, started, losses, crashes>>

-----------------------------------------------------------------------------
(* OpenVPN and its clients (external), crashes *)

Usable == {s \in Serials : owner[s] # Nobody /\ s \notin crl}

\* passwordStatus, as auth.sh acts on it: an inactive row is a denial, an active one
\* asks for the password, no row leaves the certificate alone.
passwordStatus(u) ==
    CASE rows[u] = "active"  -> "required"
      [] rows[u] = "revoked" -> "denied"
      [] OTHER               -> "certificate only"

\* A client that holds a certificate connects.
ClientConnects(s) ==
    /\ s \in Usable \ live
    /\ passwordStatus(owner[s]) # "denied"
    /\ live' = live \cup {s}
    /\ UNCHANGED <<pki, rows, req, started, faults, history>>

ClientDisconnects(s) ==
    /\ s \in live
    /\ live' = live \ {s}
    /\ UNCHANGED <<pki, rows, req, started, faults, history>>

\* The process dies; requests end unanswered.
Crash ==
    /\ crashes < MaxCrashes
    /\ crashes' = crashes + 1
    /\ req' = [r \in Reqs |-> Idle]
    /\ UNCHANGED <<pki, rows, live, started, failures, losses, history>>

StoreStep(r) ==
    \/ BuildClient(r) \/ LookUp(r) \/ EasyrsaRevoke(r) \/ ReadIndex(r) \/ ReadSwap(r)
    \/ WriteIndex(r) \/ RestoreFiles(r) \/ RemoveFiles(r) \/ GenCrl(r)

PasswordStep(r) ==
    PwCreate(r) \/ PwDelete(r) \/ PwRevoke(r) \/ PwRestore(r) \/ PwChange(r)

Next ==
    \/ \E r \in Reqs :
          \/ \E op \in Op, u \in Users, pw \in BOOLEAN : Start(r, op, u, pw)
          \/ Check(r) \/ StoreStep(r) \/ PasswordStep(r) \/ Kill(r)
    \/ \E s \in Serials : ClientConnects(s) \/ ClientDisconnects(s)
    \/ RegenerateCRL
    \/ Crash

Spec == Init /\ [][Next]_vars

-----------------------------------------------------------------------------
(* Properties *)

TypeOK ==
    /\ index \in [Serials -> Line]
    /\ crl \subseteq Serials
    /\ owner \in [Serials -> Users \cup {Nobody}]
    /\ issued \in [Users -> 0 .. MaxSerials]
    /\ private \in [Users -> 0 .. MaxSerials]
    /\ shelved \subseteq Serials
    /\ shelvedKey \subseteq Serials
    /\ rows \in [Users -> {"none", "active", "revoked"}]
    /\ live \subseteq Serials
    /\ req \in [Reqs -> Request]
    /\ started \in 0 .. MaxRequests
    /\ failures \in 0 .. MaxFailures
    /\ losses \in 0 .. MaxLosses
    /\ crashes \in 0 .. MaxCrashes
    /\ out \subseteq Serials
    /\ cut \subseteq Serials
    /\ good \subseteq Users
    /\ guarded \subseteq Users

\* The store keeps the promise of CertLifecycle: what was reported as revoked, rotated
\* out or deleted stays out of the VPN until somebody asks for an unrevoke, whatever
\* fails or crashes in between and whoever rebuilds the CRL.
Lifecycle == INSTANCE CertLifecycle WITH
    Certs <- Serials,
    issued <- {s \in Serials : owner[s] # Nobody},
    usable <- Usable,
    withdrawn <- out

ImplementsLifecycle == Lifecycle!Spec

\* A revoke or rotate that was reported with its kill confirmed has really ended the
\* tunnels of the old certificate, and they do not come back (users.go:662-667, 747).
CutOffStaysOff == cut \cap live = {}

\* A user who was reported as created, unrevoked or rotated can connect: one valid line,
\* not in the CRL, with certificate and key in place for the .ovpn (F36, N14), also when
\* an earlier attempt stopped half way.
ActiveIsConnectable ==
    \A u \in good :
        \E s \in Usable :
            /\ LinesOf(index, u) = {s}
            /\ index[s].flag = "V"
            /\ issued[u] = s
            /\ private[u] = s

\* A user with a password never falls back to certificate-only while the certificate
\* it was set for is in use (N01: the certificate is rotated or deleted first).
NeverDowngraded ==
    \A u \in guarded :
        (\E s \in Usable : owner[s] = u) => passwordStatus(u) # "certificate only"

\* runOpenvpnUser says that its callers must not report success when the row is wrong:
\* an unrevoked user is not denied by a row that is still revoked (users.go:57-61).
\* userUnrevoke drops the error (README, "Where the code falls short").
ReportedActiveNotDenied == \A u \in good : passwordStatus(u) # "denied"
=============================================================================
