---------------------------- MODULE AdminSessions ----------------------------
(***************************************************************************)
(* Admin passwords and sessions (auth.go): loginHandler, logoutHandler,    *)
(* requireAuth, adminChangePasswordHandler and initAuth, for accounts that *)
(* have no second factor (AdminMfa models the second factor).              *)
(*                                                                         *)
(* Requests are goroutines.  A request is cut at every place where it      *)
(* gives up the lock it works under, because any other request, or a       *)
(* crash, can run there:                                                   *)
(*                                                                         *)
(*   login            validateCredentials | signSession                    *)
(*   logout           verifySessionPayload | blacklist and persist         *)
(*   change password  verifySession | validateCredentials | commit in      *)
(*                    memory | bumpUserEpoch | copy the table | write the  *)
(*                    file | roll back                                     *)
(*                                                                         *)
(* A password is represented by its hash, a number: 0 is "no entry", 1 the *)
(* generated temporary password, 2 the one the operator provisioned, and   *)
(* every change picks the next number.                                     *)
(***************************************************************************)
EXTENDS SessionTokens

CONSTANTS
    DefaultAdmin,   \* the account initAuth creates when there is no htpasswd
    Loginers,       \* slots for requests to /api/login
    Logouters,      \* slots for requests to /api/logout
    Changers,       \* slots for requests to /api/admin/change-password
    MaxHash         \* bound on the password hashes ever generated

NoHash == 0
TempHash == 1
OperatorHash == 2

ASSUME AdminAssumption ==
    /\ DefaultAdmin \in Admins
    /\ MaxHash \in Nat
    /\ Loginers \cap Logouters = {}
    /\ Loginers \cap Changers = {}
    /\ Logouters \cap Changers = {}

VARIABLES
    htpasswdUsers,            \* username -> hash, in memory
    adminHtpasswd,            \* the same, in the file at adminHtpasswdPersistPath
    adminPasswordMustChange,  \* the forced-change gate, in memory
    lastHash,                 \* the newest hash generated so far
    req,                      \* the requests in flight
    killed,                   \* history: tokens a reported password change promised to kill
    loggedOut,                \* history: tokens whose logout was reported as recorded
    reported                  \* history: the hashes whose change was reported

credVars == <<htpasswdUsers, adminHtpasswd, adminPasswordMustChange, lastHash>>
history == <<killed, loggedOut, reported>>
vars == <<sessionVars, credVars, req, history>>

Requests == Loginers \cup Logouters \cup Changers
Hash == Nat
Table == [Admins -> Hash]
NoTable == [u \in Admins |-> NoHash]

\* Where a request stands: the last lock-delimited step it completed.
Stage == {"idle", "login-valid", "logout-verified", "authenticated",
          "validated", "committed", "bumped", "copied", "rollback"}

NoToken == [User |-> DefaultAdmin, Exp |-> 0, MFA |-> FALSE, Epoch |-> 0]

\* The local variables of a handler, and a ghost: the tokens that existed when
\* the change was committed.
Request == [stage : Stage, user : Admins, token : Token,
            hash : Hash, prevHash : Hash, prevMustChange : BOOLEAN,
            copy : Table, before : SUBSET Token]

Idle == [stage |-> "idle", user |-> DefaultAdmin, token |-> NoToken,
         hash |-> NoHash, prevHash |-> NoHash, prevMustChange |-> FALSE,
         copy |-> NoTable, before |-> {}]

\* The state that initAuth leaves: the table it finds, or a generated
\* password for DefaultAdmin and the gate up.
TempTable == [NoTable EXCEPT ![DefaultAdmin] = TempHash]

Init ==
    /\ SessionInit
    /\ \/ /\ adminHtpasswd = [u \in Admins |-> OperatorHash]
          /\ htpasswdUsers = adminHtpasswd
          /\ adminPasswordMustChange = FALSE
       \/ /\ adminHtpasswd = NoTable
          /\ htpasswdUsers = TempTable
          /\ adminPasswordMustChange = TRUE
    /\ lastHash = OperatorHash
    /\ req = [r \in Requests |-> Idle]
    /\ killed = {}
    /\ loggedOut = {}
    /\ reported = {}

-----------------------------------------------------------------------------
(* requireAuth *)

adminUserExists(u) == htpasswdUsers[u] # NoHash

verifySession(t) == verifySessionPayload(t) /\ adminUserExists(t.User)

\* The endpoints, as far as the gate tells them apart.
passwordChangeAllowed(path) ==
    path \in {"change-password", "auth-check", "settings", "logout"}

requireAuth(t, path) ==
    /\ verifySession(t)
    /\ adminPasswordMustChange => passwordChangeAllowed(path)

-----------------------------------------------------------------------------
(* loginHandler *)

\* A login that presents the right password; a wrong one changes nothing here
\* (the failure counters are those of the rate limiter).
LoginValidate(r, u) ==
    /\ req[r].stage = "idle"
    /\ adminUserExists(u)
    /\ req' = [req EXCEPT ![r] = [Idle EXCEPT !.stage = "login-valid",
                                              !.user = u]]
    /\ UNCHANGED <<sessionVars, credVars, history>>

LoginSign(r) ==
    /\ req[r].stage = "login-valid"
    /\ signSession(req[r].user, FALSE)
    /\ req' = [req EXCEPT ![r] = Idle]
    /\ UNCHANGED <<now, sessionEpochs, sessionEpochsFile, revokedTokens,
                   revokedTokensFile, credVars, history>>

-----------------------------------------------------------------------------
(* logoutHandler *)

LogoutVerify(r, t) ==
    /\ req[r].stage = "idle"
    /\ verifySessionPayload(t)
    /\ req' = [req EXCEPT ![r] = [Idle EXCEPT !.stage = "logout-verified",
                                              !.user = t.User, !.token = t]]
    /\ UNCHANGED <<sessionVars, credVars, history>>

\* The answer is 200 when revokeToken returned nil.  A 200 at the cap of the
\* blacklist records nothing, which revokeToken documents.
LogoutRevoke(r, persisted) ==
    LET t == req[r].token IN
    /\ req[r].stage = "logout-verified"
    /\ revokeToken(t, persisted)
    /\ loggedOut' = IF persisted /\ ~BlacklistFull(t) THEN loggedOut \cup {t}
                                                     ELSE loggedOut
    /\ req' = [req EXCEPT ![r] = Idle]
    /\ UNCHANGED <<now, sessionEpochs, sessionEpochsFile, issued, credVars, killed,
                   reported>>

-----------------------------------------------------------------------------
(* adminChangePasswordHandler *)

\* requireAuth and sessionUser: the session is genuine now, and is not looked
\* at again by this request.
ChangeAuthenticate(r, t) ==
    /\ req[r].stage = "idle"
    /\ requireAuth(t, "change-password")
    /\ req' = [req EXCEPT ![r] = [Idle EXCEPT !.stage = "authenticated",
                                              !.user = t.User]]
    /\ UNCHANGED <<sessionVars, credVars, history>>

\* validateCredentials accepted the current password; the new one is hashed.
ChangeValidate(r) ==
    /\ req[r].stage = "authenticated"
    /\ adminUserExists(req[r].user)
    /\ lastHash < MaxHash
    /\ lastHash' = lastHash + 1
    /\ req' = [req EXCEPT ![r].stage = "validated", ![r].hash = lastHash + 1]
    /\ UNCHANGED <<sessionVars, htpasswdUsers, adminHtpasswd,
                   adminPasswordMustChange, history>>

\* 401, or a new password that is too short or equal to the current one.
ChangeReject(r) ==
    /\ req[r].stage = "authenticated"
    /\ req' = [req EXCEPT ![r] = Idle]
    /\ UNCHANGED <<sessionVars, credVars, history>>

ChangeCommit(r) ==
    LET u == req[r].user IN
    /\ req[r].stage = "validated"
    /\ htpasswdUsers' = [htpasswdUsers EXCEPT ![u] = req[r].hash]
    /\ adminPasswordMustChange' = FALSE
    /\ req' = [req EXCEPT ![r].stage = "committed",
                          ![r].prevHash = htpasswdUsers[u],
                          ![r].prevMustChange = adminPasswordMustChange,
                          ![r].before = {t \in issued : t.User = u}]
    /\ UNCHANGED <<sessionVars, adminHtpasswd, lastHash, history>>

ChangeBump(r, persisted) ==
    /\ req[r].stage = "committed"
    /\ bumpUserEpoch(req[r].user, persisted)
    /\ req' = [req EXCEPT ![r].stage = IF persisted THEN "bumped" ELSE "rollback"]
    /\ UNCHANGED <<now, revokedTokens, revokedTokensFile, issued, credVars,
                   history>>

\* saveAdminHtpasswd renders the table under the read lock ...
ChangeCopy(r) ==
    /\ req[r].stage = "bumped"
    /\ req' = [req EXCEPT ![r].stage = "copied", ![r].copy = htpasswdUsers]
    /\ UNCHANGED <<sessionVars, credVars, history>>

\* ... and writes the file after releasing it; then the change is reported.
ChangeSave(r) ==
    /\ req[r].stage = "copied"
    /\ adminHtpasswd' = req[r].copy
    /\ killed' = killed \cup req[r].before
    /\ reported' = reported \cup {req[r].hash}
    /\ req' = [req EXCEPT ![r] = Idle]
    /\ UNCHANGED <<sessionVars, htpasswdUsers, adminPasswordMustChange,
                   lastHash, loggedOut>>

ChangeSaveFails(r) ==
    /\ req[r].stage = "copied"
    /\ req' = [req EXCEPT ![r].stage = "rollback"]
    /\ UNCHANGED <<sessionVars, credVars, history>>

\* Mutant: the rollback forgets the forced-change gate.
ChangeRollbackGateDown(r) ==
    /\ req[r].stage = "rollback"
    /\ htpasswdUsers' = [htpasswdUsers EXCEPT ![req[r].user] = req[r].prevHash]
    /\ req' = [req EXCEPT ![r] = Idle]
    /\ UNCHANGED <<sessionVars, adminHtpasswd, adminPasswordMustChange,
                   lastHash, history>>

\* Mutant: a change that could not be saved stays live in memory.
ChangeRollbackNone(r) ==
    /\ req[r].stage = "rollback"
    /\ req' = [req EXCEPT ![r] = Idle]
    /\ UNCHANGED <<sessionVars, credVars, history>>

ChangeRollback(r) ==
    /\ req[r].stage = "rollback"
    /\ htpasswdUsers' = [htpasswdUsers EXCEPT ![req[r].user] = req[r].prevHash]
    /\ adminPasswordMustChange' = req[r].prevMustChange
    /\ req' = [req EXCEPT ![r] = Idle]
    /\ UNCHANGED <<sessionVars, adminHtpasswd, lastHash, history>>

-----------------------------------------------------------------------------
(* Crash and restart *)

\* What initAuth finds in the file: an empty or missing table means a fresh
\* temporary password.
LoadedTable == IF adminHtpasswd = NoTable THEN TempTable ELSE adminHtpasswd

initAuth ==
    /\ loadSessionState
    /\ htpasswdUsers' = LoadedTable
    /\ adminPasswordMustChange' = (adminHtpasswd = NoTable)
    /\ UNCHANGED <<adminHtpasswd, lastHash>>

CrashRestart ==
    /\ initAuth
    /\ req' = [r \in Requests |-> Idle]
    /\ UNCHANGED <<history>>

ClockTick ==
    /\ Tick
    /\ UNCHANGED <<credVars, req, history>>

LoginStep == \E r \in Loginers :
    \/ \E u \in Admins : LoginValidate(r, u)
    \/ LoginSign(r)

LogoutStep == \E r \in Logouters :
    \/ \E t \in issued : LogoutVerify(r, t)
    \/ \E persisted \in BOOLEAN : LogoutRevoke(r, persisted)

ChangeStep == \E r \in Changers :
    \/ \E t \in issued : ChangeAuthenticate(r, t)
    \/ ChangeValidate(r)
    \/ ChangeReject(r)
    \/ ChangeCommit(r)
    \/ \E persisted \in BOOLEAN : ChangeBump(r, persisted)
    \/ ChangeCopy(r)
    \/ ChangeSave(r)
    \/ ChangeSaveFails(r)
    \/ ChangeRollback(r)

Next ==
    \/ LoginStep
    \/ LogoutStep
    \/ ChangeStep
    \/ CrashRestart
    \/ ClockTick

Spec == Init /\ [][Next]_vars

-----------------------------------------------------------------------------
(* Properties *)

\* Every variable has its type.
TypeOK ==
    /\ SessionTypeOK
    /\ htpasswdUsers \in Table
    /\ adminHtpasswd \in Table
    /\ adminPasswordMustChange \in BOOLEAN
    /\ lastHash \in Nat
    /\ req \in [Requests -> Request]
    /\ killed \in SUBSET Token
    /\ loggedOut \in SUBSET Token
    /\ reported \in SUBSET Hash

\* Once adminChangePasswordHandler has reported success, no session that
\* existed when the new password took effect is ever accepted again: not in
\* this process, and not after a crash at any point or a later failed change.
KilledStayDead == \A t \in killed : ~verifySessionPayload(t)

\* Once logoutHandler has recorded a revocation and answered 200, the token
\* is never accepted again, although the blacklist is swept of expired
\* entries, rewritten by other logouts, and reloaded after a restart.
LogoutFinal == \A t \in loggedOut : ~verifySessionPayload(t)

\* Dead for a reason that is on disk or does not go away: expired, overtaken
\* by an epoch bump, or blacklisted in memory and in the file.
DurablyDead(t) ==
    \/ now > t.Exp
    \/ t.Epoch # sessionEpochs[t.User]
    \/ t \in revokedTokens \cap revokedTokensFile

\* No step of any request, no failed write and no restart brings a durably
\* dead session back (the one way back is a logout whose write failed, which
\* logoutHandler answers with 500).
NoStepRevives == \A t \in issued : DurablyDead(t) => DurablyDead(t)'
DeadStaysDead == [][NoStepRevives]_vars

\* While the default admin is on the generated temporary password, none of its
\* sessions passes requireAuth for an endpoint outside the allowlist.
TempPasswordGated ==
    htpasswdUsers[DefaultAdmin] = TempHash =>
        \A t \in issued : t.User = DefaultAdmin => ~requireAuth(t, "other")

\* When no password change is in flight, a restart would load exactly the
\* passwords and the gate that are live: no change that was reported is
\* reverted, and none that was refused takes effect later.
RestartKeepsPasswords ==
    (\A r \in Changers : req[r].stage = "idle") =>
        /\ htpasswdUsers = LoadedTable
        /\ adminPasswordMustChange = (adminHtpasswd = NoTable)

\* When no password change is in flight, a live password whose change was
\* reported is the one that a restart loads: adminChangePasswordHandler never
\* reports "a password change that a restart would silently revert".  Two changes
\* at once break it (README, "Where the code falls short").
ReportedChangeSurvives ==
    (\A r \in Changers : req[r].stage = "idle") =>
        \A u \in Admins : htpasswdUsers[u] \in reported =>
            adminHtpasswd[u] = htpasswdUsers[u]

=============================================================================
