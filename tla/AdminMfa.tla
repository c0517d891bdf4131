------------------------------- MODULE AdminMfa -------------------------------
(***************************************************************************)
(* The admin's second factor: the mfaStore and the intermediate MFA token  *)
(* (totp.go), and the handlers that enrol, use and remove the factor       *)
(* (totp_handlers.go, loginHandler in auth.go), over the session layer of  *)
(* SessionTokens.                                                          *)
(*                                                                         *)
(* A request is cut wherever it gives up the lock it works under:          *)
(*                                                                         *)
(*   login      validateCredentials | isEnabled | sign a session or an     *)
(*              MFA token                                                  *)
(*   mfa login  verifyMfaToken | verifyAndConsume | consumeMfaJti | sign   *)
(*   setup      get, refuse if enabled | set a fresh disabled record       *)
(*   confirm    get, verify the code | bumpUserEpoch | set enabled | sign  *)
(*   disable    password, get, verify the code | delete                    *)
(*                                                                         *)
(* One clock tick is one 30-second TOTP step.  A request that presents a   *)
(* wrong password or a wrong code changes nothing here (the counters it    *)
(* bumps are the rate limiter's).                                          *)
(***************************************************************************)
EXTENDS SessionTokens

CONSTANTS
    Loginers,        \* slots for /api/login and /api/login/mfa
    Enrollers,       \* slots for /api/mfa/setup, /api/mfa/confirm, DELETE /api/mfa
    NumBackupCodes,  \* codes in one set (8 in the code)
    mfaTokenTTL,     \* lifetime of an MFA token, in ticks
    MaxFresh,        \* bound on generated secrets and backup-code sets
    MaxEpoch,        \* bound on the session epochs
    MaxJti           \* bound on MFA tokens ever minted

ASSUME MfaAssumption ==
    /\ Admins # {}
    /\ NumBackupCodes \in Nat
    /\ mfaTokenTTL \in Nat
    /\ MaxFresh \in Nat
    /\ MaxEpoch \in Nat
    /\ MaxJti \in Nat
    /\ Loginers \cap Enrollers = {}

VARIABLES
    up,             \* the process runs (FALSE: it refused to start)
    data,           \* mfaStore.data: the records, in memory
    store,          \* the secrets file: whether it exists, and its records
    marker,         \* the enrolment marker file: users it lists
    fresh,          \* number of secrets and backup-code sets generated
    mfaTokens,      \* every MFA token minted
    usedMfaJtis,    \* MFA tokens spent, in memory only
    req,            \* the requests in flight
    enrolled,       \* history: users enabled by confirm and not disabled since
    markerFailed,   \* history: some write of the marker failed
    killed,         \* history: sessions a reported enrolment promised to kill
    spent,          \* history: codes that verifyAndConsume accepted
    respent,        \* history: codes it accepted a second time
    answered,       \* history: challenges answered since the last start
    reanswered      \* history: challenges answered twice between two starts

storeVars == <<data, store, marker, markerFailed>>
history == <<enrolled, killed, spent, respent, answered, reanswered>>
vars == <<sessionVars, up, storeVars, fresh, mfaTokens, usedMfaJtis, req, history>>

Requests == Loginers \cup Enrollers
BackupCode == Nat \X (1 .. NumBackupCodes)
NoSecret == 0

MfaRecord == [Secret : Nat, Enabled : BOOLEAN, BackupCodes : SUBSET BackupCode,
              UsedTOTPSteps : SUBSET Nat]
NoRecord == [Secret |-> NoSecret, Enabled |-> FALSE, BackupCodes |-> {},
             UsedTOTPSteps |-> {}]
NoData == [u \in Admins |-> NoRecord]

MfaToken == [User : Admins, Exp : Nat, Jti : Nat, Epoch : Nat]
Code == [kind : {"totp"}, user : Admins, secret : Nat, step : Nat]
        \cup [kind : {"backup"}, user : Admins, code : BackupCode]

AnAdmin == CHOOSE u \in Admins : TRUE
NoMfaToken == [User |-> AnAdmin, Exp |-> 0, Jti |-> 0, Epoch |-> 0]

Stage == {"idle", "password-ok", "no-mfa", "mfa-required", "token-ok", "code-ok",
          "jti-ok", "setup-ok", "confirm-read", "confirm-bumped",
          "confirm-stored", "disable-ok"}

Request == [stage : Stage, user : Admins, token : MfaToken, rec : MfaRecord,
            before : SUBSET Token]
Idle == [stage |-> "idle", user |-> AnAdmin, token |-> NoMfaToken,
         rec |-> NoRecord, before |-> {}]

At(r, stage) == up /\ req[r].stage = stage
Become(r, stage) == req' = [req EXCEPT ![r].stage = stage]
Finish(r) == req' = [req EXCEPT ![r] = Idle]

BackupCodeSet(n) == {n} \X (1 .. NumBackupCodes)
EnabledUsers(d) == {u \in Admins : d[u].Enabled}

\* The accounts that an earlier run of the process left enrolled.
Enrolment(E) ==
    [u \in Admins |->
        IF u \in E THEN [Secret |-> 1, Enabled |-> TRUE,
                         BackupCodes |-> BackupCodeSet(1), UsedTOTPSteps |-> {}]
                   ELSE NoRecord]

Init ==
    /\ SessionInit
    /\ up = TRUE
    /\ \E E \in SUBSET Admins :
         /\ data = Enrolment(E)
         /\ store = [exists |-> E # {}, data |-> Enrolment(E)]
         /\ marker = E
         /\ enrolled = E
    /\ markerFailed = FALSE
    /\ fresh = 1
    /\ mfaTokens = {}
    /\ usedMfaJtis = {}
    /\ req = [r \in Requests |-> Idle]
    /\ killed = {}
    /\ spent = {} /\ respent = {}
    /\ answered = {} /\ reanswered = {}

-----------------------------------------------------------------------------
(* mfaStore: every mutation is made, persisted and, on a failed write, taken *)
(* back under one hold of the store's lock.                                  *)

isEnabled(u) == data[u].Enabled

\* The marker is rewritten last and best-effort; marked is FALSE when that
\* write fails or a crash comes between the two files.
set(u, rec, persisted, marked) ==
    LET next == [data EXCEPT ![u] = rec] IN
    IF persisted
      THEN /\ data' = next
           /\ store' = [exists |-> TRUE, data |-> next]
           /\ marker' = IF marked THEN EnabledUsers(next) ELSE marker
           /\ markerFailed' = (markerFailed \/ ~marked)
      ELSE UNCHANGED storeVars

delete(u, persisted, marked) == set(u, NoRecord, persisted, marked)

persistRecordLocked(u, rec, persisted) ==
    LET next == [data EXCEPT ![u] = rec] IN
    /\ data' = IF persisted THEN next ELSE data
    /\ store' = IF persisted THEN [exists |-> TRUE, data |-> next] ELSE store
    /\ UNCHANGED <<marker, markerFailed>>

\* Mutant: a used step is forgotten one step too early.
pruneTOTPStepsEager(steps) == {s \in steps : now <= s /\ s <= now + 2}

pruneTOTPSteps(steps) == {s \in steps : now <= s + 2 /\ s <= now + 2}

\* The steps whose codes matchTOTPStep accepts now.
TOTPWindow == {s \in 0 .. now + 1 : now <= s + 1}

-----------------------------------------------------------------------------
(* loginHandler *)

LoginPassword(r, u) ==
    /\ At(r, "idle")
    /\ req' = [req EXCEPT ![r] = [Idle EXCEPT !.stage = "password-ok", !.user = u]]
    /\ UNCHANGED <<sessionVars, up, storeVars, fresh, mfaTokens, usedMfaJtis, history>>

LoginCheckMfa(r) ==
    /\ At(r, "password-ok")
    /\ Become(r, IF isEnabled(req[r].user) THEN "mfa-required" ELSE "no-mfa")
    /\ UNCHANGED <<sessionVars, up, storeVars, fresh, mfaTokens, usedMfaJtis, history>>

LoginSign(r) ==
    /\ At(r, "no-mfa")
    /\ signSession(req[r].user, FALSE)
    /\ Finish(r)
    /\ UNCHANGED <<now, sessionEpochs, sessionEpochsFile, revokedTokens,
                   revokedTokensFile, up, storeVars, fresh, mfaTokens,
                   usedMfaJtis, history>>

signMfaToken(r) ==
    /\ At(r, "mfa-required")
    /\ Cardinality(mfaTokens) < MaxJti
    /\ mfaTokens' = mfaTokens \cup
          {[User |-> req[r].user, Exp |-> now + mfaTokenTTL,
            Jti |-> Cardinality(mfaTokens) + 1,
            Epoch |-> sessionEpochs[req[r].user]]}
    /\ Finish(r)
    /\ UNCHANGED <<sessionVars, up, storeVars, fresh, usedMfaJtis, history>>

-----------------------------------------------------------------------------
(* mfaLoginHandler *)

verifyMfaToken(m) ==
    /\ now <= m.Exp
    /\ m.Epoch = sessionEpochs[m.User]

MfaLoginVerify(r, m) ==
    /\ At(r, "idle")
    /\ verifyMfaToken(m)
    /\ req' = [req EXCEPT ![r] = [Idle EXCEPT !.stage = "token-ok",
                                              !.user = m.User, !.token = m]]
    /\ UNCHANGED <<sessionVars, up, storeVars, fresh, mfaTokens, usedMfaJtis, history>>

\* What an accepted code leaves behind, whichever kind it is.
Accept(r, code, rec, persisted) ==
    /\ persistRecordLocked(req[r].user, rec, persisted)
    /\ spent' = IF persisted THEN spent \cup {code} ELSE spent
    /\ respent' = IF persisted /\ code \in spent THEN respent \cup {code} ELSE respent
    /\ IF persisted THEN Become(r, "code-ok") ELSE Finish(r)
    /\ UNCHANGED <<sessionVars, up, fresh, mfaTokens, usedMfaJtis, enrolled, killed,
                   answered, reanswered>>

\* verifyAndConsume, for the TOTP code of a step in the window.
ConsumeTOTP(r, s, persisted) ==
    LET u == req[r].user
        rec == data[u] IN
    /\ At(r, "token-ok")
    /\ rec.Enabled
    /\ s \notin rec.UsedTOTPSteps
    /\ Accept(r, [kind |-> "totp", user |-> u, secret |-> rec.Secret, step |-> s],
              [rec EXCEPT !.UsedTOTPSteps = pruneTOTPSteps(@ \cup {s})], persisted)

\* verifyAndConsume, for a backup code.
ConsumeBackup(r, c, persisted) ==
    LET u == req[r].user
        rec == data[u] IN
    /\ At(r, "token-ok")
    /\ rec.Enabled
    /\ c \in rec.BackupCodes
    /\ Accept(r, [kind |-> "backup", user |-> u, code |-> c],
              [rec EXCEPT !.BackupCodes = @ \ {c}], persisted)

\* mfaReject: not enabled (any more), a replayed step, or a wrong code.
ConsumeReject(r) ==
    /\ At(r, "token-ok")
    /\ Finish(r)
    /\ UNCHANGED <<sessionVars, up, storeVars, fresh, mfaTokens, usedMfaJtis, history>>

\* Mutant: the sweep drops entries whose token is still alive.
SweptEager(jtis) == {m \in jtis : now < m.Exp}

Swept(jtis) == {m \in jtis : now <= m.Exp}

consumeMfaJti(r) ==
    LET m == req[r].token IN
    /\ At(r, "code-ok")
    /\ IF m \in usedMfaJtis
         THEN /\ Finish(r)
              /\ UNCHANGED <<usedMfaJtis, answered, reanswered>>
         ELSE /\ Become(r, "jti-ok")
              /\ usedMfaJtis' = Swept(usedMfaJtis \cup {m})
              /\ answered' = answered \cup {m.Jti}
              /\ reanswered' = IF m.Jti \in answered
                                 THEN reanswered \cup {[jti |-> m.Jti, expired |-> now > m.Exp]}
                                 ELSE reanswered
    /\ UNCHANGED <<sessionVars, up, storeVars, fresh, mfaTokens, enrolled, killed,
                   spent, respent>>

MfaLoginSign(r) ==
    /\ At(r, "jti-ok")
    /\ signSession(req[r].user, TRUE)
    /\ Finish(r)
    /\ UNCHANGED <<now, sessionEpochs, sessionEpochsFile, revokedTokens,
                   revokedTokensFile, up, storeVars, fresh, mfaTokens,
                   usedMfaJtis, history>>

-----------------------------------------------------------------------------
(* mfaSetupHandler *)

SetupCheck(r, t) ==
    /\ At(r, "idle")
    /\ verifySessionPayload(t)
    /\ ~isEnabled(t.User)
    /\ req' = [req EXCEPT ![r] = [Idle EXCEPT !.stage = "setup-ok", !.user = t.User]]
    /\ UNCHANGED <<sessionVars, up, storeVars, fresh, mfaTokens, usedMfaJtis, history>>

SetupStore(r, persisted, marked) ==
    /\ At(r, "setup-ok")
    /\ fresh < MaxFresh
    /\ fresh' = fresh + 1
    /\ set(req[r].user, [NoRecord EXCEPT !.Secret = fresh + 1], persisted, marked)
    /\ Finish(r)
    /\ UNCHANGED <<sessionVars, up, mfaTokens, usedMfaJtis, history>>

-----------------------------------------------------------------------------
(* mfaConfirmHandler *)

\* The record is read, and a valid code was presented for its secret.
ConfirmRead(r, t) ==
    /\ At(r, "idle")
    /\ verifySessionPayload(t)
    /\ data[t.User].Secret # NoSecret
    /\ req' = [req EXCEPT ![r] = [Idle EXCEPT !.stage = "confirm-read",
                                              !.user = t.User,
                                              !.rec = data[t.User]]]
    /\ UNCHANGED <<sessionVars, up, storeVars, fresh, mfaTokens, usedMfaJtis, history>>

\* Mutant: MFA is enabled without a new epoch.
ConfirmBumpSkipped(r, persisted) ==
    /\ At(r, "confirm-read")
    /\ req' = [req EXCEPT ![r].stage = "confirm-bumped",
                          ![r].before = {t \in issued : t.User = req[r].user}]
    /\ UNCHANGED <<sessionVars, up, storeVars, fresh, mfaTokens, usedMfaJtis, history>>

ConfirmBump(r, persisted) ==
    LET u == req[r].user IN
    /\ At(r, "confirm-read")
    /\ sessionEpochs[u] < MaxEpoch
    /\ bumpUserEpoch(u, persisted)
    /\ req' = [req EXCEPT ![r] =
                 IF persisted
                   THEN [@ EXCEPT !.stage = "confirm-bumped",
                                  !.before = {t \in issued : t.User = u}]
                   ELSE Idle]
    /\ UNCHANGED <<now, revokedTokens, revokedTokensFile, issued, up, storeVars,
                   fresh, mfaTokens, usedMfaJtis, history>>

\* The record as it was read, enabled, with a fresh set of backup codes.
ConfirmStore(r, persisted, marked) ==
    LET u == req[r].user IN
    /\ At(r, "confirm-bumped")
    /\ fresh < MaxFresh
    /\ fresh' = fresh + 1
    /\ set(u, [req[r].rec EXCEPT !.Enabled = TRUE,
                                 !.BackupCodes = BackupCodeSet(fresh + 1)],
           persisted, marked)
    /\ enrolled' = IF persisted THEN enrolled \cup {u} ELSE enrolled
    /\ IF persisted THEN Become(r, "confirm-stored") ELSE Finish(r)
    /\ UNCHANGED <<sessionVars, up, mfaTokens, usedMfaJtis, killed, spent, respent,
                   answered, reanswered>>

\* The enrolling browser gets a new session and the enrolment is reported.
ConfirmSign(r) ==
    /\ At(r, "confirm-stored")
    /\ signSession(req[r].user, TRUE)
    /\ killed' = killed \cup req[r].before
    /\ Finish(r)
    /\ UNCHANGED <<now, sessionEpochs, sessionEpochsFile, revokedTokens,
                   revokedTokensFile, up, storeVars, fresh, mfaTokens, usedMfaJtis,
                   enrolled, spent, respent, answered, reanswered>>

-----------------------------------------------------------------------------
(* mfaDisableHandler *)

\* The password was right, and so was a code for the record read; the code is
\* not consumed.
DisableCheck(r, t) ==
    /\ At(r, "idle")
    /\ verifySessionPayload(t)
    /\ data[t.User].Secret # NoSecret
    /\ req' = [req EXCEPT ![r] = [Idle EXCEPT !.stage = "disable-ok",
                                              !.user = t.User]]
    /\ UNCHANGED <<sessionVars, up, storeVars, fresh, mfaTokens, usedMfaJtis, history>>

DisableStore(r, persisted, marked) ==
    /\ At(r, "disable-ok")
    /\ delete(req[r].user, persisted, marked)
    /\ enrolled' = IF persisted THEN enrolled \ {req[r].user} ELSE enrolled
    /\ Finish(r)
    /\ UNCHANGED <<sessionVars, up, fresh, mfaTokens, usedMfaJtis, killed, spent,
                   respent, answered, reanswered>>

-----------------------------------------------------------------------------
(* The rest of the system *)

\* adminChangePasswordHandler, as far as this module sees it (AdminSessions
\* has all of it): the epoch moves.
PasswordChange(u) ==
    /\ up
    /\ sessionEpochs[u] < MaxEpoch
    /\ bumpUserEpoch(u, TRUE)
    /\ UNCHANGED <<now, revokedTokens, revokedTokensFile, issued, up, storeVars,
                   fresh, mfaTokens, usedMfaJtis, req, history>>

\* The secrets file is lost or deleted behind the process's back.
StoreLost ==
    /\ store.exists
    /\ store' = [exists |-> FALSE, data |-> NoData]
    /\ UNCHANGED <<sessionVars, up, data, marker, markerFailed, fresh, mfaTokens,
                   usedMfaJtis, req, history>>

\* Mutant: a missing store is always taken for a first run.
loadRefusedNever == FALSE

\* A missing store while the marker lists somebody is refused.
loadRefused == ~store.exists /\ marker # {}

\* mfaStore.load on a start: an existing store is loaded, a missing one is a
\* first run unless it is refused.
CrashRestart ==
    /\ loadSessionState
    /\ up' = ~loadRefused
    /\ data' = IF store.exists THEN store.data ELSE NoData
    /\ usedMfaJtis' = {}
    /\ req' = [r \in Requests |-> Idle]
    /\ answered' = {}
    /\ UNCHANGED <<store, marker, markerFailed, fresh, mfaTokens, enrolled, killed,
                   spent, respent, reanswered>>

\* The operator deletes the marker, "to intentionally reset MFA".
OperatorResetsMfa ==
    /\ ~up
    /\ marker' = {}
    /\ enrolled' = {}
    /\ UNCHANGED <<sessionVars, up, data, store, markerFailed, fresh, mfaTokens,
                   usedMfaJtis, req, killed, spent, respent, answered,
                   reanswered>>

ClockTick ==
    /\ Tick
    /\ UNCHANGED <<up, storeVars, fresh, mfaTokens, usedMfaJtis, req, history>>

LoginStep == \E r \in Loginers :
    \/ \E u \in Admins : LoginPassword(r, u)
    \/ LoginCheckMfa(r)
    \/ LoginSign(r)
    \/ signMfaToken(r)

MfaLoginStep == \E r \in Loginers :
    \/ \E m \in mfaTokens : MfaLoginVerify(r, m)
    \/ \E s \in TOTPWindow, persisted \in BOOLEAN : ConsumeTOTP(r, s, persisted)
    \/ \E c \in data[req[r].user].BackupCodes, persisted \in BOOLEAN :
          ConsumeBackup(r, c, persisted)
    \/ ConsumeReject(r)
    \/ consumeMfaJti(r)
    \/ MfaLoginSign(r)

EnrolStep == \E r \in Enrollers :
    \/ \E t \in issued : SetupCheck(r, t)
    \/ \E t \in issued : ConfirmRead(r, t)
    \/ \E t \in issued : DisableCheck(r, t)
    \/ \E persisted, marked \in BOOLEAN :
          \/ SetupStore(r, persisted, marked)
          \/ ConfirmStore(r, persisted, marked)
          \/ DisableStore(r, persisted, marked)
    \/ \E persisted \in BOOLEAN : ConfirmBump(r, persisted)
    \/ ConfirmSign(r)

Next ==
    \/ LoginStep
    \/ MfaLoginStep
    \/ EnrolStep
    \/ \E u \in Admins : PasswordChange(u)
    \/ StoreLost
    \/ CrashRestart
    \/ OperatorResetsMfa
    \/ ClockTick

Spec == Init /\ [][Next]_vars

-----------------------------------------------------------------------------
(* Properties *)

\* Every variable has its type.
TypeOK ==
    /\ SessionTypeOK
    /\ up \in BOOLEAN
    /\ data \in [Admins -> MfaRecord]
    /\ store \in [exists : BOOLEAN, data : [Admins -> MfaRecord]]
    /\ marker \in SUBSET Admins
    /\ markerFailed \in BOOLEAN
    /\ fresh \in Nat
    /\ mfaTokens \in SUBSET MfaToken
    /\ usedMfaJtis \in SUBSET MfaToken
    /\ req \in [Requests -> Request]
    /\ enrolled \in SUBSET Admins
    /\ killed \in SUBSET Token
    /\ spent \in SUBSET Code
    /\ respent \in SUBSET Code
    /\ answered \in SUBSET Nat
    /\ reanswered \in SUBSET [jti : Nat, expired : BOOLEAN]

\* An account whose second factor was enabled and not disabled is asked for it
\* whenever the process runs: not a failed write, not a crash, and not the loss
\* of the secrets file makes it a password-only account, as long as the
\* enrolment marker could be written.
EnrolmentNeverSilentlyLost ==
    up /\ ~markerFailed => \A u \in enrolled : isEnabled(u)

\* Once mfaConfirmHandler has reported the enrolment, no session that existed
\* when it moved the epoch is accepted again.
KilledStayDead == \A t \in killed : ~verifySessionPayload(t)

\* verifyAndConsume accepts a TOTP step, or a backup code, at most once, also
\* across concurrent logins, failed writes, crashes and the pruning of old steps.
CodeAcceptedOnce == respent = {}

\* As long as its token has not expired, a challenge is answered at most once
\* between two starts of the process, whatever requests run side by side and
\* however often the set of spent tokens is swept.
LiveChallengeAnsweredOnce == \A a \in reanswered : a.expired

\* While an account has its second factor enabled, none of its password-only
\* sessions is accepted.  A login inside a confirm breaks it (README, "Where the
\* code falls short").
NoPasswordOnlySession ==
    \A t \in issued : isEnabled(t.User) /\ ~t.MFA => ~verifySessionPayload(t)

=============================================================================
