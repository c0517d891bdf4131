---------------------------- MODULE AdminMfaProofs ----------------------------
(***************************************************************************)
(* Proofs about AdminMfa, for any set of admins and any number of logins   *)
(* at once.                                                                *)
(*                                                                         *)
(* Four inductive invariants over the type invariant, one for each promise *)
(* of the second factor, so that each shows what its promise rests on:     *)
(*                                                                         *)
(*   SessionInv    the sessions of an account being enrolled die           *)
(*   ChallengeInv  a live challenge is answered once                       *)
(*   CodeInv       a code is accepted once                                 *)
(*   EnrolInv      an enrolment survives failures, crashes and lost files  *)
(*                                                                         *)
(* The first two, and the backup-code half of the third, hold for any      *)
(* number of enrolments at once.  The others do not, and say so: a confirm *)
(* writes back the used steps it read before other requests ran (CodeInv), *)
(* and a setup overwrites what a confirm enabled after its check           *)
(* (EnrolInv).                                                             *)
(***************************************************************************)
EXTENDS AdminMfa, FiniteSetTheorems, TLAPS

-----------------------------------------------------------------------------
(* The invariants *)

\* The file holds the epochs in force; a crash can change nothing.
EpochsOnDisk == sessionEpochs = sessionEpochsFile

\* No session is ahead of its user's epoch.
NoTokenAhead == \A t \in issued : t.Epoch <= sessionEpochs[t.User]

\* Whatever a confirm remembers as killed by its bump is overtaken, and so is
\* whatever a reported enrolment killed.
Overtaken(T) == \A t \in T : t.Epoch < sessionEpochs[t.User]

SessionInv ==
    /\ EpochsOnDisk
    /\ NoTokenAhead
    /\ \A r \in Requests : Overtaken(req[r].before)
    /\ Overtaken(killed)

\* MFA tokens are numbered without repetition, up to their number.
JtiUnique ==
    /\ IsFiniteSet(mfaTokens)
    /\ \A m \in mfaTokens : m.Jti <= Cardinality(mfaTokens)
    /\ \A m, n \in mfaTokens : m.Jti = n.Jti => m = n
    /\ \A j \in answered : j <= Cardinality(mfaTokens)

\* A login between verifyMfaToken and consumeMfaJti holds a minted token.
TokenMinted ==
    \A r \in Requests : req[r].stage \in {"token-ok", "code-ok"} =>
        req[r].token \in mfaTokens

\* The sweep forgets an answered challenge only after it has expired.
AnsweredRemembered ==
    \A m \in mfaTokens : m.Jti \in answered => m \in usedMfaJtis \/ now > m.Exp

ChallengeInv ==
    /\ JtiUnique
    /\ TokenMinted
    /\ AnsweredRemembered
    /\ LiveChallengeAnsweredOnce

\* While the secrets file exists, it holds what the memory holds.
StoreInStep == store.exists => store.data = data

\* Code sets are numbered up to fresh, and a spent backup code is in no record.
BackupsGone ==
    /\ \A u \in Admins : \A c \in data[u].BackupCodes : c[1] <= fresh
    /\ \A x \in spent : x.kind = "backup" =>
         x.code[1] <= fresh /\ x.code \notin data[x.user].BackupCodes

\* A spent TOTP step is still remembered, or its window is over.
StepsRemembered ==
    \A x \in spent : x.kind = "totp" =>
        /\ x.step <= now + 1
        /\ data[x.user].Enabled /\ data[x.user].Secret = x.secret =>
             x.step \in data[x.user].UsedTOTPSteps \/ now > x.step + 1

\* No backup code was accepted twice.
BackupAcceptedOnce == \A x \in respent : x.kind = "totp"

CodeInv ==
    /\ StoreInStep
    /\ BackupsGone
    /\ BackupAcceptedOnce
    /\ Enrollers = {} => StepsRemembered /\ CodeAcceptedOnce

\* The process is down only for want of the secrets file.
DownWithoutStore == ~up => ~store.exists

\* The marker lists everybody enrolled, and while the process runs each of them
\* has an enabled record.
EnrolledMarked ==
    ~markerFailed => /\ enrolled \subseteq marker
                     /\ up => enrolled \subseteq EnabledUsers(data)

\* What a setup has checked still holds when it writes.
SetupChecked ==
    \A r \in Enrollers : req[r].stage = "setup-ok" => ~isEnabled(req[r].user)

OneEnroller == \A r, o \in Enrollers : r = o

EnrolInv ==
    /\ StoreInStep
    /\ DownWithoutStore
    /\ EnrolledMarked
    /\ SetupChecked

-----------------------------------------------------------------------------
(* Typing *)

\* The number of a new MFA token is the size of the set of tokens: only the
\* size of a finite set is a number.
Typed == TypeOK /\ IsFiniteSet(mfaTokens)

\* The empty record, the idle request and a fresh set of codes have their types.
LEMMA ConstantTypes ==
    /\ NoRecord \in MfaRecord
    /\ NoData \in [Admins -> MfaRecord]
    /\ NoMfaToken \in MfaToken
    /\ Idle \in Request
    /\ \A n \in Nat : BackupCodeSet(n) \in SUBSET BackupCode
<1>1. NoRecord \in MfaRecord
  BY DEF NoRecord, MfaRecord, NoSecret
<1>2. NoData \in [Admins -> MfaRecord]
  BY <1>1 DEF NoData
<1>3. AnAdmin \in Admins
  BY MfaAssumption DEF AnAdmin
<1>4. NoMfaToken \in MfaToken
  BY <1>3 DEF NoMfaToken, MfaToken
<1>5. Idle \in Request
  BY <1>1, <1>3, <1>4 DEF Idle, Request, Stage
<1>6. \A n \in Nat : BackupCodeSet(n) \in SUBSET BackupCode
  BY DEF BackupCodeSet, BackupCode
<1> QED BY <1>1, <1>2, <1>4, <1>5, <1>6

\* The fields of a request in flight.
LEMMA ReqFields ==
    ASSUME TypeOK, NEW r \in Requests
    PROVE  /\ req[r] \in Request
           /\ req[r].stage \in Stage
           /\ req[r].user \in Admins
           /\ req[r].token \in MfaToken
           /\ req[r].rec \in MfaRecord
           /\ req[r].before \in SUBSET Token
<1>1. req[r] \in Request
  BY DEF TypeOK
<1> QED BY <1>1 DEF Request

\* The fields of a record of the store.
LEMMA RecFields ==
    ASSUME NEW rec \in MfaRecord
    PROVE  /\ rec.Secret \in Nat
           /\ rec.Enabled \in BOOLEAN
           /\ rec.BackupCodes \in SUBSET BackupCode
           /\ rec.UsedTOTPSteps \in SUBSET Nat
BY DEF MfaRecord

\* What the handlers write into a record.
LEMMA RecUpdates ==
    ASSUME NEW rec \in MfaRecord
    PROVE  /\ \A S \in SUBSET Nat : [rec EXCEPT !.UsedTOTPSteps = S] \in MfaRecord
           /\ \A B \in SUBSET BackupCode : [rec EXCEPT !.BackupCodes = B] \in MfaRecord
           /\ \A n \in Nat : [rec EXCEPT !.Secret = n] \in MfaRecord
           /\ \A B \in SUBSET BackupCode :
                [rec EXCEPT !.Enabled = TRUE, !.BackupCodes = B] \in MfaRecord
BY DEF MfaRecord

\* What signSession mints is a session token.
LEMMA SignedType ==
    ASSUME TypeOK, NEW u \in Admins, NEW m \in BOOLEAN
    PROVE  SignedPayload(u, m) \in Token
BY SessionAssumption DEF TypeOK, SessionTypeOK, SignedPayload, Token

\* set and delete keep the types of the store's variables.
LEMMA SetType ==
    ASSUME TypeOK, NEW u \in Admins, NEW rec \in MfaRecord,
           NEW p \in BOOLEAN, NEW k \in BOOLEAN, set(u, rec, p, k)
    PROVE  /\ data' \in [Admins -> MfaRecord]
           /\ store' \in [exists : BOOLEAN, data : [Admins -> MfaRecord]]
           /\ marker' \in SUBSET Admins
           /\ markerFailed' \in BOOLEAN
<1> DEFINE next == [data EXCEPT ![u] = rec]
<1>1. next \in [Admins -> MfaRecord]
  BY DEF TypeOK
<1>2. EnabledUsers(next) \in SUBSET Admins
  BY DEF EnabledUsers
<1> HIDE DEF next
<1>3. CASE p
  <2>1. /\ data' = next
        /\ store' = [exists |-> TRUE, data |-> next]
        /\ marker' = IF k THEN EnabledUsers(next) ELSE marker
        /\ markerFailed' = (markerFailed \/ ~k)
    BY <1>3 DEF set, next
  <2>2. markerFailed' \in BOOLEAN
    BY <2>1
  <2> QED BY <1>1, <1>2, <2>1, <2>2 DEF TypeOK
<1>4. CASE ~p
  BY <1>4 DEF set, storeVars, TypeOK
<1> QED BY <1>3, <1>4

\* Init establishes the types.
LEMMA InitTypeOK == Init => TypeOK
<1> SUFFICES ASSUME Init PROVE TypeOK
  OBVIOUS
<1>1. SessionTypeOK
  BY DEF Init, SessionInit, SessionTypeOK
<1>2. PICK E \in SUBSET Admins : /\ data = Enrolment(E)
                                 /\ store = [exists |-> E # {}, data |-> Enrolment(E)]
                                 /\ marker = E
                                 /\ enrolled = E
  BY DEF Init
<1>3. [Secret |-> 1, Enabled |-> TRUE, BackupCodes |-> BackupCodeSet(1),
       UsedTOTPSteps |-> {}] \in MfaRecord
  BY ConstantTypes DEF MfaRecord
<1>4. Enrolment(E) \in [Admins -> MfaRecord]
  BY <1>3, ConstantTypes DEF Enrolment
<1>5. store \in [exists : BOOLEAN, data : [Admins -> MfaRecord]]
  BY <1>2, <1>4
<1>6. req \in [Requests -> Request]
  BY ConstantTypes DEF Init
<1> QED
  BY <1>1, <1>2, <1>4, <1>5, <1>6 DEF Init, TypeOK

\* Finishing a request, moving it on, or starting another one in its slot.
LEMMA ReqUpdates ==
    ASSUME TypeOK, NEW r \in Requests
    PROVE  /\ [req EXCEPT ![r] = Idle] \in [Requests -> Request]
           /\ \A s \in Stage : [req EXCEPT ![r].stage = s] \in [Requests -> Request]
           /\ \A q \in Request : [req EXCEPT ![r] = q] \in [Requests -> Request]
<1>1. req \in [Requests -> Request]
  BY DEF TypeOK
<1>2. \A s \in Stage : [req[r] EXCEPT !.stage = s] \in Request
  BY ReqFields DEF Request
<1> QED BY <1>1, <1>2, ConstantTypes

\* An accepted code keeps the types.
LEMMA AcceptType ==
    ASSUME TypeOK, NEW r \in Requests, NEW code \in Code, NEW rec \in MfaRecord,
           NEW p \in BOOLEAN, Accept(r, code, rec, p)
    PROVE  TypeOK'
<1> DEFINE next == [data EXCEPT ![req[r].user] = rec]
<1>1. next \in [Admins -> MfaRecord]
  BY DEF TypeOK
<1> HIDE DEF next
<1>2. /\ data' = IF p THEN next ELSE data
      /\ store' = IF p THEN [exists |-> TRUE, data |-> next] ELSE store
      /\ UNCHANGED <<marker, markerFailed>>
  BY DEF Accept, persistRecordLocked, next
<1>3. /\ data' \in [Admins -> MfaRecord]
      /\ store' \in [exists : BOOLEAN, data : [Admins -> MfaRecord]]
  BY <1>1, <1>2 DEF TypeOK
<1>4. req' \in [Requests -> Request]
  <2>1. "code-ok" \in Stage
    BY DEF Stage
  <2>2. CASE p
    BY <2>1, <2>2, ReqUpdates DEF Accept, Become
  <2>3. CASE ~p
    BY <2>3, ReqUpdates DEF Accept, Finish
  <2> QED BY <2>2, <2>3
<1>5. spent' \in SUBSET Code /\ respent' \in SUBSET Code
  BY DEF Accept, TypeOK
<1> QED
  BY <1>2, <1>3, <1>4, <1>5 DEF Accept, TypeOK, SessionTypeOK, sessionVars

\* Every step preserves the types.
LEMMA NextTyped == Typed /\ [Next]_vars => Typed'
<1> SUFFICES ASSUME Typed, [Next]_vars PROVE Typed'
  OBVIOUS
<1>s. Loginers \subseteq Requests /\ Enrollers \subseteq Requests
  BY DEF Requests
<1> USE DEF Typed, TypeOK, SessionTypeOK
<1>1. ASSUME NEW r \in Loginers, NEW u \in Admins, LoginPassword(r, u)
      PROVE  Typed'
  <2>1. [Idle EXCEPT !.stage = "password-ok", !.user = u] \in Request
    BY ConstantTypes DEF Request, Stage
  <2>2. req' \in [Requests -> Request]
    BY <1>1, <1>s, <2>1, ReqUpdates DEF LoginPassword
  <2> QED
    BY <1>1, <2>2 DEF LoginPassword, sessionVars, storeVars, history
<1>2. ASSUME NEW r \in Loginers, LoginCheckMfa(r)
      PROVE  Typed'
  <2>1. req' \in [Requests -> Request]
    BY <1>2, <1>s, ReqUpdates DEF LoginCheckMfa, Become, Stage
  <2> QED
    BY <1>2, <2>1 DEF LoginCheckMfa, sessionVars, storeVars, history
<1>3. ASSUME NEW r \in Loginers, LoginSign(r)
      PROVE  Typed'
  <2>1. req' \in [Requests -> Request]
    BY <1>3, <1>s, ReqUpdates DEF LoginSign, Finish
  <2>2. SignedPayload(req[r].user, FALSE) \in Token
    BY <1>s, ReqFields, SignedType
  <2> QED
    BY <1>3, <2>1, <2>2 DEF LoginSign, signSession, storeVars, history
<1>4. ASSUME NEW r \in Loginers, signMfaToken(r)
      PROVE  Typed'
  <2>1. req' \in [Requests -> Request]
    BY <1>4, <1>s, ReqUpdates DEF signMfaToken, Finish
  <2> DEFINE m == [User |-> req[r].user, Exp |-> now + mfaTokenTTL,
                   Jti |-> Cardinality(mfaTokens) + 1,
                   Epoch |-> sessionEpochs[req[r].user]]
  <2>2. Cardinality(mfaTokens) \in Nat
    BY FS_CardinalityType
  <2>3. m \in MfaToken
    BY <1>s, <2>2, ReqFields, MfaAssumption DEF MfaToken
  <2>4. mfaTokens' = mfaTokens \cup {m}
    BY <1>4 DEF signMfaToken
  <2> HIDE DEF m
  <2>5. IsFiniteSet(mfaTokens')
    BY <2>4, FS_AddElement
  <2> QED
    BY <1>4, <2>1, <2>3, <2>4, <2>5 DEF signMfaToken, sessionVars, storeVars, history
<1>5. ASSUME NEW r \in Loginers, NEW m \in mfaTokens, MfaLoginVerify(r, m)
      PROVE  Typed'
  <2>1. [Idle EXCEPT !.stage = "token-ok", !.user = m.User, !.token = m] \in Request
    BY ConstantTypes DEF Request, Stage, MfaToken
  <2>2. req' \in [Requests -> Request]
    BY <1>5, <1>s, <2>1, ReqUpdates DEF MfaLoginVerify
  <2> QED
    BY <1>5, <2>2 DEF MfaLoginVerify, sessionVars, storeVars, history
<1>6. ASSUME NEW r \in Loginers, NEW s \in TOTPWindow, NEW p \in BOOLEAN,
             ConsumeTOTP(r, s, p)
      PROVE  Typed'
  <2> DEFINE rec == data[req[r].user]
             code == [kind |-> "totp", user |-> req[r].user, secret |-> rec.Secret,
                      step |-> s]
             left == pruneTOTPSteps(rec.UsedTOTPSteps \cup {s})
  <2>1. req[r].user \in Admins /\ rec \in MfaRecord /\ s \in Nat
    BY <1>s, ReqFields DEF TOTPWindow
  <2>2. code \in Code
    BY <2>1, RecFields DEF Code
  <2>3. left \in SUBSET Nat
    BY <2>1, RecFields DEF pruneTOTPSteps
  <2>4. [rec EXCEPT !.UsedTOTPSteps = left] \in MfaRecord
    BY <2>1, <2>3, RecUpdates
  <2>5. Accept(r, code, [rec EXCEPT !.UsedTOTPSteps = left], p)
    BY <1>6 DEF ConsumeTOTP
  <2> HIDE DEF code, left, rec
  <2>6. TypeOK'
    BY <1>s, <2>2, <2>4, <2>5, AcceptType
  <2>7. mfaTokens' = mfaTokens
    BY <2>5 DEF Accept
  <2> QED BY <2>6, <2>7
<1>7. ASSUME NEW r \in Loginers, NEW c \in data[req[r].user].BackupCodes,
             NEW p \in BOOLEAN, ConsumeBackup(r, c, p)
      PROVE  Typed'
  <2> DEFINE rec == data[req[r].user]
             code == [kind |-> "backup", user |-> req[r].user, code |-> c]
             left == rec.BackupCodes \ {c}
  <2>1. req[r].user \in Admins /\ rec \in MfaRecord
    BY <1>s, ReqFields
  <2>2. c \in BackupCode /\ left \in SUBSET BackupCode
    BY <2>1, RecFields
  <2>3. code \in Code
    BY <2>1, <2>2 DEF Code
  <2>4. [rec EXCEPT !.BackupCodes = left] \in MfaRecord
    BY <2>1, <2>2, RecUpdates
  <2>5. Accept(r, code, [rec EXCEPT !.BackupCodes = left], p)
    BY <1>7 DEF ConsumeBackup
  <2> HIDE DEF code, left, rec
  <2>6. TypeOK'
    BY <1>s, <2>3, <2>4, <2>5, AcceptType
  <2>7. mfaTokens' = mfaTokens
    BY <2>5 DEF Accept
  <2> QED BY <2>6, <2>7
<1>8. ASSUME NEW r \in Loginers, ConsumeReject(r)
      PROVE  Typed'
  <2>1. req' \in [Requests -> Request]
    BY <1>8, <1>s, ReqUpdates DEF ConsumeReject, Finish
  <2> QED
    BY <1>8, <2>1 DEF ConsumeReject, sessionVars, storeVars, history
<1>9. ASSUME NEW r \in Loginers, consumeMfaJti(r)
      PROVE  Typed'
  <2> DEFINE m == req[r].token
  <2>1. m \in MfaToken /\ m.Jti \in Nat
    BY <1>s, ReqFields DEF MfaToken
  <2>2. req' \in [Requests -> Request]
    <3>1. "jti-ok" \in Stage /\ r \in Requests
      BY <1>s DEF Stage
    <3>2. CASE m \in usedMfaJtis
      BY <1>9, <3>1, <3>2, ReqUpdates DEF consumeMfaJti, Finish
    <3>3. CASE m \notin usedMfaJtis
      BY <1>9, <3>1, <3>3, ReqUpdates DEF consumeMfaJti, Become
    <3> QED BY <3>2, <3>3
  <2>3. /\ usedMfaJtis' \in SUBSET MfaToken
        /\ answered' \in SUBSET Nat
    BY <1>9, <2>1 DEF consumeMfaJti, Swept
  <2>4. reanswered' \in SUBSET [jti : Nat, expired : BOOLEAN]
    <3>1. [jti |-> m.Jti, expired |-> now > m.Exp] \in [jti : Nat, expired : BOOLEAN]
      BY <2>1
    <3> QED BY <1>9, <3>1 DEF consumeMfaJti
  <2> QED
    BY <1>9, <2>2, <2>3, <2>4 DEF consumeMfaJti, sessionVars, storeVars
<1>10. ASSUME NEW r \in Loginers, MfaLoginSign(r)
       PROVE  Typed'
  <2>1. req' \in [Requests -> Request]
    BY <1>10, <1>s, ReqUpdates DEF MfaLoginSign, Finish
  <2>2. SignedPayload(req[r].user, TRUE) \in Token
    BY <1>s, ReqFields, SignedType
  <2> QED
    BY <1>10, <2>1, <2>2 DEF MfaLoginSign, signSession, storeVars, history
<1>11. ASSUME NEW r \in Enrollers, NEW t \in issued, SetupCheck(r, t)
       PROVE  Typed'
  <2>1. [Idle EXCEPT !.stage = "setup-ok", !.user = t.User] \in Request
    BY ConstantTypes DEF Request, Stage, Token
  <2>2. req' \in [Requests -> Request]
    BY <1>11, <1>s, <2>1, ReqUpdates DEF SetupCheck
  <2> QED
    BY <1>11, <2>2 DEF SetupCheck, sessionVars, storeVars, history
<1>12. ASSUME NEW r \in Enrollers, NEW t \in issued, ConfirmRead(r, t)
       PROVE  Typed'
  <2>1. t.User \in Admins /\ data[t.User] \in MfaRecord
    BY DEF Token
  <2>2. [Idle EXCEPT !.stage = "confirm-read", !.user = t.User,
                     !.rec = data[t.User]] \in Request
    BY <2>1, ConstantTypes DEF Request, Stage
  <2>3. req' \in [Requests -> Request]
    BY <1>12, <1>s, <2>2, ReqUpdates DEF ConfirmRead
  <2> QED
    BY <1>12, <2>3 DEF ConfirmRead, sessionVars, storeVars, history
<1>13. ASSUME NEW r \in Enrollers, NEW t \in issued, DisableCheck(r, t)
       PROVE  Typed'
  <2>1. [Idle EXCEPT !.stage = "disable-ok", !.user = t.User] \in Request
    BY ConstantTypes DEF Request, Stage, Token
  <2>2. req' \in [Requests -> Request]
    BY <1>13, <1>s, <2>1, ReqUpdates DEF DisableCheck
  <2> QED
    BY <1>13, <2>2 DEF DisableCheck, sessionVars, storeVars, history
<1>14. ASSUME NEW r \in Enrollers, NEW p \in BOOLEAN, NEW k \in BOOLEAN,
              SetupStore(r, p, k)
       PROVE  Typed'
  <2>1. req' \in [Requests -> Request]
    BY <1>14, <1>s, ReqUpdates DEF SetupStore, Finish
  <2>2. [NoRecord EXCEPT !.Secret = fresh + 1] \in MfaRecord
    <3>1. NoRecord \in MfaRecord /\ fresh + 1 \in Nat
      BY ConstantTypes
    <3> QED BY <3>1, RecUpdates
  <2>3. /\ data' \in [Admins -> MfaRecord]
        /\ store' \in [exists : BOOLEAN, data : [Admins -> MfaRecord]]
        /\ marker' \in SUBSET Admins
        /\ markerFailed' \in BOOLEAN
    BY <1>14, <1>s, <2>2, ReqFields, SetType DEF SetupStore
  <2> QED
    BY <1>14, <2>1, <2>3 DEF SetupStore, sessionVars, history
<1>15. ASSUME NEW r \in Enrollers, NEW p \in BOOLEAN, NEW k \in BOOLEAN,
              ConfirmStore(r, p, k)
       PROVE  Typed'
  <2>1. req' \in [Requests -> Request]
    <3>1. "confirm-stored" \in Stage /\ r \in Requests
      BY <1>s DEF Stage
    <3>2. CASE p
      BY <1>15, <3>1, <3>2, ReqUpdates DEF ConfirmStore, Become
    <3>3. CASE ~p
      BY <1>15, <3>1, <3>3, ReqUpdates DEF ConfirmStore, Finish
    <3> QED BY <3>2, <3>3
  <2>2. BackupCodeSet(fresh + 1) \in SUBSET BackupCode /\ req[r].rec \in MfaRecord
    BY <1>s, ConstantTypes, ReqFields
  <2>3. [req[r].rec EXCEPT !.Enabled = TRUE,
                           !.BackupCodes = BackupCodeSet(fresh + 1)] \in MfaRecord
    BY <2>2, RecUpdates
  <2>4. /\ data' \in [Admins -> MfaRecord]
        /\ store' \in [exists : BOOLEAN, data : [Admins -> MfaRecord]]
        /\ marker' \in SUBSET Admins
        /\ markerFailed' \in BOOLEAN
    BY <1>15, <1>s, <2>3, ReqFields, SetType DEF ConfirmStore
  <2>5. enrolled' \in SUBSET Admins
    BY <1>15, <1>s, ReqFields DEF ConfirmStore
  <2> QED
    BY <1>15, <2>1, <2>4, <2>5 DEF ConfirmStore, sessionVars
<1>16. ASSUME NEW r \in Enrollers, NEW p \in BOOLEAN, NEW k \in BOOLEAN,
              DisableStore(r, p, k)
       PROVE  Typed'
  <2>1. req' \in [Requests -> Request]
    BY <1>16, <1>s, ReqUpdates DEF DisableStore, Finish
  <2>2. /\ data' \in [Admins -> MfaRecord]
        /\ store' \in [exists : BOOLEAN, data : [Admins -> MfaRecord]]
        /\ marker' \in SUBSET Admins
        /\ markerFailed' \in BOOLEAN
    BY <1>16, <1>s, ConstantTypes, ReqFields, SetType DEF DisableStore, delete
  <2>3. enrolled' \in SUBSET Admins
    BY <1>16 DEF DisableStore
  <2> QED
    BY <1>16, <2>1, <2>2, <2>3 DEF DisableStore, sessionVars
<1>17. ASSUME NEW r \in Enrollers, NEW p \in BOOLEAN, ConfirmBump(r, p)
       PROVE  Typed'
  <2> DEFINE u == req[r].user
             q == [req[r] EXCEPT !.stage = "confirm-bumped",
                                 !.before = {t \in issued : t.User = u}]
  <2>1. u \in Admins /\ req[r] \in Request
    BY <1>s, ReqFields
  <2>2. q \in Request
    BY <2>1 DEF Request, Stage
  <2>3. req' = [req EXCEPT ![r] = IF p THEN q ELSE Idle]
    BY <1>17 DEF ConfirmBump
  <2>4. req' \in [Requests -> Request]
    BY <1>s, <2>2, <2>3, ReqUpdates
  <2>5. /\ sessionEpochs' \in [Admins -> Nat]
        /\ sessionEpochsFile' \in [Admins -> Nat]
    BY <1>17, <2>1 DEF ConfirmBump, bumpUserEpoch
  <2> QED
    BY <1>17, <2>4, <2>5 DEF ConfirmBump, storeVars, history
<1>18. ASSUME NEW r \in Enrollers, ConfirmSign(r)
       PROVE  Typed'
  <2>1. req' \in [Requests -> Request]
    BY <1>18, <1>s, ReqUpdates DEF ConfirmSign, Finish
  <2>2. SignedPayload(req[r].user, TRUE) \in Token /\ req[r].before \in SUBSET Token
    BY <1>s, ReqFields, SignedType
  <2> QED
    BY <1>18, <2>1, <2>2 DEF ConfirmSign, signSession, storeVars
<1>19. ASSUME NEW u \in Admins, PasswordChange(u)
       PROVE  Typed'
  BY <1>19 DEF PasswordChange, bumpUserEpoch, storeVars, history
<1>20. CASE StoreLost
  <2>1. store' \in [exists : BOOLEAN, data : [Admins -> MfaRecord]]
    BY <1>20, ConstantTypes DEF StoreLost
  <2> QED
    BY <1>20, <2>1 DEF StoreLost, sessionVars, history
<1>21. CASE CrashRestart
  <2>1. data' \in [Admins -> MfaRecord]
    BY <1>21, ConstantTypes DEF CrashRestart
  <2>2. req' \in [Requests -> Request]
    BY <1>21, ConstantTypes DEF CrashRestart
  <2>3. up' \in BOOLEAN
    BY <1>21 DEF CrashRestart
  <2> QED
    BY <1>21, <2>1, <2>2, <2>3 DEF CrashRestart, loadSessionState, Unexpired
<1>22. CASE OperatorResetsMfa
  BY <1>22 DEF OperatorResetsMfa, sessionVars
<1>23. CASE ClockTick
  BY <1>23 DEF ClockTick, Tick, storeVars, history
<1>24. CASE UNCHANGED vars
  BY <1>24 DEF vars, sessionVars, storeVars, history
<1>l. CASE LoginStep
  BY <1>l, <1>1, <1>2, <1>3, <1>4 DEF LoginStep
<1>m. CASE MfaLoginStep
  BY <1>m, <1>5, <1>6, <1>7, <1>8, <1>9, <1>10 DEF MfaLoginStep
<1>e. CASE EnrolStep
  BY <1>e, <1>11, <1>12, <1>13, <1>14, <1>15, <1>16, <1>17, <1>18 DEF EnrolStep
<1> QED
  BY <1>l, <1>m, <1>e, <1>19, <1>20, <1>21, <1>22, <1>23, <1>24 DEF Next

\* Every variable keeps its type through logins, enrolments, lost files and
\* restarts, whatever the constants.
THEOREM TypeCorrect == Spec => []TypeOK
<1>1. Init => Typed
  BY InitTypeOK, FS_EmptySet DEF Init, Typed
<1>2. Typed => TypeOK
  BY DEF Typed
<1> QED BY <1>1, <1>2, NextTyped, PTL DEF Spec

-----------------------------------------------------------------------------
(* Sessions that an enrolment kills *)

\* A step that leaves the epochs, the sessions and the history alone, and
\* remembers nothing new as killed, preserves SessionInv.
LEMMA QuietSession ==
    ASSUME SessionInv, TypeOK,
           UNCHANGED <<sessionEpochs, sessionEpochsFile, issued, killed>>,
           \A o \in Requests : req'[o].before \subseteq req[o].before
    PROVE  SessionInv'
BY DEF SessionInv, EpochsOnDisk, NoTokenAhead, Overtaken

\* A finished, a moved and a restarted request remember nothing new.
LEMMA BeforeShrinks ==
    ASSUME TypeOK, NEW r \in Requests, NEW s, NEW q, q.before = {},
           \/ req' = [req EXCEPT ![r] = Idle]
           \/ req' = [req EXCEPT ![r].stage = s]
           \/ req' = [req EXCEPT ![r] = q]
    PROVE  \A o \in Requests : req'[o].before \subseteq req[o].before
<1>1. req \in [Requests -> Request] /\ Idle.before = {}
  BY DEF TypeOK, Idle
<1>2. [req[r] EXCEPT !.stage = s].before = req[r].before
  BY ReqFields DEF Request
<1>3. CASE req' = [req EXCEPT ![r] = Idle]
  BY <1>1, <1>3
<1>4. CASE req' = [req EXCEPT ![r].stage = s]
  <2>1. req' = [req EXCEPT ![r] = [req[r] EXCEPT !.stage = s]]
    BY <1>4
  <2> DEFINE q2 == [req[r] EXCEPT !.stage = s]
  <2>2. q2.before = req[r].before
    BY <1>2
  <2> HIDE DEF q2
  <2>3. \A o \in Requests : req'[o] = IF o = r THEN q2 ELSE req[o]
    BY <1>1, <2>1 DEF q2
  <2> QED BY <2>2, <2>3
<1>5. CASE req' = [req EXCEPT ![r] = q]
  BY <1>1, <1>5
<1> QED BY <1>3, <1>4, <1>5

\* Signing a session: it carries the epoch in force.
LEMMA SignKeepsSessions ==
    ASSUME SessionInv, TypeOK, NEW r \in Requests, NEW m \in BOOLEAN,
           signSession(req[r].user, m), req' = [req EXCEPT ![r] = Idle],
           UNCHANGED <<sessionEpochs, sessionEpochsFile>>,
           killed' = killed \/ killed' = killed \cup req[r].before
    PROVE  SessionInv'
<1> DEFINE t0 == SignedPayload(req[r].user, m)
<1>1. t0 \in Token /\ t0.Epoch = sessionEpochs[t0.User]
  BY ReqFields, SignedType DEF SignedPayload
<1>2. issued' = issued \cup {t0}
  BY DEF signSession
<1> HIDE DEF t0
<1>3. t0.Epoch <= sessionEpochs[t0.User]
  BY <1>1 DEF Token
<1>4. EpochsOnDisk' /\ NoTokenAhead'
  BY <1>2, <1>3 DEF SessionInv, EpochsOnDisk, NoTokenAhead
<1>5. \A o \in Requests : req'[o].before \subseteq req[o].before
  BY DEF TypeOK, Idle
<1>6. Overtaken(req[r].before)
  BY DEF SessionInv
<1> QED
  BY <1>4, <1>5, <1>6 DEF SessionInv, Overtaken

\* A bump that reached the disk overtakes every session of its user, and one
\* that did not changes nothing.
LEMMA BumpOvertakes ==
    ASSUME SessionInv, TypeOK, NEW u \in Admins, NEW p \in BOOLEAN,
           bumpUserEpoch(u, p), UNCHANGED <<issued, killed>>
    PROVE  /\ EpochsOnDisk' /\ NoTokenAhead' /\ Overtaken(killed)'
           /\ \A o \in Requests : \A t \in req[o].before :
                t.Epoch < sessionEpochs'[t.User]
           /\ p => \A t \in issued : t.User = u => t.Epoch < sessionEpochs'[t.User]
<1>1. /\ sessionEpochs \in [Admins -> Nat]
      /\ issued \subseteq Token /\ killed \subseteq Token
      /\ \A o \in Requests : req[o].before \subseteq Token
  BY ReqFields DEF TypeOK, SessionTypeOK
<1>2. EpochsOnDisk'
  BY DEF SessionInv, EpochsOnDisk, bumpUserEpoch
<1>3. \A a \in Admins : /\ sessionEpochs[a] \in Nat /\ sessionEpochs'[a] \in Nat
                        /\ sessionEpochs[a] <= sessionEpochs'[a]
                        /\ p /\ a = u => sessionEpochs'[a] = sessionEpochs[a] + 1
  BY <1>1 DEF bumpUserEpoch
<1>4. \A t \in Token : t.User \in Admins /\ t.Epoch \in Nat
  BY DEF Token
<1>5. \A t \in issued : t.Epoch <= sessionEpochs[t.User]
  BY DEF SessionInv, NoTokenAhead
<1>6. NoTokenAhead'
  BY <1>1, <1>3, <1>4, <1>5 DEF NoTokenAhead
<1>7. Overtaken(killed)'
  BY <1>1, <1>3, <1>4 DEF SessionInv, Overtaken
<1>8. \A o \in Requests : \A t \in req[o].before : t.Epoch < sessionEpochs'[t.User]
  BY <1>1, <1>3, <1>4 DEF SessionInv, Overtaken
<1>9. p => \A t \in issued : t.User = u => t.Epoch < sessionEpochs'[t.User]
  BY <1>1, <1>3, <1>4, <1>5
<1> QED BY <1>2, <1>6, <1>7, <1>8, <1>9

\* Every step preserves SessionInv.
LEMMA NextSession == Typed /\ SessionInv /\ [Next]_vars => SessionInv'
<1> SUFFICES ASSUME Typed, SessionInv, [Next]_vars PROVE SessionInv'
  OBVIOUS
<1>s. Loginers \subseteq Requests /\ Enrollers \subseteq Requests
  BY DEF Requests
<1>t. TypeOK
  BY DEF Typed
<1>i. Idle.before = {}
  BY DEF Idle
<1>1. ASSUME NEW r \in Loginers, NEW u \in Admins, LoginPassword(r, u)
      PROVE  SessionInv'
  <2> DEFINE q == [Idle EXCEPT !.stage = "password-ok", !.user = u]
  <2>1. q.before = {}
    BY DEF Idle
  <2>2. req' = [req EXCEPT ![r] = q]
    BY <1>1 DEF LoginPassword
  <2> HIDE DEF q
  <2>3. \A o \in Requests : req'[o].before \subseteq req[o].before
    BY <1>s, <1>t, <2>1, <2>2, BeforeShrinks
  <2> QED
    BY <1>1, <1>t, <2>3, QuietSession DEF LoginPassword, sessionVars, history
<1>2. ASSUME NEW r \in Loginers, LoginCheckMfa(r)
      PROVE  SessionInv'
  <2>1. \A o \in Requests : req'[o].before \subseteq req[o].before
    BY <1>2, <1>s, <1>t, <1>i, BeforeShrinks DEF LoginCheckMfa, Become
  <2> QED
    BY <1>2, <1>t, <2>1, QuietSession DEF LoginCheckMfa, sessionVars, history
<1>3. ASSUME NEW r \in Loginers, LoginSign(r)
      PROVE  SessionInv'
  BY <1>3, <1>s, <1>t, SignKeepsSessions DEF LoginSign, Finish, history
<1>4. ASSUME NEW r \in Loginers, signMfaToken(r)
      PROVE  SessionInv'
  <2>1. \A o \in Requests : req'[o].before \subseteq req[o].before
    BY <1>4, <1>s, <1>t, <1>i, BeforeShrinks DEF signMfaToken, Finish
  <2> QED
    BY <1>4, <1>t, <2>1, QuietSession DEF signMfaToken, sessionVars, history
<1>5. ASSUME NEW r \in Loginers, NEW m \in mfaTokens, MfaLoginVerify(r, m)
      PROVE  SessionInv'
  <2> DEFINE q == [Idle EXCEPT !.stage = "token-ok", !.user = m.User, !.token = m]
  <2>1. q.before = {}
    BY DEF Idle
  <2>2. req' = [req EXCEPT ![r] = q]
    BY <1>5 DEF MfaLoginVerify
  <2> HIDE DEF q
  <2>3. \A o \in Requests : req'[o].before \subseteq req[o].before
    BY <1>s, <1>t, <2>1, <2>2, BeforeShrinks
  <2> QED
    BY <1>5, <1>t, <2>3, QuietSession DEF MfaLoginVerify, sessionVars, history
<1>6. ASSUME NEW r \in Loginers, NEW code, NEW rec, NEW p \in BOOLEAN,
             Accept(r, code, rec, p)
      PROVE  SessionInv'
  <2>1. \/ req' = [req EXCEPT ![r] = Idle]
        \/ req' = [req EXCEPT ![r].stage = "code-ok"]
    BY <1>6 DEF Accept, Become, Finish
  <2>2. \A o \in Requests : req'[o].before \subseteq req[o].before
    BY <1>s, <1>t, <1>i, <2>1, BeforeShrinks
  <2> QED
    BY <1>6, <1>t, <2>2, QuietSession DEF Accept, sessionVars
<1>7. ASSUME NEW r \in Loginers, ConsumeReject(r)
      PROVE  SessionInv'
  <2>1. \A o \in Requests : req'[o].before \subseteq req[o].before
    BY <1>7, <1>s, <1>t, <1>i, BeforeShrinks DEF ConsumeReject, Finish
  <2> QED
    BY <1>7, <1>t, <2>1, QuietSession DEF ConsumeReject, sessionVars, history
<1>8. ASSUME NEW r \in Loginers, consumeMfaJti(r)
      PROVE  SessionInv'
  <2>1. \/ req' = [req EXCEPT ![r] = Idle]
        \/ req' = [req EXCEPT ![r].stage = "jti-ok"]
    BY <1>8 DEF consumeMfaJti, Become, Finish
  <2>2. \A o \in Requests : req'[o].before \subseteq req[o].before
    BY <1>s, <1>t, <1>i, <2>1, BeforeShrinks
  <2> QED
    BY <1>8, <1>t, <2>2, QuietSession DEF consumeMfaJti, sessionVars
<1>9. ASSUME NEW r \in Loginers, MfaLoginSign(r)
      PROVE  SessionInv'
  BY <1>9, <1>s, <1>t, SignKeepsSessions DEF MfaLoginSign, Finish, history
<1>10. ASSUME NEW r \in Enrollers, NEW t \in issued, SetupCheck(r, t)
       PROVE  SessionInv'
  <2> DEFINE q == [Idle EXCEPT !.stage = "setup-ok", !.user = t.User]
  <2>1. q.before = {}
    BY DEF Idle
  <2>2. req' = [req EXCEPT ![r] = q]
    BY <1>10 DEF SetupCheck
  <2> HIDE DEF q
  <2>3. \A o \in Requests : req'[o].before \subseteq req[o].before
    BY <1>s, <1>t, <2>1, <2>2, BeforeShrinks
  <2> QED
    BY <1>10, <1>t, <2>3, QuietSession DEF SetupCheck, sessionVars, history
<1>11. ASSUME NEW r \in Enrollers, NEW t \in issued, ConfirmRead(r, t)
       PROVE  SessionInv'
  <2> DEFINE q == [Idle EXCEPT !.stage = "confirm-read", !.user = t.User,
                               !.rec = data[t.User]]
  <2>1. q.before = {}
    BY DEF Idle
  <2>2. req' = [req EXCEPT ![r] = q]
    BY <1>11 DEF ConfirmRead
  <2> HIDE DEF q
  <2>3. \A o \in Requests : req'[o].before \subseteq req[o].before
    BY <1>s, <1>t, <2>1, <2>2, BeforeShrinks
  <2> QED
    BY <1>11, <1>t, <2>3, QuietSession DEF ConfirmRead, sessionVars, history
<1>12. ASSUME NEW r \in Enrollers, NEW t \in issued, DisableCheck(r, t)
       PROVE  SessionInv'
  <2> DEFINE q == [Idle EXCEPT !.stage = "disable-ok", !.user = t.User]
  <2>1. q.before = {}
    BY DEF Idle
  <2>2. req' = [req EXCEPT ![r] = q]
    BY <1>12 DEF DisableCheck
  <2> HIDE DEF q
  <2>3. \A o \in Requests : req'[o].before \subseteq req[o].before
    BY <1>s, <1>t, <2>1, <2>2, BeforeShrinks
  <2> QED
    BY <1>12, <1>t, <2>3, QuietSession DEF DisableCheck, sessionVars, history
<1>13. ASSUME NEW r \in Enrollers, NEW p \in BOOLEAN, NEW k \in BOOLEAN,
              SetupStore(r, p, k) \/ DisableStore(r, p, k)
       PROVE  SessionInv'
  <2>1. \A o \in Requests : req'[o].before \subseteq req[o].before
    BY <1>13, <1>s, <1>t, <1>i, BeforeShrinks DEF SetupStore, DisableStore, Finish
  <2> QED
    BY <1>13, <1>t, <2>1, QuietSession DEF SetupStore, DisableStore, sessionVars, history
<1>14. ASSUME NEW r \in Enrollers, NEW p \in BOOLEAN, NEW k \in BOOLEAN,
              ConfirmStore(r, p, k)
       PROVE  SessionInv'
  <2>1. \/ req' = [req EXCEPT ![r] = Idle]
        \/ req' = [req EXCEPT ![r].stage = "confirm-stored"]
    BY <1>14 DEF ConfirmStore, Become, Finish
  <2>2. \A o \in Requests : req'[o].before \subseteq req[o].before
    BY <1>s, <1>t, <1>i, <2>1, BeforeShrinks
  <2> QED
    BY <1>14, <1>t, <2>2, QuietSession DEF ConfirmStore, sessionVars
<1>15. ASSUME NEW r \in Enrollers, NEW p \in BOOLEAN, ConfirmBump(r, p)
       PROVE  SessionInv'
  <2> DEFINE u == req[r].user
             killable == {t \in issued : t.User = u}
             q == [req[r] EXCEPT !.stage = "confirm-bumped", !.before = killable]
  <2>1. u \in Admins /\ q.before = killable
    BY <1>s, <1>t, ReqFields DEF Request
  <2>2. /\ req' = [req EXCEPT ![r] = IF p THEN q ELSE Idle]
        /\ bumpUserEpoch(u, p)
        /\ UNCHANGED <<issued, killed>>
    BY <1>15 DEF ConfirmBump, history
  <2> HIDE DEF q, u
  <2>3. /\ EpochsOnDisk' /\ NoTokenAhead' /\ Overtaken(killed)'
        /\ \A o \in Requests : \A t \in req[o].before :
             t.Epoch < sessionEpochs'[t.User]
        /\ p => \A t \in issued : t.User = u => t.Epoch < sessionEpochs'[t.User]
    BY <1>t, <2>1, <2>2, BumpOvertakes
  <2>4. \A o \in Requests : \/ req'[o].before \subseteq req[o].before
                            \/ p /\ req'[o].before = killable
    BY <1>t, <1>i, <2>1, <2>2 DEF TypeOK
  <2>5. \A o \in Requests : Overtaken(req[o].before)'
    BY <2>3, <2>4 DEF Overtaken
  <2> QED BY <2>3, <2>5 DEF SessionInv
<1>16. ASSUME NEW r \in Enrollers, ConfirmSign(r)
       PROVE  SessionInv'
  BY <1>16, <1>s, <1>t, SignKeepsSessions DEF ConfirmSign, Finish
<1>17. ASSUME NEW u \in Admins, PasswordChange(u)
       PROVE  SessionInv'
  <2>1. bumpUserEpoch(u, TRUE) /\ UNCHANGED <<issued, killed, req>>
    BY <1>17 DEF PasswordChange, history
  <2>2. /\ EpochsOnDisk' /\ NoTokenAhead' /\ Overtaken(killed)'
        /\ \A o \in Requests : \A t \in req[o].before :
             t.Epoch < sessionEpochs'[t.User]
    BY <1>t, <2>1, BumpOvertakes
  <2> QED BY <2>1, <2>2 DEF SessionInv, Overtaken
<1>18. CASE StoreLost
  BY <1>18, <1>t, QuietSession DEF StoreLost, sessionVars, history
<1>19. CASE CrashRestart
  <2>1. /\ sessionEpochs' = sessionEpochs
        /\ UNCHANGED <<sessionEpochsFile, issued, killed>>
    BY <1>19 DEF CrashRestart, loadSessionState, SessionInv, EpochsOnDisk
  <2>2. \A o \in Requests : req'[o].before \subseteq req[o].before
    BY <1>19, <1>i DEF CrashRestart
  <2> QED BY <1>t, <2>1, <2>2, QuietSession
<1>20. CASE OperatorResetsMfa
  BY <1>20, <1>t, QuietSession DEF OperatorResetsMfa, sessionVars
<1>21. CASE ClockTick
  BY <1>21, <1>t, QuietSession DEF ClockTick, Tick, history
<1>22. CASE UNCHANGED vars
  BY <1>22, <1>t, QuietSession DEF vars, sessionVars, history
<1>l. CASE LoginStep
  BY <1>l, <1>1, <1>2, <1>3, <1>4 DEF LoginStep
<1>m. CASE MfaLoginStep
  BY <1>m, <1>5, <1>6, <1>7, <1>8, <1>9 DEF MfaLoginStep, ConsumeTOTP, ConsumeBackup
<1>e. CASE EnrolStep
  BY <1>e, <1>10, <1>11, <1>12, <1>13, <1>14, <1>15, <1>16 DEF EnrolStep
<1> QED
  BY <1>l, <1>m, <1>e, <1>17, <1>18, <1>19, <1>20, <1>21, <1>22 DEF Next

\* Once mfaConfirmHandler has reported the enrolment, no session that existed
\* when it moved the epoch is accepted again: with any number of enrolments,
\* logins and password changes in flight, failed writes and crashes.
THEOREM EnrolmentKillsSessions == Spec => []KilledStayDead
<1>1. Init => Typed
  BY InitTypeOK, FS_EmptySet DEF Init, Typed
<1>2. Init => SessionInv
  BY DEF Init, SessionInit, Idle, SessionInv, EpochsOnDisk, NoTokenAhead, Overtaken
<1>3. Typed /\ SessionInv => KilledStayDead
  <2> SUFFICES ASSUME Typed, SessionInv, NEW t \in killed
               PROVE  ~verifySessionPayload(t)
    BY DEF KilledStayDead
  <2>1. t \in Token /\ sessionEpochs \in [Admins -> Nat]
    BY DEF Typed, TypeOK, SessionTypeOK
  <2>2. t.Epoch < sessionEpochs[t.User] /\ t.Epoch \in Nat /\ sessionEpochs[t.User] \in Nat
    BY <2>1 DEF SessionInv, Overtaken, Token
  <2> QED BY <2>2 DEF verifySessionPayload
<1> QED BY <1>1, <1>2, <1>3, NextTyped, NextSession, PTL DEF Spec

-----------------------------------------------------------------------------
(* Challenges *)

\* A step that leaves the challenges and the answers alone, lets the clock only
\* advance and keeps TokenMinted, preserves ChallengeInv.
LEMMA QuietChallenge ==
    ASSUME ChallengeInv, TypeOK, TypeOK', now <= now', TokenMinted',
           UNCHANGED <<mfaTokens, usedMfaJtis, answered, reanswered>>
    PROVE  ChallengeInv'
<1>1. JtiUnique'
  BY DEF ChallengeInv, JtiUnique
<1>2. \A m \in mfaTokens : now > m.Exp => now' > m.Exp
  BY DEF TypeOK, SessionTypeOK, MfaToken
<1>3. AnsweredRemembered'
  BY <1>2 DEF ChallengeInv, AnsweredRemembered
<1>4. LiveChallengeAnsweredOnce'
  BY DEF ChallengeInv, LiveChallengeAnsweredOnce
<1> QED BY <1>1, <1>3, <1>4 DEF ChallengeInv

\* A request that is finished, or moved on, or started with a minted token,
\* holds a minted token while it has one.
LEMMA TokenKept ==
    ASSUME TypeOK, TokenMinted, mfaTokens \subseteq mfaTokens',
           NEW r \in Requests, NEW s, NEW q,
           \/ req' = [req EXCEPT ![r] = Idle]
           \/ /\ req' = [req EXCEPT ![r].stage = s]
              /\ s \notin {"token-ok", "code-ok"} \/ req[r].stage = "token-ok"
           \/ /\ req' = [req EXCEPT ![r] = q]
              /\ q.stage \notin {"token-ok", "code-ok"} \/ q.token \in mfaTokens
    PROVE  TokenMinted'
<1>1. req \in [Requests -> Request] /\ Idle.stage = "idle"
  BY DEF TypeOK, Idle
<1>2. CASE req' = [req EXCEPT ![r] = Idle]
  BY <1>1, <1>2 DEF TokenMinted
<1>3. CASE /\ req' = [req EXCEPT ![r].stage = s]
           /\ s \notin {"token-ok", "code-ok"} \/ req[r].stage = "token-ok"
  <2> DEFINE q2 == [req[r] EXCEPT !.stage = s]
  <2>1. q2.stage = s /\ q2.token = req[r].token
    BY ReqFields DEF Request
  <2>2. \A o \in Requests : req'[o] = IF o = r THEN q2 ELSE req[o]
    BY <1>1, <1>3
  <2> HIDE DEF q2
  <2> QED BY <1>3, <2>1, <2>2 DEF TokenMinted
<1>4. CASE /\ req' = [req EXCEPT ![r] = q]
           /\ q.stage \notin {"token-ok", "code-ok"} \/ q.token \in mfaTokens
  BY <1>1, <1>4 DEF TokenMinted
<1> QED BY <1>2, <1>3, <1>4

\* A new challenge has a number that no challenge and no answer has.
LEMMA MintKeepsChallenges ==
    ASSUME Typed, TypeOK', ChallengeInv, NEW r \in Loginers, signMfaToken(r)
    PROVE  ChallengeInv'
<1> DEFINE N == Cardinality(mfaTokens)
           m == [User |-> req[r].user, Exp |-> now + mfaTokenTTL, Jti |-> N + 1,
                 Epoch |-> sessionEpochs[req[r].user]]
<1>1. N \in Nat /\ mfaTokens \subseteq MfaToken /\ answered \subseteq Nat
  BY FS_CardinalityType DEF Typed, TypeOK
<1>2. /\ mfaTokens' = mfaTokens \cup {m}
      /\ req' = [req EXCEPT ![r] = Idle]
      /\ UNCHANGED <<now, usedMfaJtis, answered, reanswered>>
  BY DEF signMfaToken, Finish, sessionVars, history
<1>3. m.Jti = N + 1
  OBVIOUS
<1>4. /\ \A n \in mfaTokens : n.Jti <= N /\ n.Jti \in Nat
      /\ \A j \in answered : j <= N /\ j \in Nat
  BY <1>1 DEF ChallengeInv, JtiUnique, MfaToken
<1> HIDE DEF m
<1>5. m \notin mfaTokens
  BY <1>1, <1>3, <1>4
<1>6. IsFiniteSet(mfaTokens') /\ Cardinality(mfaTokens') = N + 1
  BY <1>2, <1>5, FS_AddElement DEF Typed
<1> HIDE DEF N
<1>7. \A n \in mfaTokens' : n.Jti <= N + 1
  BY <1>1, <1>2, <1>3, <1>4
<1>8. \A n, o \in mfaTokens' : n.Jti = o.Jti => n = o
  <2>1. \A n, o \in mfaTokens : n.Jti = o.Jti => n = o
    BY DEF ChallengeInv, JtiUnique
  <2>2. \A n \in mfaTokens : n.Jti # m.Jti
    BY <1>1, <1>3, <1>4
  <2> QED BY <1>2, <2>1, <2>2
<1>9. \A j \in answered' : j <= N + 1
  BY <1>1, <1>2, <1>4
<1>10. JtiUnique'
  BY <1>6, <1>7, <1>8, <1>9 DEF JtiUnique
<1>11. m.Jti \notin answered
  BY <1>1, <1>3, <1>4
<1>12. AnsweredRemembered'
  BY <1>2, <1>11 DEF ChallengeInv, AnsweredRemembered
<1>13. TokenMinted'
  <2>1. TypeOK /\ TokenMinted /\ mfaTokens \subseteq mfaTokens' /\ r \in Requests
    BY <1>2 DEF Typed, ChallengeInv, Requests
  <2> QED BY <1>2, <2>1, TokenKept
<1>14. LiveChallengeAnsweredOnce'
  BY <1>2 DEF ChallengeInv, LiveChallengeAnsweredOnce
<1> QED BY <1>10, <1>12, <1>13, <1>14 DEF ChallengeInv

\* Answering: a challenge that is already among the answers either is among the
\* spent ones, and refused, or has expired.
LEMMA AnswerKeepsChallenges ==
    ASSUME Typed, TypeOK', ChallengeInv, NEW r \in Loginers, consumeMfaJti(r)
    PROVE  ChallengeInv'
<1> DEFINE m == req[r].token
<1>1. r \in Requests /\ TypeOK /\ TokenMinted
  BY DEF Requests, Typed, ChallengeInv
<1>2. m \in mfaTokens
  BY <1>1 DEF TokenMinted, consumeMfaJti, At
<1>3. UNCHANGED <<now, mfaTokens>>
  BY DEF consumeMfaJti, sessionVars
<1>4. /\ \A n \in mfaTokens : n.Jti <= Cardinality(mfaTokens)
      /\ \A n, o \in mfaTokens : n.Jti = o.Jti => n = o
      /\ \A n \in mfaTokens : n.Jti \in answered => n \in usedMfaJtis \/ now > n.Exp
      /\ \A a \in reanswered : a.expired
  BY DEF ChallengeInv, JtiUnique, AnsweredRemembered, LiveChallengeAnsweredOnce
<1>5. now \in Nat /\ mfaTokens \subseteq MfaToken
  BY <1>1 DEF TypeOK, SessionTypeOK
<1>6. CASE m \in usedMfaJtis
  <2>1. /\ req' = [req EXCEPT ![r] = Idle]
        /\ UNCHANGED <<usedMfaJtis, answered, reanswered>>
    BY <1>6 DEF consumeMfaJti, Finish
  <2>2. TokenMinted'
    BY <1>1, <1>3, <2>1, TokenKept
  <2> QED BY <1>1, <1>3, <1>5, <2>1, <2>2, QuietChallenge
<1>7. CASE m \notin usedMfaJtis
  <2>1. /\ req' = [req EXCEPT ![r].stage = "jti-ok"]
        /\ usedMfaJtis' = Swept(usedMfaJtis \cup {m})
        /\ answered' = answered \cup {m.Jti}
        /\ reanswered' = IF m.Jti \in answered
                           THEN reanswered \cup {[jti |-> m.Jti, expired |-> now > m.Exp]}
                           ELSE reanswered
    BY <1>7 DEF consumeMfaJti, Become
  <2> HIDE DEF m
  <2>2. TokenMinted'
    <3>1. mfaTokens \subseteq mfaTokens'
      BY <1>3
    <3>2. req' = [req EXCEPT ![r].stage = "jti-ok"]
      BY <2>1
    <3>3. "jti-ok" \notin {"token-ok", "code-ok"}
      OBVIOUS
    <3> QED BY <1>1, <3>1, <3>2, <3>3, TokenKept
  <2>3. JtiUnique'
    BY <1>2, <1>3, <1>4, <2>1 DEF ChallengeInv, JtiUnique
  <2>4. AnsweredRemembered'
    <3> SUFFICES ASSUME NEW n \in mfaTokens, n.Jti \in answered', ~(now > n.Exp)
                 PROVE  n \in usedMfaJtis'
      BY <1>3 DEF AnsweredRemembered
    <3>1. n.Exp \in Nat /\ now <= n.Exp
      BY <1>5 DEF MfaToken
    <3>2. n \in usedMfaJtis \cup {m}
      BY <1>2, <1>4, <2>1
    <3> QED BY <2>1, <3>1, <3>2 DEF Swept
  <2>5. LiveChallengeAnsweredOnce'
    <3>1. m.Jti \in answered => now > m.Exp
      BY <1>2, <1>4, <1>7
    <3>2. CASE m.Jti \in answered
      <4>1. \A a \in reanswered' : a \in reanswered
                 \/ a = [jti |-> m.Jti, expired |-> now > m.Exp]
        BY <2>1, <3>2
      <4>2. [jti |-> m.Jti, expired |-> now > m.Exp].expired
        BY <3>1, <3>2
      <4> QED BY <1>4, <4>1, <4>2 DEF LiveChallengeAnsweredOnce
    <3>3. CASE m.Jti \notin answered
      BY <1>4, <2>1, <3>3 DEF LiveChallengeAnsweredOnce
    <3> QED BY <3>2, <3>3
  <2> QED BY <2>2, <2>3, <2>4, <2>5 DEF ChallengeInv
<1> QED BY <1>6, <1>7

\* Every step preserves ChallengeInv.
LEMMA NextChallenge == Typed /\ ChallengeInv /\ [Next]_vars => ChallengeInv'
<1> SUFFICES ASSUME Typed, ChallengeInv, [Next]_vars PROVE ChallengeInv'
  OBVIOUS
<1>s. Loginers \subseteq Requests /\ Enrollers \subseteq Requests
  BY DEF Requests
<1>t. TypeOK /\ TypeOK' /\ TokenMinted /\ now \in Nat
  BY NextTyped DEF Typed, ChallengeInv, TypeOK, SessionTypeOK
<1>q. ASSUME UNCHANGED <<now, mfaTokens, usedMfaJtis, answered, reanswered>>,
             TokenMinted'
      PROVE  ChallengeInv'
  BY <1>q, <1>t, QuietChallenge
<1>1. ASSUME NEW r \in Loginers, NEW u \in Admins, LoginPassword(r, u)
      PROVE  ChallengeInv'
  <2> DEFINE q == [Idle EXCEPT !.stage = "password-ok", !.user = u]
  <2>1. q.stage = "password-ok"
    BY DEF Idle
  <2>2. req' = [req EXCEPT ![r] = q]
    BY <1>1 DEF LoginPassword
  <2> HIDE DEF q
  <2>3. UNCHANGED <<now, mfaTokens, usedMfaJtis, answered, reanswered>>
    BY <1>1 DEF LoginPassword, sessionVars, history
  <2>4. TokenMinted'
    BY <1>s, <1>t, <2>1, <2>2, <2>3, TokenKept
  <2> QED BY <1>q, <2>3, <2>4
<1>2. ASSUME NEW r \in Loginers, LoginCheckMfa(r)
      PROVE  ChallengeInv'
  <2>1. UNCHANGED <<now, mfaTokens, usedMfaJtis, answered, reanswered>>
    BY <1>2 DEF LoginCheckMfa, sessionVars, history
  <2>2. \/ req' = [req EXCEPT ![r].stage = "mfa-required"]
        \/ req' = [req EXCEPT ![r].stage = "no-mfa"]
    BY <1>2 DEF LoginCheckMfa, Become
  <2>3. TokenMinted'
    BY <1>s, <1>t, <2>1, <2>2, TokenKept
  <2> QED BY <1>q, <2>1, <2>3
<1>3. ASSUME NEW r \in Loginers, LoginSign(r) \/ MfaLoginSign(r) \/ ConsumeReject(r)
      PROVE  ChallengeInv'
  <2>1. /\ UNCHANGED <<now, mfaTokens, usedMfaJtis, answered, reanswered>>
        /\ req' = [req EXCEPT ![r] = Idle]
    BY <1>3 DEF LoginSign, MfaLoginSign, ConsumeReject, Finish, sessionVars, history
  <2>2. TokenMinted'
    BY <1>s, <1>t, <2>1, TokenKept
  <2> QED BY <1>q, <2>1, <2>2
<1>4. ASSUME NEW r \in Loginers, signMfaToken(r)
      PROVE  ChallengeInv'
  BY <1>4, <1>t, MintKeepsChallenges
<1>5. ASSUME NEW r \in Loginers, NEW m \in mfaTokens, MfaLoginVerify(r, m)
      PROVE  ChallengeInv'
  <2> DEFINE q == [Idle EXCEPT !.stage = "token-ok", !.user = m.User, !.token = m]
  <2>1. q.token = m
    BY DEF Idle
  <2>2. req' = [req EXCEPT ![r] = q]
    BY <1>5 DEF MfaLoginVerify
  <2> HIDE DEF q
  <2>3. UNCHANGED <<now, mfaTokens, usedMfaJtis, answered, reanswered>>
    BY <1>5 DEF MfaLoginVerify, sessionVars, history
  <2>4. TokenMinted'
    BY <1>s, <1>t, <2>1, <2>2, <2>3, TokenKept
  <2> QED BY <1>q, <2>3, <2>4
<1>6. ASSUME NEW r \in Loginers, NEW code, NEW rec, NEW p \in BOOLEAN,
             At(r, "token-ok"), Accept(r, code, rec, p)
      PROVE  ChallengeInv'
  <2>1. UNCHANGED <<now, mfaTokens, usedMfaJtis, answered, reanswered>>
    BY <1>6 DEF Accept, sessionVars
  <2>2. /\ req[r].stage = "token-ok"
        /\ \/ req' = [req EXCEPT ![r] = Idle]
           \/ req' = [req EXCEPT ![r].stage = "code-ok"]
    BY <1>6 DEF Accept, Become, Finish, At
  <2>3. TokenMinted'
    BY <1>s, <1>t, <2>1, <2>2, TokenKept
  <2> QED BY <1>q, <2>1, <2>3
<1>7. ASSUME NEW r \in Loginers, consumeMfaJti(r)
      PROVE  ChallengeInv'
  BY <1>7, <1>t, AnswerKeepsChallenges
<1>8. ASSUME NEW r \in Enrollers, NEW t \in issued,
             SetupCheck(r, t) \/ ConfirmRead(r, t) \/ DisableCheck(r, t)
      PROVE  ChallengeInv'
  <2> DEFINE qs == [Idle EXCEPT !.stage = "setup-ok", !.user = t.User]
             qc == [Idle EXCEPT !.stage = "confirm-read", !.user = t.User,
                                !.rec = data[t.User]]
             qd == [Idle EXCEPT !.stage = "disable-ok", !.user = t.User]
  <2>1. qs.stage = "setup-ok" /\ qc.stage = "confirm-read" /\ qd.stage = "disable-ok"
    BY DEF Idle
  <2>2. \/ req' = [req EXCEPT ![r] = qs]
        \/ req' = [req EXCEPT ![r] = qc]
        \/ req' = [req EXCEPT ![r] = qd]
    BY <1>8 DEF SetupCheck, ConfirmRead, DisableCheck
  <2> HIDE DEF qs, qc, qd
  <2>3. UNCHANGED <<now, mfaTokens, usedMfaJtis, answered, reanswered>>
    BY <1>8 DEF SetupCheck, ConfirmRead, DisableCheck, sessionVars, history
  <2>4. TokenMinted'
    BY <1>s, <1>t, <2>1, <2>2, <2>3, TokenKept
  <2> QED BY <1>q, <2>3, <2>4
<1>9. ASSUME NEW r \in Enrollers, NEW p \in BOOLEAN, NEW k \in BOOLEAN,
             SetupStore(r, p, k) \/ ConfirmStore(r, p, k) \/ DisableStore(r, p, k)
      PROVE  ChallengeInv'
  <2>1. UNCHANGED <<now, mfaTokens, usedMfaJtis, answered, reanswered>>
    BY <1>9 DEF SetupStore, ConfirmStore, DisableStore, sessionVars, history
  <2>2. \/ req' = [req EXCEPT ![r] = Idle]
        \/ req' = [req EXCEPT ![r].stage = "confirm-stored"]
    BY <1>9 DEF SetupStore, ConfirmStore, DisableStore, Become, Finish
  <2>3. TokenMinted'
    BY <1>s, <1>t, <2>1, <2>2, TokenKept
  <2> QED BY <1>q, <2>1, <2>3
<1>10. ASSUME NEW r \in Enrollers, NEW p \in BOOLEAN, ConfirmBump(r, p)
       PROVE  ChallengeInv'
  <2> DEFINE q == [req[r] EXCEPT !.stage = "confirm-bumped",
                                 !.before = {t \in issued : t.User = req[r].user}]
  <2>1. q.stage = "confirm-bumped"
    BY <1>s, <1>t, ReqFields DEF Request
  <2>2. \/ req' = [req EXCEPT ![r] = q]
        \/ req' = [req EXCEPT ![r] = Idle]
    BY <1>10 DEF ConfirmBump
  <2> HIDE DEF q
  <2>3. UNCHANGED <<now, mfaTokens, usedMfaJtis, answered, reanswered>>
    BY <1>10 DEF ConfirmBump, history
  <2>4. TokenMinted'
    BY <1>s, <1>t, <2>1, <2>2, <2>3, TokenKept
  <2> QED BY <1>q, <2>3, <2>4
<1>11. ASSUME NEW r \in Enrollers, ConfirmSign(r)
       PROVE  ChallengeInv'
  <2>1. /\ UNCHANGED <<now, mfaTokens, usedMfaJtis, answered, reanswered>>
        /\ req' = [req EXCEPT ![r] = Idle]
    BY <1>11 DEF ConfirmSign, Finish
  <2>2. TokenMinted'
    BY <1>s, <1>t, <2>1, TokenKept
  <2> QED BY <1>q, <2>1, <2>2
<1>12. ASSUME NEW u \in Admins, PasswordChange(u)
       PROVE  ChallengeInv'
  BY <1>12, <1>t, <1>q DEF PasswordChange, history, TokenMinted
<1>13. CASE StoreLost \/ OperatorResetsMfa \/ UNCHANGED vars
  BY <1>13, <1>t, <1>q
     DEF StoreLost, OperatorResetsMfa, vars, sessionVars, history, TokenMinted
<1>14. CASE CrashRestart
  <2>1. /\ UNCHANGED <<now, mfaTokens, reanswered>>
        /\ answered' = {}
        /\ req' = [r \in Requests |-> Idle]
    BY <1>14 DEF CrashRestart, loadSessionState
  <2>2. TokenMinted'
    BY <2>1 DEF TokenMinted, Idle
  <2>3. JtiUnique' /\ AnsweredRemembered' /\ LiveChallengeAnsweredOnce'
    BY <2>1 DEF ChallengeInv, JtiUnique, AnsweredRemembered, LiveChallengeAnsweredOnce
  <2> QED BY <2>2, <2>3 DEF ChallengeInv
<1>15. CASE ClockTick
  <2>1. /\ UNCHANGED <<mfaTokens, usedMfaJtis, answered, reanswered, req>>
        /\ now <= now'
    BY <1>15, <1>t DEF ClockTick, Tick, history
  <2>2. TokenMinted'
    BY <1>t, <2>1 DEF TokenMinted
  <2> QED BY <1>t, <2>1, <2>2, QuietChallenge
<1>l. CASE LoginStep
  BY <1>l, <1>1, <1>2, <1>3, <1>4 DEF LoginStep
<1>m. CASE MfaLoginStep
  BY <1>m, <1>3, <1>5, <1>6, <1>7 DEF MfaLoginStep, ConsumeTOTP, ConsumeBackup
<1>e. CASE EnrolStep
  BY <1>e, <1>8, <1>9, <1>10, <1>11 DEF EnrolStep
<1> QED
  BY <1>l, <1>m, <1>e, <1>12, <1>13, <1>14, <1>15 DEF Next

\* As long as its token has not expired, a challenge is answered at most once
\* between two starts of the process: for any number of logins at once and any
\* lifetime of a challenge.
THEOREM ChallengesAnsweredOnce == Spec => []LiveChallengeAnsweredOnce
<1>1. Init => Typed
  BY InitTypeOK, FS_EmptySet DEF Init, Typed
<1>2. Init => ChallengeInv
  BY FS_EmptySet DEF Init, Idle, ChallengeInv, JtiUnique, TokenMinted,
                     AnsweredRemembered, LiveChallengeAnsweredOnce
<1>3. ChallengeInv => LiveChallengeAnsweredOnce
  BY DEF ChallengeInv
<1> QED BY <1>1, <1>2, <1>3, NextTyped, NextChallenge, PTL DEF Spec

-----------------------------------------------------------------------------
(* Codes *)

\* The fields of an accepted code.
LEMMA CodeFields ==
    /\ \A c \in BackupCode : c[1] \in Nat
    /\ \A x \in Code : /\ x.user \in Admins
                       /\ x.kind = "backup" \/ x.kind = "totp"
                       /\ x.kind = "backup" => x.code \in BackupCode
                       /\ x.kind = "totp" => x.secret \in Nat /\ x.step \in Nat
<1>1. \A c \in BackupCode : c[1] \in Nat
  BY DEF BackupCode
<1>2. ASSUME NEW x \in [kind : {"totp"}, user : Admins, secret : Nat, step : Nat]
      PROVE  x.user \in Admins /\ x.kind = "totp" /\ x.secret \in Nat /\ x.step \in Nat
  OBVIOUS
<1>3. ASSUME NEW x \in [kind : {"backup"}, user : Admins, code : BackupCode]
      PROVE  x.user \in Admins /\ x.kind = "backup" /\ x.code \in BackupCode
  OBVIOUS
<1>4. "totp" # "backup"
  OBVIOUS
<1> QED BY <1>1, <1>2, <1>3, <1>4 DEF Code

\* A step that leaves the records in memory and the accepted codes alone, and
\* only advances the clock and the numbers of the code sets.
LEMMA QuietCodes ==
    ASSUME CodeInv, TypeOK, TypeOK', UNCHANGED <<data, spent, respent>>,
           StoreInStep', now <= now', fresh <= fresh'
    PROVE  CodeInv'
<1>1. /\ now \in Nat /\ now' \in Nat /\ fresh \in Nat /\ fresh' \in Nat
      /\ spent \subseteq Code
  BY DEF TypeOK, SessionTypeOK
<1>2. \A u \in Admins : \A c \in data[u].BackupCodes : c[1] \in Nat
  BY CodeFields, RecFields DEF TypeOK
<1>3. BackupsGone'
  BY <1>1, <1>2, CodeFields DEF CodeInv, BackupsGone
<1>4. BackupAcceptedOnce'
  BY DEF CodeInv, BackupAcceptedOnce
<1>5. Enrollers = {} => StepsRemembered'
  BY <1>1, CodeFields DEF CodeInv, StepsRemembered
<1>6. Enrollers = {} => CodeAcceptedOnce'
  BY DEF CodeInv, CodeAcceptedOnce
<1> QED BY <1>3, <1>4, <1>5, <1>6 DEF CodeInv

\* A write of an enrolment puts only code sets into a record that nobody has
\* ever been asked for.
LEMMA SetKeepsCodes ==
    ASSUME CodeInv, TypeOK, TypeOK', NEW u \in Admins, NEW rec \in MfaRecord,
           NEW p \in BOOLEAN, NEW k \in BOOLEAN, set(u, rec, p, k),
           UNCHANGED <<spent, respent, now>>, Enrollers # {},
           fresh <= fresh', \A c \in rec.BackupCodes : fresh < c[1] /\ c[1] <= fresh'
    PROVE  CodeInv'
<1>1. /\ now \in Nat /\ fresh \in Nat /\ fresh' \in Nat
      /\ spent \subseteq Code
      /\ data \in [Admins -> MfaRecord]
  BY DEF TypeOK, SessionTypeOK
<1>2. CASE ~p
  <2>1. UNCHANGED <<data, store>>
    BY <1>2 DEF set, storeVars
  <2> QED BY <1>1, <2>1, QuietCodes DEF CodeInv, StoreInStep
<1>3. CASE p
  <2>1. /\ data' = [data EXCEPT ![u] = rec]
        /\ store' = [exists |-> TRUE, data |-> data']
    BY <1>3 DEF set
  <2>2. StoreInStep'
    BY <2>1 DEF StoreInStep
  <2>3. \A a \in Admins : data'[a] = IF a = u THEN rec ELSE data[a]
    BY <1>1, <2>1
  <2>4. /\ \A a \in Admins : \A c \in data[a].BackupCodes : c[1] \in Nat /\ c[1] <= fresh
        /\ \A x \in spent : x.kind = "backup" =>
             /\ x.user \in Admins /\ x.code[1] \in Nat /\ x.code[1] <= fresh
             /\ x.code \notin data[x.user].BackupCodes
    BY <1>1, CodeFields, RecFields DEF CodeInv, BackupsGone
  <2>5. \A a \in Admins : \A c \in data'[a].BackupCodes : c[1] <= fresh'
    BY <1>1, <2>3, <2>4
  <2>6. \A x \in spent' : x.kind = "backup" =>
          x.code[1] <= fresh' /\ x.code \notin data'[x.user].BackupCodes
    <3> SUFFICES ASSUME NEW x \in spent, x.kind = "backup"
                 PROVE  x.code[1] <= fresh' /\ x.code \notin data'[x.user].BackupCodes
      OBVIOUS
    <3>1. /\ x.user \in Admins /\ x.code[1] \in Nat /\ x.code[1] <= fresh
          /\ x.code \notin data[x.user].BackupCodes
      BY <2>4
    <3>2. x.code \notin rec.BackupCodes
      BY <1>1, <3>1
    <3> QED BY <1>1, <2>3, <3>1, <3>2
  <2>7. BackupsGone'
    BY <2>5, <2>6 DEF BackupsGone
  <2>8. BackupAcceptedOnce'
    BY DEF CodeInv, BackupAcceptedOnce
  <2> QED BY <2>2, <2>7, <2>8 DEF CodeInv
<1> QED BY <1>2, <1>3

\* An accepted TOTP step is remembered; the pruning drops only steps whose
\* codes can no longer be accepted.
LEMMA TOTPKeepsCodes ==
    ASSUME CodeInv, TypeOK, TypeOK', NEW r \in Loginers, NEW s \in TOTPWindow,
           NEW p \in BOOLEAN, ConsumeTOTP(r, s, p)
    PROVE  CodeInv'
<1> DEFINE u == req[r].user
           rec == data[u]
           code == [kind |-> "totp", user |-> u, secret |-> rec.Secret, step |-> s]
           left == pruneTOTPSteps(rec.UsedTOTPSteps \cup {s})
           new == [rec EXCEPT !.UsedTOTPSteps = left]
<1>1. /\ u \in Admins /\ rec \in MfaRecord
      /\ now \in Nat /\ spent \subseteq Code
      /\ data \in [Admins -> MfaRecord]
      /\ s \in Nat /\ s <= now + 1 /\ now <= s + 1
  BY ReqFields DEF TypeOK, SessionTypeOK, Requests, TOTPWindow
<1>2. Accept(r, code, new, p) /\ rec.Enabled /\ s \notin rec.UsedTOTPSteps
  BY DEF ConsumeTOTP
<1>3. UNCHANGED <<now, fresh>>
  BY <1>2 DEF Accept, sessionVars
<1>4. /\ new.Enabled = rec.Enabled /\ new.Secret = rec.Secret
      /\ new.BackupCodes = rec.BackupCodes /\ new.UsedTOTPSteps = left
  BY <1>1 DEF MfaRecord
<1>5. code.kind = "totp" /\ code.user = u /\ code.secret = rec.Secret /\ code.step = s
  OBVIOUS
<1>6. /\ s \in left
      /\ \A o \in rec.UsedTOTPSteps : o \in left \/ now > o + 1 \/ o > now + 2
  <2>1. rec.UsedTOTPSteps \subseteq Nat
    BY <1>1, RecFields
  <2> QED BY <1>1, <2>1 DEF pruneTOTPSteps
<1>7. CASE ~p
  <2>1. UNCHANGED <<data, store, spent, respent>>
    BY <1>2, <1>7 DEF Accept, persistRecordLocked
  <2>2. StoreInStep' /\ fresh \in Nat
    BY <2>1 DEF CodeInv, StoreInStep, TypeOK
  <2> QED BY <1>1, <1>3, <2>1, <2>2, QuietCodes
<1>8. CASE p
  <2>1. /\ data' = [data EXCEPT ![u] = new]
        /\ store' = [exists |-> TRUE, data |-> data']
        /\ spent' = spent \cup {code}
        /\ respent' = IF code \in spent THEN respent \cup {code} ELSE respent
    BY <1>2, <1>8 DEF Accept, persistRecordLocked
  <2> HIDE DEF new, code, left
  <2>2. \A a \in Admins : data'[a] = IF a = u THEN new ELSE data[a]
    BY <1>1, <2>1
  <2>3. StoreInStep'
    BY <2>1 DEF StoreInStep
  <2>4. \A a \in Admins : data'[a].BackupCodes = data[a].BackupCodes
    BY <1>4, <2>2
  <2>5. BackupsGone'
    <3>1. \A x \in spent' : x.kind = "backup" => x \in spent /\ x.user \in Admins
      BY <1>1, <1>5, <2>1, CodeFields
    <3> QED BY <1>3, <2>4, <3>1 DEF CodeInv, BackupsGone
  <2>6. BackupAcceptedOnce'
    BY <1>5, <2>1 DEF CodeInv, BackupAcceptedOnce
  <2>7. ASSUME Enrollers = {} PROVE StepsRemembered' /\ CodeAcceptedOnce'
    <3>1. \A x \in spent : x.kind = "totp" =>
            /\ x.user \in Admins /\ x.step \in Nat /\ x.step <= now + 1
            /\ data[x.user].Enabled /\ data[x.user].Secret = x.secret =>
                 x.step \in data[x.user].UsedTOTPSteps \/ now > x.step + 1
      BY <1>1, <2>7, CodeFields DEF CodeInv, StepsRemembered
    <3>2. code \notin spent
      BY <1>1, <1>2, <1>5, <3>1
    <3>3. CodeAcceptedOnce'
      BY <2>1, <2>7, <3>2 DEF CodeInv, CodeAcceptedOnce
    <3>4. ASSUME NEW x \in spent', x.kind = "totp"
          PROVE  /\ x.step <= now + 1
                 /\ data'[x.user].Enabled /\ data'[x.user].Secret = x.secret =>
                      x.step \in data'[x.user].UsedTOTPSteps \/ now > x.step + 1
      <4>1. CASE x = code
        BY <1>1, <1>4, <1>5, <1>6, <2>2, <4>1
      <4>2. CASE x \in spent /\ x.user # u
        BY <2>2, <3>1, <3>4, <4>2
      <4>3. CASE x \in spent /\ x.user = u
        BY <1>1, <1>4, <1>6, <2>2, <3>1, <3>4, <4>3
      <4> QED BY <2>1, <4>1, <4>2, <4>3
    <3>5. StepsRemembered'
      BY <1>3, <3>4 DEF StepsRemembered
    <3> QED BY <3>3, <3>5
  <2> QED BY <2>3, <2>5, <2>6, <2>7 DEF CodeInv
<1> QED BY <1>7, <1>8

\* An accepted backup code leaves its record.
LEMMA BackupKeepsCodes ==
    ASSUME CodeInv, TypeOK, TypeOK', NEW r \in Loginers,
           NEW c \in data[req[r].user].BackupCodes, NEW p \in BOOLEAN,
           ConsumeBackup(r, c, p)
    PROVE  CodeInv'
<1> DEFINE u == req[r].user
           rec == data[u]
           code == [kind |-> "backup", user |-> u, code |-> c]
           new == [rec EXCEPT !.BackupCodes = rec.BackupCodes \ {c}]
<1>1. /\ u \in Admins /\ rec \in MfaRecord
      /\ now \in Nat /\ spent \subseteq Code
      /\ data \in [Admins -> MfaRecord]
  BY ReqFields DEF TypeOK, SessionTypeOK, Requests
<1>2. Accept(r, code, new, p)
  BY DEF ConsumeBackup
<1>3. UNCHANGED <<now, fresh>>
  BY <1>2 DEF Accept, sessionVars
<1>4. /\ new.Enabled = rec.Enabled /\ new.Secret = rec.Secret
      /\ new.BackupCodes = rec.BackupCodes \ {c}
      /\ new.UsedTOTPSteps = rec.UsedTOTPSteps
  BY <1>1 DEF MfaRecord
<1>5. code.kind = "backup" /\ code.user = u /\ code.code = c
  OBVIOUS
<1>6. CASE ~p
  <2>1. UNCHANGED <<data, store, spent, respent>>
    BY <1>2, <1>6 DEF Accept, persistRecordLocked
  <2>2. StoreInStep' /\ fresh \in Nat
    BY <2>1 DEF CodeInv, StoreInStep, TypeOK
  <2> QED BY <1>1, <1>3, <2>1, <2>2, QuietCodes
<1>7. CASE p
  <2>1. /\ data' = [data EXCEPT ![u] = new]
        /\ store' = [exists |-> TRUE, data |-> data']
        /\ spent' = spent \cup {code}
        /\ respent' = IF code \in spent THEN respent \cup {code} ELSE respent
    BY <1>2, <1>7 DEF Accept, persistRecordLocked
  <2> HIDE DEF new, code
  <2>2. \A a \in Admins : data'[a] = IF a = u THEN new ELSE data[a]
    BY <1>1, <2>1
  <2>3. StoreInStep'
    BY <2>1 DEF StoreInStep
  <2>4. /\ \A a \in Admins : data'[a].BackupCodes \subseteq data[a].BackupCodes
        /\ c \notin data'[u].BackupCodes
    BY <1>1, <1>4, <2>2
  <2>5. BackupsGone'
    <3>1. \A x \in spent' : x.kind = "backup" =>
            x = code \/ (x \in spent /\ x.user \in Admins)
      BY <1>1, <2>1, CodeFields
    <3>2. c[1] <= fresh
      BY <1>1 DEF CodeInv, BackupsGone
    <3> QED BY <1>3, <1>5, <2>4, <3>1, <3>2 DEF CodeInv, BackupsGone
  <2>6. code \notin spent
    BY <1>1, <1>5 DEF CodeInv, BackupsGone
  <2>7. BackupAcceptedOnce' /\ (Enrollers = {} => CodeAcceptedOnce')
    BY <2>1, <2>6 DEF CodeInv, BackupAcceptedOnce, CodeAcceptedOnce
  <2>8. ASSUME Enrollers = {} PROVE StepsRemembered'
    <3>1. \A x \in spent' : x.kind = "totp" => x \in spent /\ x.user \in Admins
      BY <1>1, <1>5, <2>1, CodeFields
    <3>2. \A a \in Admins : /\ data'[a].Enabled = data[a].Enabled
                            /\ data'[a].Secret = data[a].Secret
                            /\ data'[a].UsedTOTPSteps = data[a].UsedTOTPSteps
      BY <1>4, <2>2
    <3> QED BY <1>3, <2>8, <3>1, <3>2 DEF CodeInv, StepsRemembered
  <2> QED BY <2>3, <2>5, <2>7, <2>8 DEF CodeInv
<1> QED BY <1>6, <1>7

\* Every step preserves CodeInv.
LEMMA NextCode == Typed /\ CodeInv /\ [Next]_vars => CodeInv'
<1> SUFFICES ASSUME Typed, CodeInv, [Next]_vars PROVE CodeInv'
  OBVIOUS
<1>s. Loginers \subseteq Requests /\ Enrollers \subseteq Requests
  BY DEF Requests
<1>t. TypeOK /\ TypeOK' /\ now \in Nat /\ fresh \in Nat
  BY NextTyped DEF Typed, TypeOK, SessionTypeOK
<1>q. ASSUME UNCHANGED <<data, store, spent, respent, now, fresh>>
      PROVE  CodeInv'
  <2>1. StoreInStep'
    BY <1>q DEF CodeInv, StoreInStep
  <2> QED BY <1>q, <1>t, <2>1, QuietCodes
<1>1. ASSUME NEW r \in Loginers, NEW u \in Admins, LoginPassword(r, u)
      PROVE  CodeInv'
  BY <1>1, <1>q DEF LoginPassword, sessionVars, storeVars, history
<1>2. ASSUME NEW r \in Loginers,
             LoginCheckMfa(r) \/ LoginSign(r) \/ signMfaToken(r)
      PROVE  CodeInv'
  BY <1>2, <1>q DEF LoginCheckMfa, LoginSign, signMfaToken, sessionVars, storeVars,
                    history
<1>3. ASSUME NEW r \in Loginers, NEW m \in mfaTokens, MfaLoginVerify(r, m)
      PROVE  CodeInv'
  BY <1>3, <1>q DEF MfaLoginVerify, sessionVars, storeVars, history
<1>4. ASSUME NEW r \in Loginers, NEW s \in TOTPWindow, NEW p \in BOOLEAN,
             ConsumeTOTP(r, s, p)
      PROVE  CodeInv'
  BY <1>4, <1>t, TOTPKeepsCodes
<1>5. ASSUME NEW r \in Loginers, NEW c \in data[req[r].user].BackupCodes,
             NEW p \in BOOLEAN, ConsumeBackup(r, c, p)
      PROVE  CodeInv'
  BY <1>5, <1>t, BackupKeepsCodes
<1>6. ASSUME NEW r \in Loginers,
             ConsumeReject(r) \/ consumeMfaJti(r) \/ MfaLoginSign(r)
      PROVE  CodeInv'
  BY <1>6, <1>q DEF ConsumeReject, consumeMfaJti, MfaLoginSign, sessionVars,
                    storeVars, history
<1>7. ASSUME NEW r \in Enrollers, NEW t \in issued,
             SetupCheck(r, t) \/ ConfirmRead(r, t) \/ DisableCheck(r, t)
      PROVE  CodeInv'
  BY <1>7, <1>q DEF SetupCheck, ConfirmRead, DisableCheck, sessionVars, storeVars,
                    history
<1>8. ASSUME NEW r \in Enrollers, NEW p \in BOOLEAN, NEW k \in BOOLEAN,
             SetupStore(r, p, k)
      PROVE  CodeInv'
  <2> DEFINE rec == [NoRecord EXCEPT !.Secret = fresh + 1]
  <2>1. rec \in MfaRecord /\ rec.BackupCodes = {}
    <3>1. NoRecord \in MfaRecord /\ fresh + 1 \in Nat
      BY <1>t, ConstantTypes
    <3> QED BY <3>1, RecUpdates DEF NoRecord
  <2>2. set(req[r].user, rec, p, k)
    BY <1>8 DEF SetupStore
  <2>3. UNCHANGED <<spent, respent, now>> /\ fresh <= fresh' /\ req[r].user \in Admins
    BY <1>8, <1>s, <1>t, ReqFields DEF SetupStore, sessionVars, history
  <2> HIDE DEF rec
  <2> QED BY <1>t, <2>1, <2>2, <2>3, SetKeepsCodes
<1>9. ASSUME NEW r \in Enrollers, NEW p \in BOOLEAN, NEW k \in BOOLEAN,
             ConfirmStore(r, p, k)
      PROVE  CodeInv'
  <2> DEFINE rec == [req[r].rec EXCEPT !.Enabled = TRUE,
                                       !.BackupCodes = BackupCodeSet(fresh + 1)]
  <2>1. req[r].user \in Admins /\ req[r].rec \in MfaRecord /\ fresh + 1 \in Nat
    BY <1>s, <1>t, ReqFields
  <2>2. BackupCodeSet(fresh + 1) \in SUBSET BackupCode
    BY <2>1, ConstantTypes
  <2>3. rec \in MfaRecord /\ rec.BackupCodes = BackupCodeSet(fresh + 1)
    BY <2>1, <2>2 DEF MfaRecord
  <2>4. set(req[r].user, rec, p, k)
    BY <1>9 DEF ConfirmStore
  <2>5. UNCHANGED <<spent, respent, now>> /\ fresh' = fresh + 1
    BY <1>9 DEF ConfirmStore, sessionVars
  <2> HIDE DEF rec
  <2>6. \A c \in rec.BackupCodes : fresh < c[1] /\ c[1] <= fresh'
    <3>1. \A c \in BackupCodeSet(fresh + 1) : c[1] = fresh + 1
      BY DEF BackupCodeSet
    <3> QED BY <1>t, <2>3, <2>5, <3>1
  <2>7. fresh <= fresh'
    BY <1>t, <2>5
  <2> QED BY <1>t, <2>1, <2>3, <2>4, <2>5, <2>6, <2>7, SetKeepsCodes
<1>10. ASSUME NEW r \in Enrollers, NEW p \in BOOLEAN, NEW k \in BOOLEAN,
              DisableStore(r, p, k)
       PROVE  CodeInv'
  <2>1. NoRecord \in MfaRecord /\ NoRecord.BackupCodes = {}
    BY ConstantTypes DEF NoRecord
  <2>2. set(req[r].user, NoRecord, p, k)
    BY <1>10 DEF DisableStore, delete
  <2>3. UNCHANGED <<spent, respent, now>> /\ fresh <= fresh' /\ req[r].user \in Admins
    BY <1>10, <1>s, <1>t, ReqFields DEF DisableStore, sessionVars
  <2> QED BY <1>t, <2>1, <2>2, <2>3, SetKeepsCodes
<1>11. ASSUME NEW r \in Enrollers, NEW p \in BOOLEAN, ConfirmBump(r, p)
       PROVE  CodeInv'
  BY <1>11, <1>q DEF ConfirmBump, storeVars, history
<1>12. ASSUME NEW r \in Enrollers, ConfirmSign(r)
       PROVE  CodeInv'
  BY <1>12, <1>q DEF ConfirmSign, storeVars
<1>13. ASSUME NEW u \in Admins, PasswordChange(u)
       PROVE  CodeInv'
  BY <1>13, <1>q DEF PasswordChange, storeVars, history
<1>14. CASE StoreLost
  <2>1. /\ UNCHANGED <<data, spent, respent, now, fresh>>
        /\ StoreInStep'
    BY <1>14 DEF StoreLost, sessionVars, history, StoreInStep
  <2> QED BY <1>t, <2>1, QuietCodes
<1>15. CASE CrashRestart
  <2>1. UNCHANGED <<store, spent, respent, now, fresh>>
    BY <1>15 DEF CrashRestart, loadSessionState
  <2>2. CASE store.exists
    BY <1>15, <1>q, <2>1, <2>2 DEF CrashRestart, CodeInv, StoreInStep
  <2>3. CASE ~store.exists
    <3>1. data' = NoData
      BY <1>15, <2>3 DEF CrashRestart
    <3>2. \A u \in Admins : data'[u].BackupCodes = {} /\ ~data'[u].Enabled
      BY <3>1 DEF NoData, NoRecord
    <3>3. \A x \in spent : x.user \in Admins
      BY <1>t, CodeFields DEF TypeOK
    <3>4. StoreInStep'
      BY <2>1, <2>3 DEF StoreInStep
    <3>5. BackupsGone'
      BY <2>1, <3>2, <3>3 DEF CodeInv, BackupsGone
    <3>6. BackupAcceptedOnce'
      BY <2>1 DEF CodeInv, BackupAcceptedOnce
    <3>7. Enrollers = {} => StepsRemembered' /\ CodeAcceptedOnce'
      BY <2>1, <3>2, <3>3 DEF CodeInv, StepsRemembered, CodeAcceptedOnce
    <3> QED BY <3>4, <3>5, <3>6, <3>7 DEF CodeInv
  <2> QED BY <2>2, <2>3
<1>16. CASE OperatorResetsMfa \/ UNCHANGED vars
  BY <1>16, <1>q DEF OperatorResetsMfa, vars, sessionVars, storeVars, history
<1>17. CASE ClockTick
  <2>1. UNCHANGED <<data, store, spent, respent, fresh>> /\ now <= now'
    BY <1>17, <1>t DEF ClockTick, Tick, storeVars, history
  <2>2. StoreInStep'
    BY <2>1 DEF CodeInv, StoreInStep
  <2> QED BY <1>t, <2>1, <2>2, QuietCodes
<1>l. CASE LoginStep
  BY <1>l, <1>1, <1>2 DEF LoginStep
<1>m. CASE MfaLoginStep
  BY <1>m, <1>3, <1>4, <1>5, <1>6 DEF MfaLoginStep
<1>e. CASE EnrolStep
  BY <1>e, <1>7, <1>8, <1>9, <1>10, <1>11, <1>12 DEF EnrolStep
<1> QED
  BY <1>l, <1>m, <1>e, <1>13, <1>14, <1>15, <1>16, <1>17 DEF Next

\* The inductive invariant of the codes holds initially: a restart finds no
\* code spent, and the first set of codes is numbered 1.
LEMMA InitCode == Init => CodeInv
<1> SUFFICES ASSUME Init PROVE CodeInv
  OBVIOUS
<1>1. PICK E \in SUBSET Admins : /\ data = Enrolment(E)
                                 /\ store = [exists |-> E # {}, data |-> Enrolment(E)]
  BY DEF Init
<1>2. spent = {} /\ respent = {} /\ fresh = 1
  BY DEF Init
<1>3. StoreInStep
  BY <1>1 DEF StoreInStep
<1>4. \A u \in Admins : data[u].BackupCodes \subseteq BackupCodeSet(1)
  BY <1>1 DEF Enrolment, NoRecord
<1>5. \A c \in BackupCodeSet(1) : c[1] <= 1
  BY DEF BackupCodeSet
<1>6. BackupsGone
  BY <1>2, <1>4, <1>5 DEF BackupsGone
<1>7. BackupAcceptedOnce /\ StepsRemembered /\ CodeAcceptedOnce
  BY <1>2 DEF BackupAcceptedOnce, StepsRemembered, CodeAcceptedOnce
<1> QED BY <1>3, <1>6, <1>7 DEF CodeInv

\* verifyAndConsume accepts a backup code at most once: for any number of
\* logins, setups, confirms and disables at once, failed writes, lost files and
\* crashes.
THEOREM BackupCodesOnce == Spec => []BackupAcceptedOnce
<1>1. Init => Typed
  BY InitTypeOK, FS_EmptySet DEF Init, Typed
<1>2. CodeInv => BackupAcceptedOnce
  BY DEF CodeInv
<1> QED BY <1>1, <1>2, InitCode, NextTyped, NextCode, PTL DEF Spec

\* As long as nobody enrols or disables, verifyAndConsume accepts a TOTP step
\* and a backup code at most once: for any number of logins at once, failed
\* writes, crashes and any pruning of old steps.  Beside a confirm it does not
\* hold: the confirm writes back the used steps it read earlier.
THEOREM CodesOnce == ASSUME Enrollers = {} PROVE Spec => []CodeAcceptedOnce
<1>1. Init => Typed
  BY InitTypeOK, FS_EmptySet DEF Init, Typed
<1>2. CodeInv => CodeAcceptedOnce
  BY DEF CodeInv
<1> QED BY <1>1, <1>2, InitCode, NextTyped, NextCode, PTL DEF Spec

-----------------------------------------------------------------------------
(* Enrolments *)

\* A step that leaves the store, the marker and the enrolled users alone, and
\* starts no setup without its check, preserves EnrolInv.
LEMMA QuietEnrol ==
    ASSUME EnrolInv, SetupChecked', UNCHANGED <<storeVars, up, enrolled>>
    PROVE  EnrolInv'
BY DEF EnrolInv, StoreInStep, DownWithoutStore, EnrolledMarked, EnabledUsers, storeVars

\* A finished or moved request of any slot, and one started in a slot that is
\* not at its setup, keep the checks of the setups, as long as no account is
\* enabled meanwhile.
LEMMA ChecksKept ==
    ASSUME TypeOK, SetupChecked, NEW r \in Requests, NEW s, NEW q,
           \A u \in Admins : data'[u].Enabled => data[u].Enabled,
           \/ req' = [req EXCEPT ![r] = Idle]
           \/ req' = [req EXCEPT ![r].stage = s] /\ s # "setup-ok"
           \/ /\ req' = [req EXCEPT ![r] = q]
              /\ q.stage = "setup-ok" =>
                   q.user \in Admins /\ ~data[q.user].Enabled
    PROVE  SetupChecked'
<1>1. /\ req \in [Requests -> Request] /\ Idle.stage = "idle"
      /\ \A o \in Enrollers : o \in Requests
      /\ \A o \in Requests : req[o].user \in Admins
  BY ReqFields DEF TypeOK, Idle, Requests
<1>2. CASE req' = [req EXCEPT ![r] = Idle]
  BY <1>1, <1>2 DEF SetupChecked, isEnabled
<1>3. CASE req' = [req EXCEPT ![r].stage = s] /\ s # "setup-ok"
  <2> DEFINE q2 == [req[r] EXCEPT !.stage = s]
  <2>1. q2.stage = s
    BY ReqFields DEF Request
  <2>2. \A o \in Requests : req'[o] = IF o = r THEN q2 ELSE req[o]
    BY <1>1, <1>3
  <2> HIDE DEF q2
  <2> QED BY <1>1, <1>3, <2>1, <2>2 DEF SetupChecked, isEnabled
<1>4. CASE /\ req' = [req EXCEPT ![r] = q]
           /\ q.stage = "setup-ok" => q.user \in Admins /\ ~data[q.user].Enabled
  BY <1>1, <1>4 DEF SetupChecked, isEnabled
<1> QED BY <1>2, <1>3, <1>4

\* An accepted code keeps every enrolment: it writes the record back, enabled.
LEMMA AcceptKeepsEnrolled ==
    ASSUME TypeOK, EnrolInv, NEW r \in Loginers, NEW code, NEW rec,
           NEW p \in BOOLEAN, At(r, "token-ok"), data[req[r].user].Enabled,
           rec.Enabled = data[req[r].user].Enabled, Accept(r, code, rec, p)
    PROVE  EnrolInv'
<1> DEFINE u == req[r].user
<1>1. /\ up /\ r \in Requests /\ u \in Admins
      /\ data \in [Admins -> MfaRecord] /\ SetupChecked
  BY ReqFields DEF At, Requests, TypeOK, EnrolInv
<1>2. /\ UNCHANGED <<up, enrolled, marker, markerFailed>>
      /\ data' = IF p THEN [data EXCEPT ![u] = rec] ELSE data
      /\ store' = IF p THEN [exists |-> TRUE, data |-> [data EXCEPT ![u] = rec]]
                       ELSE store
  BY DEF Accept, persistRecordLocked
<1>3. \A a \in Admins : data'[a].Enabled = data[a].Enabled
  BY <1>1, <1>2
<1>4. \/ req' = [req EXCEPT ![r] = Idle]
      \/ req' = [req EXCEPT ![r].stage = "code-ok"]
  BY DEF Accept, Become, Finish
<1>5. SetupChecked'
  BY <1>1, <1>3, <1>4, ChecksKept
<1>6. StoreInStep'
  BY <1>2 DEF EnrolInv, StoreInStep
<1>7. DownWithoutStore'
  BY <1>1, <1>2 DEF DownWithoutStore
<1>8. EnabledUsers(data)' = EnabledUsers(data)
  BY <1>3 DEF EnabledUsers
<1>9. EnrolledMarked'
  BY <1>2, <1>8 DEF EnrolInv, EnrolledMarked
<1> QED BY <1>5, <1>6, <1>7, <1>9 DEF EnrolInv

\* A write of the store in which the enrolled accounts are exactly those that
\* were, less one account or plus the account that the write enables.
LEMMA SetKeepsEnrolled ==
    ASSUME TypeOK, EnrolInv, up, UNCHANGED up, NEW u \in Admins,
           NEW rec \in MfaRecord, NEW p \in BOOLEAN, NEW k \in BOOLEAN,
           set(u, rec, p, k), SetupChecked',
           ~p => enrolled' = enrolled,
           p => \A a \in enrolled' : IF a = u THEN rec.Enabled ELSE a \in enrolled,
           enrolled' \subseteq Admins
    PROVE  EnrolInv'
<1>1. CASE ~p
  <2>1. UNCHANGED <<storeVars, up, enrolled>>
    BY <1>1 DEF set
  <2> QED BY <2>1, QuietEnrol
<1>2. CASE p
  <2> DEFINE next == [data EXCEPT ![u] = rec]
  <2>1. /\ data' = next
        /\ store' = [exists |-> TRUE, data |-> next]
        /\ marker' = IF k THEN EnabledUsers(next) ELSE marker
        /\ markerFailed' = (markerFailed \/ ~k)
    BY <1>2 DEF set
  <2>2. \A a \in Admins : next[a] = IF a = u THEN rec ELSE data[a]
    BY DEF TypeOK
  <2> HIDE DEF next
  <2>3. StoreInStep' /\ DownWithoutStore'
    BY <2>1 DEF StoreInStep, DownWithoutStore
  <2>4. ASSUME ~markerFailed'
        PROVE  enrolled' \subseteq EnabledUsers(next) /\ marker' = EnabledUsers(next)
    <3>1. ~markerFailed /\ k
      BY <2>1, <2>4
    <3>2. \A a \in enrolled : a \in Admins /\ data[a].Enabled
      BY <3>1 DEF EnrolInv, EnrolledMarked, EnabledUsers
    <3>3. enrolled' \subseteq EnabledUsers(next)
      BY <1>2, <2>2, <3>2 DEF EnabledUsers
    <3> QED BY <2>1, <3>1, <3>3
  <2>5. EnrolledMarked'
    BY <2>1, <2>4 DEF EnrolledMarked, EnabledUsers
  <2> QED BY <2>3, <2>5 DEF EnrolInv
<1> QED BY <1>1, <1>2

\* Every step preserves EnrolInv, when setups, confirms and disables come one
\* at a time.
LEMMA NextEnrol ==
    ASSUME OneEnroller
    PROVE  Typed /\ EnrolInv /\ [Next]_vars => EnrolInv'
<1> SUFFICES ASSUME Typed, EnrolInv, [Next]_vars PROVE EnrolInv'
  OBVIOUS
<1>s. Loginers \subseteq Requests /\ Enrollers \subseteq Requests
  BY DEF Requests
<1>t. TypeOK /\ TypeOK' /\ SetupChecked
  BY NextTyped DEF Typed, EnrolInv
<1>1. ASSUME NEW r \in Loginers, NEW u \in Admins, LoginPassword(r, u)
      PROVE  EnrolInv'
  <2> DEFINE q == [Idle EXCEPT !.stage = "password-ok", !.user = u]
  <2>1. q.stage = "password-ok"
    BY DEF Idle
  <2>2. req' = [req EXCEPT ![r] = q]
    BY <1>1 DEF LoginPassword
  <2> HIDE DEF q
  <2>3. UNCHANGED <<storeVars, up, enrolled>> /\ data' = data
    BY <1>1 DEF LoginPassword, storeVars, history
  <2>4. SetupChecked'
    BY <1>s, <1>t, <2>1, <2>2, <2>3, ChecksKept
  <2> QED BY <2>3, <2>4, QuietEnrol
<1>2. ASSUME NEW r \in Loginers,
             \/ LoginCheckMfa(r) \/ LoginSign(r) \/ signMfaToken(r)
             \/ ConsumeReject(r) \/ consumeMfaJti(r) \/ MfaLoginSign(r)
      PROVE  EnrolInv'
  <2>1. UNCHANGED <<storeVars, up, enrolled>> /\ data' = data
    BY <1>2 DEF LoginCheckMfa, LoginSign, signMfaToken, ConsumeReject, consumeMfaJti,
                MfaLoginSign, storeVars, history
  <2>2. \/ req' = [req EXCEPT ![r] = Idle]
        \/ req' = [req EXCEPT ![r].stage = "mfa-required"]
        \/ req' = [req EXCEPT ![r].stage = "no-mfa"]
        \/ req' = [req EXCEPT ![r].stage = "jti-ok"]
    BY <1>2 DEF LoginCheckMfa, LoginSign, signMfaToken, ConsumeReject, consumeMfaJti,
                MfaLoginSign, Become, Finish
  <2>3. SetupChecked'
    BY <1>s, <1>t, <2>1, <2>2, ChecksKept
  <2> QED BY <2>1, <2>3, QuietEnrol
<1>3. ASSUME NEW r \in Loginers, NEW m \in mfaTokens, MfaLoginVerify(r, m)
      PROVE  EnrolInv'
  <2> DEFINE q == [Idle EXCEPT !.stage = "token-ok", !.user = m.User, !.token = m]
  <2>1. q.stage = "token-ok"
    BY DEF Idle
  <2>2. req' = [req EXCEPT ![r] = q]
    BY <1>3 DEF MfaLoginVerify
  <2> HIDE DEF q
  <2>3. UNCHANGED <<storeVars, up, enrolled>> /\ data' = data
    BY <1>3 DEF MfaLoginVerify, storeVars, history
  <2>4. SetupChecked'
    BY <1>s, <1>t, <2>1, <2>2, <2>3, ChecksKept
  <2> QED BY <2>3, <2>4, QuietEnrol
<1>4. ASSUME NEW r \in Loginers, NEW s \in TOTPWindow, NEW p \in BOOLEAN,
             ConsumeTOTP(r, s, p)
      PROVE  EnrolInv'
  <2> DEFINE old == data[req[r].user]
             rec == [old EXCEPT !.UsedTOTPSteps =
                                  pruneTOTPSteps(old.UsedTOTPSteps \cup {s})]
             code == [kind |-> "totp", user |-> req[r].user, secret |-> old.Secret,
                      step |-> s]
  <2>1. old \in MfaRecord
    BY <1>s, <1>t, ReqFields DEF TypeOK
  <2>2. rec.Enabled = old.Enabled
    BY <2>1 DEF MfaRecord
  <2>3. At(r, "token-ok") /\ old.Enabled /\ Accept(r, code, rec, p)
    BY <1>4 DEF ConsumeTOTP
  <2> HIDE DEF rec, code
  <2> QED BY <1>t, <2>2, <2>3, AcceptKeepsEnrolled
<1>5. ASSUME NEW r \in Loginers, NEW c \in data[req[r].user].BackupCodes,
             NEW p \in BOOLEAN, ConsumeBackup(r, c, p)
      PROVE  EnrolInv'
  <2> DEFINE old == data[req[r].user]
             rec == [old EXCEPT !.BackupCodes = old.BackupCodes \ {c}]
             code == [kind |-> "backup", user |-> req[r].user, code |-> c]
  <2>1. old \in MfaRecord
    BY <1>s, <1>t, ReqFields DEF TypeOK
  <2>2. rec.Enabled = old.Enabled
    BY <2>1 DEF MfaRecord
  <2>3. At(r, "token-ok") /\ old.Enabled /\ Accept(r, code, rec, p)
    BY <1>5 DEF ConsumeBackup
  <2> HIDE DEF rec, code
  <2> QED BY <1>t, <2>2, <2>3, AcceptKeepsEnrolled
<1>6. ASSUME NEW r \in Enrollers, NEW t \in issued, SetupCheck(r, t)
      PROVE  EnrolInv'
  <2> DEFINE q == [Idle EXCEPT !.stage = "setup-ok", !.user = t.User]
  <2>1. q.user = t.User /\ t.User \in Admins /\ ~data[t.User].Enabled
    BY <1>6, <1>t DEF SetupCheck, isEnabled, Idle, TypeOK, SessionTypeOK, Token
  <2>2. req' = [req EXCEPT ![r] = q]
    BY <1>6 DEF SetupCheck
  <2> HIDE DEF q
  <2>3. UNCHANGED <<storeVars, up, enrolled>> /\ data' = data
    BY <1>6 DEF SetupCheck, storeVars, history
  <2>4. SetupChecked'
    BY <1>s, <1>t, <2>1, <2>2, <2>3, ChecksKept
  <2> QED BY <2>3, <2>4, QuietEnrol
<1>7. ASSUME NEW r \in Enrollers, NEW t \in issued,
             ConfirmRead(r, t) \/ DisableCheck(r, t)
      PROVE  EnrolInv'
  <2> DEFINE qc == [Idle EXCEPT !.stage = "confirm-read", !.user = t.User,
                                !.rec = data[t.User]]
             qd == [Idle EXCEPT !.stage = "disable-ok", !.user = t.User]
  <2>1. qc.stage = "confirm-read" /\ qd.stage = "disable-ok"
    BY DEF Idle
  <2>2. req' = [req EXCEPT ![r] = qc] \/ req' = [req EXCEPT ![r] = qd]
    BY <1>7 DEF ConfirmRead, DisableCheck
  <2> HIDE DEF qc, qd
  <2>3. UNCHANGED <<storeVars, up, enrolled>> /\ data' = data
    BY <1>7 DEF ConfirmRead, DisableCheck, storeVars, history
  <2>4. SetupChecked'
    BY <1>s, <1>t, <2>1, <2>2, <2>3, ChecksKept
  <2> QED BY <2>3, <2>4, QuietEnrol
<1>8. ASSUME NEW r \in Enrollers, NEW p \in BOOLEAN, NEW k \in BOOLEAN,
             SetupStore(r, p, k)
      PROVE  EnrolInv'
  <2> DEFINE u == req[r].user
             rec == [NoRecord EXCEPT !.Secret = fresh + 1]
  <2>1. /\ u \in Admins /\ up /\ ~data[u].Enabled /\ r \in Requests
        /\ fresh + 1 \in Nat /\ NoRecord \in MfaRecord
    BY <1>8, <1>s, <1>t, ReqFields, ConstantTypes
       DEF SetupStore, At, SetupChecked, isEnabled, TypeOK
  <2>2. rec \in MfaRecord
    BY <2>1, RecUpdates
  <2>3. ~rec.Enabled
    BY DEF NoRecord
  <2>4. /\ set(u, rec, p, k)
        /\ UNCHANGED <<up, enrolled>>
        /\ req' = [req EXCEPT ![r] = Idle]
    BY <1>8 DEF SetupStore, Finish, history
  <2> HIDE DEF rec
  <2>5. \A a \in Admins : data'[a].Enabled => data[a].Enabled
    BY <1>t, <2>1, <2>3, <2>4 DEF set, storeVars, TypeOK
  <2>6. SetupChecked'
    BY <1>t, <2>1, <2>4, <2>5, ChecksKept
  <2>7. CASE markerFailed
    <3>1. markerFailed'
      BY <2>4, <2>7 DEF set, storeVars
    <3>2. StoreInStep' /\ DownWithoutStore'
      BY <2>1, <2>4 DEF set, storeVars, EnrolInv, StoreInStep, DownWithoutStore
    <3> QED BY <2>6, <3>1, <3>2 DEF EnrolInv, EnrolledMarked
  <2>8. CASE ~markerFailed
    <3>1. u \notin enrolled
      BY <2>1, <2>8 DEF EnrolInv, EnrolledMarked, EnabledUsers
    <3>2. enrolled \subseteq Admins
      BY <1>t DEF TypeOK
    <3> QED BY <1>t, <2>1, <2>2, <2>4, <2>6, <3>1, <3>2, SetKeepsEnrolled
  <2> QED BY <2>7, <2>8
<1>9. ASSUME NEW r \in Enrollers, NEW p \in BOOLEAN, NEW k \in BOOLEAN,
             ConfirmStore(r, p, k)
      PROVE  EnrolInv'
  <2> DEFINE u == req[r].user
             rec == [req[r].rec EXCEPT !.Enabled = TRUE,
                                       !.BackupCodes = BackupCodeSet(fresh + 1)]
  <2>1. /\ u \in Admins /\ up /\ r \in Requests /\ req[r].stage = "confirm-bumped"
        /\ fresh + 1 \in Nat /\ req[r].rec \in MfaRecord
        /\ req \in [Requests -> Request]
    BY <1>9, <1>s, <1>t, ReqFields DEF ConfirmStore, At, TypeOK
  <2>2. BackupCodeSet(fresh + 1) \in SUBSET BackupCode
    BY <2>1, ConstantTypes
  <2>3. rec \in MfaRecord /\ rec.Enabled
    BY <2>1, <2>2 DEF MfaRecord
  <2>4. /\ set(u, rec, p, k)
        /\ UNCHANGED up
        /\ enrolled' = IF p THEN enrolled \cup {u} ELSE enrolled
        /\ \/ req' = [req EXCEPT ![r] = Idle]
           \/ req' = [req EXCEPT ![r].stage = "confirm-stored"]
    BY <1>9 DEF ConfirmStore, Finish, Become
  <2> HIDE DEF rec
  <2>5. SetupChecked'
    <3>1. \A o \in Enrollers : o = r
      BY DEF OneEnroller
    <3>2. req'[r].stage \in {"idle", "confirm-stored"}
      BY <2>1, <2>4 DEF Idle, Request
    <3> QED BY <3>1, <3>2 DEF SetupChecked
  <2>6. enrolled' \subseteq Admins
    BY <1>t, <2>1, <2>4 DEF TypeOK
  <2> QED BY <1>t, <2>1, <2>3, <2>4, <2>5, <2>6, SetKeepsEnrolled
<1>10. ASSUME NEW r \in Enrollers, NEW p \in BOOLEAN, NEW k \in BOOLEAN,
              DisableStore(r, p, k)
       PROVE  EnrolInv'
  <2> DEFINE u == req[r].user
  <2>1. u \in Admins /\ up /\ r \in Requests /\ NoRecord \in MfaRecord
    BY <1>10, <1>s, <1>t, ReqFields, ConstantTypes DEF DisableStore, At
  <2>2. ~NoRecord.Enabled
    BY DEF NoRecord
  <2>3. /\ set(u, NoRecord, p, k)
        /\ UNCHANGED up
        /\ enrolled' = IF p THEN enrolled \ {u} ELSE enrolled
        /\ req' = [req EXCEPT ![r] = Idle]
    BY <1>10 DEF DisableStore, delete, Finish
  <2>4. \A a \in Admins : data'[a].Enabled => data[a].Enabled
    BY <1>t, <2>1, <2>2, <2>3 DEF set, storeVars, TypeOK
  <2>5. SetupChecked'
    BY <1>t, <2>1, <2>3, <2>4, ChecksKept
  <2>6. enrolled' \subseteq Admins
    BY <1>t, <2>3 DEF TypeOK
  <2> QED BY <1>t, <2>1, <2>3, <2>5, <2>6, SetKeepsEnrolled
<1>11. ASSUME NEW r \in Enrollers, NEW p \in BOOLEAN, ConfirmBump(r, p)
       PROVE  EnrolInv'
  <2> DEFINE q == [req[r] EXCEPT !.stage = "confirm-bumped",
                                 !.before = {t \in issued : t.User = req[r].user}]
  <2>1. q.stage = "confirm-bumped"
    BY <1>s, <1>t, ReqFields DEF Request
  <2>2. req' = [req EXCEPT ![r] = q] \/ req' = [req EXCEPT ![r] = Idle]
    BY <1>11 DEF ConfirmBump
  <2> HIDE DEF q
  <2>3. UNCHANGED <<storeVars, up, enrolled>> /\ data' = data
    BY <1>11 DEF ConfirmBump, storeVars, history
  <2>4. SetupChecked'
    BY <1>s, <1>t, <2>1, <2>2, <2>3, ChecksKept
  <2> QED BY <2>3, <2>4, QuietEnrol
<1>12. ASSUME NEW r \in Enrollers, ConfirmSign(r)
       PROVE  EnrolInv'
  <2>1. /\ UNCHANGED <<storeVars, up, enrolled>> /\ data' = data
        /\ req' = [req EXCEPT ![r] = Idle]
    BY <1>12 DEF ConfirmSign, storeVars, Finish
  <2>2. SetupChecked'
    BY <1>s, <1>t, <2>1, ChecksKept
  <2> QED BY <2>1, <2>2, QuietEnrol
<1>13. ASSUME NEW u \in Admins, PasswordChange(u)
       PROVE  EnrolInv'
  <2>1. UNCHANGED <<storeVars, up, enrolled>> /\ data' = data /\ req' = req
    BY <1>13 DEF PasswordChange, storeVars, history
  <2>2. SetupChecked'
    BY <1>t, <2>1 DEF SetupChecked, isEnabled
  <2> QED BY <2>1, <2>2, QuietEnrol
<1>14. CASE StoreLost
  <2>1. /\ UNCHANGED <<up, data, marker, markerFailed, req, enrolled>>
        /\ ~store'.exists
    BY <1>14 DEF StoreLost, history
  <2> QED
    BY <2>1 DEF EnrolInv, StoreInStep, DownWithoutStore, EnrolledMarked, EnabledUsers,
                SetupChecked, isEnabled
<1>15. CASE CrashRestart
  <2>1. /\ UNCHANGED <<store, marker, markerFailed, enrolled>>
        /\ up' = ~loadRefused
        /\ data' = IF store.exists THEN store.data ELSE NoData
        /\ req' = [r \in Requests |-> Idle]
    BY <1>15 DEF CrashRestart
  <2>2. SetupChecked'
    BY <1>s, <2>1 DEF SetupChecked, Idle
  <2>3. StoreInStep'
    BY <2>1 DEF StoreInStep
  <2>4. DownWithoutStore'
    BY <2>1 DEF DownWithoutStore, loadRefused
  <2>5. EnrolledMarked'
    <3> SUFFICES ASSUME ~markerFailed
                 PROVE  /\ enrolled \subseteq marker
                        /\ up' => enrolled \subseteq EnabledUsers(data')
      BY <2>1 DEF EnrolledMarked, EnabledUsers
    <3>1. enrolled \subseteq marker /\ (up => enrolled \subseteq EnabledUsers(data))
      BY DEF EnrolInv, EnrolledMarked
    <3>2. CASE store.exists
      BY <2>1, <3>1, <3>2 DEF EnrolInv, StoreInStep, DownWithoutStore
    <3>3. CASE ~store.exists
      BY <2>1, <3>1, <3>3 DEF loadRefused
    <3> QED BY <3>2, <3>3
  <2> QED BY <2>2, <2>3, <2>4, <2>5 DEF EnrolInv
<1>16. CASE OperatorResetsMfa
  <2>1. UNCHANGED <<up, data, store, markerFailed, req>> /\ enrolled' = {}
    BY <1>16 DEF OperatorResetsMfa
  <2> QED
    BY <2>1 DEF EnrolInv, StoreInStep, DownWithoutStore, EnrolledMarked,
                SetupChecked, isEnabled
<1>17. CASE ClockTick \/ UNCHANGED vars
  <2>1. UNCHANGED <<storeVars, up, enrolled>> /\ data' = data /\ req' = req
    BY <1>17 DEF ClockTick, vars, storeVars, history
  <2>2. SetupChecked'
    BY <1>t, <2>1 DEF SetupChecked, isEnabled
  <2> QED BY <2>1, <2>2, QuietEnrol
<1>l. CASE LoginStep
  BY <1>l, <1>1, <1>2 DEF LoginStep
<1>m. CASE MfaLoginStep
  BY <1>m, <1>2, <1>3, <1>4, <1>5 DEF MfaLoginStep
<1>e. CASE EnrolStep
  BY <1>e, <1>6, <1>7, <1>8, <1>9, <1>10, <1>11, <1>12 DEF EnrolStep
<1> QED
  BY <1>l, <1>m, <1>e, <1>13, <1>14, <1>15, <1>16, <1>17 DEF Next

\* An enrolled account is asked for its second factor whenever the process
\* runs, when setups, confirms and disables come one at a time: for any number
\* of logins at once, failed writes, crashes and losses of the secrets file, as
\* long as the marker could be written.  With two at a time it does not hold: a
\* setup overwrites what a confirm enabled after the setup's check.
THEOREM EnrolmentKept ==
    ASSUME OneEnroller PROVE Spec => []EnrolmentNeverSilentlyLost
<1>1. Init => Typed
  BY InitTypeOK, FS_EmptySet DEF Init, Typed
<1>2. Init => EnrolInv
  <2> SUFFICES ASSUME Init PROVE EnrolInv
    OBVIOUS
  <2>1. PICK E \in SUBSET Admins : /\ data = Enrolment(E)
                                   /\ store = [exists |-> E # {}, data |-> Enrolment(E)]
                                   /\ marker = E
                                   /\ enrolled = E
    BY DEF Init
  <2>2. StoreInStep /\ DownWithoutStore
    BY <2>1 DEF Init, StoreInStep, DownWithoutStore
  <2>3. EnrolledMarked
    BY <2>1 DEF EnrolledMarked, EnabledUsers, Enrolment
  <2>4. SetupChecked
    BY DEF Init, SetupChecked, Idle, Requests
  <2> QED BY <2>2, <2>3, <2>4 DEF EnrolInv
<1>3. EnrolInv => EnrolmentNeverSilentlyLost
  BY DEF EnrolInv, EnrolledMarked, EnabledUsers, EnrolmentNeverSilentlyLost, isEnabled
<1> QED BY <1>1, <1>2, <1>3, NextTyped, NextEnrol, PTL DEF Spec

=============================================================================
