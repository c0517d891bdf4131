------------------------- MODULE AdminSessionsProofs -------------------------
(***************************************************************************)
(* Proofs about AdminSessions, for any set of admins and any number of     *)
(* concurrent logins, logouts and password changes.                        *)
(*                                                                         *)
(* KilledStayDead is not inductive: whether a bump kills the sessions that *)
(* a change promised to kill depends on the epochs those sessions carry,   *)
(* on the file agreeing with memory when a crash reloads it, and on what   *)
(* the change remembered when it committed.  IInv says these three things. *)
(***************************************************************************)
EXTENDS AdminSessions, TLAPS

\* The file holds the epochs in force; a crash can change nothing.
EpochsOnDisk == sessionEpochs = sessionEpochsFile

\* No token is ahead of its user's epoch.
NoTokenAhead == \A t \in issued : t.Epoch <= sessionEpochs[t.User]

\* A change past its commit remembers only tokens of its user that exist.
BeforeIssued ==
    \A r \in Requests : \A t \in req[r].before :
        t \in issued /\ t.User = req[r].user

\* Past the bump, every remembered token has been overtaken.
BumpedKills ==
    \A r \in Requests : req[r].stage \in {"bumped", "copied"} =>
        \A t \in req[r].before : t.Epoch < sessionEpochs[t.User]

\* So has every token of a change that was reported.
KilledOvertaken == \A t \in killed : t.Epoch < sessionEpochs[t.User]

\* A recorded logout is in both copies of the blacklist until it expires.
LogoutRecorded ==
    \A t \in loggedOut : now > t.Exp \/ t \in revokedTokens \cap revokedTokensFile

IInv ==
    /\ TypeOK
    /\ EpochsOnDisk
    /\ NoTokenAhead
    /\ BeforeIssued
    /\ BumpedKills
    /\ KilledOvertaken
    /\ LogoutRecorded

-----------------------------------------------------------------------------
(* Typing *)

\* The placeholder token, the empty tables and the idle request have their types.
LEMMA TokenTypes ==
    /\ NoToken \in Token
    /\ NoTable \in Table
    /\ TempTable \in Table
    /\ Idle \in Request
<1>1. NoToken \in Token
  BY AdminAssumption DEF NoToken, Token
<1>2. NoTable \in Table /\ TempTable \in Table
  BY AdminAssumption DEF NoTable, TempTable, Table, Hash, NoHash, TempHash
<1>3. Idle \in Request
  BY <1>1, <1>2, AdminAssumption DEF Idle, Request, Stage, Hash, NoHash
<1> QED BY <1>1, <1>2, <1>3

\* What signSession mints is a token.
LEMMA SignedType ==
    ASSUME TypeOK, NEW u \in Admins, NEW m \in BOOLEAN
    PROVE  SignedPayload(u, m) \in Token
BY SessionAssumption DEF TypeOK, SessionTypeOK, SignedPayload, Token

\* Init establishes the types.
LEMMA InitTypeOK == Init => TypeOK
<1> SUFFICES ASSUME Init PROVE TypeOK
  OBVIOUS
<1>1. SessionTypeOK
  BY DEF Init, SessionInit, SessionTypeOK
<1>2. htpasswdUsers \in Table /\ adminHtpasswd \in Table
  BY TokenTypes DEF Init, Table, Hash, OperatorHash
<1>3. req \in [Requests -> Request]
  BY TokenTypes DEF Init
<1> QED
  BY <1>1, <1>2, <1>3 DEF Init, TypeOK, OperatorHash

\* Every step preserves the types.
LEMMA NextTypeOK == TypeOK /\ [Next]_vars => TypeOK'
<1> SUFFICES ASSUME TypeOK, [Next]_vars PROVE TypeOK'
  OBVIOUS
<1> USE DEF TypeOK, SessionTypeOK
<1>1. ASSUME NEW r \in Loginers, NEW u \in Admins, LoginValidate(r, u)
      PROVE  TypeOK'
  <2>1. [Idle EXCEPT !.stage = "login-valid", !.user = u] \in Request
    BY TokenTypes DEF Request, Stage
  <2> QED
    BY <1>1, <2>1 DEF LoginValidate, sessionVars, credVars, history, Requests
<1>2. ASSUME NEW r \in Loginers, LoginSign(r)
      PROVE  TypeOK'
  <2>1. SignedPayload(req[r].user, FALSE) \in Token
    BY SignedType DEF Request, Requests
  <2> QED
    BY <1>2, <2>1, TokenTypes DEF LoginSign, signSession, credVars, history, Requests
<1>3. ASSUME NEW r \in Logouters, NEW t \in issued, LogoutVerify(r, t)
      PROVE  TypeOK'
  <2>1. [Idle EXCEPT !.stage = "logout-verified", !.user = t.User,
                     !.token = t] \in Request
    BY TokenTypes DEF Request, Stage, Token
  <2> QED
    BY <1>3, <2>1 DEF LogoutVerify, sessionVars, credVars, history, Requests
<1>4. ASSUME NEW r \in Logouters, NEW p \in BOOLEAN, LogoutRevoke(r, p)
      PROVE  TypeOK'
  <2>1. req[r].token \in Token
    BY DEF Request, Requests
  <2> QED
    BY <1>4, <2>1, TokenTypes
       DEF LogoutRevoke, revokeToken, Unexpired, credVars, Requests
<1>5. ASSUME NEW r \in Changers, NEW t \in issued, ChangeAuthenticate(r, t)
      PROVE  TypeOK'
  <2>1. [Idle EXCEPT !.stage = "authenticated", !.user = t.User] \in Request
    BY TokenTypes DEF Request, Stage, Token
  <2> QED
    BY <1>5, <2>1 DEF ChangeAuthenticate, sessionVars, credVars, history, Requests
<1>6. ASSUME NEW r \in Changers, ChangeValidate(r)
      PROVE  TypeOK'
  <2>1. lastHash + 1 \in Hash /\ req[r] \in Request
    BY DEF Hash, Requests
  <2>2. [req[r] EXCEPT !.stage = "validated", !.hash = lastHash + 1] \in Request
    BY <2>1 DEF Request, Stage
  <2> QED
    BY <1>6, <2>1, <2>2 DEF Hash, ChangeValidate, sessionVars, history, Requests
<1>7. ASSUME NEW r \in Changers, ChangeReject(r)
      PROVE  TypeOK'
  BY <1>7, TokenTypes DEF ChangeReject, sessionVars, credVars, history, Requests
<1>8. ASSUME NEW r \in Changers, ChangeCommit(r)
      PROVE  TypeOK'
  <2> DEFINE u == req[r].user
  <2>1. u \in Admins /\ req[r].hash \in Hash
    BY DEF Request, Requests
  <2>2. [req[r] EXCEPT !.stage = "committed",
                       !.prevHash = htpasswdUsers[u],
                       !.prevMustChange = adminPasswordMustChange,
                       !.before = {t \in issued : t.User = u}] \in Request
    BY <2>1 DEF Request, Stage, Requests, Table
  <2> QED
    BY <1>8, <2>1, <2>2 DEF ChangeCommit, sessionVars, history, Requests, Table
<1>9. ASSUME NEW r \in Changers, NEW p \in BOOLEAN, ChangeBump(r, p)
      PROVE  TypeOK'
  <2>1. req[r].user \in Admins
    BY DEF Request, Requests
  <2>2. \A s \in Stage : [req[r] EXCEPT !.stage = s] \in Request
    BY DEF Request, Requests
  <2>3. req' \in [Requests -> Request]
    BY <1>9, <2>2 DEF ChangeBump, Stage, Requests
  <2> QED
    BY <1>9, <2>1, <2>3 DEF ChangeBump, bumpUserEpoch, credVars, history
<1>10. ASSUME NEW r \in Changers, ChangeCopy(r)
       PROVE  TypeOK'
  <2>1. [req[r] EXCEPT !.stage = "copied", !.copy = htpasswdUsers] \in Request
    BY DEF Request, Stage, Requests
  <2> QED
    BY <1>10, <2>1 DEF ChangeCopy, sessionVars, credVars, history, Requests
<1>11. ASSUME NEW r \in Changers, ChangeSave(r)
       PROVE  TypeOK'
  <2>1. req[r] \in Request
    BY DEF Requests
  <2>2. req' \in [Requests -> Request]
    BY <1>11, TokenTypes DEF ChangeSave
  <2> QED
    BY <1>11, <2>1, <2>2 DEF ChangeSave, Request, sessionVars
<1>12. ASSUME NEW r \in Changers, ChangeSaveFails(r)
       PROVE  TypeOK'
  <2>1. [req[r] EXCEPT !.stage = "rollback"] \in Request
    BY DEF Request, Stage, Requests
  <2> QED
    BY <1>12, <2>1 DEF ChangeSaveFails, sessionVars, credVars, history, Requests
<1>13. ASSUME NEW r \in Changers, ChangeRollback(r)
       PROVE  TypeOK'
  <2>1. req[r] \in Request
    BY DEF Requests
  <2> QED
    BY <1>13, <2>1, TokenTypes
       DEF ChangeRollback, Request, sessionVars, history, Table
<1>14. CASE CrashRestart
  BY <1>14, TokenTypes
     DEF CrashRestart, initAuth, loadSessionState, LoadedTable, Unexpired, history
<1>15. CASE ClockTick
  BY <1>15 DEF ClockTick, Tick, credVars, history
<1>16. CASE UNCHANGED vars
  BY <1>16 DEF vars, sessionVars, credVars, history
<1> QED
  BY <1>1, <1>2, <1>3, <1>4, <1>5, <1>6, <1>7, <1>8, <1>9, <1>10, <1>11, <1>12,
     <1>13, <1>14, <1>15, <1>16 DEF Next, LoginStep, LogoutStep, ChangeStep

\* TypeOK holds in every reachable state of adminChangePasswordHandler,
\* loginHandler, logoutHandler and initAuth, whatever the constants.
THEOREM TypeCorrect == Spec => []TypeOK
BY InitTypeOK, NextTypeOK, PTL DEF Spec

-----------------------------------------------------------------------------
(* The inductive invariant *)

\* The inductive invariant holds when initAuth has run for the first time.
LEMMA InitIInv == Init => IInv
<1> SUFFICES ASSUME Init PROVE IInv
  OBVIOUS
<1>1. TypeOK
  BY InitTypeOK
<1>2. EpochsOnDisk /\ NoTokenAhead /\ KilledOvertaken /\ LogoutRecorded
  BY DEF Init, SessionInit, EpochsOnDisk, NoTokenAhead, KilledOvertaken, LogoutRecorded
<1>3. BeforeIssued /\ BumpedKills
  BY DEF Init, Idle, BeforeIssued, BumpedKills
<1> QED
  BY <1>1, <1>2, <1>3 DEF IInv

\* A step that leaves tokens, epochs, blacklist and clock alone, remembers
\* nothing new and passes no bump, preserves the session part of IInv.
LEMMA QuietStep ==
    ASSUME IInv, TypeOK', UNCHANGED sessionVars, UNCHANGED <<killed, loggedOut>>,
           \A r \in Requests :
             \/ req'[r].before = {} /\ req'[r].stage \notin {"bumped", "copied"}
             \/ /\ req'[r].before = req[r].before
                /\ req'[r].user = req[r].user
                /\ req'[r].stage \in {"bumped", "copied"} =>
                     req[r].stage \in {"bumped", "copied"}
    PROVE  IInv'
<1>1. EpochsOnDisk' /\ NoTokenAhead' /\ KilledOvertaken' /\ LogoutRecorded'
  BY DEF IInv, sessionVars, EpochsOnDisk, NoTokenAhead, KilledOvertaken, LogoutRecorded
<1>2. BeforeIssued'
  BY DEF IInv, sessionVars, BeforeIssued
<1>3. BumpedKills'
  BY DEF IInv, sessionVars, BumpedKills
<1> QED
  BY <1>1, <1>2, <1>3 DEF IInv

\* Every step of every request, a restart and the clock preserve it.
LEMMA NextIInv == IInv /\ [Next]_vars => IInv'
<1> SUFFICES ASSUME IInv, [Next]_vars PROVE IInv'
  OBVIOUS
<1>0. TypeOK /\ TypeOK'
  BY NextTypeOK DEF IInv
<1>f. /\ req \in [Requests -> Request]
      /\ Idle.before = {} /\ Idle.stage = "idle"
  BY <1>0 DEF TypeOK, Idle
<1>1. ASSUME NEW r \in Loginers, NEW u \in Admins, LoginValidate(r, u)
      PROVE  IInv'
  BY <1>0, <1>1, <1>f, QuietStep DEF LoginValidate, history, Requests, Idle
<1>2. ASSUME NEW r \in Loginers, LoginSign(r)
      PROVE  IInv'
  <2> DEFINE t0 == SignedPayload(req[r].user, FALSE)
  <2>1. /\ issued' = issued \cup {t0}
        /\ UNCHANGED <<now, sessionEpochs, sessionEpochsFile, revokedTokens,
                       revokedTokensFile, killed, loggedOut>>
        /\ req' = [req EXCEPT ![r] = Idle]
    BY <1>2 DEF LoginSign, signSession, history
  <2>2. t0 \in Token /\ t0.Epoch = sessionEpochs[t0.User]
    BY <1>0, SignedType DEF TypeOK, Request, Requests, SignedPayload
  <2> HIDE DEF t0
  <2>3. NoTokenAhead'
    <3>1. t0.Epoch <= sessionEpochs[t0.User]
      BY <1>0, <2>2 DEF TypeOK, SessionTypeOK, Token
    <3> QED
      BY <2>1, <3>1 DEF IInv, NoTokenAhead
  <2>4. EpochsOnDisk' /\ KilledOvertaken' /\ LogoutRecorded'
    BY <2>1 DEF IInv, EpochsOnDisk, KilledOvertaken, LogoutRecorded
  <2>5. BeforeIssued' /\ BumpedKills'
    BY <2>1, <1>f DEF IInv, BeforeIssued, BumpedKills
  <2> QED
    BY <1>0, <2>3, <2>4, <2>5 DEF IInv
<1>3. ASSUME NEW r \in Logouters, NEW t \in issued, LogoutVerify(r, t)
      PROVE  IInv'
  BY <1>0, <1>3, <1>f, QuietStep DEF LogoutVerify, history, Requests, Idle
<1>4. ASSUME NEW r \in Logouters, NEW p \in BOOLEAN, LogoutRevoke(r, p)
      PROVE  IInv'
  <2>1. /\ UNCHANGED <<now, sessionEpochs, sessionEpochsFile, issued, killed>>
        /\ req' = [req EXCEPT ![r] = Idle]
    BY <1>4 DEF LogoutRevoke
  <2>2. EpochsOnDisk' /\ NoTokenAhead' /\ KilledOvertaken'
    BY <2>1 DEF IInv, EpochsOnDisk, NoTokenAhead, KilledOvertaken
  <2>3. BeforeIssued' /\ BumpedKills'
    BY <2>1, <1>f DEF IInv, BeforeIssued, BumpedKills
  <2>4. LogoutRecorded'
    <3> SUFFICES ASSUME NEW t \in loggedOut', ~(now > t.Exp)
                 PROVE  t \in revokedTokens' /\ t \in revokedTokensFile'
      BY <2>1 DEF LogoutRecorded
    <3>1. t \in Token /\ now \in Nat
      BY <1>0 DEF TypeOK, SessionTypeOK
    <3>2. now <= t.Exp
      BY <3>1 DEF Token
    <3>3. t \in loggedOut => t \in Unexpired(revokedTokens) /\ t \in revokedTokensFile
      BY <3>2 DEF IInv, LogoutRecorded, Unexpired
    <3>4. CASE BlacklistFull(req[r].token)
      BY <1>4, <3>3, <3>4 DEF LogoutRevoke, revokeToken
    <3>5. CASE ~BlacklistFull(req[r].token)
      <4>1. revokedTokens' = Unexpired(revokedTokens) \cup {req[r].token}
        BY <1>4, <3>5 DEF LogoutRevoke, revokeToken
      <4>2. CASE p
        BY <1>4, <3>3, <3>5, <4>1, <4>2 DEF LogoutRevoke, revokeToken
      <4>3. CASE ~p
        BY <1>4, <3>3, <3>5, <4>1, <4>3 DEF LogoutRevoke, revokeToken
      <4> QED BY <4>2, <4>3
    <3> QED BY <3>4, <3>5
  <2> QED
    BY <1>0, <2>2, <2>3, <2>4 DEF IInv
<1>5. ASSUME NEW r \in Changers, NEW t \in issued, ChangeAuthenticate(r, t)
      PROVE  IInv'
  BY <1>0, <1>5, <1>f, QuietStep DEF ChangeAuthenticate, history, Requests, Idle
<1>6. ASSUME NEW r \in Changers, ChangeValidate(r)
      PROVE  IInv'
  BY <1>0, <1>6, <1>f, QuietStep DEF ChangeValidate, history, Requests, Request
<1>7. ASSUME NEW r \in Changers, ChangeReject(r)
      PROVE  IInv'
  BY <1>0, <1>7, <1>f, QuietStep DEF ChangeReject, history, Requests
<1>8. ASSUME NEW r \in Changers, ChangeCommit(r)
      PROVE  IInv'
  <2>1. /\ UNCHANGED sessionVars
        /\ UNCHANGED <<killed, loggedOut>>
    BY <1>8 DEF ChangeCommit, history
  <2>2. /\ req'[r].before = {t \in issued : t.User = req[r].user}
        /\ req'[r].stage = "committed"
        /\ req'[r].user = req[r].user
        /\ \A q \in Requests \ {r} : req'[q] = req[q]
    BY <1>8, <1>f DEF ChangeCommit, Request, Requests
  <2>3. EpochsOnDisk' /\ NoTokenAhead' /\ KilledOvertaken' /\ LogoutRecorded'
    BY <2>1 DEF IInv, sessionVars, EpochsOnDisk, NoTokenAhead, KilledOvertaken,
                LogoutRecorded
  <2>4. BeforeIssued'
    BY <2>1, <2>2 DEF IInv, sessionVars, BeforeIssued
  <2>5. BumpedKills'
    BY <2>1, <2>2 DEF IInv, sessionVars, BumpedKills
  <2> QED
    BY <1>0, <2>3, <2>4, <2>5 DEF IInv
<1>9. ASSUME NEW r \in Changers, NEW p \in BOOLEAN, ChangeBump(r, p)
      PROVE  IInv'
  <2>1. UNCHANGED <<now, revokedTokens, revokedTokensFile, issued, killed, loggedOut>>
    BY <1>9 DEF ChangeBump, history
  <2>2. /\ req'[r].before = req[r].before
        /\ req'[r].user = req[r].user
        /\ req'[r].stage = IF p THEN "bumped" ELSE "rollback"
        /\ \A q \in Requests \ {r} : req'[q] = req[q]
    BY <1>9, <1>f DEF ChangeBump, Request, Requests
  <2>3. sessionEpochs' = sessionEpochsFile'
    BY <1>9 DEF ChangeBump, bumpUserEpoch, IInv, EpochsOnDisk
  <2>4. /\ \A u \in Admins : sessionEpochs[u] \in Nat /\ sessionEpochs'[u] \in Nat
        /\ \A u \in Admins : sessionEpochs[u] <= sessionEpochs'[u]
        /\ p => sessionEpochs'[req[r].user] = sessionEpochs[req[r].user] + 1
    BY <1>9, <1>0, <1>f
       DEF ChangeBump, bumpUserEpoch, TypeOK, SessionTypeOK, Request, Requests
  <2>5. \A t \in issued \cup killed : t.User \in Admins /\ t.Epoch \in Nat
    BY <1>0 DEF TypeOK, SessionTypeOK, Token
  <2>6. NoTokenAhead' /\ KilledOvertaken'
    BY <2>1, <2>4, <2>5 DEF IInv, NoTokenAhead, KilledOvertaken
  <2>7. BeforeIssued'
    BY <2>1, <2>2 DEF IInv, BeforeIssued
  <2>8. BumpedKills'
    <3> SUFFICES ASSUME NEW q \in Requests, req'[q].stage \in {"bumped", "copied"},
                        NEW t \in req'[q].before
                 PROVE  t.Epoch < sessionEpochs'[t.User]
      BY DEF BumpedKills
    <3>1. CASE q = r
      <4>1. p /\ t \in issued /\ t.User = req[r].user
        BY <2>2, <3>1 DEF IInv, BeforeIssued, Requests
      <4>2. t.Epoch <= sessionEpochs[t.User]
        BY <4>1 DEF IInv, NoTokenAhead
      <4> QED BY <2>4, <2>5, <4>1, <4>2
    <3>2. CASE q # r
      <4>1. t \in req[q].before /\ req[q].stage \in {"bumped", "copied"}
        BY <2>2, <3>2
      <4>2. t.Epoch < sessionEpochs[t.User] /\ t \in issued
        BY <4>1 DEF IInv, BumpedKills, BeforeIssued
      <4> QED BY <2>4, <2>5, <4>2
    <3> QED BY <3>1, <3>2
  <2>9. LogoutRecorded'
    BY <2>1 DEF IInv, LogoutRecorded
  <2> QED
    BY <1>0, <2>3, <2>6, <2>7, <2>8, <2>9 DEF IInv, EpochsOnDisk
<1>10. ASSUME NEW r \in Changers, ChangeCopy(r)
       PROVE  IInv'
  BY <1>0, <1>10, <1>f, QuietStep DEF ChangeCopy, history, Requests, Request
<1>11. ASSUME NEW r \in Changers, ChangeSave(r)
       PROVE  IInv'
  <2>1. /\ UNCHANGED sessionVars
        /\ UNCHANGED loggedOut
        /\ killed' = killed \cup req[r].before
    BY <1>11 DEF ChangeSave
  <2>2. \A q \in Requests :
          \/ req'[q].before = {} /\ req'[q].stage \notin {"bumped", "copied"}
          \/ /\ req'[q].before = req[q].before
             /\ req'[q].user = req[q].user
             /\ req'[q].stage = req[q].stage
    BY <1>11, <1>f DEF ChangeSave, Request
  <2>3. \A t \in req[r].before : t.Epoch < sessionEpochs[t.User]
    BY <1>11 DEF ChangeSave, IInv, BumpedKills, Requests
  <2>4. KilledOvertaken'
    BY <2>1, <2>3 DEF IInv, sessionVars, KilledOvertaken
  <2>5. EpochsOnDisk' /\ NoTokenAhead' /\ LogoutRecorded'
    BY <2>1 DEF IInv, sessionVars, EpochsOnDisk, NoTokenAhead, LogoutRecorded
  <2>6. BeforeIssued' /\ BumpedKills'
    BY <2>1, <2>2 DEF IInv, sessionVars, BeforeIssued, BumpedKills
  <2> QED
    BY <1>0, <2>4, <2>5, <2>6 DEF IInv
<1>12. ASSUME NEW r \in Changers, ChangeSaveFails(r)
       PROVE  IInv'
  BY <1>0, <1>12, <1>f, QuietStep DEF ChangeSaveFails, history, Requests, Request
<1>13. ASSUME NEW r \in Changers, ChangeRollback(r)
       PROVE  IInv'
  BY <1>0, <1>13, <1>f, QuietStep DEF ChangeRollback, history, Requests
<1>14. CASE CrashRestart
  <2>1. /\ sessionEpochs' = sessionEpochs
        /\ sessionEpochsFile' = sessionEpochs
        /\ revokedTokens' = Unexpired(revokedTokensFile)
        /\ UNCHANGED <<now, revokedTokensFile, issued, killed, loggedOut>>
        /\ req' = [r \in Requests |-> Idle]
    BY <1>14 DEF CrashRestart, initAuth, loadSessionState, IInv, EpochsOnDisk, history
  <2>2. EpochsOnDisk' /\ NoTokenAhead' /\ KilledOvertaken'
    BY <2>1 DEF IInv, EpochsOnDisk, NoTokenAhead, KilledOvertaken
  <2>3. BeforeIssued' /\ BumpedKills'
    BY <2>1, <1>f DEF BeforeIssued, BumpedKills
  <2>4. \A t \in loggedOut : t.Exp \in Nat /\ now \in Nat
    BY <1>0 DEF TypeOK, SessionTypeOK, Token
  <2>5. LogoutRecorded'
    BY <2>1, <2>4 DEF IInv, LogoutRecorded, Unexpired
  <2> QED
    BY <1>0, <2>2, <2>3, <2>5 DEF IInv
<1>15. CASE ClockTick
  <2>1. /\ now' = now + 1
        /\ UNCHANGED <<sessionEpochs, sessionEpochsFile, revokedTokens,
                       revokedTokensFile, issued, req, killed, loggedOut>>
    BY <1>15 DEF ClockTick, Tick, history
  <2>2. now \in Nat /\ \A t \in loggedOut : t.Exp \in Nat
    BY <1>0 DEF TypeOK, SessionTypeOK, Token
  <2>3. LogoutRecorded'
    BY <2>1, <2>2 DEF IInv, LogoutRecorded
  <2> QED
    BY <1>0, <2>1, <2>3
       DEF IInv, EpochsOnDisk, NoTokenAhead, BeforeIssued, BumpedKills, KilledOvertaken
<1>16. CASE UNCHANGED vars
  BY <1>0, <1>16, QuietStep DEF vars, history
<1> QED
  BY <1>1, <1>2, <1>3, <1>4, <1>5, <1>6, <1>7, <1>8, <1>9, <1>10, <1>11, <1>12,
     <1>13, <1>14, <1>15, <1>16 DEF Next, LoginStep, LogoutStep, ChangeStep

\* It holds in every reachable state.
LEMMA Inductive == Spec => []IInv
BY InitIInv, NextIInv, PTL DEF Spec

-----------------------------------------------------------------------------
(* What follows *)

\* No session that existed when a reported password change took effect is
\* accepted again, for any number of concurrent requests, failed writes and
\* crashes (adminChangePasswordHandler, bumpUserEpoch, initAuth).
THEOREM KilledNeverAccepted == Spec => []KilledStayDead
<1>1. IInv => KilledStayDead
  <2> SUFFICES ASSUME IInv, NEW t \in killed PROVE t.Epoch # sessionEpochs[t.User]
    BY DEF KilledStayDead, verifySessionPayload
  <2>1. t.Epoch \in Nat /\ sessionEpochs[t.User] \in Nat
    BY DEF IInv, TypeOK, SessionTypeOK, Token
  <2> QED
    BY <2>1 DEF IInv, KilledOvertaken
<1> QED
  BY <1>1, Inductive, PTL

\* A recorded logout is final, whatever the blacklist's cap and the lifetime
\* of sessions (revokeToken, loadRevokedTokens).
THEOREM LogoutIsFinal == Spec => []LogoutFinal
<1>1. IInv => LogoutFinal
  <2> SUFFICES ASSUME IInv, NEW t \in loggedOut
               PROVE  ~(now <= t.Exp /\ t \notin revokedTokens)
    BY DEF LogoutFinal, verifySessionPayload
  <2>1. t.Exp \in Nat /\ now \in Nat
    BY DEF IInv, TypeOK, SessionTypeOK, Token
  <2> QED
    BY <2>1 DEF IInv, LogoutRecorded
<1> QED
  BY <1>1, Inductive, PTL

\* No step revives a session that is dead for a durable reason: an expired
\* one, one from an earlier epoch, or one that a logout recorded on disk.
THEOREM DeadSessionsStayDead == Spec => DeadStaysDead
<1>1. IInv /\ IInv' /\ [Next]_vars => [NoStepRevives]_vars
  <2> SUFFICES ASSUME IInv, IInv', [Next]_vars, NEW t \in issued, DurablyDead(t)
               PROVE  DurablyDead(t)'
    BY DEF NoStepRevives
  <2>1. /\ t \in Token /\ t.Exp \in Nat /\ t.Epoch \in Nat /\ t.User \in Admins
        /\ now \in Nat /\ now' \in Nat
        /\ sessionEpochs \in [Admins -> Nat] /\ sessionEpochs' \in [Admins -> Nat]
        /\ req \in [Requests -> Request]
    BY DEF IInv, TypeOK, SessionTypeOK, Token
  <2>2. sessionEpochs[t.User] \in Nat /\ sessionEpochs'[t.User] \in Nat
    BY <2>1
  <2>3. t.Epoch <= sessionEpochs[t.User]
    BY DEF IInv, NoTokenAhead
  \* Time and epochs never run backwards ...
  <2>4. now <= now' /\ sessionEpochs[t.User] <= sessionEpochs'[t.User]
    <3>1. ASSUME NEW r \in Changers, NEW p \in BOOLEAN, ChangeBump(r, p)
          PROVE  now' = now /\ sessionEpochs[t.User] <= sessionEpochs'[t.User]
      BY <2>1, <2>2, <3>1 DEF ChangeBump, bumpUserEpoch, Request, Requests
    <3>2. CASE CrashRestart
      BY <2>1, <2>2, <3>2
         DEF CrashRestart, initAuth, loadSessionState, IInv, EpochsOnDisk
    <3>3. CASE ClockTick
      BY <2>1, <2>2, <3>3 DEF ClockTick, Tick
    <3>4. (UNCHANGED <<now, sessionEpochs>>) =>
            now <= now' /\ sessionEpochs[t.User] <= sessionEpochs'[t.User]
      BY <2>1, <2>2
    <3>5. ASSUME NEW r \in Changers,
                 \/ \E s \in issued : ChangeAuthenticate(r, s)
                 \/ ChangeValidate(r)
                 \/ ChangeReject(r)
                 \/ ChangeCommit(r)
                 \/ ChangeCopy(r)
                 \/ ChangeSave(r)
                 \/ ChangeSaveFails(r)
                 \/ ChangeRollback(r)
          PROVE  UNCHANGED <<now, sessionEpochs>>
      BY <3>5 DEF ChangeAuthenticate, ChangeValidate, ChangeReject, ChangeCommit,
                  ChangeCopy, ChangeSave, ChangeSaveFails, ChangeRollback, sessionVars
    <3>6. CASE LoginStep \/ LogoutStep
      BY <3>4, <3>6 DEF LoginStep, LogoutStep, LoginValidate, LoginSign, LogoutVerify,
                        LogoutRevoke, sessionVars
    <3>7. CASE UNCHANGED vars
      BY <3>4, <3>7 DEF vars, sessionVars
    <3>8. CASE ChangeStep
      BY <2>1, <3>1, <3>4, <3>5, <3>8 DEF ChangeStep
    <3> QED
      BY <3>2, <3>3, <3>6, <3>7, <3>8 DEF Next
  \* ... and only expiry takes a token off the blacklist.
  <2>5. ASSUME t \in revokedTokens, t \in revokedTokensFile, now <= t.Exp
        PROVE  t \in revokedTokens' /\ t \in revokedTokensFile'
    <3>1. ASSUME NEW r \in Logouters, NEW p \in BOOLEAN, LogoutRevoke(r, p)
          PROVE  t \in revokedTokens' /\ t \in revokedTokensFile'
      <4>1. t \in Unexpired(revokedTokens)
        BY <2>5 DEF Unexpired
      <4> QED
        BY <2>5, <3>1, <4>1 DEF LogoutRevoke, revokeToken
    <3>2. CASE CrashRestart
      BY <2>5, <3>2 DEF CrashRestart, initAuth, loadSessionState, Unexpired
    <3>3. CASE ClockTick \/ UNCHANGED vars
      BY <2>5, <3>3 DEF ClockTick, Tick, vars, sessionVars
    <3>4. CASE LoginStep
      BY <2>5, <3>4 DEF LoginStep, LoginValidate, LoginSign, sessionVars
    <3>5. CASE ChangeStep
      BY <2>5, <3>5
         DEF ChangeStep, ChangeAuthenticate, ChangeValidate, ChangeReject,
             ChangeCommit, ChangeBump, ChangeCopy, ChangeSave, ChangeSaveFails,
             ChangeRollback, sessionVars
    <3>6. CASE LogoutStep
      BY <2>5, <3>1, <3>6 DEF LogoutStep, LogoutVerify, sessionVars
    <3> QED
      BY <3>2, <3>3, <3>4, <3>5, <3>6 DEF Next
  <2> QED
    BY <2>1, <2>2, <2>3, <2>4, <2>5 DEF DurablyDead
<1>2. Spec => [][NoStepRevives]_vars
  BY <1>1, Inductive, PTL DEF Spec
<1> QED
  BY <1>2 DEF DeadStaysDead

-----------------------------------------------------------------------------
(* Passwords and the forced-change gate *)

\* Password changes are handled one at a time.  The next two theorems need it:
\* two changes that overlap can put a password back that the other one replaced
\* (README, "Where the code falls short").
OneChanger == \A r, o \in Changers : r = o

\* The stages between the commit in memory and the write of the file.
Unsaved == {"committed", "bumped", "copied", "rollback"}

\* Memory is what a restart would load.
Settled ==
    /\ htpasswdUsers = LoadedTable
    /\ adminPasswordMustChange = (adminHtpasswd = NoTable)

\* A new password is neither the temporary nor the provisioned one.
NewHashes ==
    /\ lastHash >= OperatorHash
    /\ \A r \in Changers : req[r].stage \in Unsaved \cup {"validated"} =>
         req[r].hash > OperatorHash

\* A change that validated a password found an account.
AccountFound ==
    \A r \in Changers : req[r].stage = "validated" => adminUserExists(req[r].user)

\* What a change in progress would put back is what a restart would load, and
\* the table it is about to write is the one in memory.
RollbackSettles ==
    \A r \in Changers : req[r].stage \in Unsaved =>
        /\ [htpasswdUsers EXCEPT ![req[r].user] = req[r].prevHash] = LoadedTable
        /\ req[r].prevMustChange = (adminHtpasswd = NoTable)
        /\ req[r].prevHash # NoHash
        /\ htpasswdUsers[req[r].user] = req[r].hash
        /\ adminPasswordMustChange = FALSE
        /\ req[r].stage = "copied" => req[r].copy = htpasswdUsers

\* The temporary password never reaches the file, where it would survive a
\* restart without the gate.
TempNeverSaved == adminHtpasswd[DefaultAdmin] # TempHash

GateInv ==
    /\ NewHashes
    /\ AccountFound
    /\ RollbackSettles
    /\ TempNeverSaved
    /\ (\A r \in Changers : req[r].stage \notin Unsaved) => Settled

\* Init establishes it.
LEMMA InitGateInv == Init => GateInv
<1> SUFFICES ASSUME Init PROVE GateInv
  OBVIOUS
<1>1. \A r \in Changers : req[r].stage = "idle"
  BY DEF Init, Idle, Requests
<1>2. NewHashes /\ AccountFound /\ RollbackSettles
  BY <1>1 DEF Init, NewHashes, AccountFound, RollbackSettles, Unsaved, OperatorHash
<1>3. [u \in Admins |-> OperatorHash] # NoTable
  <2>1. [u \in Admins |-> OperatorHash][DefaultAdmin] # NoTable[DefaultAdmin]
    BY AdminAssumption DEF NoTable, NoHash, OperatorHash
  <2> QED
    BY <2>1
<1>4. TempNeverSaved
  BY AdminAssumption DEF Init, TempNeverSaved, NoTable, NoHash, TempHash, OperatorHash
<1>5. Settled
  BY <1>3, Zenon DEF Init, Settled, LoadedTable
<1> QED
  BY <1>2, <1>4, <1>5 DEF GateInv

\* A step that leaves the passwords alone, and moves no change except one that
\* has not validated anything, preserves it.
LEMMA QuietGate ==
    ASSUME GateInv, UNCHANGED credVars,
           \A r \in Changers :
             \/ req'[r] = req[r]
             \/ /\ req[r].stage \notin Unsaved
                /\ req'[r].stage \in {"idle", "authenticated"}
    PROVE  GateInv'
<1>1. NewHashes' /\ AccountFound' /\ TempNeverSaved'
  BY DEF GateInv, credVars, NewHashes, AccountFound, TempNeverSaved, Unsaved, adminUserExists
<1>2. RollbackSettles'
  BY DEF GateInv, credVars, RollbackSettles, Unsaved, LoadedTable
<1>3. Settled => Settled'
  BY DEF credVars, Settled, LoadedTable
<1>4. (\A r \in Changers : req'[r].stage \notin Unsaved) =>
         (\A r \in Changers : req[r].stage \notin Unsaved)
  OBVIOUS
<1> QED
  BY <1>1, <1>2, <1>3, <1>4 DEF GateInv

\* In a state of the invariant, the default admin has the temporary password
\* only while the gate is up.
LEMMA TempMeansGate ==
    ASSUME TypeOK, GateInv, htpasswdUsers[DefaultAdmin] = TempHash
    PROVE  adminPasswordMustChange /\ \A r \in Changers : req[r].stage \notin Unsaved
<1>1. ASSUME LoadedTable[DefaultAdmin] = TempHash
      PROVE  adminHtpasswd = NoTable /\ LoadedTable = TempTable
  BY <1>1 DEF LoadedTable, GateInv, TempNeverSaved
<1>2. ASSUME NEW r \in Changers, req[r].stage \in Unsaved
      PROVE  FALSE
  <2> DEFINE u == req[r].user
  <2>1. u \in Admins /\ htpasswdUsers \in [Admins -> Nat] /\ req[r].prevHash # NoHash
    BY <1>2 DEF TypeOK, Requests, Request, Table, Hash, GateInv, RollbackSettles
  <2>2. LoadedTable = [htpasswdUsers EXCEPT ![u] = req[r].prevHash]
    BY <1>2 DEF GateInv, RollbackSettles
  <2>3. u # DefaultAdmin
    BY <1>2 DEF GateInv, RollbackSettles, NewHashes, TempHash, OperatorHash
  <2>4. LoadedTable[DefaultAdmin] = TempHash /\ LoadedTable[u] # NoHash
    BY <2>1, <2>2, <2>3, AdminAssumption
  <2>5. TempTable[u] = NoHash
    BY <2>1, <2>3 DEF TempTable, NoTable
  <2> QED
    BY <1>1, <2>4, <2>5
<1>3. Settled
  BY <1>2 DEF GateInv
<1> QED
  BY <1>1, <1>2, <1>3 DEF Settled

\* Every step preserves it when changes are handled one at a time.
LEMMA NextGateInv ==
    ASSUME OneChanger, TypeOK, GateInv, [Next]_vars
    PROVE  GateInv'
<1>0. \A r \in Requests : req[r] \in Request
  BY DEF TypeOK
<1>1. ASSUME NEW r \in Loginers,
             (\E u \in Admins : LoginValidate(r, u)) \/ LoginSign(r)
      PROVE  GateInv'
  <2>1. UNCHANGED credVars /\ \A o \in Changers : req'[o] = req[o]
    BY <1>1, AdminAssumption DEF LoginValidate, LoginSign, TypeOK, Requests
  <2> QED
    BY <2>1, QuietGate
<1>2. ASSUME NEW r \in Logouters,
             \/ \E t \in issued : LogoutVerify(r, t)
             \/ \E p \in BOOLEAN : LogoutRevoke(r, p)
      PROVE  GateInv'
  <2>1. UNCHANGED credVars /\ \A o \in Changers : req'[o] = req[o]
    BY <1>2, AdminAssumption DEF LogoutVerify, LogoutRevoke, TypeOK, Requests
  <2> QED
    BY <2>1, QuietGate
<1>3. ASSUME NEW r \in Changers,
             (\E t \in issued : ChangeAuthenticate(r, t)) \/ ChangeReject(r)
      PROVE  GateInv'
  <2>1. UNCHANGED credVars /\ req[r].stage \notin Unsaved
    BY <1>3 DEF ChangeAuthenticate, ChangeReject, Unsaved
  <2>2. req'[r].stage \in {"idle", "authenticated"}
    <3>1. ASSUME NEW t \in issued, ChangeAuthenticate(r, t)
          PROVE  req'[r].stage = "authenticated"
      BY <3>1 DEF ChangeAuthenticate, TypeOK, Requests, Idle
    <3>2. ASSUME ChangeReject(r)
          PROVE  req'[r].stage = "idle"
      BY <3>2 DEF ChangeReject, TypeOK, Requests, Idle
    <3> QED
      BY <1>3, <3>1, <3>2
  <2>3. \A o \in Changers : o = r
    BY DEF OneChanger
  <2> QED
    BY <2>1, <2>2, <2>3, QuietGate
<1>4. ASSUME NEW r \in Changers, ChangeValidate(r)
      PROVE  GateInv'
  <2>1. /\ req[r].stage = "authenticated" /\ adminUserExists(req[r].user)
        /\ lastHash' = lastHash + 1
        /\ UNCHANGED <<htpasswdUsers, adminHtpasswd, adminPasswordMustChange>>
    BY <1>4 DEF ChangeValidate
  <2>2. req'[r] = [req[r] EXCEPT !.stage = "validated", !.hash = lastHash + 1]
    BY <1>4 DEF ChangeValidate, TypeOK, Requests
  <2>3. /\ req'[r].stage = "validated" /\ req'[r].hash = lastHash + 1
        /\ req'[r].user = req[r].user
    BY <1>0, <2>2 DEF Request, Requests
  <2>4. \A o \in Changers : o = r
    BY DEF OneChanger
  <2>5. NewHashes' /\ AccountFound' /\ RollbackSettles'
    BY <2>1, <2>3, <2>4
       DEF GateInv, NewHashes, AccountFound, RollbackSettles, Unsaved, OperatorHash,
           TypeOK, adminUserExists
  <2>6. Settled
    BY <2>1, <2>4 DEF GateInv, Unsaved
  <2> QED
    BY <2>1, <2>5, <2>6 DEF GateInv, Settled, TempNeverSaved, LoadedTable
<1>5. ASSUME NEW r \in Changers, ChangeCommit(r)
      PROVE  GateInv'
  <2> DEFINE u == req[r].user
  <2>1. /\ req[r].stage = "validated" /\ u \in Admins
        /\ htpasswdUsers' = [htpasswdUsers EXCEPT ![u] = req[r].hash]
        /\ adminPasswordMustChange' = FALSE
        /\ UNCHANGED <<adminHtpasswd, lastHash>>
    BY <1>0, <1>5 DEF ChangeCommit, Requests, Request
  <2>2. /\ req'[r].stage = "committed" /\ req'[r].user = u
        /\ req'[r].hash = req[r].hash
        /\ req'[r].prevHash = htpasswdUsers[u]
        /\ req'[r].prevMustChange = adminPasswordMustChange
    BY <1>0, <1>5 DEF ChangeCommit, TypeOK, Requests, Request
  <2>3. \A o \in Changers : o = r
    BY DEF OneChanger
  <2>4. Settled
    BY <2>1, <2>3 DEF GateInv, Unsaved
  <2>5. htpasswdUsers \in [Admins -> Nat] /\ htpasswdUsers[u] # NoHash
    BY <2>1 DEF TypeOK, Table, Hash, GateInv, AccountFound, adminUserExists
  <2>6. [htpasswdUsers' EXCEPT ![u] = htpasswdUsers[u]] = htpasswdUsers
    BY <2>1, <2>5
  <2>7. htpasswdUsers'[u] = req[r].hash /\ LoadedTable' = LoadedTable
    BY <2>1, <2>5 DEF LoadedTable
  <2>8. RollbackSettles'
    BY <2>1, <2>2, <2>3, <2>4, <2>5, <2>6, <2>7 DEF RollbackSettles, Settled, Unsaved
  <2>9. NewHashes' /\ AccountFound' /\ TempNeverSaved'
    BY <2>1, <2>2, <2>3
       DEF GateInv, NewHashes, AccountFound, TempNeverSaved, Unsaved
  <2>10. ~(\A o \in Changers : req'[o].stage \notin Unsaved)
    BY <2>2 DEF Unsaved
  <2> QED
    BY <2>8, <2>9, <2>10 DEF GateInv
<1>6. ASSUME NEW r \in Changers,
             \/ \E p \in BOOLEAN : ChangeBump(r, p)
             \/ ChangeCopy(r)
             \/ ChangeSaveFails(r)
      PROVE  GateInv'
  <2>1. UNCHANGED credVars /\ req[r].stage \in Unsaved
    BY <1>6 DEF ChangeBump, ChangeCopy, ChangeSaveFails, Unsaved
  <2>2. /\ req'[r].stage \in Unsaved /\ req'[r].user = req[r].user
        /\ req'[r].hash = req[r].hash
        /\ req'[r].prevHash = req[r].prevHash
        /\ req'[r].prevMustChange = req[r].prevMustChange
        /\ req'[r].stage = "copied" => req'[r].copy = htpasswdUsers
    <3>1. ASSUME NEW p \in BOOLEAN, ChangeBump(r, p)
          PROVE  req'[r] = [req[r] EXCEPT !.stage = IF p THEN "bumped" ELSE "rollback"]
      BY <3>1 DEF ChangeBump, TypeOK, Requests
    <3>2. ASSUME ChangeCopy(r)
          PROVE  req'[r] = [req[r] EXCEPT !.stage = "copied", !.copy = htpasswdUsers]
      BY <3>2 DEF ChangeCopy, TypeOK, Requests
    <3>3. ASSUME ChangeSaveFails(r)
          PROVE  req'[r] = [req[r] EXCEPT !.stage = "rollback"]
      BY <3>3 DEF ChangeSaveFails, TypeOK, Requests
    <3> QED
      BY <1>0, <1>6, <3>1, <3>2, <3>3 DEF Request, Requests, Unsaved
  <2>3. \A o \in Changers : o = r
    BY DEF OneChanger
  <2>4. RollbackSettles'
    BY <2>1, <2>2, <2>3 DEF GateInv, RollbackSettles, credVars, LoadedTable
  <2>5. NewHashes' /\ AccountFound' /\ TempNeverSaved'
    BY <2>1, <2>2, <2>3
       DEF GateInv, NewHashes, AccountFound, TempNeverSaved, Unsaved, credVars
  <2> QED
    BY <2>2, <2>4, <2>5 DEF GateInv
<1>7. ASSUME NEW r \in Changers, ChangeSave(r)
      PROVE  GateInv'
  <2>1. /\ req[r].stage = "copied" /\ adminHtpasswd' = req[r].copy
        /\ UNCHANGED <<htpasswdUsers, adminPasswordMustChange, lastHash>>
    BY <1>7 DEF ChangeSave
  <2>2. req'[r].stage = "idle"
    BY <1>7 DEF ChangeSave, TypeOK, Requests, Idle
  <2>3. \A o \in Changers : o = r
    BY DEF OneChanger
  <2>4. /\ adminHtpasswd' = htpasswdUsers /\ adminPasswordMustChange = FALSE
        /\ htpasswdUsers[req[r].user] = req[r].hash
        /\ req[r].hash > OperatorHash
    BY <2>1 DEF GateInv, RollbackSettles, NewHashes, Unsaved
  <2>5. htpasswdUsers # NoTable
    BY <1>0, <2>4 DEF NoTable, NoHash, OperatorHash, Request, Requests
  <2>6. htpasswdUsers[DefaultAdmin] # TempHash
    BY <2>1, TempMeansGate DEF Unsaved
  <2>7. Settled' /\ TempNeverSaved'
    BY <2>1, <2>4, <2>5, <2>6 DEF Settled, LoadedTable, TempNeverSaved
  <2>8. NewHashes' /\ AccountFound' /\ RollbackSettles'
    BY <2>1, <2>2, <2>3 DEF GateInv, NewHashes, AccountFound, RollbackSettles, Unsaved
  <2> QED
    BY <2>7, <2>8 DEF GateInv
<1>8. ASSUME NEW r \in Changers, ChangeRollback(r)
      PROVE  GateInv'
  <2>1. /\ req[r].stage = "rollback"
        /\ htpasswdUsers' = [htpasswdUsers EXCEPT ![req[r].user] = req[r].prevHash]
        /\ adminPasswordMustChange' = req[r].prevMustChange
        /\ UNCHANGED <<adminHtpasswd, lastHash>>
    BY <1>8 DEF ChangeRollback
  <2>2. req'[r].stage = "idle"
    BY <1>8 DEF ChangeRollback, TypeOK, Requests, Idle
  <2>3. \A o \in Changers : o = r
    BY DEF OneChanger
  <2>4. Settled'
    BY <2>1 DEF GateInv, RollbackSettles, Unsaved, Settled, LoadedTable
  <2>5. NewHashes' /\ AccountFound' /\ RollbackSettles' /\ TempNeverSaved'
    BY <2>1, <2>2, <2>3
       DEF GateInv, NewHashes, AccountFound, RollbackSettles, TempNeverSaved, Unsaved
  <2> QED
    BY <2>4, <2>5 DEF GateInv
<1>9. CASE CrashRestart
  <2>1. /\ htpasswdUsers' = LoadedTable
        /\ adminPasswordMustChange' = (adminHtpasswd = NoTable)
        /\ UNCHANGED <<adminHtpasswd, lastHash>>
        /\ \A r \in Changers : req'[r].stage = "idle"
    BY <1>9 DEF CrashRestart, initAuth, Requests, Idle
  <2>2. Settled' /\ TempNeverSaved'
    BY <2>1 DEF Settled, LoadedTable, GateInv, TempNeverSaved
  <2>3. NewHashes' /\ AccountFound' /\ RollbackSettles'
    BY <2>1 DEF GateInv, NewHashes, AccountFound, RollbackSettles, Unsaved
  <2> QED
    BY <2>2, <2>3 DEF GateInv
<1>10. CASE ClockTick \/ UNCHANGED vars
  <2>1. UNCHANGED credVars /\ \A o \in Changers : req'[o] = req[o]
    BY <1>10 DEF ClockTick, vars
  <2> QED
    BY <2>1, QuietGate
<1> QED
  BY <1>1, <1>2, <1>3, <1>4, <1>5, <1>6, <1>7, <1>8, <1>9, <1>10
     DEF Next, LoginStep, LogoutStep, ChangeStep

\* It holds in every reachable state.
LEMMA GateInductive ==
    ASSUME OneChanger
    PROVE  Spec => [](TypeOK /\ GateInv)
<1>1. TypeOK /\ GateInv /\ [Next]_vars => TypeOK' /\ GateInv'
  BY NextTypeOK, NextGateInv
<1> QED
  BY <1>1, InitTypeOK, InitGateInv, PTL DEF Spec

\* With one password change at a time, the default admin is never let past the
\* allowlist on the temporary password: not while a change is being saved, not
\* after one that failed, and not after a restart at any point
\* (adminChangePasswordHandler's roll back, initAuth, requireAuth).
THEOREM TempPasswordIsGated ==
    ASSUME OneChanger
    PROVE  Spec => []TempPasswordGated
<1>1. TypeOK /\ GateInv => TempPasswordGated
  BY TempMeansGate DEF TempPasswordGated, requireAuth, passwordChangeAllowed
<1> QED
  BY <1>1, GateInductive, PTL

\* With one password change at a time, no reported change is reverted by a
\* restart and none that was refused takes effect later, for any number of
\* changes, failed writes and crashes (saveAdminHtpasswd, initAuth).
THEOREM RestartLoadsLivePasswords ==
    ASSUME OneChanger
    PROVE  Spec => []RestartKeepsPasswords
<1>1. GateInv => RestartKeepsPasswords
  BY DEF GateInv, Unsaved, Settled, RestartKeepsPasswords
<1> QED
  BY <1>1, GateInductive, PTL

=============================================================================
