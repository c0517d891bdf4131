\* One enrolment request at a time, beside a login, lost files and crashes.
CONSTANTS
    Admins = {admin}
    Loginers = {l1}
    Enrollers = {e1}
    NumBackupCodes = 1
    MaxFresh = 4
    MaxJti = 0
    MaxEpoch = 3
    MaxTime = 1
    sessionTTL = 0
    mfaTokenTTL = 0
    maxRevokedTokens = 1
SPECIFICATION Spec
INVARIANTS EnrolmentNeverSilentlyLost KilledStayDead
