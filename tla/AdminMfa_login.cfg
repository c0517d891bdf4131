\* Two second-factor logins at once; time runs past the TOTP window and past
\* the expiry of a challenge.
CONSTANTS
    Admins = {admin}
    Loginers = {l1, l2}
    Enrollers = {}
    NumBackupCodes = 1
    MaxFresh = 1
    MaxJti = 2
    MaxEpoch = 1
    MaxTime = 2
    sessionTTL = 2
    mfaTokenTTL = 1
    maxRevokedTokens = 1
SYMMETRY LoginSymmetry
SPECIFICATION Spec
INVARIANTS CodeAcceptedOnce LiveChallengeAnsweredOnce
