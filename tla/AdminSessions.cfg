\* One password change at a time, beside a login and two logouts, with
\* sessions that expire and a blacklist that holds one entry.
CONSTANTS
    Admins = {admin}
    DefaultAdmin = admin
    Loginers = {l1}
    Logouters = {o1, o2}
    Changers = {c1}
    sessionTTL = 1
    maxRevokedTokens = 1
    MaxTime = 2
    MaxHash = 3
SPECIFICATION Spec
INVARIANTS TypeOK KilledStayDead LogoutFinal TempPasswordGated RestartKeepsPasswords
PROPERTY DeadStaysDead
