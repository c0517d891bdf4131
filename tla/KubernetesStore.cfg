\* Operations on certificates one at a time, saves of CCDs at any time; one call fails
\* and one crash happens anywhere.
CONSTANTS
    Users = {"u1"}
    Ccds = {"c1"}
    CertReqs = {q1}
    CcdReqs = {w1}
    MaxSerials = 2
    MaxRequests = 4
    MaxFailures = 1
    MaxCrashes = 1
SPECIFICATION FairSpec
INVARIANTS ActiveIsConnectable CcdKept OneSecretPerUser
PROPERTIES ImplementsLifecycle CrlCatchesUp
CHECK_DEADLOCK FALSE
