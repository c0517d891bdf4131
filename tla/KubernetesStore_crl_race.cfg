\* A revocation and the renewal (or another revocation) at the same time; nothing fails.
CONSTANTS
    Users = {"u1"}
    Ccds = {"c1"}
    CertReqs = {q1, q2}
    CcdReqs = {}
    MaxSerials = 1
    MaxRequests = 2
    MaxFailures = 0
    MaxCrashes = 0
SPECIFICATION Spec
INVARIANT WithdrawnNotUsable
CHECK_DEADLOCK FALSE
