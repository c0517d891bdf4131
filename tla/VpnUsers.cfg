\* One request after the other, with failing calls, a crash and clients coming and going.
CONSTANTS
    Users = {u1, u2}
    Reqs = {r1}
    MaxSerials = 3
    MaxRequests = 4
    MaxFailures = 1
    MaxLosses = 0
    MaxCrashes = 1
SPECIFICATION Spec
INVARIANTS CutOffStaysOff ActiveIsConnectable NeverDowngraded
PROPERTY ImplementsLifecycle
