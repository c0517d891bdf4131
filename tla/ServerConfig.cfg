\* Two saves at once, with two failing steps and one crash.
CONSTANTS
    Reqs = {r1, r2}
    MaxPuts = 2
    MaxFailures = 2
    MaxCrashes = 1
SPECIFICATION FairSpec
INVARIANTS CopiesAgree RefusedNeverActive ReportedNotReverted
PROPERTY EndsUpRunning
CHECK_DEADLOCK FALSE
