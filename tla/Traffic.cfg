\* Two sessions, two callers of setState, one failing step and one restart.
CONSTANTS
    Sessions = {s1, s2}
    Pollers = {p1, p2}
    MaxBytes = 2
    MaxFailures = 1
    MaxCrashes = 1
SPECIFICATION FairSpec
INVARIANTS TypeOK NeverOvercounted
PROPERTY CountedInTheEnd
