\* A kill beside a status poll; connections break and the loop is switched off and on.
CONSTANTS
    Users = {u1}
    Killers = {k1}
    Pollers = {p1}
    MaxConns = 2
    MaxGens = 2
    MaxAuths = 0
    MaxStalls = 0
SPECIFICATION Spec
INVARIANTS TerminationConfirmed SnapshotCurrent
