\* Everything at once, on a broker whose connection may go away at any time.
CONSTANTS
    Users = {u1}
    Killers = {k1}
    Pollers = {p1}
    MaxConns = 1
    MaxGens = 1
    MaxAuths = 1
    MaxStalls = 1
SPECIFICATION FairSpec
INVARIANT AnsweredOnce
PROPERTY NobodyWaitsOnTheDead
