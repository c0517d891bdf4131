\* Edits, common routes, the switch and the life of two users, with one fault.
CONSTANTS
    d1 = d1
    d2 = d2
    a1 = a1
    Users = {u1, u2}
    Addrs = {a1}
    Domains = {d1, d2}
    Zone <- MCZone
    Nets = {}
    DefaultNets = {}
    Statics = {s1}
    Ids = {i1}
    Savers = {w1}
    Faulty = TRUE
    MaxOps = 3
SYMMETRY Symmetry
SPECIFICATION Spec
INVARIANTS PersonalKept StaticUnique AnswersBelong
PROPERTY DeletedStaysDeleted
CHECK_DEADLOCK FALSE
