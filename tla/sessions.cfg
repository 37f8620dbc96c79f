SPECIFICATION Spec
CONSTANTS
    Users = {u1}
    Sessions = {s1, s2}
    Procs = {p1, p2}
    MaxSessions = 1
    TTL = 2
    MaxTime = 3
    MaxFaults = 1
SYMMETRY Symmetric
CONSTRAINT SomethingToSee
INVARIANTS
    TypeOK
    EndedStaysEnded
    IndexCovers
    AtMostMaxSessions
    LiveSessionHasToken
CHECK_DEADLOCK FALSE
