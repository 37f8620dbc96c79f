SPECIFICATION Spec
CONSTANTS
    Users = {u1}
    Tokens = {t1, t2}
    Notes = {n1, n2}
    None = None
    MaxStalled = 1
    MaxCrashes = 2
INVARIANTS
    TypeOK
    LatestTokenKept
PROPERTIES
    DeliveryIsKept
CHECK_DEADLOCK FALSE
