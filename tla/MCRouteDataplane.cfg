SPECIFICATION Spec
CONSTANTS
    a = a
    b = b
    Dsts = {"a", "a/32", "b/32", "junk"}
    Cidrs = {a, b}
    CidrOf <- MCCidrOf
    Malformed = Malformed
    Gateways = {g1, g2}
    Bad = Bad
    None = None
    Absent = Absent
    MinInterval = 1
    MaxMessages = 4
    MaxFaults = 2
    MaxRestarts = 1
INVARIANTS CleanMeansProgrammed
PROPERTIES RoutesConverge
CHECK_DEADLOCK FALSE
