SPECIFICATION Spec
CONSTANTS
    n1 = n1 n2 = n2
    s1 = s1 s2 = s2 s3 = s3
    Hosts = {n1, n2}
    Handles = {s1, s2, s3}
    HostOf <- MCHostOf
    NBlocks = 2
    Slots = {1, 2}
    Procs = {p1, p2}
    Janitors = {}
    Retries = 3
    MaxAbandons = 1
    Absent = Absent
    Free = Free
    None = None
SYMMETRY Symmetry
INVARIANTS TypeOK CopiesCurrent HeldIsLeased StrictAffinity OwnerIsConfirmed HandleCoversLeases GoneIsReleased
PROPERTIES LeaseSpec
CHECK_DEADLOCK FALSE
