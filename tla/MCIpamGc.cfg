SPECIFICATION GcSpec
CONSTANTS
    n1 = n1 n2 = n2
    s1 = s1 s2 = s2
    web = web
    Hosts = {n1, n2}
    Handles = {s1, s2}
    HostOf <- MCHostOf
    Pods = {web}
    PodOf <- MCPodOf
    NBlocks = 1
    Slots = {1}
    Procs = {p1, gc}
    Janitors = {gc}
    Gc = gc
    Mortal = {n1}
    Fragile = {s2}
    Retries = 10
    MaxAbandons = 1
    Absent = Absent
    Free = Free
    None = None
INVARIANTS AddressesSurviveGc
PROPERTIES CoveredOrphansReclaimed
CHECK_DEADLOCK FALSE
