SPECIFICATION Spec
CONSTANTS
    Absent = Absent
    p = p
    q = q
    r = r
    Keys <- AllKeys
    Values <- AllValues
    Preset <- MCPreset
    Hosts = {"h", "g"}
    Blocks = {"b1", "b2"}
    Handles = {"s", "t"}
    Procs = {p, q, r}
    HostOf <- MCHostOf
    HandleOf <- MCHandleOf
    Capacity = 1
    Configs <- MCConfigs
    JobsOf <- MCJobsOf
    MaxJobs = 3
SYMMETRY Twins
CHECK_DEADLOCK FALSE
INVARIANTS ConfirmedOwnsBlock IndexFollowsBlocks
