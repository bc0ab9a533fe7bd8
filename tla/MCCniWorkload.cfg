SPECIFICATION Spec
CONSTANTS
    p = p
    q = q
    p1 = p1
    p2 = p2
    q1 = q1
    x = x
    Keys = {p, q}
    Sandboxes = {p1, p2, q1}
    PodOf <- MCPodOf
    Values <- MCValues
    Preset <- MCPreset
    Addresses = {x}
    Readable = {p1, q1}
    Adds <- MCAdds
    Dels <- MCDels
    MaxTouches = 1
    Absent = Absent
    Free = Free
INVARIANTS LivePodIntact AddressesBacked CleanedUp
CHECK_DEADLOCK FALSE
