SPECIFICATION Spec
CONSTANTS
    l = l
    Keys <- MCKeys
    Values <- MCValues
    Preset <- MCPreset
    Specs <- MCSpecs
    Labels = {l}
    Work <- MCWork
    Clients = {c1, c2}
    Kinds <- MCKinds
    MaxRevision = 3
    MaxDesyncs = 1
    Absent = Absent
    Nothing = Nothing
    Unset = Unset
    Garbage = Garbage
SYMMETRY Symmetry
INVARIANTS Converged InSyncIsEarned
PROPERTIES NoLostWrite
CHECK_DEADLOCK FALSE
