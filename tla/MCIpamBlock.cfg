SPECIFICATION Spec
CONSTANTS
    Capacity = 3
    Handles = {h1, h2, h3}
    Owners = {pod}
    Free = Free
    MaxSeq = 5
    MaxTickets = 1
SYMMETRY Symmetry
INVARIANTS TypeOK FreeListExact SeqRecordsExact AttributesDistinct OutdatedTicketsRejected
PROPERTIES OwnersUndisturbed FreedGoesLast LeaseSpec
CHECK_DEADLOCK FALSE
