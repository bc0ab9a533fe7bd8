SPECIFICATION IndexSpec
CONSTANTS
    Items = {"i", "j"}
    Parents = {"p", "q"}
    SelectorMatches <- MCMatches
    SelectorOf <- MCSelectorOf
    ItemUpdates <- MCItemUpdates
    ParentLabels <- MCParentLabels
INVARIANT MembersExact
