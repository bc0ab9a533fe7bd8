SPECIFICATION Spec
CONSTANTS
    Unset = Unset
    Pods <- MCPods
    NamespaceLabels <- MCNamespaceLabels
    AccountLabels <- MCAccountLabels
    NetworkSets <- MCNetworkSets
    Resources <- MCResources
    Traffic <- MCTraffic
    Rank <- MCRank
    Sanitized <- MCSanitized
    MaxInstalled = 2
CONSTRAINT OneOfTheFirst
INVARIANTS PoliciesStandApart
