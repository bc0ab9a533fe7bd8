SPECIFICATION Spec
CONSTANTS
    None = None
    NodeList <- MCNodeList
    Stopped = {"z"}
    Published <- MCPublished
    Gone = {"g"}
    Later = {"pool4"}
    Pools <- MCPools
    DefaultPool = "default"
    BlockOf <- MCBlockOf
    PodBlocks = {"b1"}
    PodNodes = {"z"}
    Underlay <- MCUnderlay
    Mac <- MCMac
    MaxAttempts = 2
    MaxFaults = 1
    MaxClaims = 1
INVARIANT AddressRecovered
PROPERTY OverlayConverges
