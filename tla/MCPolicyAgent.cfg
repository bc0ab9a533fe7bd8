SPECIFICATION Spec
CONSTANTS
    p1 = p1 p2 = p2 f1 = f1 e1 = e1 e2 = e2 tA = tA tB = tB
    s1 = s1 s2 = s2 m1 = m1 m2 = m2 red = red blue = blue
    b0 = b0 b1 = b1 b2 = b2
    Policies = {p1, p2}
    Profiles = {f1}
    Endpoints = {e1, e2}
    Tiers = {tA, tB}
    IpSets = {s1, s2}
    Labels = {red, blue}
    Members = {m1, m2}
    Rules = {b0, b1, b2}
    SetsOf <- MCSetsOf
    Peers <- MCPeers
    Rank <- MCRank
    NoOrder = 1000
    NoLabel = NoLabel
    NoTier = NoTier
    Absent = Absent
    Kinds = {"policy", "profile", "endpoint", "tier"}
    Objects = {p1, p2, f1, e1, e2, tA}
    KindOf <- MCKindOf
    IdOf <- MCIdOf
    Specs <- MCSpecs
    Stores <- MCStores
    MaxChanges = 1
    MaxBreaks = 1
INVARIANTS TypeOK GraphCoherent TableFollowsGraph ReferencesResolve
PROPERTIES NoPartialTable Converges
CHECK_DEADLOCK FALSE
