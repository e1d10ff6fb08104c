SPECIFICATION Spec
CONSTANTS
    Requests = {r1, r2}
    Tasks = {t1, t2}
    RootIds = {s, e, m, n}
    ChildIds = {c1, c2}
    Uuids = {u1}
    Prefixes = {P, Q, P1, P2, P11}
    Sub <- MCSub
    LengthOf <- MCLengthOf
    FamilyOf <- MCFamilyOf
    AddressesOf <- MCAddressesOf
    Vrfs <- MCVrfs
    RootRequests <- MCRootRequests
    ChildRequests <- MCChildRequests
    UpdateRequests <- MCUpdateRequests
    IpRequests <- MCIpRequests
    Scenarios <- MCScenarios
    NoProject = none
    None = None
    MaxTries = 2
    MaxMishaps = 0
    s = s
    e = e
    m = m
    n = n
    c1 = c1
    c2 = c2
    u1 = u1
    t2 = t2
    P = P
    Q = Q
    P1 = P1
    P2 = P2
    P11 = P11
    a = a
    b = b
    pr = pr
SYMMETRY Symmetry
INVARIANTS NetworksDisjoint VrfExclusive IpsBacked NothingLost
CHECK_DEADLOCK FALSE
