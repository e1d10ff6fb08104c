SPECIFICATION Spec
CONSTANTS
    m1 = m1
    m2 = m2
    r1 = r1
    r2 = r2
    r3 = r3
    s1 = s1
    Machines = {m1, m2}
    Requests = {r1, r2, r3}
    Deletes = {}
    StaticIps = {s1}
    PoolIps = {a1}
    UuidOf <- NamesNothing
    StaticOf <- NameFirstIp
    AsnBase = 10
    AsnCount = 2
    MayFail = {"lockexpiry", "commit"}
    MaxTries = 1
    Nobody = Nobody
SYMMETRY Symmetry
INVARIANTS Consistent
PROPERTIES AllocationNeverReplaced OnlyOwnerRemoves
CHECK_DEADLOCK FALSE
