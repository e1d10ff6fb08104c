SPECIFICATION FairSpec
CONSTANTS
    m1 = m1
    m2 = m2
    r1 = r1
    r2 = r2
    r3 = r3
    s1 = s1
    Machines = {m1}
    Requests = {r1, r2}
    Deletes = {d1}
    StaticIps = {}
    PoolIps = {a1}
    UuidOf <- NamesNothing
    StaticOf <- NamesNothing
    AsnBase = 10
    AsnCount = 2
    MayFail = {"networks", "push", "crash", "bmc", "ipwait"}
    MaxTries = 2
    Nobody = Nobody
INVARIANTS KeptUntilFreed
PROPERTIES OnlyOwnerRemoves CallsEnd
CHECK_DEADLOCK FALSE
