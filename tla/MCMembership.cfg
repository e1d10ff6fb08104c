SPECIFICATION Spec
CONSTANTS
    Users = {a, b, d}
    Provider = provider
    OtherTenants = {other}
    ProjectIds = {p, q}
    Secrets = {x}
    Calls = {c1, c2}
    MaxRows = 7
    MaxMishaps = 1
    Requested = {"owner", "viewer", "unspecified"}
    Scenarios <- MCScenarios
    None = None
    Never = Never
    a = a
    b = b
    d = d
    other = other
    p = p
    q = q
SYMMETRY Symmetry
INVARIANTS HasOwner MembersAgree InvitesAgree
PROPERTIES OwnTenantKept
CHECK_DEADLOCK FALSE
