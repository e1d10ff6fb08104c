SPECIFICATION Spec
CONSTANTS
    Users = {u, v}
    Provider = provider
    Methods <- MCMethods
    Visibility <- MCVisibility
    ProjectMethods <- MCProjectMethods
    TenantMethods <- MCTenantMethods
    MachineMethods <- MCMachineMethods
    InfraMethods <- MCInfraMethods
    AdminViewerMethods <- MCAdminViewer
    Manage = "tokens"
    Existing = {p, q, t, u, v, provider}
    MaxTokens = 3
    MaxKeys = 3
    MaxLife = 3
    CertLife = 4
    RenewBefore = 2
    CacheLife = 1
    Calls = {c1, c2}
    Replicas = {r1}
    Scenarios <- MCScenarios
    None = None
    Never = Never
    u = u
    v = v
    p = p
    q = q
    t = t
    absent = absent
SYMMETRY Symmetry
INVARIANTS TokensSound Forgotten Verifiable
PROPERTIES RightsBounded
CHECK_DEADLOCK FALSE
