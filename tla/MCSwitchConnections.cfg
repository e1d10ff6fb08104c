SPECIFICATION Spec
CONSTANTS
    Switches = {s1, s2, s3}
    Machines = {m1, m2}
    Ports = {p, q}
    Calls = {a, b}
    Vrfs = {v1, v2}
    None = None
    Reports <- MCReports
    Scenarios <- MCScenarios
    MaxMishaps = 0
    s1 = s1
    s2 = s2
    s3 = s3
    m1 = m1
    m2 = m2
    p = p
    q = q
    v1 = v1
    v2 = v2
SYMMETRY Symmetry
INVARIANTS PortsSound TwoSwitches VrfsAgree
CHECK_DEADLOCK FALSE
