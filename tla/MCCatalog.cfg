SPECIFICATION Spec
CONSTANTS
    Types = {"cores", "storage"}
    Globs <- MCGlobs
    Unknown = unknown
    None = None
    Ids <- MCIds
    Calls = {c1, c2}
    Projects = {"a", "b"}
    MachineIds = {"m1", "m2", "m3", "m4", "m5"}
    Hardwares <- MCHardwares
    Scenarios <- MCScenarios
INVARIANTS RowsSound OneSize LayoutsSound FreeIsAllocatable Balanced
PROPERTIES AllocationAllowed
CHECK_DEADLOCK FALSE
