\* One call at a time, irregularities allowed; a container keeps two events.
CONSTANTS
    Calls = {c1}
    MaxEvents = 2
    Threshold = 1
    MaxClock = 2
    MaxIrregular = 4
    Announcements = {"Planned Reboot", "Machine Reclaim"}
    Skipped = {}
    Nothing = Nothing
SPECIFICATION Spec
INVARIANTS AliveOnlyAsFirst
PROPERTIES FailedReclaimDetected
CHECK_DEADLOCK FALSE
