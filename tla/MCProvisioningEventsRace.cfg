\* Two calls at a time, up to the first irregularity they lead to.
CONSTANTS
    Calls = {c1, c2}
    MaxEvents = 2
    Threshold = 1
    MaxClock = 1
    MaxIrregular = 0
    Announcements = {"Machine Reclaim"}
    Skipped = {"Waiting"}
    Nothing = Nothing
SPECIFICATION Spec
SYMMETRY MCSymmetry
INVARIANTS Chronological NoFalseCrashLoop CrashLoopDetected
CHECK_DEADLOCK FALSE
