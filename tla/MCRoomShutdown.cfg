\* Two sessions, two calls at a time, jobs tried twice, two faults.
CONSTANTS
    Sessions = {s1, s2}
    Calls = {c1, c2}
    NoReport = NoReport
    MaxAttempts = 2
    MaxFaults = 2
SPECIFICATION Spec
SYMMETRY Symmetry
INVARIANTS
    CloseReachesAll
    ReportIsComplete
    AnnouncedIsStored
    DeadReportExplained
