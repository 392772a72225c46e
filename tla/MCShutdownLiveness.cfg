\* One session, two calls at a time, jobs tried twice, one fault.
CONSTANTS
    Sessions = {s1}
    Calls = {c1, c2}
    NoReport = NoReport
    MaxAttempts = 2
    MaxFaults = 1
SPECIFICATION FairSpec
PROPERTIES
    JobsGetDone
