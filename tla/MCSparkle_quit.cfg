\* One user and one Stop, on the main thread.
SPECIFICATION QuitSpec
CONSTANTS
    c1 = c1
    s1 = s1
    v1 = v1
    Callers = {c1}
    Stoppers = {s1}
    Versions = {v1}
    Reports <- SomeReports
    MaxOps = 2
    MaxTimers = 0
    NoVersion = NoVersion
    StopOnMain = TRUE
PROPERTIES
    StopReturns
CHECK_DEADLOCK FALSE
