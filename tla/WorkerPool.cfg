\* The process ends with its threads
CHECK_DEADLOCK FALSE
CONSTANTS
    Count = 2
    Services = {a, b}
    MayLoop = {b}
    MaxSends = 2
    None = None
SPECIFICATION Spec
PROPERTIES EveryMessageIsRun StuckIsReported EveryThreadEnds ReportedIsRunning
