SPECIFICATION ReportFairSpec
CONSTANTS
    FailErrorCount = 1
    TimeoutsPerPoint = 2
    MaxErrors = 2
    MaxScore = 3
\* main returns and the program ends.
CHECK_DEADLOCK FALSE
INVARIANTS
    StoppedRunFails
PROPERTIES
    FinalReportIsLast
    FinalReportComes
