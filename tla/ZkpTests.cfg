CONSTANTS
    Start = 2
    End = 6
    Step = 2
    Q = 5
    NDash = 1
    M1Dash = 1
    M2Dash = 1
    Libraries = {"correct", "faulty"}
SPECIFICATION Spec
INVARIANTS
    TypeOK
    ReportConsistent
    EveryTestRuns
    CorrectLibraryPasses
    OneBadProofPerReversedList
CHECK_DEADLOCK FALSE
