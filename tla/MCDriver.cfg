SPECIFICATION Spec
CONSTANTS
    None = None
    Runs = {p1, p2}
    Faults = TRUE
    Jobs <- MCJobs
    Sources <- MCSources
SYMMETRY Symmetry
INVARIANTS SuccessMeansBuilt KeptOnRequest SourcesSurvive
CHECK_DEADLOCK FALSE
