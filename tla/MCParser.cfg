SPECIFICATION Spec
CONSTANTS
    Sources <- MCSources
    Programs <- DocumentedPrograms
    Strays <- MCStrays
INVARIANTS
    StaysInside
    ReadAsWritten
    DocumentedAccepted
PROPERTY Terminates
CHECK_DEADLOCK FALSE
