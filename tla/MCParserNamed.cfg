SPECIFICATION Spec
CONSTANTS
    Sources <- MCSources
    Programs <- NamedDeclarations
    Strays = {}
INVARIANT DocumentedAccepted
CHECK_DEADLOCK FALSE
