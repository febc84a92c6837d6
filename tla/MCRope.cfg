SPECIFICATION RopeFairSpec
CONSTANTS
    Chars = {"a", "b"}
    NUL = NUL
    Junk = Junk
    InitCap = 3
    MaxLen = 9
    Texts <- MCTexts
INVARIANTS RopeTypeOK InBounds Terminated
PROPERTIES PushEnds ImplementsText
CHECK_DEADLOCK FALSE
