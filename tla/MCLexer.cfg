SPECIFICATION FairSpec
CONSTANTS
    NUL = NUL
    Sources <- MCSources
    Beyonds <- MCBeyonds
    Digits <- MCDigits
    Letters <- MCLetters
    Keywords <- MCKeywords
INVARIANTS TypeOK StaysInSource LongestLexemes PlaceKnown
PROPERTY Terminates
CHECK_DEADLOCK FALSE
