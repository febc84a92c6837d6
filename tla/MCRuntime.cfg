SPECIFICATION MCSpec
CONSTANTS
    None = None
    Handles = {h1, h2}
    Looped = h1
    Vars = {v}
    Files = {f}
    Contents <- MCContents
    Inputs <- MCInputs
    Writes <- MCWrites
    Slices <- MCSlices
    BufSize = 3
    MaxText = 3
    MaxMade = 2
INVARIANTS LinesMakeTheFile TextsStay ClosedIsSaved NothingUnasked SliceDocumented
PROPERTIES LoopsEnd
CHECK_DEADLOCK FALSE
