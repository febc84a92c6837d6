SPECIFICATION Spec
CONSTANTS
    None = None
    TREE <- MCTree
    Objects = {codegen, parser}
    MaxEdits = 2
    MaxScripts = 3
INVARIANTS FinishedInstallWorks LocalBuildWorks HomeHasRuntime
CHECK_DEADLOCK FALSE
