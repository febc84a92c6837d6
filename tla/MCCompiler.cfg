SPECIFICATION Spec
CONSTANTS
    None = None
    PathMax = 4
    Names <- MCNames
    Cwd <- MCCwd
    Dirs <- MCDirs
    Home <- MCHome
    Main <- MCMain
    Trees <- MCTrees
    Aliases <- MCAliases
CHECK_DEADLOCK FALSE
INVARIANTS CallsReach SymbolsDistinct ImportedStructsFirst
