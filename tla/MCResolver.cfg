SPECIFICATION FairSpec
CONSTANTS
    None = None
    PathMax = 4
    Names <- MCNames
    Cwd <- MCCwd
    Dirs <- MCDirs
    Home <- MCHome
    Main <- MCMain
    Trees <- MCTrees
    Aliases <- MCAliases
INVARIANTS TypeOK EachDeclarationOnce CallableByItsAlias PlainFilesOnce
PROPERTIES DependenciesFirst Terminates ImplementsClosure
CHECK_DEADLOCK FALSE
