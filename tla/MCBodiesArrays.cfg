SPECIFICATION Spec
CONSTANTS
    None = None
    Programs <- MCArrayPrograms
    Nodes <- MCArrayNodes
    Names <- MCNames
    Types <- MCTypes
    Enumerators = {"E"}
    Structs <- MCStructs
    Functions <- MCFunctions
    Trees <- MCTrees
INVARIANTS ArraysAsDeclared
CHECK_DEADLOCK FALSE
