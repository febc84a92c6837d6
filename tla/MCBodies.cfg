SPECIFICATION Spec
CONSTANTS
    None = None
    Programs <- MCPrograms
    Nodes <- MCNodes
    Names <- MCNames
    Types <- MCTypes
    Enumerators = {"E"}
    Structs <- MCStructs
    Functions <- MCFunctions
    Trees <- MCTrees
INVARIANTS TypeOK NamesAgree InferAgrees CAgrees
CHECK_DEADLOCK FALSE
