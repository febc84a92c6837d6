--------------------------------- MODULE Enums ---------------------------------
(***************************************************************************)
(* What the walk over a function body and the typing of its expressions    *)
(* both know of the program around it.                                     *)
(***************************************************************************)
CONSTANTS
    Enumerators,    \* the members of the program's enums
    None            \* the NULL of scope_lookup and find_func
===============================================================================
