---------------------------- MODULE ImportClosure ----------------------------
(***************************************************************************)
(* What import resolution promises, without the order it is done in: every *)
(* path that an import of a loaded file leads to is loaded, no other path  *)
(* is, and the program is exactly the declarations of the loaded files,    *)
(* each once.  A file that cannot be read or parsed ends the compilation.  *)
(*                                                                         *)
(* Nothing here depends on what a path is or where an import leads: those  *)
(* are parameters, which Resolver gives the meaning SourceTree defines.    *)
(***************************************************************************)
CONSTANTS
    Main,                   \* the path on the command line
    Trees,                  \* the source trees considered
    Readable(_, _),         \* (tree, path): the file is there and parses
    ImportIndices(_, _),    \* (tree, path): its declarations that are imports
    OwnIndices(_, _),       \* (tree, path): its other declarations
    ImportedBy(_, _, _)     \* (tree, path, i): the path import i leads to

VARIABLES tree,     \* the source tree of this compilation
          seen,     \* the set of paths loaded
          status,   \* "start", "running", "done" or "fatal" (exit status 65)
          result    \* {<<path, index>>} of the program's declarations, once done

vars == <<tree, seen, status, result>>

(* The paths imported by a loaded file.                                    *)
Frontier == UNION {{ImportedBy(tree, p, i) : i \in ImportIndices(tree, p)} : p \in seen}

Init ==
    /\ tree \in Trees
    /\ seen = {}
    /\ status = "start"
    /\ result = {}

Take(p) ==
    /\ p \notin seen
    /\ seen' = seen \cup {p}
    /\ status' = IF Readable(tree, p) THEN "running" ELSE "fatal"
    /\ UNCHANGED <<tree, result>>

Begin == status = "start" /\ Take(Main)

Follow == status = "running" /\ \E p \in Frontier : Take(p)

Finish ==
    /\ status = "running"
    /\ Frontier \subseteq seen
    /\ status' = "done"
    /\ result' = UNION {{<<p, i>> : i \in OwnIndices(tree, p)} : p \in seen}
    /\ UNCHANGED <<tree, seen>>

Next == Begin \/ Follow \/ Finish

Spec == Init /\ [][Next]_vars
==============================================================================
