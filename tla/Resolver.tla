------------------------------- MODULE Resolver -------------------------------
(***************************************************************************)
(* src/resolver.c: rl_resolve_program and the recursion of load_file.      *)
(*                                                                         *)
(* load_file calls itself at each import, in the middle of its loop over   *)
(* the declarations of the file, so the state is the stack of calls: one   *)
(* frame per file being loaded, with the loop index it stopped at.  The    *)
(* lexer, the parser and the file reads are one step of the file's load:   *)
(* they either produce the file's declarations or end the process through  *)
(* rl_fatal.                                                               *)
(***************************************************************************)
EXTENDS SourceTree

CONSTANTS Main,     \* opt.input: the path given on the command line
          Trees,    \* the source trees a run considers
          Aliases   \* the aliases their imports give

PathType == [abs : BOOLEAN, segs : Seq(Names)]

ASSUME PathsAssumption == Main \in PathType /\ Home \in PathType

(***************************************************************************)
(* What rl_parse guarantees of the trees: an array of declarations, and an *)
(* alias on every import (parse_import expects one).  No file is nowhere.  *)
(***************************************************************************)
ASSUME FilesAssumption == \A t \in Trees : Nowhere \notin DOMAIN t

ASSUME TreesAssumption ==
    \A t \in Trees : \A f \in DOMAIN t :
        t[f].wellFormed =>
            /\ DOMAIN t[f].decls = 1..Len(t[f].decls)
            /\ Len(t[f].decls) \in Nat
            /\ \A i \in DOMAIN t[f].decls :
                  IsImport(t[f].decls[i]) =>
                      /\ t[f].decls[i].alias \in Aliases
                      /\ t[f].decls[i].path \in PathType

VARIABLES
    tree,       \* the source tree, fixed for the compilation
    status,     \* "start", "running", "done", "fatal"
    loaded,     \* LoadedSet.paths, in the order of loaded_add
    frames,     \* the calls of load_file in progress, innermost last
    program     \* out: the declarations pushed by program_push

vars == <<tree, status, loaded, frames, program>>

Frame(path, alias) == [path |-> path, alias |-> alias, next |-> 1]

Top     == Last(frames)
Source  == Decls(tree, Top.path)
Current == Source[Top.next]

(* The stack with the innermost loop moved on to its next declaration.     *)
Advanced == [frames EXCEPT ![Len(frames)].next = @ + 1]

Init ==
    /\ tree \in Trees
    /\ status = "start"
    /\ loaded = <<>>
    /\ frames = <<>>
    /\ program = <<>>

(* Mutants of LoadFile: only the files in progress are remembered, so a    *)
(* cycle ends but a diamond does not meet; a file that cannot be loaded is *)
(* passed over; a new file waits behind its importer instead of being      *)
(* loaded in the middle of it.                                             *)
LoadFileCycleCheck(path, alias, callers) ==
    IF \E k \in DOMAIN callers : callers[k].path = path
    THEN frames' = callers /\ UNCHANGED <<loaded, status>>
    ELSE /\ loaded' = Append(loaded, path)
         /\ frames' = IF Readable(tree, path) THEN Append(callers, Frame(path, alias)) ELSE callers
         /\ status' = IF Readable(tree, path) THEN "running" ELSE "fatal"

LoadFileOrSkip(path, alias, callers) ==
    IF path \in ToSet(loaded) \/ (callers # <<>> /\ ~Readable(tree, path))
    THEN frames' = callers /\ UNCHANGED <<loaded, status>>
    ELSE /\ loaded' = Append(loaded, path)
         /\ frames' = IF Readable(tree, path) THEN Append(callers, Frame(path, alias)) ELSE callers
         /\ status' = IF Readable(tree, path) THEN "running" ELSE "fatal"

LoadFileLater(path, alias, callers) ==
    IF path \in ToSet(loaded) THEN frames' = callers /\ UNCHANGED <<loaded, status>>
    ELSE /\ loaded' = Append(loaded, path)
         /\ frames' = IF Readable(tree, path) THEN <<Frame(path, alias)>> \o callers ELSE callers
         /\ status' = IF Readable(tree, path) THEN "running" ELSE "fatal"

(***************************************************************************)
(* The head of load_file(path, alias), called from callers: a path already *)
(* in the set returns at once.  A new one is recorded BEFORE it is read,   *)
(* which is what ends an import cycle, and then read, lexed and parsed.    *)
(***************************************************************************)
LoadFile(path, alias, callers) ==
    \/ /\ path \in ToSet(loaded)
       /\ frames' = callers
       /\ UNCHANGED <<loaded, status>>
    \/ /\ path \notin ToSet(loaded)
       /\ Readable(tree, path)
       /\ loaded' = Append(loaded, path)
       /\ frames' = Append(callers, Frame(path, alias))
       /\ status' = "running"
    \/ /\ path \notin ToSet(loaded)
       /\ ~Readable(tree, path)
       /\ loaded' = Append(loaded, path)
       /\ frames' = callers
       /\ status' = "fatal"

(* rl_resolve_program: load_file(main_path, NULL, ...).                    *)
LoadMain ==
    /\ status = "start"
    /\ LoadFile(Main, None, <<>>)
    /\ UNCHANGED <<tree, program>>

InLoop == status = "running" /\ Top.next <= Len(Source)

(* Mutants of Import: the importer's own alias is handed down; the loop    *)
(* index is not advanced past the import.                                  *)
ImportUnderOwnAlias ==
    /\ InLoop
    /\ IsImport(Current)
    /\ LoadFile(ImportedBy(tree, Top.path, Top.next), Top.alias, Advanced)
    /\ UNCHANGED <<tree, program>>

ImportWithoutAdvancing ==
    /\ InLoop
    /\ IsImport(Current)
    /\ \E child \in {ImportedBy(tree, Top.path, Top.next)} :
          LoadFile(child, Current.alias, frames)
    /\ UNCHANGED <<tree, program>>

(* The loop body for use("rel") as alias.                                  *)
Import ==
    /\ InLoop
    /\ IsImport(Current)
    /\ \E child \in {ImportedBy(tree, Top.path, Top.next)} :
          LoadFile(child, Current.alias, Advanced)
    /\ UNCHANGED <<tree, program>>

(***************************************************************************)
(* The loop body for any other declaration.  The declaration itself is     *)
(* named by where it came from; only functions take the file's alias.      *)
(***************************************************************************)
Entry(frame, d) ==
    [path |-> frame.path, idx |-> frame.next,
     alias |-> IF d.kind = "func" THEN frame.alias ELSE None]

Push ==
    /\ InLoop
    /\ ~IsImport(Current)
    /\ program' = Append(program, Entry(Top, Current))
    /\ frames' = Advanced
    /\ UNCHANGED <<tree, status, loaded>>

(* Mutant of Return: the outermost return is taken for an inner one.       *)
ReturnNeverDone ==
    /\ status = "running"
    /\ Top.next > Len(Source)
    /\ frames' = Front(frames)
    /\ UNCHANGED <<tree, status, loaded, program>>

(* The end of load_file, and of rl_resolve_program for the outermost call. *)
Return ==
    /\ status = "running"
    /\ Top.next > Len(Source)
    /\ frames' = Front(frames)
    /\ status' = IF Len(frames) = 1 THEN "done" ELSE "running"
    /\ UNCHANGED <<tree, loaded, program>>

Next == LoadMain \/ Import \/ Push \/ Return

(***************************************************************************)
(* The compiler is one sequential process that waits for nothing but file  *)
(* reads: as long as it can take a step it takes it.                       *)
(***************************************************************************)
Spec     == Init /\ [][Next]_vars
FairSpec == Spec /\ WF_vars(Next)
-------------------------------------------------------------------------------
Loaded      == ToSet(loaded)
Emitted(es) == {<<es[k].path, es[k].idx>> : k \in DOMAIN es}
Stopped     == status \in {"done", "fatal"}

EntryType == [path : Loaded, idx : Nat, alias : Aliases \cup {None}]
FrameType == [path : Loaded, alias : Aliases \cup {None}, next : Nat \ {0}]

(* The variables have their types; a frame or a program entry is always of *)
(* a loaded file, and while the resolver runs there is a frame to run.     *)
TypeOK ==
    /\ tree \in Trees
    /\ status \in {"start", "running", "done", "fatal"}
    /\ loaded \in Seq(PathType)
    /\ frames \in Seq(FrameType)
    /\ program \in Seq(EntryType)
    /\ status = "running" => frames # <<>>

(* No declaration is pushed twice: however the imports meet, load_file's   *)
(* early return keeps a path from contributing its declarations again.     *)
EachDeclarationOnce ==
    \A j, k \in DOMAIN program :
        program[j].path = program[k].path /\ program[j].idx = program[k].idx => j = k

(* Every imported function is in the program under an alias that some      *)
(* import of its file gives it, and the functions of the main file under   *)
(* none: find_func can reach each of them by some spelling of a call.      *)
CallableByItsAlias ==
    \A k \in DOMAIN program :
        LET e == program[k] IN
        Decls(tree, e.path)[e.idx].kind = "func" =>
            IF e.path = Main THEN e.alias = None
            ELSE \E q \in Loaded : \E i \in ImportIndices(tree, q) :
                    /\ ImportedBy(tree, q, i) = e.path
                    /\ Decls(tree, q)[i].alias = e.alias

ImportsOf(p) == {ImportedBy(tree, p, i) : i \in ImportIndices(tree, p)}

(* The loaded paths that a chain of imports leads to from p: those in      *)
(* every set that holds p and, with a path, the imports of its file.       *)
ReachedFrom(p) ==
    {q \in Loaded :
        \A S \in SUBSET Loaded :
            (p \in Loaded => p \in S) /\ (\A r \in S : ImportsOf(r) \cap Loaded \subseteq S) => q \in S}

(* When a declaration is pushed, everything the imports above it brought   *)
(* in is already there, but for files that import this one back.           *)
(* gen_blueprint relies on this order: a C struct must precede its uses.   *)
DependenciesFirst ==
    [][\A k \in DOMAIN program' \ DOMAIN program :
          LET e == program'[k] IN
          \A i \in ImportIndices(tree, e.path) :
              LET c == ImportedBy(tree, e.path, i) IN
              i < e.idx /\ e.path \notin ReachedFrom(c) =>
                  \A j \in OwnIndices(tree, c) : <<c, j>> \in Emitted(program)]_vars

(* Resolution ends, cycles and re-spelled cycles included.                 *)
Terminates == <>Stopped

(* The depth-first recursion with its early returns loads exactly the      *)
(* closure of the imports and yields exactly its declarations.             *)
Closure == INSTANCE ImportClosure
    WITH seen   <- Loaded,
         result <- IF status = "done" THEN Emitted(program) ELSE {}

ImplementsClosure == Closure!Spec

(* A path the way load_file makes it of imports without dot segments: it   *)
(* starts in the current directory, or lies outside of it.                 *)
Plain(p) ==
    LET written == IF p.abs THEN p.segs ELSE Tail(p.segs) IN
    /\ IF p.abs THEN ~IsPrefix(Cwd, p.segs) ELSE p.segs # <<>> /\ Head(p.segs) = "."
    /\ {".", ".."} \cap ToSet(written) = {}

(* README: "Imports are de-duplicated, so importing the same file through  *)
(* multiple paths is safe."  No declaration OF A FILE is in the program    *)
(* twice, whatever the paths the file was reached by.                      *)
FileDeclarationsOnce ==
    \A j, k \in DOMAIN program :
        /\ Locate(program[j].path) = Locate(program[k].path)
        /\ program[j].idx = program[k].idx
        => j = k

(* Where no import has dot segments or leads back to the main file, the    *)
(* de-duplication of spellings is one of files.                            *)
PlainFilesOnce ==
    (\A p \in Loaded \ {Main} : Plain(p) /\ Locate(p) # Locate(Main)) => FileDeclarationsOnce
===============================================================================
