------------------------------ MODULE SourceTree ------------------------------
(***************************************************************************)
(* The files a compilation reads, and the paths the compiler spells them   *)
(* with.                                                                   *)
(*                                                                         *)
(* The compiler identifies a file by the STRING it opens it with           *)
(* (src/resolver.c:14 compares with strcmp), the file system identifies it *)
(* by the place that string leads to.  Both are kept here, because what    *)
(* the import resolver promises is about files and what it does is about   *)
(* strings.                                                                *)
(*                                                                         *)
(* A path is the sequence of its '/'-separated segments and whether it     *)
(* starts with '/'.  A place is a sequence of directory entries from the   *)
(* root, with no "." or ".." in it.                                        *)
(***************************************************************************)
EXTENDS Naturals, Sequences, SequencesExt

CONSTANTS
    Names,      \* the segments paths are made of
    Cwd,        \* the place the compiler is started in
    Dirs,       \* the places that are directories
    PathMax,    \* the longest path, in segments, the kernel accepts
    Home,       \* the path rl_find_home returns
    None        \* "no alias": the NULL of module_alias

ASSUME PathMaxAssumption == PathMax \in Nat \ {0}
ASSUME NamesAssumption == {".", ".."} \subseteq Names
ASSUME CwdAssumption == Cwd \in Seq(Names) /\ <<"">> \notin Dirs

Rel(segs) == [abs |-> FALSE, segs |-> segs]
Abs(segs) == [abs |-> TRUE,  segs |-> segs]

(***************************************************************************)
(* rl_dirname: "." when there is no slash, "/" when the only slash leads,  *)
(* everything before the last slash otherwise.                             *)
(***************************************************************************)
Dirname(p) ==
    IF Len(p.segs) > 1 THEN [p EXCEPT !.segs = Front(@)]
    ELSE IF p.abs THEN Abs(<<>>) ELSE Rel(<<".">>)

(* rl_path_join: an absolute rel replaces dir, any other is appended.      *)
Join(dir, rel) ==
    IF rel.abs THEN rel ELSE [dir EXCEPT !.segs = @ \o rel.segs]

(***************************************************************************)
(* What the kernel makes of a path (open(2), access(2)): it walks the      *)
(* segments one by one, each from a directory that exists, and refuses     *)
(* (ENAMETOOLONG) a path longer than PathMax.                              *)
(***************************************************************************)
Nowhere == <<"">>

Enter(place, seg) ==
    IF place \notin Dirs THEN Nowhere
    ELSE IF seg = "." THEN place
    ELSE IF seg = ".." THEN SubSeq(place, 1, Len(place) - 1)
    ELSE Append(place, seg)

Locate(p) ==
    LET walk[n \in 0..Len(p.segs)] ==
            IF n = 0 THEN (IF p.abs THEN <<>> ELSE Cwd)
            ELSE Enter(walk[n - 1], p.segs[n])
    IN  IF Len(p.segs) > PathMax THEN Nowhere ELSE walk[Len(p.segs)]

(***************************************************************************)
(* A source tree maps the place of each file to its contents: whether      *)
(* rl_lex and rl_parse accept it, and the declarations they make of it.    *)
(* access(F_OK) is satisfied by a directory, rl_read_file is not.          *)
(***************************************************************************)
Exists(tree, p)   == Locate(p) \in DOMAIN tree \cup Dirs
Readable(tree, p) == Locate(p) \in DOMAIN tree /\ tree[Locate(p)].wellFormed
Decls(tree, p)    == tree[Locate(p)].decls

IsImport(d) == d.kind = "import"

(***************************************************************************)
(* The path an import of rel in file p is loaded from: beside p, else      *)
(* under the home if it is there, else beside p after all.  When both      *)
(* spellings fail the caller finds out by failing to open the first.       *)
(***************************************************************************)
Child(tree, p, rel) ==
    LET beside  == Join(Dirname(p), rel)
        at_home == Join(Home, rel)
    IN  IF ~Exists(tree, beside) /\ Exists(tree, at_home) THEN at_home ELSE beside

ImportedBy(tree, p, i) == Child(tree, p, Decls(tree, p)[i].path)

ImportIndices(tree, p) == {i \in DOMAIN Decls(tree, p) : IsImport(Decls(tree, p)[i])}
OwnIndices(tree, p)    == DOMAIN Decls(tree, p) \ ImportIndices(tree, p)
===============================================================================
