------------------------------ MODULE MCResolver ------------------------------
(***************************************************************************)
(* Resolver on families of small source trees.  The working directory      *)
(* holds main and lib, a subdirectory holds util, the home holds std;      *)
(* "ghost" is nowhere.  A family fixes the shape of the files and ranges   *)
(* over what they import and how they spell it.                            *)
(***************************************************************************)
EXTENDS Resolver

MCNames == {".", "..", "w", "h", "sub", "main", "lib", "util", "std", "ghost"}
MCCwd  == <<"w">>
MCDirs == {<<>>, <<"w">>, <<"w", "sub">>, <<"h">>}
MCHome == Abs(<<"h">>)

Use(path, alias) == [kind |-> "import", path |-> path, alias |-> alias]
Fn(name) == [kind |-> "func", name |-> name]
Struct(name) == [kind |-> "struct", name |-> name]

File(decls) == [wellFormed |-> TRUE, decls |-> decls]
Broken == [wellFormed |-> FALSE, decls |-> <<>>]

LibRel == Rel(<<"lib">>)
LibDot == Rel(<<".", "lib">>)
LibUp  == Rel(<<"..", "lib">>)
UtilRel == Rel(<<"sub", "util">>)
MainRel == Rel(<<"main">>)
MainUp == Rel(<<"..", "main">>)
StdRel == Rel(<<"std">>)
Ghost  == Rel(<<"ghost">>)

Tree(main, lib, util) ==
    (<<"w", "main">> :> main) @@ (<<"w", "lib">> :> lib)
        @@ (<<"w", "sub", "util">> :> util)
        @@ (<<"h", "std">> :> File(<<Fn("out"), Fn("line")>>))

(* Every tree a spelling can tie into a knot: diamonds, cycles, imports of *)
(* oneself, files met under two spellings, under two aliases, under the    *)
(* home, nowhere, and files that do not parse.                             *)
MCTrees ==
    {Tree(File(<<Use(x, "a"), Fn("f"), Use(y, "b"), Struct("s")>>), lib, util) :
        x \in {LibRel, LibDot, UtilRel, MainRel, StdRel, Ghost},
        y \in {LibRel, UtilRel, MainRel, StdRel, Abs(<<"w", "lib">>)},
        lib \in {File(<<Fn("g")>>), Broken,
                 File(<<Use(LibDot, "l"), Fn("g")>>),
                 File(<<Use(MainRel, "m"), Struct("t"), Fn("g")>>),
                 File(<<Struct("t"), Use(UtilRel, "u"), Use(StdRel, "s"), Fn("g")>>)},
        util \in {File(<<Fn("h")>>),
                  File(<<Use(LibUp, "l"), Fn("h")>>),
                  File(<<Use(StdRel, "std"), Use(MainUp, "m"), Fn("h")>>)}}

MCAliases == {"a", "b", "l", "k", "m", "s", "u", "std"}
MCMain    == Rel(<<"main">>)
===============================================================================
