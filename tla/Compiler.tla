------------------------------- MODULE Compiler -------------------------------
(***************************************************************************)
(* The front half of src/main.c: the resolver runs to its end and hands    *)
(* the program to the generator.                                           *)
(*                                                                         *)
(*     Program program = rl_resolve_program(opt.input);                    *)
(*     char *c_source = rl_generate_c(&program);                           *)
(*                                                                         *)
(* What a call in the source means depends on the file it stands in; the   *)
(* generator no longer knows the file, only the alias that came with each  *)
(* function.  The properties here compare the two.                         *)
(***************************************************************************)
EXTENDS SourceTree, FiniteSets

CONSTANTS Main, Trees, Aliases

VARIABLES tree, status, loaded, frames, program, pass, next, header, body

resolving  == <<tree, status, loaded, frames, program>>
generating == <<pass, next, header, body>>
vars       == <<tree, status, loaded, frames, program, pass, next, header, body>>

Resolution == INSTANCE Resolver

(***************************************************************************)
(* The Program as rl_generate_c sees it: the declarations, functions with  *)
(* the alias program_push found on them.                                   *)
(***************************************************************************)
WithAlias(d, alias) == [x \in DOMAIN d \cup {"alias"} |-> IF x = "alias" THEN alias ELSE d[x]]

Items ==
    [k \in DOMAIN program |->
        WithAlias(Decls(tree, program[k].path)[program[k].idx], program[k].alias)]

Generation == INSTANCE Emission WITH program <- Items

(***************************************************************************)
(* What parse_decl makes: a kind in every Decl and a name in every         *)
(* function.  Aliases and names are identifiers, so texts; no alias is     *)
(* empty or NULL.                                                          *)
(***************************************************************************)
ASSUME ResolverAssumption ==
    Resolution!PathsAssumption /\ Resolution!TreesAssumption /\ Resolution!FilesAssumption

ASSUME SpellingAssumption ==
    None \notin Aliases /\ \A a \in Aliases : a \in Seq(STRING) \ {<<>>}

ASSUME DeclarationsAssumption ==
    \A t \in Trees : \A f \in DOMAIN t :
        t[f].wellFormed =>
            \A i \in DOMAIN t[f].decls :
                LET d == t[f].decls[i] IN
                /\ "kind" \in DOMAIN d
                /\ Generation!IsFunction(d) => "name" \in DOMAIN d /\ d.name \in Seq(STRING)

Init == Resolution!Init /\ Generation!Init

Resolve == Resolution!Next /\ UNCHANGED generating

Generate == status = "done" /\ UNCHANGED resolving /\ Generation!Next

Next == Resolve \/ Generate

Spec == Init /\ [][Next]_vars
-------------------------------------------------------------------------------
Done    == pass = "done"
Written == {k \in DOMAIN Items : Generation!Written(Items[k])}
Loaded  == Resolution!Loaded

(* The C symbol a call of the k-th declaration must become to reach it.    *)
SymbolOf(k) ==
    IF Generation!IsNative(Items[k]) THEN Items[k].native
    ELSE Generation!mangle_func(Items[k].alias, Items[k].name)

(* The functions that a call standing in file q means: by an alias, those  *)
(* of the file that q imports under it; by a bare name, those of q.        *)
Meant(q, c) ==
    {k \in DOMAIN Items :
        /\ Generation!IsFunction(Items[k])
        /\ Items[k].name = c.callee
        /\ IF c.module = None THEN program[k].path = q
           ELSE \E i \in ImportIndices(tree, q) :
                    /\ Decls(tree, q)[i].alias = c.module
                    /\ ImportedBy(tree, q, i) = program[k].path}

(* C finds the symbol: it is native, or it has a prototype in the header   *)
(* and one definition.                                                     *)
Linked(k) ==
    \/ Generation!IsNative(Items[k])
    \/ /\ \E h \in DOMAIN header : header[h] = Generation!Prototype(Items[k])
       /\ Cardinality({b \in DOMAIN body : body[b].symbol = SymbolOf(k)}) = 1

(* The call numbered x of the function k reaches what it means.            *)
Reaches(k, x) ==
    LET c == Items[k].calls[x]
        emitted == {b \in ToSet(body) : b.symbol = SymbolOf(k)}
    IN  Meant(program[k].path, c) # {} =>
            \E t \in Meant(program[k].path, c) :
                Linked(t) /\ \A b \in emitted : b.calls[x] = SymbolOf(t)

(* Programs of one alias per file and one file per alias, where no file    *)
(* defines a function twice or imports the main file.                      *)
AllImports == UNION {{<<q, i>> : i \in ImportIndices(tree, q)} : q \in Loaded}
AliasOf(e) == Decls(tree, e[1])[e[2]].alias
PathOf(e)  == ImportedBy(tree, e[1], e[2])

Consistent ==
    /\ \A e, f \in AllImports : AliasOf(e) = AliasOf(f) <=> PathOf(e) = PathOf(f)
    /\ \A e \in AllImports : PathOf(e) # Main
    /\ \A j, k \in DOMAIN Items :
          /\ Generation!IsFunction(Items[j]) /\ Generation!IsFunction(Items[k])
          /\ program[j].path = program[k].path /\ Items[j].name = Items[k].name
          => j = k

AllClean == \A k \in Written : Generation!Clean(Items[k].alias, Items[k].name)

(* README: "a function can call another declared later in the file", and   *)
(* calls through an alias reach the file the alias stands for.  In a       *)
(* consistent program every qualified call, and every call in the main     *)
(* file, reaches the function it means and links.                          *)
CallsReach ==
    Done /\ Consistent /\ AllClean =>
        \A k \in Written : \A x \in DOMAIN Items[k].calls :
            Items[k].calls[x].module # None \/ program[k].path = Main => Reaches(k, x)

(* Two functions never get the same C symbol, if no alias contains "__" or *)
(* ends in "_", and no function of the main file contains "__".            *)
SymbolsDistinct ==
    Done /\ Consistent =>
        \A j, k \in Written :
            /\ Generation!Clean(Items[j].alias, Items[j].name) /\ Generation!Clean(Items[k].alias, Items[k].name)
            /\ SymbolOf(j) = SymbolOf(k)
            => j = k

(* A struct that has fields of a struct type imported above it stands      *)
(* below that type in the header, unless the imported file imports back.   *)
ImportedStructsFirst ==
    Done =>
        \A j, k \in DOMAIN Items :
            /\ Generation!IsStruct(Items[j]) /\ Generation!IsStruct(Items[k])
            /\ Items[j].name \in Items[k].fields
            /\ \E i \in ImportIndices(tree, program[k].path) :
                  /\ i < program[k].idx
                  /\ ImportedBy(tree, program[k].path, i) = program[j].path
            /\ program[k].path \notin Resolution!ReachedFrom(program[j].path)
            => \E g, h \in DOMAIN header :
                  /\ g < h
                  /\ header[g] = Generation!Struct(Items[j])
                  /\ header[h] = Generation!Struct(Items[k])

(* README: "Recursion is fully supported", and "a function can call        *)
(* another declared later in the file".  A call by a bare name reaches the *)
(* function of that name in its own file.                                  *)
BareCallsReach ==
    Done /\ Consistent /\ AllClean =>
        \A k \in Written : \A x \in DOMAIN Items[k].calls :
            Items[k].calls[x].module = None => Reaches(k, x)
===============================================================================
