------------------------------ MODULE MCCompiler ------------------------------
(***************************************************************************)
(* Compiler on trees of two to four files: a main file that imports two    *)
(* libraries, one of which may import the other.  Names differ only where  *)
(* underscores and clashes between files matter.                           *)
(***************************************************************************)
EXTENDS Compiler

MCNames == {".", "..", "w", "h", "main", "lib", "util", "std"}
MCCwd   == <<"w">>
MCDirs  == {<<>>, <<"w">>, <<"h">>}
MCHome  == Abs(<<"h">>)
MCMain  == Rel(<<".", "main">>)

a == <<"a">>  a_ == <<"a", "_">>  b == <<"b">>  f == <<"f">>  g == <<"g">>
_f == <<"_", "f">>  a__f == <<"a", "_", "_", "f">>  r == <<"r">>  s == <<"s">>
t == <<"t">>  main == <<"main">>  out == <<"out">>

Use(name, alias) == [kind |-> "import", path |-> Rel(<<name>>), alias |-> alias]
Call(module, callee) == [module |-> module, callee |-> callee]
Fn(name, calls) == [kind |-> "func", name |-> name, native |-> None, calls |-> calls]
Native(name, symbol) == [kind |-> "func", name |-> name, native |-> symbol, calls |-> <<>>]
StructOf(name, fields) == [kind |-> "struct", name |-> name, fields |-> fields]
File(decls) == [wellFormed |-> TRUE, decls |-> decls]

Tree(mainFile, lib, util) ==
    (<<"w", "main">> :> mainFile) @@ (<<"w", "lib">> :> lib) @@ (<<"w", "util">> :> util)
        @@ (<<"h", "std">> :> File(<<Native(out, <<"rt_out">>), Native(f, <<"rt_f">>)>>))

MCTrees ==
    {Tree(File(<<Use("lib", x), StructOf(s, {t, r}), Fn(main, <<Call(x, f), Call(None, n)>>),
                 Use(second, y), Fn(n, <<Call(y, f)>>)>>),
          File(<<StructOf(t, lf)>> \o imports \o <<Fn(f, <<Call(None, g), Call(a, f)>>), Fn(g, <<>>)>>),
          File(<<StructOf(r, {}), Fn(f, <<Call(None, f)>>)>>)) :
        x \in {a, a_}, y \in {a, b}, second \in {"util", "std"},
        n \in {f, g, _f, a__f}, lf \in {{}, {r}, {t}},
        imports \in {<<>>, <<Use("util", b)>>, <<Use("std", a)>>, <<Use("util", a_)>>}}

MCAliases == {a, a_, b}
===============================================================================
