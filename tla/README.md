# Specifications of root_lang

`rootc` compiles a small C-like language to C and has a C compiler make an
executable of it. This directory holds TLA+ modules of its parts, the TLC
configurations that check them on small instances, and proofs, checked by
TLAPS, of what holds for all instances. Paths below are those of the
repository; `common.c:54` is `src/common.c`, line 54, and so on.

## 1. The system

    rtl source ──rl_read_file──> text ──rl_lex──> tokens ──rl_parse──> declarations
         ▲                                                                 │
         └── load_file, once per import path (resolver.c) ◄────────────────┘
                                   │ Program: all declarations, functions with an alias
                                   ▼
                    rl_generate_c (codegen.c, in Ropes)
                                   │ one C text
                                   ▼
       main: <output>.gen.c ──cc + runtime/rootrt.c──> <output>; remove <output>.gen.c

One process, one thread, no locks; `rl_fatal` ends the compiler with status 65 from
anywhere. What makes it hard to test is order (imports, scopes, passes over the
declarations), names (paths, aliases, C symbols), ends of buffers, runs
that meet in one directory, and what is left of installations that did not
end.

| Component | State | Operations | What makes it correct |
| --- | --- | --- | --- |
| Import resolver, `resolver.c` | loaded paths, recursion of `load_file`, the program | load, follow an import, push a declaration, return | ends on cycles; each declaration once; the closure of the imports; imports before importers; every function callable by an alias |
| Generator, declarations, `codegen.c:80-120, 465-488, 716-814` | loop index of three passes, header and body ropes | emit structs, prototypes, bodies, C's main | calls reach what they mean; symbols differ; C sees a struct before its use |
| Generator, statements, `codegen.c:23-56, 554-714` | scope list, indentation | push, pop, add, look up; one case per statement | the scope list agrees with C's block structure |
| Generator, expressions, `codegen.c:122-552` | types cached on expressions | `infer`, `gen_expr` | inferred types agree with C's |
| Driver, `main.c` | options; files on disk | parse options, write, run cc, clean up | status 0 means a whole executable; the generated file goes or stays as asked; sources survive |
| Rope and allocation, `common.c:8-93` | data, len, cap | init, reserve, push, free | in bounds, terminated, nothing lost, reserve ends |
| Lexer, `lexer.c` | position, line, column, tokens | one function per kind of token | longest lexemes, right places, does not leave the source |
| Parser, `parser.c` | position in the token list | recursive descent | accepts the README's grammar, with its meaning |
| Syntax tree, `ast.c` | growable lists | push, clone | nothing lost in growth |
| Home lookup, `common.c:161-230` | none | environment, executable, defaults | finds the library that belongs to the compiler |
| Runtime, `runtime/rootrt.c` | two static line buffers, span headers, open files | what natives of `stdlib/root.rtl` call | texts keep their contents; lines make up the file; what is written is saved; files end where they end |
| Installer and build, `install.sh`, `uninstall.sh`, `Makefile` | object files, installed files | compile, link, copy, register, delete | after a finished installation compiler, runtime and library match |

They interact by calls only; the resolver calls lexer and parser per file, the
driver calls resolver and generator once each. State is shared in two places:
the `Program`, filled by the resolver and read by the generator, and the
disk: the directory that runs of the compiler share, and the installed files
that scripts write and `rl_find_home` looks for.

`PROJECT.json` lists the hazards, each at its line, with the properties that
would show it.

## 2. The modules

| Module | What it is | Code |
| --- | --- | --- |
| `SourceTree` | paths, how they are joined, what files they denote | `common.c:129-151`, `resolver.c:42-57` |
| `ImportClosure` | abstract: the set of files imports lead to, and their declarations | |
| `Resolver` | `load_file` as a stack of calls; implements `ImportClosure` | `resolver.c` |
| `Emission` | the passes of the generator; symbols and calls | `codegen.c` |
| `Compiler` | `Resolver` and `Emission` composed, as in `main.c:80-81` | |
| `Scopes` | the generator's walk over a function body, and C's reading of the result | `codegen.c:42-56, 554-714` |
| `Enums` | the two constants that `Scopes` and `Expressions` share | |
| `CTyping` | C's expressions, by what C makes of them: type, place, refusal (C11) | `rootrt.h` |
| `Expressions` | `infer` and `gen_expr` as functions on all trees, given what names stand for | `codegen.c:80-552` |
| `Bodies` | `Scopes` and `Expressions` composed; the documentation's types of expressions | `codegen.c` |
| `HomeLookup` | `rl_find_home` over a disk | `common.c:179-230` |
| `Installation` | the scripts and the Makefile, cut and repeated; the compilers they leave | `install.sh`, `uninstall.sh`, `Makefile` |
| `Runtime` | line input, files and texts of compiled programs, over the streams of C | `rootrt.c:7-44, 81-138` |
| `Driver` | runs of `main` that share a directory | `main.c` |
| `Text`, `Rope` | abstract text; the buffer that implements it | `common.c:40-93` |
| `Lexer`, `Lexemes` | the loops of the lexer; the tokens defined without a lexer | `lexer.c` |
| `Parser`, `Syntax` | the recursive descent with its stack; the README's grammar and precedences stated on trees | `parser.c` |
| `MC...` | constants of the TLC runs | |
| `...Proofs` | theorems and proofs | |

Correspondence of state and actions:

* **Resolver.** `loaded` is `LoadedSet`, `program` the `Program`. `load_file`
  calls itself in the middle of its loop, so `frames` holds for each call in
  progress its path, its alias and the loop index. `LoadFile` is the head of
  the function (early return, recording, reading); `Import` is the loop body
  for an import, with the search in the home; `Push` for any other declaration;
  `Return` the end of the loop. Reading, lexing and parsing a file succeed or
  are fatal: a tree says which. The two identities of a path, its spelling and its
  file, are kept apart: `Locate` follows the spelling as open(2) does.
* **Emission.** One action per loop body of the three passes and one for the
  end of a pass. Names are sequences of characters, as underscores matter; a
  body is reduced to its calls.
* **Compiler.** `Items` is the hand-over: the declarations with the alias that
  the resolver put on them. The meaning of a call in the source (`Meant`)
  depends on the file it is in, which the generator does not know.
* **Scopes.** `scopes` is `g->scope`; `work` is the C stack of `gen_stmt` and
  `gen_block`. The C text is reduced to braces, `for`, semicolons,
  declarations and names. `CScopes` reads that text by C's rules, item by item.
  `Programs` are built of `Nodes`, the statements that the parser can have made
  (`Node`): the walk meets nothing else, as the statements inside a statement
  are nodes too.
* **Expressions and Bodies.** Expressions are the parser's trees. `Trees` has
  those of each height, and a part of a tree is of a lower one (`Expression`,
  `Lower`), so that the recursion of `infer` and `gen_expr` is a recursive
  function on `AllTrees`; what they do at one tree, given what they do at its
  parts, is `InferAt` and `GenAt`. A type is a named one with the `[]` and `&`
  behind it, the last one first. The environment is, in `Bodies`, what
  `scope_lookup` says at the statement: a statement there carries a set of
  trees, all of which the walk could have met. What `gen_expr` makes of a tree
  is what C makes of that text (`CTyping`): its type by C11, or that C refuses
  it or a part; whether it can be assigned to; whether texts are compared in it
  by address; the element type of an array. C's variables are those it has in scope at that place
  (`CScopes`). `Typed` is the documentation's type of a tree, for what
  README.md:174-560 says has one, in the block structure. The cached `inferred`
  of a node is not modelled, as each node is inferred and written in one place.
* **HomeLookup and Installation.** `disk` is what a few paths hold: by which
  version of the tree a file was made, or torn. `todo` is the rest of the
  script that runs. Every command has an action, and `Cut` ends the script at
  it with what a killed or failed command leaves: nothing, a part of the files,
  half a file. `objects` and `newer` are what make compares; `OutOfDate` is its
  rule, which knows no headers. Between scripts the tree is updated, all of it
  or a header only. A directory `/opt/root_lang/runtime` that no script knows
  may be there. Left out: a `make clean` that cannot delete, which `install.sh`
  ignores.
* **Runtime.** The program is any sequence of calls. A str is a pointer, to
  memory of its own or to one of the two static buffers; `meant` is what the
  program was given, `fresh` whether its buffer has been filled again since.
  Streams are external: `waiting` is what a writer holds back, `text` the file
  as its reader first read it, which a stream does for files of up to its
  buffer's size. A read of a file may fail (`ReadFails`), as each read of an
  opened directory does: at first, or when fgets looks behind what it has
  copied, which then stays in the buffer without a terminator. Such a read
  returns `""`, leaves `feof` at 0, and may be tried again; `error` is C's flag,
  which no call asks for. A handle is read or written as it was opened. Reads of
  the standard input do not fail. `pieces`, `asked` and `saved` are history.
* **Driver.** `fs` is the directory, the rest is per run: `pc`, the command
  line, the program it read, how many blocks of C text have been written, and
  whether the file it has open still has its name. `cc` is external: it builds
  a whole text that is right C, refuses a broken one, and may do either with a
  mixture of two programs. Writes can fail at any block; a run can be killed
  between any two steps. `remove` may fail too, and main looks at no result of
  it: the run ends with status 0 like any other. Left out: a C compiler that
  goes on when its run has been killed; its own output appears in one step.
* **Rope.** `block` is what the allocator gave and `data` its bytes; a store
  past the end makes `data` longer than `block`, which `InBounds` forbids.
  Between capacity and block nothing is taken for granted.
* **Lexer.** One action per loop iteration or per function without a loop.
  `Char` reads the source, its terminator, and then memory that is one of
  `Beyonds`.
* **Parser.** A token is its kind. The C stack is `todo`, a sequence of frames:
  functions entered or loops to go on with, tokens to expect, nodes to build.
  Each action takes the frame in front and puts there what the code does next.
  The trees are on `vals`. Three things the code's nodes drop are kept in the
  trees, so that a tree says which tokens it stands for: parentheses, the `()`
  after a field, the block after a native symbol. The six functions for
  binary operators, `parse_logic_or` to `parse_factor`, are one action over the
  table `BinaryOps`, as they differ in nothing else.
  `Syntax` shares no definition with the parser: `Yield` is the grammar of
  README.md:717-760 and `WellNested` the precedences of README.md:298.

## 3. What the runs show

TLC finishes each in seconds, `bodies`, `runtime` and `installation` within two
minutes. "Violation" runs check a sentence of the
documentation that the code does not keep.

| Run | Result | Shows |
| --- | --- | --- |
| `resolver` | holds | resolution ends, once per declaration (per file too, if imports have no dot segments), imports first, callable, and is the import closure |
| `compiler` | holds | qualified calls, and all calls of the main file, reach their function; symbols are distinct; imported structs come first |
| `compiler_bare_calls` | violation | in an imported file a call by bare name (recursion included) misses, against README.md:148 and 397 |
| `bodies` | holds | braces match scopes; the generator's lookup is C's; inferred types are the documented ones; C takes what is written for a documented expression, with the documented type, and no texts are compared by address |
| `bodies_arrays` | violation | `int8[] y = {1, 2}` makes a block of `int32_t`, against README.md:196 and 412 |
| `driver` | holds | status 0 means a whole executable; with `--keep` the generated C is there, without it only where it could not be removed, and always whole; sources survive |
| `installation` | holds | a finished `install.sh` works whatever was there before; a compiler built in a tree uses the tree's library; a place without a runtime directory is the last resort |
| `runtime` | holds | lines make up the file; texts stay while their buffer does; what is closed or left open at the end is saved; reads of the input lose blanks and signs without a digit only; `str_slice` is the substring; reading loops end unless a read fails |
| `rope` | holds | bounds, terminator, growth, an end to growth; implements `Text` |
| `lexer` | holds | longest lexemes with places and values; stays in the source |
| `parser` | holds | ends, on a token of the list; what is accepted is read whole and with the README's precedences; the grammar's programs are accepted, and so read, with the exceptions below |
| `parser_named` | violation | `person p;` is a syntax error, against README.md:522; only `let person p;` is not |

Conditions the properties need, each of them the point of a hazard:

* `CallsReach` and `SymbolsDistinct` are about programs in which an alias
  stands for one file and a file has one alias (`Consistent`), and names that
  do not imitate the `__` of symbols (`Clean`).
* `DependenciesFirst` and `ImportedStructsFirst` exclude files that import each
  other in a circle, where one of them must come first.
* `NamesAgree` leaves out C texts with two declarations of a name in one scope,
  which C refuses, and a variable's name within its own initializer: there the
  generator looks up an outer variable and C the new one. The documentation
  does not say which is meant.
* `SuccessMeansBuilt` is about runs that no run *of another program* disturbs.
  `SourcesSurvive` excludes an `-o` that names a source, and is about sources
  that carry the extension once (`Named`): the executable of an input without
  one takes the input's name, and that of `a.rtl.rtl` is `a.rtl`.
* `StaysInSource`: a source that ends in a backslash inside a literal, or in a
  tick, takes the lexer behind the terminator; in no other way does it leave.
  `LongestLexemes` says nothing of a run that did.
* `DocumentedAccepted` leaves to the violation run the declarations of a named
  type, and leaves out sentences that the grammar reads in two ways, of which
  the parser takes one (`Unambiguous`): a `*` behind a cast is part of its type,
  so `x to int * 2` is refused although README.md:300 puts the cast above `*`;
  `x.length()` is a call in module `x`; a statement that starts with `{` is a
  block. It also takes no `let` or `const` in the header of a `for`, where the
  grammar has them and the parser does not.
* The parser accepts more than the grammar in three places, and `ReadAsWritten`
  holds there too: an empty enum, a comma behind the last enumerator, and a
  native function without a block or with one that holds statements, which are
  dropped.

* `InferAgrees` and `CAgrees` are about expressions to which the documentation
  gives a type (`Typed`). Left out of those, each for what the code does:
  operands of two different types; casts of a text to other types than `int`
  and `int64`, which come out as casts of the pointer; an index of an array
  literal, which comes out as an index of a `void*`; `str_size`, whose C type is
  `size_t`. They compare types after C's promotions, so `bool` counts as `int`,
  and let the runtime's `int64_t` for an `int` (`abs`, text to `int`) pass.
* `FinishedInstallWorks` holds of `make install` only if no header was edited
  since the objects were compiled, no link was cut, and so no stale file is
  newer than its source. `install.sh` cleans first and needs none of that.
* `LocalBuildWorks` and `HomeHasRuntime` are about an unset `ROOTLANG_HOME`.
  All of `Installation` is about a source tree outside of the installed places,
  which is also not `/usr/local` or `/usr/local/bin` and not in a `runtime`
  directory of those (`InstallationAssumption`).
* `TextsStay`: a line is good until the next line from the same kind of source,
  or the next failure to read one.
* `KeptOnRequest`: without `--keep` the generated file is gone only if it could
  be removed; it is about runs whose names no other run uses.
* `NothingUnasked`: `ask_int` is C's `scanf("%d")`, which takes the blanks and
  newlines in front of a number and also takes them, and a sign, where no number
  follows.
* `ClosedIsSaved` and `LinesMakeTheFile` are about programs that write a file
  through one handle at a time, and writes that the disk has room for.
  `LinesMakeTheFile` is about handles none of whose reads has failed, and so is
  `LoopsEnd`.

Not runs, but met on the way, where the code differs from its documents or from
what they lead one to expect:

* The set of loaded files compares spellings, so `lib.rtl` and `./lib.rtl` are
  loaded twice (README.md:606: "importing the same file through multiple paths
  is safe"). A second alias of a file reaches nothing (README.md:582). Structs
  come out in program order, and C refuses a field of a struct that is declared
  below (README.md:147: "Declarations may appear in any order").
* With `--emit-c` a short write is not noticed (`main.c:88` looks at neither
  `fwrite` nor `fclose`), and status 0 is reported. Without it the C compiler's
  verdict stands in, which is `SuccessMeansBuilt`.
* No type is checked, although README.md:6 says so; a wrong program is left to C
  to refuse.
* `common.c:175` says a candidate is accepted only if it has a runtime
  directory; the one from the environment is not looked at.
* `std.out` of a comparison or of `true` prints `1`: C's type of it is `int`.
  The zero value of a `str` is `""` in a variable and NULL in a struct.
* `file_ended` is C's `feof`: it is false in front of the end until a read has
  come short, so the usual loop gets one `""` more than there are lines. A read
  that fails does not set it: a loop until `file_ended` over a directory, which
  `file_open` opens, never ends.
* `main.c:107` does not look at the result of `remove`: a generated file that
  cannot be removed stays, with status 0.
* `install.sh` and `make install` share the library directory, so either
  uninstallation takes the library from the other's compiler.

### Bounds

* Resolver: main with two imports, a library and one more file that import
  each other in all shapes, a home with one file, one missing file, one broken
  file, three directories; 450 trees. Cycles of
  length one, two and three, diamonds and every way of spelling a path arise.
* Compiler: four files; names that contain, begin with or end in underscores.
* Bodies: in the programs about scopes two names, one an enumerator's; two
  types; compound statements two deep, chains of three ifs; two functions, so
  that the first one's leftovers would show. In the one about types fifteen
  variables, one of each type that the generator tells apart; all expressions of
  one operation over them, and of two with one operand from a smaller set.
* Runtime: one file, two handles, one variable, a buffer of three bytes
  instead of 4096: a line that just fits, one that is cut, a blank one, and a
  file without a last newline. The input is every
  text of up to three of a digit, a sign, a blank, a newline and a letter;
  programs that use the file have the input `x`, as files and input share
  nothing but the variables, for which one letter is enough.
* Installation: two changes of the tree, three scripts, two objects: an old
  installation, a cut one over it, and the one to put things right.
* Driver: two runs with all pairs of 24 command lines (symmetric in the runs);
  C texts of one or two blocks, enough for a prefix,
  a hole and a mixture.
* Rope: first block of three bytes instead of 256, strings of 0, 1, 2 and 5
  characters, up to nine in all: just fits, misses by one, doubles twice.
* Lexer: all texts up to length three over 18 characters, up to length four to
  six over related ones.
* Parser: expressions of two operators of every pair of levels, in both
  orders, with casts, fields, indices, calls and assignments at every place;
  every statement before another one, ifs chained and nested; every pair of
  declarations; damage of each; and 4369 strings of up to three of 16 tokens.

### Fairness

`Resolver`, `Lexer` and `Parser` are loops of a sequential process that waits
for nothing, so a step that can be taken is (`WF_vars(Next)`). `Rope` promises that
of the inside of a push only; whether there is another push is up to its user.
`Runtime` promises that a program in a loop over `file_read_line` goes on
reading while the file has not ended: that is the loop, and no call waits.
`Driver` and the composed models state no liveness: a run may be killed.
Deadlock checking is off where the process ends.

## 4. What is proved

For every value of the constants, under the named assumptions of the modules.
Each `...Proofs` module has an inductive invariant; what it says beyond the
properties is what makes them true.

* `ResolverProofs`. Assumed: `NamesAssumption`, `PathMaxAssumption`,
  `PathsAssumption`, `TreesAssumption` (a parsed file is an array of
  declarations); `CwdAssumption` and `FilesAssumption` (no file has the name
  that stands for "not found"). `IInv` says which declarations of a loaded path
  have been pushed: all of a finished one, those before the loop index of one
  in progress, and no two frames are of one path. That ties the set of loaded
  paths, which the early return looks at, to the program. From it: `TypeCorrect`,
  `DeclarationsOnce`, `ResolverImplementsClosure`. `Order` adds that each frame
  has an alias by which some import brings its path in, and that its path is
  reached from those of all frames below it. The second is what makes an import
  that leads back to none of them a finished one when the next declaration is
  pushed: `FunctionsCallable`, `ImportsPushedFirst`. `FilesOnce` goes from spellings to files: the walk that
  open(2) makes along a path without dot segments, proved by induction on its
  length, ends in a directory from which the path can be read off (`Climb`,
  `LocateWalks`, `PlainInjective`), so two plain paths with one file are equal.
* `CompilerProofs` (`ResolverAssumption`, `SpellingAssumption`: aliases are words
  and none of them is "no alias"; `DeclarationsAssumption`: functions have names):
  `MangleInjective`, that two functions get one symbol only if alias and name
  agree: the first `__` of a symbol marks the end of a clean alias, so two
  aliases of different lengths cannot give one symbol. From it and the invariant
  `SymbolsAreDistinct`, `StructsFollowImports`, `CallsReachWhatTheyMean`. `EInv`
  says for each pass of the generator which declarations it has passed, that
  the text holds exactly what they give, and in their order. `CInv` puts `IInv`,
  `Order` and `EInv` together, the last one about the program that the resolver
  hands over, and adds that nothing is written before the resolver is done:
  without that, the loop indices of the passes would be about a program that
  still grows. Symbols differ because declarations are pushed once and
  `mangle_func` is injective; structs keep the order in which they were pushed;
  a call reaches its function because every imported function is in the
  program by an alias of its file.
* `GeneratorProofs`, on what the generator writes (`Scopes`, `Bodies`) and what it
  writes into (`Rope`).
  For `Scopes` (`NodesAssumption`: every statement has the parts its kind has,
  and those are statements again; `ProgramsAssumption`): `TypeCorrect` and
  `GeneratorAgreesWithC`, for any program, any names and types and any depth of
  nesting. Neither property is inductive. `IInv` relates three things at every
  step, inside a block as well: the calls in progress, the generator's scopes
  and the text. `Walking`: there is a scope for each call in progress that owns
  one (a list of statements, a `for`) and the program's below. `Mirrors`: what C
  has in scope behind the text are the generator's scopes without the lowest,
  and in each the two have the same last declaration of every name. `AllRight`:
  every name so far was written as what C reads there, which the text to come
  cannot change, as C reads forwards (`ReadingPrefix`). `Balanced` counts the
  marks. The text grows by pieces (`TellOpen`, `TellClose`, `TellDeclare`,
  `TellExpr`, `TellSemi`, `TellHeader`, `TellParameters`), one lemma for each,
  and an action is a few of them. An initializer is where the two sides part: it
  is written after the declarator, which C has read, and before `scope_add`;
  the lookups differ in that one name only (`LookUpOthers`), which is the
  exception that `NamesAgree` makes. The invariant gives more than
  `NamesAgree`, namely its conclusion in the middle of a function and without
  asking that no name is declared twice: both sides take the last declaration.
  For `Bodies`: `InfersAsDocumented` and `ComesOutAsDocumented`, for any program,
  any structs, functions and types, and expressions of any depth. Assumed:
  `TreesAssumption` (trees are the parser's); `StructsAssumption`,
  `FunctionsAssumption`, `TypesAssumption` (fields, parameters and variables have
  types of values: void is for function results, README.md:194);
  `ExpressionsAssumption` (expressions are among the trees and have the names
  of the program); `SymbolsAssumption` (a C symbol is of one function, which is
  what `SymbolsAreDistinct` proves of `Compiler`, and none of the runtime's);
  `NativesAssumption` (but for `str_size`, a native function is declared as the
  prototype in `rootrt.h` says, as far as C converts; a program that declares
  other C functions as native answers for their types itself). At a statement
  `IInv` makes the generator's lookup and C's the same function of names
  (`InFront`), and what is left is about that function. Equations like that of
  `infer` have one solution (`Recursive`), and what is so for a tree if it is
  for all lower ones is so for all (`ByHeight`). For `infer` the property is
  inductive (`InferredAt`). For `gen_expr` it is not: that an operand has the
  right C type up to promotion does not say that an assignment to it is one, nor that
  indexing a span finds what it points to. `Sound` adds that a place can be
  assigned to and has exactly the C type of its type, and that a span has, unless it
  is an array literal, whose C type is `void*`. Then there is a lemma for each
  kind of expression (`BinarySound`, `CallSound`, `FieldSound`, `ArraySound`,
  ...), and they rest on a few about types: what `SameInC` lets pass has the form of
  the type's own C type (`SameForm`), and converts to whatever that one
  converts to (`ConvertsAs`).
  For `Rope` (`InitCapAssumption`, `TextsAssumption`): `RopeTypeCorrect`,
  `RopeStaysInBounds`, `RopeStaysTerminated`, `RopeImplementsText`. `RopeIInv`
  adds that the block is no larger than the capacity while room is being made,
  and that room has been made when the store happens. `Rope`'s `Init`, `Next`
  and `Spec` carry its name because the module extends both.
* `LexerProofs` (`AlphabetAssumption`: sources are sequences without NUL, which
  is none of the characters the lexer looks for, and no character is two of
  digit, letter and sign, as in C's own locale): `TypeCorrect`, that a
  finished list, and no other, ends with "eof", which is what `ParserProofs`
  assumes; `LexerStaysInSource`. A step leaves the source only over a character
  it has not looked at, and the proof goes through the steps that have none.
  `PlaceIsKnown`: the lexer counts lines and columns as it goes; that they are
  those of the position holds because `After`, the counting of one character,
  takes each place of the source to the next one (`PlaceOfNext`), and no step,
  those over two characters included, passes a newline without counting it.
  `LexesLongest`: the lexer, which looks one or two characters ahead and never
  back, cuts every source into the tokens of `Lexemes`. The invariant
  (`LexedSoFar`) says in each mode what has been seen of the lexeme in progress
  (`InDigits`, `InFraction`, `InWord`, `InString`) and that the tokens so far,
  followed by `Tokens` from where that lexeme began, are `Tokens` from the
  beginning (`Goes`). For each kind of lexeme a lemma says that where the
  lexer ends one, `Longest` ends (`NumberEnds`, `WordEnds`, `StringEnds`,
  `OperatorEnds`, `TickEnds`). The first character tells the kinds apart
  (`ByFirst`), which is what the assumption is needed for. Strings are the
  hard part: which quotes close, and what the escapes stand for, is defined by
  recursion along the lexeme, the lexeme is not known before its end, and so
  the invariant compares with the whole rest of the text (`SameBeginning`).
* `ParserProofs` (`SourcesAssumption`: a token list ends with "eof", as
  `rl_lex` ends it): `ParserStaysInside`. The place alone is not inductive:
  `expect` advances over whatever it is told to expect, so the invariant types
  the stack, in which no function waits for the end of the file.
* `DriverProofs` (`SourcesAssumption`: a program's id is its own;
  `JobsAssumption`; `NoneAssumption`): `ExitZeroMeansBuilt`. `Undisturbed`
  compares what two runs have read and so becomes true and false; the invariant
  instead asks, for each program, that nobody has read anything else for these
  names, which can only become false. Under it the generated file is at any
  point a part of that program's C, what the C compiler accepts of a part is
  the whole, and only a later run for the same program touches the executable.
  `KeepMeansKept` and `SourcesAreSafe` need in addition (`FInv`) what the
  generated file holds at each point of a run whose names nobody else uses, that
  a file with C in it is all C, and that sources are only where they were at
  first. The first holds until the file is removed, if it is, and that is
  why a file that could not be is whole. `Touches` is the frame of every step: what it writes is
  one of the two names of its run.
* `RuntimeProofs` (`RuntimeAssumption`, `TextsAssumption`): `LinesComeWhole`,
  `TextsAreKept`, `FilesAreSaved`, `InputIsAsked`, for any number of handles
  and variables, any files and any buffer of two bytes or more. None of the
  properties is inductive. `IInv` adds that what a file lacks waits in the one
  stream that writes to it (`NothingLost`); that the pieces a handle has given
  are what lies before its position, all of them cut by the rule; that a fresh
  pointer into a static buffer finds its text there; and that what has been
  asked, the characters lost on the way and what is left of the input make up
  the whole, no lost one being other than a blank or a sign without a digit.
  `SlicesAreSubstrings`
  is about an operator: the clamping of `str_slice` for every pair of
  positions, negative, reversed or behind the end.
* `InstallationProofs` (`InstallationAssumption`: the source tree lies nowhere
  that the scripts install to or that an installed compiler looks in before its
  own library; `NoneAssumption`): `InstallWorks`, `LocalWorks`, for any
  directory of the tree, any number of objects, and any number of scripts,
  changes and cuts; `HomeIsFound`, of any disk. `IInv` says three things. The
  library in the tree is always of the tree's version (`TreeReady`): no command
  writes or deletes it, which is where the assumption is needed. Make takes
  the executable in the tree for up to date only if it is torn or linked from
  the objects as they are (`LocalBinary`). And for each script, what its first k
  commands have reached (`InstallReached`, `MakeInstallReached`), so that a
  script that ran to its end owes nothing to what it found. The proof of a
  step goes command by command, since a later copy must not undo an earlier
  one: the paths are pairwise different, and `mkdir -p` of a directory touches
  no file on the way to it.

Sets, sequences and numbers do admit induction here: the library's
well-foundedness of a set of numbers (`NatLessThanWellFounded`) and the
existence of a minimal counterexample take no operator as a parameter. That
is how the proofs go through the walk along a path, the flattening of lines,
the search for the last newline, C's reading of a text and the trees of expressions. A recursive function
is a choice of a function that satisfies its equation, so its existence is
proved in the same way before anything else (`TokensExist`, `Recursion`,
`Recursive`).

Only model-checked:

* all liveness, as the prover has no rule for fairness here: `Terminates`,
  `PushEnds`, `LoopsEnd`;
* `ReadAsWritten`, `DocumentedAccepted`: the grammar is stated by operators
  that are recursive in the text and the tree, about which the prover cannot be
  asked. `ParserStaysInside` is what is proved of the parser.

## 5. Not modelled yet, and the plan

In this order:

1. Growable lists of `ast.c`, `lexer.c`, `parser.c` and `resolver.c` as one
   module with the rope's proof as its model; the values of enumerators.
2. Memory that programs reserve, copy and release themselves, and span headers:
   a program that breaks the rules of `free` breaks C's, and no document says
   what the runtime promises it.

Left out for good: the wording of messages, the layout of the generated C, the
number formats of `snprintf`, and the C compiler itself, which appears by its
verdict.
