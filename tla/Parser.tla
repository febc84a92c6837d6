------------------------------- MODULE Parser -------------------------------
(***************************************************************************)
(* The recursive descent of src/parser.c over the tokens of one file.      *)
(*                                                                         *)
(* A token is its kind, written as the README writes it ("ident", "string",*)
(* "(", "eof"); names, values and places are left out.  The C call stack   *)
(* is the sequence todo: what the functions that have been entered still   *)
(* have to do, the innermost first.  One action is one parse_ function up  *)
(* to its first inner call, one round of one of its loops, one expect or   *)
(* the construction of one node.                                           *)
(*                                                                         *)
(* The trees built are on the stack vals.  A node remembers three things   *)
(* the code's nodes forget, so that a tree determines its tokens: the      *)
(* parentheses around an expression, the "()" after a field, and the block *)
(* after a native function's symbol.                                       *)
(***************************************************************************)
EXTENDS Integers, Sequences, SequencesExt

-----------------------------------------------------------------------------
(* Token kinds.                                                            *)

BaseTypes ==
    {"int", "int8", "int16", "int64", "uint", "uint8", "uint16", "uint64",
     "float", "double", "char", "str", "bool", "void", "any"}

Literals == {"intlit", "floatlit", "doublelit", "string", "charlit", "boollit"}

AssignOps == {"=", "+=", "-=", "*=", "/="}

Keywords == {"struct", "enum", "fn", "return", "let", "const", "native", "if", "else",
             "while", "for", "stop", "skip", "use", "as", "to", "nil", "SpanOf", "RefOf",
             "sizeof"}

Signs == {"+", "-", "*", "/", "%", "=", "==", "!=", "<", ">", "<=", ">=", "&&", "||",
          "!", "&", ";", ",", ".", "(", ")", "{", "}", "[", "]"}

Kinds == BaseTypes \cup Literals \cup Keywords \cup Signs \cup AssignOps \cup {"ident"}

\* The left-associative levels, loosest first: parse_logic_or ... parse_factor.
BinaryOps == << {"||"}, {"&&"}, {"==", "!="}, {"<", ">", "<=", ">="},
                {"+", "-"}, {"*", "/", "%"} >>

\* k >= TK_KW_INT: in the order of token.h only the literals come before.
is_keyword_token(k) == k \notin Literals

CONSTANT Sources        \* the token lists rl_lex may have produced

ASSUME SourcesAssumption ==
    \A s \in Sources : /\ s \in Seq(Kinds \cup {"eof"})
                       /\ Len(s) > 0
                       /\ s[Len(s)] = "eof"

VARIABLES
    toks,       \* Parser.toks
    pos,        \* Parser.pos, counted from 1
    todo,       \* the rest of the functions entered: a sequence of frames
    vals,       \* the trees built and not yet part of another one
    phase       \* "parsing", "parsed", or "rejected": rl_fatal, exit 1

vars == <<toks, pos, todo, vals, phase>>

-----------------------------------------------------------------------------
(* Frames and trees.                                                       *)

Rule(r)             == [do |-> "parse", rule |-> r]
Level(n)            == [do |-> "level", n |-> n]
LevelTail(n)        == [do |-> "tail", n |-> n]
Expect(k)           == [do |-> "expect", tok |-> k]
Make(kind, tok, n)  == [do |-> "make", kind |-> kind, tok |-> tok, n |-> n]
Add                 == [do |-> "add"]
Items(r, close)     == [do |-> "items", rule |-> r, close |-> close]
MoreItems(r)        == [do |-> "more", rule |-> r]

Rules == {"assignment", "block", "body", "casts", "constmark", "decl",
          "entries", "enum", "expr", "fields", "fnbody",
          "initialiser", "moreentries", "native", "orelse", "param",
          "params", "postfix", "primary", "program", "statements",
          "stmt", "struct", "suffix", "type", "unary", "value",
          "when"}

Made == {"assign", "binary", "cast", "constdecl", "decl", "declstmt", "entry",
         "exprstmt", "field", "field decl", "fn", "for", "group",
         "if", "import", "index", "jump", "native", "param", "ref",
         "return", "sizeof", "span", "unary", "while"}

\* No function waits for the end of the file: it is never consumed.
Frame ==
    [do : {"parse", "more"}, rule : Rules]
        \cup [do : {"level"}, n : 1 .. 7] \cup [do : {"tail"}, n : 1 .. 6]
        \cup [do : {"expect"}, tok : Kinds] \cup [do : {"add"}]
        \cup [do : {"make"}, kind : Made, tok : Kinds \cup {"", "()"}, n : 0 .. 4]
        \cup [do : {"items"}, rule : Rules, close : Kinds]

Node(kind, tok, kids) == [kind |-> kind, tok |-> tok, kids |-> kids]
Leaf(kind, tok)       == Node(kind, tok, <<>>)

Peek     == toks[pos]
Ahead(n) == toks[pos + n]

\* advance stays on the last token.  Elsewhere Go(1, ...) is written where a
\* token other than the last has been seen.
advance == IF Peek = "eof" THEN 0 ELSE 1

Running(frame) == phase = "parsing" /\ todo # <<>> /\ Head(todo) = frame
At(do)         == phase = "parsing" /\ todo # <<>> /\ Head(todo).do = do

\* What remains of the function, in place of the frame that has been reached.
Continue(frames) == todo' = frames \o Tail(todo)
Advance(n)       == pos' = pos + n
Push(node)       == vals' = Append(vals, node)

Reject ==
    /\ phase' = "rejected"
    /\ UNCHANGED <<toks, pos, todo, vals>>

\* The step consumes n tokens, pushes no tree, and goes on with the frames.
Go(n, frames) == Advance(n) /\ Continue(frames) /\ UNCHANGED <<toks, vals, phase>>

\* The same, with a tree pushed.
GoWith(n, node, frames) ==
    Advance(n) /\ Push(node) /\ Continue(frames) /\ UNCHANGED <<toks, phase>>

Init ==
    /\ toks \in Sources
    /\ pos = 1
    /\ todo = << Rule("program") >>
    /\ vals = << Leaf("program", "") >>
    /\ phase = "parsing"

-----------------------------------------------------------------------------
(* expect, node construction and comma-separated lists.                    *)

ExpectToken ==
    /\ At("expect")
    /\ IF Peek = Head(todo).tok THEN Go(1, <<>>) ELSE Reject

MakeNode ==
    /\ At("make")
    /\ LET frame == Head(todo)
           rest  == Len(vals) - frame.n
       IN  vals' = Append(SubSeq(vals, 1, rest),
                          Node(frame.kind, frame.tok, SubSeq(vals, rest + 1, Len(vals))))
    /\ Continue(<<>>)
    /\ UNCHANGED <<toks, pos, phase>>

\* The last tree becomes the last element of the list beneath it.
AddToList ==
    /\ At("add")
    /\ LET list == vals[Len(vals) - 1]
       IN  vals' = Append(SubSeq(vals, 1, Len(vals) - 2),
                          [list EXCEPT !.kids = Append(@, vals[Len(vals)])])
    /\ Continue(<<>>)
    /\ UNCHANGED <<toks, pos, phase>>

ParseItems ==
    /\ At("items")
    /\ LET r == Head(todo).rule
           close == Head(todo).close
       IN  Go(0, IF Peek = close THEN << Expect(close) >>
                 ELSE << Rule(r), Add, MoreItems(r), Expect(close) >>)

ParseMoreItems ==
    /\ At("more")
    /\ LET r == Head(todo).rule
       IN  IF Peek = "," THEN Go(1, << Rule(r), Add, MoreItems(r) >>) ELSE Go(0, <<>>)

-----------------------------------------------------------------------------
(* Types.                                                                  *)

parse_type ==
    /\ Running(Rule("type"))
    /\ IF Peek \in BaseTypes \cup {"ident"}
       THEN GoWith(1, Leaf("type", Peek), << Rule("suffix") >>)
       ELSE Reject

\* Every "*" and "[]" that follows is taken as part of the type.
TypeSuffix ==
    /\ Running(Rule("suffix"))
    /\ CASE Peek = "[" -> Go(1, << Expect("]"), Make("span", "", 1), Rule("suffix") >>)
         [] Peek = "*" -> Go(1, << Make("ref", "", 1), Rule("suffix") >>)
         [] OTHER      -> Go(0, <<>>)

-----------------------------------------------------------------------------
(* Expressions.                                                            *)

parse_expr ==
    /\ Running(Rule("expr"))
    /\ Go(0, << Level(1), Rule("assignment") >>)

AssignmentTail ==
    /\ Running(Rule("assignment"))
    /\ IF Peek \in AssignOps THEN Go(1, << Rule("expr"), Make("assign", Peek, 2) >>)
       ELSE Go(0, <<>>)

\* parse_logic_or down to parse_factor, and parse_cast as level 7.
parse_binary ==
    /\ At("level")
    /\ LET n == Head(todo).n
       IN  Go(0, IF n = 7 THEN << Rule("unary"), Rule("casts") >>
                 ELSE << Level(n + 1), LevelTail(n) >>)

(* Mutant: the right operand is parsed at the operator's level.           *)
BinaryTailRightward ==
    /\ At("tail")
    /\ LET n == Head(todo).n
       IN  IF Peek \in BinaryOps[n]
           THEN Go(1, << Level(n), Make("binary", Peek, 2), LevelTail(n) >>)
           ELSE Go(0, <<>>)

BinaryTail ==
    /\ At("tail")
    /\ LET n == Head(todo).n
       IN  IF Peek \in BinaryOps[n]
           THEN Go(1, << Level(n + 1), Make("binary", Peek, 2), LevelTail(n) >>)
           ELSE Go(0, <<>>)

CastTail ==
    /\ Running(Rule("casts"))
    /\ IF Peek = "to" THEN Go(1, << Rule("type"), Make("cast", "", 2), Rule("casts") >>)
       ELSE Go(0, <<>>)

parse_unary ==
    /\ Running(Rule("unary"))
    /\ IF Peek \in {"-", "!"} THEN Go(1, << Rule("unary"), Make("unary", Peek, 1) >>)
       ELSE Go(0, << Rule("primary"), Rule("postfix") >>)

(* Mutant: whatever follows the dot is the field's name.                  *)
FieldTailUnchecked == Go(2, << Make("field", "", 1), Rule("postfix") >>)

\* After a field name "()" is taken, and nothing else may stand in it.
FieldTail ==
    CASE Ahead(1) # "ident" -> Reject
      [] Ahead(1) = "ident" /\ Ahead(2) # "(" ->
            Go(2, << Make("field", "", 1), Rule("postfix") >>)
      [] Ahead(1) = "ident" /\ Ahead(2) = "(" /\ Ahead(3) = ")" ->
            Go(4, << Make("field", "()", 1), Rule("postfix") >>)
      [] OTHER -> Reject

parse_postfix ==
    /\ Running(Rule("postfix"))
    /\ CASE Peek = "." -> FieldTail
         [] Peek = "[" -> Go(1, << Rule("expr"), Expect("]"), Make("index", "", 2),
                                   Rule("postfix") >>)
         [] OTHER      -> Go(0, <<>>)

\* parse_args fills the call node, which has been pushed without arguments.
Args == << Expect("("), Items("expr", ")") >>

PrimaryName ==
    CASE Ahead(1) = "." /\ Ahead(2) = "ident" /\ Ahead(3) = "(" ->
            GoWith(3, Leaf("modulecall", ""), Args)
      [] Ahead(1) = "(" -> GoWith(1, Leaf("call", ""), Args)
      [] OTHER          -> GoWith(1, Leaf("name", ""), <<>>)

parse_primary ==
    /\ Running(Rule("primary"))
    /\ CASE Peek \in Literals \cup {"nil"} -> GoWith(1, Leaf("literal", Peek), <<>>)
         [] Peek = "sizeof" -> Go(1, << Expect("("), Rule("type"), Expect(")"),
                                        Make("sizeof", "", 1) >>)
         [] Peek = "(" -> Go(1, << Rule("expr"), Expect(")"), Make("group", "", 1) >>)
         [] Peek = "{" -> GoWith(1, Leaf("array", ""), << Items("expr", "}") >>)
         [] Peek = "ident" -> PrimaryName
         [] OTHER -> Reject

-----------------------------------------------------------------------------
(* Statements.                                                             *)

\* The lookahead of starts_var_decl over "*" and "[]" up to a second name.
DeclaratorFollows ==
    \E j \in pos + 1 .. Len(toks) :
        /\ toks[j] = "ident"
        /\ \A i \in pos + 1 .. j - 1 :
              \/ toks[i] = "*"
              \/ toks[i] = "[" /\ toks[i + 1] = "]"
              \/ toks[i] = "]" /\ toks[i - 1] = "["

starts_var_decl ==
    \/ Peek \in BaseTypes
    \/ Peek = "ident" /\ ~is_keyword_token(Peek) /\ DeclaratorFollows

parse_var_decl ==
    /\ Running(Rule("decl"))
    /\ Go(0, << Rule("type"), Expect("ident"), Rule("initialiser"), Rule("constmark") >>)

Initialiser ==
    /\ Running(Rule("initialiser"))
    /\ IF Peek = "=" THEN Go(1, << Rule("expr"), Make("decl", "", 2) >>)
       ELSE Go(0, << Make("decl", "", 1) >>)

ConstMark ==
    /\ Running(Rule("constmark"))
    /\ IF Peek = "const" THEN Go(1, << Make("constdecl", "", 1) >>) ELSE Go(0, <<>>)

parse_block ==
    /\ Running(Rule("block"))
    /\ Go(0, << Expect("{"), Rule("body") >>)

BlockBody ==
    /\ Running(Rule("body"))
    /\ GoWith(0, Leaf("block", ""), << Rule("statements"), Expect("}") >>)

Statements ==
    /\ Running(Rule("statements"))
    /\ Go(0, IF Peek \in {"}", "eof"} THEN <<>>
             ELSE << Rule("stmt"), Add, Rule("statements") >>)

parse_when ==
    /\ Running(Rule("when"))
    /\ Go(advance, << Expect("("), Rule("expr"), Expect(")"), Rule("block"), Rule("orelse") >>)

(* Mutant: "else" is always followed by a block.                          *)
OrElseBlockOnly ==
    /\ Running(Rule("orelse"))
    /\ IF Peek # "else" THEN Go(0, << Make("if", "", 2) >>)
       ELSE Go(1, << Rule("block"), Make("if", "else", 3) >>)

OrElse ==
    /\ Running(Rule("orelse"))
    /\ IF Peek # "else" THEN Go(0, << Make("if", "", 2) >>)
       ELSE Go(1, << Rule(IF Ahead(1) = "if" THEN "when" ELSE "block"),
                     Make("if", "else", 3) >>)

parse_stmt ==
    /\ Running(Rule("stmt"))
    /\ CASE Peek = "{"  -> Go(0, << Rule("block") >>)
         [] Peek = "if" -> Go(0, << Rule("when") >>)
         [] Peek = "while" ->
              Go(1, << Expect("("), Rule("expr"), Expect(")"), Rule("block"),
                       Make("while", "", 2) >>)
         [] Peek = "for" ->
              Go(1, << Expect("("), Rule("decl"), Expect(","), Rule("expr"), Expect(","),
                       Rule("expr"), Expect(")"), Rule("block"), Make("for", "", 4) >>)
         [] Peek = "return" ->
              Go(1, IF Ahead(1) = ";" THEN << Make("return", "", 0), Expect(";") >>
                    ELSE << Rule("expr"), Make("return", "", 1), Expect(";") >>)
         [] Peek \in {"stop", "skip"} -> Go(1, << Make("jump", Peek, 0), Expect(";") >>)
         [] Peek \in {"let", "const"} ->
              Go(1, << Rule("decl"), Make("declstmt", Peek, 1), Expect(";") >>)
         [] starts_var_decl -> Go(0, << Rule("decl"), Make("declstmt", "", 1), Expect(";") >>)
         [] OTHER -> Go(0, << Rule("expr"), Make("exprstmt", "", 1), Expect(";") >>)

-----------------------------------------------------------------------------
(* Top-level declarations.                                                 *)

parse_import == << Expect("("), Expect("string"), Expect(")"), Expect("as"),
                   Expect("ident"), Expect(";"), Make("import", "", 0) >>

parse_function == << Expect("ident"), Expect("("), Rule("params"),
                     Expect("return"), Rule("type"), Rule("fnbody") >>

parse_blueprint == << Expect("ident"), Expect("="), Expect("{"), Rule("struct") >>

parse_choices == << Expect("ident"), Expect("="), Expect("{"), Rule("enum") >>

(* Mutant: the error is reported and parsing goes on.                     *)
rl_parse_reporting ==
    /\ Running(Rule("program"))
    /\ LET Declaration(frames) == Go(1, frames \o << Add, Rule("program") >>)
       IN  CASE Peek = "eof" ->
                  /\ phase' = "parsed"
                  /\ Continue(<<>>)
                  /\ UNCHANGED <<toks, pos, vals>>
             [] Peek = "use"    -> Declaration(parse_import)
             [] Peek = "fn"     -> Declaration(parse_function)
             [] Peek = "struct" -> Declaration(parse_blueprint)
             [] Peek = "enum"   -> Declaration(parse_choices)
             [] OTHER -> UNCHANGED vars

rl_parse ==
    /\ Running(Rule("program"))
    /\ LET Declaration(frames) == Go(1, frames \o << Add, Rule("program") >>)
       IN  CASE Peek = "eof" ->
                  /\ phase' = "parsed"
                  /\ Continue(<<>>)
                  /\ UNCHANGED <<toks, pos, vals>>
             [] Peek = "use"    -> Declaration(parse_import)
             [] Peek = "fn"     -> Declaration(parse_function)
             [] Peek = "struct" -> Declaration(parse_blueprint)
             [] Peek = "enum"   -> Declaration(parse_choices)
             [] OTHER -> Reject

Params ==
    /\ Running(Rule("params"))
    /\ GoWith(0, Leaf("params", ""), << Items("param", ")") >>)

Param ==
    /\ Running(Rule("param"))
    /\ Go(0, << Rule("type"), Expect("ident"), Make("param", "", 1) >>)

FunctionBody ==
    /\ Running(Rule("fnbody"))
    /\ IF Peek = "native" THEN Go(1, << Expect("string"), Rule("native") >>)
       ELSE Go(0, << Rule("block"), Make("fn", "", 3) >>)

\* The block after a native symbol may be absent, and may hold statements:
\* they are parsed and thrown away.
NativeBlock ==
    /\ Running(Rule("native"))
    /\ Go(0, IF Peek = "{" THEN << Rule("block"), Make("native", "", 3) >>
             ELSE << Make("native", "", 2) >>)

StructBody ==
    /\ Running(Rule("struct"))
    /\ GoWith(0, Leaf("struct", ""), << Rule("fields"), Expect("}") >>)

Fields ==
    /\ Running(Rule("fields"))
    /\ Go(0, IF Peek \in {"}", "eof"} THEN <<>>
             ELSE << Rule("type"), Expect("ident"), Expect(";"), Make("field decl", "", 1),
                     Add, Rule("fields") >>)

EnumBody ==
    /\ Running(Rule("enum"))
    /\ GoWith(0, Leaf("enum", ""), << Rule("entries"), Expect("}") >>)

\* An enum may be empty.  A comma may follow the last enumerator.
Entries ==
    /\ Running(Rule("entries"))
    /\ Go(0, IF Peek = "}" THEN <<>> ELSE << Expect("ident"), Rule("value") >>)

EntryValue ==
    /\ Running(Rule("value"))
    /\ IF Peek = "=" THEN Go(1, << Expect("intlit"), Make("entry", "=", 0), Add,
                                   Rule("moreentries") >>)
       ELSE Go(0, << Make("entry", "", 0), Add, Rule("moreentries") >>)

MoreEntries ==
    /\ Running(Rule("moreentries"))
    /\ IF Peek = "," THEN Go(1, << Rule("entries") >>) ELSE Go(0, <<>>)

-----------------------------------------------------------------------------
Expressions ==
    \/ parse_expr \/ AssignmentTail \/ parse_binary \/ BinaryTail \/ CastTail
    \/ parse_unary \/ parse_postfix \/ parse_primary

StatementStep ==
    \/ parse_var_decl \/ Initialiser \/ ConstMark \/ parse_block \/ BlockBody
    \/ Statements \/ parse_when \/ OrElse \/ parse_stmt

Declarations ==
    \/ rl_parse \/ Params \/ Param \/ FunctionBody \/ NativeBlock \/ StructBody
    \/ Fields \/ EnumBody \/ Entries \/ EntryValue \/ MoreEntries

Next ==
    \/ ExpectToken \/ MakeNode \/ AddToList \/ ParseItems \/ ParseMoreItems
    \/ parse_type \/ TypeSuffix
    \/ Expressions \/ StatementStep \/ Declarations

Spec == Init /\ [][Next]_vars /\ WF_vars(Next)

\* The token list is never left: whatever the tokens and the functions that
\* look one, two or three of them ahead, the next token is one of the list's
\* (peek, advance, the lookaheads of parse_primary and parse_postfix).
StaysInside == pos \in 1 .. Len(toks)

=============================================================================
