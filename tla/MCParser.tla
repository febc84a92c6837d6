------------------------------ MODULE MCParser ------------------------------
(***************************************************************************)
(* Parser on sentences of the README's grammar, on such sentences cut      *)
(* short or with a token removed, and on every short string of tokens in a *)
(* function's body.                                                        *)
(***************************************************************************)
EXTENDS Parser, Syntax

CONSTANTS Programs,     \* programs of the grammar, as trees
          Strays        \* token lists that need not be programs

Sentences == {<<Yield(p), p>> : p \in Programs}

SentenceTokens == {Yield(p) : p \in Programs}

MCSources == SentenceTokens \cup Strays

-----------------------------------------------------------------------------
(* Trees to build sentences from.                                          *)

X      == Leaf("name", "")
One    == Leaf("literal", "intlit")
IntType    == Leaf("type", "int")
NamedType  == Leaf("type", "ident")
Type2  == {IntType, Node("span", "", <<Node("ref", "", <<NamedType>>)>>)}

\* One operator of each level, and each pair that shares a level but "/" "%".
Operators == {"||", "&&", "==", "!=", "<", ">=", "+", "-", "*", "/"}

Unary(op, e)     == Node("unary", op, <<e>>)
Binary(op, l, r) == Node("binary", op, <<l, r>>)
Cast(e, t)       == Node("cast", "", <<e, t>>)
Index(e, i)      == Node("index", "", <<e, i>>)

Simple ==
    {X, One, Unary("-", X), Cast(X, IntType), Node("field", "", <<X>>), Index(X, One),
     Node("call", "", <<>>), Node("assign", "+=", <<X, X>>), Node("group", "", <<X>>)}
        \cup {Binary(op, X, X) : op \in Operators}

Compound ==
    {Binary(op, e, X) : op \in Operators, e \in Simple}
        \cup {Binary(op, X, e) : op \in Operators, e \in Simple}
        \cup {Node("assign", "=", <<l, r>>) : l \in Simple, r \in Simple}
        \cup {Unary(op, e) : op \in {"-", "!"}, e \in Simple}
        \cup {Cast(e, t) : e \in Simple, t \in Type2}
        \cup {Index(e, i) : e \in {X, Index(X, X), Unary("-", X)}, i \in Simple}
        \cup {Node("field", tok, <<e>>) : tok \in {"", "()"}, e \in Simple}
        \cup {Node(kind, "", args) : kind \in {"call", "modulecall"},
                                     args \in {<<e>> : e \in Simple} \cup
                                              {<<e, X>> : e \in Simple}}
        \cup {Node("group", "", <<e>>) : e \in Simple}
        \cup {Node("group", "", <<Node("array", "", es)>>) : es \in {<<>>, <<X>>, <<X, One>>}}
        \cup {Node("sizeof", "", <<t>>) : t \in Type2}
        \cup {Leaf("modulecall", "")}

DocumentedExpressions ==
    {e \in Simple \cup Compound : WellNested(e) /\ Unambiguous(Node("exprstmt", "", <<e>>))}

Block(stmts)     == Node("block", "", stmts)
Expression(e)    == Node("exprstmt", "", <<e>>)
Decl(t)          == Node("decl", "", <<t>>)
DeclInit(t, e)   == Node("decl", "", <<t, e>>)
Statement(op, d) == Node("declstmt", op, <<d>>)

Bodies == {Block(<<>>), Block(<<Expression(X)>>)}

Ifs == {Node("if", "", <<X, b>>) : b \in Bodies}

DeclarationStatements ==
    {Statement(op, d) : op \in {"", "let", "const"},
                        d \in {Decl(IntType), DeclInit(IntType, One),
                               Node("constdecl", "", <<Decl(IntType)>>)}}
        \cup {Statement("let", DeclInit(t, X)) : t \in Type2}

DocumentedStatements ==
    DeclarationStatements \cup Ifs
        \cup {Node("if", "else", <<X, b, c>>) : b \in Bodies, c \in Bodies \cup Ifs}
        \cup {Node("while", "", <<X, b>>) : b \in Bodies}
        \cup {Node("for", "", <<DeclInit(t, One), X, X, b>>) : t \in {IntType, NamedType}, b \in Bodies}
        \cup {Node("return", "", es) : es \in {<<>>, <<X>>}}
        \cup {Leaf("jump", op) : op \in {"stop", "skip"}}
        \cup Bodies

Parameters == {Leaf("params", ""),
               Node("params", "", <<Node("param", "", <<IntType>>), Node("param", "", <<NamedType>>)>>)}

Function(stmts) == Node("fn", "", <<Leaf("params", ""), Leaf("type", "void"), Block(stmts)>>)

DocumentedDeclarations ==
    {Node("fn", "", <<ps, t, Block(<<>>)>>) : ps \in Parameters, t \in Type2}
        \cup {Node("native", "", <<ps, IntType, Block(<<>>)>>) : ps \in Parameters}
        \cup {Node("struct", "", fs) : fs \in {<<>>, <<Node("field decl", "", <<IntType>>),
                                                       Node("field decl", "", <<NamedType>>)>>}}
        \cup {Node("enum", "", es) : es \in {<<Leaf("entry", "")>>,
                                             <<Leaf("entry", "="), Leaf("entry", "")>>}}
        \cup {Leaf("import", "")}

Program(decls) == Node("program", "", decls)

DocumentedPrograms ==
    {Program(<<>>)}
        \cup {Program(<<Function(<<Expression(e)>>)>>) : e \in DocumentedExpressions}
        \cup {Program(<<Function(<<s, t>>)>>) : s \in DocumentedStatements,
                                                t \in {Leaf("jump", "stop"), Statement("", Decl(IntType))}}
        \cup {Program(<<d, e>>) : d \in DocumentedDeclarations, e \in DocumentedDeclarations}

\* Two statements that declare a variable of a named type, without "let".
NamedDeclarations ==
    {Program(<<Function(<<Statement("", d), s>>)>>) :
        d \in {Decl(NamedType), DeclInit(NamedType, X)},
        s \in DocumentedStatements}

-----------------------------------------------------------------------------
(* Token lists that are not sentences, or not obviously.                   *)

EndedAt(s, n) == Append(SubSeq(s, 1, n), "eof")

\* A sentence that stops early, and one that has lost a token.
Damaged(s) ==
    {EndedAt(s, n) : n \in 0 .. Len(s) - 1}
        \cup {RemoveAt(s, n) : n \in 1 .. Len(s) - 1}

DamagedPrograms ==
    UNION {Damaged(Yield(Program(<<d>>))) : d \in DocumentedDeclarations}
        \cup UNION {Damaged(Yield(Program(<<Function(<<s>>)>>))) : s \in DocumentedStatements}
        \cup UNION {Damaged(Yield(Program(<<Function(<<Expression(e)>>)>>))) :
                       e \in DocumentedExpressions \cap Simple}

BodyTokens == {"ident", "intlit", "int", "*", "-", "to", "=", ".", "(", ")", "[", "]",
               "{", "}", ",", ";"}

BodyOf(tokens) == <<"fn", "ident", "(", ")", "return", "void", "{">> \o tokens
                     \o <<";", "}", "eof">>

\* The leniencies of parse_choices and parse_function.
Lenient ==
    { <<"enum", "ident", "=", "{", "}", "eof">>,
      <<"enum", "ident", "=", "{", "ident", ",", "}", "eof">>,
      <<"fn", "ident", "(", ")", "return", "int", "native", "string", "eof">>,
      <<"fn", "ident", "(", ")", "return", "int", "native", "string",
        "{", "stop", ";", "}", "eof">> }

MCStrays ==
    DamagedPrograms \cup Lenient
        \cup {BodyOf(body) : body \in BoundedSeq(BodyTokens, 3)}

-----------------------------------------------------------------------------
(* Properties.                                                             *)

\* The enumerators of an enum may end with a comma, which no node keeps.
WithoutLastCommas(s) ==
    FlattenSeq([i \in 1 .. Len(s) |->
                   IF s[i] = "," /\ s[i + 1] = "}" THEN <<>> ELSE <<s[i]>>])

\* An accepted file is read as the README's precedences say, and whole: its
\* program stands for exactly its tokens, in their order, with every operator
\* over the operands it binds to (rl_parse, the levels of parse_expr).
ReadAsWritten ==
    phase = "parsed" =>
        /\ Yield(vals[1]) = WithoutLastCommas(toks)
        /\ WellNested(vals[1])

\* The grammar's programs are accepted, and read its way (all parse_ functions),
\* but for: a variable of a struct type, which is the violation run's; what the
\* grammar reads in two ways, as a * behind a cast; and a let or const in the
\* header of a for.
DocumentedAccepted ==
    /\ phase = "rejected" => toks \notin SentenceTokens
    /\ phase = "parsed" => (toks \in SentenceTokens => <<toks, vals[1]>> \in Sentences)

\* Parsing ends, on programs and on damaged ones: no loop waits for a token
\* that does not come (Statements, Fields, Entries, MoreItems).
Terminates == <>(phase # "parsing")

=============================================================================
