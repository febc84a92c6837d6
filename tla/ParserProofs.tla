---------------------------- MODULE ParserProofs ----------------------------
(***************************************************************************)
(* The parser never leaves its token list, whatever the tokens.            *)
(*                                                                         *)
(* pos alone is not inductive: expect advances over the token it is told   *)
(* to wait for, so it must be known that no function on the stack waits    *)
(* for the end of the file.  The invariant therefore types the stack.      *)
(***************************************************************************)
EXTENDS Parser, TLAPS

IInv ==
    /\ toks \in Sources
    /\ StaysInside
    /\ todo \in Seq(Frame)

-----------------------------------------------------------------------------
(* The token list ends with "eof": from any other token there is a next.   *)

LEMMA NextToken ==
    ASSUME IInv
    PROVE  /\ pos + 0 \in 1 .. Len(toks)
           /\ Peek \in Kinds \cup {"eof"}
           /\ Peek # "eof" => pos + 1 \in 1 .. Len(toks)
<1>1. /\ toks \in Seq(Kinds \cup {"eof"})
      /\ pos \in 1 .. Len(toks)
      /\ toks[Len(toks)] = "eof"
  BY SourcesAssumption DEF IInv, StaysInside
<1> QED BY <1>1 DEF Peek

\* The same, further ahead.
LEMMA TokenAfter ==
    ASSUME IInv, NEW n \in Nat, pos + n \in 1 .. Len(toks), Ahead(n) # "eof"
    PROVE  pos + n + 1 \in 1 .. Len(toks)
<1>1. /\ toks \in Seq(Kinds \cup {"eof"})
      /\ pos \in 1 .. Len(toks)
      /\ toks[Len(toks)] = "eof"
  BY SourcesAssumption DEF IInv, StaysInside
<1> QED BY <1>1 DEF Ahead

-----------------------------------------------------------------------------
(* A step that stays inside and goes on with frames keeps the invariant.   *)

LEMMA GoInside ==
    ASSUME IInv, todo # <<>>, NEW n \in Nat, pos + n \in 1 .. Len(toks),
           NEW frames \in Seq(Frame), Go(n, frames)
    PROVE  IInv'
BY DEF IInv, StaysInside, Go, Advance, Continue

\* The same, for a step that pushes a tree.
LEMMA GoWithInside ==
    ASSUME IInv, todo # <<>>, NEW n \in Nat, pos + n \in 1 .. Len(toks),
           NEW node, NEW frames \in Seq(Frame), GoWith(n, node, frames)
    PROVE  IInv'
BY DEF IInv, StaysInside, GoWith, Advance, Continue

\* rl_fatal leaves everything where it is.
LEMMA RejectInside == ASSUME IInv, Reject PROVE IInv'
BY DEF IInv, StaysInside, Reject

\* Frames built from names and kinds of the sets are frames.
LEMMA FrameMakers ==
    /\ \A r \in Rules : Rule(r) \in Frame /\ MoreItems(r) \in Frame
    /\ \A n \in 1 .. 7 : Level(n) \in Frame
    /\ \A n \in 1 .. 6 : LevelTail(n) \in Frame
    /\ \A k \in Kinds : Expect(k) \in Frame
    /\ \A kind \in Made, tok \in Kinds, n \in 0 .. 4 : Make(kind, tok, n) \in Frame
    /\ Add \in Frame
BY DEF Frame, Rule, MoreItems, Level, LevelTail, Expect, Make, Add

\* Frames before frames are frames.
LEMMA Joined == \A a, b \in Seq(Frame) : a \o b \in Seq(Frame)
OBVIOUS

\* A loop that ends goes on with nothing.
LEMMA EmptyFrames == <<>> \in Seq(Frame)
OBVIOUS

-----------------------------------------------------------------------------
(* What the functions go on with is frames, and none waits for "eof".      *)

LEMMA TypeFrames ==
    /\ << Rule("suffix") >> \in Seq(Frame)
    /\ << Expect("]"), Make("span", "", 1), Rule("suffix") >> \in Seq(Frame)
    /\ << Make("ref", "", 1), Rule("suffix") >> \in Seq(Frame)
BY DEF Rule, Level, LevelTail, Expect, Make, Add, Items, MoreItems,
       Frame, Rules, Made, Kinds, BaseTypes, Literals, Keywords, Signs, AssignOps

\* Of the functions for expressions.
LEMMA ExprFrames ==
    /\ << Level(1), Rule("assignment") >> \in Seq(Frame)
    /\ << Rule("unary"), Rule("casts") >> \in Seq(Frame)
    /\ << Rule("type"), Make("cast", "", 2), Rule("casts") >> \in Seq(Frame)
    /\ << Rule("primary"), Rule("postfix") >> \in Seq(Frame)
    /\ << Make("field", "", 1), Rule("postfix") >> \in Seq(Frame)
    /\ << Make("field", "()", 1), Rule("postfix") >> \in Seq(Frame)
    /\ << Rule("expr"), Expect("]"), Make("index", "", 2), Rule("postfix") >> \in Seq(Frame)
    /\ << Expect("("), Rule("type"), Expect(")"), Make("sizeof", "", 1) >> \in Seq(Frame)
    /\ << Rule("expr"), Expect(")"), Make("group", "", 1) >> \in Seq(Frame)
    /\ << Items("expr", "}") >> \in Seq(Frame)
    /\ << Expect("("), Items("expr", ")") >> \in Seq(Frame)
    /\ \A k \in Kinds : << Rule("expr"), Make("assign", k, 2) >> \in Seq(Frame)
    /\ \A k \in Kinds : << Rule("unary"), Make("unary", k, 1) >> \in Seq(Frame)
BY DEF Rule, Level, LevelTail, Expect, Make, Add, Items, MoreItems,
       Frame, Rules, Made, Kinds, BaseTypes, Literals, Keywords, Signs, AssignOps

\* Of the functions for statements.
LEMMA StmtFrames ==
    /\ << Rule("type"), Expect("ident"), Rule("initialiser"), Rule("constmark") >> \in Seq(Frame)
    /\ << Rule("expr"), Make("decl", "", 2) >> \in Seq(Frame)
    /\ << Make("decl", "", 1) >> \in Seq(Frame)
    /\ << Make("constdecl", "", 1) >> \in Seq(Frame)
    /\ << Expect("{"), Rule("body") >> \in Seq(Frame)
    /\ << Rule("statements"), Expect("}") >> \in Seq(Frame)
    /\ << Rule("stmt"), Add, Rule("statements") >> \in Seq(Frame)
    /\ << Expect("("), Rule("expr"), Expect(")"), Rule("block"), Rule("orelse") >> \in Seq(Frame)
    /\ << Make("if", "", 2) >> \in Seq(Frame)
    /\ << Rule("when"), Make("if", "else", 3) >> \in Seq(Frame)
    /\ << Rule("block"), Make("if", "else", 3) >> \in Seq(Frame)
    /\ << Rule("block") >> \in Seq(Frame)
    /\ << Rule("when") >> \in Seq(Frame)
    /\ << Expect("("), Rule("expr"), Expect(")"), Rule("block"), Make("while", "", 2) >> \in Seq(Frame)
    /\ << Expect("("), Rule("decl"), Expect(","), Rule("expr"), Expect(","),
          Rule("expr"), Expect(")"), Rule("block"), Make("for", "", 4) >> \in Seq(Frame)
    /\ << Make("return", "", 0), Expect(";") >> \in Seq(Frame)
    /\ << Rule("expr"), Make("return", "", 1), Expect(";") >> \in Seq(Frame)
    /\ << Rule("decl"), Make("declstmt", "", 1), Expect(";") >> \in Seq(Frame)
    /\ << Rule("expr"), Make("exprstmt", "", 1), Expect(";") >> \in Seq(Frame)
    /\ \A k \in Kinds : << Make("jump", k, 0), Expect(";") >> \in Seq(Frame)
    /\ \A k \in Kinds : << Rule("decl"), Make("declstmt", k, 1), Expect(";") >> \in Seq(Frame)
BY DEF Rule, Level, LevelTail, Expect, Make, Add, Items, MoreItems,
       Frame, Rules, Made, Kinds, BaseTypes, Literals, Keywords, Signs, AssignOps

\* Of the loops of declarations.
LEMMA DeclFrames ==
    /\ << Items("param", ")") >> \in Seq(Frame)
    /\ << Rule("type"), Expect("ident"), Make("param", "", 1) >> \in Seq(Frame)
    /\ << Expect("string"), Rule("native") >> \in Seq(Frame)
    /\ << Rule("block"), Make("fn", "", 3) >> \in Seq(Frame)
    /\ << Rule("block"), Make("native", "", 3) >> \in Seq(Frame)
    /\ << Make("native", "", 2) >> \in Seq(Frame)
    /\ << Rule("fields"), Expect("}") >> \in Seq(Frame)
    /\ << Rule("type"), Expect("ident"), Expect(";"), Make("field decl", "", 1),
          Add, Rule("fields") >> \in Seq(Frame)
    /\ << Rule("entries"), Expect("}") >> \in Seq(Frame)
    /\ << Expect("ident"), Rule("value") >> \in Seq(Frame)
    /\ << Expect("intlit"), Make("entry", "=", 0), Add, Rule("moreentries") >> \in Seq(Frame)
    /\ << Make("entry", "", 0), Add, Rule("moreentries") >> \in Seq(Frame)
    /\ << Rule("entries") >> \in Seq(Frame)
BY DEF Rule, Level, LevelTail, Expect, Make, Add, Items, MoreItems,
       Frame, Rules, Made, Kinds, BaseTypes, Literals, Keywords, Signs, AssignOps

\* Of the declarations themselves.
LEMMA FileFrames ==
    /\ << Expect("("), Expect("string"), Expect(")"), Expect("as"),
          Expect("ident"), Expect(";"), Make("import", "", 0) >> \in Seq(Frame)
    /\ << Expect("ident"), Expect("("), Rule("params"),
          Expect("return"), Rule("type"), Rule("fnbody") >> \in Seq(Frame)
    /\ << Expect("ident"), Expect("="), Expect("{"), Rule("struct") >> \in Seq(Frame)
    /\ << Expect("ident"), Expect("="), Expect("{"), Rule("enum") >> \in Seq(Frame)
    /\ << Add, Rule("program") >> \in Seq(Frame)
BY DEF Rule, Level, LevelTail, Expect, Make, Add, Items, MoreItems,
       Frame, Rules, Made, Kinds, BaseTypes, Literals, Keywords, Signs, AssignOps

\* Of the six binary levels.
LEMMA LevelFrames ==
    ASSUME NEW n \in 1 .. 6
    PROVE  /\ << Level(n + 1), LevelTail(n) >> \in Seq(Frame)
           /\ \A k \in Kinds :
                 << Level(n + 1), Make("binary", k, 2), LevelTail(n) >> \in Seq(Frame)
<1>1. Level(n + 1) \in Frame /\ LevelTail(n) \in Frame
  BY FrameMakers
<1>3. \A k \in Kinds : Make("binary", k, 2) \in Frame
  <2>1. "binary" \in Made /\ 2 \in 0 .. 4
    BY DEF Made
  <2> QED BY <2>1, FrameMakers
<1> QED BY <1>1, <1>3

-----------------------------------------------------------------------------
(* Every action keeps the invariant.                                       *)

\* The function reached is one of the frames.
LEMMA TopFrame ==
    ASSUME IInv, NEW do, At(do)
    PROVE  todo # <<>> /\ Head(todo) \in Frame /\ Head(todo).do = do
BY DEF IInv, At

\* expect advances over the token it waits for, which is not "eof".
LEMMA ExpectInside == ASSUME IInv, ExpectToken PROVE IInv'
<1>1. Head(todo) \in Frame /\ Head(todo).do = "expect" /\ todo # <<>>
  BY TopFrame DEF ExpectToken
<1>2. Head(todo).tok # "eof"
  BY <1>1 DEF Frame, Kinds, BaseTypes, Literals, Keywords, Signs, AssignOps
<1>3. CASE Peek = Head(todo).tok
  BY <1>1, <1>2, <1>3, NextToken, EmptyFrames, GoInside DEF ExpectToken
<1>4. CASE Peek # Head(todo).tok
  BY <1>4, RejectInside DEF ExpectToken
<1> QED BY <1>3, <1>4

\* The comma-separated lists.
LEMMA ListsInside == ASSUME IInv, ParseItems \/ ParseMoreItems PROVE IInv'
<1>1. /\ \A r \in Rules : << Rule(r), Add, MoreItems(r) >> \in Seq(Frame)
      /\ \A close \in Kinds : << Expect(close) >> \in Seq(Frame)
      /\ \A r \in Rules, close \in Kinds :
            << Rule(r), Add, MoreItems(r), Expect(close) >> \in Seq(Frame)
  BY FrameMakers
<1>2. CASE ParseItems
  <2>1. Head(todo) \in Frame /\ Head(todo).do = "items" /\ todo # <<>>
    BY <1>2, TopFrame DEF ParseItems
  <2>2. Head(todo).rule \in Rules /\ Head(todo).close \in Kinds
    BY <2>1 DEF Frame
  <2> QED BY <1>1, <1>2, <2>1, <2>2, NextToken, GoInside DEF ParseItems
<1>3. CASE ParseMoreItems
  <2>1. Head(todo) \in Frame /\ Head(todo).do = "more" /\ todo # <<>>
    BY <1>3, TopFrame DEF ParseMoreItems
  <2>2. Head(todo).rule \in Rules
    BY <2>1 DEF Frame
  <2> QED BY <1>1, <1>3, <2>1, <2>2, NextToken, EmptyFrames, GoInside DEF ParseMoreItems
<1> QED BY <1>2, <1>3

\* parse_logic_or to parse_cast.
LEMMA LevelsInside == ASSUME IInv, parse_binary \/ BinaryTail PROVE IInv'
<1>1. CASE parse_binary
  <2>1. Head(todo) \in Frame /\ Head(todo).do = "level" /\ todo # <<>>
    BY <1>1, TopFrame DEF parse_binary
  <2>2. Head(todo).n \in 1 .. 7
    BY <2>1 DEF Frame
  <2>3. CASE Head(todo).n = 7
    BY <1>1, <2>1, <2>3, NextToken, ExprFrames, GoInside DEF parse_binary
  <2>4. CASE Head(todo).n \in 1 .. 6
    <3> DEFINE frames == << Level(Head(todo).n + 1), LevelTail(Head(todo).n) >>
    <3>1. frames \in Seq(Frame)
      BY <2>4, LevelFrames
    <3>2. Go(0, frames)
      BY <1>1, <2>4 DEF parse_binary
    <3> QED BY <2>1, <3>1, <3>2, NextToken, GoInside
  <2> QED BY <2>2, <2>3, <2>4
<1>2. CASE BinaryTail
  <2>1. Head(todo) \in Frame /\ Head(todo).do = "tail" /\ todo # <<>>
    BY <1>2, TopFrame DEF BinaryTail
  <2>2. Head(todo).n \in 1 .. 6
    BY <2>1 DEF Frame
  <2>3. Peek \in BinaryOps[Head(todo).n] => Peek # "eof" /\ Peek \in Kinds
    BY <2>2, NextToken DEF BinaryOps
  <2> QED BY <1>2, <2>1, <2>2, <2>3, NextToken, EmptyFrames, LevelFrames, GoInside DEF BinaryTail
<1> QED BY <1>1, <1>2

\* parse_when advances without looking: advance itself stays on "eof".
LEMMA WhenInside == ASSUME IInv, parse_when PROVE IInv'
<1>1. advance \in Nat /\ pos + advance \in 1 .. Len(toks)
  BY NextToken DEF advance
<1> QED BY <1>1, StmtFrames, GoInside DEF parse_when, Running

\* Two tokens are taken after the dot, or four, each seen not to be the last.
LEMMA FieldInside == ASSUME IInv, todo # <<>>, Peek = ".", FieldTail PROVE IInv'
<1>1. pos + 1 \in 1 .. Len(toks)
  BY NextToken
<1>2. CASE Ahead(1) # "ident"
  BY <1>2, RejectInside DEF FieldTail
<1>3. CASE Ahead(1) = "ident"
  <2>1. pos + 1 + 1 \in 1 .. Len(toks)
    BY <1>1, <1>3, TokenAfter
  <2>2. pos + 2 \in 1 .. Len(toks)
    BY <2>1 DEF IInv, StaysInside
  <2>3. CASE Ahead(2) # "("
    BY <1>3, <2>2, <2>3, ExprFrames, GoInside DEF FieldTail
  <2>4. CASE Ahead(2) = "(" /\ Ahead(3) = ")"
    <3>1. pos + 2 + 1 \in 1 .. Len(toks)
      BY <2>2, <2>4, TokenAfter
    <3>2. pos + 3 \in 1 .. Len(toks)
      BY <3>1 DEF IInv, StaysInside
    <3>3. pos + 3 + 1 \in 1 .. Len(toks)
      BY <3>2, <2>4, TokenAfter
    <3>4. pos + 4 \in 1 .. Len(toks)
      BY <3>3 DEF IInv, StaysInside
    <3> QED BY <1>3, <2>4, <3>4, ExprFrames, GoInside DEF FieldTail
  <2>5. CASE Ahead(2) = "(" /\ Ahead(3) # ")"
    BY <1>3, <2>5, RejectInside DEF FieldTail
  <2> QED BY <2>3, <2>4, <2>5
<1> QED BY <1>2, <1>3

\* parse_postfix.
LEMMA PostfixInside == ASSUME IInv, parse_postfix PROVE IInv'
<1>1. todo # <<>>
  BY DEF parse_postfix, Running
<1>2. CASE Peek = "."
  BY <1>1, <1>2, FieldInside DEF parse_postfix
<1>3. CASE Peek = "["
  BY <1>1, <1>3, NextToken, ExprFrames, GoInside DEF parse_postfix
<1>4. CASE Peek # "." /\ Peek # "["
  BY <1>1, <1>4, NextToken, EmptyFrames, GoInside DEF parse_postfix
<1> QED BY <1>2, <1>3, <1>4

\* Three tokens are taken for the start of a module call.
LEMMA NameInside == ASSUME IInv, todo # <<>>, Peek = "ident", PrimaryName PROVE IInv'
<1>1. pos + 1 \in 1 .. Len(toks)
  BY NextToken
<1>2. CASE Ahead(1) = "." /\ Ahead(2) = "ident" /\ Ahead(3) = "("
  <2>1. pos + 1 + 1 \in 1 .. Len(toks)
    BY <1>1, <1>2, TokenAfter
  <2>2. pos + 2 \in 1 .. Len(toks)
    BY <2>1 DEF IInv, StaysInside
  <2>3. pos + 2 + 1 \in 1 .. Len(toks)
    BY <1>2, <2>2, TokenAfter
  <2>4. pos + 3 \in 1 .. Len(toks)
    BY <2>3 DEF IInv, StaysInside
  <2>5. GoWith(3, Leaf("modulecall", ""), Args)
    BY <1>2 DEF PrimaryName
  <2> QED BY <2>4, <2>5, ExprFrames, GoWithInside DEF Args
<1>3. CASE ~(Ahead(1) = "." /\ Ahead(2) = "ident" /\ Ahead(3) = "(")
  <2>1. GoWith(1, Leaf("call", ""), Args) \/ GoWith(1, Leaf("name", ""), <<>>)
    BY <1>3 DEF PrimaryName
  <2> QED BY <1>1, <2>1, EmptyFrames, ExprFrames, GoWithInside DEF Args
<1> QED BY <1>2, <1>3

\* parse_primary.
LEMMA PrimaryInside == ASSUME IInv, parse_primary PROVE IInv'
<1>1. todo # <<>>
  BY DEF parse_primary, Running
<1>2. CASE Peek \in Literals \cup {"nil"}
  BY <1>1, <1>2, NextToken, EmptyFrames, GoWithInside DEF parse_primary, Literals
<1>3. CASE Peek \in {"sizeof", "(", "{"}
  BY <1>1, <1>3, NextToken, ExprFrames, GoInside, GoWithInside DEF parse_primary, Literals
<1>4. CASE Peek = "ident"
  BY <1>1, <1>4, NameInside DEF parse_primary, Literals
<1>5. CASE Peek \notin Literals \cup {"nil", "sizeof", "(", "{", "ident"}
  BY <1>5, RejectInside DEF parse_primary
<1> QED BY <1>2, <1>3, <1>4, <1>5

\* parse_stmt.
LEMMA StmtInside == ASSUME IInv, parse_stmt PROVE IInv'
<1>1. todo # <<>>
  BY DEF parse_stmt, Running
<1>2. CASE Peek \in {"{", "if", "stop", "skip", "let", "const", "for", "while"}
  BY <1>1, <1>2, NextToken, StmtFrames, GoInside DEF parse_stmt
<1>4. CASE Peek = "return"
  BY <1>1, <1>4, NextToken, StmtFrames, GoInside DEF parse_stmt
<1>5. CASE Peek \notin {"{", "if", "stop", "skip", "let", "const", "for", "while", "return"}
  BY <1>1, <1>5, NextToken, StmtFrames, GoInside DEF parse_stmt
<1> QED BY <1>2, <1>4, <1>5

\* rl_parse, and the declarations it starts.
LEMMA FileInside == ASSUME IInv, rl_parse PROVE IInv'
<1>1. todo # <<>>
  BY DEF rl_parse, Running
<1>2. CASE Peek = "eof"
  <2>1. UNCHANGED <<toks, pos>> /\ todo' = <<>> \o Tail(todo)
    BY <1>2 DEF rl_parse, Continue
  <2> QED BY <1>1, <2>1 DEF IInv, StaysInside
<1>3. CASE Peek \in {"use", "fn", "struct", "enum"}
  <2>1. PICK decl \in {parse_import, parse_function, parse_blueprint, parse_choices} :
           Go(1, decl \o << Add, Rule("program") >>)
    BY <1>3 DEF rl_parse
  <2>2. decl \o << Add, Rule("program") >> \in Seq(Frame)
    <3>1. decl \in Seq(Frame)
      BY FileFrames DEF parse_import, parse_function, parse_blueprint, parse_choices
    <3> QED BY <3>1, FileFrames, Joined
  <2> QED BY <1>1, <1>3, <2>1, <2>2, NextToken, GoInside
<1>4. CASE Peek \notin {"eof", "use", "fn", "struct", "enum"}
  BY <1>4, RejectInside DEF rl_parse
<1> QED BY <1>2, <1>3, <1>4

\* Types.
LEMMA TypesInside == ASSUME IInv, parse_type \/ TypeSuffix PROVE IInv'
<1>1. CASE parse_type
  BY <1>1, NextToken, TypeFrames, GoWithInside, RejectInside
     DEF parse_type, Running, BaseTypes
<1>2. CASE TypeSuffix
  BY <1>2, NextToken, EmptyFrames, TypeFrames, GoInside
     DEF TypeSuffix, Running
<1> QED BY <1>1, <1>2

\* All of the functions for expressions.
LEMMA ExpressionsInside == ASSUME IInv, Expressions PROVE IInv'
<1>1. CASE parse_expr
  BY <1>1, NextToken, ExprFrames, GoInside
     DEF parse_expr, Running
<1>2. CASE AssignmentTail
  BY <1>2, NextToken, EmptyFrames, ExprFrames, GoInside
     DEF AssignmentTail, Running, AssignOps
<1>3. CASE parse_binary
  BY <1>3, LevelsInside
<1>4. CASE BinaryTail
  BY <1>4, LevelsInside
<1>5. CASE CastTail
  BY <1>5, NextToken, EmptyFrames, ExprFrames, GoInside
     DEF CastTail, Running
<1>6. CASE parse_unary
  BY <1>6, NextToken, ExprFrames, GoInside
     DEF parse_unary, Running
<1>7. CASE parse_postfix
  BY <1>7, PostfixInside
<1>8. CASE parse_primary
  BY <1>8, PrimaryInside
<1> QED BY <1>1, <1>2, <1>3, <1>4, <1>5, <1>6, <1>7, <1>8 DEF Expressions

\* All of the functions for statements.
LEMMA StatementStepInside == ASSUME IInv, StatementStep PROVE IInv'
<1>1. CASE parse_var_decl
  BY <1>1, NextToken, StmtFrames, GoInside
     DEF parse_var_decl, Running
<1>2. CASE Initialiser
  BY <1>2, NextToken, StmtFrames, GoInside
     DEF Initialiser, Running
<1>3. CASE ConstMark
  BY <1>3, NextToken, EmptyFrames, StmtFrames, GoInside
     DEF ConstMark, Running
<1>4. CASE parse_block
  BY <1>4, NextToken, StmtFrames, GoInside
     DEF parse_block, Running
<1>5. CASE BlockBody
  BY <1>5, NextToken, StmtFrames, GoWithInside
     DEF BlockBody, Running
<1>6. CASE Statements
  BY <1>6, NextToken, EmptyFrames, StmtFrames, GoInside
     DEF Statements, Running
<1>7. CASE parse_when
  BY <1>7, WhenInside
<1>8. CASE OrElse
  BY <1>8, NextToken, StmtFrames, GoInside
     DEF OrElse, Running
<1>9. CASE parse_stmt
  BY <1>9, StmtInside
<1> QED BY <1>1, <1>2, <1>3, <1>4, <1>5, <1>6, <1>7, <1>8, <1>9 DEF
  StatementStep

\* All of the functions for declarations.
LEMMA DeclarationsInside == ASSUME IInv, Declarations PROVE IInv'
<1>1. CASE rl_parse
  BY <1>1, FileInside
<1>2. CASE Params
  BY <1>2, NextToken, DeclFrames, GoWithInside
     DEF Params, Running
<1>3. CASE Param
  BY <1>3, NextToken, DeclFrames, GoInside
     DEF Param, Running
<1>4. CASE FunctionBody
  BY <1>4, NextToken, DeclFrames, GoInside
     DEF FunctionBody, Running
<1>5. CASE NativeBlock
  BY <1>5, NextToken, DeclFrames, GoInside
     DEF NativeBlock, Running
<1>6. CASE StructBody
  BY <1>6, NextToken, DeclFrames, GoWithInside
     DEF StructBody, Running
<1>7. CASE Fields
  BY <1>7, NextToken, EmptyFrames, DeclFrames, GoInside
     DEF Fields, Running
<1>8. CASE EnumBody
  BY <1>8, NextToken, DeclFrames, GoWithInside
     DEF EnumBody, Running
<1>9. CASE Entries
  BY <1>9, NextToken, EmptyFrames, DeclFrames, GoInside
     DEF Entries, Running
<1>10. CASE EntryValue
  BY <1>10, NextToken, DeclFrames, GoInside
     DEF EntryValue, Running
<1>11. CASE MoreEntries
  BY <1>11, NextToken, EmptyFrames, DeclFrames, GoInside
     DEF MoreEntries, Running
<1> QED BY <1>1, <1>2, <1>3, <1>4, <1>5, <1>6, <1>7, <1>8, <1>9, <1>10, <1>11
  DEF Declarations

-----------------------------------------------------------------------------
(* The parser's place is a token of its list, for every set of lists that  *)
(* end with "eof": neither advance nor a function that steps over tokens   *)
(* it has looked at goes past the end.                                     *)
THEOREM ParserStaysInside == Spec => []StaysInside
<1>1. Init => IInv
  <2>1. Rule("program") \in Frame
    BY FrameMakers DEF Rules
  <2>2. ASSUME Init PROVE toks \in Sources /\ pos \in 1 .. Len(toks)
    <3>1. toks \in Sources /\ pos = 1
      BY <2>2 DEF Init
    <3>2. Len(toks) \in Nat /\ Len(toks) > 0
      BY <3>1, SourcesAssumption
    <3> QED BY <3>1, <3>2
  <2>3. ASSUME Init PROVE todo \in Seq(Frame)
    <3>1. todo = << Rule("program") >>
      BY <2>3 DEF Init
    <3> QED BY <2>1, <3>1
  <2> QED BY <2>2, <2>3 DEF IInv, StaysInside
<1>2. IInv /\ [Next]_vars => IInv'
  <2> SUFFICES ASSUME IInv, [Next]_vars PROVE IInv'
    OBVIOUS
  <2>1. CASE ExpectToken
    BY <2>1, ExpectInside
  <2>2. CASE MakeNode \/ AddToList
    <3>1. UNCHANGED <<toks, pos>> /\ todo' = <<>> \o Tail(todo) /\ todo # <<>>
      BY <2>2 DEF MakeNode, AddToList, At, Continue
    <3> QED BY <3>1 DEF IInv, StaysInside
  <2>3. CASE ParseItems \/ ParseMoreItems
    BY <2>3, ListsInside
  <2>4. CASE parse_type \/ TypeSuffix
    BY <2>4, TypesInside
  <2>5. CASE Expressions
    BY <2>5, ExpressionsInside
  <2>6. CASE StatementStep
    BY <2>6, StatementStepInside
  <2>7. CASE Declarations
    BY <2>7, DeclarationsInside
  <2>8. CASE UNCHANGED vars
    BY <2>8 DEF vars, IInv, StaysInside
  <2> QED BY <2>1, <2>2, <2>3, <2>4, <2>5, <2>6, <2>7, <2>8 DEF Next
<1>3. IInv => StaysInside
  BY DEF IInv
<1> QED BY <1>1, <1>2, <1>3, PTL DEF Spec

=============================================================================
