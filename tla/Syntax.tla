------------------------------- MODULE Syntax -------------------------------
(***************************************************************************)
(* The grammar and the precedences of README.md, stated on trees and not   *)
(* on a parser: the tokens a tree stands for, and where an operator may    *)
(* stand under another one without parentheses.  This module is the        *)
(* reference Parser is compared with; it models no code.                   *)
(***************************************************************************)
EXTENDS Integers, Sequences, SequencesExt

\* Sequences of tokens put together, with commas between them or without.
Together(parts) == FlattenSeq(parts)
Commas(parts)   == FlattenSeq([i \in 1 .. Len(parts) |->
                                  IF i = 1 THEN parts[i] ELSE <<",">> \o parts[i]])

-----------------------------------------------------------------------------
(* The tokens of a tree, rule by rule of the README's grammar.             *)

RECURSIVE Yield(_)

ExpressionYield(t, sub) ==
    CASE t.kind = "literal"           -> <<t.tok>>
      [] t.kind = "name"              -> <<"ident">>
      [] t.kind \in {"assign", "binary"} -> sub[1] \o <<t.tok>> \o sub[2]
      [] t.kind = "cast"              -> sub[1] \o <<"to">> \o sub[2]
      [] t.kind = "unary"             -> <<t.tok>> \o sub[1]
      [] t.kind = "field"             -> sub[1] \o <<".", "ident">> \o
                                         (IF t.tok = "()" THEN <<"(", ")">> ELSE <<>>)
      [] t.kind = "index"             -> sub[1] \o <<"[">> \o sub[2] \o <<"]">>
      [] t.kind = "call"              -> <<"ident", "(">> \o Commas(sub) \o <<")">>
      [] t.kind = "modulecall"        -> <<"ident", ".", "ident", "(">> \o Commas(sub) \o <<")">>
      [] t.kind = "array"             -> <<"{">> \o Commas(sub) \o <<"}">>
      [] t.kind = "group"             -> <<"(">> \o sub[1] \o <<")">>
      [] t.kind = "sizeof"            -> <<"sizeof", "(">> \o sub[1] \o <<")">>

StatementYield(t, sub) ==
    CASE t.kind = "decl"      -> sub[1] \o <<"ident">> \o
                                 (IF Len(sub) = 2 THEN <<"=">> \o sub[2] ELSE <<>>)
      [] t.kind = "constdecl" -> sub[1] \o <<"const">>
      [] t.kind = "declstmt"  -> (IF t.tok = "" THEN <<>> ELSE <<t.tok>>) \o sub[1] \o <<";">>
      [] t.kind = "exprstmt"  -> sub[1] \o <<";">>
      [] t.kind = "block"     -> <<"{">> \o Together(sub) \o <<"}">>
      [] t.kind = "if"        -> <<"if", "(">> \o sub[1] \o <<")">> \o sub[2] \o
                                 (IF Len(sub) = 3 THEN <<"else">> \o sub[3] ELSE <<>>)
      [] t.kind = "while"     -> <<"while", "(">> \o sub[1] \o <<")">> \o sub[2]
      [] t.kind = "for"       -> <<"for", "(">> \o Commas(SubSeq(sub, 1, 3)) \o <<")">> \o sub[4]
      [] t.kind = "return"    -> <<"return">> \o Together(sub) \o <<";">>
      [] t.kind = "jump"      -> <<t.tok, ";">>

DeclarationYield(t, sub) ==
    CASE t.kind = "program" -> Together(sub) \o <<"eof">>
      [] t.kind = "import"  -> <<"use", "(", "string", ")", "as", "ident", ";">>
      [] t.kind = "fn"      -> <<"fn", "ident">> \o sub[1] \o <<"return">> \o sub[2] \o sub[3]
      [] t.kind = "native"  -> <<"fn", "ident">> \o sub[1] \o <<"return">> \o sub[2] \o
                               <<"native", "string">> \o (IF Len(sub) = 3 THEN sub[3] ELSE <<>>)
      [] t.kind = "params"  -> <<"(">> \o Commas(sub) \o <<")">>
      [] t.kind = "param"   -> sub[1] \o <<"ident">>
      [] t.kind = "struct"  -> <<"struct", "ident", "=", "{">> \o Together(sub) \o <<"}">>
      [] t.kind = "field decl" -> sub[1] \o <<"ident", ";">>
      [] t.kind = "enum"    -> <<"enum", "ident", "=", "{">> \o Commas(sub) \o <<"}">>
      [] t.kind = "entry"   -> <<"ident">> \o (IF t.tok = "=" THEN <<"=", "intlit">> ELSE <<>>)

TypeYield(t, sub) ==
    CASE t.kind = "type" -> <<t.tok>>
      [] t.kind = "span" -> sub[1] \o <<"[", "]">>
      [] t.kind = "ref"  -> sub[1] \o <<"*">>

ExpressionKinds == {"literal", "name", "assign", "binary", "cast", "unary", "field",
                    "index", "call", "modulecall", "array", "group", "sizeof"}

StatementKinds == {"decl", "constdecl", "declstmt", "exprstmt", "block", "if", "while",
                   "for", "return", "jump"}

TypeKinds == {"type", "span", "ref"}

Yield(t) ==
    LET sub == [i \in 1 .. Len(t.kids) |-> Yield(t.kids[i])]
    IN  CASE t.kind \in ExpressionKinds -> ExpressionYield(t, sub)
          [] t.kind \in StatementKinds  -> StatementYield(t, sub)
          [] t.kind \in TypeKinds       -> TypeYield(t, sub)
          [] OTHER                      -> DeclarationYield(t, sub)

-----------------------------------------------------------------------------
(* Precedence, lowest to highest (README.md:298): assignment, ||, &&,      *)
(* equality, comparison, + -, * / %, the cast, unary, postfix, primaries.  *)

OperatorLevels == << {"||"}, {"&&"}, {"==", "!="}, {"<", ">", "<=", ">="},
                     {"+", "-"}, {"*", "/", "%"} >>

Binding(t) ==
    CASE t.kind = "assign" -> 0
      [] t.kind = "binary" -> CHOOSE n \in 1 .. 6 : t.tok \in OperatorLevels[n]
      [] t.kind = "cast"   -> 7
      [] t.kind = "unary"  -> 8
      [] OTHER             -> 9

\* Operators of one level associate to the left, assignments to the right.
OperandsBind(t) ==
    CASE t.kind = "assign" -> Binding(t.kids[1]) >= 1
      [] t.kind = "binary" -> /\ Binding(t.kids[1]) >= Binding(t)
                              /\ Binding(t.kids[2]) > Binding(t)
      [] t.kind = "cast"   -> Binding(t.kids[1]) >= 7
      [] t.kind = "unary"  -> Binding(t.kids[1]) >= 8
      [] t.kind \in {"field", "index"} -> Binding(t.kids[1]) = 9
      [] OTHER -> TRUE

RECURSIVE WellNested(_)
WellNested(t) ==
    /\ OperandsBind(t)
    /\ \A i \in 1 .. Len(t.kids) : WellNested(t.kids[i])

-----------------------------------------------------------------------------
(* Sentences for which a token list is not parsed as the grammar says.     *)

\* The grammar lets a "*" that follows a cast be an operator as well as a
\* part of the type: parse_type takes it for the type.
RECURSIVE EndsInType(_)
EndsInType(t) ==
    \/ t.kind = "cast"
    \/ t.kind \in {"binary", "unary", "assign"} /\ EndsInType(t.kids[Len(t.kids)])

\* A name, a dot, a name and "(" are a call of a module's function.
LooksLikeModuleCall(t) ==
    t.kind = "field" /\ t.tok = "()" /\ t.kids[1].kind = "name"

\* A statement that starts with "{" is a block, and not an array literal.
LooksLikeBlock(t) == t.kind = "exprstmt" /\ Yield(t)[1] = "{"

RECURSIVE Unambiguous(_)
Unambiguous(t) ==
    /\ ~(t.kind = "binary" /\ t.tok = "*" /\ EndsInType(t.kids[1]))
    /\ ~LooksLikeModuleCall(t)
    /\ ~LooksLikeBlock(t)
    /\ \A i \in 1 .. Len(t.kids) : Unambiguous(t.kids[i])

=============================================================================
