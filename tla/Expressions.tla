------------------------------ MODULE Expressions ------------------------------
(***************************************************************************)
(* src/codegen.c on expressions: infer gives an expression a type, and     *)
(* gen_expr writes it as C, choosing by those types between operators of C *)
(* and calls of the runtime.  Expressions are the trees of the parser, env *)
(* is what scope_lookup says of a name.  The recursion over a tree is a    *)
(* function on all trees; what it does at one, given the results at the    *)
(* parts, is an operator.  The types that infer leaves on the nodes are    *)
(* not modelled: a node is written where it is first looked at, in the     *)
(* same scope.                                                             *)
(***************************************************************************)
EXTENDS Enums, CTyping

CONSTANTS
    Structs,        \* the structs of the program: from names to functions from fields to types
    Functions,      \* its functions: alias, name, C symbol, whether native, params, result
    Trees           \* its expressions: those of height one, of height two, ...

(* Types of the language: a named one, and what suffixes are behind it,    *)
(* the last one first.                                                     *)
Type(kind)  == [kind |-> kind, name |-> "", over |-> <<>>]
Named(name) == [kind |-> "named", name |-> name, over |-> <<>>]
Span(inner) == [inner EXCEPT !.over = <<"span">> \o @]
Ref(inner)  == [inner EXCEPT !.over = <<"ref">> \o @]
Kind(t)     == IF t.over = <<>> THEN t.kind ELSE Head(t.over)
Inner(t)    == [t EXCEPT !.over = Tail(@)]
TY_INT  == Type("int")
TY_TEXT == Type("text")
TY_BOOL == Type("bool")
TY_CHAR == Type("char")
TY_ANY  == Type("any")
TY_VOID == Type("void")

Wholes  == {"int", "int8", "int16", "int64", "uint", "uint8", "uint16", "uint64"}
Numbers == Wholes \cup {"float", "double"}

(* README.md:194: void is for function results, and for nothing else.      *)
Composed == Seq({"span", "ref"})
ValueTypes == [kind : Numbers \cup {"bool", "char", "text", "any"}, name : {""}, over : Composed]
            \cup [kind : {"named"}, name : DOMAIN Structs, over : Composed]

ASSUME StructsAssumption ==
    \A s \in DOMAIN Structs : \A f \in DOMAIN Structs[s] : Structs[s][f] \in ValueTypes
ASSUME FunctionsAssumption ==
    \A f \in Functions : f.params \in Seq(ValueTypes) /\ f.result \in ValueTypes \cup {TY_VOID}

(* The expressions of the parser.                                          *)
Tests     == {"==", "!=", "<", ">", "<=", ">=", "&&", "||"}
Literals  == {"int", "float", "double", "text", "char", "bool"}

Expression(e, parts) ==
    \/ e.e \in Literals \cup {"nil", "sizeof", "ident"}
    \/ e.e = "binary" /\ e.op \in Tests \cup {"+", "-", "*", "/", "%"} /\ {e.lhs, e.rhs} \subseteq parts
    \/ e.e = "unary" /\ e.op \in {"-", "!"} /\ e.rhs \in parts
    \/ e.e = "assign" /\ e.op \in {"=", "+=", "-=", "*=", "/="} /\ {e.lhs, e.rhs} \subseteq parts
    \/ e.e = "call" /\ e.args \in Seq(parts)
    \/ e.e = "index" /\ {e.base, e.index} \subseteq parts
    \/ e.e = "field" /\ e.base \in parts
    \/ e.e = "array" /\ e.elems \in Seq(parts)
    \/ e.e = "cast" /\ e.to \in ValueTypes /\ e.lhs \in parts

Lower(h) == UNION {Trees[k] : k \in 1..(h - 1)}
ASSUME TreesAssumption ==
    /\ Len(Trees) \in Nat /\ DOMAIN Trees = 1..Len(Trees)
    /\ \A h \in DOMAIN Trees : LET parts == Lower(h) IN \A e \in Trees[h] : Expression(e, parts)

AllTrees == UNION {Trees[h] : h \in DOMAIN Trees}
-------------------------------------------------------------------------------
Spelling ==
    [void |-> "void", bool |-> "bool", char |-> "char", float |-> "float", double |-> "double",
     int |-> "int32_t", int8 |-> "int8_t", int16 |-> "int16_t", int64 |-> "int64_t",
     uint |-> "uint32_t", uint8 |-> "uint8_t", uint16 |-> "uint16_t", uint64 |-> "uint64_t"]

emit_base(kind) ==
    CASE kind = "text" -> CString
      [] kind = "any" -> Address
      [] OTHER -> C(Spelling[kind])

emit_type(t) ==
    LET base == IF t.kind = "named" THEN Struct(t.name) ELSE emit_base(t.kind) IN
    [base EXCEPT !.stars = @ + Len(t.over)]

find_func(module, name) ==
    LET found == {f \in Functions : f.alias = module /\ f.name = name} IN
    IF found = {} THEN None ELSE CHOOSE f \in found : TRUE

(* Mutant: a field behind a reference is not looked up.                    *)
field_type_of_direct(base, field) ==
    CASE field = "address" -> Ref(base)
      [] field = "value" /\ Kind(base) = "ref" -> Inner(base)
      [] field = "length" /\ Kind(base) \in {"span", "text"} -> TY_INT
      [] OTHER -> IF Kind(base) = "named" /\ base.name \in DOMAIN Structs
                     /\ field \in DOMAIN Structs[base.name] THEN Structs[base.name][field] ELSE TY_INT

field_type_of(base, field) ==
    LET held == IF Kind(base) = "ref" THEN Inner(base) ELSE base IN
    CASE field = "address" -> Ref(base)
      [] field = "value" /\ Kind(base) = "ref" -> Inner(base)
      [] field = "length" /\ Kind(base) \in {"span", "text"} -> TY_INT
      [] OTHER -> IF Kind(held) = "named" /\ held.name \in DOMAIN Structs
                     /\ field \in DOMAIN Structs[held.name] THEN Structs[held.name][field] ELSE TY_INT

(* infer at e, with the types of the parts of e.                           *)
InferAt(env, type, e) ==
    CASE e.e \in Literals -> Type(e.e)
      [] e.e = "nil" -> TY_ANY
      [] e.e = "ident" -> IF env[e.name] # None THEN env[e.name] ELSE TY_INT
      [] e.e = "binary" -> IF e.op \in Tests THEN TY_BOOL ELSE type[e.lhs]
      [] e.e = "unary" -> IF e.op = "!" THEN TY_BOOL ELSE type[e.rhs]
      [] e.e = "assign" -> type[e.lhs]
      [] e.e = "call" -> LET f == find_func(e.module, e.callee) IN IF f = None THEN TY_INT ELSE f.result
      [] e.e = "index" -> IF Kind(type[e.base]) = "span" THEN Inner(type[e.base])
                          ELSE IF Kind(type[e.base]) = "text" THEN TY_CHAR ELSE TY_INT
      [] e.e = "field" -> field_type_of(type[e.base], e.field)
      [] e.e = "array" -> Span(IF e.elems = <<>> THEN TY_INT ELSE type[e.elems[1]])
      [] e.e = "cast" -> e.to
      [] e.e = "sizeof" -> TY_INT

infer(env) == LET type[e \in AllTrees] == InferAt(env, type, e) IN type
-------------------------------------------------------------------------------
(* gen_expr at e, with the types of the parts of e and what they come out  *)
(* as in C, where c is in force.                                           *)
gen_field(c, type, text, e) ==
    LET base == text[e.base]  kind == Kind(type[e.base]) IN
    CASE e.field = "address" -> Unary("&", base)
      [] e.field = "value" /\ kind = "ref" -> Unary("*", base)
      [] e.field = "length" /\ kind = "text" -> CastTo(CInt, Calls(c, "rt_text_len", <<base>>))
      [] e.field = "length" /\ kind = "span" -> Calls(c, "rt_span_len", <<base>>)
      [] OTHER -> Member(c, IF kind = "ref" THEN "->" ELSE ".", base, e.field)

(* Mutant: == on texts is C's.                                             *)
BinaryByAddress(c, type, text, e) ==
    IF e.op = "+" /\ {Kind(type[e.lhs]), Kind(type[e.rhs])} = {"text"}
    THEN Calls(c, "rt_text_concat", <<text[e.lhs], text[e.rhs]>>)
    ELSE Operator(e.op, text[e.lhs], text[e.rhs])

Binary(c, type, text, e) ==
    LET args  == <<text[e.lhs], text[e.rhs]>>
        texts == Kind(type[e.lhs]) = "text" /\ Kind(type[e.rhs]) = "text"
    IN  CASE texts /\ e.op = "+" -> Calls(c, "rt_text_concat", args)
          [] texts /\ e.op = "==" -> Calls(c, "rt_text_equal", args)
          [] texts /\ e.op = "!=" -> Unary("!", Calls(c, "rt_text_equal", args))
          [] OTHER -> Operator(e.op, args[1], args[2])

(* rt_span_make(sizeof(T), n, (T[]){...}), with the T of the first one.    *)
ArrayLit(type, text, e) ==
    SpanOf(IF e.elems = <<>> THEN CInt ELSE emit_type(type[e.elems[1]]),
           [k \in DOMAIN e.elems |-> text[e.elems[k]]])

GenAt(env, c, type, text, e) ==
    CASE e.e \in {"int", "char", "bool"} -> Constant(CInt)
      [] e.e \in {"float", "double"} -> Constant(C(e.e))
      [] e.e = "text" -> Constant(CString)
      [] e.e = "nil" -> Constant(Address)
      [] e.e = "ident" -> IF env[e.name] = None /\ e.name \in Enumerators THEN Constant(CInt)
                          ELSE Variable(c, e.name)
      [] e.e = "binary" -> Binary(c, type, text, e)
      [] e.e = "unary" -> Unary(e.op, text[e.rhs])
      [] e.e = "assign" -> Operator(e.op, text[e.lhs], text[e.rhs])
      [] e.e = "call" -> LET f == find_func(e.module, e.callee) IN
                         Calls(c, IF f = None THEN "undeclared" ELSE f.symbol,
                               [k \in DOMAIN e.args |-> text[e.args[k]]])
      [] e.e = "index" -> Operator("[]", text[e.base], text[e.index])
      [] e.e = "field" -> gen_field(c, type, text, e)
      [] e.e = "array" -> ArrayLit(type, text, e)
      [] e.e = "cast" -> IF Kind(type[e.lhs]) = "text" /\ Kind(e.to) \in {"int", "int64"}
                         THEN Calls(c, "rt_text_to_int", <<text[e.lhs]>>)
                         ELSE CastTo(emit_type(e.to), text[e.lhs])
      [] e.e = "sizeof" -> Constant(CInt)

gen_expr(env, c) ==
    LET type == infer(env)
        text[e \in AllTrees] == GenAt(env, c, type, text, e)
    IN  text
===============================================================================
