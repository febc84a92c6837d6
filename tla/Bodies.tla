--------------------------------- MODULE Bodies ---------------------------------
(***************************************************************************)
(* Scopes and Expressions together: the generator types and writes an      *)
(* expression by the scope list it has at the statement.  Typed is the     *)
(* documentation's word on the tree, in the scopes of the block structure; *)
(* CType is C's on the text.                                               *)
(***************************************************************************)
EXTENDS Scopes, Expressions

(* A statement may say what its expression can be: a set of trees, all the *)
(* same to the walk.                                                       *)
Expressed ==
    IF Doing("statements") /\ Task.list # <<>> /\ "trees" \in DOMAIN Current THEN Current.trees ELSE {}

(* What the generator knows of names in front of a statement, what the     *)
(* block structure says of them, and what C has been told of them.         *)
LookedUp == [x \in Names \cup Enumerators |-> scope_lookup(x)]
Meant    == [x \in Names \cup Enumerators |-> CBinding(Len(out), x)]

(* The prototypes of runtime/rootrt.h that these names stand for.          *)
Prototype(params, result) == [params |-> params, result |-> result]
Natives ==
    [rt_text_len       |-> Prototype(<<CString>>, C("uint64_t")),
     rt_text_concat    |-> Prototype(<<CString, CString>>, CString),
     rt_text_equal     |-> Prototype(<<CString, CString>>, C("bool")),
     rt_text_slice     |-> Prototype(<<CString, CInt, CInt>>, CString),
     rt_text_to_int    |-> Prototype(<<CString>>, C("int64_t")),
     rt_span_len       |-> Prototype(<<Address>>, CInt),
     rt_out_char       |-> Prototype(<<C("char")>>, C("void")),
     rt_out_newline    |-> Prototype(<<>>, C("void")),
     rt_in_int         |-> Prototype(<<>>, CInt),
     rt_in_real        |-> Prototype(<<>>, C("double")),
     rt_in_line        |-> Prototype(<<>>, CString),
     rt_root           |-> Prototype(<<C("double")>>, C("double")),
     rt_power          |-> Prototype(<<C("double"), C("double")>>, C("double")),
     rt_abs_int        |-> Prototype(<<C("int64_t")>>, C("int64_t")),
     rt_halt           |-> Prototype(<<CInt>>, C("void")),
     rt_reserve        |-> Prototype(<<CInt>>, Address),
     rt_release        |-> Prototype(<<Address>>, C("void")),
     rt_copy           |-> Prototype(<<Address, Address, CInt>>, Address),
     rt_regrow         |-> Prototype(<<Address, CInt>>, Address),
     rt_file_open      |-> Prototype(<<CString, CString>>, Address),
     rt_file_close     |-> Prototype(<<Address>>, C("void")),
     rt_file_write     |-> Prototype(<<Address, CString>>, C("void")),
     rt_file_read_line |-> Prototype(<<Address>>, CString),
     rt_file_ended     |-> Prototype(<<Address>>, CInt),
     rt_file_remove    |-> Prototype(<<CString>>, C("void"))]

CEnvironment(meant) ==
    [variables |-> [x \in DOMAIN meant |-> IF meant[x] = None THEN Refused ELSE emit_type(meant[x])],
     structs   |-> [s \in DOMAIN Structs |-> [f \in DOMAIN Structs[s] |-> emit_type(Structs[s][f])]],
     functions |->
        [s \in DOMAIN Natives \cup {f.symbol : f \in Functions} |->
            IF s \in DOMAIN Natives THEN Natives[s]
            ELSE LET f == CHOOSE f \in Functions : f.symbol = s IN
                 Prototype([k \in DOMAIN f.params |-> emit_type(f.params[k])], emit_type(f.result))]]
-------------------------------------------------------------------------------
(***************************************************************************)
(* README.md:174-560: literals, variables, operators between operands of   *)
(* one type, casts, arrays of elements of one type, texts, references,     *)
(* structs, calls.  None for all of which it does not say a type.          *)
(***************************************************************************)
Numeric(t) == t \in {Type(kind) : kind \in Numbers}
Judge(known, type) == IF known THEN type ELSE None

(* nil goes for any reference.                                             *)
Fits(a, b) == a # None /\ b # None /\ (a = b \/ (a = TY_ANY /\ Kind(b) \in {"ref", "span"}))
Comparable(a, b) ==
    \/ a = b /\ (Numeric(a) \/ a \in {TY_TEXT, TY_BOOL, TY_CHAR})
    \/ a # b /\ (Fits(a, b) \/ Fits(b, a))
Castable(from, to) ==
    \/ (Numeric(from) \/ from \in {TY_BOOL, TY_CHAR}) /\ (Numeric(to) \/ to = TY_CHAR)
    \/ from = TY_TEXT /\ to \in {TY_INT, Type("int64")}
    \/ TY_ANY \in {from, to} /\ {Kind(from), Kind(to)} \subseteq {"any", "text", "span", "ref"}

(* What can be assigned to.                                                *)
PlaceAt(place, e) ==
    \/ e.e = "ident" /\ e.name \notin Enumerators
    \/ e.e = "index"
    \/ e.e = "field" /\ (e.field = "value" \/ (e.field \notin {"address", "length"} /\ place[e.base]))
Place == LET place[e \in AllTrees] == PlaceAt(place, e) IN place

TypedBinary(op, a, b) ==
    CASE op \in {"&&", "||"} -> Judge(a = TY_BOOL /\ b = TY_BOOL, TY_BOOL)
      [] op \in {"==", "!="} -> Judge(Comparable(a, b), TY_BOOL)
      [] op \in {"<", ">", "<=", ">="} -> Judge(Numeric(a) /\ a = b, TY_BOOL)
      [] op = "+" -> Judge(a = b /\ (Numeric(a) \/ a = TY_TEXT), a)
      [] op = "%" -> Judge(a = b /\ Numeric(a) /\ a.kind \in Wholes, a)
      [] OTHER -> Judge(a = b /\ Numeric(a), a)

TypedField(base, place, field) ==
    IF base = None THEN None
    ELSE LET held == IF Kind(base) = "ref" THEN Inner(base) ELSE base IN
         CASE field = "address" -> Judge(place, Ref(base))
           [] field = "value" -> Judge(Kind(base) = "ref", Inner(base))
           [] field = "length" -> Judge(Kind(base) \in {"span", "text"}, TY_INT)
           [] OTHER -> IF Kind(held) = "named" /\ field \in DOMAIN Structs[held.name]
                       THEN Structs[held.name][field] ELSE None

(* The library's declaration of a function and its prototype disagree on   *)
(* signedness: std.str_size returns an int, rt_text_len a size_t.          *)
Misdeclared(f) == f.native /\ f.symbol = "rt_text_len"

TypedCall(f, given) ==
    IF f = None THEN None
    ELSE Judge(/\ ~Misdeclared(f)
               /\ Len(given) = Len(f.params)
               /\ \A k \in DOMAIN given :
                    IF f.symbol = "rt_print" THEN Numeric(given[k]) \/ given[k] \in {TY_TEXT, TY_BOOL}
                    ELSE Fits(given[k], f.params[k]), f.result)

TypedIndex(e, base, index) ==
    IF base = None \/ index # TY_INT \/ e.base.e = "array" THEN None
    ELSE IF Kind(base) = "span" THEN Inner(base) ELSE Judge(base = TY_TEXT, TY_CHAR)

TypedArray(types) ==
    IF types # <<>> /\ \A k \in DOMAIN types : types[k] = types[1] /\ types[1] \notin {None, TY_VOID}
    THEN Span(types[1]) ELSE None

TypedAt(env, place, type, e) ==
    CASE e.e \in Literals -> Type(e.e)
      [] e.e = "nil" -> TY_ANY
      [] e.e = "ident" -> IF env[e.name] = None /\ e.name \in Enumerators THEN TY_INT ELSE env[e.name]
      [] e.e = "binary" -> TypedBinary(e.op, type[e.lhs], type[e.rhs])
      [] e.e = "unary" -> Judge(IF e.op = "!" THEN type[e.rhs] = TY_BOOL ELSE Numeric(type[e.rhs]), type[e.rhs])
      [] e.e = "assign" -> Judge(/\ place[e.lhs] /\ Fits(type[e.rhs], type[e.lhs])
                                 /\ e.op # "=" => Numeric(type[e.lhs]), type[e.lhs])
      [] e.e = "call" -> TypedCall(find_func(e.module, e.callee), [k \in DOMAIN e.args |-> type[e.args[k]]])
      [] e.e = "index" -> TypedIndex(e, type[e.base], type[e.index])
      [] e.e = "field" -> TypedField(type[e.base], place[e.base], e.field)
      [] e.e = "array" -> TypedArray([k \in DOMAIN e.elems |-> type[e.elems[k]]])
      [] e.e = "cast" -> Judge(type[e.lhs] # None /\ Castable(type[e.lhs], e.to), e.to)
      [] e.e = "sizeof" -> TY_INT

Typed(env) == LET type[e \in AllTrees] == TypedAt(env, Place, type, e) IN type
-------------------------------------------------------------------------------
(* The generator infers the type that the documentation gives an           *)
(* expression, from its scope list, wherever the expression stands.        *)
InferAgrees ==
    Expressed # {} /\ ~Redeclares =>
        LET typed == Typed(Meant)  inferred == infer(LookedUp) IN
        \A e \in Expressed : typed[e] # None => inferred[e] = typed[e]

(***************************************************************************)
(* An expression that has a type comes out as C text that C takes, has     *)
(* the C type of README.md:179-197 after promotion, compares no texts by   *)
(* address, and makes arrays of that type's elements.  The runtime's       *)
(* int64_t for an int is let pass.                                         *)
(***************************************************************************)
SameInC(c, type) ==
    \/ Promoted(c) = Promoted(emit_type(type))
    \/ type = TY_INT /\ c = C("int64_t")
    \/ Kind(type) = "span" /\ c = Address

Faithful(text, type) ==
    /\ SameInC(text.type, type)
    /\ ~text.compares
    /\ text.elem # Refused => text.elem = emit_type(Inner(type))

CAgrees ==
    Expressed # {} /\ ~Redeclares =>
        LET meant == Meant  typed == Typed(meant)  text == gen_expr(LookedUp, CEnvironment(meant)) IN
        \A e \in Expressed : typed[e] # None => Faithful(text[e], typed[e])

(* README.md:196 and 412: T[] is an array of T, and a literal is one.      *)
(* A literal of what C would convert to T, as it does for a T.             *)
ArraysAsDeclared ==
    Expressed # {} /\ Current.kind = "decl" /\ Kind(Current.type) = "span" =>
        \A e \in Expressed : e.e = "array" =>
            gen_expr(LookedUp, CEnvironment(Meant))[e].elem = emit_type(Inner(Current.type))
-------------------------------------------------------------------------------
(***************************************************************************)
(* The programs' types are types, their expressions are among the trees    *)
(* and name variables and enumerators.  C symbols are the functions' own,  *)
(* as checked in Compiler, and none of them is one of the runtime's.  A    *)
(* native function is declared as its prototype says, as C converts.       *)
(***************************************************************************)
ASSUME TypesAssumption == Types \subseteq ValueTypes /\ None \notin ValueTypes \cup {TY_VOID}
ASSUME ExpressionsAssumption ==
    /\ \A s \in Nodes : "trees" \in DOMAIN s => s.trees \subseteq AllTrees
    /\ \A e \in AllTrees : e.e = "ident" => e.name \in Names \cup Enumerators
ASSUME SymbolsAssumption ==
    \A f \in Functions : ~f.native =>
        /\ f.symbol \notin DOMAIN Natives \cup {"rt_print", "undeclared"}
        /\ \A g \in Functions : g.symbol = f.symbol => g.params = f.params /\ g.result = f.result
ASSUME NativesAssumption ==
    \A f \in Functions : f.native /\ ~Misdeclared(f) =>
        IF f.symbol = "rt_print" THEN Len(f.params) = 1 /\ f.result = TY_VOID
        ELSE /\ f.symbol \in DOMAIN Natives
             /\ LET c == Natives[f.symbol] IN
                /\ Len(f.params) = Len(c.params)
                /\ \A k \in DOMAIN f.params : Converts(emit_type(f.params[k]), c.params[k])
                /\ SameInC(c.result, f.result)
                /\ Kind(f.result) = "span" => c.result = emit_type(f.result)
===============================================================================
