-------------------------------- MODULE MCBodies --------------------------------
(***************************************************************************)
(* Two kinds of programs.  Those of one or two functions over two          *)
(* variables, x and E, of which E is also the name of an enumerator: every *)
(* compound statement around declarations and uses, uses before and behind *)
(* it, three ifs in a chain, and one compound statement inside another.    *)
(* And one in which a statement can be any expression over parameters of   *)
(* most types: what the documentation gives a type, two operations deep.   *)
(***************************************************************************)
EXTENDS Bodies

Ident_(x)          == [e |-> "ident", name |-> x]
Lit(kind)          == [e |-> kind]
Bin(op, a, b)      == [e |-> "binary", op |-> op, lhs |-> a, rhs |-> b]
Un(op, a)          == [e |-> "unary", op |-> op, rhs |-> a]
Assign(op, a, b)   == [e |-> "assign", op |-> op, lhs |-> a, rhs |-> b]
Call(m, f, args)   == [e |-> "call", module |-> m, callee |-> f, args |-> args]
Index(a, i)        == [e |-> "index", base |-> a, index |-> i]
Field(a, f)        == [e |-> "field", base |-> a, field |-> f]
Array(elems)       == [e |-> "array", elems |-> elems]
Cast(a, type)      == [e |-> "cast", lhs |-> a, to |-> type]
Size               == [e |-> "sizeof"]

Fun(alias, name, symbol, native, params, result) ==
    [alias |-> alias, name |-> name, symbol |-> symbol, native |-> native, params |-> params, result |-> result]
DOUBLE == Type("double")

(* stdlib/root.rtl: the names, their functions, and the kinds of types.     *)
Library ==
    {<<"out", "rt_print", <<"any">>, "void">>,
     <<"line", "rt_out_newline", <<>>, "void">>,
     <<"out_char", "rt_out_char", <<"char">>, "void">>,
     <<"ask_int", "rt_in_int", <<>>, "int">>,
     <<"ask_real", "rt_in_real", <<>>, "double">>,
     <<"ask_line", "rt_in_line", <<>>, "text">>,
     <<"root", "rt_root", <<"double">>, "double">>,
     <<"power", "rt_power", <<"double", "double">>, "double">>,
     <<"abs", "rt_abs_int", <<"int">>, "int">>,
     <<"join", "rt_text_concat", <<"text", "text">>, "text">>,
     <<"str_size", "rt_text_len", <<"text">>, "int">>,
     <<"str_same", "rt_text_equal", <<"text", "text">>, "bool">>,
     <<"str_slice", "rt_text_slice", <<"text", "int", "int">>, "text">>,
     <<"reserve", "rt_reserve", <<"int">>, "any">>,
     <<"release", "rt_release", <<"any">>, "void">>,
     <<"copy", "rt_copy", <<"any", "any", "int">>, "any">>,
     <<"regrow", "rt_regrow", <<"any", "int">>, "any">>,
     <<"file_open", "rt_file_open", <<"text", "text">>, "any">>,
     <<"file_close", "rt_file_close", <<"any">>, "void">>,
     <<"file_write", "rt_file_write", <<"any", "text">>, "void">>,
     <<"file_read_line", "rt_file_read_line", <<"any">>, "text">>,
     <<"file_ended", "rt_file_ended", <<"any">>, "int">>,
     <<"file_remove", "rt_file_remove", <<"text">>, "void">>,
     <<"halt", "rt_halt", <<"int">>, "void">>}
MCFunctions ==
    {Fun("std", f[1], f[2], TRUE, [k \in DOMAIN f[3] |-> Type(f[3][k])], Type(f[4])) : f \in Library}
    \cup {Fun("lib", "oldest", "rl_u_lib__oldest", FALSE, <<Span(Named("person"))>>, Ref(Named("person"))),
          Fun(None, "make", "rl_u_make", FALSE, <<TY_TEXT>>, Named("person"))}
MCStructs ==
    [person |-> [age |-> TY_INT, name |-> TY_TEXT, friends |-> Span(TY_TEXT), boss |-> Ref(Named("person"))]]

Param(n, t) == [name |-> n, type |-> t]

(* The parameters of the second kind, and E, which is none of them.        *)
Known ==
    [n |-> TY_INT, b |-> TY_BOOL, c |-> TY_CHAR, s |-> TY_TEXT,
     k |-> Type("int8"), u |-> Type("uint"), l |-> Type("int64"),
     d |-> DOUBLE, a |-> Span(TY_INT), w |-> Span(TY_TEXT),
     o |-> Span(Named("person")), p |-> Named("person"),
     r |-> Ref(Named("person")), q |-> Ref(TY_INT), v |-> TY_ANY, E |-> None]
ParamNames == <<"n", "b", "c", "s", "k", "u", "l", "d", "a", "w", "o", "p", "r", "q", "v">>
Params == [i \in DOMAIN ParamNames |-> Param(ParamNames[i], Known[ParamNames[i]])]

(* Trees are put together of typed ones, of which typed knows the types,   *)
(* and whether they are places.                                            *)
Literal_ == {Lit(k) : k \in {"int", "float", "text", "char", "bool", "nil"}} \cup {Size}
Atoms == Literal_ \cup {Ident_(x) : x \in DOMAIN Known}

OfType(typed, t, es) == {x \in es : typed.type[x] = t}
Alike(typed, es, fs) == UNION {{<<x, y>> : y \in OfType(typed, typed.type[x], fs)} : x \in es}

(* Sequences of sets of trees: what can be put together.                   *)
OfTwo(pairs, ops) ==
    <<{Bin(op, p[1], p[2]) : op \in ops \ {"=", "+="}, p \in pairs},
      {Assign(op, p[1], p[2]) : op \in ops \cap {"=", "+="}, p \in pairs},
      {Array(p) : p \in pairs}>>
Indexed(es, fs) == <<{Index(x, y) : x \in es, y \in fs}>>
OfOne(es) ==
    <<{Un(op, x) : op \in {"-", "!"}, x \in es},
      {Field(x, f) : x \in es, f \in {"address", "value", "length", "age", "name", "friends", "boss"}},
      {Cast(x, t) : x \in es, t \in {TY_INT, Type("int8"), Type("int64"), DOUBLE, TY_ANY,
                                     TY_TEXT, Ref(TY_INT), Span(TY_INT)}},
      {Array(<<x>>) : x \in es},
      {Call("std", f, <<x>>) : x \in es, f \in {"out", "abs", "str_size", "reserve"}},
      {Call("std", "str_slice", <<x, Lit("int"), Ident_("n")>>) : x \in es},
      {Call("lib", "oldest", <<x>>) : x \in es}, {Call(None, "make", <<x>>) : x \in es}>>
Nils(es) ==
    <<{Bin("==", x, Lit("nil")) : x \in es}, {Bin("!=", Lit("nil"), x) : x \in es},
      {Assign("=", x, Lit("nil")) : x \in es}>>

(* What is one operation higher than es: with few as the right operand, or *)
(* as the left one of others.                                              *)
Operations(typed, es, few, ops, others) ==
    OfOne(es) \o Nils(es) \o Indexed(es, OfType(typed, TY_INT, few)) \o Indexed(few, OfType(typed, TY_INT, es))
        \o OfTwo(Alike(typed, es, few), ops) \o OfTwo(Alike(typed, few, es), others)
Well(typed, trees) ==
    UNION {{e \in trees[k] : TypedAt(typed.env, typed.place, typed.type, e) # None} : k \in DOMAIN trees}
Higher(typed, es, few, ops, others) == es \cup Well(typed, Operations(typed, es, few, ops, others))

Knowing(env, es) ==
    LET place[e \in es] == PlaceAt(place, e)
        type[e \in es] == TypedAt(env, place, type, e)
    IN  [env |-> env, place |-> place, type |-> type]
Few == {Lit("int"), Lit("text"), Ident_("s"), Ident_("b"), Ident_("k"), Ident_("E"), Ident_("a"), Ident_("p")}
Flat ==
    {Call("std", "ask_line", <<>>)}
        \cup Higher(Knowing(Known, Atoms), Atoms, Atoms, {"+", "-", "%", "==", "!=", "<", "&&", "=", "+="}, {})
DeeperThan(flat) == Higher(Knowing(Known, flat), flat, Few, {"+", "==", "=", "+="}, {"+", "!=", "+="})
Deep == DeeperThan(Flat)

Decl(n, t, init) == [kind |-> "decl", name |-> n, type |-> t, init |-> init]

(* One place for each of them, and one where texts and numbers have        *)
(* changed their names.                                                    *)
Any_(trees) == [kind |-> "plain", expr |-> <<>>, trees |-> trees]
Shadowed ==
    [kind |-> "loop", cond |-> <<>>,
     body |-> <<Decl("n", TY_TEXT, <<>>), Decl("s", TY_INT, <<>>), Decl("a", Span(TY_TEXT), <<>>), Any_(Flat)>>]
Typing == [params |-> Params, body |-> <<Any_(Deep), Shadowed, Any_(Flat)>>]
-------------------------------------------------------------------------------
Twice  == Bin("+", Ident_("x"), Ident_("x"))
Both   == Bin("==", Twice, Ident_("E"))
Uses   == [kind |-> "plain", expr |-> <<"x", "E">>, trees |-> {Both}]
Decls  == {Decl(n, t, i) : n \in {"x", "E"}, t \in {TY_INT, TY_TEXT}, i \in {<<>>, <<"x", "E">>}}

If(then, has, otherwise) ==
    [kind |-> "if", cond |-> <<"x">>, then |-> then, has_else |-> has, otherwise |-> otherwise]
While(body) == [kind |-> "loop", cond |-> <<"E">>, body |-> body]
For(init, body) ==
    [kind |-> "for", init |-> init, cond |-> <<"x", "E">>, step |-> <<"x">>, body |-> body]

Blocks == {<<d, Uses>> : d \in Decls}

Compound ==
    {If(b, FALSE, <<>>) : b \in Blocks} \cup {While(b) : b \in Blocks}
        \cup {If(b, TRUE, c) : b \in {<<Uses>>, <<Decl("x", TY_TEXT, <<>>)>>}, c \in Blocks}
        \cup {If(<<Uses>>, TRUE, <<If(b, TRUE, c)>>) : b \in {<<Decl("E", TY_INT, <<>>)>>}, c \in Blocks}
        \cup {If(<<Uses>>, TRUE, <<If(<<Uses>>, TRUE, <<If(<<Uses>>, TRUE, c)>>)>>) : c \in Blocks}
        \cup {For(d, b) : d \in Decls, b \in {<<Uses>>, <<Decl("x", TY_INT, <<"x">>), Uses>>}}

Nested == Compound \cup {For(Decl("x", TY_TEXT, <<>>), <<c, Uses>>) : c \in Compound}
                   \cup {While(<<c, Decl("x", TY_INT, <<>>), Uses>>) : c \in Compound}

Functions_ ==
    {[params |-> p, body |-> before \o <<c, Uses>>] :
        p \in {<<>>, <<Param("x", TY_INT)>>, <<Param("E", TY_TEXT), Param("x", TY_TEXT)>>},
        before \in {<<>>, <<Decl("x", TY_INT, <<"x">>)>>, <<Decl("E", TY_TEXT, <<"x">>)>>}, c \in Nested}

Last2 == [params |-> <<>>, body |-> <<Uses>>]

(* Arrays whose elements are written as literals of another type.          *)
Literally(type, kind) ==
    [kind |-> "decl", name |-> "y", type |-> Span(Type(type)), init |-> <<>>, trees |-> {Array(<<Lit(kind), Lit(kind)>>)}]
Arrays_ == {Array(<<Lit(kind), Lit(kind)>>) : kind \in {"float", "int"}}
Arrays == [params |-> <<>>, body |-> <<Literally("float", "float"), Literally("int8", "int"), Literally("double", "float")>>]
(* All of the expressions, by height.                                      *)
Simple == Atoms \cup {Ident_("x"), Call("std", "ask_line", <<>>)}
ByHeight(flat, deep) == <<Simple, (flat \ Simple) \cup {Twice} \cup Arrays_, (deep \ flat) \cup {Both}>>
MCTrees == ByHeight(Flat, Deep)

MCArrayPrograms == {<<Arrays>>}

MCPrograms == {<<f, Last2>> : f \in Functions_} \cup {<<Typing>>}

RECURSIVE Within(_)
Within(list) ==
    UNION {{list[k]} \cup (CASE list[k].kind = "if" -> Within(list[k].then) \cup Within(list[k].otherwise)
                             [] list[k].kind \in {"loop", "for"} -> Within(list[k].body)
                             [] OTHER -> {}) : k \in DOMAIN list}
WithinAll(programs) == UNION {UNION {Within(p[i].body) : i \in DOMAIN p} : p \in programs}
MCNodes == WithinAll(MCPrograms)
MCArrayNodes == WithinAll(MCArrayPrograms)
MCNames == {"x", "y"} \cup DOMAIN Known
MCTypes == {TY_INT, TY_TEXT} \cup {Params[i].type : i \in DOMAIN Params}
                             \cup {Arrays.body[i].type : i \in DOMAIN Arrays.body}
===============================================================================
