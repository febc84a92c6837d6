-------------------------------- MODULE CTyping --------------------------------
(***************************************************************************)
(* The C that the generator writes, as far as C's types go: its types, and *)
(* its expressions by what C makes of them.  C11, with the declarations of *)
(* runtime/rootrt.h.  An environment gives the types of variables, the     *)
(* members of structs and the prototypes of functions.                     *)
(***************************************************************************)
EXTENDS Naturals, Sequences

(* A type: what it is named, and the stars behind that.                    *)
C(name)    == [c |-> name, struct |-> "", stars |-> 0]
Struct(n)  == [c |-> "struct", struct |-> n, stars |-> 0]
Ptr(to)    == [to EXCEPT !.stars = @ + 1]
Pointee(t) == [t EXCEPT !.stars = @ - 1]
CString    == Ptr(C("char"))
Address    == Ptr(C("void"))
CInt       == C("int32_t")

Refused == C("refused")
-------------------------------------------------------------------------------
(* Conversion ranks; what is below int is promoted to it.                  *)
Narrow == {"bool", "char", "int8_t", "int16_t", "uint8_t", "uint16_t"}
Ranks  == <<"int32_t", "uint32_t", "int64_t", "uint64_t", "float", "double">>
Ranked == {Ranks[r] : r \in DOMAIN Ranks}
Rank(t) == CHOOSE r \in DOMAIN Ranks : Ranks[r] = t.c

Arithmetic(t) == t.stars = 0 /\ t.c \in Narrow \cup Ranked
Real(t)       == t.stars = 0 /\ t.c \in {"float", "double"}
Whole(t)      == Arithmetic(t) /\ ~Real(t)
Pointer(t)    == t.stars > 0
Scalar(t)     == Arithmetic(t) \/ Pointer(t)
Pointed(t)    == Pointer(t) /\ t # Address

Promoted(t) == IF t.stars = 0 /\ t.c \in Narrow THEN CInt ELSE t
Common(a, b) == IF Rank(Promoted(a)) >= Rank(Promoted(b)) THEN Promoted(a) ELSE Promoted(b)

(* As by an assignment.                                                    *)
Converts(from, to) ==
    \/ from = to /\ from # Refused
    \/ Arithmetic(from) /\ Arithmetic(to)
    \/ Pointer(from) /\ Pointer(to) /\ Address \in {from, to}

Accept(accepted, type) == IF accepted THEN type ELSE Refused

TypeOfUnary(op, e) ==
    CASE op = "!" -> Accept(Scalar(e.type), CInt)
      [] op = "-" -> Accept(Arithmetic(e.type), Promoted(e.type))
      [] op = "&" -> Accept(e.place, Ptr(e.type))
      [] op = "*" -> IF Pointed(e.type) THEN Pointee(e.type) ELSE Refused

TypeOfBinary(op, place, a, b) ==
    CASE op \in {"&&", "||"} -> Accept(Scalar(a) /\ Scalar(b), CInt)
      [] op \in {"==", "!=", "<", ">", "<=", ">="} ->
            Accept(Scalar(a) /\ Scalar(b) /\ Converts(a, b), CInt)
      [] op = "[]" -> IF Pointed(a) /\ Whole(b) THEN Pointee(a) ELSE Refused
      [] op = "=" -> Accept(place /\ Converts(b, a), a)
      [] op \in {"+=", "-="} /\ Pointed(a) -> Accept(place /\ Whole(b), a)
      [] op \in {"+=", "-=", "*=", "/="} -> Accept(place /\ Arithmetic(a) /\ Arithmetic(b), a)
      [] op \in {"+", "-"} /\ Pointed(a) /\ Whole(b) -> a
      [] op = "%" -> IF Whole(a) /\ Whole(b) THEN Common(a, b) ELSE Refused
      [] OTHER -> IF Arithmetic(a) /\ Arithmetic(b) THEN Common(a, b) ELSE Refused

(* rootrt.h:27-41, the parameter of the function that _Generic chooses.    *)
rt_print(t) ==
    CASE t = CString -> CString
      [] Real(t) -> C("double")
      [] t = C("bool") -> C("bool")
      [] t.stars = 0 /\ t.c \in {"uint8_t", "uint16_t", "uint32_t", "uint64_t"} -> C("uint64_t")
      [] OTHER -> C("int64_t")

TypeOfCall(env, symbol, given) ==
    IF symbol = "rt_print"
    THEN Accept(Len(given) = 1 /\ Converts(given[1], rt_print(given[1])), C("void"))
    ELSE IF symbol \notin DOMAIN env.functions THEN Refused
    ELSE LET f == env.functions[symbol] IN
         Accept(/\ Len(given) = Len(f.params)
                /\ \A k \in DOMAIN given : Converts(given[k], f.params[k]), f.result)

TypeOfCast(type, t) ==
    Accept(/\ Scalar(t) /\ Scalar(type)
           /\ ~(Pointer(t) /\ Real(type)) /\ ~(Pointer(type) /\ Real(t)), type)

TypeOfMember(env, by, t, field) ==
    LET held == IF by = "->" /\ Pointed(t) THEN Pointee(t) ELSE t IN
    IF /\ held.stars = 0 /\ held.c = "struct" /\ (by = "->") = Pointer(t)
       /\ held.struct \in DOMAIN env.structs /\ field \in DOMAIN env.structs[held.struct]
    THEN env.structs[held.struct][field] ELSE Refused
-------------------------------------------------------------------------------
(***************************************************************************)
(* An expression, by what C makes of it: its type, Refused if C takes it   *)
(* or a part of it not; whether it can be assigned to; whether two texts   *)
(* are compared in it by where they are; and of what, if it is an array.   *)
(***************************************************************************)
Made(type, place, args) ==
    [type     |-> IF \E k \in DOMAIN args : args[k].type = Refused THEN Refused ELSE type,
     place    |-> place,
     compares |-> \E k \in DOMAIN args : args[k].compares,
     elem     |-> Refused]

Constant(type)      == Made(type, FALSE, <<>>)
Variable(env, name) == Made(env.variables[name], TRUE, <<>>)
Unary(op, a)        == Made(TypeOfUnary(op, a), op = "*", <<a>>)
Operator(op, a, b) ==
    LET made == Made(TypeOfBinary(op, a.place, a.type, b.type), op = "[]", <<a, b>>) IN
    [made EXCEPT !.compares = @ \/ (op \in {"==", "!="} /\ {a.type, b.type} = {CString})]
Calls(env, symbol, args) == Made(TypeOfCall(env, symbol, [k \in DOMAIN args |-> args[k].type]), FALSE, args)
CastTo(type, a)     == Made(TypeOfCast(type, a.type), FALSE, <<a>>)
Member(env, by, a, field) == Made(TypeOfMember(env, by, a.type, field), by = "->" \/ a.place, <<a>>)
(* rt_span_make(sizeof(elem), n, (elem[]){...})                            *)
SpanOf(elem, elems) ==
    [Made(Accept(\A k \in DOMAIN elems : Converts(elems[k].type, elem), Address), FALSE, elems)
        EXCEPT !.elem = elem]
===============================================================================
