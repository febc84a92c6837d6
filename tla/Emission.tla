------------------------------- MODULE Emission -------------------------------
(***************************************************************************)
(* src/codegen.c at the level of declarations: rl_generate_c makes three   *)
(* passes over the resolved program, writing C structs, then prototypes,   *)
(* then function bodies, and closes with C's main.  Of a body only the     *)
(* calls are kept: which C symbol each of them becomes.                    *)
(*                                                                         *)
(* The C translation unit is the sequence of its items, in order, because  *)
(* C reads it in order: a type or a function is known below its            *)
(* declaration only.                                                       *)
(***************************************************************************)
EXTENDS Naturals, Sequences, SequencesExt

CONSTANT  None          \* the NULL of module_alias, Expr.module, native_name

VARIABLES program,      \* the declarations, in the order rl_resolve_program left them
          pass,         \* "structs", "prototypes", "bodies", "done"
          next,         \* the loop index of the pass
          header,       \* g.header
          body          \* g.body

vars == <<program, pass, next, header, body>>

IsStruct(d)   == d.kind = "struct"
IsFunction(d) == d.kind = "func"
IsNative(d)   == d.native # None

(***************************************************************************)
(* C symbols.  Names are sequences of characters, since what matters is    *)
(* where an underscore can come from; "rl_u_" and "rl_s_" stand whole, no  *)
(* other symbol having a part of them in common.                           *)
(***************************************************************************)
Underscore == "_"
UserPrefix == "rl_u_"
Separator  == <<Underscore, Underscore>>

(* Mutant: the alias is left out, as in mangle_struct.                     *)
mangle_func_bare(module, name) == <<UserPrefix>> \o name

mangle_func(module, name) ==
    <<UserPrefix>> \o (IF module = None THEN <<>> ELSE module \o Separator) \o name

(* Names that cannot be confused once they are joined by "__".             *)
NoDouble(s) == \A i \in 1..(Len(s) - 1) : ~(s[i] = Underscore /\ s[i + 1] = Underscore)

Clean(module, name) ==
    IF module = None THEN NoDouble(name) ELSE NoDouble(module) /\ Last(module) # Underscore

mangle_struct(name) == <<"rl_s_">> \o name

(***************************************************************************)
(* find_func returns the first function of that alias and name, and NULL   *)
(* when there is none.                                                     *)
(***************************************************************************)
Matches(module, name) ==
    {i \in DOMAIN program :
        IsFunction(program[i]) /\ program[i].alias = module /\ program[i].name = name}

(* Mutant: the alias of the function is not compared.                      *)
call_symbol_any_alias(c) ==
    LET found == {i \in DOMAIN program : IsFunction(program[i]) /\ program[i].name = c.callee}
        f     == CHOOSE i \in found : \A j \in found : i <= j
    IN  IF found # {} /\ IsNative(program[f]) THEN program[f].native
        ELSE mangle_func(c.module, c.callee)

(* EX_CALL (c.module = None) and EX_MODULE_CALL.                           *)
call_symbol(c) ==
    LET found == Matches(c.module, c.callee)
        f     == CHOOSE i \in found : \A j \in found : i <= j
    IN  IF found # {} /\ IsNative(program[f]) THEN program[f].native
        ELSE mangle_func(c.module, c.callee)

(***************************************************************************)
(* The items of the unit.  A struct names the types of its fields; a       *)
(* prototype and a body are told by their symbol; a body makes calls.      *)
(***************************************************************************)
Struct(d) ==
    [item |-> "struct", symbol |-> mangle_struct(d.name),
     needs |-> {mangle_struct(n) : n \in d.fields}]

Prototype(d) == [item |-> "prototype", symbol |-> mangle_func(d.alias, d.name)]

Body(d) ==
    [item |-> "body", symbol |-> mangle_func(d.alias, d.name),
     calls |-> [k \in DOMAIN d.calls |-> call_symbol(d.calls[k])]]

CMain == [item |-> "body", symbol |-> <<"main">>, calls |-> <<mangle_func(None, <<"main">>)>>]

Init ==
    /\ pass = "structs"
    /\ next = 1
    /\ header = <<>>
    /\ body = <<>>

Current == program[next]
InPass(p) == pass = p /\ next <= Len(program)

Written(d) == IsFunction(d) /\ ~IsNative(d)

EmitStruct ==
    /\ InPass("structs")
    /\ header' = IF IsStruct(Current) THEN Append(header, Struct(Current)) ELSE header
    /\ next' = next + 1
    /\ UNCHANGED <<program, pass, body>>

EmitPrototype ==
    /\ InPass("prototypes")
    /\ header' = IF Written(Current) THEN Append(header, Prototype(Current)) ELSE header
    /\ next' = next + 1
    /\ UNCHANGED <<program, pass, body>>

EmitBody ==
    /\ InPass("bodies")
    /\ body' = IF Written(Current) THEN Append(body, Body(Current)) ELSE body
    /\ next' = next + 1
    /\ UNCHANGED <<program, pass, header>>

(* The end of a loop starts the next; the last adds C's main.              *)
EndPass ==
    /\ next > Len(program)
    /\ \/ /\ pass = "structs"
          /\ pass' = "prototypes" /\ next' = 1
          /\ body' = body
       \/ /\ pass = "prototypes"
          /\ pass' = "bodies" /\ next' = 1
          /\ body' = body
       \/ /\ pass = "bodies"
          /\ pass' = "done" /\ next' = next
          /\ body' = Append(body, CMain)
    /\ UNCHANGED <<program, header>>

Next == EmitStruct \/ EmitPrototype \/ EmitBody \/ EndPass
===============================================================================
