-------------------------------- MODULE Scopes --------------------------------
(***************************************************************************)
(* src/codegen.c inside function bodies: gen_stmt and gen_block walk the   *)
(* statements, keep a list of scopes, and write C.  What a name stands for *)
(* is decided twice, by scope_lookup here, which infer builds on, and by   *)
(* the C compiler later.                                                   *)
(*                                                                         *)
(* A statement tree is walked by recursive calls; the calls in progress    *)
(* are the stack "work".  Of an expression the model keeps the names, in   *)
(* the order they are written; of the C text, the braces, the semicolons,  *)
(* the declarations and the names.                                         *)
(***************************************************************************)
EXTENDS Enums, Naturals, Sequences, SequencesExt, FiniteSets

CONSTANTS
    Programs,       \* programs: sequences of functions with params and a body
    Nodes,          \* the statements they are made of, those within others included
    Names, Types    \* the variables and the types of the programs

(***************************************************************************)
(* What a statement is made of.  The statements within a statement are     *)
(* Nodes again, so Nodes is closed under what the walk goes into.          *)
(***************************************************************************)
Used == Seq(Names \cup Enumerators)
List == Seq(Nodes)

Declaration(d) == d.name \in Names /\ d.type \in Types /\ d.init \in Used

Node(s) ==
    \/ s.kind = "decl" /\ Declaration(s)
    \/ s.kind = "plain" /\ s.expr \in Used
    \/ s.kind = "if" /\ s.cond \in Used /\ s.has_else \in BOOLEAN /\ {s.then, s.otherwise} \subseteq List
    \/ s.kind = "loop" /\ s.cond \in Used /\ s.body \in List
    \/ s.kind = "for" /\ Declaration(s.init) /\ {s.cond, s.step} \subseteq Used /\ s.body \in List

ASSUME NodesAssumption == \A s \in Nodes : Node(s)
ASSUME ProgramsAssumption ==
    Programs \subseteq Seq([params : Seq([name : Names, type : Types]), body : List])

VARIABLES
    program,    \* g.prog
    function,   \* the loop index of the third pass of rl_generate_c
    scopes,     \* g.scope, outermost first; a scope lists what was added to it
    work,       \* what the calls in progress have left to do, innermost last
    out         \* g.body

vars == <<program, function, scopes, work, out>>

Variables(s) == [k \in DOMAIN s |-> [name |-> s[k].name, type |-> s[k].type]]

(* scope_lookup: the latest of the innermost scope that has the name.      *)
LatestIn(scope, x) ==
    LET here == {i \in DOMAIN scope : scope[i].name = x} IN
    IF here = {} THEN None ELSE scope[CHOOSE i \in here : \A j \in here : j <= i].type

LookUp(in, x) ==
    LET having == {d \in DOMAIN in : LatestIn(in[d], x) # None} IN
    IF having = {} THEN None ELSE LatestIn(in[CHOOSE d \in having : \A e \in having : e <= d], x)

(* Mutant: the outermost scope that has the name.                          *)
scope_lookup_outermost(x) == LookUp(Reverse(scopes), x)

scope_lookup(x) == LookUp(scopes, x)

(* EX_IDENT: an enumerator becomes its number unless a variable hides it;  *)
(* the type is the one that infer goes by.                                 *)
Ident(x) ==
    IF scope_lookup(x) = None /\ x \in Enumerators THEN [item |-> "number", name |-> x]
    ELSE [item |-> "name", name |-> x, type |-> scope_lookup(x)]

Expr(e) == [k \in DOMAIN e |-> Ident(e[k])]

Mark(item) == <<[item |-> item]>>
Declarator(d) == [item |-> "declare", name |-> d.name, type |-> d.type]
Declare(d) == <<Declarator(d)>>

Added(d) == [scopes EXCEPT ![Len(scopes)] = Append(@, [name |-> d.name, type |-> d.type])]

(* The calls in progress.                                                  *)
Statements(list) == [do |-> "statements", list |-> list]
Otherwise(s, in) == [do |-> "else", statement |-> s, chained |-> in]
EndWalk          == [do |-> "endfor"]

Task    == Last(work)
Pending == Front(work)

Running == work # <<>>
Doing(what) == Running /\ Task.do = what
Statement(kind) == Doing("statements") /\ Task.list # <<>> /\ Head(Task.list).kind = kind
Current == Head(Task.list)
Moved   == Append(Pending, Statements(Tail(Task.list)))

Init ==
    /\ program \in Programs
    /\ function = 1
    /\ scopes = <<<<>>>>
    /\ work = <<>>
    /\ out = <<>>

(* The parameters, which are in scope where the body is; a "semi" ends      *)
(* them as it ends a variable's declaration.                               *)
BeginFunction ==
    /\ ~Running
    /\ function <= Len(program)
    /\ LET params == program[function].params IN
       /\ out' = out \o Mark("open") \o [k \in DOMAIN params |-> Declarator(params[k])] \o Mark("semi")
       /\ scopes' = Append(scopes, Variables(params))
    /\ work' = <<Statements(program[function].body)>>
    /\ UNCHANGED <<program, function>>

(* gen_block opens: the brace and scope_push.                              *)
Block(list, text, callers) ==
    /\ out' = text \o Mark("open")
    /\ scopes' = Append(scopes, <<>>)
    /\ work' = Append(callers, Statements(list))

(* Mutant: the scope is left in place.                                     *)
EndBlockKeepScope ==
    /\ Doing("statements") /\ Task.list = <<>>
    /\ out' = out \o Mark("close")
    /\ work' = Pending
    /\ function' = IF Pending = <<>> THEN function + 1 ELSE function
    /\ UNCHANGED <<program, scopes>>

(* The end of gen_block's loop, or of the function's.                      *)
EndBlock ==
    /\ Doing("statements") /\ Task.list = <<>>
    /\ out' = out \o Mark("close")
    /\ scopes' = Front(scopes)
    /\ work' = Pending
    /\ function' = IF Pending = <<>> THEN function + 1 ELSE function
    /\ UNCHANGED program

(* gen_var_decl: scope_add comes last, behind the initializer.             *)
VarDecl ==
    /\ Statement("decl")
    /\ out' = out \o Declare(Current) \o Expr(Current.init) \o Mark("semi")
    /\ scopes' = Added(Current)
    /\ work' = Moved
    /\ UNCHANGED <<program, function>>

(* ST_EXPR, ST_GIVE, ST_STOP and ST_SKIP, the last two without names.      *)
Plain ==
    /\ Statement("plain")
    /\ out' = out \o Expr(Current.expr) \o Mark("semi")
    /\ work' = Moved
    /\ UNCHANGED <<program, function, scopes>>

(* ST_WHEN up to its first block.                                          *)
When ==
    /\ Statement("if")
    /\ Block(Current.then, out \o Expr(Current.cond), Append(Moved, Otherwise(Current, FALSE)))
    /\ UNCHANGED <<program, function>>

(***************************************************************************)
(* "else": a lone if in it is written as "else if", its own else as a      *)
(* block of its own; so a third if of a chain stands in braces.            *)
(***************************************************************************)
Chained(s) == Len(s.otherwise) = 1 /\ s.otherwise[1].kind = "if"

Else ==
    /\ Doing("else")
    /\ LET s == Task.statement IN
       \/ /\ ~s.has_else
          /\ work' = Pending
          /\ UNCHANGED <<out, scopes>>
       \/ /\ s.has_else /\ ~Task.chained /\ Chained(s)
          /\ LET c == s.otherwise[1] IN
             Block(c.then, out \o Expr(c.cond), Append(Pending, Otherwise(c, TRUE)))
       \/ /\ s.has_else /\ (Task.chained \/ ~Chained(s))
          /\ Block(s.otherwise, out, Pending)
    /\ UNCHANGED <<program, function>>

(* ST_LOOP and ST_BLOCK, the latter without a condition.                   *)
Loop ==
    /\ Statement("loop")
    /\ Block(Current.body, out \o Expr(Current.cond), Moved)
    /\ UNCHANGED <<program, function>>

(* ST_WALK up to its first semicolon: the header has a scope of its own.   *)
Walk ==
    /\ Statement("for")
    /\ out' = out \o Mark("for") \o Declare(Current.init) \o Expr(Current.init.init) \o Mark("semi")
    /\ scopes' = Append(scopes, Variables(<<Current.init>>))
    /\ work' = Append(Append(Moved, EndWalk),
                      [do |-> "header", cond |-> Current.cond, step |-> Current.step,
                       body |-> Current.body])
    /\ UNCHANGED <<program, function>>

(* The condition and the step are written with the variable in scope.      *)
WalkBody ==
    /\ Doing("header")
    /\ Block(Task.body, out \o Expr(Task.cond) \o Mark("semi") \o Expr(Task.step), Pending)
    /\ UNCHANGED <<program, function>>

WalkEnds ==
    /\ Doing("endfor")
    /\ out' = out \o Mark("endfor")
    /\ scopes' = Front(scopes)
    /\ work' = Pending
    /\ UNCHANGED <<program, function>>

Next ==
    \/ BeginFunction \/ EndBlock
    \/ VarDecl \/ Plain
    \/ When \/ Else \/ Loop
    \/ Walk \/ WalkBody \/ WalkEnds

Spec == Init /\ [][Next]_vars
-------------------------------------------------------------------------------
(* A scope per open brace of the C text and per open for, and the program  *)
(* scope below them: what the pushes and the pops of the walk add up to.   *)
Count(item) == Cardinality({k \in DOMAIN out : out[k].item = item})

TypeOK ==
    /\ function \in 1..(Len(program) + 1)
    /\ \A d \in DOMAIN scopes : scopes[d] \in Seq([name : Names, type : Types])
    /\ Len(scopes) = 1 + (Count("open") - Count("close")) + (Count("for") - Count("endfor"))
    /\ ~Running => Len(scopes) = 1

(***************************************************************************)
(* C's reading of the text: a brace or a for opens a scope; a declaration  *)
(* holds from its declarator on, its initializer included.                 *)
(***************************************************************************)
CRead(at, item) ==
    CASE item.item \in {"open", "for"} -> Append(at, <<>>)
      [] item.item \in {"close", "endfor"} -> Front(at)
      [] item.item = "declare" -> [at EXCEPT ![Len(at)] = Append(@, item)]
      [] OTHER -> at
CReading(text) ==
    LET after[k \in 0..Len(text)] == IF k = 0 THEN <<>> ELSE CRead(after[k - 1], text[k]) IN after
CScopes(k) == CReading(out)[k]

CBinding(k, x) == LookUp(CScopes(k), x)

(* C accepts one declaration of a name in a scope.                         *)
Redeclares ==
    \E k \in DOMAIN out :
        /\ out[k].item = "declare"
        /\ LET at == CScopes(k - 1) IN LatestIn(Last(at), out[k].name) # None

(* A use between the declarator of its name and the end of the declaration. *)
InOwnInitializer(k) ==
    \E j \in 1..(k - 1) :
        /\ out[j].item = "declare" /\ out[j].name = out[k].name
        /\ \A i \in j..k : out[i].item \notin {"semi", "open"}

(* In a text that C accepts, a name outside the initializer of a variable  *)
(* of that name has the type for the generator that it has for C, and an   *)
(* enumerator is written as its number just where C knows no such name.    *)
NamesAgree ==
    ~Running /\ ~Redeclares =>
        \A k \in DOMAIN out :
            /\ out[k].item = "name" /\ ~InOwnInitializer(k) =>
                   out[k].type = CBinding(k, out[k].name)
            /\ out[k].item = "number" /\ ~InOwnInitializer(k) =>
                   CBinding(k, out[k].name) = None
===============================================================================
