------------------------------- MODULE MCDriver -------------------------------
(***************************************************************************)
(* Driver with two runs in one directory of four sources: two              *)
(* programs of two blocks, one of one block that C rejects, one that does  *)
(* not parse, and one whose name has two extensions.                       *)
(***************************************************************************)
EXTENDS Driver, TLC

app == <<"app">>   app_rtl == <<"app", "rtl">>   lib_rtl == <<"lib", "rtl">>
gen_rtl == <<"app", "gen", "rtl">>   bad_rtl == <<"bad", "rtl">>   out == <<"out">>
app_gen_c == <<"app", "gen", "c">>

Prog(id, blocks, parses, compiles) ==
    [id |-> id, blocks |-> blocks, parses |-> parses, compiles |-> compiles]

MCSources ==
    (app_rtl :> Prog("A", 2, TRUE, TRUE)) @@ (lib_rtl :> Prog("L", 1, TRUE, FALSE))
        @@ (gen_rtl :> Prog("G", 2, TRUE, TRUE)) @@ (bad_rtl :> Prog("B", 1, FALSE, FALSE))

Job(args, in, o, emit, keep) ==
    [args |-> args, input |-> in, output |-> o, emit_c_only |-> emit, keep_intermediate |-> keep]

(* Two runs: every pair of these command lines.                            *)
Mode == {<<FALSE, FALSE>>, <<TRUE, FALSE>>, <<FALSE, TRUE>>}

MCJobs ==
    {Job("ok", i, o, m[1], m[2]) : i \in {app_rtl, gen_rtl}, o \in {None, out, app_gen_c}, m \in Mode}
        \cup {Job("ok", i, None, FALSE, FALSE) : i \in {lib_rtl, bad_rtl, <<"none">>}}
        \cup {Job(a, app_rtl, None, FALSE, FALSE) : a \in {"help", "unknown_option", "no_input"}}

Symmetry == Permutations(Runs)
===============================================================================
