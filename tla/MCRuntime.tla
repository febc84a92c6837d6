------------------------------- MODULE MCRuntime -------------------------------
(***************************************************************************)
(* One file through two handles, one variable, and a buffer of three       *)
(* bytes, which a line of two characters does not fit into with its        *)
(* newline.  Files of two or three characters have a cut line, a blank     *)
(* line, or no newline at their end.  Inputs are all texts of up to three  *)
(* characters of five kinds: digit, sign, blank, newline, letter.  Bound:  *)
(* a program that uses the file finds one letter as its input.             *)
(***************************************************************************)
EXTENDS Runtime

MCContents  == {<<"x", "x", NL>>, <<NL, "x", "x">>, <<NL, "x">>}
MCWrites    == {<<"x", NL>>}
MCInputs    == SeqOf({"1", "-", " ", NL, "x"}, 3)
MCSlices    == {<<1, 9>>, <<-1, 1>>}

UsesFiles == input = <<"x">>
MCInit == Init /\ (UsesFiles \/ \A f \in Files : content[f] = <<NL, "x">>)
MCNext == Next /\ (UsesFiles \/ UNCHANGED <<content, stream>>)
MCSpec == MCInit /\ [][MCNext]_vars /\ Fairness
===============================================================================
