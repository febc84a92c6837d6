------------------------------- MODULE MCLexer -------------------------------
(***************************************************************************)
(* All texts of up to three characters of a small alphabet, and all texts  *)
(* of up to five or six of the characters that have to do with each other: *)
(* numbers; quotes, ticks and escapes; comments and lines; words.          *)
(***************************************************************************)
EXTENDS Lexemes

MCDigits  == {"1"}
MCLetters == {"a", "d", "f", "n", "t", "r", "u", "e"}

Texts(S, n) == UNION {[1..k -> S] : k \in 0..n}

MCSources ==
    Texts({"1", ".", "d", "f", "a", "\"", "'", "\\", "n", "\n", " ", "#", "=", "|", "&", "+", ";", "?"}, 3)
        \cup Texts({"1", ".", "d", "f"}, 5)
        \cup Texts({"\"", "\\", "n"}, 6) \cup Texts({"'", "\\", "\n"}, 5)
        \cup Texts({"\"", "#", "\n", "a"}, 5)
        \cup Texts({"f", "n", "1"}, 4) \cup {<<"t", "r", "u", "e">>, <<"t", "r", "u", "e", "1">>}
        \cup Texts({"=", "!", "&"}, 4)

MCBeyonds == {<<>>, <<"\"", "a">>, <<"'">>}

MCKeywords == {<<"f", "n">>}
===============================================================================
