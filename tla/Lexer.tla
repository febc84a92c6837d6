--------------------------------- MODULE Lexer ---------------------------------
(***************************************************************************)
(* src/lexer.c: rl_lex, one step per iteration of its loops.               *)
(*                                                                         *)
(* The source is a C string, and the lexer knows where it ends only by     *)
(* looking at the next character: every loop must stop at NUL by itself.   *)
(* Behind the NUL lies memory of which nothing is known.                   *)
(***************************************************************************)
EXTENDS Naturals, Sequences, SequencesExt, FiniteSets

CONSTANTS
    Sources,    \* the source texts, each a sequence of characters
    Beyonds,    \* what may lie in memory behind a source's terminator
    Digits, Letters,    \* isdigit, and isalpha or '_'
    Keywords,   \* the spellings in KEYWORDS, but for true and false
    NUL

Newline == "\n"     Quote == "\""       Tick == "'"     Backslash == "\\"
Hash == "#"         Point == "."        Bar == "|"      Equals == "="

Blanks == {" ", "\t", "\r", Newline}

(* The operators: those of one character, and those that take a second.    *)
Singles == {"%", ";", ",", Point, "(", ")", "{", "}", "[", "]"}
Doubles == {"+", "-", "*", "/", Equals, "!", "<", ">"}
Ampersand == "&"

BoolWords == {<<"t", "r", "u", "e">>, <<"f", "a", "l", "s", "e">>}

Signs == Blanks \cup Singles \cup Doubles \cup {Ampersand, Bar, Hash, Quote, Tick, Backslash}

ASSUME AlphabetAssumption ==
    /\ NUL \notin Digits \cup Letters \cup Signs \cup {"d", "f"}
    /\ Digits \cap (Letters \cup Signs \cup {"d", "f"}) = {} /\ Letters \cap Signs = {}
    /\ \A s \in Sources \cup Beyonds : s \in Seq(ToSet(s))
    /\ \A s \in Sources : NUL \notin ToSet(s)

VARIABLES
    source, beyond,     \* the memory read
    pos, at,            \* lx.pos, and lx.line with lx.col
    start,              \* pos and at where the token began
    buf,                \* the rope of lex_string
    mode,               \* the loop or the function the lexer is in
    out                 \* lx.out

vars == <<source, beyond, pos, at, start, buf, mode, out>>

Char(p) ==
    IF p <= Len(source) THEN source[p]
    ELSE IF p - Len(source) - 1 \in DOMAIN beyond THEN beyond[p - Len(source) - 1]
    ELSE NUL

Peek  == Char(pos)
Peek2 == IF Peek = NUL THEN NUL ELSE Char(pos + 1)

Between(p, q) == [i \in 1..(q - p) |-> Char(p + i - 1)]

(* Mutant: the column is not set back.                                     *)
AfterSameColumn(place, c) ==
    IF c = Newline THEN [place EXCEPT !.line = @ + 1] ELSE [place EXCEPT !.col = @ + 1]

(* Where the character behind c stands.                                    *)
After(place, c) ==
    IF c = Newline THEN [line |-> place.line + 1, col |-> 1] ELSE [place EXCEPT !.col = @ + 1]

Advance ==
    /\ pos' = pos + 1
    /\ at' = After(at, Peek)

Token(kind, text) == [kind |-> kind, text |-> text, line |-> start.at.line, col |-> start.at.col]

(* emit, at the end of the function that recognised the token.             *)
Emit(kind, text) ==
    /\ out' = Append(out, Token(kind, text))
    /\ mode' = "top"

Init ==
    /\ source \in Sources /\ beyond \in Beyonds
    /\ pos = 1 /\ at = [line |-> 1, col |-> 1]
    /\ start = [pos |-> 1, at |-> [line |-> 1, col |-> 1]]
    /\ buf = <<>>
    /\ mode = "top"
    /\ out = <<>>

Memory == <<source, beyond>>
Begin  == start' = [pos |-> pos, at |-> at]

SkipBlank ==
    /\ mode = "top"
    /\ Peek \in Blanks
    /\ Advance
    /\ UNCHANGED <<Memory, start, buf, mode, out>>

SkipComment ==
    /\ \/ mode = "top" /\ Peek = Hash
       \/ mode = "comment"
    /\ \/ Peek \notin {Newline, NUL} /\ Advance /\ mode' = "comment"
       \/ Peek \in {Newline, NUL} /\ mode' = "top" /\ UNCHANGED <<pos, at>>
    /\ UNCHANGED <<Memory, start, buf, out>>

(***************************************************************************)
(* lex_number: digits, then a fraction only if a digit follows the point,  *)
(* then a suffix, which the lexeme leaves out.                             *)
(***************************************************************************)
BeginNumber ==
    /\ mode = "top"
    /\ Peek \in Digits
    /\ Begin
    /\ mode' = "digits"
    /\ UNCHANGED <<Memory, pos, at, buf, out>>

(* Mutant: a point is taken for a fraction whatever follows it.            *)
AtPointAnyway == mode = "digits" /\ Peek = Point

AtPoint == mode = "digits" /\ Peek = Point /\ Peek2 \in Digits

NumberChar ==
    /\ mode \in {"digits", "fraction"}
    /\ \/ Peek \in Digits /\ mode' = mode
       \/ AtPoint /\ mode' = "fraction"
    /\ Advance
    /\ UNCHANGED <<Memory, start, buf, out>>

EndNumber ==
    /\ mode \in {"digits", "fraction"}
    /\ Peek \notin Digits /\ ~AtPoint
    /\ \/ Peek = "d" /\ Advance /\ Emit("double", Between(start.pos, pos))
       \/ Peek = "f" /\ Advance /\ Emit("float", Between(start.pos, pos))
       \/ /\ Peek \notin {"d", "f"}
          /\ UNCHANGED <<pos, at>>
          /\ Emit(IF mode = "fraction" THEN "float" ELSE "int", Between(start.pos, pos))
    /\ UNCHANGED <<Memory, start, buf>>

(* What the character behind a backslash stands for.                       *)
Unescaped(e) ==
    CASE e = "n" -> Newline [] e = "t" -> "\t" [] e = "r" -> "\r" [] e = "0" -> NUL
      [] OTHER -> e

(***************************************************************************)
(* lex_string: NUL ends the loop, but the character behind a backslash is  *)
(* taken without a look at it.                                             *)
(***************************************************************************)
BeginString ==
    /\ mode = "top"
    /\ Peek = Quote
    /\ Begin
    /\ Advance
    /\ buf' = <<>>
    /\ mode' = "string"
    /\ UNCHANGED <<Memory, out>>

(* Mutant: only the closing quote ends the loop.                           *)
StringCharToQuote ==
    /\ mode = "string"
    /\ Peek # Quote /\ pos <= Len(source) + 2
    /\ Advance
    /\ buf' = Append(buf, Peek)
    /\ UNCHANGED <<Memory, start, mode, out>>

StringChar ==
    /\ mode = "string"
    /\ Peek \notin {Quote, NUL}
    /\ \/ /\ Peek = Backslash
          /\ pos' = pos + 2
          /\ at' = After(After(at, Peek), Char(pos + 1))
          /\ buf' = Append(buf, Unescaped(Char(pos + 1)))
       \/ /\ Peek # Backslash
          /\ Advance
          /\ buf' = Append(buf, Peek)
    /\ UNCHANGED <<Memory, start, mode, out>>

EndString ==
    /\ mode = "string"
    /\ \/ Peek = Quote /\ Advance /\ Emit("string", buf)
       \/ Peek = NUL /\ mode' = "fatal" /\ UNCHANGED <<pos, at, out>>
    /\ UNCHANGED <<Memory, start, buf>>

(* lex_char: one character, whatever it is, and the closing tick.          *)
LexChar ==
    /\ mode = "top"
    /\ Peek = Tick
    /\ Begin
    /\ LET escaped == Char(pos + 1) = Backslash
           last    == IF escaped THEN pos + 2 ELSE pos + 1
           value   == IF escaped THEN Unescaped(Char(last)) ELSE Char(last)
           inside  == IF escaped THEN After(After(at, Tick), Backslash) ELSE After(at, Tick)
           behind  == After(inside, Char(last))
       IN  \/ /\ Char(last + 1) = Tick
              /\ pos' = last + 2
              /\ at' = After(behind, Tick)
              /\ mode' = "top"
              /\ out' = Append(out, [kind |-> "char", text |-> <<value>>,
                                     line |-> at.line, col |-> at.col])
           \/ /\ Char(last + 1) # Tick
              /\ pos' = last + 1
              /\ at' = behind
              /\ mode' = "fatal"
              /\ UNCHANGED out
    /\ UNCHANGED <<Memory, buf>>

(* lex_ident, with the keyword lookup.                                     *)
WordKind(word) ==
    IF word \in BoolWords THEN "bool" ELSE IF word \in Keywords THEN "keyword" ELSE "ident"

BeginIdent ==
    /\ mode = "top"
    /\ Peek \in Letters
    /\ Begin
    /\ mode' = "ident"
    /\ UNCHANGED <<Memory, pos, at, buf, out>>

(* Mutant: the loop looks at the first character again and again.          *)
IdentCharAgain ==
    /\ mode = "ident"
    /\ Peek \in Letters \cup Digits
    /\ UNCHANGED vars

IdentChar ==
    /\ mode = "ident"
    /\ Peek \in Letters \cup Digits
    /\ Advance
    /\ UNCHANGED <<Memory, start, buf, mode, out>>

EndIdent ==
    /\ mode = "ident"
    /\ Peek \notin Letters \cup Digits
    /\ Emit(WordKind(Between(start.pos, pos)), Between(start.pos, pos))
    /\ UNCHANGED <<Memory, pos, at, start, buf>>

(* The switch: an operator of two characters before one of one.            *)
Second(c) == IF c \in Doubles THEN Equals ELSE c

LexOperator ==
    /\ mode = "top"
    /\ Peek \notin Blanks \cup Digits \cup Letters \cup {NUL, Hash, Quote, Tick}
    /\ Begin
    /\ LET next == After(at, Peek)
           made(text) == Append(out, [kind |-> "operator", text |-> text,
                                      line |-> at.line, col |-> at.col])
       IN  \/ /\ Peek \in Doubles \cup {Ampersand, Bar} /\ Char(pos + 1) = Second(Peek)
              /\ pos' = pos + 2
              /\ at' = After(next, Char(pos + 1))
              /\ out' = made(<<Peek, Char(pos + 1)>>)
              /\ mode' = "top"
           \/ /\ \/ Peek \in Singles
                 \/ Peek \in Doubles \cup {Ampersand} /\ Char(pos + 1) # Second(Peek)
              /\ Advance
              /\ out' = made(<<Peek>>)
              /\ mode' = "top"
           \/ /\ \/ Peek \notin Singles \cup Doubles \cup {Ampersand, Bar}
                 \/ Peek = Bar /\ Char(pos + 1) # Bar
              /\ Advance
              /\ mode' = "fatal"
              /\ UNCHANGED out
    /\ UNCHANGED <<Memory, buf>>

(* Mutant: the list is not closed by an end-of-file token.                 *)
FinishWithoutEof ==
    /\ mode = "top"
    /\ Peek = NUL
    /\ Begin
    /\ mode' = "done"
    /\ UNCHANGED <<Memory, pos, at, buf, out>>

Finish ==
    /\ mode = "top"
    /\ Peek = NUL
    /\ Begin
    /\ out' = Append(out, [kind |-> "eof", text |-> <<>>, line |-> at.line, col |-> at.col])
    /\ mode' = "done"
    /\ UNCHANGED <<Memory, pos, at, buf>>

Next ==
    \/ SkipBlank \/ SkipComment
    \/ BeginNumber \/ NumberChar \/ EndNumber
    \/ BeginString \/ StringChar \/ EndString
    \/ LexChar
    \/ BeginIdent \/ IdentChar \/ EndIdent
    \/ LexOperator
    \/ Finish

(* A loop that can go round goes round.                                    *)
Spec     == Init /\ [][Next]_vars
FairSpec == Spec /\ WF_vars(Next)
-------------------------------------------------------------------------------
Kinds == {"int", "float", "double", "string", "char", "bool", "ident", "keyword", "operator", "eof"}

(* The lexer moves forward from the token it is in, and closes a finished  *)
(* list, and no other, with the end-of-file token that the parser's peek   *)
(* stays on for good.                                                      *)
TypeOK ==
    /\ mode \in {"top", "comment", "digits", "fraction", "string", "ident", "done", "fatal"}
    /\ pos \in Nat \ {0} /\ start.pos \in 1..pos
    /\ \A k \in DOMAIN out : out[k].kind \in Kinds
    /\ \A k \in DOMAIN out : out[k].kind = "eof" <=> k = Len(out) /\ mode = "done"
    /\ mode = "done" => out # <<>>

(* No loop leaves the source: the lexer reads behind the terminator only   *)
(* where a backslash or an opening tick is the last thing in the file.     *)
StaysInSource ==
    pos > Len(source) + 1 => source # <<>> /\ Last(source) \in {Backslash, Tick}

(* Lexing ends, in a list of tokens or in rl_fatal.                        *)
Terminates == <>(mode \in {"done", "fatal"})
===============================================================================
