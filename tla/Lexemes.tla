------------------------------- MODULE Lexemes -------------------------------
(***************************************************************************)
(* What the tokens of a root_lang source are, without a lexer: the shape   *)
(* of each kind of lexeme, the longest one at a place, and the tokens from *)
(* one to the next.  Lexer is compared with it.                            *)
(***************************************************************************)
EXTENDS Lexer

Digital(s) == s # <<>> /\ ToSet(s) \subseteq Digits
Decimal(s) ==
    \E k \in DOMAIN s : s[k] = Point /\ Digital(SubSeq(s, 1, k - 1)) /\ Digital(SubSeq(s, k + 1, Len(s)))

Numeric(s) == Digital(s) \/ Decimal(s)
Suffixed(s, c) == s # <<>> /\ Last(s) = c /\ Numeric(Front(s))

Word(s) == s # <<>> /\ s[1] \in Letters /\ ToSet(s) \subseteq Letters \cup Digits

Operator(s) ==
    \/ \E c \in Singles \cup Doubles \cup {Ampersand} : s = <<c>>
    \/ \E c \in Doubles : s = <<c, Equals>>
    \/ s = <<Ampersand, Ampersand>> \/ s = <<Bar, Bar>>

(* The places of s that a backslash before them has taken the meaning of.  *)
Escaped(s) ==
    LET escaped[i \in 0..Len(s)] == i > 1 /\ s[i - 1] = Backslash /\ ~escaped[i - 1]
    IN  {i \in DOMAIN s : escaped[i]}

Quoted(s) ==
    /\ Len(s) > 1 /\ s[1] = Quote
    /\ {i \in 2..Len(s) : s[i] = Quote /\ i \notin Escaped(s)} = {Len(s)}

Ticked(s) ==
    \/ Len(s) = 3 /\ s[1] = Tick /\ s[2] # Backslash /\ s[3] = Tick
    \/ Len(s) = 4 /\ s[1] = Tick /\ s[2] = Backslash /\ s[4] = Tick

(* What is between the quotes, each escape read as the one it stands for:  *)
(* how s is read from its second place to each of its places.              *)
Meaning(s) ==
    LET read[i \in 0..Len(s)] ==
            IF i < 2 THEN <<>>
            ELSE IF i \in Escaped(s) THEN Append(read[i - 1], Unescaped(s[i]))
            ELSE IF s[i] = Backslash THEN read[i - 1]
            ELSE Append(read[i - 1], s[i])
    IN  read

Value(s) == Meaning(s)[Len(s) - 1]

Lexeme(s) ==
    Numeric(s) \/ Suffixed(s, "d") \/ Suffixed(s, "f") \/ Word(s) \/ Operator(s) \/ Quoted(s) \/ Ticked(s)

KindAndText(s) ==
    IF Digital(s) THEN <<"int", s>>
    ELSE IF Decimal(s) THEN <<"float", s>>
    ELSE IF Suffixed(s, "f") THEN <<"float", Front(s)>>
    ELSE IF Suffixed(s, "d") THEN <<"double", Front(s)>>
    ELSE IF Word(s) THEN <<WordKind(s), s>>
    ELSE IF Operator(s) THEN <<"operator", s>>
    ELSE <<IF Quoted(s) THEN "string" ELSE "char", Value(s)>>

(* The line and the column of a place, counted from the file's beginning.  *)
LineStarts(text, p) == {0} \cup {i \in 1..(p - 1) : text[i] = Newline}
Place(text, p) ==
    [line |-> Cardinality(LineStarts(text, p)),
     col  |-> p - (CHOOSE i \in LineStarts(text, p) : \A j \in LineStarts(text, p) : j <= i)]

(* A place is in a comment if a '#' that no token covers comes before it   *)
(* on its line: Tokens goes from token to token, so a '#' it meets is one. *)
EndOfLine(text, p) ==
    LET ends == {q \in p..Len(text) : text[q] = Newline} IN
    IF ends = {} THEN Len(text) + 1 ELSE CHOOSE q \in ends : \A r \in ends : q <= r

(* Where the longest lexeme at place p ends, or 0.                         *)
Longest(text, p) ==
    LET ends == {q \in p..Len(text) : Lexeme(SubSeq(text, p, q))} IN
    IF ends = {} THEN 0 ELSE CHOOSE q \in ends : \A r \in ends : r <= q

(* The token of a lexeme at place p.                                       *)
TokenAt(text, p, kindAndText) ==
    [kind |-> kindAndText[1], text |-> kindAndText[2],
     line |-> Place(text, p).line, col |-> Place(text, p).col]

(* The tokens of a text from each of its places on, and the place where    *)
(* there is no lexeme, 0 when there is none such.                          *)
Tokens(text) ==
    LET from[p \in 1..(Len(text) + 1)] ==
            IF p > Len(text) THEN [list |-> <<TokenAt(text, p, <<"eof", <<>>>>)>>, stuck |-> 0]
            ELSE IF text[p] \in Blanks THEN from[p + 1]
            ELSE IF text[p] = Hash THEN from[EndOfLine(text, p)]
            ELSE IF Longest(text, p) = 0 THEN [list |-> <<>>, stuck |-> p]
            ELSE LET rest == from[Longest(text, p) + 1]
                     this == KindAndText(SubSeq(text, p, Longest(text, p)))
                 IN  [list |-> <<TokenAt(text, p, this)>> \o rest.list, stuck |-> rest.stuck]
    IN  from
-------------------------------------------------------------------------------
(* A source that does not end in a backslash or a tick is cut into its     *)
(* longest lexemes, each at its line and column with the value its escapes *)
(* stand for, or is rejected at the first place that has none.             *)
LongestLexemes ==
    pos <= Len(source) + 1 =>
        /\ mode = "done" => Tokens(source)[1].stuck = 0 /\ out = Tokens(source)[1].list
        /\ mode = "fatal" => Tokens(source)[1].stuck = start.pos /\ start.at = Place(source, start.pos)

(* At any time the line and the column are those of the next character, in *)
(* or out of strings and comments.                                         *)
PlaceKnown == pos <= Len(source) + 1 => at = Place(source, pos)
===============================================================================
