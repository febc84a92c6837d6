------------------------------ MODULE LexerProofs ------------------------------
(***************************************************************************)
(* The lexer stays in the source, and closes its list with the end-of-file *)
(* token, whatever the sources are and whatever lies behind them.          *)
(***************************************************************************)
EXTENDS Lexemes, SequenceTheorems, FiniteSetTheorems, WellFoundedInduction, TLAPS

(* What the steps leave alone, and that the tokens are a list.             *)
Shape ==
    /\ source \in Sources
    /\ beyond \in Beyonds
    /\ out \in Seq(ToSet(out))

(***************************************************************************)
(* A step leaves the source only over a character that it has not looked   *)
(* at, since NUL is none of those it looks for.  Once behind the           *)
(* terminator the lexer may be anywhere, so StaysInSource says of such a   *)
(* state only what is true for good: how the source ends.                  *)
(***************************************************************************)
IInv == TypeOK /\ StaysInSource /\ Shape

(* The terminator ends the source, and nothing in it is one.               *)
LEMMA CharFacts ==
    ASSUME Shape
    PROVE  /\ Len(source) \in Nat
           /\ Char(Len(source) + 1) = NUL
           /\ \A p \in 1..Len(source) : Char(p) = source[p] /\ Char(p) # NUL
  <1>1. source \in Seq(ToSet(source)) /\ NUL \notin ToSet(source) /\ beyond \in Seq(ToSet(beyond))
    BY AlphabetAssumption DEF Signs, Shape
  <1>2. Len(source) \in Nat /\ DOMAIN source = 1..Len(source)
    BY <1>1
  <1>3. DOMAIN beyond = 1..Len(beyond) /\ Len(beyond) \in Nat
    BY <1>1
  <1>4. Char(Len(source) + 1) = NUL
    BY <1>2, <1>3 DEF Char
  <1>5. \A p \in 1..Len(source) : Char(p) = source[p]
    BY <1>2 DEF Char
  <1>6. \A p \in 1..Len(source) : source[p] # NUL
    BY <1>1, <1>2 DEF ToSet
  <1> QED
    BY <1>2, <1>4, <1>5, <1>6

(* A function on an interval from one is a sequence.                       *)
LEMMA FunctionSeq ==
    ASSUME NEW S, NEW n \in Nat, NEW f, f = [i \in 1..n |-> f[i]],
           \A i \in 1..n : f[i] \in S
    PROVE  f \in Seq(S) /\ Len(f) = n
  <1>1. f \in [1..n -> S]
    OBVIOUS
  <1> QED
    BY <1>1

(* Appending to a list.                                                    *)
LEMMA Appended ==
    ASSUME NEW s, s \in Seq(ToSet(s)), NEW e
    PROVE  /\ Append(s, e) \in Seq(ToSet(Append(s, e)))
           /\ Len(Append(s, e)) = Len(s) + 1 /\ Len(s) \in Nat
           /\ DOMAIN s = 1..Len(s) /\ DOMAIN Append(s, e) = 1..(Len(s) + 1)
           /\ \A k \in 1..Len(s) : Append(s, e)[k] = s[k]
           /\ Append(s, e)[Len(s) + 1] = e
  <1> DEFINE S == ToSet(s) \cup {e}
             t == Append(s, e)
  <1>1. s \in Seq(S)
    OBVIOUS
  <1>2. /\ t \in Seq(S)
        /\ Len(t) = Len(s) + 1 /\ Len(s) \in Nat
        /\ DOMAIN s = 1..Len(s) /\ DOMAIN t = 1..(Len(s) + 1)
        /\ \A k \in 1..Len(s) : t[k] = s[k]
        /\ t[Len(s) + 1] = e
    BY <1>1
  <1>3. \A k \in DOMAIN t : t[k] \in ToSet(t)
    BY DEF ToSet
  <1>4. Len(t) \in Nat /\ t = [k \in 1..Len(t) |-> t[k]]
    <2>1. t \in Seq(S)
      BY <1>2
    <2> HIDE DEF t
    <2> QED
      BY <2>1
  <1>5. t \in Seq(ToSet(t))
    <2> DEFINE T == ToSet(t)
    <2>1. \A k \in 1..Len(t) : t[k] \in T
      BY <1>2, <1>3
    <2> HIDE DEF T, t
    <2>2. t \in Seq(T)
      BY <1>4, <2>1, FunctionSeq
    <2> QED
      BY <2>2 DEF T
  <1> QED
    BY <1>2, <1>5

(* The lexer starts at the first character with no tokens.                 *)
LEMMA InitIInv == Init => IInv
  <1> SUFFICES ASSUME Init PROVE IInv
    OBVIOUS
  <1>1. Shape
    BY DEF Shape, Init
  <1>2. Len(source) \in Nat
    BY <1>1, CharFacts
  <1> QED
    BY <1>1, <1>2 DEF Init, IInv, TypeOK, StaysInSource

(* A step that makes no token.                                             *)
LEMMA QuietStep ==
    ASSUME IInv, UNCHANGED <<Memory, out>>, mode # "done",
           mode' \in {"top", "comment", "digits", "fraction", "string", "ident", "fatal"},
           pos' \in Nat, pos' >= pos, start'.pos \in 1..pos'
    PROVE  TypeOK' /\ Shape'
  <1>1. Shape'
    BY DEF IInv, Shape, Memory
  <1>2. \A k \in DOMAIN out : out[k].kind # "eof"
    BY DEF IInv, TypeOK
  <1> QED
    BY <1>1, <1>2 DEF IInv, TypeOK

(* A step that makes a token, but not the last one.                        *)
LEMMA TokenStep ==
    ASSUME IInv, UNCHANGED Memory, mode # "done", mode' = "top",
           NEW e, e.kind \in Kinds, e.kind # "eof", out' = Append(out, e),
           pos' \in Nat, pos' >= pos, start'.pos \in 1..pos'
    PROVE  TypeOK' /\ Shape'
  <1>1. out \in Seq(ToSet(out))
    BY DEF IInv, Shape
  <1>2. Shape'
    BY <1>1, Appended DEF IInv, Shape, Memory
  <1>3. \A k \in 1..Len(out) : out[k].kind \in Kinds /\ out[k].kind # "eof"
    BY <1>1, Appended DEF IInv, TypeOK
  <1>4. \A k \in DOMAIN out' : out'[k].kind \in Kinds /\ out'[k].kind # "eof"
    BY <1>1, <1>3, Appended
  <1> QED
    BY <1>2, <1>4 DEF IInv, TypeOK

(* A character that is not NUL is not behind the source.                   *)
LEMMA Looked ==
    ASSUME Shape, NEW p \in Nat \ {0}, p <= Len(source) + 1, Char(p) # NUL
    PROVE  p <= Len(source)
  BY CharFacts

(* A step that leaves the source does so as StaysInSource says.            *)
LEMMA StaysStep ==
    ASSUME IInv, UNCHANGED Memory,
           pos <= Len(source) + 1 =>
              \/ pos' <= Len(source) + 1
              \/ source # <<>> /\ Last(source) \in {Backslash, Tick},
           pos' \in Nat
    PROVE  StaysInSource'
  <1>1. Len(source) \in Nat /\ pos \in Nat
    BY CharFacts DEF IInv, TypeOK
  <1> QED
    BY <1>1 DEF IInv, StaysInSource, Memory

(* One character on, over one that is not NUL.                             *)
LEMMA OverOne ==
    ASSUME IInv, UNCHANGED Memory, pos' = pos + 1, Peek # NUL
    PROVE  StaysInSource'
  <1>1. Len(source) \in Nat /\ pos \in Nat \ {0} /\ Shape
    BY CharFacts DEF IInv, TypeOK
  <1>2. pos <= Len(source) + 1 => pos <= Len(source)
    BY <1>1, Looked DEF Peek
  <1>3. pos <= Len(source) + 1 => pos' <= Len(source) + 1
    BY <1>1, <1>2
  <1> QED
    BY <1>1, <1>3, StaysStep

(* Where it was.                                                           *)
LEMMA OverNone ==
    ASSUME IInv, UNCHANGED Memory, pos' = pos
    PROVE  StaysInSource'
  BY DEF IInv, StaysInSource, Memory

LEMMA PosFacts == IInv => pos \in Nat \ {0} /\ start.pos \in 1..pos /\ pos \in 1..pos
  BY DEF IInv, TypeOK

(* The last character of a source that is not empty.                       *)
LEMMA LastOfSource ==
    ASSUME Shape, NEW p \in Nat \ {0}, p = Len(source)
    PROVE  source # <<>> /\ Last(source) = Char(p)
  <1>1. Len(source) \in Nat
    BY CharFacts
  <1>2. source # <<>>
    BY <1>1
  <1>3. Char(p) = source[Len(source)]
    BY <1>1, CharFacts
  <1> QED
    BY <1>2, <1>3 DEF Last
-------------------------------------------------------------------------------
LEMMA SkipBlankKeeps == IInv /\ SkipBlank => IInv'
  <1> SUFFICES ASSUME IInv, SkipBlank PROVE IInv'
    OBVIOUS
  <1>1. Peek # NUL
    BY AlphabetAssumption DEF Signs, SkipBlank
  <1>2. pos' = pos + 1 /\ UNCHANGED <<Memory, start, mode, out>> /\ mode = "top"
    BY DEF SkipBlank, Advance
  <1> QED
    BY <1>1, <1>2, PosFacts, QuietStep, OverOne DEF IInv

LEMMA SkipCommentKeeps == IInv /\ SkipComment => IInv'
  <1> SUFFICES ASSUME IInv, SkipComment PROVE IInv'
    OBVIOUS
  <1>1. UNCHANGED <<Memory, start, out>> /\ mode # "done" /\ mode' \in {"top", "comment"}
    BY DEF SkipComment
  <1>2. pos' = pos \/ (pos' = pos + 1 /\ Peek # NUL)
    BY DEF SkipComment, Advance
  <1>3. TypeOK' /\ Shape'
    BY <1>1, <1>2, PosFacts, QuietStep
  <1> QED
    BY <1>1, <1>2, <1>3, OverOne, OverNone DEF IInv

LEMMA BeginNumberKeeps == IInv /\ BeginNumber => IInv'
  BY PosFacts, QuietStep, OverNone DEF BeginNumber, Begin, IInv

LEMMA NumberCharKeeps == IInv /\ NumberChar => IInv'
  <1> SUFFICES ASSUME IInv, NumberChar PROVE IInv'
    OBVIOUS
  <1>1. Peek # NUL
    <2>1. CASE Peek \in Digits
      BY <2>1, AlphabetAssumption DEF Signs
    <2>2. CASE AtPoint
      BY <2>2, AlphabetAssumption DEF Signs, AtPoint, Peek2
    <2> QED
      BY <2>1, <2>2 DEF NumberChar
  <1>2. pos' = pos + 1 /\ UNCHANGED <<Memory, start, out>> /\ mode # "done"
        /\ mode' \in {"digits", "fraction"}
    BY DEF NumberChar, Advance
  <1> QED
    BY <1>1, <1>2, PosFacts, QuietStep, OverOne DEF IInv

LEMMA EndNumberKeeps == IInv /\ EndNumber => IInv'
  <1> SUFFICES ASSUME IInv, EndNumber PROVE IInv'
    OBVIOUS
  <1>1. UNCHANGED <<Memory, start>> /\ mode # "done" /\ mode' = "top"
    BY DEF EndNumber, Emit
  <1>2. pos' = pos \/ (pos' = pos + 1 /\ Peek # NUL)
    BY AlphabetAssumption DEF Signs, EndNumber, Advance
  <1>3. \E kind \in {"double", "float", "int"} :
            out' = Append(out, Token(kind, Between(start.pos, pos)))
    BY DEF EndNumber, Emit
  <1>4. PICK kind \in {"double", "float", "int"} :
            out' = Append(out, Token(kind, Between(start.pos, pos)))
    BY <1>3
  <1>5. Token(kind, Between(start.pos, pos)).kind = kind /\ kind \in Kinds /\ kind # "eof"
    BY DEF Token, Kinds
  <1>6. TypeOK' /\ Shape'
    BY <1>1, <1>2, <1>4, <1>5, PosFacts, TokenStep
  <1> QED
    BY <1>1, <1>2, <1>6, OverOne, OverNone DEF IInv

LEMMA BeginStringKeeps == IInv /\ BeginString => IInv'
  <1> SUFFICES ASSUME IInv, BeginString PROVE IInv'
    OBVIOUS
  <1>1. Peek # NUL
    BY AlphabetAssumption DEF Signs, BeginString
  <1>2. pos' = pos + 1 /\ start'.pos = pos /\ UNCHANGED <<Memory, out>> /\ mode = "top" /\ mode' = "string"
    BY DEF BeginString, Begin, Advance
  <1> QED
    BY <1>1, <1>2, PosFacts, QuietStep, OverOne DEF IInv

(* The second disjunct of StaysInSource: a backslash that ends the source. *)
LEMMA StringCharKeeps == IInv /\ StringChar => IInv'
  <1> SUFFICES ASSUME IInv, StringChar PROVE IInv'
    OBVIOUS
  <1>1. UNCHANGED <<Memory, start, mode, out>> /\ mode = "string" /\ Peek # NUL
    BY DEF StringChar
  <1>2. CASE Peek = Backslash /\ pos' = pos + 2
    <2>1. TypeOK' /\ Shape'
      BY <1>1, <1>2, PosFacts, QuietStep
    <2>2. Shape /\ pos \in Nat \ {0} /\ Len(source) \in Nat
      BY PosFacts, CharFacts DEF IInv
    <2>3. ASSUME pos <= Len(source) + 1, ~(pos' <= Len(source) + 1)
          PROVE  source # <<>> /\ Last(source) = Backslash
      <3>1. pos <= Len(source)
        BY <1>1, <2>2, <2>3, Looked DEF Peek
      <3>2. pos = Len(source)
        BY <1>2, <2>2, <2>3, <3>1
      <3> QED
        BY <1>2, <2>2, <3>2, LastOfSource DEF Peek
    <2> QED
      BY <1>1, <1>2, <2>1, <2>2, <2>3, StaysStep DEF IInv
  <1>3. CASE pos' = pos + 1
    BY <1>1, <1>3, PosFacts, QuietStep, OverOne DEF IInv
  <1> QED
    BY <1>2, <1>3 DEF StringChar, Advance

LEMMA EndStringKeeps == IInv /\ EndString => IInv'
  <1> SUFFICES ASSUME IInv, EndString PROVE IInv'
    OBVIOUS
  <1>1. UNCHANGED <<Memory, start>> /\ mode = "string"
    BY DEF EndString
  <1>2. CASE Peek = Quote /\ Advance /\ Emit("string", buf)
    <2>1. Peek # NUL /\ pos' = pos + 1 /\ mode' = "top" /\ out' = Append(out, Token("string", buf))
      BY <1>2, AlphabetAssumption DEF Signs, Advance, Emit
    <2>2. Token("string", buf).kind \in Kinds /\ Token("string", buf).kind # "eof"
      BY DEF Token, Kinds
    <2> QED
      BY <1>1, <2>1, <2>2, PosFacts, TokenStep, OverOne DEF IInv
  <1>3. CASE mode' = "fatal" /\ UNCHANGED <<pos, at, out>>
    BY <1>1, <1>3, PosFacts, QuietStep, OverNone DEF IInv
  <1> QED
    BY <1>2, <1>3 DEF EndString

(***************************************************************************)
(* An opening tick: the character behind it, or behind its backslash, is   *)
(* taken unseen.  It is the terminator only if the tick or the backslash   *)
(* ends the source.                                                        *)
(***************************************************************************)
LEMMA LexCharKeeps == IInv /\ LexChar => IInv'
  <1> SUFFICES ASSUME IInv, LexChar PROVE IInv'
    OBVIOUS
  <1> DEFINE last == IF Char(pos + 1) = Backslash THEN pos + 2 ELSE pos + 1
  <1>1. UNCHANGED Memory /\ mode = "top" /\ Peek = Tick /\ start'.pos = pos
    BY DEF LexChar, Begin
  <1>2. \/ Char(last + 1) = Tick /\ pos' = last + 2 /\ mode' = "top"
        \/ pos' = last + 1 /\ mode' = "fatal" /\ out' = out
    BY DEF LexChar
  <1>3. mode' = "top" => \E e : e.kind = "char" /\ out' = Append(out, e)
    BY DEF LexChar
  <1>4. Shape /\ pos \in Nat \ {0} /\ Len(source) \in Nat
    BY PosFacts, CharFacts DEF IInv
  <1>5. NUL # Tick /\ NUL # Backslash
    BY AlphabetAssumption DEF Signs
  <1>6. ASSUME pos <= Len(source) + 1, ~(pos' <= Len(source) + 1)
        PROVE  source # <<>> /\ Last(source) \in {Backslash, Tick}
    <2>1. pos <= Len(source)
      BY <1>1, <1>4, <1>5, <1>6, Looked DEF Peek
    <2>2. last <= Len(source) =>
              /\ Char(last + 1) = Tick
              /\ last + 1 = Len(source) + 1
      BY <1>2, <1>4, <1>6, <2>1
    <2>3. ~(last <= Len(source))
      BY <1>4, <1>5, <2>2, CharFacts
    <2>4. CASE Char(pos + 1) = Backslash
      <3>1. pos + 1 <= Len(source)
        BY <1>4, <1>5, <2>1, <2>4, Looked
      <3>2. pos + 1 = Len(source)
        BY <1>4, <2>3, <2>4, <3>1
      <3> QED
        BY <1>4, <2>4, <3>2, LastOfSource
    <2>5. CASE Char(pos + 1) # Backslash
      <3>1. pos = Len(source)
        BY <1>4, <2>1, <2>3, <2>5
      <3> QED
        BY <1>1, <1>4, <3>1, LastOfSource DEF Peek
    <2> QED
      BY <2>4, <2>5
  <1>7. pos' \in Nat /\ pos' >= pos /\ start'.pos \in 1..pos'
    BY <1>1, <1>2, <1>4
  <1>8. StaysInSource'
    BY <1>1, <1>6, <1>7, StaysStep
  <1>9. TypeOK' /\ Shape'
    <2>1. CASE mode' = "top"
      <3>1. PICK e : e.kind = "char" /\ out' = Append(out, e)
        BY <1>3, <2>1
      <3>2. e.kind \in Kinds /\ e.kind # "eof"
        BY <3>1 DEF Kinds
      <3> HIDE DEF last
      <3> QED
        BY <1>1, <1>7, <2>1, <3>1, <3>2, TokenStep
    <2>2. CASE mode' = "fatal" /\ out' = out
      BY <1>1, <1>7, <2>2, QuietStep
    <2> QED
      BY <1>2, <2>1, <2>2
  <1> QED
    BY <1>8, <1>9 DEF IInv

LEMMA BeginIdentKeeps == IInv /\ BeginIdent => IInv'
  BY PosFacts, QuietStep, OverNone DEF BeginIdent, Begin, IInv

LEMMA IdentCharKeeps == IInv /\ IdentChar => IInv'
  <1> SUFFICES ASSUME IInv, IdentChar PROVE IInv'
    OBVIOUS
  <1>1. Peek # NUL
    BY AlphabetAssumption DEF Signs, IdentChar
  <1>2. pos' = pos + 1 /\ UNCHANGED <<Memory, start, mode, out>> /\ mode = "ident"
    BY DEF IdentChar, Advance
  <1> QED
    BY <1>1, <1>2, PosFacts, QuietStep, OverOne DEF IInv

LEMMA EndIdentKeeps == IInv /\ EndIdent => IInv'
  <1> SUFFICES ASSUME IInv, EndIdent PROVE IInv'
    OBVIOUS
  <1> DEFINE word == Between(start.pos, pos)
             token == Token(WordKind(word), word)
  <1>1. UNCHANGED <<Memory, pos, start>> /\ mode = "ident" /\ mode' = "top" /\ out' = Append(out, token)
    BY DEF EndIdent, Emit
  <1>2. token.kind \in Kinds /\ token.kind # "eof"
    BY DEF Token, WordKind, Kinds
  <1> HIDE DEF token
  <1> QED
    BY <1>1, <1>2, PosFacts, TokenStep, OverNone DEF IInv

LEMMA LexOperatorKeeps == IInv /\ LexOperator => IInv'
  <1> SUFFICES ASSUME IInv, LexOperator PROVE IInv'
    OBVIOUS
  <1>1. UNCHANGED Memory /\ mode = "top" /\ Peek # NUL /\ start'.pos = pos
    BY DEF LexOperator, Begin
  <1>2. Shape /\ pos \in Nat \ {0} /\ Len(source) \in Nat
    BY PosFacts, CharFacts DEF IInv
  <1>3. \/ pos' = pos + 1
        \/ pos' = pos + 2 /\ Char(pos + 1) = Second(Peek)
    BY DEF LexOperator, Advance
  <1>4. \/ mode' = "fatal" /\ out' = out
        \/ mode' = "top" /\ \E e : e.kind = "operator" /\ out' = Append(out, e)
    BY DEF LexOperator
  <1>5. ASSUME pos' = pos + 2, Char(pos + 1) = Second(Peek) PROVE StaysInSource'
    <2>1. Char(pos + 1) # NUL
      BY <1>1, <1>5, AlphabetAssumption DEF Signs, Second, Doubles
    <2>2. ASSUME pos <= Len(source) + 1 PROVE pos' <= Len(source) + 1
      <3>1. pos <= Len(source)
        BY <1>1, <1>2, <2>2, Looked DEF Peek
      <3>2. pos + 1 <= Len(source)
        BY <1>2, <2>1, <3>1, Looked
      <3> QED
        BY <1>2, <1>5, <3>2
    <2> QED
      BY <1>1, <1>2, <1>5, <2>2, StaysStep
  <1>6. StaysInSource'
    BY <1>1, <1>3, <1>5, OverOne
  <1>7. pos' \in Nat /\ pos' >= pos /\ start'.pos \in 1..pos'
    BY <1>1, <1>2, <1>3
  <1>8. CASE mode' = "fatal" /\ out' = out
    BY <1>1, <1>6, <1>7, <1>8, QuietStep DEF IInv
  <1>9. CASE mode' = "top" /\ \E e : e.kind = "operator" /\ out' = Append(out, e)
    <2>1. PICK e : e.kind = "operator" /\ out' = Append(out, e)
      BY <1>9
    <2>2. e.kind \in Kinds /\ e.kind # "eof"
      BY <2>1 DEF Kinds
    <2> QED
      BY <1>1, <1>6, <1>7, <1>9, <2>1, <2>2, TokenStep DEF IInv
  <1> QED
    BY <1>4, <1>8, <1>9

(* The last token is the end of the file, and the only one.                *)
LEMMA FinishKeeps == IInv /\ Finish => IInv'
  <1> SUFFICES ASSUME IInv, Finish PROVE IInv'
    OBVIOUS
  <1>1. UNCHANGED <<Memory, pos>> /\ mode = "top" /\ mode' = "done" /\ start'.pos = pos
    BY DEF Finish, Begin
  <1>2. PICK e : e.kind = "eof" /\ out' = Append(out, e)
    BY DEF Finish
  <1>3. out \in Seq(ToSet(out))
    BY DEF IInv, Shape
  <1>4. Shape'
    BY <1>1, <1>2, <1>3, Appended DEF IInv, Shape, Memory
  <1>5. \A k \in 1..Len(out) : out[k].kind \in Kinds /\ out[k].kind # "eof"
    BY <1>1, <1>3, Appended DEF IInv, TypeOK
  <1>6. /\ DOMAIN out' = 1..Len(out') /\ Len(out') = Len(out) + 1 /\ Len(out) \in Nat
        /\ \A k \in DOMAIN out' : out'[k].kind \in Kinds
        /\ \A k \in DOMAIN out' : out'[k].kind = "eof" <=> k = Len(out')
    <2>1. /\ DOMAIN out' = 1..(Len(out) + 1) /\ Len(out') = Len(out) + 1 /\ Len(out) \in Nat
          /\ \A k \in 1..Len(out) : out'[k] = out[k]
          /\ out'[Len(out) + 1] = e
      BY <1>2, <1>3, Appended
    <2> QED
      BY <1>2, <1>5, <2>1 DEF Kinds
  <1>7. out' # <<>>
    BY <1>6
  <1>8. TypeOK'
    BY <1>1, <1>6, <1>7, PosFacts DEF TypeOK
  <1> QED
    BY <1>1, <1>4, <1>8, OverNone DEF IInv
-------------------------------------------------------------------------------
LEMMA NextKeeps == IInv /\ [Next]_vars => IInv'
  <1> SUFFICES ASSUME IInv, [Next]_vars PROVE IInv'
    OBVIOUS
  <1>1. CASE UNCHANGED vars
    BY <1>1 DEF vars, IInv, TypeOK, StaysInSource, Shape
  <1> QED
    BY <1>1, SkipBlankKeeps, SkipCommentKeeps, BeginNumberKeeps, NumberCharKeeps, EndNumberKeeps,
       BeginStringKeeps, StringCharKeeps, EndStringKeeps, LexCharKeeps, BeginIdentKeeps,
       IdentCharKeeps, EndIdentKeeps, LexOperatorKeeps, FinishKeeps DEF Next

LEMMA Invariance == Spec => []IInv
  BY InitIInv, NextKeeps, PTL DEF Spec

(* rl_lex moves forward, and when it ends its list is closed by the        *)
(* end-of-file token, as the parser takes for granted.                     *)
THEOREM TypeCorrect == Spec => []TypeOK
  <1>1. IInv => TypeOK
    BY DEF IInv
  <1> QED
    BY <1>1, Invariance, PTL

(* The lexer reads behind the terminator only of sources that end in a     *)
(* backslash or a tick.                                                    *)
THEOREM LexerStaysInSource == Spec => []StaysInSource
  <1>1. IInv => StaysInSource
    BY DEF IInv
  <1> QED
    BY <1>1, Invariance, PTL
-------------------------------------------------------------------------------
(***************************************************************************)
(* Line and column.  They are kept by hand, one character at a time; the   *)
(* lemmas compare a step with counting from the file's beginning.          *)
(***************************************************************************)
LastStart(text, p, i) == i \in LineStarts(text, p) /\ \A j \in LineStarts(text, p) : j <= i

LEMMA HasLastStart ==
    ASSUME NEW p \in Nat \ {0}
    PROVE  \E i \in LineStarts(source, p) : LastStart(source, p, i)
  <1> DEFINE Behind == {d \in Nat : d <= p - 1 /\ p - 1 - d \in LineStarts(source, p)}
  <1>1. p - 1 \in Behind
    BY DEF LineStarts
  <1>2. Behind \subseteq Nat /\ Behind # {}
    BY <1>1
  <1> HIDE DEF Behind
  <1>3. PICK d \in Behind : \A e \in Behind : ~(<<e, d>> \in OpToRel(<, Nat))
    BY <1>2, WFMin, NatLessThanWellFounded
  <1>4. \A e \in Behind : ~(e < d)
    BY <1>2, <1>3 DEF OpToRel
  <1>5. LineStarts(source, p) \subseteq 0..(p - 1)
    BY DEF LineStarts
  <1>6. d \in Nat /\ d <= p - 1 /\ p - 1 - d \in LineStarts(source, p)
    BY <1>3 DEF Behind
  <1>7. ASSUME NEW j \in LineStarts(source, p) PROVE j <= p - 1 - d
    <2>1. j \in Nat /\ j <= p - 1
      BY <1>5
    <2>2. p - 1 - j \in Behind
      <3>1. p - 1 - j \in Nat /\ p - 1 - j <= p - 1 /\ p - 1 - (p - 1 - j) = j
        BY <2>1
      <3> QED
        BY <3>1, <1>7 DEF Behind
    <2>3. ~(p - 1 - j < d)
      BY <1>4, <2>2
    <2> QED
      BY <1>6, <2>1, <2>3
  <1> QED
    BY <1>6, <1>7 DEF LastStart

(* The column is the distance to the last line start, which is one only.   *)
LEMMA ColumnFrom ==
    ASSUME NEW p \in Nat \ {0}, NEW i, LastStart(source, p, i)
    PROVE  Place(source, p).col = p - i /\ i \in Nat
  <1>1. LineStarts(source, p) \subseteq Nat
    BY DEF LineStarts
  <1>2. (CHOOSE k \in LineStarts(source, p) : \A j \in LineStarts(source, p) : j <= k) = i
    BY <1>1 DEF LastStart
  <1> QED
    BY <1>1, <1>2 DEF Place, LastStart

LEMMA PlaceOfNext ==
    ASSUME Shape, NEW p \in 1..Len(source)
    PROVE  After(Place(source, p), Char(p)) = Place(source, p + 1)
  <1>1. Len(source) \in Nat /\ Char(p) = source[p]
    BY CharFacts
  <1>2. PICK i \in LineStarts(source, p) : LastStart(source, p, i)
    BY HasLastStart
  <1>3. IsFiniteSet(LineStarts(source, p)) /\ LineStarts(source, p) \subseteq 0..(p - 1)
    <2>1. p - 1 \in Int /\ 0 \in Int
      BY <1>1
    <2>2. IsFiniteSet(0..(p - 1))
      BY <2>1, FS_Interval
    <2>3. LineStarts(source, p) \subseteq 0..(p - 1)
      BY <1>1 DEF LineStarts
    <2> QED
      BY <2>2, <2>3, FS_Subset
  <1>4. Place(source, p).col = p - i /\ i \in Nat /\ i <= p - 1
    BY <1>2, <1>3, ColumnFrom
  <1>5. /\ Place(source, p) = [line |-> Cardinality(LineStarts(source, p)), col |-> Place(source, p).col]
        /\ Place(source, p + 1) = [line |-> Cardinality(LineStarts(source, p + 1)), col |-> Place(source, p + 1).col]
    BY DEF Place
  <1>6. CASE Char(p) = Newline
    <2>1. LineStarts(source, p + 1) = LineStarts(source, p) \cup {p}
      <3>1. 1..((p + 1) - 1) = (1..(p - 1)) \cup {p}
        BY <1>1
      <3> QED
        BY <1>1, <1>6, <3>1 DEF LineStarts
    <2>2. Cardinality(LineStarts(source, p + 1)) = Cardinality(LineStarts(source, p)) + 1
      <3>1. p \notin LineStarts(source, p)
        BY <1>1, <1>3
      <3> QED
        BY <1>3, <2>1, <3>1, FS_AddElement
    <2>3. LastStart(source, p + 1, p)
      BY <1>3, <2>1 DEF LastStart
    <2>4. Place(source, p + 1).col = 1
      BY <2>3, ColumnFrom
    <2> QED
      BY <1>5, <1>6, <2>2, <2>4 DEF After
  <1>7. CASE Char(p) # Newline
    <2>1. LineStarts(source, p + 1) = LineStarts(source, p)
      BY <1>1, <1>7 DEF LineStarts
    <2>2. LastStart(source, p + 1, i)
      BY <1>2, <2>1 DEF LastStart
    <2>3. Place(source, p + 1).col = Place(source, p).col + 1
      <3>1. Place(source, p + 1).col = p + 1 - i
        BY <2>2, ColumnFrom
      <3> QED
        BY <1>4, <3>1
    <2>4. After(Place(source, p), Char(p)) = [Place(source, p) EXCEPT !.col = @ + 1]
      BY <1>7 DEF After
    <2> QED
      BY <1>5, <2>1, <2>3, <2>4
  <1> QED
    BY <1>6, <1>7

(* PlaceKnown, with what the proof needs to know of the position.          *)
PInv == IInv /\ PlaceKnown

(* The next character, the one behind it, and so on, as far as the source  *)
(* goes: where the lexer is then.                                          *)
LEMMA PlacesAhead ==
    ASSUME PInv
    PROVE  /\ pos \in Nat \ {0} /\ Len(source) \in Nat
           /\ pos <= Len(source) + 1 => at = Place(source, pos)
           /\ pos <= Len(source) => After(at, Peek) = Place(source, pos + 1)
           /\ \A p \in 1..Len(source) : After(Place(source, p), Char(p)) = Place(source, p + 1)
  <1>1. Shape /\ pos \in Nat \ {0}
    BY PosFacts DEF PInv, IInv
  <1>2. Len(source) \in Nat
    BY <1>1, CharFacts
  <1>3. \A p \in 1..Len(source) : After(Place(source, p), Char(p)) = Place(source, p + 1)
    BY <1>1, PlaceOfNext
  <1> QED
    BY <1>1, <1>2, <1>3 DEF PInv, PlaceKnown, Peek

LEMMA SamePlaces == ASSUME UNCHANGED Memory PROVE \A p : Place(source, p)' = Place(source, p) /\ Len(source)' = Len(source)
  BY DEF Memory, Place, LineStarts

LEMMA PlaceInit == Init => PlaceKnown
  <1> SUFFICES ASSUME Init PROVE at = Place(source, 1)
    BY DEF Init, PlaceKnown
  <1>1. LineStarts(source, 1) = {0}
    BY DEF LineStarts
  <1>2. LastStart(source, 1, 0)
    BY <1>1 DEF LastStart
  <1>3. Place(source, 1).col = 1
    BY <1>2, ColumnFrom
  <1>4. Place(source, 1) = [line |-> Cardinality(LineStarts(source, 1)), col |-> Place(source, 1).col]
    BY DEF Place
  <1> QED
    BY <1>1, <1>3, <1>4, FS_Singleton DEF Init

(* Over one character, or over none.                                       *)
LEMMA PlaceOver ==
    ASSUME PInv, UNCHANGED Memory, Advance \/ UNCHANGED <<pos, at>>
    PROVE  PlaceKnown'
  <1>1. Len(source)' = Len(source) /\ \A p : Place(source, p)' = Place(source, p)
    BY SamePlaces
  <1> QED
    BY <1>1, PlacesAhead DEF Advance, PlaceKnown

LEMMA PlaceOverTwo ==
    ASSUME PInv, UNCHANGED Memory, pos' = pos + 2, at' = After(After(at, Peek), Char(pos + 1))
    PROVE  PlaceKnown'
  <1>1. Len(source)' = Len(source) /\ \A p : Place(source, p)' = Place(source, p)
    BY SamePlaces
  <1>2. ASSUME pos' <= Len(source) + 1 PROVE at' = Place(source, pos')
    <2>1. pos \in 1..Len(source) /\ pos + 1 \in 1..Len(source) /\ pos + 2 = (pos + 1) + 1
      BY <1>2, PlacesAhead
    <2>2. After(at, Peek) = Place(source, pos + 1)
      BY <2>1, PlacesAhead
    <2>3. After(Place(source, pos + 1), Char(pos + 1)) = Place(source, pos + 2)
      BY <2>1, PlacesAhead
    <2> QED
      BY <2>2, <2>3
  <1> QED
    BY <1>1, <1>2 DEF PlaceKnown

(* A backslash and what it escapes: past the source only if it ends it.    *)
LEMMA PlaceStringChar == PInv /\ StringChar => PlaceKnown'
  <1> SUFFICES ASSUME PInv, StringChar PROVE PlaceKnown'
    OBVIOUS
  <1>1. UNCHANGED Memory
    BY DEF StringChar
  <1>2. CASE Advance
    BY <1>1, <1>2, PlaceOver
  <1>3. CASE pos' = pos + 2 /\ at' = After(After(at, Peek), Char(pos + 1))
    BY <1>1, <1>3, PlaceOverTwo
  <1> QED
    BY <1>2, <1>3 DEF StringChar

LEMMA PlaceChar == PInv /\ LexChar => PlaceKnown'
  <1> SUFFICES ASSUME PInv, LexChar PROVE PlaceKnown'
    OBVIOUS
  <1> DEFINE escaped == Char(pos + 1) = Backslash
             last    == IF escaped THEN pos + 2 ELSE pos + 1
             inside  == IF escaped THEN After(After(at, Tick), Backslash) ELSE After(at, Tick)
             behind  == After(inside, Char(last))
  <1>1. UNCHANGED Memory /\ Peek = Tick
    BY DEF LexChar
  <1>2. \/ Char(last + 1) = Tick /\ pos' = last + 2 /\ at' = After(behind, Tick)
        \/ pos' = last + 1 /\ at' = behind
    BY DEF LexChar
  <1>3. Len(source)' = Len(source) /\ \A p : Place(source, p)' = Place(source, p)
    BY <1>1, SamePlaces
  <1>4. pos \in Nat \ {0} /\ Len(source) \in Nat /\ last \in {pos + 1, pos + 2}
    BY PlacesAhead
  <1>5. ASSUME last <= Len(source) PROVE behind = Place(source, last + 1)
    <2>1. pos \in 1..Len(source) /\ pos + 1 \in 1..Len(source) /\ last \in 1..Len(source)
      BY <1>4, <1>5
    <2>2. After(at, Tick) = Place(source, pos + 1)
      BY <1>1, <2>1, PlacesAhead
    <2>3. inside = Place(source, last)
      <3>1. CASE escaped
        <4>1. After(Place(source, pos + 1), Backslash) = Place(source, (pos + 1) + 1)
          BY <2>1, <3>1, PlacesAhead
        <4> QED
          BY <1>4, <2>2, <3>1, <4>1
      <3>2. CASE ~escaped
        BY <2>2, <3>2
      <3> QED
        BY <3>1, <3>2
    <2> QED
      BY <2>1, <2>3, PlacesAhead
  <1>6. ASSUME pos' <= Len(source) + 1 PROVE at' = Place(source, pos')
    <2>1. last <= Len(source) /\ behind = Place(source, last + 1)
      BY <1>2, <1>4, <1>5, <1>6
    <2>2. CASE Char(last + 1) = Tick /\ pos' = last + 2 /\ at' = After(behind, Tick)
      <3>1. last + 1 \in 1..Len(source) /\ last + 2 = (last + 1) + 1
        BY <1>4, <1>6, <2>2
      <3> HIDE DEF last, behind
      <3>2. After(Place(source, last + 1), Char(last + 1)) = Place(source, last + 2)
        BY <3>1, PlacesAhead
      <3> QED
        BY <2>1, <2>2, <3>2
    <2>3. CASE pos' = last + 1 /\ at' = behind
      BY <2>1, <2>3
    <2> QED
      BY <1>2, <2>2, <2>3
  <1> QED
    BY <1>3, <1>6 DEF PlaceKnown

LEMMA PlaceOperator == PInv /\ LexOperator => PlaceKnown'
  <1> SUFFICES ASSUME PInv, LexOperator PROVE PlaceKnown'
    OBVIOUS
  <1>1. UNCHANGED Memory
    BY DEF LexOperator
  <1>2. CASE Advance
    BY <1>1, <1>2, PlaceOver
  <1>3. CASE pos' = pos + 2 /\ at' = After(After(at, Peek), Char(pos + 1))
    BY <1>1, <1>3, PlaceOverTwo
  <1> QED
    BY <1>2, <1>3 DEF LexOperator

LEMMA PlaceNext == PInv /\ [Next]_vars => PlaceKnown'
  <1> SUFFICES ASSUME PInv, [Next]_vars PROVE PlaceKnown'
    OBVIOUS
  <1>1. CASE UNCHANGED vars
    BY <1>1, PlaceOver DEF vars, Memory
  <1>2. CASE SkipBlank \/ SkipComment
    BY <1>2, PlaceOver DEF SkipBlank, SkipComment
  <1>3. CASE BeginNumber \/ NumberChar \/ EndNumber
    BY <1>3, PlaceOver DEF BeginNumber, NumberChar, EndNumber
  <1>4. CASE BeginString \/ EndString
    BY <1>4, PlaceOver DEF BeginString, EndString
  <1>5. CASE BeginIdent \/ IdentChar \/ EndIdent \/ Finish
    BY <1>5, PlaceOver DEF BeginIdent, IdentChar, EndIdent, Finish
  <1> QED
    BY <1>1, <1>2, <1>3, <1>4, <1>5, PlaceStringChar, PlaceChar, PlaceOperator DEF Next

(* Line and column are those of the next character, counted from the       *)
(* beginning of the source, wherever the lexer stands.                     *)
THEOREM PlaceIsKnown == Spec => []PlaceKnown
  <1>1. Init => PInv
    BY InitIInv, PlaceInit DEF PInv
  <1>2. PInv /\ [Next]_vars => PInv'
    BY NextKeeps, PlaceNext DEF PInv
  <1>3. PInv => PlaceKnown
    BY DEF PInv
  <1> QED
    BY <1>1, <1>2, <1>3, PTL DEF Spec

-------------------------------------------------------------------------------
(***************************************************************************)
(* The longest lexemes.  First the shape of a lexeme, character by         *)
(* character, and where the longest one ends; then what the lexer has seen *)
(* of a lexeme in each of its modes; last that every step keeps it.        *)
(***************************************************************************)

(* The characters of a stretch of a text.                                  *)
LEMMA SliceIs ==
    ASSUME NEW S, NEW text \in Seq(S), NEW p \in 1..(Len(text) + 1), NEW q \in (p - 1)..Len(text)
    PROVE  /\ SubSeq(text, p, q) \in Seq(S) /\ Len(SubSeq(text, p, q)) = q - p + 1
           /\ \A i \in 1..(q - p + 1) : SubSeq(text, p, q)[i] = text[p + i - 1]
  <1>1. Len(text) \in Nat
    OBVIOUS
  <1>2. p \in Nat \ {0} /\ q \in Nat /\ q <= Len(text) /\ p - 1 <= q
    BY <1>1
  <1>3. \A i \in 1..(q - p + 1) : p + i - 1 \in 1..Len(text) /\ text[p + i - 1] \in S
    BY <1>1, <1>2
  <1>4. SubSeq(text, p, q) = [i \in 1..(q - p + 1) |-> text[i + p - 1]]
    BY <1>2
  <1>5. q - p + 1 \in Nat
    BY <1>2
  <1> DEFINE n == q - p + 1  f == [i \in 1..n |-> text[i + p - 1]]
  <1>6. \A i \in 1..n : f[i] \in S /\ f[i] = text[p + i - 1]
    <2> TAKE i \in 1..n
    <2>1. i + p - 1 = p + i - 1
      BY <1>2
    <2> QED BY <1>3, <2>1
  <1>7. f = [i \in 1..n |-> f[i]]
    OBVIOUS
  <1>8. f \in Seq(S) /\ Len(f) = n
    <2>1. n \in Nat /\ f = [i \in 1..n |-> f[i]] /\ \A i \in 1..n : f[i] \in S
      BY <1>5, <1>6, <1>7
    <2> HIDE DEF f, n
    <2> QED BY <2>1, FunctionSeq
  <1> QED BY <1>4, <1>6, <1>8

LEMMA SliceFront ==
    ASSUME NEW S, NEW text \in Seq(S), NEW p \in 1..Len(text), NEW q \in p..Len(text)
    PROVE  /\ SubSeq(text, p, q) # <<>> /\ Last(SubSeq(text, p, q)) = text[q]
           /\ Front(SubSeq(text, p, q)) = SubSeq(text, p, q - 1)
  <1> DEFINE s == SubSeq(text, p, q)  f == SubSeq(text, p, q - 1)
  <1>1. Len(text) \in Nat /\ p \in Nat \ {0} /\ q \in Nat /\ p <= q /\ p \in 1..(Len(text) + 1) /\ q \in (p - 1)..Len(text)
        /\ q - 1 \in (p - 1)..Len(text) /\ q - p + 1 \in Nat \ {0} /\ p + (q - p + 1) - 1 = q /\ (q - 1) - p + 1 = (q - p + 1) - 1
    OBVIOUS
  <1>2. s \in Seq(S) /\ Len(s) = q - p + 1 /\ \A i \in 1..(q - p + 1) : s[i] = text[p + i - 1]
    BY <1>1, SliceIs
  <1>3. f \in Seq(S) /\ Len(f) = (q - p + 1) - 1 /\ \A i \in 1..((q - p + 1) - 1) : f[i] = text[p + i - 1]
    BY <1>1, SliceIs
  <1> HIDE DEF s, f
  <1> DEFINE n == q - p + 1
  <1>4. n \in Nat \ {0} /\ Len(s) = n /\ Len(f) = n - 1 /\ p + n - 1 = q
    BY <1>1, <1>2, <1>3
  <1>5. \A i \in 1..(n - 1) : f[i] = s[i]
    <2> TAKE i \in 1..(n - 1)
    <2>1. i \in 1..n
      BY <1>4
    <2> QED BY <1>2, <1>3, <2>1
  <1>6. s # <<>> /\ s[n] = text[q]
    <2>1. n \in 1..n
      BY <1>4
    <2> QED BY <1>2, <1>4, <2>1
  <1> HIDE DEF n
  <1>7. Front(s) = [i \in 1..(n - 1) |-> s[i]]
    BY <1>2, <1>4, <1>6 DEF Front
  <1>8. f = [i \in 1..(n - 1) |-> f[i]]
    BY <1>3, <1>4
  <1>9. Front(s) = f
    BY <1>5, <1>7, <1>8
  <1> QED BY <1>4, <1>6, <1>9 DEF s, f, Last

(* A set of numbers with an upper bound has a largest one, and one with    *)
(* a number in it a smallest one.                                          *)
LEMMA Largest ==
    ASSUME NEW R, NEW n \in Nat, R \subseteq 0..n, R # {}
    PROVE  \E q \in R : \A r \in R : r <= q
  <1> DEFINE Behind == {d \in Nat : d <= n /\ n - d \in R}
  <1>1. \A q \in R : q \in Nat /\ q <= n /\ n - q \in Behind
    BY DEF Behind
  <1>2. Behind \subseteq Nat /\ Behind # {}
    BY <1>1
  <1>3. \A d \in Behind : n - d \in R /\ d \in Nat /\ d <= n
    OBVIOUS
  <1> HIDE DEF Behind
  <1>4. PICK d \in Behind : \A e \in Behind : ~(<<e, d>> \in OpToRel(<, Nat))
    BY <1>2, WFMin, NatLessThanWellFounded
  <1>5. \A e \in Behind : ~(e < d)
    BY <1>2, <1>4 DEF OpToRel
  <1>6. \A r \in R : r <= n - d
    <2> TAKE r \in R
    <2>1. ~(n - r < d)
      BY <1>1, <1>5
    <2> QED BY <1>1, <1>3, <2>1
  <1> QED BY <1>3, <1>6

LEMMA Smallest ==
    ASSUME NEW R, R \subseteq Nat, R # {}
    PROVE  \E q \in R : \A r \in R : q <= r
  <1>1. PICK d \in R : \A e \in R : ~(<<e, d>> \in OpToRel(<, Nat))
    BY WFMin, NatLessThanWellFounded
  <1>2. \A e \in R : ~(e < d)
    BY <1>1 DEF OpToRel
  <1>3. \A e \in R : d <= e
    BY <1>2
  <1> QED BY <1>3

(* The end of a line.                                                      *)
LEMMA EndOfLineIs ==
    ASSUME NEW S, NEW text \in Seq(S), NEW p \in 1..(Len(text) + 1)
    PROVE  /\ EndOfLine(text, p) \in p..(Len(text) + 1)
           /\ EndOfLine(text, p) <= Len(text) => text[EndOfLine(text, p)] = Newline
           /\ \A i \in p..(EndOfLine(text, p) - 1) : text[i] # Newline
  <1> DEFINE ends == {q \in p..Len(text) : text[q] = Newline}
  <1>1. Len(text) \in Nat /\ p \in Nat
    OBVIOUS
  <1>2. EndOfLine(text, p) = IF ends = {} THEN Len(text) + 1 ELSE CHOOSE q \in ends : \A r \in ends : q <= r
    BY DEF EndOfLine
  <1>3. CASE ends = {}
    <2>1. EndOfLine(text, p) = Len(text) + 1
      BY <1>2, <1>3
    <2>2. \A i \in p..Len(text) : text[i] # Newline
      BY <1>3
    <2> QED BY <1>1, <2>1, <2>2
  <1>4. CASE ends # {}
    <2>1. ends \subseteq Nat
      BY <1>1
    <2>2. \E q \in ends : \A r \in ends : q <= r
      <3> HIDE DEF ends
      <3> QED BY <1>4, <2>1, Smallest
    <2>3. EndOfLine(text, p) \in ends /\ \A r \in ends : EndOfLine(text, p) <= r
      <3> HIDE DEF ends
      <3> QED BY <1>2, <1>4, <2>2
    <2> DEFINE e == EndOfLine(text, p)
    <2>4. e \in p..Len(text) /\ text[e] = Newline /\ \A r \in p..Len(text) : text[r] = Newline => e <= r
      BY <2>3
    <2> HIDE DEF e
    <2>5. e \in p..(Len(text) + 1) /\ \A i \in p..(e - 1) : text[i] # Newline
      BY <1>1, <2>4
    <2> QED BY <2>4, <2>5 DEF e
  <1> QED BY <1>3, <1>4

(* The longest lexeme at a place.                                          *)
LEMMA LongestIs ==
    ASSUME NEW S, NEW text \in Seq(S), NEW p \in 1..Len(text)
    PROVE  Longest(text, p) = 0 \/ Longest(text, p) \in p..Len(text)
  <1> DEFINE ends == {q \in p..Len(text) : Lexeme(SubSeq(text, p, q))}
  <1>1. Len(text) \in Nat /\ ends \subseteq 0..Len(text)
    OBVIOUS
  <1>2. Longest(text, p) = IF ends = {} THEN 0 ELSE CHOOSE q \in ends : \A r \in ends : r <= q
    BY DEF Longest
  <1>3. ends # {} => \E q \in ends : \A r \in ends : r <= q
    <2> HIDE DEF ends
    <2> QED BY <1>1, Largest
  <1>4. ends # {} => Longest(text, p) \in ends
    <2> HIDE DEF ends
    <2> QED BY <1>2, <1>3
  <1> QED BY <1>2, <1>4

LEMMA LongestEnds ==
    ASSUME NEW S, NEW text \in Seq(S), NEW p \in 1..Len(text), NEW q \in p..Len(text),
           Lexeme(SubSeq(text, p, q)), \A r \in (q + 1)..Len(text) : ~Lexeme(SubSeq(text, p, r))
    PROVE  Longest(text, p) = q
  <1> DEFINE ends == {r \in p..Len(text) : Lexeme(SubSeq(text, p, r))}
  <1>1. Len(text) \in Nat /\ q \in Nat /\ p \in Nat /\ ends \subseteq Nat
    OBVIOUS
  <1>2. Longest(text, p) = IF ends = {} THEN 0 ELSE CHOOSE r \in ends : \A e \in ends : e <= r
    BY DEF Longest
  <1>3. q \in ends /\ \A r \in ends : r <= q
    <2>1. q \in ends
      OBVIOUS
    <2>2. ASSUME NEW r \in ends PROVE r <= q
      <3>1. r \in p..Len(text) /\ Lexeme(SubSeq(text, p, r))
        OBVIOUS
      <3>2. r \notin (q + 1)..Len(text)
        BY <3>1
      <3> QED BY <1>1, <3>1, <3>2
    <2> QED BY <2>1, <2>2
  <1> HIDE DEF ends
  <1>4. (CHOOSE r \in ends : \A e \in ends : e <= r) = q
    <2> DEFINE c == CHOOSE r \in ends : \A e \in ends : e <= r
    <2>1. c \in ends /\ \A e \in ends : e <= c
      BY <1>3
    <2> HIDE DEF c
    <2>2. c = q
      BY <1>1, <1>3, <2>1
    <2> QED BY <2>2 DEF c
  <1> QED BY <1>2, <1>3, <1>4

LEMMA LongestNone ==
    ASSUME NEW S, NEW text \in Seq(S), NEW p \in 1..Len(text),
           \A r \in p..Len(text) : ~Lexeme(SubSeq(text, p, r))
    PROVE  Longest(text, p) = 0
  <1>1. {r \in p..Len(text) : Lexeme(SubSeq(text, p, r))} = {}
    OBVIOUS
  <1> QED BY <1>1 DEF Longest

-------------------------------------------------------------------------------
(* A set with zero, and with every successor, has every natural number.    *)
LEMMA Climb ==
    ASSUME NEW S, S \subseteq Nat, 0 \in S, \A n \in S : n + 1 \in S
    PROVE  S = Nat
  <1> SUFFICES ASSUME Nat \ S # {} PROVE FALSE
    OBVIOUS
  <1> DEFINE T == Nat \ S
  <1>1. T \subseteq Nat /\ T # {}
    OBVIOUS
  <1>2. \E x \in T : \A y \in T : x <= y
    <2> HIDE DEF T
    <2> QED BY <1>1, Smallest
  <1>3. PICK x \in T : \A y \in T : x <= y
    BY <1>2
  <1>4. x # 0 /\ x - 1 \in Nat /\ ~(x <= x - 1) /\ x = (x - 1) + 1
    BY <1>1, <1>3
  <1>5. x - 1 \in S
    BY <1>3, <1>4
  <1> QED BY <1>3, <1>4, <1>5

(* Tokens recurs to places further on, so there is a function like it.     *)
Lexed(text, p, rest) ==
    [list |-> <<TokenAt(text, p, KindAndText(SubSeq(text, p, Longest(text, p))))>> \o rest.list, stuck |-> rest.stuck]

Step(text, from, p) ==
    IF p > Len(text) THEN [list |-> <<TokenAt(text, p, <<"eof", <<>>>>)>>, stuck |-> 0]
    ELSE IF text[p] \in Blanks THEN from[p + 1]
    ELSE IF text[p] = Hash THEN from[EndOfLine(text, p)]
    ELSE IF Longest(text, p) = 0 THEN [list |-> <<>>, stuck |-> p]
    ELSE Lexed(text, p, from[Longest(text, p) + 1])

LEMMA StepLooksAhead ==
    ASSUME NEW S, NEW text \in Seq(S), NEW p \in 1..(Len(text) + 1), NEW f, NEW g,
           \A q \in (p + 1)..(Len(text) + 1) : f[q] = g[q]
    PROVE  Step(text, f, p) = Step(text, g, p)
  <1>1. Len(text) \in Nat /\ p \in Nat
    OBVIOUS
  <1>2. CASE p > Len(text)
    BY <1>2 DEF Step
  <1>3. CASE p <= Len(text)
    <2>1. p \in 1..Len(text) /\ p + 1 \in (p + 1)..(Len(text) + 1) /\ ~(p > Len(text))
      BY <1>1, <1>3
    <2>2. text[p] = Hash => EndOfLine(text, p) \in (p + 1)..(Len(text) + 1)
      <3> DEFINE e == EndOfLine(text, p)
      <3>1. e \in p..(Len(text) + 1) /\ (e <= Len(text) => text[e] = Newline)
        BY EndOfLineIs
      <3> HIDE DEF e
      <3>2. text[p] = Hash => e # p
        BY <1>3, <3>1 DEF Hash, Newline
      <3>3. text[p] = Hash => e \in (p + 1)..(Len(text) + 1)
        BY <1>1, <3>1, <3>2
      <3> QED BY <3>3 DEF e
    <2>3. Longest(text, p) # 0 => Longest(text, p) + 1 \in (p + 1)..(Len(text) + 1)
      <3>1. Longest(text, p) = 0 \/ Longest(text, p) \in p..Len(text)
        BY <2>1, LongestIs
      <3> QED BY <1>1, <3>1
    <2>4. CASE text[p] \in Blanks
      BY <2>1, <2>4 DEF Step
    <2>5. CASE text[p] \notin Blanks /\ text[p] = Hash
      BY <2>1, <2>2, <2>5 DEF Step
    <2>6. CASE text[p] \notin Blanks /\ text[p] # Hash
      BY <2>1, <2>3, <2>6 DEF Step
    <2> QED BY <2>4, <2>5, <2>6
  <1> QED BY <1>1, <1>2, <1>3

IsTokens(f, text, m) == f = [p \in m..(Len(text) + 1) |-> Step(text, f, p)]

LEMMA TokensExist ==
    ASSUME NEW S, NEW text \in Seq(S)
    PROVE  \E f : IsTokens(f, text, 1)
  <1> DEFINE n == Len(text)
             T == {d \in Nat : d <= n => \E f : IsTokens(f, text, n + 1 - d)}
  <1>1. n \in Nat
    OBVIOUS
  <1> HIDE DEF n
  <1>2. 0 \in T
    <2> DEFINE f == [p \in (n + 1)..(n + 1) |-> Step(text, <<>>, p)]
    <2>1. \A p \in (n + 1)..(n + 1) : Step(text, <<>>, p) = Step(text, f, p)
      <3> TAKE p \in (n + 1)..(n + 1)
      <3>1. p > n
        BY <1>1
      <3> QED BY <3>1 DEF Step, n
    <2>2. f = [p \in (n + 1)..(n + 1) |-> Step(text, f, p)]
      BY <2>1
    <2> HIDE DEF f
    <2>3. IsTokens(f, text, n + 1 - 0)
      <3>1. n + 1 - 0 = n + 1
        BY <1>1
      <3> QED BY <2>2, <3>1 DEF IsTokens, n
    <2> QED BY <2>3
  <1>3. ASSUME NEW d \in T PROVE d + 1 \in T
    <2>1. CASE ~(d + 1 <= n)
      BY <2>1
    <2>2. CASE d + 1 <= n
      <3> DEFINE m == n + 1 - d
      <3>1. d \in Nat /\ d <= n /\ m \in Nat /\ m - 1 \in 1..(n + 1) /\ n + 1 - (d + 1) = m - 1 /\ m >= 2
        BY <1>1, <2>2
      <3>2. PICK f : IsTokens(f, text, m)
        BY <3>1
      <3> HIDE DEF m
      <3>3. \A p \in m..(n + 1) : f[p] = Step(text, f, p)
        BY <3>2 DEF IsTokens, n
      <3> DEFINE g == [p \in (m - 1)..(n + 1) |-> IF p = m - 1 THEN Step(text, f, m - 1) ELSE f[p]]
      <3>4. \A p \in m..(n + 1) : g[p] = f[p]
        BY <1>1, <3>1
      <3>5. g[m - 1] = Step(text, f, m - 1)
        BY <1>1, <3>1
      <3>6. DOMAIN g = (m - 1)..(n + 1) /\ g = [p \in (m - 1)..(n + 1) |-> g[p]]
        OBVIOUS
      <3> HIDE DEF g
      <3>7. \A p \in (m - 1)..(n + 1) : g[p] = Step(text, g, p)
        <4> TAKE p \in (m - 1)..(n + 1)
        <4>1. p \in 1..(n + 1) /\ \A q \in (p + 1)..(n + 1) : q \in m..(n + 1)
          BY <1>1, <3>1
        <4>2. \A q \in (p + 1)..(n + 1) : f[q] = g[q]
          BY <3>4, <4>1
        <4>3. Step(text, f, p) = Step(text, g, p)
          BY <4>1, <4>2, StepLooksAhead DEF n
        <4>4. g[p] = Step(text, f, p)
          <5>1. CASE p = m - 1
            BY <3>5, <5>1
          <5>2. CASE p # m - 1
            <6>1. p \in m..(n + 1)
              BY <1>1, <3>1, <5>2
            <6> QED BY <3>3, <3>4, <6>1
          <5> QED BY <5>1, <5>2
        <4> QED BY <4>3, <4>4
      <3>8. g = [p \in (m - 1)..(n + 1) |-> Step(text, g, p)]
        BY <3>6, <3>7
      <3>9. IsTokens(g, text, n + 1 - (d + 1))
        BY <3>1, <3>8 DEF IsTokens, n
      <3> QED BY <3>1, <3>9
    <2> QED BY <2>1, <2>2
  <1>4. T \subseteq Nat
    OBVIOUS
  <1>5. \A d \in T : d <= n => \E f : IsTokens(f, text, n + 1 - d)
    OBVIOUS
  <1> HIDE DEF T
  <1>6. T = Nat
    BY <1>2, <1>3, <1>4, Climb
  <1>7. n + 1 - n = 1
    BY <1>1
  <1> QED BY <1>1, <1>5, <1>6, <1>7

LEMMA TokensAre ==
    ASSUME NEW S, NEW text \in Seq(S), NEW p \in 1..(Len(text) + 1)
    PROVE  Tokens(text)[p] = Step(text, Tokens(text), p)
  <1> DEFINE c == CHOOSE f : f = [q \in 1..(Len(text) + 1) |-> Step(text, f, q)]
  <1>1. \E f : f = [q \in 1..(Len(text) + 1) |-> Step(text, f, q)]
    BY TokensExist DEF IsTokens
  <1>2. c = [q \in 1..(Len(text) + 1) |-> Step(text, c, q)]
    BY <1>1, Zenon
  <1>3. Tokens(text) = c
    BY DEF Tokens, Step, Lexed
  <1> HIDE DEF c
  <1>4. c[p] = Step(text, c, p)
    BY <1>2
  <1> QED BY <1>3, <1>4

-------------------------------------------------------------------------------
(* The tokens from one place on and those from the next.                   *)
LEMMA FromEnd ==
    ASSUME NEW S, NEW text \in Seq(S)
    PROVE  Tokens(text)[Len(text) + 1] = [list |-> <<TokenAt(text, Len(text) + 1, <<"eof", <<>>>>)>>, stuck |-> 0]
  <1>1. Len(text) + 1 \in 1..(Len(text) + 1) /\ Len(text) + 1 > Len(text)
    OBVIOUS
  <1>2. Tokens(text)[Len(text) + 1] = Step(text, Tokens(text), Len(text) + 1)
    BY <1>1, TokensAre
  <1> QED BY <1>1, <1>2 DEF Step

LEMMA FromWithin ==
    ASSUME NEW S, NEW text \in Seq(S), NEW p \in 1..Len(text)
    PROVE  /\ text[p] \in Blanks => Tokens(text)[p] = Tokens(text)[p + 1]
           /\ text[p] = Hash => Tokens(text)[p] = Tokens(text)[EndOfLine(text, p)]
           /\ text[p] \notin Blanks \cup {Hash} /\ Longest(text, p) = 0 => Tokens(text)[p] = [list |-> <<>>, stuck |-> p]
           /\ text[p] \notin Blanks \cup {Hash} /\ Longest(text, p) # 0 =>
                 Tokens(text)[p] = Lexed(text, p, Tokens(text)[Longest(text, p) + 1])
  <1>1. p \in 1..(Len(text) + 1) /\ ~(p > Len(text))
    OBVIOUS
  <1>2. Tokens(text)[p] = Step(text, Tokens(text), p)
    BY <1>1, TokensAre
  <1>3. Hash \notin Blanks
    BY DEF Hash, Blanks, Newline
  <1> QED BY <1>1, <1>2, <1>3 DEF Step

LEMMA Ahead ==
    ASSUME NEW S, NEW text \in Seq(S), NEW p \in 1..Len(text)
    PROVE  /\ text[p] = Hash => EndOfLine(text, p) \in (p + 1)..(Len(text) + 1)
           /\ Longest(text, p) # 0 => Longest(text, p) + 1 \in (p + 1)..(Len(text) + 1)
  <1> DEFINE e == EndOfLine(text, p)
  <1>1. Len(text) \in Nat /\ p \in Nat /\ p \in 1..(Len(text) + 1)
    OBVIOUS
  <1>2. e \in p..(Len(text) + 1) /\ (e <= Len(text) => text[e] = Newline)
    BY <1>1, EndOfLineIs
  <1> HIDE DEF e
  <1>3. text[p] = Hash => e # p
    BY <1>2 DEF Hash, Newline
  <1>4. text[p] = Hash => e \in (p + 1)..(Len(text) + 1)
    BY <1>1, <1>2, <1>3
  <1>5. Longest(text, p) = 0 \/ Longest(text, p) \in p..Len(text)
    BY LongestIs
  <1>6. Longest(text, p) # 0 => Longest(text, p) + 1 \in (p + 1)..(Len(text) + 1)
    BY <1>1, <1>5
  <1> QED BY <1>4, <1>6 DEF e

LEMMA OneMore ==
    ASSUME NEW T, NEW b \in Seq(T), NEW e
    PROVE  <<e>> \o b \in Seq(T \cup {e})
  <1>1. b \in Seq(T \cup {e}) /\ <<e>> \in Seq(T \cup {e})
    OBVIOUS
  <1> QED BY <1>1, ConcatProperties

LEMMA TokenLists ==
    ASSUME NEW S, NEW text \in Seq(S)
    PROVE  \A p \in 1..(Len(text) + 1) : \E T : Tokens(text)[p].list \in Seq(T)
  <1> DEFINE n == Len(text)
             Listed(p) == \E T : Tokens(text)[p].list \in Seq(T)
             D == {d \in Nat : \A p \in 1..(n + 1) : p >= n + 1 - d => Listed(p)}
  <1>1. n \in Nat
    OBVIOUS
  <1>2. ASSUME NEW p \in 1..(n + 1), \A q \in (p + 1)..(n + 1) : Listed(q) PROVE Listed(p)
    <2>1. CASE p = n + 1
      <3> DEFINE e == TokenAt(text, n + 1, <<"eof", <<>>>>)
      <3>0. Tokens(text)[p] = [list |-> <<e>>, stuck |-> 0]
        BY <2>1, FromEnd
      <3> HIDE DEF e
      <3>1. Tokens(text)[p].list = <<e>>
        BY <3>0
      <3>2. <<e>> \in Seq({e})
        OBVIOUS
      <3> QED BY <3>1, <3>2
    <2>2. CASE p # n + 1
      <3>1. p \in 1..n /\ p + 1 \in (p + 1)..(n + 1)
        BY <1>1, <2>2
      <3> HIDE DEF Listed
      <3>2. CASE text[p] \in Blanks
        <4>1. Tokens(text)[p] = Tokens(text)[p + 1] /\ Listed(p + 1)
          BY <1>2, <3>1, <3>2, FromWithin
        <4> QED BY <4>1 DEF Listed
      <3>3. CASE text[p] = Hash
        <4>1. Tokens(text)[p] = Tokens(text)[EndOfLine(text, p)] /\ EndOfLine(text, p) \in (p + 1)..(n + 1)
          BY <3>1, <3>3, FromWithin, Ahead
        <4>2. Listed(EndOfLine(text, p))
          BY <1>2, <4>1
        <4> QED BY <4>1, <4>2 DEF Listed
      <3>4. CASE text[p] \notin Blanks \cup {Hash} /\ Longest(text, p) = 0
        <4>0. Tokens(text)[p] = [list |-> <<>>, stuck |-> p]
          BY <3>1, <3>4, FromWithin
        <4>1. Tokens(text)[p].list = <<>>
          BY <4>0
        <4>2. <<>> \in Seq({})
          OBVIOUS
        <4> QED BY <4>1, <4>2 DEF Listed
      <3>5. CASE text[p] \notin Blanks \cup {Hash} /\ Longest(text, p) # 0
        <4> DEFINE q == Longest(text, p) + 1
                   e == TokenAt(text, p, KindAndText(SubSeq(text, p, Longest(text, p))))
        <4>1. q \in (p + 1)..(n + 1)
          BY <3>1, <3>5, Ahead
        <4>2. Tokens(text)[p] = Lexed(text, p, Tokens(text)[q])
          BY <3>1, <3>5, FromWithin
        <4>3. Tokens(text)[p].list = <<e>> \o Tokens(text)[q].list
          BY <4>2 DEF Lexed
        <4> HIDE DEF q, e
        <4>4. Listed(q)
          BY <1>2, <4>1
        <4>5. PICK T : Tokens(text)[q].list \in Seq(T)
          BY <4>4 DEF Listed
        <4> DEFINE b == Tokens(text)[q].list
        <4>6. b \in Seq(T) /\ Tokens(text)[p].list = <<e>> \o b
          BY <4>3, <4>5
        <4> HIDE DEF b
        <4>7. <<e>> \o b \in Seq(T \cup {e})
          BY <4>6, OneMore
        <4> QED BY <4>6, <4>7 DEF Listed
      <3> QED BY <3>2, <3>3, <3>4, <3>5
    <2> QED BY <2>1, <2>2
  <1> HIDE DEF n, Listed
  <1>3. 0 \in D
    <2>1. \A p \in 1..(n + 1) : p >= n + 1 - 0 => Listed(p)
      <3> SUFFICES ASSUME NEW p \in 1..(n + 1), p >= n + 1 - 0 PROVE Listed(p)
        OBVIOUS
      <3>1. \A q \in (p + 1)..(n + 1) : Listed(q)
        BY <1>1
      <3> QED BY <1>2, <3>1
    <2> QED BY <2>1
  <1>4. ASSUME NEW d \in D PROVE d + 1 \in D
    <2>1. d \in Nat /\ d + 1 \in Nat /\ \A p \in 1..(n + 1) : p >= n + 1 - d => Listed(p)
      OBVIOUS
    <2>2. \A p \in 1..(n + 1) : p >= n + 1 - (d + 1) => Listed(p)
      <3> SUFFICES ASSUME NEW p \in 1..(n + 1), p >= n + 1 - (d + 1) PROVE Listed(p)
        OBVIOUS
      <3>1. \A q \in (p + 1)..(n + 1) : q \in 1..(n + 1) /\ q >= n + 1 - d
        BY <1>1, <2>1
      <3>2. \A q \in (p + 1)..(n + 1) : Listed(q)
        BY <2>1, <3>1
      <3> QED BY <1>2, <3>2
    <2> QED BY <2>1, <2>2
  <1>5. D \subseteq Nat
    OBVIOUS
  <1>6. \A d \in D : \A p \in 1..(n + 1) : p >= n + 1 - d => Listed(p)
    OBVIOUS
  <1> HIDE DEF D
  <1>7. n \in D
    BY <1>1, <1>3, <1>4, <1>5, Climb
  <1>8. \A p \in 1..(n + 1) : p >= n + 1 - n
    BY <1>1
  <1>9. \A p \in 1..(n + 1) : Listed(p)
    BY <1>6, <1>7, <1>8
  <1> QED BY <1>9 DEF n, Listed

(* A token at the end of one list or at the beginning of the next.         *)
LEMMA Moved ==
    ASSUME NEW A, NEW a \in Seq(A), NEW e, NEW T, NEW b \in Seq(T)
    PROVE  a \o (<<e>> \o b) = Append(a, e) \o b
  <1> DEFINE U == A \cup {e} \cup T
  <1>1. a \in Seq(U) /\ <<e>> \in Seq(U) /\ b \in Seq(U) /\ e \in U
    OBVIOUS
  <1> HIDE DEF U
  <1>2. a \o (<<e>> \o b) = (a \o <<e>>) \o b
    <2> DEFINE s == <<e>>
    <2>1. s \in Seq(U)
      BY <1>1
    <2> HIDE DEF s
    <2>2. a \o (s \o b) = (a \o s) \o b
      BY <1>1, <2>1, ConcatAssociative
    <2> QED BY <2>2 DEF s
  <1>3. Append(a, e) = a \o <<e>>
    BY <1>1, AppendIsConcat
  <1> QED BY <1>2, <1>3

-------------------------------------------------------------------------------
(***************************************************************************)
(* What the lexer knows in each mode: the tokens from where it stands, or  *)
(* from the token it is in, continue out to the tokens of the whole text;  *)
(* and of that token, what it has seen of it.                              *)
(***************************************************************************)
Goes(t, o, p) ==
    Tokens(t)[1].list = o \o Tokens(t)[p].list /\ Tokens(t)[1].stuck = Tokens(t)[p].stuck

Began(t, o, st) == st.pos \in 1..Len(t) /\ st.at = Place(t, st.pos) /\ Goes(t, o, st.pos)

(* Digits from place p up to q, and the same around a point.               *)
InDigits(t, p, q) == t[p] \in Digits /\ \A i \in p..(q - 1) : t[i] \in Digits

InFraction(t, p, q) ==
    \E k \in (p + 1)..(q - 1) :
        /\ t[k] = Point /\ k + 1 \in 1..Len(t) /\ t[k + 1] \in Digits
        /\ \A i \in p..(q - 1) : i # k => t[i] \in Digits

InWord(t, p, q) == t[p] \in Letters /\ \A i \in p..(q - 1) : t[i] \in Letters \cup Digits

(* A string from place p up to q, of which b has been read: compared with  *)
(* the rest of the text, w, of which it is a beginning.                    *)
InString(t, p, q, b) ==
    LET w == SubSeq(t, p, Len(t))
        n == q - p
    IN  /\ q > p /\ w[1] = Quote
        /\ \A i \in 2..n : w[i] = Quote => i \in Escaped(w)
        /\ w[n] = Backslash => n \in Escaped(w)
        /\ b = Meaning(w)[n]

SoFar(t, o, m, q, st, b) ==
    /\ m = "top" => Goes(t, o, q)
    /\ m = "comment" => Goes(t, o, EndOfLine(t, q))
    /\ m \in {"digits", "fraction", "ident", "string"} => Began(t, o, st)
    /\ m = "digits" => InDigits(t, st.pos, q)
    /\ m = "fraction" => InFraction(t, st.pos, q)
    /\ m = "ident" => InWord(t, st.pos, q)
    /\ m = "string" => InString(t, st.pos, q, b)
    /\ m = "done" => Tokens(t)[1].stuck = 0 /\ o = Tokens(t)[1].list
    /\ m = "fatal" => Tokens(t)[1].stuck = st.pos /\ st.at = Place(t, st.pos)

LexedSoFar == pos <= Len(source) + 1 => SoFar(source, out, mode, pos, start, buf)

LEMMA GoesToken ==
    ASSUME NEW S, NEW text \in Seq(S), NEW O, NEW o \in Seq(O), NEW p \in 1..Len(text), NEW q \in p..Len(text),
           text[p] \notin Blanks \cup {Hash}, Longest(text, p) = q, Goes(text, o, p)
    PROVE  Goes(text, Append(o, TokenAt(text, p, KindAndText(SubSeq(text, p, q)))), q + 1)
  <1> DEFINE e == TokenAt(text, p, KindAndText(SubSeq(text, p, q)))
             b == Tokens(text)[q + 1].list
  <1>1. q # 0 /\ q + 1 \in 1..(Len(text) + 1)
    OBVIOUS
  <1>2. Tokens(text)[p] = Lexed(text, p, Tokens(text)[q + 1])
    <2>1. Longest(text, p) # 0
      BY <1>1
    <2>2. Tokens(text)[p] = Lexed(text, p, Tokens(text)[Longest(text, p) + 1])
      BY <2>1, FromWithin
    <2> QED BY <2>2
  <1>3. Tokens(text)[p].list = <<e>> \o b /\ Tokens(text)[p].stuck = Tokens(text)[q + 1].stuck
    BY <1>2 DEF Lexed
  <1>4. PICK T : b \in Seq(T)
    BY <1>1, TokenLists
  <1>5. Tokens(text)[1].list = o \o Tokens(text)[p].list /\ Tokens(text)[1].stuck = Tokens(text)[p].stuck
    BY DEF Goes
  <1>6. Tokens(text)[1].stuck = Tokens(text)[q + 1].stuck
    BY <1>3, <1>5
  <1> HIDE DEF e
  <1>7. Tokens(text)[1].list = Append(o, e) \o b
    <2> HIDE DEF b
    <2>1. o \o (<<e>> \o b) = Append(o, e) \o b
      BY <1>4, Moved
    <2> QED BY <1>3, <1>5, <2>1
  <1>8. Goes(text, Append(o, e), q + 1)
    BY <1>6, <1>7 DEF Goes
  <1> QED BY <1>8 DEF e

LEMMA GoesStuck ==
    ASSUME NEW S, NEW text \in Seq(S), NEW o, NEW p \in 1..Len(text),
           text[p] \notin Blanks \cup {Hash}, Longest(text, p) = 0, Goes(text, o, p)
    PROVE  Tokens(text)[1].stuck = p
  <1>1. Tokens(text)[p] = [list |-> <<>>, stuck |-> p]
    BY FromWithin
  <1>2. Tokens(text)[p].stuck = p
    BY <1>1
  <1> QED BY <1>2 DEF Goes

LEMMA GoesEnd ==
    ASSUME NEW S, NEW text \in Seq(S), NEW O, NEW o \in Seq(O), Goes(text, o, Len(text) + 1)
    PROVE  /\ Tokens(text)[1].stuck = 0
           /\ Tokens(text)[1].list = Append(o, TokenAt(text, Len(text) + 1, <<"eof", <<>>>>))
  <1> DEFINE e == TokenAt(text, Len(text) + 1, <<"eof", <<>>>>)
  <1>1. Tokens(text)[Len(text) + 1] = [list |-> <<e>>, stuck |-> 0]
    BY FromEnd
  <1> HIDE DEF e
  <1>2. Tokens(text)[Len(text) + 1].list = <<e>> /\ Tokens(text)[Len(text) + 1].stuck = 0
    BY <1>1
  <1>3. o \o <<e>> = Append(o, e)
    <2> DEFINE U == O \cup {e}
    <2>1. o \in Seq(U) /\ e \in U
      OBVIOUS
    <2> HIDE DEF U
    <2> QED BY <2>1, AppendIsConcat
  <1>4. Tokens(text)[1].stuck = 0 /\ Tokens(text)[1].list = Append(o, e)
    BY <1>2, <1>3 DEF Goes
  <1> QED BY <1>4 DEF e

LEMMA GoesStart ==
    ASSUME NEW S, NEW text \in Seq(S)
    PROVE  Goes(text, <<>>, 1)
  <1>1. 1 \in 1..(Len(text) + 1)
    OBVIOUS
  <1>2. PICK T : Tokens(text)[1].list \in Seq(T)
    BY <1>1, TokenLists
  <1> DEFINE b == Tokens(text)[1].list
  <1>3. b \in Seq(T)
    BY <1>2
  <1> HIDE DEF b
  <1>4. <<>> \o b = b
    BY <1>3, ConcatSimplifications
  <1> QED BY <1>4 DEF Goes, b

LEMMA LineGoesOn ==
    ASSUME NEW S, NEW text \in Seq(S), NEW p \in 1..Len(text), text[p] # Newline
    PROVE  EndOfLine(text, p) = EndOfLine(text, p + 1)
  <1> DEFINE e == EndOfLine(text, p)  f == EndOfLine(text, p + 1)
  <1>1. Len(text) \in Nat /\ p \in Nat /\ p <= Len(text) /\ p \in 1..(Len(text) + 1) /\ p + 1 \in 1..(Len(text) + 1)
    OBVIOUS
  <1>2. e \in p..(Len(text) + 1) /\ (e <= Len(text) => text[e] = Newline) /\ \A i \in p..(e - 1) : text[i] # Newline
    BY <1>1, EndOfLineIs
  <1>3. f \in (p + 1)..(Len(text) + 1) /\ (f <= Len(text) => text[f] = Newline) /\ \A i \in (p + 1)..(f - 1) : text[i] # Newline
    BY <1>1, EndOfLineIs
  <1> HIDE DEF e, f
  <1>4. e # p /\ e \in (p + 1)..(Len(text) + 1)
    BY <1>1, <1>2
  <1>5. ~(e < f)
    <2> SUFFICES ASSUME e < f PROVE FALSE
      OBVIOUS
    <2>1. e \in (p + 1)..(f - 1) /\ e <= Len(text)
      BY <1>1, <1>3, <1>4
    <2> QED BY <1>2, <1>3, <2>1
  <1>6. ~(f < e)
    <2> SUFFICES ASSUME f < e PROVE FALSE
      OBVIOUS
    <2>1. f \in p..(e - 1) /\ f <= Len(text)
      BY <1>1, <1>3, <1>4
    <2> QED BY <1>2, <1>3, <2>1
  <1>7. e = f
    BY <1>1, <1>3, <1>4, <1>5, <1>6
  <1> QED BY <1>7 DEF e, f

LEMMA LineEndsHere ==
    ASSUME NEW S, NEW text \in Seq(S), NEW p \in 1..(Len(text) + 1), p = Len(text) + 1 \/ text[p] = Newline
    PROVE  EndOfLine(text, p) = p
  <1> DEFINE e == EndOfLine(text, p)
  <1>1. Len(text) \in Nat /\ p \in Nat /\ p <= Len(text) + 1
    OBVIOUS
  <1>2. e \in p..(Len(text) + 1) /\ \A i \in p..(e - 1) : text[i] # Newline
    BY EndOfLineIs
  <1> HIDE DEF e
  <1>3. ~(p < e)
    <2> SUFFICES ASSUME p < e PROVE FALSE
      OBVIOUS
    <2>1. p \in p..(e - 1) /\ p # Len(text) + 1
      BY <1>1, <1>2
    <2> QED BY <1>2, <2>1
  <1>4. e = p
    BY <1>1, <1>2, <1>3
  <1> QED BY <1>4 DEF e

-------------------------------------------------------------------------------
(* The shapes of the lexemes, character by character.                      *)
LEMMA DigitalIs ==
    ASSUME NEW S, NEW s \in Seq(S)
    PROVE  Digital(s) <=> Len(s) >= 1 /\ \A i \in 1..Len(s) : s[i] \in Digits
  <1>1. DOMAIN s = 1..Len(s) /\ Len(s) \in Nat
    OBVIOUS
  <1>2. s # <<>> <=> Len(s) >= 1
    BY <1>1
  <1>3. ToSet(s) \subseteq Digits <=> \A i \in 1..Len(s) : s[i] \in Digits
    BY <1>1 DEF ToSet
  <1> QED BY <1>2, <1>3 DEF Digital

LEMMA DecimalIs ==
    ASSUME NEW S, NEW s \in Seq(S)
    PROVE  Decimal(s) <=> \E k \in 2..(Len(s) - 1) : s[k] = Point /\ \A i \in 1..Len(s) : i # k => s[i] \in Digits
  <1>1. DOMAIN s = 1..Len(s) /\ Len(s) \in Nat
    OBVIOUS
  <1>2. ASSUME NEW k \in 1..Len(s)
        PROVE  /\ Digital(SubSeq(s, 1, k - 1)) <=> k >= 2 /\ \A i \in 1..(k - 1) : s[i] \in Digits
               /\ Digital(SubSeq(s, k + 1, Len(s))) <=> k <= Len(s) - 1 /\ \A i \in (k + 1)..Len(s) : s[i] \in Digits
    <2> DEFINE a == SubSeq(s, 1, k - 1)  b == SubSeq(s, k + 1, Len(s))
    <2>1. a \in Seq(S) /\ Len(a) = k - 1 /\ \A i \in 1..(k - 1) : a[i] = s[i]
      <3>1. 1 \in 1..(Len(s) + 1) /\ k - 1 \in (1 - 1)..Len(s) /\ (k - 1) - 1 + 1 = k - 1
        BY <1>1
      <3>2. a \in Seq(S) /\ Len(a) = (k - 1) - 1 + 1 /\ \A i \in 1..((k - 1) - 1 + 1) : a[i] = s[1 + i - 1]
        BY <3>1, SliceIs
      <3> HIDE DEF a
      <3>3. \A i \in 1..(k - 1) : 1 + i - 1 = i
        BY <1>1
      <3> QED BY <3>1, <3>2, <3>3
    <2>2. b \in Seq(S) /\ Len(b) = Len(s) - k /\ \A i \in 1..(Len(s) - k) : b[i] = s[k + i]
      <3>1. k + 1 \in 1..(Len(s) + 1) /\ Len(s) \in ((k + 1) - 1)..Len(s) /\ Len(s) - (k + 1) + 1 = Len(s) - k
        BY <1>1
      <3>2. b \in Seq(S) /\ Len(b) = Len(s) - (k + 1) + 1 /\ \A i \in 1..(Len(s) - (k + 1) + 1) : b[i] = s[(k + 1) + i - 1]
        BY <3>1, SliceIs
      <3> HIDE DEF b
      <3>3. \A i \in 1..(Len(s) - k) : (k + 1) + i - 1 = k + i
        BY <1>1
      <3> QED BY <3>1, <3>2, <3>3
    <2>3. Digital(a) <=> Len(a) >= 1 /\ \A i \in 1..Len(a) : a[i] \in Digits
      BY <2>1, DigitalIs
    <2>4. Digital(b) <=> Len(b) >= 1 /\ \A i \in 1..Len(b) : b[i] \in Digits
      BY <2>2, DigitalIs
    <2> HIDE DEF a, b
    <2>5. Digital(a) <=> k >= 2 /\ \A i \in 1..(k - 1) : s[i] \in Digits
      BY <1>1, <2>1, <2>3
    <2>6. (\A i \in 1..(Len(s) - k) : s[k + i] \in Digits) <=> \A i \in (k + 1)..Len(s) : s[i] \in Digits
      <3>1. \A i \in (k + 1)..Len(s) : i - k \in 1..(Len(s) - k) /\ k + (i - k) = i
        BY <1>1
      <3>2. \A i \in 1..(Len(s) - k) : k + i \in (k + 1)..Len(s)
        BY <1>1
      <3> QED BY <3>1, <3>2
    <2>7. Digital(b) <=> k <= Len(s) - 1 /\ \A i \in (k + 1)..Len(s) : s[i] \in Digits
      <3>1. Len(b) >= 1 <=> k <= Len(s) - 1
        BY <1>1, <2>2
      <3>2. (\A i \in 1..Len(b) : b[i] \in Digits) <=> \A i \in 1..(Len(s) - k) : s[k + i] \in Digits
        BY <2>2
      <3> QED BY <2>4, <2>6, <3>1, <3>2
    <2> QED BY <2>5, <2>7 DEF a, b
  <1>3. ASSUME NEW k \in 2..(Len(s) - 1)
        PROVE  /\ k \in 1..Len(s)
               /\ (\A i \in 1..Len(s) : i # k => s[i] \in Digits) <=>
                     /\ \A i \in 1..(k - 1) : s[i] \in Digits
                     /\ \A i \in (k + 1)..Len(s) : s[i] \in Digits
    <2>1. k \in 1..Len(s) /\ \A i \in 1..Len(s) : i # k => i \in 1..(k - 1) \/ i \in (k + 1)..Len(s)
      BY <1>1
    <2>2. \A i \in 1..(k - 1) : i # k /\ i \in 1..Len(s)
      BY <1>1
    <2>3. \A i \in (k + 1)..Len(s) : i # k /\ i \in 1..Len(s)
      BY <1>1
    <2> QED BY <2>1, <2>2, <2>3
  <1>4. ASSUME Decimal(s)
        PROVE  \E k \in 2..(Len(s) - 1) : s[k] = Point /\ \A i \in 1..Len(s) : i # k => s[i] \in Digits
    <2>1. PICK k \in 1..Len(s) : s[k] = Point /\ Digital(SubSeq(s, 1, k - 1)) /\ Digital(SubSeq(s, k + 1, Len(s)))
      BY <1>1, <1>4 DEF Decimal
    <2>2. k >= 2 /\ k <= Len(s) - 1
      BY <1>2, <2>1
    <2>3. (\A i \in 1..(k - 1) : s[i] \in Digits) /\ (\A i \in (k + 1)..Len(s) : s[i] \in Digits)
      BY <1>2, <2>1
    <2>4. k \in 2..(Len(s) - 1)
      BY <1>1, <2>2
    <2> QED BY <1>3, <2>1, <2>3, <2>4
  <1>5. ASSUME NEW k \in 2..(Len(s) - 1), s[k] = Point, \A i \in 1..Len(s) : i # k => s[i] \in Digits
        PROVE  Decimal(s)
    <2>1. k \in 1..Len(s) /\ k >= 2 /\ k <= Len(s) - 1
      BY <1>1
    <2>2. (\A i \in 1..(k - 1) : s[i] \in Digits) /\ (\A i \in (k + 1)..Len(s) : s[i] \in Digits)
      BY <1>3, <1>5
    <2>3. Digital(SubSeq(s, 1, k - 1)) /\ Digital(SubSeq(s, k + 1, Len(s)))
      BY <1>2, <2>1, <2>2
    <2> QED BY <1>1, <1>5, <2>1, <2>3 DEF Decimal
  <1> QED BY <1>4, <1>5

(* The same of a stretch of a text.                                        *)
LEMMA NumberSpan ==
    ASSUME NEW S, NEW text \in Seq(S), NEW p \in 1..Len(text), NEW q \in p..Len(text)
    PROVE  /\ Digital(SubSeq(text, p, q)) <=> \A i \in p..q : text[i] \in Digits
           /\ Decimal(SubSeq(text, p, q)) <=>
                 \E k \in (p + 1)..(q - 1) : text[k] = Point /\ \A i \in p..q : i # k => text[i] \in Digits
  <1> DEFINE s == SubSeq(text, p, q)
             n == q - p + 1
  <1>1. Len(text) \in Nat /\ p \in Nat \ {0} /\ q \in Nat /\ p <= q /\ q <= Len(text)
        /\ p \in 1..(Len(text) + 1) /\ q \in (p - 1)..Len(text) /\ n \in Nat /\ n >= 1
    OBVIOUS
  <1>2. s \in Seq(S) /\ Len(s) = n /\ \A i \in 1..n : s[i] = text[p + i - 1]
    BY <1>1, SliceIs
  <1> HIDE DEF s
  <1>3. \A i \in 1..n : p + i - 1 \in p..q
    BY <1>1
  <1>4. \A i \in p..q : i - p + 1 \in 1..n /\ p + (i - p + 1) - 1 = i
    BY <1>1
  <1>5. \A i \in p..q : s[i - p + 1] = text[i]
    <2> TAKE i \in p..q
    <2> DEFINE j == i - p + 1
    <2>1. j \in 1..n /\ p + j - 1 = i
      BY <1>4
    <2> HIDE DEF j
    <2>2. s[j] = text[i]
      BY <1>2, <2>1
    <2> QED BY <2>2 DEF j
  <1>6. (\A i \in 1..n : s[i] \in Digits) <=> \A i \in p..q : text[i] \in Digits
    BY <1>2, <1>3, <1>4, <1>5
  <1>7. Digital(s) <=> Len(s) >= 1 /\ \A i \in 1..Len(s) : s[i] \in Digits
    BY <1>2, DigitalIs
  <1>8. Decimal(s) <=> \E k \in 2..(Len(s) - 1) : s[k] = Point /\ \A i \in 1..Len(s) : i # k => s[i] \in Digits
    BY <1>2, DecimalIs
  <1>9. ASSUME NEW k \in 2..(n - 1), s[k] = Point, \A i \in 1..n : i # k => s[i] \in Digits
        PROVE  \E j \in (p + 1)..(q - 1) : text[j] = Point /\ \A i \in p..q : i # j => text[i] \in Digits
    <2> DEFINE j == p + k - 1
    <2>1. j \in (p + 1)..(q - 1) /\ k \in 1..n /\ j - p + 1 = k
      BY <1>1
    <2>2. text[j] = Point
      BY <1>2, <1>9, <2>1
    <2>3. ASSUME NEW i \in p..q, i # j PROVE text[i] \in Digits
      <3>1. i - p + 1 \in 1..n /\ i - p + 1 # k
        BY <1>1, <1>4, <2>1, <2>3
      <3> QED BY <1>5, <1>9, <3>1
    <2> QED BY <2>1, <2>2, <2>3
  <1>10. ASSUME NEW j \in (p + 1)..(q - 1), text[j] = Point, \A i \in p..q : i # j => text[i] \in Digits
         PROVE  \E k \in 2..(n - 1) : s[k] = Point /\ \A i \in 1..n : i # k => s[i] \in Digits
    <2> DEFINE k == j - p + 1
    <2>1. k \in 2..(n - 1) /\ j \in p..q /\ p + k - 1 = j
      BY <1>1
    <2>2. s[k] = Point
      BY <1>5, <1>10, <2>1
    <2>3. ASSUME NEW i \in 1..n, i # k PROVE s[i] \in Digits
      <3>1. p + i - 1 \in p..q /\ p + i - 1 # j
        BY <1>1, <1>3, <2>1, <2>3
      <3> QED BY <1>2, <1>10, <3>1
    <2> QED BY <2>1, <2>2, <2>3
  <1> QED BY <1>1, <1>2, <1>6, <1>7, <1>8, <1>9, <1>10 DEF s

LEMMA SuffixedIs ==
    ASSUME NEW S, NEW text \in Seq(S), NEW p \in 1..Len(text), NEW q \in p..Len(text), NEW x
    PROVE  Suffixed(SubSeq(text, p, q), x) <=> text[q] = x /\ q > p /\ Numeric(SubSeq(text, p, q - 1))
  <1> DEFINE s == SubSeq(text, p, q)  f == SubSeq(text, p, q - 1)
  <1>1. s # <<>> /\ Last(s) = text[q] /\ Front(s) = f
    BY SliceFront
  <1>2. Len(text) \in Nat /\ p \in Nat /\ q \in Nat /\ p <= q /\ p \in 1..(Len(text) + 1) /\ q - 1 \in (p - 1)..Len(text)
    OBVIOUS
  <1>3. f \in Seq(S) /\ Len(f) = (q - 1) - p + 1
    BY <1>2, SliceIs
  <1> HIDE DEF s, f
  <1>4. Numeric(f) => q > p
    <2>1. Digital(f) => Len(f) >= 1
      BY <1>3, DigitalIs
    <2>2. Decimal(f) => \E k \in 2..(Len(f) - 1) : TRUE
      BY <1>3, DecimalIs
    <2>3. Decimal(f) => Len(f) >= 1
      BY <1>2, <1>3, <2>2
    <2> QED BY <1>2, <1>3, <2>1, <2>3 DEF Numeric
  <1>5. Suffixed(s, x) <=> text[q] = x /\ Numeric(f)
    BY <1>1 DEF Suffixed
  <1>6. Suffixed(s, x) <=> text[q] = x /\ q > p /\ Numeric(f)
    BY <1>4, <1>5
  <1> QED BY <1>6 DEF s, f

(* Which lexemes begin with a character.                                   *)
OperatorFirsts == Singles \cup Doubles \cup {Ampersand, Bar}

LEMMA Apart ==
    /\ Digits \cap Letters = {}
    /\ Digits \cap (OperatorFirsts \cup Blanks \cup {Hash, Quote, Tick, Backslash, Point, "d", "f"}) = {}
    /\ Letters \cap (OperatorFirsts \cup Blanks \cup {Hash, Quote, Tick, Backslash, Point}) = {}
    /\ OperatorFirsts \cap (Blanks \cup {Hash, Quote, Tick, Backslash}) = {}
    /\ Blanks \cap {Hash, Quote, Tick, Backslash} = {}
    /\ Hash # Quote /\ Hash # Tick /\ Hash # Newline /\ Quote # Tick /\ Quote # Backslash /\ Tick # Backslash
    /\ NUL \notin Digits \cup Letters \cup OperatorFirsts \cup Blanks \cup {Hash, Quote, Tick, Backslash, Point, "d", "f"}
  <1>1. Point \in Singles
    BY DEF Singles
  <1>2. OperatorFirsts \cup Blanks \cup {Hash, Quote, Tick, Backslash, Point} \subseteq Signs
    BY <1>1 DEF Signs, OperatorFirsts
  <1>3. Digits \cap Letters = {}
    BY AlphabetAssumption
  <1>4. Digits \cap (OperatorFirsts \cup Blanks \cup {Hash, Quote, Tick, Backslash, Point, "d", "f"}) = {}
    BY <1>2, AlphabetAssumption
  <1>5. Letters \cap (OperatorFirsts \cup Blanks \cup {Hash, Quote, Tick, Backslash, Point}) = {}
    BY <1>2, AlphabetAssumption
  <1>6. NUL \notin Digits \cup Letters \cup OperatorFirsts \cup Blanks \cup {Hash, Quote, Tick, Backslash, Point, "d", "f"}
    BY <1>2, AlphabetAssumption
  <1>7. OperatorFirsts \cap (Blanks \cup {Hash, Quote, Tick, Backslash}) = {}
    BY DEF OperatorFirsts, Singles, Doubles, Ampersand, Bar, Blanks, Hash, Quote, Tick, Backslash, Newline, Point, Equals
  <1>8. /\ Blanks \cap {Hash, Quote, Tick, Backslash} = {}
        /\ Hash # Quote /\ Hash # Tick /\ Hash # Newline /\ Quote # Tick /\ Quote # Backslash /\ Tick # Backslash
    BY DEF Blanks, Hash, Quote, Tick, Backslash, Newline
  <1> QED BY <1>3, <1>4, <1>5, <1>6, <1>7, <1>8

LEMMA FirstOf ==
    ASSUME NEW S, NEW text \in Seq(S), NEW p \in 1..Len(text), NEW q \in p..Len(text)
    PROVE  /\ Numeric(SubSeq(text, p, q)) => text[p] \in Digits
           /\ \A x : Suffixed(SubSeq(text, p, q), x) => text[p] \in Digits
           /\ Word(SubSeq(text, p, q)) => text[p] \in Letters
           /\ Operator(SubSeq(text, p, q)) => text[p] \in OperatorFirsts
           /\ Quoted(SubSeq(text, p, q)) => text[p] = Quote
           /\ Ticked(SubSeq(text, p, q)) => text[p] = Tick
  <1>1. Len(text) \in Nat /\ p \in Nat \ {0} /\ q \in Nat /\ p <= q /\ q <= Len(text)
        /\ p \in 1..(Len(text) + 1) /\ q \in (p - 1)..Len(text) /\ 1 \in 1..(q - p + 1) /\ p + 1 - 1 = p
    OBVIOUS
  <1>2. ASSUME NEW r \in p..Len(text) PROVE Numeric(SubSeq(text, p, r)) => text[p] \in Digits
    <2>1. p \in p..r /\ \A k \in (p + 1)..(r - 1) : p # k
      BY <1>1
    <2>2. Digital(SubSeq(text, p, r)) => \A i \in p..r : text[i] \in Digits
      BY NumberSpan
    <2>3. Decimal(SubSeq(text, p, r)) => \E k \in (p + 1)..(r - 1) : text[k] = Point /\ \A i \in p..r : i # k => text[i] \in Digits
      BY NumberSpan
    <2> QED BY <2>1, <2>2, <2>3 DEF Numeric
  <1>3. ASSUME NEW x, Suffixed(SubSeq(text, p, q), x) PROVE text[p] \in Digits
    <2>1. q > p /\ Numeric(SubSeq(text, p, q - 1))
      BY <1>3, SuffixedIs
    <2>2. q - 1 \in p..Len(text)
      BY <1>1, <2>1
    <2> QED BY <1>2, <2>1, <2>2
  <1> DEFINE s == SubSeq(text, p, q)
  <1>4. s[1] = text[p]
    BY <1>1, SliceIs
  <1> HIDE DEF s
  <1>5. Word(s) => text[p] \in Letters
    BY <1>4 DEF Word
  <1>6. Quoted(s) => text[p] = Quote
    BY <1>4 DEF Quoted
  <1>7. Ticked(s) => text[p] = Tick
    BY <1>4 DEF Ticked
  <1>8. Operator(s) => text[p] \in OperatorFirsts
    <2>1. ASSUME NEW c, s = <<c>> PROVE s[1] = c
      BY <2>1
    <2>2. ASSUME NEW c, NEW d, s = <<c, d>> PROVE s[1] = c
      BY <2>2
    <2>3. ASSUME Operator(s)
          PROVE \E c \in OperatorFirsts : s = <<c>> \/ \E d : s = <<c, d>>
      <3>1. CASE \E c \in Singles \cup Doubles \cup {Ampersand} : s = <<c>>
        BY <3>1 DEF OperatorFirsts
      <3>2. CASE \E c \in Doubles : s = <<c, Equals>>
        BY <3>2 DEF OperatorFirsts
      <3>3. CASE s = <<Ampersand, Ampersand>> \/ s = <<Bar, Bar>>
        BY <3>3 DEF OperatorFirsts
      <3> QED BY <2>3, <3>1, <3>2, <3>3 DEF Operator
    <2> QED BY <1>4, <2>1, <2>2, <2>3
  <1> QED BY <1>2, <1>3, <1>5, <1>6, <1>7, <1>8 DEF s

(* What a lexeme is, and its kind and text, from its first character.      *)
LEMMA ByFirst ==
    ASSUME NEW S, NEW text \in Seq(S), NEW p \in 1..Len(text), NEW q \in p..Len(text), NEW s, s = SubSeq(text, p, q)
    PROVE  /\ text[p] \in Digits =>
                 (Lexeme(s) <=> Numeric(s) \/ Suffixed(s, "d") \/ Suffixed(s, "f"))
           /\ text[p] \in Letters =>
                 (Lexeme(s) <=> Word(s)) /\ (Word(s) => KindAndText(s) = <<WordKind(s), s>>)
           /\ text[p] \notin Digits \cup Letters \cup {Quote, Tick} =>
                 (Lexeme(s) <=> Operator(s)) /\ (Operator(s) => KindAndText(s) = <<"operator", s>>)
           /\ text[p] = Quote =>
                 (Lexeme(s) <=> Quoted(s)) /\ (Quoted(s) => KindAndText(s) = <<"string", Value(s)>>)
           /\ text[p] = Tick =>
                 (Lexeme(s) <=> Ticked(s)) /\ (Ticked(s) => KindAndText(s) = <<"char", Value(s)>>)
  <1> DEFINE c == text[p]
  <1>1. /\ Numeric(s) => c \in Digits
        /\ Suffixed(s, "d") => c \in Digits
        /\ Suffixed(s, "f") => c \in Digits
        /\ Word(s) => c \in Letters
        /\ Operator(s) => c \in OperatorFirsts
        /\ Quoted(s) => c = Quote
        /\ Ticked(s) => c = Tick
    BY FirstOf
  <1> HIDE DEF c
  <1>2. /\ c \in Digits => c \notin Letters /\ c \notin OperatorFirsts /\ c # Quote /\ c # Tick
        /\ c \in Letters => c \notin Digits /\ c \notin OperatorFirsts /\ c # Quote /\ c # Tick
        /\ c = Quote => c \notin Digits /\ c \notin Letters /\ c \notin OperatorFirsts /\ c # Tick
        /\ c = Tick => c \notin Digits /\ c \notin Letters /\ c \notin OperatorFirsts /\ c # Quote
    BY Apart
  <1>3. c \in Digits => (Lexeme(s) <=> Numeric(s) \/ Suffixed(s, "d") \/ Suffixed(s, "f"))
    BY <1>1, <1>2 DEF Lexeme
  <1>4. c \in Letters => (Lexeme(s) <=> Word(s)) /\ (Word(s) => KindAndText(s) = <<WordKind(s), s>>)
    BY <1>1, <1>2, Zenon DEF Lexeme, KindAndText, Numeric
  <1>5. c \notin Digits \cup Letters \cup {Quote, Tick} =>
           (Lexeme(s) <=> Operator(s)) /\ (Operator(s) => KindAndText(s) = <<"operator", s>>)
    BY <1>1, <1>2 DEF Lexeme, KindAndText, Numeric
  <1>6. c = Quote => (Lexeme(s) <=> Quoted(s)) /\ (Quoted(s) => KindAndText(s) = <<"string", Value(s)>>)
    BY <1>1, <1>2 DEF Lexeme, KindAndText, Numeric
  <1>7. c = Tick => (Lexeme(s) <=> Ticked(s)) /\ (Ticked(s) => KindAndText(s) = <<"char", Value(s)>>)
    BY <1>1, <1>2 DEF Lexeme, KindAndText, Numeric
  <1> QED BY <1>3, <1>4, <1>5, <1>6, <1>7 DEF c

-------------------------------------------------------------------------------
(* Where the lexer ends a number.                                          *)
NumberOver(text, p, q) ==
    /\ q <= Len(text) => text[q] \notin Digits
    /\ \/ InDigits(text, p, q) /\ ~(q + 1 <= Len(text) /\ text[q] = Point /\ text[q + 1] \in Digits)
       \/ InFraction(text, p, q)

LEMMA NumberSeen ==
    ASSUME NEW S, NEW text \in Seq(S), NEW p \in 1..Len(text), NEW q \in p..(Len(text) + 1), NumberOver(text, p, q)
    PROVE  /\ q - 1 \in p..Len(text)
           /\ InDigits(text, p, q) => Digital(SubSeq(text, p, q - 1))
           /\ InFraction(text, p, q) => Decimal(SubSeq(text, p, q - 1)) /\ ~Digital(SubSeq(text, p, q - 1))
  <1>1. Len(text) \in Nat /\ p \in Nat \ {0} /\ q \in Nat /\ p <= q /\ q <= Len(text) + 1 /\ p <= Len(text)
    OBVIOUS
  <1>2. q - 1 \in p..Len(text)
    <2>1. InDigits(text, p, q) => text[p] \in Digits
      BY DEF InDigits
    <2>2. InFraction(text, p, q) => \E k \in (p + 1)..(q - 1) : TRUE
      BY DEF InFraction
    <2>3. q # p
      BY <1>1, <2>1, <2>2 DEF NumberOver
    <2> QED BY <1>1, <2>3
  <1>3. InDigits(text, p, q) => Digital(SubSeq(text, p, q - 1))
    <2>1. InDigits(text, p, q) => \A i \in p..(q - 1) : text[i] \in Digits
      BY DEF InDigits
    <2> QED BY <1>2, <2>1, NumberSpan
  <1>4. ASSUME InFraction(text, p, q)
        PROVE  Decimal(SubSeq(text, p, q - 1)) /\ ~Digital(SubSeq(text, p, q - 1))
    <2>1. PICK k \in (p + 1)..(q - 1) :
              /\ text[k] = Point /\ k + 1 \in 1..Len(text) /\ text[k + 1] \in Digits
              /\ \A i \in p..(q - 1) : i # k => text[i] \in Digits
      BY <1>4 DEF InFraction
    <2>2. k # q - 1
      <3> SUFFICES ASSUME k = q - 1 PROVE FALSE
        OBVIOUS
      <3>1. k + 1 = q /\ q <= Len(text)
        BY <1>1, <2>1
      <3> QED BY <2>1, <3>1 DEF NumberOver
    <2>3. k \in (p + 1)..((q - 1) - 1) /\ k \in p..(q - 1)
      BY <1>1, <2>2
    <2>4. Decimal(SubSeq(text, p, q - 1))
      BY <1>2, <2>1, <2>3, NumberSpan
    <2>5. Point \notin Digits
      BY Apart
    <2>6. ~Digital(SubSeq(text, p, q - 1))
      BY <1>2, <2>1, <2>3, <2>5, NumberSpan
    <2> QED BY <2>4, <2>6
  <1> QED BY <1>2, <1>3, <1>4

LEMMA NumberNoLonger ==
    ASSUME NEW S, NEW text \in Seq(S), NEW p \in 1..Len(text), NEW q \in p..(Len(text) + 1), NumberOver(text, p, q),
           NEW r \in q..Len(text)
    PROVE  ~Numeric(SubSeq(text, p, r))
  <1>1. Len(text) \in Nat /\ p \in Nat \ {0} /\ q \in Nat /\ p <= q /\ q <= r /\ r \in Nat /\ r <= Len(text)
        /\ r \in p..Len(text) /\ q \in p..r
    OBVIOUS
  <1>2. text[q] \notin Digits
    BY <1>1 DEF NumberOver
  <1>3. ~Digital(SubSeq(text, p, r))
    BY <1>1, <1>2, NumberSpan
  <1>4. ASSUME Decimal(SubSeq(text, p, r)) PROVE FALSE
    <2>1. PICK k \in (p + 1)..(r - 1) : text[k] = Point /\ \A i \in p..r : i # k => text[i] \in Digits
      BY <1>1, <1>4, NumberSpan
    <2>2. q = k
      BY <1>1, <1>2, <2>1
    <2>3. q + 1 <= Len(text) /\ q + 1 \in p..r /\ q + 1 # k
      BY <1>1, <2>2
    <2>4. text[q + 1] \in Digits /\ text[q] = Point
      BY <2>1, <2>2, <2>3
    <2>5. InFraction(text, p, q)
      BY <2>3, <2>4 DEF NumberOver
    <2>6. PICK j \in (p + 1)..(q - 1) : text[j] = Point
      BY <2>5 DEF InFraction
    <2>7. j \in p..r /\ j # k
      BY <1>1, <2>2
    <2> QED BY <2>1, <2>6, <2>7, Apart
  <1> QED BY <1>3, <1>4 DEF Numeric

LEMMA NumberEnds ==
    ASSUME NEW S, NEW text \in Seq(S), NEW p \in 1..Len(text), NEW q \in p..(Len(text) + 1), NumberOver(text, p, q)
    PROVE  /\ text[p] \in Digits
           /\ q <= Len(text) /\ text[q] = "d" =>
                 Longest(text, p) = q /\ KindAndText(SubSeq(text, p, q)) = <<"double", SubSeq(text, p, q - 1)>>
           /\ q <= Len(text) /\ text[q] = "f" =>
                 Longest(text, p) = q /\ KindAndText(SubSeq(text, p, q)) = <<"float", SubSeq(text, p, q - 1)>>
           /\ (q <= Len(text) => text[q] \notin {"d", "f"}) =>
                 /\ Longest(text, p) = q - 1
                 /\ InDigits(text, p, q) => KindAndText(SubSeq(text, p, q - 1)) = <<"int", SubSeq(text, p, q - 1)>>
                 /\ InFraction(text, p, q) => KindAndText(SubSeq(text, p, q - 1)) = <<"float", SubSeq(text, p, q - 1)>>
  <1>1. Len(text) \in Nat /\ p \in Nat \ {0} /\ q \in Nat /\ q - 1 \in p..Len(text)
    BY NumberSeen
  <1>2. Numeric(SubSeq(text, p, q - 1))
    BY NumberSeen DEF NumberOver, Numeric
  <1>3. text[p] \in Digits
    BY <1>1, <1>2, FirstOf
  <1>4. \A r \in p..Len(text) : Lexeme(SubSeq(text, p, r)) <=>
            \/ Numeric(SubSeq(text, p, r)) \/ Suffixed(SubSeq(text, p, r), "d") \/ Suffixed(SubSeq(text, p, r), "f")
    BY <1>3, ByFirst
  <1>5. ASSUME NEW r \in (q + 1)..Len(text), NEW x PROVE ~Suffixed(SubSeq(text, p, r), x)
    <2>1. r \in p..Len(text) /\ r - 1 \in q..Len(text)
      BY <1>1
    <2>2. ~Numeric(SubSeq(text, p, r - 1))
      BY <2>1, NumberNoLonger
    <2> QED BY <2>1, <2>2, SuffixedIs
  <1>6. ASSUME NEW r \in q..Len(text) PROVE ~Numeric(SubSeq(text, p, r)) /\ r \in p..Len(text)
    <2>1. r \in p..Len(text)
      BY <1>1
    <2> QED BY <2>1, NumberNoLonger
  <1>7. \A r \in (q + 1)..Len(text) : ~Lexeme(SubSeq(text, p, r))
    <2> TAKE r \in (q + 1)..Len(text)
    <2>1. r \in q..Len(text)
      BY <1>1
    <2> QED BY <1>4, <1>5, <1>6, <2>1
  <1>8. ASSUME NEW x \in {"d", "f"}, q <= Len(text), text[q] = x
        PROVE  /\ Longest(text, p) = q
               /\ KindAndText(SubSeq(text, p, q)) = <<IF x = "d" THEN "double" ELSE "float", SubSeq(text, p, q - 1)>>
    <2>1. q \in p..Len(text) /\ q > p /\ q \in q..Len(text)
      BY <1>1, <1>8
    <2>2. Suffixed(SubSeq(text, p, q), x)
      BY <1>2, <1>8, <2>1, SuffixedIs
    <2>3. Lexeme(SubSeq(text, p, q))
      BY <1>4, <2>1, <2>2
    <2>4. Longest(text, p) = q
      BY <1>7, <2>1, <2>3, LongestEnds
    <2>5. ~Digital(SubSeq(text, p, q)) /\ ~Decimal(SubSeq(text, p, q))
      BY <1>6, <2>1 DEF Numeric
    <2>6. Suffixed(SubSeq(text, p, q), "f") => text[q] = "f"
      BY <2>1, SuffixedIs
    <2>7. Front(SubSeq(text, p, q)) = SubSeq(text, p, q - 1)
      BY <2>1, SliceFront
    <2> DEFINE s == SubSeq(text, p, q)
    <2>8. KindAndText(s) = IF Suffixed(s, "f") THEN <<"float", Front(s)>>
                           ELSE IF Suffixed(s, "d") THEN <<"double", Front(s)>> ELSE KindAndText(s)
      BY <2>5 DEF KindAndText
    <2>9. KindAndText(s) = <<IF x = "d" THEN "double" ELSE "float", Front(s)>>
      <3> HIDE DEF s
      <3>1. CASE x = "d"
        BY <1>8, <2>2, <2>6, <2>8, <3>1 DEF s
      <3>2. CASE x = "f"
        BY <1>8, <2>2, <2>6, <2>8, <3>2 DEF s
      <3> QED BY <3>1, <3>2
    <2> QED BY <2>4, <2>7, <2>9
  <1>9. ASSUME q <= Len(text) => text[q] \notin {"d", "f"}
        PROVE  /\ Longest(text, p) = q - 1
               /\ InDigits(text, p, q) => KindAndText(SubSeq(text, p, q - 1)) = <<"int", SubSeq(text, p, q - 1)>>
               /\ InFraction(text, p, q) => KindAndText(SubSeq(text, p, q - 1)) = <<"float", SubSeq(text, p, q - 1)>>
    <2>1. \A r \in ((q - 1) + 1)..Len(text) : ~Lexeme(SubSeq(text, p, r))
      <3> TAKE r \in ((q - 1) + 1)..Len(text)
      <3>1. CASE r = q
        <4>1. q \in q..Len(text) /\ q <= Len(text) /\ q \in p..Len(text)
          BY <1>1, <3>1
        <4>2. ~Suffixed(SubSeq(text, p, q), "d") /\ ~Suffixed(SubSeq(text, p, q), "f")
          BY <1>9, <4>1, SuffixedIs
        <4> QED BY <1>4, <1>6, <3>1, <4>1, <4>2
      <3>2. CASE r # q
        <4>1. r \in (q + 1)..Len(text)
          BY <1>1, <3>2
        <4> QED BY <1>7, <4>1
      <3> QED BY <3>1, <3>2
    <2>2. Lexeme(SubSeq(text, p, q - 1))
      BY <1>2 DEF Lexeme
    <2> DEFINE e == q - 1
    <2>3. Longest(text, p) = e
      <3>1. e \in p..Len(text) /\ Lexeme(SubSeq(text, p, e)) /\ \A r \in (e + 1)..Len(text) : ~Lexeme(SubSeq(text, p, r))
        BY <1>1, <2>1, <2>2
      <3> HIDE DEF e
      <3> QED BY <3>1, LongestEnds
    <2>4. InDigits(text, p, q) => KindAndText(SubSeq(text, p, e)) = <<"int", SubSeq(text, p, e)>>
      BY NumberSeen DEF KindAndText
    <2>5. InFraction(text, p, q) => KindAndText(SubSeq(text, p, e)) = <<"float", SubSeq(text, p, e)>>
      BY NumberSeen DEF KindAndText
    <2> QED BY <2>3, <2>4, <2>5
  <1> QED BY <1>3, <1>8, <1>9

-------------------------------------------------------------------------------
(* Where the lexer ends a word, and the operators.                         *)
LEMMA WordSpan ==
    ASSUME NEW S, NEW text \in Seq(S), NEW p \in 1..Len(text), NEW q \in p..Len(text)
    PROVE  Word(SubSeq(text, p, q)) <=> text[p] \in Letters /\ \A i \in p..q : text[i] \in Letters \cup Digits
  <1> DEFINE s == SubSeq(text, p, q)
             n == q - p + 1
  <1>1. Len(text) \in Nat /\ p \in Nat \ {0} /\ q \in Nat /\ p <= q /\ q <= Len(text)
        /\ p \in 1..(Len(text) + 1) /\ q \in (p - 1)..Len(text) /\ n \in Nat /\ n >= 1 /\ 1 \in 1..n /\ p + 1 - 1 = p
    OBVIOUS
  <1>2. s \in Seq(S) /\ Len(s) = n /\ \A i \in 1..n : s[i] = text[p + i - 1]
    BY <1>1, SliceIs
  <1> HIDE DEF s
  <1>3. DOMAIN s = 1..n /\ s # <<>> /\ s[1] = text[p]
    BY <1>1, <1>2
  <1>4. \A i \in 1..n : p + i - 1 \in p..q
    BY <1>1
  <1>5. ASSUME NEW i \in p..q PROVE \E j \in 1..n : s[j] = text[i]
    <2> DEFINE j == i - p + 1
    <2>1. j \in 1..n /\ p + j - 1 = i
      BY <1>1
    <2> HIDE DEF j
    <2> QED BY <1>2, <2>1
  <1>6. ToSet(s) \subseteq Letters \cup Digits <=> \A i \in p..q : text[i] \in Letters \cup Digits
    <2>1. ToSet(s) \subseteq Letters \cup Digits <=> \A j \in 1..n : s[j] \in Letters \cup Digits
      BY <1>3 DEF ToSet
    <2> QED BY <1>2, <1>4, <1>5, <2>1
  <1>7. Word(s) <=> text[p] \in Letters /\ \A i \in p..q : text[i] \in Letters \cup Digits
    BY <1>3, <1>6 DEF Word
  <1> QED BY <1>7 DEF s

LEMMA WordEnds ==
    ASSUME NEW S, NEW text \in Seq(S), NEW p \in 1..Len(text), NEW q \in p..(Len(text) + 1),
           InWord(text, p, q), q <= Len(text) => text[q] \notin Letters \cup Digits
    PROVE  /\ text[p] \in Letters /\ q - 1 \in p..Len(text) /\ Longest(text, p) = q - 1
           /\ KindAndText(SubSeq(text, p, q - 1)) = <<WordKind(SubSeq(text, p, q - 1)), SubSeq(text, p, q - 1)>>
  <1>1. Len(text) \in Nat /\ p \in Nat \ {0} /\ q \in Nat /\ p <= q /\ q <= Len(text) + 1 /\ p <= Len(text)
    OBVIOUS
  <1>2. text[p] \in Letters /\ \A i \in p..(q - 1) : text[i] \in Letters \cup Digits
    BY DEF InWord
  <1>3. q # p
    BY <1>1, <1>2
  <1> DEFINE e == q - 1
  <1>4. e \in p..Len(text) /\ \A i \in p..e : text[i] \in Letters \cup Digits
    BY <1>1, <1>2, <1>3
  <1>5. ASSUME NEW r \in (e + 1)..Len(text) PROVE r \in p..Len(text) /\ ~Word(SubSeq(text, p, r))
    <2>1. r \in p..Len(text) /\ q \in p..r /\ q <= Len(text)
      BY <1>1, <1>3
    <2> QED BY <2>1, WordSpan
  <1> HIDE DEF e
  <1>6. Word(SubSeq(text, p, e))
    BY <1>2, <1>4, WordSpan
  <1>7. \A r \in p..Len(text) : Lexeme(SubSeq(text, p, r)) <=> Word(SubSeq(text, p, r))
    BY <1>2, ByFirst
  <1>8. \A r \in (e + 1)..Len(text) : ~Lexeme(SubSeq(text, p, r))
    BY <1>5, <1>7
  <1>9. Longest(text, p) = e
    BY <1>4, <1>6, <1>7, <1>8, LongestEnds
  <1> DEFINE s == SubSeq(text, p, e)
  <1>10. KindAndText(s) = <<WordKind(s), s>>
    BY <1>2, <1>4, <1>6, ByFirst
  <1> QED BY <1>2, <1>4, <1>9, <1>10 DEF e

LEMMA OperatorIs ==
    ASSUME NEW S, NEW s \in Seq(S)
    PROVE  Operator(s) <=>
              \/ Len(s) = 1 /\ s[1] \in Singles \cup Doubles \cup {Ampersand}
              \/ Len(s) = 2 /\ s[1] \in Doubles \cup {Ampersand, Bar} /\ s[2] = Second(s[1])
  <1>1. Len(s) \in Nat /\ s = [i \in 1..Len(s) |-> s[i]]
    OBVIOUS
  <1>2. \A c : s = <<c>> <=> Len(s) = 1 /\ s[1] = c
    <2> SUFFICES ASSUME NEW c PROVE s = <<c>> <=> Len(s) = 1 /\ s[1] = c
      OBVIOUS
    <2>1. Len(s) = 1 /\ s[1] = c => s = <<c>>
      BY <1>1
    <2> QED BY <2>1
  <1>3. \A c, d : s = <<c, d>> <=> Len(s) = 2 /\ s[1] = c /\ s[2] = d
    <2> SUFFICES ASSUME NEW c, NEW d PROVE s = <<c, d>> <=> Len(s) = 2 /\ s[1] = c /\ s[2] = d
      OBVIOUS
    <2>1. Len(s) = 2 /\ s[1] = c /\ s[2] = d => s = <<c, d>>
      BY <1>1
    <2> QED BY <2>1
  <1>4. Ampersand \notin Doubles /\ Bar \notin Doubles
    BY DEF Ampersand, Bar, Doubles, Equals
  <1>5. \A c : c \in Doubles => Second(c) = Equals
    BY DEF Second
  <1>6. Second(Ampersand) = Ampersand /\ Second(Bar) = Bar
    BY <1>4 DEF Second
  <1>7. (\E c \in Singles \cup Doubles \cup {Ampersand} : s = <<c>>) <=>
           Len(s) = 1 /\ s[1] \in Singles \cup Doubles \cup {Ampersand}
    BY <1>2
  <1>8. (\E c \in Doubles : s = <<c, Equals>>) <=> Len(s) = 2 /\ s[1] \in Doubles /\ s[2] = Equals
    BY <1>3
  <1>9. (s = <<Ampersand, Ampersand>> <=> Len(s) = 2 /\ s[1] = Ampersand /\ s[2] = Ampersand)
        /\ (s = <<Bar, Bar>> <=> Len(s) = 2 /\ s[1] = Bar /\ s[2] = Bar)
    BY <1>3
  <1>10. s[1] \in Doubles \cup {Ampersand, Bar} /\ s[2] = Second(s[1]) <=>
            \/ s[1] \in Doubles /\ s[2] = Equals
            \/ s[1] = Ampersand /\ s[2] = Ampersand
            \/ s[1] = Bar /\ s[2] = Bar
    BY <1>4, <1>5, <1>6
  <1> QED BY <1>7, <1>8, <1>9, <1>10 DEF Operator

LEMMA OperatorSpan ==
    ASSUME NEW S, NEW text \in Seq(S), NEW p \in 1..Len(text), NEW q \in p..Len(text)
    PROVE  Operator(SubSeq(text, p, q)) <=>
              \/ q = p /\ text[p] \in Singles \cup Doubles \cup {Ampersand}
              \/ q = p + 1 /\ text[p] \in Doubles \cup {Ampersand, Bar} /\ text[q] = Second(text[p])
  <1> DEFINE s == SubSeq(text, p, q)
             n == q - p + 1
  <1>1. Len(text) \in Nat /\ p \in Nat \ {0} /\ q \in Nat /\ p <= q /\ q <= Len(text)
        /\ p \in 1..(Len(text) + 1) /\ q \in (p - 1)..Len(text) /\ n \in Nat /\ 1 \in 1..n /\ p + 1 - 1 = p /\ p + 2 - 1 = p + 1
        /\ (n = 1 <=> q = p) /\ (n = 2 <=> q = p + 1) /\ (q = p + 1 => 2 \in 1..n)
    OBVIOUS
  <1>2. s \in Seq(S) /\ Len(s) = n /\ \A i \in 1..n : s[i] = text[p + i - 1]
    BY <1>1, SliceIs
  <1> HIDE DEF s
  <1>3. s[1] = text[p] /\ (q = p + 1 => s[2] = text[q])
    BY <1>1, <1>2
  <1>4. Operator(s) <=>
                \/ Len(s) = 1 /\ s[1] \in Singles \cup Doubles \cup {Ampersand}
                \/ Len(s) = 2 /\ s[1] \in Doubles \cup {Ampersand, Bar} /\ s[2] = Second(s[1])
    BY <1>2, OperatorIs
  <1>5. Operator(s) <=>
                \/ q = p /\ text[p] \in Singles \cup Doubles \cup {Ampersand}
                \/ q = p + 1 /\ text[p] \in Doubles \cup {Ampersand, Bar} /\ text[q] = Second(text[p])
    BY <1>1, <1>2, <1>3, <1>4
  <1> QED BY <1>5 DEF s

LEMMA SliceOfOne ==
    ASSUME NEW S, NEW text \in Seq(S), NEW p \in 1..Len(text)
    PROVE  /\ SubSeq(text, p, p) = <<text[p]>>
           /\ p + 1 <= Len(text) => SubSeq(text, p, p + 1) = <<text[p], text[p + 1]>>
  <1>1. Len(text) \in Nat /\ p \in Nat \ {0} /\ p \in 1..(Len(text) + 1) /\ p \in (p - 1)..Len(text) /\ p - p + 1 = 1
        /\ (p + 1) - p + 1 = 2 /\ p + 1 - 1 = p /\ p + 2 - 1 = p + 1
    OBVIOUS
  <1> DEFINE s == SubSeq(text, p, p)  u == SubSeq(text, p, p + 1)
  <1>2. s \in Seq(S) /\ Len(s) = p - p + 1 /\ \A i \in 1..(p - p + 1) : s[i] = text[p + i - 1]
    BY <1>1, SliceIs
  <1>3. p + 1 <= Len(text) => u \in Seq(S) /\ Len(u) = (p + 1) - p + 1 /\ \A i \in 1..((p + 1) - p + 1) : u[i] = text[p + i - 1]
    <2>1. p + 1 <= Len(text) => p + 1 \in (p - 1)..Len(text)
      BY <1>1
    <2> QED BY <1>1, <2>1, SliceIs
  <1> HIDE DEF s, u
  <1>4. s = <<text[p]>>
    <2>1. s \in Seq(S) /\ Len(s) = 1 /\ s[1] = text[p]
      BY <1>1, <1>2
    <2>2. s = [i \in 1..1 |-> s[i]]
      BY <2>1
    <2> QED BY <2>1, <2>2
  <1>5. ASSUME p + 1 <= Len(text) PROVE u = <<text[p], text[p + 1]>>
    <2>1. u \in Seq(S) /\ Len(u) = 2 /\ u[1] = text[p] /\ u[2] = text[p + 1]
      BY <1>1, <1>3, <1>5
    <2>2. u = [i \in 1..2 |-> u[i]]
      BY <2>1
    <2> QED BY <2>1, <2>2
  <1> QED BY <1>4, <1>5 DEF s, u

(* The lexer's look at the character behind an operator's first, after:    *)
(* NUL where there is none.                                                *)
LEMMA OperatorEnds ==
    ASSUME NEW S, NEW text \in Seq(S), NEW p \in 1..Len(text), NEW after,
           text[p] \notin Blanks \cup Digits \cup Letters \cup {Hash, Quote, Tick},
           after = IF p + 1 <= Len(text) THEN text[p + 1] ELSE NUL
    PROVE  /\ text[p] \in Doubles \cup {Ampersand, Bar} /\ after = Second(text[p]) =>
                 /\ p + 1 \in p..Len(text) /\ Longest(text, p) = p + 1
                 /\ KindAndText(SubSeq(text, p, p + 1)) = <<"operator", <<text[p], after>>>>
           /\ text[p] \in Singles \/ (text[p] \in Doubles \cup {Ampersand} /\ after # Second(text[p])) =>
                 /\ Longest(text, p) = p
                 /\ KindAndText(SubSeq(text, p, p)) = <<"operator", <<text[p]>>>>
           /\ text[p] \notin Singles \cup Doubles \cup {Ampersand, Bar} \/ (text[p] = Bar /\ after # Bar) =>
                 Longest(text, p) = 0
  <1>1. Len(text) \in Nat /\ p \in Nat \ {0} /\ p \in p..Len(text) /\ p <= Len(text)
    OBVIOUS
  <1>2. \A r \in p..Len(text) :
            /\ Lexeme(SubSeq(text, p, r)) <=> Operator(SubSeq(text, p, r))
            /\ Operator(SubSeq(text, p, r)) => KindAndText(SubSeq(text, p, r)) = <<"operator", SubSeq(text, p, r)>>
    <2> TAKE r \in p..Len(text)
    <2>1. text[p] \notin Digits \cup Letters \cup {Quote, Tick}
      OBVIOUS
    <2> QED BY <2>1, ByFirst
  <1>3. \A r \in p..Len(text) : Operator(SubSeq(text, p, r)) <=>
                \/ r = p /\ text[p] \in Singles \cup Doubles \cup {Ampersand}
                \/ r = p + 1 /\ text[p] \in Doubles \cup {Ampersand, Bar} /\ text[r] = Second(text[p])
    BY OperatorSpan
  <1>4. Singles \cap (Doubles \cup {Ampersand, Bar}) = {} /\ Bar \notin Doubles \cup {Ampersand}
    BY DEF Singles, Doubles, Ampersand, Bar, Equals, Point
  <1>5. text[p] \in Doubles \cup {Ampersand, Bar} => Second(text[p]) # NUL
    <2>1. Equals \in Doubles
      BY DEF Doubles
    <2> QED BY <2>1, Apart DEF Second, OperatorFirsts
  <1>6. Second(Bar) = Bar
    BY <1>4 DEF Second
  <1>7. ASSUME text[p] \in Doubles \cup {Ampersand, Bar}, after = Second(text[p])
        PROVE  /\ p + 1 \in p..Len(text) /\ Longest(text, p) = p + 1
               /\ KindAndText(SubSeq(text, p, p + 1)) = <<"operator", <<text[p], after>>>>
    <2>1. p + 1 \in p..Len(text) /\ text[p + 1] = after /\ p + 1 <= Len(text)
      BY <1>1, <1>5, <1>7
    <2>2. Operator(SubSeq(text, p, p + 1))
      BY <1>3, <1>7, <2>1
    <2>3. \A r \in ((p + 1) + 1)..Len(text) : r \in p..Len(text) /\ r # p /\ r # p + 1
      BY <1>1
    <2>4. \A r \in ((p + 1) + 1)..Len(text) : ~Lexeme(SubSeq(text, p, r))
      BY <1>2, <1>3, <2>3
    <2>5. Lexeme(SubSeq(text, p, p + 1))
      BY <1>2, <2>1, <2>2
    <2>6. Longest(text, p) = p + 1
      BY <2>1, <2>4, <2>5, LongestEnds
    <2>7. SubSeq(text, p, p + 1) = <<text[p], after>>
      BY <2>1, SliceOfOne
    <2> QED BY <1>2, <2>1, <2>2, <2>6, <2>7
  <1>8. ASSUME text[p] \in Singles \/ (text[p] \in Doubles \cup {Ampersand} /\ after # Second(text[p]))
        PROVE  /\ Longest(text, p) = p
               /\ KindAndText(SubSeq(text, p, p)) = <<"operator", <<text[p]>>>>
    <2>1. Operator(SubSeq(text, p, p))
      BY <1>1, <1>3, <1>8
    <2>2. \A r \in (p + 1)..Len(text) : r \in p..Len(text) /\ r # p
      BY <1>1
    <2>3. \A r \in (p + 1)..Len(text) : ~Operator(SubSeq(text, p, r))
      <3> TAKE r \in (p + 1)..Len(text)
      <3>1. CASE r = p + 1
        <4>1. p + 1 <= Len(text) /\ after = text[r]
          BY <1>1, <3>1
        <4>2. ~(text[p] \in Doubles \cup {Ampersand, Bar} /\ text[r] = Second(text[p]))
          BY <1>4, <1>8, <4>1
        <4> QED BY <1>3, <2>2, <4>2
      <3>2. CASE r # p + 1
        BY <1>3, <2>2, <3>2
      <3> QED BY <3>1, <3>2
    <2>4. \A r \in (p + 1)..Len(text) : ~Lexeme(SubSeq(text, p, r))
      BY <1>2, <2>2, <2>3
    <2>5. Longest(text, p) = p
      BY <1>1, <1>2, <2>1, <2>4, LongestEnds
    <2>6. SubSeq(text, p, p) = <<text[p]>>
      BY SliceOfOne
    <2> QED BY <1>1, <1>2, <2>1, <2>5, <2>6
  <1>9. ASSUME text[p] \notin Singles \cup Doubles \cup {Ampersand, Bar} \/ (text[p] = Bar /\ after # Bar)
        PROVE  Longest(text, p) = 0
    <2>1. \A r \in p..Len(text) : ~Operator(SubSeq(text, p, r))
      <3> TAKE r \in p..Len(text)
      <3>1. ~(text[p] \in Singles \cup Doubles \cup {Ampersand})
        BY <1>4, <1>9
      <3>2. CASE r = p + 1
        <4>1. p + 1 <= Len(text) /\ after = text[r]
          BY <1>1, <3>2
        <4>2. ~(text[p] \in Doubles \cup {Ampersand, Bar} /\ text[r] = Second(text[p]))
          BY <1>4, <1>6, <1>9, <4>1
        <4> QED BY <1>3, <3>1, <4>2
      <3>3. CASE r # p + 1
        BY <1>3, <3>1, <3>3
      <3> QED BY <3>2, <3>3
    <2> QED BY <1>2, <2>1, LongestNone
  <1> QED BY <1>7, <1>8, <1>9

-------------------------------------------------------------------------------
(* A function on 0..n from its first value and each from the one before.   *)
Recurs(V, a, n, step) == \E f \in [0..n -> V] : f[0] = a /\ \A i \in 1..n : f[i] = step[i][f[i - 1]]

LEMMA Recursion ==
    ASSUME NEW V, NEW a \in V, NEW n \in Nat, NEW step \in [0..n -> [V -> V]]
    PROVE  Recurs(V, a, n, step)
  <1> DEFINE Upto(m, f) == f \in [0..m -> V] /\ f[0] = a /\ \A i \in 1..m : f[i] = step[i][f[i - 1]]
             D == {m \in Nat : m <= n => \E f : Upto(m, f)}
  <1>1. 0 \in D
    <2> DEFINE f == [i \in 0..0 |-> a]
    <2>1. f \in [0..0 -> V] /\ f[0] = a /\ 1..0 = {}
      OBVIOUS
    <2> HIDE DEF f
    <2>2. Upto(0, f)
      BY <2>1
    <2> QED BY <2>2
  <1>2. ASSUME NEW m \in D PROVE m + 1 \in D
    <2>1. CASE ~(m + 1 <= n)
      BY <2>1
    <2>2. CASE m + 1 <= n
      <3>1. m \in Nat /\ m <= n /\ m + 1 \in 0..n
        BY <2>2
      <3>2. PICK f : Upto(m, f)
        BY <3>1
      <3>3. f \in [0..m -> V] /\ f[0] = a /\ \A i \in 1..m : f[i] = step[i][f[i - 1]]
        BY <3>2
      <3> DEFINE x == step[m + 1][f[m]]
                 g == [i \in 0..(m + 1) |-> IF i = m + 1 THEN x ELSE f[i]]
      <3>4. x \in V
        <4>1. f[m] \in V /\ step[m + 1] \in [V -> V]
          BY <3>1, <3>3
        <4> QED BY <4>1
      <3> HIDE DEF x
      <3>5. g[m + 1] = x /\ \A i \in 0..m : g[i] = f[i] /\ i # m + 1
        BY <3>1
      <3>6. g \in [0..(m + 1) -> V]
        <4>1. \A i \in 0..(m + 1) : (IF i = m + 1 THEN x ELSE f[i]) \in V
          <5> TAKE i \in 0..(m + 1)
          <5>1. CASE i = m + 1
            BY <3>4, <5>1
          <5>2. CASE i # m + 1
            <6>1. i \in 0..m
              BY <3>1, <5>2
            <6> QED BY <3>3, <5>2, <6>1
          <5> QED BY <5>1, <5>2
        <4> QED BY <4>1
      <3> HIDE DEF g
      <3>7. g[0] = a
        <4>1. 0 \in 0..m
          BY <3>1
        <4> QED BY <3>3, <3>5, <4>1
      <3>8. ASSUME NEW i \in 1..(m + 1) PROVE g[i] = step[i][g[i - 1]]
        <4>1. CASE i = m + 1
          <5>1. i - 1 = m /\ m \in 0..m
            BY <3>1, <4>1
          <5>2. g[i - 1] = f[m]
            BY <3>5, <5>1
          <5> QED BY <3>5, <4>1, <5>2 DEF x
        <4>2. CASE i # m + 1
          <5>1. i \in 1..m /\ i \in 0..m /\ i - 1 \in 0..m
            BY <3>1, <4>2
          <5>2. g[i] = f[i] /\ g[i - 1] = f[i - 1]
            BY <3>5, <5>1
          <5> QED BY <3>3, <5>1, <5>2
        <4> QED BY <4>1, <4>2
      <3>9. Upto(m + 1, g)
        BY <3>6, <3>7, <3>8
      <3> HIDE DEF Upto
      <3>10. m + 1 \in Nat
        BY <3>1
      <3> QED BY <3>9, <3>10
    <2> QED BY <2>1, <2>2
  <1>3. D \subseteq Nat
    OBVIOUS
  <1>4. \A m \in D : m <= n => \E f : Upto(m, f)
    OBVIOUS
  <1> HIDE DEF D, Upto
  <1>5. n \in D
    BY <1>1, <1>2, <1>3, Climb
  <1>6. \E f : Upto(n, f)
    BY <1>4, <1>5
  <1> QED BY <1>6 DEF Upto, Recurs

LEMMA EscapedIs ==
    ASSUME NEW S, NEW s \in Seq(S)
    PROVE  /\ Escaped(s) \subseteq 1..Len(s)
           /\ \A i \in 1..Len(s) : i \in Escaped(s) <=> i > 1 /\ s[i - 1] = Backslash /\ i - 1 \notin Escaped(s)
  <1> DEFINE n == Len(s)
             step == [i \in 0..n |-> [b \in BOOLEAN |-> i > 1 /\ s[i - 1] = Backslash /\ ~b]]
             Like(f) == f = [i \in 0..n |-> i > 1 /\ s[i - 1] = Backslash /\ ~f[i - 1]]
             c == CHOOSE f : Like(f)
  <1>1. n \in Nat /\ DOMAIN s = 1..n
    OBVIOUS
  <1> HIDE DEF n
  <1>2. step \in [0..n -> [BOOLEAN -> BOOLEAN]]
    OBVIOUS
  <1>3. \A i \in 0..n : \A b \in BOOLEAN : step[i][b] = (i > 1 /\ s[i - 1] = Backslash /\ ~b)
    OBVIOUS
  <1>4. \E f : Like(f)
    <2> HIDE DEF step
    <2>1. PICK f \in [0..n -> BOOLEAN] : f[0] = FALSE /\ \A i \in 1..n : f[i] = step[i][f[i - 1]]
      <3> DEFINE V == BOOLEAN  a == FALSE
      <3>1. a \in V /\ step \in [0..n -> [V -> V]] /\ n \in Nat
        BY <1>1, <1>2
      <3> HIDE DEF V, a
      <3>2. Recurs(V, a, n, step)
        BY <3>1, Recursion
      <3> QED BY <3>2 DEF V, a, Recurs
    <2>2. ASSUME NEW i \in 0..n PROVE f[i] = (i > 1 /\ s[i - 1] = Backslash /\ ~f[i - 1])
      <3>1. CASE i = 0
        BY <2>1, <3>1
      <3>2. CASE i # 0
        <4>1. i \in 1..n /\ i - 1 \in 0..n
          BY <1>1, <3>2
        <4>2. f[i - 1] \in BOOLEAN /\ f[i] = step[i][f[i - 1]]
          BY <2>1, <4>1
        <4> QED BY <1>3, <4>2
      <3> QED BY <3>1, <3>2
    <2>3. f = [i \in 0..n |-> f[i]]
      OBVIOUS
    <2>4. Like(f)
      BY <2>2, <2>3
    <2> QED BY <2>4
  <1>5. Like(c)
    BY <1>4, Zenon
  <1>6. Escaped(s) = {i \in DOMAIN s : c[i]}
    BY DEF Escaped, n
  <1> HIDE DEF c, step
  <1>7. ASSUME NEW i \in 0..n PROVE c[i] = (i > 1 /\ s[i - 1] = Backslash /\ ~c[i - 1])
    BY <1>5
  <1>8. \A i \in 1..n : i \in Escaped(s) <=> c[i]
    BY <1>1, <1>6
  <1>9. ASSUME NEW i \in 1..n PROVE i \in Escaped(s) <=> i > 1 /\ s[i - 1] = Backslash /\ i - 1 \notin Escaped(s)
    <2>1. i \in 0..n /\ (i > 1 => i - 1 \in 1..n)
      BY <1>1
    <2> QED BY <1>7, <1>8, <2>1
  <1>10. Escaped(s) \subseteq 1..n
    BY <1>1, <1>6
  <1> QED BY <1>9, <1>10 DEF n

(* A character behind a backslash is one that escapes nothing.             *)
LEMMA MeaningIs ==
    ASSUME NEW S, NEW s \in Seq(S)
    PROVE  \A i \in 1..Len(s) :
              Meaning(s)[i] = IF i < 2 THEN <<>>
                              ELSE IF i \in Escaped(s) THEN Append(Meaning(s)[i - 1], Unescaped(s[i]))
                              ELSE IF s[i] = Backslash THEN Meaning(s)[i - 1]
                              ELSE Append(Meaning(s)[i - 1], s[i])
  <1> DEFINE n == Len(s)
             T == S \cup {Unescaped(x) : x \in S}
             V == Seq(T)
             read(i, v) == IF i < 2 THEN <<>>
                           ELSE IF i \in Escaped(s) THEN Append(v, Unescaped(s[i]))
                           ELSE IF s[i] = Backslash THEN v
                           ELSE Append(v, s[i])
             step == [i \in 0..n |-> [v \in V |-> read(i, v)]]
             Like(f) == f = [i \in 0..n |-> read(i, f[i - 1])]
             c == CHOOSE f : Like(f)
  <1>1. n \in Nat /\ \A i \in 1..n : s[i] \in S
    OBVIOUS
  <1>2. <<>> \in V
    OBVIOUS
  <1>3. ASSUME NEW i \in 0..n, NEW v \in V PROVE read(i, v) \in V
    <2>1. CASE i < 2
      BY <1>2, <2>1
    <2>2. CASE i >= 2
      <3>1. s[i] \in S
        BY <1>1, <2>2
      <3>2. Unescaped(s[i]) \in T /\ s[i] \in T
        BY <3>1
      <3>3. Append(v, Unescaped(s[i])) \in V
        <4> DEFINE u == Unescaped(s[i])
        <4>1. u \in T /\ v \in Seq(T)
          BY <3>2
        <4> HIDE DEF u, T
        <4>2. Append(v, u) \in Seq(T)
          BY <4>1
        <4> QED BY <4>2 DEF u
      <3>4. Append(v, s[i]) \in V
        <4>1. s[i] \in T /\ v \in Seq(T)
          BY <3>2
        <4> HIDE DEF T
        <4> QED BY <4>1
      <3> HIDE DEF V
      <3> QED BY <1>2, <3>3, <3>4
    <2> QED BY <1>1, <2>1, <2>2
  <1> HIDE DEF n, V, T
  <1>4. ASSUME NEW v PROVE read(0, v) = <<>>
    OBVIOUS
  <1> HIDE DEF read
  <1>5. step \in [0..n -> [V -> V]] /\ \A i \in 0..n : \A v \in V : step[i][v] = read(i, v)
    BY <1>3
  <1> HIDE DEF step
  <1>6. \E f : Like(f)
    <2>1. \E f \in [0..n -> V] : f[0] = <<>> /\ \A i \in 1..n : f[i] = step[i][f[i - 1]]
      <3> DEFINE a == <<>>
      <3>1. a \in V /\ step \in [0..n -> [V -> V]] /\ n \in Nat
        BY <1>1, <1>2, <1>5
      <3> HIDE DEF a
      <3>2. Recurs(V, a, n, step)
        BY <3>1, Recursion
      <3> QED BY <3>2 DEF a, Recurs
    <2>2. PICK f \in [0..n -> V] : f[0] = <<>> /\ \A i \in 1..n : f[i] = step[i][f[i - 1]]
      BY <2>1
    <2>3. ASSUME NEW i \in 0..n PROVE f[i] = read(i, f[i - 1])
      <3>1. CASE i = 0
        BY <1>4, <2>2, <3>1
      <3>2. CASE i # 0
        <4>1. i \in 1..n /\ i - 1 \in 0..n
          BY <1>1, <3>2
        <4>2. f[i - 1] \in V /\ f[i] = step[i][f[i - 1]]
          BY <2>2, <4>1
        <4> QED BY <1>5, <4>2
      <3> QED BY <3>1, <3>2
    <2>4. f = [i \in 0..n |-> f[i]]
      OBVIOUS
    <2>5. Like(f)
      BY <2>3, <2>4
    <2> QED BY <2>5
  <1>7. Like(c)
    BY <1>6, Zenon
  <1>8. Meaning(s) = c
    BY DEF Meaning, read, n
  <1> HIDE DEF c
  <1>9. ASSUME NEW i \in 1..n PROVE c[i] = read(i, c[i - 1])
    <2>1. i \in 0..n
      BY <1>1
    <2> QED BY <1>7, <2>1
  <1> QED BY <1>8, <1>9 DEF n, read

(* Both look back only: the same for a text and what it begins with.       *)
LEMMA SameBeginning ==
    ASSUME NEW S, NEW s \in Seq(S), NEW u \in Seq(S), NEW n \in Nat, n <= Len(s), n <= Len(u), \A i \in 1..n : s[i] = u[i]
    PROVE  \A i \in 1..n : (i \in Escaped(s) <=> i \in Escaped(u)) /\ Meaning(s)[i] = Meaning(u)[i]
  <1> DEFINE Same(i) == (i \in Escaped(s) <=> i \in Escaped(u)) /\ Meaning(s)[i] = Meaning(u)[i]
             D == {m \in Nat : m \in 1..n => Same(m)}
  <1>1. Len(s) \in Nat /\ Len(u) \in Nat /\ \A i \in 1..n : i \in 1..Len(s) /\ i \in 1..Len(u)
    OBVIOUS
  <1> HIDE DEF Same
  <1>2. 0 \in D
    OBVIOUS
  <1>3. ASSUME NEW m \in D PROVE m + 1 \in D
    <2> SUFFICES ASSUME m + 1 \in 1..n PROVE Same(m + 1)
      OBVIOUS
    <2>1. m \in Nat /\ m + 1 \in 1..n /\ (m + 1) - 1 = m
      OBVIOUS
    <2> DEFINE k == m + 1
    <2>2. k \in 1..n /\ k - 1 = m /\ k \in Nat
      BY <2>1
    <2>3. k > 1 => m \in 1..n
      BY <2>1
    <2>4. k > 1 => Same(m)
      BY <2>3
    <2> HIDE DEF k
    <2>5. s[k] = u[k] /\ (k > 1 => s[k - 1] = u[k - 1])
      BY <2>2, <2>3
    <2>6. k \in Escaped(s) <=> k > 1 /\ s[k - 1] = Backslash /\ k - 1 \notin Escaped(s)
      BY <1>1, <2>2, EscapedIs
    <2>7. k \in Escaped(u) <=> k > 1 /\ u[k - 1] = Backslash /\ k - 1 \notin Escaped(u)
      BY <1>1, <2>2, EscapedIs
    <2>8. k \in Escaped(s) <=> k \in Escaped(u)
      BY <2>2, <2>4, <2>5, <2>6, <2>7 DEF Same
    <2>9. k \in 1..Len(s) /\ k \in 1..Len(u)
      BY <1>1, <2>2
    <2>10. Meaning(s)[k] = IF k < 2 THEN <<>>
                           ELSE IF k \in Escaped(s) THEN Append(Meaning(s)[k - 1], Unescaped(s[k]))
                           ELSE IF s[k] = Backslash THEN Meaning(s)[k - 1]
                           ELSE Append(Meaning(s)[k - 1], s[k])
      BY <2>9, MeaningIs
    <2>11. Meaning(u)[k] = IF k < 2 THEN <<>>
                           ELSE IF k \in Escaped(u) THEN Append(Meaning(u)[k - 1], Unescaped(u[k]))
                           ELSE IF u[k] = Backslash THEN Meaning(u)[k - 1]
                           ELSE Append(Meaning(u)[k - 1], u[k])
      BY <2>9, MeaningIs
    <2>12. k < 2 \/ Meaning(s)[k - 1] = Meaning(u)[k - 1]
      BY <2>2, <2>4 DEF Same
    <2>13. Meaning(s)[k] = Meaning(u)[k]
      BY <2>5, <2>8, <2>10, <2>11, <2>12
    <2> QED BY <2>8, <2>13 DEF Same, k
  <1>4. D \subseteq Nat
    OBVIOUS
  <1>5. \A m \in D : m \in 1..n => Same(m)
    OBVIOUS
  <1> HIDE DEF D
  <1>6. D = Nat
    BY <1>2, <1>3, <1>4, Climb
  <1>7. \A i \in 1..n : Same(i)
    BY <1>5, <1>6
  <1> QED BY <1>7 DEF Same

-------------------------------------------------------------------------------
(* A string, compared with the rest of the text.                           *)
LEMMA RestIs ==
    ASSUME NEW S, NEW text \in Seq(S), NEW p \in 1..Len(text), NEW w, w = SubSeq(text, p, Len(text))
    PROVE  /\ w \in Seq(S) /\ Len(w) = Len(text) - p + 1 /\ Len(w) \in Nat \ {0}
           /\ \A q \in p..Len(text) : q - p + 1 \in 1..Len(w) /\ w[q - p + 1] = text[q]
  <1>1. Len(text) \in Nat /\ p \in Nat \ {0} /\ p <= Len(text) /\ p \in 1..(Len(text) + 1) /\ Len(text) \in (p - 1)..Len(text)
    OBVIOUS
  <1>2. w \in Seq(S) /\ Len(w) = Len(text) - p + 1 /\ \A i \in 1..(Len(text) - p + 1) : w[i] = text[p + i - 1]
    BY <1>1, SliceIs
  <1>3. ASSUME NEW q \in p..Len(text) PROVE q - p + 1 \in 1..Len(w) /\ w[q - p + 1] = text[q]
    <2> DEFINE i == q - p + 1
    <2>1. i \in 1..(Len(text) - p + 1) /\ p + i - 1 = q
      BY <1>1
    <2> HIDE DEF i
    <2>2. i \in 1..Len(w) /\ w[i] = text[q]
      BY <1>2, <2>1
    <2> QED BY <2>2 DEF i
  <1> QED BY <1>1, <1>2, <1>3

QuotedUpto(w, s, n) ==
    /\ Quoted(s) <=> n > 1 /\ w[1] = Quote /\ w[n] = Quote /\ n \notin Escaped(w)
                     /\ \A i \in 2..(n - 1) : w[i] = Quote => i \in Escaped(w)
    /\ n > 1 => Value(s) = Meaning(w)[n - 1]

LEMMA QuotedSpan ==
    ASSUME NEW S, NEW text \in Seq(S), NEW p \in 1..Len(text), NEW q \in p..Len(text)
    PROVE  QuotedUpto(SubSeq(text, p, Len(text)), SubSeq(text, p, q), q - p + 1)
  <1> DEFINE w == SubSeq(text, p, Len(text))
             s == SubSeq(text, p, q)
             n == q - p + 1
  <1>1. Len(text) \in Nat /\ p \in Nat \ {0} /\ q \in Nat /\ p <= q /\ q <= Len(text) /\ p \in 1..(Len(text) + 1)
        /\ q \in (p - 1)..Len(text) /\ Len(text) \in (p - 1)..Len(text)
    OBVIOUS
  <1>2. n \in Nat \ {0} /\ n <= Len(text) - p + 1
    BY <1>1
  <1>3. w \in Seq(S) /\ Len(w) = Len(text) - p + 1 /\ \A i \in 1..(Len(text) - p + 1) : w[i] = text[p + i - 1]
    BY <1>1, SliceIs
  <1>4. s \in Seq(S) /\ Len(s) = n /\ \A i \in 1..n : s[i] = text[p + i - 1]
    BY <1>1, SliceIs
  <1> HIDE DEF w, s, n
  <1>5. n <= Len(w) /\ n <= Len(s) /\ n \in Nat
    BY <1>2, <1>3, <1>4
  <1>6. \A i \in 1..n : s[i] = w[i]
    <2> TAKE i \in 1..n
    <2>1. i \in 1..(Len(text) - p + 1)
      BY <1>1, <1>2
    <2> QED BY <1>3, <1>4, <2>1
  <1>7. \A i \in 1..n : (i \in Escaped(s) <=> i \in Escaped(w)) /\ Meaning(s)[i] = Meaning(w)[i]
    <2>1. s \in Seq(S) /\ w \in Seq(S)
      BY <1>3, <1>4
    <2> QED BY <1>5, <1>6, <2>1, SameBeginning
  <1>8. n > 1 => Value(s) = Meaning(w)[n - 1]
    <2>1. n > 1 => n - 1 \in 1..n
      BY <1>2
    <2> QED BY <1>4, <1>7, <2>1 DEF Value
  <1> DEFINE closing == {i \in 2..Len(s) : s[i] = Quote /\ i \notin Escaped(s)}
  <1>9. \A i \in 2..n : i \in closing <=> w[i] = Quote /\ i \notin Escaped(w)
    BY <1>4, <1>6, <1>7
  <1>10. closing \subseteq 2..n
    BY <1>4
  <1> HIDE DEF closing
  <1>11. n > 1 => (closing = {n} <=> w[n] = Quote /\ n \notin Escaped(w) /\ \A i \in 2..(n - 1) : w[i] = Quote => i \in Escaped(w))
    <2> SUFFICES ASSUME n > 1
                 PROVE  closing = {n} <=> w[n] = Quote /\ n \notin Escaped(w) /\ \A i \in 2..(n - 1) : w[i] = Quote => i \in Escaped(w)
      OBVIOUS
    <2>1. n \in 2..n /\ (\A i \in 2..(n - 1) : i \in 2..n /\ i # n) /\ (\A i \in 2..n : i # n => i \in 2..(n - 1))
      BY <1>2
    <2> QED BY <1>9, <1>10, <2>1
  <1>12. Quoted(s) <=> n > 1 /\ s[1] = Quote /\ closing = {n}
    BY <1>4 DEF Quoted, closing
  <1>13. s[1] = w[1]
    BY <1>2, <1>6
  <1>14. QuotedUpto(w, s, n)
    BY <1>2, <1>5, <1>8, <1>11, <1>12, <1>13 DEF QuotedUpto
  <1> QED BY <1>14 DEF w, s, n

LEMMA StringBegins ==
    ASSUME NEW S, NEW text \in Seq(S), NEW p \in 1..Len(text), text[p] = Quote
    PROVE  InString(text, p, p + 1, <<>>)
  <1> DEFINE w == SubSeq(text, p, Len(text))
  <1>1. p \in p..Len(text) /\ p - p + 1 = 1 /\ (p + 1) - p = 1 /\ p + 1 > p
    OBVIOUS
  <1>2. w \in Seq(S) /\ Len(w) \in Nat \ {0} /\ w[1] = Quote
    BY <1>1, RestIs
  <1> HIDE DEF w
  <1>3. 1 \in 1..Len(w)
    BY <1>2
  <1>4. Meaning(w)[1] = <<>>
    BY <1>2, <1>3, MeaningIs
  <1>5. \A i \in 2..1 : FALSE
    OBVIOUS
  <1>6. Quote # Backslash
    BY Apart
  <1> QED BY <1>1, <1>2, <1>4, <1>5, <1>6 DEF InString, w

LEMMA StringGoesOn ==
    ASSUME NEW S, NEW text \in Seq(S), NEW p \in 1..Len(text), NEW q \in p..Len(text), NEW b, InString(text, p, q, b)
    PROVE  /\ text[q] \notin {Quote, Backslash} => InString(text, p, q + 1, Append(b, text[q]))
           /\ text[q] = Backslash /\ q + 1 <= Len(text) => InString(text, p, q + 2, Append(b, Unescaped(text[q + 1])))
  <1> DEFINE w == SubSeq(text, p, Len(text))
             n == q - p
  <1>1. Len(text) \in Nat /\ p \in Nat \ {0} /\ q \in Nat /\ p <= q /\ q <= Len(text)
    OBVIOUS
  <1>2. w \in Seq(S) /\ Len(w) = Len(text) - p + 1 /\ Len(w) \in Nat
        /\ \A r \in p..Len(text) : r - p + 1 \in 1..Len(w) /\ w[r - p + 1] = text[r]
    BY RestIs
  <1>3. /\ q > p /\ w[1] = Quote
        /\ \A i \in 2..n : w[i] = Quote => i \in Escaped(w)
        /\ w[n] = Backslash => n \in Escaped(w)
        /\ b = Meaning(w)[n]
    BY DEF InString
  <1> HIDE DEF w
  <1>4. n \in Nat \ {0} /\ (q + 1) - p = n + 1 /\ (q + 2) - p = n + 2 /\ q - p + 1 = n + 1 /\ (q + 1) - p + 1 = n + 2
    BY <1>1, <1>3
  <1>5. n + 1 \in 1..Len(w) /\ w[n + 1] = text[q]
    BY <1>2, <1>4
  <1>6. q + 1 <= Len(text) => n + 2 \in 1..Len(w) /\ w[n + 2] = text[q + 1]
    <2>1. q + 1 <= Len(text) => q + 1 \in p..Len(text)
      BY <1>1
    <2> QED BY <1>2, <1>4, <2>1
  <1> HIDE DEF n
  <1> DEFINE m == n + 1
  <1>7. m \in Nat /\ m > 1 /\ ~(m < 2) /\ m - 1 = n /\ n + 2 = m + 1 /\ (m + 1) - 1 = m /\ m + 1 > 1 /\ ~(m + 1 < 2)
    BY <1>4
  <1>8. m \in 1..Len(w) /\ w[m] = text[q]
    BY <1>5
  <1> HIDE DEF m
  <1>9. m \notin Escaped(w)
    BY <1>2, <1>3, <1>7, <1>8, EscapedIs
  <1>10. Meaning(w)[m] = IF w[m] = Backslash THEN b ELSE Append(b, w[m])
    <2>1. Meaning(w)[m] = IF m < 2 THEN <<>>
                          ELSE IF m \in Escaped(w) THEN Append(Meaning(w)[m - 1], Unescaped(w[m]))
                          ELSE IF w[m] = Backslash THEN Meaning(w)[m - 1]
                          ELSE Append(Meaning(w)[m - 1], w[m])
      BY <1>2, <1>8, MeaningIs
    <2> QED BY <1>3, <1>7, <1>9, <2>1
  <1>11. Quote # Backslash
    BY Apart
  <1>12. ASSUME text[q] \notin {Quote, Backslash} PROVE InString(text, p, q + 1, Append(b, text[q]))
    <2>1. \A i \in 2..m : i \in 2..n \/ i = m
      BY <1>4, <1>7
    <2>2. \A i \in 2..m : w[i] = Quote => i \in Escaped(w)
      BY <1>3, <1>8, <1>12, <2>1
    <2>3. Append(b, text[q]) = Meaning(w)[m] /\ w[m] # Backslash
      BY <1>8, <1>10, <1>12
    <2>4. q + 1 > p /\ (q + 1) - p = m
      BY <1>1, <1>4 DEF m
    <2> QED BY <1>3, <2>2, <2>3, <2>4 DEF InString, w
  <1>13. ASSUME text[q] = Backslash, q + 1 <= Len(text)
         PROVE  InString(text, p, q + 2, Append(b, Unescaped(text[q + 1])))
    <2> DEFINE k == m + 1
    <2>1. k \in 1..Len(w) /\ w[k] = text[q + 1] /\ k - 1 = m /\ k > 1 /\ ~(k < 2)
      BY <1>6, <1>7, <1>13
    <2>2. \A i \in 2..k : i \in 2..n \/ i = m \/ i = k
      BY <1>4, <1>7
    <2>3. q + 2 > p /\ (q + 2) - p = k
      BY <1>1, <1>4, <1>7 
    <2> HIDE DEF k
    <2>4. k \in Escaped(w)
      BY <1>2, <1>8, <1>9, <1>13, <2>1, EscapedIs
    <2>5. \A i \in 2..k : w[i] = Quote => i \in Escaped(w)
      BY <1>3, <1>8, <1>11, <1>13, <2>2, <2>4
    <2>6. Meaning(w)[m] = b
      BY <1>8, <1>10, <1>13
    <2>7. Meaning(w)[k] = IF k < 2 THEN <<>>
                          ELSE IF k \in Escaped(w) THEN Append(Meaning(w)[k - 1], Unescaped(w[k]))
                          ELSE IF w[k] = Backslash THEN Meaning(w)[k - 1]
                          ELSE Append(Meaning(w)[k - 1], w[k])
      BY <1>2, <2>1, MeaningIs
    <2>8. Meaning(w)[k] = Append(b, Unescaped(text[q + 1]))
      BY <2>1, <2>4, <2>6, <2>7
    <2> QED BY <1>3, <2>3, <2>4, <2>5, <2>8 DEF InString, w
  <1> QED BY <1>12, <1>13

LEMMA StringEnds ==
    ASSUME NEW S, NEW text \in Seq(S), NEW p \in 1..Len(text), NEW q \in p..(Len(text) + 1), NEW b, InString(text, p, q, b)
    PROVE  /\ text[p] = Quote
           /\ q <= Len(text) /\ text[q] = Quote =>
                 Longest(text, p) = q /\ KindAndText(SubSeq(text, p, q)) = <<"string", b>>
           /\ q = Len(text) + 1 => Longest(text, p) = 0
  <1> DEFINE w == SubSeq(text, p, Len(text))
             n == q - p
  <1>1. Len(text) \in Nat /\ p \in Nat \ {0} /\ q \in Nat /\ p <= q /\ q <= Len(text) + 1
        /\ p \in p..Len(text) /\ p - p + 1 = 1
    OBVIOUS
  <1>2. w \in Seq(S) /\ Len(w) = Len(text) - p + 1 /\ Len(w) \in Nat
        /\ \A r \in p..Len(text) : r - p + 1 \in 1..Len(w) /\ w[r - p + 1] = text[r]
    BY RestIs
  <1>3. /\ q > p /\ w[1] = Quote
        /\ \A i \in 2..n : w[i] = Quote => i \in Escaped(w)
        /\ w[n] = Backslash => n \in Escaped(w)
        /\ b = Meaning(w)[n]
    BY DEF InString
  <1>4. ASSUME NEW r \in p..Len(text), NEW k, k = r - p + 1
        PROVE  /\ Quoted(SubSeq(text, p, r)) <=> k > 1 /\ w[1] = Quote /\ w[k] = Quote /\ k \notin Escaped(w)
                              /\ \A i \in 2..(k - 1) : w[i] = Quote => i \in Escaped(w)
               /\ k > 1 => Value(SubSeq(text, p, r)) = Meaning(w)[k - 1]
    <2>1. QuotedUpto(w, SubSeq(text, p, r), r - p + 1)
      BY QuotedSpan
    <2> HIDE DEF w
    <2>2. QuotedUpto(w, SubSeq(text, p, r), k)
      BY <1>4, <2>1
    <2> QED BY <2>2 DEF QuotedUpto
  <1> HIDE DEF w
  <1>6. n \in Nat \ {0} /\ q - p + 1 = n + 1 /\ (n + 1) - 1 = n
    BY <1>1, <1>3
  <1>7. text[p] = Quote
    BY <1>1, <1>2, <1>3
  <1>8. \A r \in p..Len(text) :
            /\ Lexeme(SubSeq(text, p, r)) <=> Quoted(SubSeq(text, p, r))
            /\ Quoted(SubSeq(text, p, r)) => KindAndText(SubSeq(text, p, r)) = <<"string", Value(SubSeq(text, p, r))>>
    BY <1>7, ByFirst
  <1>9. ASSUME q <= Len(text), text[q] = Quote
        PROVE  Longest(text, p) = q /\ KindAndText(SubSeq(text, p, q)) = <<"string", b>>
    <2> DEFINE k == n + 1
    <2>1. q \in p..Len(text) /\ k = q - p + 1 /\ k > 1 /\ k - 1 = n /\ k \in Nat /\ q - p + 1 > 1 /\ (q - p + 1) - 1 = n
      BY <1>1, <1>6, <1>9
    <2>2. k \in 1..Len(w) /\ w[k] = Quote
      BY <1>2, <1>9, <2>1
    <2> HIDE DEF k, n
    <2>3. k \notin Escaped(w)
      BY <1>2, <1>3, <2>1, <2>2, EscapedIs
    <2>4. Quoted(SubSeq(text, p, q))
      BY <1>3, <1>4, <2>1, <2>2, <2>3
    <2>5. Value(SubSeq(text, p, q)) = b
      BY <1>3, <1>4, <2>1
    <2>6. ASSUME NEW r \in (q + 1)..Len(text) PROVE ~Quoted(SubSeq(text, p, r))
      <3> DEFINE j == r - p + 1
      <3>1. r \in p..Len(text) /\ k \in 2..(j - 1)
        BY <1>1, <2>1
      <3> QED BY <1>4, <2>2, <2>3, <3>1
    <2>7. \A r \in (q + 1)..Len(text) : r \in p..Len(text)
      BY <1>1
    <2>8. \A r \in (q + 1)..Len(text) : ~Lexeme(SubSeq(text, p, r))
      BY <1>8, <2>6, <2>7
    <2>9. Longest(text, p) = q
      BY <1>8, <2>1, <2>4, <2>8, LongestEnds
    <2> QED BY <1>8, <2>1, <2>4, <2>5, <2>9
  <1>10. ASSUME q = Len(text) + 1 PROVE Longest(text, p) = 0
    <2>1. ASSUME NEW r \in p..Len(text) PROVE ~Quoted(SubSeq(text, p, r))
      <3> DEFINE j == r - p + 1
      <3> SUFFICES ASSUME Quoted(SubSeq(text, p, r)) PROVE FALSE
        OBVIOUS
      <3>1. j > 1 /\ w[j] = Quote /\ j \notin Escaped(w)
        BY <1>4
      <3>2. j \in 2..n
        BY <1>1, <1>10, <3>1
      <3> HIDE DEF j, n
      <3> QED BY <1>3, <3>1, <3>2
    <2>2. \A r \in p..Len(text) : ~Lexeme(SubSeq(text, p, r))
      BY <1>8, <2>1
    <2> QED BY <2>2, LongestNone
  <1> QED BY <1>7, <1>9, <1>10

-------------------------------------------------------------------------------
(* A character between ticks.                                              *)
LEMMA TickedSpan ==
    ASSUME NEW S, NEW text \in Seq(S), NEW p \in 1..Len(text), NEW q \in p..Len(text), text[p] = Tick
    PROVE  /\ Ticked(SubSeq(text, p, q)) <=>
                 \/ q = p + 2 /\ text[p + 1] # Backslash /\ text[p + 2] = Tick
                 \/ q = p + 3 /\ text[p + 1] = Backslash /\ text[p + 3] = Tick
           /\ q = p + 2 /\ text[p + 1] # Backslash => Value(SubSeq(text, p, q)) = <<text[p + 1]>>
           /\ q = p + 3 /\ text[p + 1] = Backslash => Value(SubSeq(text, p, q)) = <<Unescaped(text[p + 2])>>
  <1> DEFINE s == SubSeq(text, p, q)
             n == q - p + 1
  <1>1. Len(text) \in Nat /\ p \in Nat \ {0} /\ q \in Nat /\ p <= q /\ q <= Len(text)
        /\ p \in 1..(Len(text) + 1) /\ q \in (p - 1)..Len(text) /\ n \in Nat \ {0}
        /\ (n = 3 <=> q = p + 2) /\ (n = 4 <=> q = p + 3)
        /\ p + 1 - 1 = p /\ p + 2 - 1 = p + 1 /\ p + 3 - 1 = p + 2 /\ p + 4 - 1 = p + 3
    OBVIOUS
  <1>2. s \in Seq(S) /\ Len(s) = n /\ \A i \in 1..n : s[i] = text[p + i - 1]
    BY <1>1, SliceIs
  <1> HIDE DEF s, n
  <1>3. s[1] = text[p]
    <2>1. 1 \in 1..n
      BY <1>1
    <2> QED BY <1>1, <1>2, <2>1
  <1>4. n >= 3 => s[2] = text[p + 1] /\ s[3] = text[p + 2]
    <2>1. n >= 3 => 2 \in 1..n /\ 3 \in 1..n
      BY <1>1
    <2> QED BY <1>1, <1>2, <2>1
  <1>5. n = 4 => s[4] = text[p + 3]
    <2>1. n = 4 => 4 \in 1..n
      BY <1>1
    <2> QED BY <1>1, <1>2, <2>1
  <1>6. Ticked(s) <=>
            \/ q = p + 2 /\ text[p + 1] # Backslash /\ text[p + 2] = Tick
            \/ q = p + 3 /\ text[p + 1] = Backslash /\ text[p + 3] = Tick
    BY <1>1, <1>2, <1>3, <1>4, <1>5 DEF Ticked
  <1>7. n >= 3 => 2 \notin Escaped(s) /\ (3 \in Escaped(s) <=> s[2] = Backslash)
    <2> SUFFICES ASSUME n >= 3 PROVE 2 \notin Escaped(s) /\ (3 \in Escaped(s) <=> s[2] = Backslash)
      OBVIOUS
    <2>1. 2 \in 1..Len(s) /\ 3 \in 1..Len(s) /\ 2 > 1 /\ 3 > 1 /\ 2 - 1 = 1 /\ 3 - 1 = 2
      BY <1>1, <1>2
    <2>2. 2 \in Escaped(s) <=> 2 > 1 /\ s[2 - 1] = Backslash /\ 2 - 1 \notin Escaped(s)
      BY <1>2, <2>1, EscapedIs
    <2>3. 3 \in Escaped(s) <=> 3 > 1 /\ s[3 - 1] = Backslash /\ 3 - 1 \notin Escaped(s)
      BY <1>2, <2>1, EscapedIs
    <2>4. s[1] # Backslash
      BY <1>3, Apart
    <2> QED BY <2>1, <2>2, <2>3, <2>4
  <1>8. n >= 3 => /\ Meaning(s)[1] = <<>>
                  /\ Meaning(s)[2] = IF s[2] = Backslash THEN <<>> ELSE <<s[2]>>
                  /\ s[2] = Backslash => Meaning(s)[3] = <<Unescaped(s[3])>>
    <2> SUFFICES ASSUME n >= 3
                 PROVE  /\ Meaning(s)[1] = <<>>
                        /\ Meaning(s)[2] = IF s[2] = Backslash THEN <<>> ELSE <<s[2]>>
                        /\ s[2] = Backslash => Meaning(s)[3] = <<Unescaped(s[3])>>
      OBVIOUS
    <2>1. 1 \in 1..Len(s) /\ 2 \in 1..Len(s) /\ 3 \in 1..Len(s) /\ 1 < 2 /\ ~(2 < 2) /\ ~(3 < 2) /\ 2 - 1 = 1 /\ 3 - 1 = 2
      BY <1>1, <1>2
    <2>2. \A x : Append(<<>>, x) = <<x>>
      OBVIOUS
    <2>3. Meaning(s)[1] = IF 1 < 2 THEN <<>>
                          ELSE IF 1 \in Escaped(s) THEN Append(Meaning(s)[1 - 1], Unescaped(s[1]))
                          ELSE IF s[1] = Backslash THEN Meaning(s)[1 - 1]
                          ELSE Append(Meaning(s)[1 - 1], s[1])
      BY <1>2, <2>1, MeaningIs
    <2>4. Meaning(s)[2] = IF 2 < 2 THEN <<>>
                          ELSE IF 2 \in Escaped(s) THEN Append(Meaning(s)[2 - 1], Unescaped(s[2]))
                          ELSE IF s[2] = Backslash THEN Meaning(s)[2 - 1]
                          ELSE Append(Meaning(s)[2 - 1], s[2])
      BY <1>2, <2>1, MeaningIs
    <2>5. Meaning(s)[3] = IF 3 < 2 THEN <<>>
                          ELSE IF 3 \in Escaped(s) THEN Append(Meaning(s)[3 - 1], Unescaped(s[3]))
                          ELSE IF s[3] = Backslash THEN Meaning(s)[3 - 1]
                          ELSE Append(Meaning(s)[3 - 1], s[3])
      BY <1>2, <2>1, MeaningIs
    <2>6. Meaning(s)[1] = <<>>
      BY <2>1, <2>3
    <2>7. Meaning(s)[2] = IF s[2] = Backslash THEN <<>> ELSE <<s[2]>>
      BY <1>7, <2>1, <2>2, <2>4, <2>6
    <2>8. s[2] = Backslash => Meaning(s)[3] = <<Unescaped(s[3])>>
      <3> DEFINE u == Unescaped(s[3])
      <3> HIDE DEF u
      <3>1. s[2] = Backslash => Meaning(s)[3] = Append(<<>>, u)
        BY <1>7, <2>1, <2>5, <2>7 DEF u
      <3>2. s[2] = Backslash => Meaning(s)[3] = <<u>>
        BY <2>2, <3>1
      <3> QED BY <3>2 DEF u
    <2> QED BY <2>6, <2>7, <2>8
  <1>9. q = p + 2 /\ text[p + 1] # Backslash => Value(s) = <<text[p + 1]>>
    <2>1. q = p + 2 => n = 3 /\ n >= 3 /\ Len(s) - 1 = 2
      BY <1>1, <1>2
    <2> QED BY <1>4, <1>8, <2>1 DEF Value
  <1>10. q = p + 3 /\ text[p + 1] = Backslash => Value(s) = <<Unescaped(text[p + 2])>>
    <2>1. q = p + 3 => n = 4 /\ n >= 3 /\ Len(s) - 1 = 3
      BY <1>1, <1>2
    <2> QED BY <1>4, <1>8, <2>1 DEF Value
  <1> QED BY <1>6, <1>9, <1>10 DEF s

LEMMA TickEnds ==
    ASSUME NEW S, NEW text \in Seq(S), NEW p \in 1..Len(text), text[p] = Tick
    PROVE  /\ p + 2 <= Len(text) /\ text[p + 1] # Backslash /\ text[p + 2] = Tick =>
                 /\ Longest(text, p) = p + 2
                 /\ KindAndText(SubSeq(text, p, p + 2)) = <<"char", <<text[p + 1]>>>>
           /\ p + 3 <= Len(text) /\ text[p + 1] = Backslash /\ text[p + 3] = Tick =>
                 /\ Longest(text, p) = p + 3
                 /\ KindAndText(SubSeq(text, p, p + 3)) = <<"char", <<Unescaped(text[p + 2])>>>>
           /\ /\ ~(p + 2 <= Len(text) /\ text[p + 1] # Backslash /\ text[p + 2] = Tick)
              /\ ~(p + 3 <= Len(text) /\ text[p + 1] = Backslash /\ text[p + 3] = Tick)
              => Longest(text, p) = 0
  <1>1. Len(text) \in Nat /\ p \in Nat \ {0}
    OBVIOUS
  <1>2. \A r \in p..Len(text) :
            /\ Lexeme(SubSeq(text, p, r)) <=> Ticked(SubSeq(text, p, r))
            /\ Ticked(SubSeq(text, p, r)) => KindAndText(SubSeq(text, p, r)) = <<"char", Value(SubSeq(text, p, r))>>
    BY ByFirst
  <1>3. \A r \in p..Len(text) : Ticked(SubSeq(text, p, r)) <=>
            \/ r = p + 2 /\ text[p + 1] # Backslash /\ text[p + 2] = Tick
            \/ r = p + 3 /\ text[p + 1] = Backslash /\ text[p + 3] = Tick
    BY TickedSpan
  <1>4. ASSUME NEW q \in p..Len(text), Ticked(SubSeq(text, p, q)), \A r \in p..Len(text) : Ticked(SubSeq(text, p, r)) => r = q
        PROVE  Longest(text, p) = q
    <2>1. \A r \in (q + 1)..Len(text) : r \in p..Len(text) /\ r # q
      BY <1>1
    <2>2. \A r \in (q + 1)..Len(text) : ~Lexeme(SubSeq(text, p, r))
      BY <1>2, <1>4, <2>1
    <2> QED BY <1>2, <1>4, <2>2, LongestEnds
  <1>5. ASSUME p + 2 <= Len(text), text[p + 1] # Backslash, text[p + 2] = Tick
        PROVE  /\ Longest(text, p) = p + 2
               /\ KindAndText(SubSeq(text, p, p + 2)) = <<"char", <<text[p + 1]>>>>
    <2> DEFINE q == p + 2
    <2>1. q \in p..Len(text)
      BY <1>1, <1>5
    <2>2. Value(SubSeq(text, p, q)) = <<text[p + 1]>>
      BY <1>5, <2>1, TickedSpan
    <2>3. Ticked(SubSeq(text, p, q)) /\ \A r \in p..Len(text) : Ticked(SubSeq(text, p, r)) => r = q
      BY <1>3, <1>5, <2>1
    <2> HIDE DEF q
    <2>4. Longest(text, p) = q /\ KindAndText(SubSeq(text, p, q)) = <<"char", <<text[p + 1]>>>>
      BY <1>2, <1>4, <2>1, <2>2, <2>3
    <2> QED BY <2>4 DEF q
  <1>6. ASSUME p + 3 <= Len(text), text[p + 1] = Backslash, text[p + 3] = Tick
        PROVE  /\ Longest(text, p) = p + 3
               /\ KindAndText(SubSeq(text, p, p + 3)) = <<"char", <<Unescaped(text[p + 2])>>>>
    <2> DEFINE q == p + 3
    <2>1. q \in p..Len(text)
      BY <1>1, <1>6
    <2>2. Value(SubSeq(text, p, q)) = <<Unescaped(text[p + 2])>>
      BY <1>6, <2>1, TickedSpan
    <2>3. Ticked(SubSeq(text, p, q)) /\ \A r \in p..Len(text) : Ticked(SubSeq(text, p, r)) => r = q
      BY <1>3, <1>6, <2>1
    <2> HIDE DEF q
    <2>4. Longest(text, p) = q /\ KindAndText(SubSeq(text, p, q)) = <<"char", <<Unescaped(text[p + 2])>>>>
      BY <1>2, <1>4, <2>1, <2>2, <2>3
    <2> QED BY <2>4 DEF q
  <1>7. ASSUME ~(p + 2 <= Len(text) /\ text[p + 1] # Backslash /\ text[p + 2] = Tick),
               ~(p + 3 <= Len(text) /\ text[p + 1] = Backslash /\ text[p + 3] = Tick)
        PROVE  Longest(text, p) = 0
    <2>1. \A r \in p..Len(text) : ~Ticked(SubSeq(text, p, r))
      BY <1>1, <1>3, <1>7
    <2> QED BY <1>2, <2>1, LongestNone
  <1> QED BY <1>5, <1>6, <1>7

-------------------------------------------------------------------------------
(* What the lexer sees, as long as it is in the source.                    *)
LEMMA Here ==
    ASSUME PInv, pos <= Len(source) + 1
    PROVE  /\ source \in Seq(ToSet(source)) /\ out \in Seq(ToSet(out)) /\ Len(source) \in Nat
           /\ pos \in 1..(Len(source) + 1) /\ start.pos \in 1..pos /\ at = Place(source, pos)
           /\ Peek # NUL => pos \in 1..Len(source)
           /\ pos <= Len(source) => Peek = source[pos] /\ Peek # NUL
           /\ pos = Len(source) + 1 => Peek = NUL
  <1>1. source \in Seq(ToSet(source))
    BY AlphabetAssumption DEF PInv, IInv, Shape
  <1>2. Shape /\ out \in Seq(ToSet(out)) /\ pos \in Nat \ {0} /\ start.pos \in 1..pos
    BY PosFacts DEF PInv, IInv, Shape
  <1>3. /\ Len(source) \in Nat
        /\ Char(Len(source) + 1) = NUL
        /\ \A p \in 1..Len(source) : Char(p) = source[p] /\ Char(p) # NUL
    BY <1>2, CharFacts
  <1>4. pos \in 1..(Len(source) + 1) /\ (pos <= Len(source) => pos \in 1..Len(source))
        /\ (pos <= Len(source) \/ pos = Len(source) + 1)
    BY <1>2, <1>3
  <1>5. at = Place(source, pos)
    BY DEF PInv, PlaceKnown
  <1>6. (pos <= Len(source) => Peek = source[pos] /\ Peek # NUL) /\ (pos = Len(source) + 1 => Peek = NUL)
    BY <1>3, <1>4 DEF Peek
  <1> QED BY <1>1, <1>2, <1>3, <1>4, <1>5, <1>6

LEMMA CharAt ==
    ASSUME PInv, pos <= Len(source) + 1, NEW p \in 1..(Len(source) + 1)
    PROVE  Char(p) = IF p <= Len(source) THEN source[p] ELSE NUL
  <1>1. Shape
    BY DEF PInv, IInv
  <1>2. /\ Len(source) \in Nat
        /\ Char(Len(source) + 1) = NUL
        /\ \A i \in 1..Len(source) : Char(i) = source[i]
    BY <1>1, CharFacts
  <1>3. p \in 1..Len(source) \/ p = Len(source) + 1
    BY <1>2
  <1> QED BY <1>2, <1>3

LEMMA LexemeBetween ==
    ASSUME PInv, pos <= Len(source) + 1, NEW p \in 1..Len(source), NEW q \in p..(Len(source) + 1)
    PROVE  Between(p, q) = SubSeq(source, p, q - 1)
  <1>1. source \in Seq(ToSet(source)) /\ Len(source) \in Nat
    BY Here
  <1>2. p \in 1..(Len(source) + 1) /\ q - 1 \in (p - 1)..Len(source) /\ (q - 1) - p + 1 = q - p
    BY <1>1
  <1> DEFINE s == SubSeq(source, p, q - 1)
  <1>3. s \in Seq(ToSet(source)) /\ Len(s) = q - p /\ \A i \in 1..(q - p) : s[i] = source[p + i - 1]
    BY <1>1, <1>2, SliceIs
  <1> HIDE DEF s
  <1>4. \A i \in 1..(q - p) : Char(p + i - 1) = source[p + i - 1]
    <2> TAKE i \in 1..(q - p)
    <2>1. p + i - 1 \in 1..(Len(source) + 1) /\ p + i - 1 <= Len(source)
      BY <1>1
    <2> QED BY <2>1, CharAt
  <1>5. s = [i \in 1..(q - p) |-> s[i]]
    BY <1>3
  <1>6. Between(p, q) = [i \in 1..(q - p) |-> Char(p + i - 1)]
    BY DEF Between
  <1>7. Between(p, q) = s
    BY <1>3, <1>4, <1>5, <1>6
  <1> QED BY <1>7 DEF s

(* What to show of a step: behind the terminator nothing is said.          *)
LEMMA ToShow ==
    ASSUME PInv, UNCHANGED Memory, pos' \in Nat, pos' >= pos,
           pos <= Len(source) + 1 /\ pos' <= Len(source) + 1 => SoFar(source, out', mode', pos', start', buf')
    PROVE  LexedSoFar'
  <1>1. source' = source /\ Len(source) \in Nat /\ pos \in Nat
    BY PlacesAhead DEF Memory
  <1>2. pos' <= Len(source) + 1 => SoFar(source, out', mode', pos', start', buf')
    BY <1>1
  <1>3. LexedSoFar' <=> (pos' <= Len(source') + 1 => SoFar(source', out', mode', pos', start', buf'))
    BY DEF LexedSoFar
  <1> QED BY <1>1, <1>2, <1>3

(* The lexeme from p to q has become a token.                              *)
LEMMA TokenMade ==
    ASSUME PInv, pos <= Len(source) + 1, NEW p \in 1..Len(source), NEW q \in p..Len(source),
           Goes(source, out, p), source[p] \notin Blanks \cup {Hash}, Longest(source, p) = q,
           NEW kind, NEW text, KindAndText(SubSeq(source, p, q)) = <<kind, text>>, NEW place, place = Place(source, p),
           NEW st, NEW b
    PROVE  SoFar(source, Append(out, [kind |-> kind, text |-> text, line |-> place.line, col |-> place.col]), "top", q + 1, st, b)
  <1>1. source \in Seq(ToSet(source)) /\ out \in Seq(ToSet(out))
    BY Here
  <1> DEFINE e == [kind |-> kind, text |-> text, line |-> place.line, col |-> place.col]
  <1>2. e = TokenAt(source, p, KindAndText(SubSeq(source, p, q)))
    BY DEF TokenAt
  <1> HIDE DEF e
  <1>3. Goes(source, Append(out, e), q + 1)
    BY <1>1, <1>2, GoesToken
  <1>4. SoFar(source, Append(out, e), "top", q + 1, st, b)
    BY <1>3 DEF SoFar
  <1> QED BY <1>4 DEF e

LEMMA NoToken ==
    ASSUME PInv, pos <= Len(source) + 1, NEW p \in 1..Len(source),
           Goes(source, out, p), source[p] \notin Blanks \cup {Hash}, Longest(source, p) = 0,
           NEW st, st.pos = p, st.at = Place(source, p), NEW q, NEW b
    PROVE  SoFar(source, out, "fatal", q, st, b)
  <1>1. source \in Seq(ToSet(source))
    BY Here
  <1>2. Tokens(source)[1].stuck = p
    BY <1>1, GoesStuck
  <1> QED BY <1>2 DEF SoFar

LEMMA LexedInit == Init => LexedSoFar
  <1> SUFFICES ASSUME Init PROVE LexedSoFar
    OBVIOUS
  <1>1. source \in Seq(ToSet(source))
    BY AlphabetAssumption DEF Init
  <1>2. Goes(source, <<>>, 1)
    BY <1>1, GoesStart
  <1>3. SoFar(source, <<>>, "top", 1, start, buf)
    BY <1>2 DEF SoFar
  <1> QED BY <1>3 DEF Init, LexedSoFar

LEMMA LexedSkipBlank == PInv /\ LexedSoFar /\ SkipBlank => LexedSoFar'
  <1> SUFFICES ASSUME PInv, LexedSoFar, SkipBlank PROVE LexedSoFar'
    OBVIOUS
  <1>1. mode = "top" /\ Peek \in Blanks /\ pos' = pos + 1 /\ UNCHANGED <<Memory, start, buf, mode, out>>
    BY DEF SkipBlank, Advance
  <1>2. pos' \in Nat /\ pos' >= pos
    BY <1>1, PlacesAhead
  <1>3. ASSUME pos <= Len(source) + 1 PROVE SoFar(source, out, "top", pos + 1, start, buf)
    <2>1. source \in Seq(ToSet(source)) /\ pos \in 1..Len(source) /\ source[pos] = Peek
      BY <1>1, <1>3, Here, Apart
    <2>2. Goes(source, out, pos)
      BY <1>1, <1>3 DEF LexedSoFar, SoFar
    <2>3. Tokens(source)[pos] = Tokens(source)[pos + 1]
      BY <1>1, <2>1, FromWithin
    <2>4. Goes(source, out, pos + 1)
      BY <2>2, <2>3 DEF Goes
    <2> QED BY <2>4 DEF SoFar
  <1> QED BY <1>1, <1>2, <1>3, ToShow

LEMMA LexedSkipComment == PInv /\ LexedSoFar /\ SkipComment => LexedSoFar'
  <1> SUFFICES ASSUME PInv, LexedSoFar, SkipComment PROVE LexedSoFar'
    OBVIOUS
  <1>1. UNCHANGED <<Memory, start, buf, out>> /\ mode \in {"top", "comment"} /\ (mode = "top" => Peek = Hash)
    BY DEF SkipComment
  <1>2. \/ Peek \notin {Newline, NUL} /\ pos' = pos + 1 /\ mode' = "comment"
        \/ Peek \in {Newline, NUL} /\ pos' = pos /\ mode' = "top"
    BY DEF SkipComment, Advance
  <1>3. pos' \in Nat /\ pos' >= pos
    BY <1>2, PlacesAhead
  <1>4. ASSUME pos <= Len(source) + 1 PROVE SoFar(source, out, mode', pos', start, buf)
    <2>1. source \in Seq(ToSet(source)) /\ pos \in 1..(Len(source) + 1) /\ Len(source) \in Nat
      BY <1>4, Here
    <2>2. Peek # NUL => pos \in 1..Len(source) /\ source[pos] = Peek
      BY <1>4, Here
    <2>3. Goes(source, out, EndOfLine(source, pos))
      <3>1. CASE mode = "comment"
        BY <1>4, <3>1 DEF LexedSoFar, SoFar
      <3>2. CASE mode = "top"
        <4>1. Goes(source, out, pos) /\ Peek = Hash
          BY <1>1, <1>4, <3>2 DEF LexedSoFar, SoFar
        <4>2. pos \in 1..Len(source) /\ source[pos] = Hash
          BY <2>2, <4>1, Apart
        <4>3. Tokens(source)[pos] = Tokens(source)[EndOfLine(source, pos)]
          BY <2>1, <4>2, FromWithin
        <4> QED BY <4>1, <4>3 DEF Goes
      <3> QED BY <1>1, <3>1, <3>2
    <2>4. CASE Peek \notin {Newline, NUL} /\ pos' = pos + 1 /\ mode' = "comment"
      <3>1. pos \in 1..Len(source) /\ source[pos] # Newline
        BY <2>2, <2>4
      <3>2. EndOfLine(source, pos) = EndOfLine(source, pos + 1)
        BY <2>1, <3>1, LineGoesOn
      <3>3. Goes(source, out, EndOfLine(source, pos + 1))
        BY <2>3, <3>2
      <3> QED BY <2>4, <3>3 DEF SoFar
    <2>5. CASE Peek \in {Newline, NUL} /\ pos' = pos /\ mode' = "top"
      <3>1. pos = Len(source) + 1 \/ source[pos] = Newline
        <4>1. pos <= Len(source) => Peek = source[pos] /\ Peek # NUL
          BY <1>4, Here
        <4> QED BY <2>1, <2>5, <4>1
      <3>2. EndOfLine(source, pos) = pos
        BY <2>1, <3>1, LineEndsHere
      <3>3. Goes(source, out, pos)
        BY <2>3, <3>2
      <3> QED BY <2>5, <3>3 DEF SoFar
    <2> QED BY <1>2, <2>4, <2>5
  <1> QED BY <1>1, <1>3, <1>4, ToShow

LEMMA LexedBeginNumber == PInv /\ LexedSoFar /\ BeginNumber => LexedSoFar'
  <1> SUFFICES ASSUME PInv, LexedSoFar, BeginNumber PROVE LexedSoFar'
    OBVIOUS
  <1>1. mode = "top" /\ Peek \in Digits /\ mode' = "digits" /\ UNCHANGED <<Memory, pos, at, buf, out>>
        /\ start' = [pos |-> pos, at |-> at]
    BY DEF BeginNumber, Begin
  <1>2. pos' \in Nat /\ pos' >= pos
    BY <1>1, PlacesAhead
  <1>3. ASSUME pos <= Len(source) + 1, NEW st, st = [pos |-> pos, at |-> at] PROVE SoFar(source, out, "digits", pos, st, buf)
    <2>1. pos \in 1..Len(source) /\ source[pos] = Peek /\ at = Place(source, pos)
      BY <1>1, <1>3, Here, Apart
    <2>2. Goes(source, out, pos)
      BY <1>1, <1>3 DEF LexedSoFar, SoFar
    <2>3. st.pos = pos /\ st.at = at
      BY <1>3
    <2>4. InDigits(source, pos, pos)
      <3>1. \A i \in pos..(pos - 1) : FALSE
        BY <2>1
      <3> QED BY <1>1, <2>1, <3>1 DEF InDigits
    <2> QED BY <2>1, <2>2, <2>3, <2>4 DEF SoFar, Began
  <1> QED BY <1>1, <1>2, <1>3, ToShow

LEMMA LexedNumberChar == PInv /\ LexedSoFar /\ NumberChar => LexedSoFar'
  <1> SUFFICES ASSUME PInv, LexedSoFar, NumberChar PROVE LexedSoFar'
    OBVIOUS
  <1>1. mode \in {"digits", "fraction"} /\ pos' = pos + 1 /\ UNCHANGED <<Memory, start, buf, out>>
        /\ \/ Peek \in Digits /\ mode' = mode
           \/ mode = "digits" /\ Peek = Point /\ Peek2 \in Digits /\ mode' = "fraction"
    BY DEF NumberChar, AtPoint, Advance
  <1>2. pos' \in Nat /\ pos' >= pos
    BY <1>1, PlacesAhead
  <1>3. ASSUME pos <= Len(source) + 1 PROVE SoFar(source, out, mode', pos + 1, start, buf)
    <2>1. pos \in 1..Len(source) /\ source[pos] = Peek /\ Len(source) \in Nat /\ Peek # NUL
      BY <1>1, <1>3, Here, Apart
    <2>2. Began(source, out, start) /\ (mode = "digits" => InDigits(source, start.pos, pos))
          /\ (mode = "fraction" => InFraction(source, start.pos, pos))
      BY <1>1, <1>3 DEF LexedSoFar, SoFar
    <2> DEFINE p == start.pos
    <2>3. p \in 1..pos
      BY <1>3, Here
    <2> HIDE DEF p
    <2>4. p \in Nat /\ pos \in Nat /\ p <= pos /\ (pos + 1) - 1 = pos /\ \A i \in p..pos : i \in p..(pos - 1) \/ i = pos
      BY <2>1, <2>3
    <2>5. CASE Peek \in Digits /\ mode' = mode /\ mode = "digits"
      <3>1. InDigits(source, p, pos + 1)
        BY <2>1, <2>2, <2>4, <2>5 DEF InDigits, p
      <3> QED BY <2>2, <2>5, <3>1 DEF SoFar, p
    <2>6. CASE Peek \in Digits /\ mode' = mode /\ mode = "fraction"
      <3>1. PICK k \in (p + 1)..(pos - 1) :
                /\ source[k] = Point /\ k + 1 \in 1..Len(source) /\ source[k + 1] \in Digits
                /\ \A i \in p..(pos - 1) : i # k => source[i] \in Digits
        BY <2>2, <2>6 DEF InFraction, p
      <3>2. k \in (p + 1)..((pos + 1) - 1)
        BY <2>4
      <3>3. \A i \in p..((pos + 1) - 1) : i # k => source[i] \in Digits
        BY <2>1, <2>4, <2>6, <3>1
      <3>4. InFraction(source, p, pos + 1)
        BY <3>1, <3>2, <3>3 DEF InFraction
      <3> QED BY <2>2, <2>6, <3>4 DEF SoFar, p
    <2>7. CASE mode = "digits" /\ Peek = Point /\ Peek2 \in Digits /\ mode' = "fraction"
      <3>1. source[p] \in Digits /\ \A i \in p..(pos - 1) : source[i] \in Digits
        BY <2>2, <2>7 DEF InDigits, p
      <3>2. p # pos
        BY <2>1, <2>7, <3>1, Apart
      <3>3. Char(pos + 1) \in Digits
        BY <2>1, <2>7 DEF Peek2
      <3>4. pos + 1 \in 1..Len(source) /\ source[pos + 1] \in Digits
        <4>1. pos + 1 \in 1..(Len(source) + 1)
          BY <2>1
        <4>2. Char(pos + 1) = IF pos + 1 <= Len(source) THEN source[pos + 1] ELSE NUL
          BY <1>3, <4>1, CharAt
        <4> QED BY <2>1, <3>3, <4>2, Apart
      <3>5. pos \in (p + 1)..((pos + 1) - 1)
        BY <2>4, <3>2
      <3>6. \A i \in p..((pos + 1) - 1) : i # pos => source[i] \in Digits
        BY <2>4, <3>1
      <3>7. InFraction(source, p, pos + 1)
        BY <2>1, <2>7, <3>4, <3>5, <3>6 DEF InFraction
      <3> QED BY <2>2, <2>7, <3>7 DEF SoFar, p
    <2> QED BY <1>1, <2>5, <2>6, <2>7
  <1> QED BY <1>1, <1>2, <1>3, ToShow

LEMMA LexedEndNumber == PInv /\ LexedSoFar /\ EndNumber => LexedSoFar'
  <1> SUFFICES ASSUME PInv, LexedSoFar, EndNumber PROVE LexedSoFar'
    OBVIOUS
  <1> DEFINE number == Between(start.pos, pos)
             made(kind) == Append(out, [kind |-> kind, text |-> number, line |-> start.at.line, col |-> start.at.col])
  <1>1. mode \in {"digits", "fraction"} /\ mode' = "top" /\ UNCHANGED <<Memory, start, buf>>
        /\ Peek \notin Digits /\ ~(mode = "digits" /\ Peek = Point /\ Peek2 \in Digits)
    BY DEF EndNumber, AtPoint, Emit
  <1>2. \/ Peek = "d" /\ pos' = pos + 1 /\ out' = made("double")
        \/ Peek = "f" /\ pos' = pos + 1 /\ out' = made("float")
        \/ Peek \notin {"d", "f"} /\ pos' = pos /\ out' = made(IF mode = "fraction" THEN "float" ELSE "int")
    BY DEF EndNumber, Advance, Emit, Token
  <1> HIDE DEF made
  <1>3. pos' \in Nat /\ pos' >= pos
    BY <1>2, PlacesAhead
  <1>4. ASSUME pos <= Len(source) + 1 PROVE SoFar(source, out', "top", pos', start, buf)
    <2> DEFINE p == start.pos
    <2>1. source \in Seq(ToSet(source)) /\ pos \in 1..(Len(source) + 1) /\ Len(source) \in Nat /\ p \in 1..pos
          /\ (pos <= Len(source) => Peek = source[pos] /\ Peek # NUL) /\ (pos = Len(source) + 1 => Peek = NUL)
      BY <1>4, Here
    <2>2. Began(source, out, start) /\ (mode = "digits" => InDigits(source, p, pos))
          /\ (mode = "fraction" => InFraction(source, p, pos))
      BY <1>1, <1>4 DEF LexedSoFar, SoFar
    <2>3. p \in 1..Len(source) /\ start.at = Place(source, p) /\ Goes(source, out, p)
      BY <2>2 DEF Began
    <2> HIDE DEF p
    <2>4. pos \in p..(Len(source) + 1) /\ pos \in Nat
      BY <2>1, <2>3
    <2>5. pos + 1 <= Len(source) /\ source[pos] = Point /\ source[pos + 1] \in Digits => Peek = Point /\ Peek2 \in Digits
      <3>1. pos + 1 <= Len(source) => pos <= Len(source) /\ pos + 1 \in 1..(Len(source) + 1)
        BY <2>1
      <3>2. pos + 1 <= Len(source) => Char(pos + 1) = source[pos + 1]
        BY <1>4, <3>1, CharAt
      <3> QED BY <2>1, <3>1, <3>2 DEF Peek2
    <2>6. NumberOver(source, p, pos)
      BY <1>1, <2>1, <2>2, <2>5 DEF NumberOver
    <2>7. pos - 1 \in p..Len(source)
      BY <2>1, <2>3, <2>4, <2>6, NumberSeen
    <2>8. /\ source[p] \in Digits
          /\ pos <= Len(source) /\ source[pos] = "d" =>
                Longest(source, p) = pos /\ KindAndText(SubSeq(source, p, pos)) = <<"double", SubSeq(source, p, pos - 1)>>
          /\ pos <= Len(source) /\ source[pos] = "f" =>
                Longest(source, p) = pos /\ KindAndText(SubSeq(source, p, pos)) = <<"float", SubSeq(source, p, pos - 1)>>
          /\ (pos <= Len(source) => source[pos] \notin {"d", "f"}) =>
                /\ Longest(source, p) = pos - 1
                /\ InDigits(source, p, pos) => KindAndText(SubSeq(source, p, pos - 1)) = <<"int", SubSeq(source, p, pos - 1)>>
                /\ InFraction(source, p, pos) => KindAndText(SubSeq(source, p, pos - 1)) = <<"float", SubSeq(source, p, pos - 1)>>
      BY <2>1, <2>3, <2>4, <2>6, NumberEnds
    <2>9. number = SubSeq(source, p, pos - 1)
      BY <1>4, <2>3, <2>4, LexemeBetween DEF p
    <2>10. source[p] \notin Blanks \cup {Hash}
      BY <2>8, Apart
    <2> HIDE DEF number
    <2>11. ASSUME NEW x \in {"d", "f"}, Peek = x PROVE pos \in p..Len(source) /\ source[pos] = x
      <3>1. Peek # NUL
        BY <2>11, Apart
      <3> QED BY <2>1, <2>4, <2>11, <3>1
    <2>12. CASE Peek = "d" /\ pos' = pos + 1 /\ out' = made("double")
      <3>1. pos \in p..Len(source) /\ source[pos] = "d" /\ pos <= Len(source)
        BY <2>11, <2>12, <2>4
      <3>2. Longest(source, p) = pos /\ KindAndText(SubSeq(source, p, pos)) = <<"double", number>>
        BY <2>8, <2>9, <3>1
      <3> QED BY <1>4, <2>3, <2>10, <2>12, <3>1, <3>2, TokenMade DEF made
    <2>13. CASE Peek = "f" /\ pos' = pos + 1 /\ out' = made("float")
      <3>1. pos \in p..Len(source) /\ source[pos] = "f" /\ pos <= Len(source)
        BY <2>11, <2>13, <2>4
      <3>2. Longest(source, p) = pos /\ KindAndText(SubSeq(source, p, pos)) = <<"float", number>>
        BY <2>8, <2>9, <3>1
      <3> QED BY <1>4, <2>3, <2>10, <2>13, <3>1, <3>2, TokenMade DEF made
    <2>14. CASE Peek \notin {"d", "f"} /\ pos' = pos /\ out' = made(IF mode = "fraction" THEN "float" ELSE "int")
      <3> DEFINE kind == IF mode = "fraction" THEN "float" ELSE "int"
                 q == pos - 1
      <3>1. pos <= Len(source) => source[pos] \notin {"d", "f"}
        BY <2>1, <2>14
      <3>2. Longest(source, p) = q /\ KindAndText(SubSeq(source, p, q)) = <<kind, number>>
        <4>1. CASE mode = "digits"
          BY <2>2, <2>8, <2>9, <3>1, <4>1
        <4>2. CASE mode = "fraction"
          BY <2>2, <2>8, <2>9, <3>1, <4>2
        <4> QED BY <1>1, <4>1, <4>2
      <3>3. q \in p..Len(source) /\ q + 1 = pos
        BY <2>4, <2>7
      <3> HIDE DEF q, kind
      <3>4. SoFar(source, made(kind), "top", q + 1, start, buf)
        BY <1>4, <2>3, <2>10, <3>2, <3>3, TokenMade DEF made
      <3> QED BY <2>14, <3>3, <3>4 DEF kind
    <2> QED BY <1>2, <2>12, <2>13, <2>14
  <1> QED BY <1>1, <1>3, <1>4, ToShow

LEMMA LexedBeginString == PInv /\ LexedSoFar /\ BeginString => LexedSoFar'
  <1> SUFFICES ASSUME PInv, LexedSoFar, BeginString PROVE LexedSoFar'
    OBVIOUS
  <1>1. mode = "top" /\ Peek = Quote /\ mode' = "string" /\ pos' = pos + 1 /\ buf' = <<>> /\ UNCHANGED <<Memory, out>>
        /\ start' = [pos |-> pos, at |-> at]
    BY DEF BeginString, Begin, Advance
  <1>2. pos' \in Nat /\ pos' >= pos
    BY <1>1, PlacesAhead
  <1>3. ASSUME pos <= Len(source) + 1, NEW st, st = [pos |-> pos, at |-> at]
        PROVE  SoFar(source, out, "string", pos + 1, st, <<>>)
    <2>1. source \in Seq(ToSet(source)) /\ pos \in 1..Len(source) /\ source[pos] = Quote /\ at = Place(source, pos)
      BY <1>1, <1>3, Here, Apart
    <2>2. Goes(source, out, pos)
      BY <1>1, <1>3 DEF LexedSoFar, SoFar
    <2>3. st.pos = pos /\ st.at = at
      BY <1>3
    <2>4. InString(source, pos, pos + 1, <<>>)
      BY <2>1, StringBegins
    <2> QED BY <2>1, <2>2, <2>3, <2>4 DEF SoFar, Began
  <1> QED BY <1>1, <1>2, <1>3, ToShow

LEMMA LexedStringChar == PInv /\ LexedSoFar /\ StringChar => LexedSoFar'
  <1> SUFFICES ASSUME PInv, LexedSoFar, StringChar PROVE LexedSoFar'
    OBVIOUS
  <1>1. mode = "string" /\ mode' = "string" /\ Peek \notin {Quote, NUL} /\ UNCHANGED <<Memory, start, out>>
    BY DEF StringChar
  <1>2. \/ Peek = Backslash /\ pos' = pos + 2 /\ buf' = Append(buf, Unescaped(Char(pos + 1)))
        \/ Peek # Backslash /\ pos' = pos + 1 /\ buf' = Append(buf, Peek)
    BY DEF StringChar, Advance
  <1>3. pos' \in Nat /\ pos' >= pos
    BY <1>2, PlacesAhead
  <1>4. ASSUME pos <= Len(source) + 1, pos' <= Len(source) + 1 PROVE SoFar(source, out, "string", pos', start, buf')
    <2> DEFINE p == start.pos
    <2>1. source \in Seq(ToSet(source)) /\ pos \in 1..Len(source) /\ source[pos] = Peek /\ Len(source) \in Nat /\ p \in 1..pos
      BY <1>1, <1>4, Here
    <2>2. Began(source, out, start) /\ InString(source, p, pos, buf)
      BY <1>1, <1>4 DEF LexedSoFar, SoFar
    <2>3. p \in 1..Len(source) /\ pos \in p..Len(source)
      BY <2>1
    <2> HIDE DEF p
    <2>4. CASE Peek = Backslash /\ pos' = pos + 2 /\ buf' = Append(buf, Unescaped(Char(pos + 1)))
      <3>1. pos + 1 <= Len(source) /\ pos + 1 \in 1..(Len(source) + 1)
        BY <1>4, <2>1, <2>4
      <3>2. Char(pos + 1) = source[pos + 1]
        BY <1>4, <3>1, CharAt
      <3>3. InString(source, p, pos + 2, Append(buf, Unescaped(source[pos + 1])))
        BY <2>1, <2>2, <2>3, <2>4, <3>1, StringGoesOn
      <3>4. InString(source, p, pos', buf')
        BY <2>4, <3>2, <3>3
      <3> QED BY <2>2, <3>4 DEF SoFar, p
    <2>5. CASE Peek # Backslash /\ pos' = pos + 1 /\ buf' = Append(buf, Peek)
      <3>1. source[pos] \notin {Quote, Backslash}
        BY <1>1, <2>1, <2>5
      <3>2. InString(source, p, pos + 1, Append(buf, source[pos]))
        BY <2>1, <2>2, <2>3, <3>1, StringGoesOn
      <3>3. InString(source, p, pos', buf')
        BY <2>1, <2>5, <3>2
      <3> QED BY <2>2, <3>3 DEF SoFar, p
    <2> QED BY <1>2, <2>4, <2>5
  <1> QED BY <1>1, <1>3, <1>4, ToShow

LEMMA LexedEndString == PInv /\ LexedSoFar /\ EndString => LexedSoFar'
  <1> SUFFICES ASSUME PInv, LexedSoFar, EndString PROVE LexedSoFar'
    OBVIOUS
  <1> DEFINE made == Append(out, [kind |-> "string", text |-> buf, line |-> start.at.line, col |-> start.at.col])
  <1>1. mode = "string" /\ UNCHANGED <<Memory, start, buf>>
    BY DEF EndString
  <1>2. \/ Peek = Quote /\ pos' = pos + 1 /\ out' = made /\ mode' = "top"
        \/ Peek = NUL /\ pos' = pos /\ out' = out /\ mode' = "fatal"
    BY DEF EndString, Advance, Emit, Token
  <1> HIDE DEF made
  <1>3. pos' \in Nat /\ pos' >= pos
    BY <1>2, PlacesAhead
  <1>4. ASSUME pos <= Len(source) + 1 PROVE SoFar(source, out', mode', pos', start, buf)
    <2> DEFINE p == start.pos
    <2>1. source \in Seq(ToSet(source)) /\ pos \in 1..(Len(source) + 1) /\ Len(source) \in Nat /\ p \in 1..pos
          /\ (pos <= Len(source) => Peek = source[pos] /\ Peek # NUL) /\ (Peek # NUL => pos \in 1..Len(source))
      BY <1>4, Here
    <2>2. Began(source, out, start) /\ InString(source, p, pos, buf)
      BY <1>1, <1>4 DEF LexedSoFar, SoFar
    <2>3. p \in 1..Len(source) /\ start.at = Place(source, p) /\ Goes(source, out, p)
      BY <2>2 DEF Began
    <2>4. p = start.pos
      OBVIOUS
    <2> HIDE DEF p
    <2>5. pos \in p..(Len(source) + 1)
      BY <2>1, <2>3
    <2>6. /\ source[p] = Quote
          /\ pos <= Len(source) /\ source[pos] = Quote =>
                Longest(source, p) = pos /\ KindAndText(SubSeq(source, p, pos)) = <<"string", buf>>
          /\ pos = Len(source) + 1 => Longest(source, p) = 0
      BY <2>1, <2>2, <2>3, <2>5, StringEnds
    <2>7. source[p] \notin Blanks \cup {Hash}
      BY <2>6, Apart
    <2>8. CASE Peek = Quote /\ pos' = pos + 1 /\ out' = made /\ mode' = "top"
      <3>1. Peek # NUL
        BY <2>8, Apart
      <3>2. pos \in p..Len(source) /\ pos <= Len(source) /\ source[pos] = Quote
        BY <2>1, <2>5, <2>8, <3>1
      <3>3. Longest(source, p) = pos /\ KindAndText(SubSeq(source, p, pos)) = <<"string", buf>>
        BY <2>6, <3>2
      <3>4. SoFar(source, made, "top", pos + 1, start, buf)
        BY <1>4, <2>3, <2>7, <3>2, <3>3, TokenMade DEF made
      <3> QED BY <2>8, <3>4
    <2>9. CASE Peek = NUL /\ pos' = pos /\ out' = out /\ mode' = "fatal"
      <3>1. pos = Len(source) + 1
        BY <2>1, <2>9
      <3>2. Longest(source, p) = 0
        BY <2>6, <3>1
      <3>3. SoFar(source, out, "fatal", pos, start, buf)
        BY <1>4, <2>3, <2>4, <2>7, <3>2, NoToken
      <3> QED BY <2>9, <3>3
    <2> QED BY <1>2, <2>8, <2>9
  <1> QED BY <1>1, <1>3, <1>4, ToShow

LEMMA LexedChar == PInv /\ LexedSoFar /\ LexChar => LexedSoFar'
  <1> SUFFICES ASSUME PInv, LexedSoFar, LexChar PROVE LexedSoFar'
    OBVIOUS
  <1> DEFINE escaped == Char(pos + 1) = Backslash
             last    == IF escaped THEN pos + 2 ELSE pos + 1
             value   == IF escaped THEN Unescaped(Char(last)) ELSE Char(last)
             made    == Append(out, [kind |-> "char", text |-> <<value>>, line |-> at.line, col |-> at.col])
  <1>1. mode = "top" /\ Peek = Tick /\ UNCHANGED <<Memory, buf>> /\ start' = [pos |-> pos, at |-> at]
    BY DEF LexChar, Begin
  <1>2. \/ Char(last + 1) = Tick /\ pos' = last + 2 /\ mode' = "top" /\ out' = made
        \/ Char(last + 1) # Tick /\ pos' = last + 1 /\ mode' = "fatal" /\ out' = out
    BY DEF LexChar
  <1>3. pos \in Nat \ {0} /\ last \in Nat /\ (last = pos + 1 \/ last = pos + 2)
        /\ (escaped => last = pos + 2 /\ value = Unescaped(Char(pos + 2))) /\ (~escaped => last = pos + 1 /\ value = Char(pos + 1))
    BY PlacesAhead
  <1> HIDE DEF made, value, last
  <1>4. pos' \in Nat /\ pos' >= pos
    BY <1>2, <1>3
  <1>5. ASSUME pos <= Len(source) + 1, pos' <= Len(source) + 1, NEW st, st = [pos |-> pos, at |-> at]
        PROVE  SoFar(source, out', mode', pos', st, buf)
    <2>1. source \in Seq(ToSet(source)) /\ pos \in 1..Len(source) /\ source[pos] = Tick /\ at = Place(source, pos)
          /\ Len(source) \in Nat
      BY <1>1, <1>5, Here, Apart
    <2>2. Goes(source, out, pos)
      BY <1>1, <1>5 DEF LexedSoFar, SoFar
    <2>3. st.pos = pos /\ st.at = Place(source, pos)
      BY <1>5, <2>1
    <2>4. source[pos] \notin Blanks \cup {Hash}
      BY <2>1, Apart
    <2>5. last <= Len(source)
      BY <1>2, <1>3, <1>5, <2>1
    <2>6. ASSUME NEW i \in {pos + 1, pos + 2, pos + 3}, i <= Len(source) + 1
          PROVE  Char(i) = IF i <= Len(source) THEN source[i] ELSE NUL
      <3>1. i \in 1..(Len(source) + 1)
        BY <2>1, <2>6
      <3> QED BY <1>5, <3>1, CharAt
    <2>7. pos + 1 <= Len(source) /\ Char(pos + 1) = source[pos + 1] /\ (escaped <=> source[pos + 1] = Backslash)
      <3>1. pos + 1 <= Len(source) /\ pos + 1 <= Len(source) + 1
        BY <1>3, <2>1, <2>5
      <3> QED BY <2>6, <3>1
    <2>8. Char(last + 1) = IF last + 1 <= Len(source) THEN source[last + 1] ELSE NUL
      <3>1. last + 1 \in {pos + 1, pos + 2, pos + 3} /\ last + 1 <= Len(source) + 1
        BY <1>3, <2>1, <2>5
      <3> QED BY <2>6, <3>1
    <2>9. escaped => value = Unescaped(source[pos + 2])
      <3>1. escaped => pos + 2 <= Len(source) /\ pos + 2 <= Len(source) + 1
        BY <1>3, <2>1, <2>5
      <3>2. escaped => Char(pos + 2) = source[pos + 2]
        BY <2>6, <3>1
      <3> QED BY <1>3, <3>2
    <2>10. Tick # NUL
      BY Apart
    <2> HIDE DEF escaped
    <2>11. /\ pos + 2 <= Len(source) /\ source[pos + 1] # Backslash /\ source[pos + 2] = Tick =>
                 /\ Longest(source, pos) = pos + 2
                 /\ KindAndText(SubSeq(source, pos, pos + 2)) = <<"char", <<source[pos + 1]>>>>
           /\ pos + 3 <= Len(source) /\ source[pos + 1] = Backslash /\ source[pos + 3] = Tick =>
                 /\ Longest(source, pos) = pos + 3
                 /\ KindAndText(SubSeq(source, pos, pos + 3)) = <<"char", <<Unescaped(source[pos + 2])>>>>
           /\ /\ ~(pos + 2 <= Len(source) /\ source[pos + 1] # Backslash /\ source[pos + 2] = Tick)
              /\ ~(pos + 3 <= Len(source) /\ source[pos + 1] = Backslash /\ source[pos + 3] = Tick)
              => Longest(source, pos) = 0
      BY <2>1, TickEnds
    <2>12. (last = pos + 1 => last + 1 = pos + 2) /\ (last = pos + 2 => last + 1 = pos + 3) /\ last + 2 = (last + 1) + 1
      BY <1>3
    <2>13. CASE Char(last + 1) = Tick /\ pos' = last + 2 /\ mode' = "top" /\ out' = made
      <3> DEFINE q == last + 1
      <3>1. q <= Len(source) /\ source[q] = Tick
        BY <2>8, <2>10, <2>13
      <3>2. Longest(source, pos) = q /\ KindAndText(SubSeq(source, pos, q)) = <<"char", <<value>>>>
        <4>1. CASE escaped
          <5>1. q = pos + 3
            BY <1>3, <2>12, <4>1
          <5> QED BY <2>7, <2>9, <2>11, <3>1, <4>1, <5>1
        <4>2. CASE ~escaped
          <5>1. q = pos + 2
            BY <1>3, <2>12, <4>2
          <5> QED BY <1>3, <2>7, <2>11, <3>1, <4>2, <5>1
        <4> QED BY <4>1, <4>2
      <3>3. q \in pos..Len(source) /\ pos' = q + 1
        BY <1>3, <2>1, <2>12, <2>13, <3>1
      <3> HIDE DEF q
      <3>4. SoFar(source, made, "top", q + 1, st, buf)
        BY <1>5, <2>1, <2>2, <2>4, <3>2, <3>3, TokenMade DEF made
      <3> QED BY <2>13, <3>3, <3>4
    <2>14. CASE Char(last + 1) # Tick /\ pos' = last + 1 /\ mode' = "fatal" /\ out' = out
      <3>1. ~(last + 1 <= Len(source) /\ source[last + 1] = Tick)
        BY <2>8, <2>14
      <3>2. Longest(source, pos) = 0
        <4>1. CASE escaped
          BY <1>3, <2>7, <2>11, <2>12, <3>1, <4>1
        <4>2. CASE ~escaped
          BY <1>3, <2>7, <2>11, <2>12, <3>1, <4>2
        <4> QED BY <4>1, <4>2
      <3>3. SoFar(source, out, "fatal", pos', st, buf)
        BY <1>5, <2>1, <2>2, <2>3, <2>4, <3>2, NoToken
      <3> QED BY <2>14, <3>3
    <2> QED BY <1>2, <2>13, <2>14
  <1> QED BY <1>1, <1>4, <1>5, ToShow

LEMMA LexedBeginIdent == PInv /\ LexedSoFar /\ BeginIdent => LexedSoFar'
  <1> SUFFICES ASSUME PInv, LexedSoFar, BeginIdent PROVE LexedSoFar'
    OBVIOUS
  <1>1. mode = "top" /\ Peek \in Letters /\ mode' = "ident" /\ UNCHANGED <<Memory, pos, at, buf, out>>
        /\ start' = [pos |-> pos, at |-> at]
    BY DEF BeginIdent, Begin
  <1>2. pos' \in Nat /\ pos' >= pos
    BY <1>1, PlacesAhead
  <1>3. ASSUME pos <= Len(source) + 1, NEW st, st = [pos |-> pos, at |-> at] PROVE SoFar(source, out, "ident", pos, st, buf)
    <2>1. pos \in 1..Len(source) /\ source[pos] = Peek /\ at = Place(source, pos)
      BY <1>1, <1>3, Here, Apart
    <2>2. Goes(source, out, pos)
      BY <1>1, <1>3 DEF LexedSoFar, SoFar
    <2>3. st.pos = pos /\ st.at = at
      BY <1>3
    <2>4. InWord(source, pos, pos)
      <3>1. \A i \in pos..(pos - 1) : FALSE
        BY <2>1
      <3> QED BY <1>1, <2>1, <3>1 DEF InWord
    <2> QED BY <2>1, <2>2, <2>3, <2>4 DEF SoFar, Began
  <1> QED BY <1>1, <1>2, <1>3, ToShow

LEMMA LexedIdentChar == PInv /\ LexedSoFar /\ IdentChar => LexedSoFar'
  <1> SUFFICES ASSUME PInv, LexedSoFar, IdentChar PROVE LexedSoFar'
    OBVIOUS
  <1>1. mode = "ident" /\ mode' = "ident" /\ pos' = pos + 1 /\ Peek \in Letters \cup Digits
        /\ UNCHANGED <<Memory, start, buf, out>>
    BY DEF IdentChar, Advance
  <1>2. pos' \in Nat /\ pos' >= pos
    BY <1>1, PlacesAhead
  <1>3. ASSUME pos <= Len(source) + 1 PROVE SoFar(source, out, "ident", pos + 1, start, buf)
    <2> DEFINE p == start.pos
    <2>1. pos \in 1..Len(source) /\ source[pos] = Peek /\ p \in 1..pos
      BY <1>1, <1>3, Here, Apart
    <2>2. Began(source, out, start) /\ InWord(source, p, pos)
      BY <1>1, <1>3 DEF LexedSoFar, SoFar
    <2> HIDE DEF p
    <2>3. \A i \in p..((pos + 1) - 1) : i \in p..(pos - 1) \/ i = pos
      BY <2>1
    <2>4. InWord(source, p, pos + 1)
      BY <1>1, <2>1, <2>2, <2>3 DEF InWord
    <2> QED BY <2>2, <2>4 DEF SoFar, p
  <1> QED BY <1>1, <1>2, <1>3, ToShow

LEMMA LexedEndIdent == PInv /\ LexedSoFar /\ EndIdent => LexedSoFar'
  <1> SUFFICES ASSUME PInv, LexedSoFar, EndIdent PROVE LexedSoFar'
    OBVIOUS
  <1> DEFINE word == Between(start.pos, pos)
             made == Append(out, [kind |-> WordKind(word), text |-> word, line |-> start.at.line, col |-> start.at.col])
  <1>1. mode = "ident" /\ mode' = "top" /\ UNCHANGED <<Memory, pos, at, start, buf>> /\ out' = made
        /\ Peek \notin Letters \cup Digits
    BY DEF EndIdent, Emit, Token
  <1> HIDE DEF made
  <1>2. pos' \in Nat /\ pos' >= pos
    BY <1>1, PlacesAhead
  <1>3. ASSUME pos <= Len(source) + 1 PROVE SoFar(source, made, "top", pos, start, buf)
    <2> DEFINE p == start.pos
               q == pos - 1
    <2>1. source \in Seq(ToSet(source)) /\ pos \in 1..(Len(source) + 1) /\ Len(source) \in Nat /\ p \in 1..pos
          /\ (pos <= Len(source) => Peek = source[pos])
      BY <1>3, Here
    <2>2. Began(source, out, start) /\ InWord(source, p, pos)
      BY <1>1, <1>3 DEF LexedSoFar, SoFar
    <2>3. p \in 1..Len(source) /\ start.at = Place(source, p) /\ Goes(source, out, p)
      BY <2>2 DEF Began
    <2>4. p = start.pos
      OBVIOUS
    <2> HIDE DEF p
    <2>5. pos \in p..(Len(source) + 1)
      BY <2>1, <2>3
    <2>6. word = SubSeq(source, p, q)
      BY <1>3, <2>3, <2>4, <2>5, LexemeBetween
    <2>7. source[p] \in Letters /\ q \in p..Len(source) /\ Longest(source, p) = q
          /\ KindAndText(SubSeq(source, p, q)) = <<WordKind(SubSeq(source, p, q)), SubSeq(source, p, q)>>
      BY <1>1, <2>1, <2>2, <2>3, <2>5, WordEnds
    <2>8. source[p] \notin Blanks \cup {Hash}
      BY <2>7, Apart
    <2>9. q + 1 = pos
      BY <2>1
    <2> DEFINE kind == WordKind(word)
    <2>10. KindAndText(SubSeq(source, p, q)) = <<kind, word>>
      BY <2>6, <2>7
    <2>11. made = Append(out, [kind |-> kind, text |-> word, line |-> start.at.line, col |-> start.at.col])
      BY DEF made
    <2> HIDE DEF q, kind, word
    <2>12. SoFar(source, made, "top", q + 1, start, buf)
      BY <1>3, <2>3, <2>7, <2>8, <2>10, <2>11, TokenMade
    <2> QED BY <2>9, <2>12
  <1> QED BY <1>1, <1>2, <1>3, ToShow

LEMMA LexedOperator == PInv /\ LexedSoFar /\ LexOperator => LexedSoFar'
  <1> SUFFICES ASSUME PInv, LexedSoFar, LexOperator PROVE LexedSoFar'
    OBVIOUS
  <1> DEFINE made(text) == Append(out, [kind |-> "operator", text |-> text, line |-> at.line, col |-> at.col])
             after == Char(pos + 1)
  <1>1. mode = "top" /\ Peek \notin Blanks \cup Digits \cup Letters \cup {NUL, Hash, Quote, Tick}
        /\ UNCHANGED <<Memory, buf>> /\ start' = [pos |-> pos, at |-> at]
    BY DEF LexOperator, Begin
  <1>2. \/ /\ Peek \in Doubles \cup {Ampersand, Bar} /\ after = Second(Peek)
           /\ pos' = pos + 2 /\ mode' = "top" /\ out' = made(<<Peek, after>>)
        \/ /\ Peek \in Singles \/ (Peek \in Doubles \cup {Ampersand} /\ after # Second(Peek))
           /\ pos' = pos + 1 /\ mode' = "top" /\ out' = made(<<Peek>>)
        \/ /\ Peek \notin Singles \cup Doubles \cup {Ampersand, Bar} \/ (Peek = Bar /\ after # Bar)
           /\ pos' = pos + 1 /\ mode' = "fatal" /\ out' = out
    BY DEF LexOperator, Advance
  <1> HIDE DEF made, after
  <1>3. pos' \in Nat /\ pos' >= pos
    BY <1>2, PlacesAhead
  <1>4. ASSUME pos <= Len(source) + 1, NEW st, st = [pos |-> pos, at |-> at]
        PROVE  SoFar(source, out', mode', pos', st, buf)
    <2>1. source \in Seq(ToSet(source)) /\ pos \in 1..Len(source) /\ source[pos] = Peek /\ at = Place(source, pos)
          /\ Len(source) \in Nat
      BY <1>1, <1>4, Here
    <2>2. Goes(source, out, pos)
      BY <1>1, <1>4 DEF LexedSoFar, SoFar
    <2>3. st.pos = pos /\ st.at = Place(source, pos)
      BY <1>4, <2>1
    <2>4. source[pos] \notin Blanks \cup Digits \cup Letters \cup {Hash, Quote, Tick} /\ source[pos] \notin Blanks \cup {Hash}
      BY <1>1, <2>1
    <2>5. after = IF pos + 1 <= Len(source) THEN source[pos + 1] ELSE NUL
      <3>1. pos + 1 \in 1..(Len(source) + 1)
        BY <2>1
      <3> QED BY <1>4, <3>1, CharAt DEF after
    <2>6. /\ source[pos] \in Doubles \cup {Ampersand, Bar} /\ after = Second(source[pos]) =>
                /\ pos + 1 \in pos..Len(source) /\ Longest(source, pos) = pos + 1
                /\ KindAndText(SubSeq(source, pos, pos + 1)) = <<"operator", <<source[pos], after>>>>
          /\ source[pos] \in Singles \/ (source[pos] \in Doubles \cup {Ampersand} /\ after # Second(source[pos])) =>
                /\ Longest(source, pos) = pos
                /\ KindAndText(SubSeq(source, pos, pos)) = <<"operator", <<source[pos]>>>>
          /\ source[pos] \notin Singles \cup Doubles \cup {Ampersand, Bar} \/ (source[pos] = Bar /\ after # Bar) =>
                Longest(source, pos) = 0
      BY <2>1, <2>4, <2>5, OperatorEnds
    <2>7. CASE /\ Peek \in Doubles \cup {Ampersand, Bar} /\ after = Second(Peek)
               /\ pos' = pos + 2 /\ mode' = "top" /\ out' = made(<<Peek, after>>)
      <3> DEFINE q == pos + 1
                 text == <<Peek, after>>
      <3>1. q \in pos..Len(source) /\ Longest(source, pos) = q /\ KindAndText(SubSeq(source, pos, q)) = <<"operator", text>>
        BY <2>1, <2>6, <2>7
      <3>2. pos' = q + 1
        BY <2>1, <2>7
      <3> HIDE DEF q, text
      <3>3. SoFar(source, made(text), "top", q + 1, st, buf)
        BY <1>4, <2>1, <2>2, <2>4, <3>1, TokenMade DEF made
      <3> QED BY <2>7, <3>2, <3>3 DEF text
    <2>8. CASE /\ Peek \in Singles \/ (Peek \in Doubles \cup {Ampersand} /\ after # Second(Peek))
               /\ pos' = pos + 1 /\ mode' = "top" /\ out' = made(<<Peek>>)
      <3> DEFINE text == <<Peek>>
      <3>1. pos \in pos..Len(source) /\ Longest(source, pos) = pos /\ KindAndText(SubSeq(source, pos, pos)) = <<"operator", text>>
        BY <2>1, <2>6, <2>8
      <3> HIDE DEF text
      <3>2. SoFar(source, made(text), "top", pos + 1, st, buf)
        BY <1>4, <2>1, <2>2, <2>4, <3>1, TokenMade DEF made
      <3> QED BY <2>8, <3>2 DEF text
    <2>9. CASE /\ Peek \notin Singles \cup Doubles \cup {Ampersand, Bar} \/ (Peek = Bar /\ after # Bar)
               /\ pos' = pos + 1 /\ mode' = "fatal" /\ out' = out
      <3>1. Longest(source, pos) = 0
        BY <2>1, <2>6, <2>9
      <3>2. SoFar(source, out, "fatal", pos', st, buf)
        BY <1>4, <2>1, <2>2, <2>3, <2>4, <3>1, NoToken
      <3> QED BY <2>9, <3>2
    <2> QED BY <1>2, <2>7, <2>8, <2>9
  <1> QED BY <1>1, <1>3, <1>4, ToShow

LEMMA LexedFinish == PInv /\ LexedSoFar /\ Finish => LexedSoFar'
  <1> SUFFICES ASSUME PInv, LexedSoFar, Finish PROVE LexedSoFar'
    OBVIOUS
  <1> DEFINE e == [kind |-> "eof", text |-> <<>>, line |-> at.line, col |-> at.col]
  <1>1. mode = "top" /\ Peek = NUL /\ mode' = "done" /\ UNCHANGED <<Memory, pos, at, buf>> /\ out' = Append(out, e)
    BY DEF Finish
  <1> HIDE DEF e
  <1>2. pos' \in Nat /\ pos' >= pos
    BY <1>1, PlacesAhead
  <1>3. ASSUME pos <= Len(source) + 1, NEW st PROVE SoFar(source, Append(out, e), "done", pos, st, buf)
    <2>1. source \in Seq(ToSet(source)) /\ out \in Seq(ToSet(out)) /\ pos \in 1..(Len(source) + 1) /\ Len(source) \in Nat
          /\ (pos <= Len(source) => Peek # NUL) /\ at = Place(source, pos)
      BY <1>3, Here
    <2>2. pos = Len(source) + 1
      BY <1>1, <2>1
    <2>3. Goes(source, out, Len(source) + 1)
      BY <1>1, <1>3, <2>2 DEF LexedSoFar, SoFar
    <2>4. e = TokenAt(source, Len(source) + 1, <<"eof", <<>>>>)
      BY <2>1, <2>2 DEF e, TokenAt
    <2>5. Tokens(source)[1].stuck = 0 /\ Tokens(source)[1].list = Append(out, e)
      BY <2>1, <2>3, <2>4, GoesEnd
    <2> QED BY <2>5 DEF SoFar
  <1> QED BY <1>1, <1>2, <1>3, ToShow

LEMMA LexedNext == PInv /\ LexedSoFar /\ [Next]_vars => LexedSoFar'
  <1> SUFFICES ASSUME PInv, LexedSoFar, [Next]_vars PROVE LexedSoFar'
    OBVIOUS
  <1>1. CASE UNCHANGED vars
    BY <1>1 DEF vars, LexedSoFar
  <1> QED
    BY <1>1, LexedSkipBlank, LexedSkipComment, LexedBeginNumber, LexedNumberChar, LexedEndNumber,
       LexedBeginString, LexedStringChar, LexedEndString, LexedChar, LexedBeginIdent,
       LexedIdentChar, LexedEndIdent, LexedOperator, LexedFinish DEF Next

(* rl_lex cuts a source into its longest lexemes, each with its place and  *)
(* what its escapes stand for, or rejects it at the first place that has   *)
(* none: whatever the source, the keywords and the memory behind it.       *)
THEOREM LexesLongest == Spec => []LongestLexemes
  <1>1. Init => PInv /\ LexedSoFar
    BY InitIInv, PlaceInit, LexedInit DEF PInv
  <1>2. PInv /\ LexedSoFar /\ [Next]_vars => (PInv /\ LexedSoFar)'
    BY NextKeeps, PlaceNext, LexedNext DEF PInv
  <1>3. PInv /\ LexedSoFar => LongestLexemes
    BY DEF LexedSoFar, SoFar, LongestLexemes
  <1> QED
    BY <1>1, <1>2, <1>3, PTL DEF Spec
===============================================================================
