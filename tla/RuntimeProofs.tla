----------------------------- MODULE RuntimeProofs -----------------------------
(***************************************************************************)
(* The runtime library keeps its promises for every file, every input,     *)
(* every buffer of two bytes or more, and any number of handles and        *)
(* variables.                                                              *)
(***************************************************************************)
EXTENDS Runtime, SequenceTheorems, FiniteSetTheorems, WellFoundedInduction, TLAPS

StreamKinds ==
    {Closed, NULL}
        \cup [is : {"reader"}, file : Files, text : Text \cup {None}, pos : Nat, eof : BOOLEAN,
              error : BOOLEAN]
        \cup [is : {"writer"}, file : Files, linked : BOOLEAN, waiting : Text]

Pointers == {InBuf, FileBuf} \cup [at : {"own"}, text : Text]

(* The types of the runtime's state and of what was noted of it.           *)
FilesTyped ==
    /\ content \in [Files -> Text \cup {None}]
    /\ saved \in [Files -> Text \cup {None}]
    /\ stream \in [Handles -> StreamKinds]
    /\ pieces \in [Handles -> Seq(Text)]

TextsTyped ==
    /\ in_buf \in Text /\ file_buf \in Text
    /\ var \in [Vars -> Pointers]
    /\ meant \in [Vars -> Text]
    /\ fresh \in [Vars -> BOOLEAN]

InputTyped ==
    /\ input \in Text /\ stdin \in Text /\ asked \in Text
    /\ Len(stdin) <= Len(input)
    /\ stdin = SubSeq(input, Len(input) - Len(stdin) + 1, Len(input))

(***************************************************************************)
(* ClosedIsSaved is not inductive: what a file lacks of what was written   *)
(* must wait in the one stream that writes to it.                          *)
(***************************************************************************)
Into(s, f) == s.is = "writer" /\ s.linked /\ s.file = f

UpToDate(streams, f, has, due) ==
    /\ (\A h \in Handles : ~Into(streams[h], f)) => has = due
    /\ \A h \in Handles : Into(streams[h], f) =>
          /\ has \in Text /\ due = has \o streams[h].waiting
          /\ \A g \in Handles : Into(streams[g], f) => g = h

NothingLost == \A f \in Files : UpToDate(stream, f, content[f], saved[f])

HaltedClosed == halted => \A h \in Handles : Is(h, "closed")

(***************************************************************************)
(* LinesMakeTheFile is not inductive: before its first read a stream has a *)
(* file to read, and has returned nothing unless that read failed.         *)
(***************************************************************************)
ReadersReady ==
    \A h \in Handles :
        /\ Is(h, "closed") => pieces[h] = <<>>
        /\ Is(h, "reader") /\ stream[h].text = None =>
              /\ content[stream[h].file] \in Text
              /\ stream[h].pos = 0 /\ (~stream[h].error => pieces[h] = <<>>) /\ ~stream[h].eof
        /\ Is(h, "reader") /\ stream[h].text # None => stream[h].pos <= Len(stream[h].text)

(* The files and their streams, the texts in variables, and the input.     *)
FilesRight == FilesTyped /\ NothingLost /\ HaltedClosed /\ ReadersReady /\ LinesMakeTheFile
TextsRight == TextsTyped /\ TextsStay
InputRight == InputTyped /\ NothingUnasked

IInv == FilesRight /\ TextsRight /\ InputRight

-------------------------------------------------------------------------------
(* A set of natural numbers has a least one.                               *)
LEMMA Least ==
    ASSUME NEW T, T \subseteq Nat, T # {}
    PROVE  \E x \in T : \A y \in T : x <= y
  <1>1. PICK x \in T : \A y \in T : ~(<<y, x>> \in OpToRel(<, Nat))
    BY WFMin, NatLessThanWellFounded
  <1>2. \A y \in T : ~(y < x)
    BY <1>1 DEF OpToRel
  <1> QED
    BY <1>2

LEMMA MinIsLeast ==
    ASSUME NEW T, T \subseteq Nat, T # {}
    PROVE  Min(T) \in T /\ \A y \in T : Min(T) <= y
  BY Least DEF Min

(* A set with zero, and with every successor, has every natural number.    *)
LEMMA Climb ==
    ASSUME NEW S, S \subseteq Nat, 0 \in S, \A n \in S : n + 1 \in S
    PROVE  S = Nat
  <1> SUFFICES ASSUME Nat \ S # {} PROVE FALSE
    OBVIOUS
  <1>1. PICK x \in Nat \ S : \A y \in Nat \ S : x <= y
    <2> DEFINE T == Nat \ S
    <2>1. T \subseteq Nat /\ T # {}
      OBVIOUS
    <2> HIDE DEF T
    <2>2. \E x \in T : \A y \in T : x <= y
      BY <2>1, Least
    <2> QED
      BY <2>2 DEF T
  <1>2. x # 0 /\ x - 1 \in Nat /\ ~(x <= x - 1)
    BY <1>1
  <1>3. x - 1 \in S /\ x = (x - 1) + 1
    BY <1>1, <1>2
  <1> QED
    BY <1>1, <1>3

(***************************************************************************)
(* FlattenSeq by its recursion: what it is for pieces with one more.       *)
(***************************************************************************)
Flattens(f, s) ==
    f = [i \in 1..Len(s) |-> IF i = 1 THEN s[i] ELSE f[i - 1] \o s[i]]

(* The function that FlattenSeq is defined by exists.                      *)
LEMMA FlattenExists ==
    ASSUME NEW s \in Seq(Text)
    PROVE  \E f : Flattens(f, s)
  <1> DEFINE P(n) == n <= Len(s) => \E f : Flattens(f, SubSeq(s, 1, n))
  <1>1. P(0)
    <2>1. Flattens(<<>>, SubSeq(s, 1, 0))
      BY DEF Flattens
    <2> QED
      BY <2>1
  <1>2. ASSUME NEW n \in Nat, P(n) PROVE P(n + 1)
    <2> SUFFICES ASSUME n + 1 <= Len(s) PROVE \E f : Flattens(f, SubSeq(s, 1, n + 1))
      OBVIOUS
    <2>1. PICK f : Flattens(f, SubSeq(s, 1, n))
      BY <1>2
    <2> DEFINE t == SubSeq(s, 1, n)
               u == SubSeq(s, 1, n + 1)
               g == [i \in 1..(n + 1) |->
                        IF i = n + 1 THEN (IF i = 1 THEN u[i] ELSE f[n] \o u[i]) ELSE f[i]]
    <2>2. Len(t) = n /\ Len(u) = n + 1 /\ \A i \in 1..n : t[i] = u[i]
      OBVIOUS
    <2>3. \A i \in 1..n : f[i] = IF i = 1 THEN t[i] ELSE f[i - 1] \o t[i]
      BY <2>1, <2>2 DEF Flattens
    <2> HIDE DEF t, u
    <2>4. \A i \in 1..(n + 1) : g[i] = IF i = 1 THEN u[i] ELSE g[i - 1] \o u[i]
      BY <2>2, <2>3
    <2>5. g = [i \in 1..(n + 1) |-> IF i = 1 THEN u[i] ELSE g[i - 1] \o u[i]]
      <3> DEFINE k == [i \in 1..(n + 1) |-> IF i = 1 THEN u[i] ELSE g[i - 1] \o u[i]]
      <3>1. DOMAIN g = 1..(n + 1) /\ g = [i \in DOMAIN g |-> g[i]]
        OBVIOUS
      <3> HIDE DEF g
      <3>2. g = k
        BY <2>4, <3>1
      <3> QED
        BY <3>2
    <2> HIDE DEF g
    <2>6. Flattens(g, u)
      BY <2>2, <2>5 DEF Flattens
    <2> QED
      BY <2>6 DEF u
  <1>3. \A n \in Nat : P(n)
    <2> HIDE DEF P
    <2> DEFINE S == {n \in Nat : P(n)}
    <2>1. S \subseteq Nat /\ 0 \in S /\ \A n \in S : n + 1 \in S
      BY <1>1, <1>2
    <2> HIDE DEF S
    <2>2. S = Nat
      BY <2>1, Climb
    <2> QED
      BY <2>2 DEF S
  <1>4. SubSeq(s, 1, Len(s)) = s /\ Len(s) \in Nat
    OBVIOUS
  <1>5. \E f : Flattens(f, SubSeq(s, 1, Len(s)))
    BY <1>3, <1>4
  <1> QED
    BY <1>4, <1>5, Zenon

(* One more piece comes behind the others.                                 *)
LEMMA FlattenStarts == FlattenSeq(<<>>) = <<>>
  BY DEF FlattenSeq

LEMMA FlattenUnfolds ==
    ASSUME NEW s \in Seq(Text), s # <<>>
    PROVE  \E f : Flattens(f, s) /\ FlattenSeq(s) = f[Len(s)]
  <1> DEFINE c == CHOOSE f : f = [i \in 1..Len(s) |-> IF i = 1 THEN s[i] ELSE f[i - 1] \o s[i]]
  <1>1. \E f : f = [i \in 1..Len(s) |-> IF i = 1 THEN s[i] ELSE f[i - 1] \o s[i]]
    BY FlattenExists DEF Flattens
  <1>2. c = [i \in 1..Len(s) |-> IF i = 1 THEN s[i] ELSE c[i - 1] \o s[i]]
    BY <1>1, Zenon
  <1>3. FlattenSeq(s) = c[Len(s)]
    BY DEF FlattenSeq
  <1> HIDE DEF c
  <1> QED
    BY <1>2, <1>3 DEF Flattens

LEMMA FlattenAppend ==
    ASSUME NEW s \in Seq(Text), NEW t \in Text
    PROVE  /\ FlattenSeq(s) \in Text
           /\ FlattenSeq(Append(s, t)) = FlattenSeq(s) \o t
  <1> DEFINE u == Append(s, t)
  <1>0. /\ u \in Seq(Text) /\ u # <<>> /\ Len(u) = Len(s) + 1 /\ Len(s) \in Nat
        /\ u[Len(s) + 1] = t /\ \A i \in 1..Len(s) : u[i] = s[i] /\ s[i] \in Text
    OBVIOUS
  <1> HIDE DEF u
  <1>1. PICK g : Flattens(g, u) /\ FlattenSeq(u) = g[Len(u)]
    BY <1>0, FlattenUnfolds
  <1>2. \A i \in 1..(Len(s) + 1) : g[i] = IF i = 1 THEN u[i] ELSE g[i - 1] \o u[i]
    BY <1>0, <1>1 DEF Flattens
  <1>9. ASSUME NEW i \in 1..Len(s) PROVE g[i + 1] = g[i] \o u[i + 1]
    <2>1. i + 1 \in 1..(Len(s) + 1) /\ i + 1 # 1 /\ (i + 1) - 1 = i
      BY <1>0
    <2> QED
      BY <1>2, <2>1
  <1>3. CASE s = <<>>
    <2>1. g[1] = t
      BY <1>0, <1>2, <1>3
    <2>2. <<>> \o t = t /\ <<>> \in Text
      BY DEF Text
    <2>3. FlattenSeq(s) = <<>>
      BY <1>3, FlattenStarts, Zenon
    <2>4. FlattenSeq(u) = t
      BY <1>0, <1>1, <1>3, <2>1
    <2> QED
      BY <2>2, <2>3, <2>4 DEF u
  <1>4. CASE s # <<>>
    <2>1. PICK f : Flattens(f, s) /\ FlattenSeq(s) = f[Len(s)]
      BY <1>4, FlattenUnfolds
    <2>2. \A i \in 1..Len(s) : f[i] = IF i = 1 THEN s[i] ELSE f[i - 1] \o s[i]
      BY <1>0, <2>1 DEF Flattens
    <2> DEFINE N == {n \in Nat : n + 1 \in 1..Len(s) => f[n + 1] = g[n + 1] /\ f[n + 1] \in Text}
    <2>3. 0 \in N
      BY <1>0, <1>2, <2>2
    <2>4. ASSUME NEW n \in N PROVE n + 1 \in N
      <3> SUFFICES ASSUME n + 2 \in 1..Len(s) PROVE f[n + 2] = g[n + 2] /\ f[n + 2] \in Text
        OBVIOUS
      <3>1. f[n + 1] = g[n + 1] /\ f[n + 1] \in Text
        OBVIOUS
      <3>2. f[n + 2] = f[n + 1] \o s[n + 2] /\ g[n + 2] = g[n + 1] \o u[n + 2]
        <4>1. n + 2 \in 1..Len(s) /\ n + 2 # 1 /\ (n + 2) - 1 = n + 1 /\ n + 1 \in 1..Len(s)
          BY <1>0
        <4>2. f[n + 2] = f[n + 1] \o s[n + 2]
          BY <2>2, <4>1
        <4>3. g[(n + 1) + 1] = g[n + 1] \o u[(n + 1) + 1]
          BY <1>9, <4>1, Zenon
        <4>4. (n + 1) + 1 = n + 2
          OBVIOUS
        <4> QED
          BY <4>2, <4>3, <4>4, Zenon
      <3>3. s[n + 2] \in Text /\ u[n + 2] = s[n + 2]
        BY <1>0
      <3> QED
        BY <3>1, <3>2, <3>3, ConcatProperties DEF Text
    <2> HIDE DEF N
    <2>5. N = Nat
      <3>1. N \subseteq Nat
        BY DEF N
      <3> QED
        BY <2>3, <2>4, <3>1, Climb
    <2>6. Len(s) - 1 \in Nat
      BY <1>0, <1>4
    <2>7. f[Len(s)] = g[Len(s)] /\ f[Len(s)] \in Text
      <3>1. (Len(s) - 1) + 1 = Len(s) /\ Len(s) \in 1..Len(s)
        BY <1>0, <2>6
      <3>2. Len(s) - 1 \in N
        BY <2>5, <2>6
      <3>3. (Len(s) - 1) + 1 \in 1..Len(s) => f[(Len(s) - 1) + 1] = g[(Len(s) - 1) + 1]
                                                    /\ f[(Len(s) - 1) + 1] \in Text
        BY <3>2 DEF N
      <3> QED
        BY <3>1, <3>3
    <2>8. g[Len(s) + 1] = g[Len(s)] \o t
      <3>1. Len(s) \in 1..Len(s)
        BY <1>0, <2>6
      <3> QED
        BY <1>0, <1>9, <3>1
    <2> QED
      BY <1>0, <1>1, <2>1, <2>7, <2>8 DEF u
  <1> QED
    BY <1>3, <1>4

-------------------------------------------------------------------------------
(***************************************************************************)
(* fgets takes the text up to its first newline, up to its end, or as much *)
(* as the buffer holds.                                                    *)
(***************************************************************************)
Took(s, m) ==
    /\ m \in 1..Len(s) /\ fgets(s) = SubSeq(s, 1, m)
    /\ \A i \in 1..(m - 1) : s[i] # NL
    /\ m <= BufSize - 1
    /\ s[m] = NL \/ m = BufSize - 1 \/ m = Len(s)

LEMMA FgetsOfNone == fgets(<<>>) = <<>>
  <1>1. {i \in 1..Len(<<>>) : <<>>[i] = NL} = {} /\ Len(<<>>) = 0 /\ 0 < BufSize
    BY RuntimeAssumption
  <1>2. SelectInSeq(<<>>, LAMBDA c : c = NL) = 0
    BY <1>1 DEF SelectInSeq
  <1>3. fgets(<<>>) = SubSeq(<<>>, 1, 0)
    BY <1>1, <1>2 DEF fgets
  <1> QED
    BY <1>3

LEMMA FgetsTakes ==
    ASSUME NEW s \in Text, s # <<>>
    PROVE  \E m \in 1..Len(s) : Took(s, m)
  <1>0. BufSize \in Nat /\ BufSize >= 2 /\ Len(s) \in Nat /\ Len(s) >= 1
    BY RuntimeAssumption DEF Text
  <1> DEFINE I == {i \in 1..Len(s) : s[i] = NL}
             end == SelectInSeq(s, LAMBDA c : c = NL)
             n == IF end = 0 THEN Len(s) ELSE end
             m == IF n < BufSize THEN n ELSE BufSize - 1
  <1>1. fgets(s) = SubSeq(s, 1, m)
    BY DEF fgets
  <1>2. CASE I = {}
    <2>1. end = 0
      BY <1>2 DEF SelectInSeq
    <2> HIDE DEF end
    <2>2. m \in 1..Len(s) /\ m <= BufSize - 1 /\ (m = Len(s) \/ m = BufSize - 1)
      BY <1>0, <2>1
    <2> HIDE DEF m
    <2> QED
      BY <1>1, <1>2, <2>2 DEF Took
  <1>3. CASE I # {}
    <2>1. end = Min(I)
      BY <1>3 DEF SelectInSeq
    <2>2. Min(I) \in I /\ \A y \in I : Min(I) <= y
      <3>1. I \subseteq Nat
        BY <1>0
      <3> HIDE DEF I
      <3> QED
        BY <1>3, <3>1, MinIsLeast
    <2> HIDE DEF end
    <2>3. end \in 1..Len(s) /\ s[end] = NL /\ \A i \in 1..(end - 1) : s[i] # NL
      <3>1. end \in I /\ \A y \in I : end <= y
        BY <2>1, <2>2
      <3>2. end \in 1..Len(s) /\ s[end] = NL
        BY <3>1
      <3>3. ASSUME NEW i \in 1..(end - 1), s[i] = NL PROVE FALSE
        <4>1. i \in 1..Len(s) /\ ~(end <= i)
          BY <1>0, <3>2
        <4>2. i \in I
          BY <3>3, <4>1
        <4> QED
          BY <3>1, <4>1, <4>2
      <3> QED
        BY <3>2, <3>3
    <2>4. m \in 1..Len(s) /\ m <= BufSize - 1 /\ m <= end /\ (m = end \/ m = BufSize - 1)
      BY <1>0, <2>3
    <2> HIDE DEF m
    <2>5. \A i \in 1..(m - 1) : s[i] # NL
      BY <2>3, <2>4
    <2> QED
      BY <1>1, <2>3, <2>4, <2>5 DEF Took
  <1> QED
    BY <1>2, <1>3

-------------------------------------------------------------------------------
(***************************************************************************)
(* What the variables have.  A call gives a variable memory of its own or  *)
(* a buffer, and whoever else pointed to that buffer is given up.          *)
(***************************************************************************)
LEMMA TextsQuiet ==
    ASSUME TextsRight, Variables, in_buf' = in_buf
    PROVE  TextsRight'
  BY DEF TextsRight, TextsTyped, TextsStay, Variables, Chars

LEMMA PointersDiffer ==
    /\ InBuf # FileBuf /\ InBuf.at = "in_buf" /\ FileBuf.at = "file_buf"
    /\ \A t \in Text : Own(t) # InBuf /\ Own(t) # FileBuf /\ Own(t).at = "own" /\ Own(t).text = t
                        /\ Own(t) \in Pointers
  BY DEF InBuf, FileBuf, Own, Pointers

LEMMA PointerKinds ==
    ASSUME NEW p \in Pointers
    PROVE  \/ p = InBuf \/ p = FileBuf
           \/ p.at = "own" /\ p.text \in Text /\ p # InBuf /\ p # FileBuf
  BY DEF InBuf, FileBuf, Pointers

LEMMA CharsTyped ==
    ASSUME TextsTyped, NEW v \in Vars
    PROVE  Chars(v) \in Text
  <1>1. var[v] \in Pointers
    BY DEF TextsTyped
  <1> QED
    BY <1>1, PointerKinds, PointersDiffer DEF TextsTyped, Chars

(* The types of what a call leaves.                                        *)
LEMMA ReturnsTyped ==
    ASSUME TextsTyped, NEW v, NEW p \in Pointers, NEW t \in Text, NEW filled,
           Returns(v, p, t, filled), in_buf' \in Text, file_buf' \in Text
    PROVE  TextsTyped'
  <1>1. <<>> \in Text
    BY DEF Text
  <1>2. var' \in [Vars -> Pointers]
    BY DEF TextsTyped, Returns
  <1>3. meant' \in [Vars -> Text]
    BY <1>1 DEF TextsTyped, Returns
  <1>4. fresh' \in [Vars -> BOOLEAN]
    BY DEF Returns
  <1> QED
    BY <1>2, <1>3, <1>4 DEF TextsTyped

LEMMA ReturnsOwn ==
    ASSUME TextsRight, NEW v, NEW t \in Text, Returns(v, Own(t), t, {}),
           in_buf' = in_buf, file_buf' = file_buf
    PROVE  TextsRight'
  <1>1. TextsTyped'
    BY ReturnsTyped, PointersDiffer DEF TextsRight, TextsTyped
  <1>2. ASSUME NEW u \in Vars, fresh'[u] PROVE Chars(u)' = meant'[u]
    <2>1. CASE u = v
      BY <2>1, PointersDiffer DEF Returns, Chars
    <2>2. CASE u # v
      <3>1. fresh[u] /\ var'[u] = var[u] /\ meant'[u] = meant[u]
        BY <1>2, <2>2 DEF Returns
      <3> QED
        BY <3>1 DEF TextsRight, TextsStay, Chars
    <2> QED
      BY <2>1, <2>2
  <1> QED
    BY <1>1, <1>2 DEF TextsRight, TextsStay

LEMMA ReturnsFileBuf ==
    ASSUME TextsRight, NEW v, NEW t \in Text, Returns(v, FileBuf, t, {FileBuf}),
           in_buf' = in_buf, file_buf' = t
    PROVE  TextsRight'
  <1>1. TextsTyped'
    BY ReturnsTyped DEF TextsRight, TextsTyped, Pointers
  <1>2. ASSUME NEW u \in Vars, fresh'[u] PROVE Chars(u)' = meant'[u]
    <2>1. CASE u = v
      BY <2>1, PointersDiffer DEF Returns, Chars
    <2>2. CASE u # v
      <3>1. fresh[u] /\ var'[u] = var[u] /\ meant'[u] = meant[u] /\ var[u] # FileBuf
        BY <1>2, <2>2 DEF Returns
      <3>2. var[u] \in Pointers
        BY DEF TextsRight, TextsTyped
      <3> QED
        BY <3>1, <3>2, PointerKinds, PointersDiffer DEF TextsRight, TextsStay, Chars
    <2> QED
      BY <2>1, <2>2
  <1> QED
    BY <1>1, <1>2 DEF TextsRight, TextsStay

LEMMA ReturnsInBuf ==
    ASSUME TextsRight, NEW v, NEW t \in Text, Returns(v, InBuf, t, {InBuf}),
           in_buf' = t, file_buf' = file_buf
    PROVE  TextsRight'
  <1>1. TextsTyped'
    BY ReturnsTyped DEF TextsRight, TextsTyped, Pointers
  <1>2. ASSUME NEW u \in Vars, fresh'[u] PROVE Chars(u)' = meant'[u]
    <2>1. CASE u = v
      BY <2>1, PointersDiffer DEF Returns, Chars
    <2>2. CASE u # v
      <3>1. fresh[u] /\ var'[u] = var[u] /\ meant'[u] = meant[u] /\ var[u] # InBuf
        BY <1>2, <2>2 DEF Returns
      <3>2. var[u] \in Pointers
        BY DEF TextsRight, TextsTyped
      <3> QED
        BY <3>1, <3>2, PointerKinds, PointersDiffer DEF TextsRight, TextsStay, Chars
    <2> QED
      BY <2>1, <2>2
  <1> QED
    BY <1>1, <1>2 DEF TextsRight, TextsStay

(* A read that has spoilt the buffer returns "".                           *)
LEMMA ReturnsNoLine ==
    ASSUME TextsRight, NEW v, Returns(v, Own(<<>>), <<>>, {FileBuf}),
           in_buf' = in_buf, file_buf' \in Text
    PROVE  TextsRight'
  <1>0. <<>> \in Text
    BY DEF Text
  <1>1. TextsTyped'
    BY <1>0, ReturnsTyped, PointersDiffer DEF TextsRight, TextsTyped
  <1>2. ASSUME NEW u \in Vars, fresh'[u] PROVE Chars(u)' = meant'[u]
    <2>1. CASE u = v
      BY <1>0, <2>1, PointersDiffer DEF Returns, Chars
    <2>2. CASE u # v
      <3>1. fresh[u] /\ var'[u] = var[u] /\ meant'[u] = meant[u] /\ var[u] # FileBuf
        BY <1>2, <2>2 DEF Returns
      <3>2. var[u] \in Pointers
        BY DEF TextsRight, TextsTyped
      <3> QED
        BY <3>1, <3>2, PointerKinds, PointersDiffer DEF TextsRight, TextsStay, Chars
    <2> QED
      BY <2>1, <2>2
  <1> QED
    BY <1>1, <1>2 DEF TextsRight, TextsStay

LEMMA OverwrittenTyped ==
    ASSUME NEW read \in Text, file_buf \in Text, NEW b \in Overwritten(read)
    PROVE  b \in Text
  <1>0. Len(read) \in Nat /\ Len(file_buf) \in Nat
    BY DEF Text
  <1>1. CASE Len(read) <= Len(file_buf)
    <2>1. SubSeq(file_buf, Len(read) + 1, Len(file_buf)) \in Text
      BY <1>0 DEF Text
    <2> QED
      BY <1>1, <2>1, ConcatProperties DEF Text, Overwritten
  <1>2. CASE ~(Len(read) <= Len(file_buf))
    <2>1. PICK n \in 0..(BufSize - 1 - Len(read)) : b = read \o [k \in 1..n |-> Stale]
      BY <1>2 DEF Overwritten
    <2>2. n \in Nat
      BY <1>0, RuntimeAssumption
    <2>3. [k \in 1..n |-> Stale] \in Text
      <3>1. \A k \in 1..n : Stale \in STRING
        BY TextsAssumption
      <3> QED
        BY <2>2, <3>1, IsASeq DEF Text
    <2> QED
      BY <2>1, <2>3, ConcatProperties DEF Text
  <1> QED
    BY <1>1, <1>2

LEMMA OverwrittenByNone ==
    ASSUME TextsRight
    PROVE  Overwritten(<<>>) = {file_buf}
  <1>1. file_buf \in Text /\ Len(file_buf) \in Nat /\ Len(<<>>) = 0
    BY DEF TextsRight, TextsTyped, Text
  <1>2. <<>> \o SubSeq(file_buf, 1, Len(file_buf)) = file_buf
    BY <1>1 DEF Text
  <1>3. Overwritten(<<>>) = {<<>> \o SubSeq(file_buf, 0 + 1, Len(file_buf))}
    BY <1>1 DEF Overwritten
  <1> QED
    BY <1>2, <1>3

(* rt_text_slice: the bounds it comes to, and what lies between them.      *)
SliceFrom(i) == IF i < 0 THEN 0 ELSE i
SliceTo(s, i, j) ==
    LET last == IF j > Len(s) THEN Len(s) ELSE j IN
    IF last < SliceFrom(i) THEN SliceFrom(i) ELSE last

LEMMA SliceTakes ==
    ASSUME NEW s \in Text, NEW i \in Int, NEW j \in Int
    PROVE  /\ SliceFrom(i) \in Nat /\ SliceTo(s, i, j) \in Nat /\ SliceFrom(i) <= SliceTo(s, i, j)
           /\ rt_text_slice(s, i, j) =
                 [k \in 1..(SliceTo(s, i, j) - SliceFrom(i)) |-> s[SliceFrom(i) + k]]
           /\ \A k \in 1..(SliceTo(s, i, j) - SliceFrom(i)) : SliceFrom(i) + k \in 1..Len(s)
           /\ {k \in 1..Len(s) : i < k /\ k <= j} = (SliceFrom(i) + 1)..SliceTo(s, i, j)
  <1>1. Len(s) \in Nat
    BY DEF Text
  <1>2. SliceFrom(i) \in Nat /\ SliceTo(s, i, j) \in Nat /\ SliceFrom(i) <= SliceTo(s, i, j)
    BY <1>1 DEF SliceFrom, SliceTo
  <1>3. rt_text_slice(s, i, j) =
            [k \in 1..(SliceTo(s, i, j) - SliceFrom(i)) |-> s[SliceFrom(i) + k]]
    BY DEF rt_text_slice, SliceFrom, SliceTo
  <1>4. \A k \in 1..(SliceTo(s, i, j) - SliceFrom(i)) : SliceFrom(i) + k \in 1..Len(s)
    BY <1>1 DEF SliceFrom, SliceTo
  <1>5. {k \in 1..Len(s) : i < k /\ k <= j} = (SliceFrom(i) + 1)..SliceTo(s, i, j)
    BY <1>1 DEF SliceFrom, SliceTo
  <1> QED
    BY <1>2, <1>3, <1>4, <1>5

LEMMA SliceTyped ==
    ASSUME NEW s \in Text, NEW i \in Int, NEW j \in Int
    PROVE  rt_text_slice(s, i, j) \in Text
  <1> DEFINE from == SliceFrom(i)
             n == SliceTo(s, i, j) - from
  <1>1. from \in Nat /\ n \in Nat
    BY SliceTakes
  <1>2. rt_text_slice(s, i, j) = [k \in 1..n |-> s[from + k]]
    BY SliceTakes
  <1>3. \A k \in 1..n : from + k \in 1..Len(s)
    BY SliceTakes
  <1> HIDE DEF from, n
  <1>4. \A k \in 1..n : s[from + k] \in STRING
    BY <1>3 DEF Text
  <1> QED
    BY <1>1, <1>2, <1>4, IsASeq DEF Text

(* str_slice in every state is what the documentation says.                *)
LEMMA SliceMeans ==
    ASSUME TextsTyped
    PROVE  SliceDocumented
  <1> SUFFICES ASSUME NEW v \in Vars, NEW i \in (-1)..(MaxText + 1), NEW j \in (-1)..(MaxText + 1)
               PROVE  LET s == Chars(v)
                          within == {k \in 1..Len(s) : i < k /\ k <= j}
                      IN  /\ Len(rt_text_slice(s, i, j)) = Cardinality(within)
                          /\ \A k \in within :
                                rt_text_slice(s, i, j)[k - (IF i < 0 THEN 0 ELSE i)] = s[k]
    BY DEF SliceDocumented
  <1> DEFINE s == Chars(v)
             within == {k \in 1..Len(s) : i < k /\ k <= j}
             from == SliceFrom(i)
             to == SliceTo(s, i, j)
  <1>1. s \in Text /\ i \in Int /\ j \in Int
    BY CharsTyped, RuntimeAssumption
  <1> HIDE DEF s
  <1>2. from \in Nat /\ to \in Nat /\ from <= to
    BY <1>1, SliceTakes
  <1>3. rt_text_slice(s, i, j) = [k \in 1..(to - from) |-> s[from + k]]
    BY <1>1, SliceTakes
  <1>4. within = (from + 1)..to
    BY <1>1, SliceTakes
  <1>5. from = IF i < 0 THEN 0 ELSE i
    BY DEF SliceFrom
  <1> HIDE DEF within, from, to
  <1>6. Len(rt_text_slice(s, i, j)) = to - from
    BY <1>2, <1>3
  <1>7. Cardinality(within) = to - from
    <2>1. Cardinality((from + 1)..to) = IF from + 1 > to THEN 0 ELSE to - (from + 1) + 1
      BY <1>2, FS_Interval
    <2> QED
      BY <1>2, <1>4, <2>1
  <1>8. ASSUME NEW k \in within PROVE rt_text_slice(s, i, j)[k - from] = s[k]
    <2>1. k \in (from + 1)..to
      BY <1>4
    <2>2. k - from \in 1..(to - from) /\ from + (k - from) = k
      BY <1>2, <2>1
    <2> QED
      BY <1>3, <2>2
  <1> QED
    BY <1>5, <1>6, <1>7, <1>8 DEF s, within

(* What a line of input becomes.                                           *)
LEMMA LineTyped ==
    ASSUME NEW s \in Text, NEW m \in 1..Len(s)
    PROVE  /\ SubSeq(s, 1, m) \in Text /\ Len(SubSeq(s, 1, m)) = m
           /\ LineOfInput(SubSeq(s, 1, m)) \in Text
           /\ LineOfInput(SubSeq(s, 1, m)) =
                 IF s[m] = NL THEN SubSeq(s, 1, m - 1) ELSE SubSeq(s, 1, m)
  <1>0. Len(s) \in Nat
    BY DEF Text
  <1> DEFINE r == SubSeq(s, 1, m)
  <1>1. r \in Text /\ Len(r) = m /\ r # <<>> /\ r[m] = s[m]
    BY <1>0 DEF Text
  <1>2. SubSeq(r, 1, m - 1) = SubSeq(s, 1, m - 1) /\ SubSeq(s, 1, m - 1) \in Text
    BY <1>0 DEF Text
  <1> HIDE DEF r
  <1>3. LineOfInput(r) = IF s[m] = NL THEN SubSeq(s, 1, m - 1) ELSE r
    BY <1>1, <1>2 DEF LineOfInput, Last, Front
  <1> QED
    BY <1>1, <1>2, <1>3 DEF r

-------------------------------------------------------------------------------
(***************************************************************************)
(* The input.  Each read takes characters it drops, then characters it     *)
(* returns, then characters it drops, any of these none at all.            *)
(***************************************************************************)
Kept(lost, n) == (1..n) \ lost

(* What a read may drop, seen from the rest of the input.                  *)
MayDrop(s, i) == s[i] \in Blanks \/ (s[i] \in Signs /\ (i = Len(s) \/ s[i + 1] \notin Digits))
AllDroppable(s, from, to) == \A i \in (from + 1)..to : MayDrop(s, i)

LEMMA KeptFinite ==
    ASSUME NEW lost, NEW n \in Nat
    PROVE  IsFiniteSet(Kept(lost, n)) /\ Cardinality(Kept(lost, n)) \in Nat
  <1>1. IsFiniteSet(1..n)
    BY FS_Interval
  <1>2. IsFiniteSet(Kept(lost, n))
    BY <1>1, FS_Subset DEF Kept
  <1> QED
    BY <1>2, FS_CardinalityType

(* After a read of c+1..n that kept d+1..e of it.                          *)
Dropped(lost, c, d, e, n) == (lost \cap (1..c)) \cup ((c + 1)..d) \cup ((e + 1)..n)

LEMMA KeptGrows ==
    ASSUME NEW lost, NEW c \in Nat, NEW d \in Nat, NEW e \in Nat, NEW n \in Nat, NEW p \in Nat,
           c <= d, d <= p, p <= e, e <= n
    PROVE  Cardinality(Kept(Dropped(lost, c, d, e, n), p)) = Cardinality(Kept(lost, c)) + (p - d)
  <1> DEFINE gone == Dropped(lost, c, d, e, n)
  <1>1. Kept(gone, p) = Kept(lost, c) \cup ((d + 1)..p)
    BY DEF Kept, Dropped
  <1>2. Kept(lost, c) \cap ((d + 1)..p) = {}
    BY DEF Kept
  <1>3. IsFiniteSet((d + 1)..p) /\ Cardinality((d + 1)..p) = p - d
    <2>1. /\ IsFiniteSet((d + 1)..p)
          /\ Cardinality((d + 1)..p) = IF d + 1 > p THEN 0 ELSE p - (d + 1) + 1
      BY FS_Interval
    <2> QED
      BY <2>1
  <1>4. IsFiniteSet(Kept(lost, c)) /\ Cardinality(Kept(lost, c)) \in Nat
    BY KeptFinite
  <1>5. Cardinality(Kept(lost, c) \cap ((d + 1)..p)) = 0
    BY <1>2, FS_EmptySet
  <1>6. Cardinality(Kept(lost, c) \cup ((d + 1)..p)) =
            Cardinality(Kept(lost, c)) + Cardinality((d + 1)..p)
                - Cardinality(Kept(lost, c) \cap ((d + 1)..p))
    BY <1>3, <1>4, FS_Union
  <1> QED
    BY <1>1, <1>3, <1>4, <1>5, <1>6

Noticed(in, lost, n, got) ==
    /\ Len(got) = Cardinality(Kept(lost, n))
    /\ \A p \in Kept(lost, n) : got[Cardinality(Kept(lost, p))] = in[p]

LEMMA NoticedMore ==
    ASSUME NEW in, NEW lost, NEW c \in Nat, NEW d \in Nat, NEW e \in Nat, NEW n \in Nat,
           c <= d, d <= e, e <= n,
           NEW got \in Text, NEW more \in Text, Noticed(in, lost, c, got),
           Len(more) = e - d, \A i \in 1..(e - d) : more[i] = in[d + i]
    PROVE  Noticed(in, Dropped(lost, c, d, e, n), n, got \o more)
  <1> DEFINE gone == Dropped(lost, c, d, e, n)
  <1>1. Kept(gone, n) = Kept(gone, e)
    BY DEF Kept, Dropped
  <1>2. Cardinality(Kept(gone, e)) = Cardinality(Kept(lost, c)) + (e - d)
    <2>1. e <= e
      OBVIOUS
    <2> QED
      BY <2>1, KeptGrows
  <1>3. Len(got) = Cardinality(Kept(lost, c)) /\ Len(got) \in Nat
    BY DEF Noticed, Text
  <1>4. Len(got \o more) = Len(got) + (e - d)
    BY ConcatProperties DEF Text
  <1>5. ASSUME NEW p \in Kept(gone, e) PROVE (got \o more)[Cardinality(Kept(gone, p))] = in[p]
    <2>1. p \in 1..e /\ p \notin gone
      BY DEF Kept
    <2>2. CASE p <= c
      <3>1. p \in Kept(lost, c) /\ p \in Kept(lost, p) /\ Kept(lost, p) \subseteq Kept(lost, c)
            /\ Kept(gone, p) = Kept(lost, p)
        BY <2>1, <2>2 DEF Kept, Dropped
      <3>2. got[Cardinality(Kept(lost, p))] = in[p]
        BY <3>1 DEF Noticed
      <3>3. Cardinality(Kept(lost, p)) <= Len(got)
        BY <1>3, <3>1, KeptFinite, FS_Subset
      <3>4. Cardinality(Kept(lost, p)) \in Nat \ {0}
        <4>1. IsFiniteSet(Kept(lost, p)) /\ Cardinality(Kept(lost, p)) \in Nat
          BY <2>1, KeptFinite
        <4> QED
          BY <3>1, <4>1, FS_EmptySet
      <3> QED
        BY <1>3, <3>1, <3>2, <3>3, <3>4 DEF Text
    <2>3. CASE c < p
      <3>1. p \in Nat /\ d < p /\ p <= e
        BY <2>1, <2>3 DEF Dropped
      <3>2. Cardinality(Kept(gone, p)) = Len(got) + (p - d)
        <4>1. Cardinality(Kept(gone, p)) = Cardinality(Kept(lost, c)) + (p - d)
          BY <3>1, KeptGrows
        <4> QED
          BY <1>3, <4>1
      <3>3. (got \o more)[Len(got) + (p - d)] = more[p - d]
        <4> DEFINE q == p - d
        <4>1. q \in 1..Len(more) /\ Len(got) + q \in 1..(Len(got) + Len(more))
          BY <1>3, <3>1
        <4> HIDE DEF q
        <4>2. (got \o more)[Len(got) + q] = more[q]
          <5>1. \A i \in 1..(Len(got) + Len(more)) :
                    (got \o more)[i] = IF i <= Len(got) THEN got[i] ELSE more[i - Len(got)]
            BY ConcatProperties DEF Text
          <5>2. ~(Len(got) + q <= Len(got)) /\ (Len(got) + q) - Len(got) = q
            BY <1>3, <4>1
          <5> QED
            BY <4>1, <5>1, <5>2
        <4> QED
          BY <4>2 DEF q
      <3>4. p - d \in 1..(e - d) /\ d + (p - d) = p
        BY <3>1
      <3>5. more[p - d] = in[d + (p - d)]
        BY <3>4
      <3> QED
        BY <3>2, <3>3, <3>4, <3>5
    <2>4. p <= c \/ c < p
      BY <2>1
    <2> QED
      BY <2>2, <2>3, <2>4
  <1> QED
    BY <1>1, <1>2, <1>3, <1>4, <1>5 DEF Noticed

LEMMA NoticedIsAsked ==
    NothingUnasked <=>
        \E lost \in SUBSET Droppable : Noticed(input, lost, Len(input) - Len(stdin), asked)
  BY DEF NothingUnasked, Noticed, Kept

LEMMA InputQuiet ==
    ASSUME InputRight, Input
    PROVE  InputRight'
  BY DEF InputRight, InputTyped, NothingUnasked, Droppable, Input

(* A part of a text.                                                       *)
LEMMA PartOf ==
    ASSUME NEW s \in Text, NEW x \in Nat, NEW y \in Nat, x <= y, y <= Len(s)
    PROVE  /\ SubSeq(s, x + 1, y) \in Text
           /\ Len(SubSeq(s, x + 1, y)) = y - x
           /\ \A i \in 1..(y - x) : SubSeq(s, x + 1, y)[i] = s[x + i]
  <1>1. Len(s) \in Nat
    BY DEF Text
  <1>2. SubSeq(s, x + 1, y) \in Text
    BY <1>1 DEF Text
  <1>3. Len(SubSeq(s, x + 1, y)) = y - x
    BY <1>1 DEF Text
  <1>4. \A i \in 1..(y - x) : SubSeq(s, x + 1, y)[i] = s[x + i]
    BY <1>1 DEF Text
  <1> QED
    BY <1>2, <1>3, <1>4

(* The end of an end of a text.                                            *)
LEMMA EndOfEnd ==
    ASSUME NEW s \in Text, NEW x \in Nat, NEW m \in Nat, x + m <= Len(s)
    PROVE  SubSeq(SubSeq(s, x + 1, Len(s)), m + 1, Len(s) - x) = SubSeq(s, (x + m) + 1, Len(s))
  <1> DEFINE t == SubSeq(s, x + 1, Len(s))
             u == SubSeq(t, m + 1, Len(s) - x)
             w == SubSeq(s, (x + m) + 1, Len(s))
  <1>0. Len(s) \in Nat /\ x <= Len(s) /\ Len(s) - x \in Nat /\ m <= Len(s) - x /\ x + m \in Nat
    BY DEF Text
  <1>1. t \in Text /\ Len(t) = Len(s) - x /\ \A i \in 1..(Len(s) - x) : t[i] = s[x + i]
    BY <1>0, PartOf
  <1> HIDE DEF t
  <1>2. /\ u \in Text /\ Len(u) = (Len(s) - x) - m
        /\ \A i \in 1..((Len(s) - x) - m) : u[i] = t[m + i]
    <2>1. Len(s) - x <= Len(t)
      BY <1>0, <1>1
    <2> QED
      BY <1>0, <1>1, <2>1, PartOf
  <1>3. /\ w \in Text /\ Len(w) = Len(s) - (x + m)
        /\ \A i \in 1..(Len(s) - (x + m)) : w[i] = s[(x + m) + i]
    <2>1. Len(s) <= Len(s)
      BY <1>0
    <2> QED
      BY <1>0, <2>1, PartOf
  <1> HIDE DEF u, w
  <1>4. (Len(s) - x) - m = Len(s) - (x + m)
    BY <1>0
  <1>5. ASSUME NEW i \in 1..Len(u) PROVE u[i] = w[i]
    <2>1. m + i \in 1..(Len(s) - x) /\ x + (m + i) = (x + m) + i /\ i \in 1..(Len(s) - (x + m))
      BY <1>0, <1>2
    <2>2. u[i] = t[m + i] /\ t[m + i] = s[x + (m + i)] /\ w[i] = s[(x + m) + i]
      BY <1>1, <1>2, <1>3, <1>4, <2>1
    <2> QED
      BY <2>1, <2>2
  <1>6. u = w
    BY <1>2, <1>3, <1>4, <1>5, SeqEqual DEF Text
  <1> QED
    BY <1>6 DEF u, w, t

LEMMA InputReadOn ==
    ASSUME InputRight, input' = input, NEW a \in Nat, NEW b \in Nat, NEW m \in Nat,
           a <= b, b <= m, m <= Len(stdin),
           AllDroppable(stdin, 0, a), AllDroppable(stdin, b, m),
           stdin' = SubSeq(stdin, m + 1, Len(stdin)),
           asked' = asked \o SubSeq(stdin, a + 1, b)
    PROVE  InputRight'
  <1> DEFINE k == Len(stdin)
             n == Len(input)
             c == n - k
             more == SubSeq(stdin, a + 1, b)
  <1>0. input \in Text /\ stdin \in Text /\ stdin = SubSeq(input, c + 1, n)
    BY DEF InputRight, InputTyped
  <1>1. k \in Nat /\ n \in Nat /\ k <= n /\ c \in Nat /\ n - c = k /\ c <= n
        /\ n - (k - m) = c + m
    BY DEF InputRight, InputTyped, Text
  <1> HIDE DEF k, n, c
  <1>2. \A i \in 1..k : stdin[i] = input[c + i]
    <2>1. n <= Len(input)
      BY <1>1 DEF n
    <2>2. \A i \in 1..(n - c) : SubSeq(input, c + 1, n)[i] = input[c + i]
      BY <1>0, <1>1, <2>1, PartOf
    <2> QED
      BY <1>0, <1>1, <2>2
  <1>3. more \in Text /\ Len(more) = b - a /\ \A i \in 1..(b - a) : more[i] = stdin[a + i]
    <2>1. b <= Len(stdin)
      BY <1>1 DEF k
    <2> QED
      BY <1>0, <2>1, PartOf
  <1> HIDE DEF more
  <1>4. /\ stdin' \in Text /\ Len(stdin') = k - m
        /\ stdin' = SubSeq(input, (c + m) + 1, n) /\ m <= k
    <2>1. m <= k
      BY DEF k
    <2>2. SubSeq(stdin, m + 1, k) \in Text /\ Len(SubSeq(stdin, m + 1, k)) = k - m
      <3>1. k <= Len(stdin) /\ k = Len(stdin)
        BY <1>1 DEF k
      <3> QED
        BY <1>0, <1>1, <2>1, <3>1, PartOf
    <2>3. SubSeq(SubSeq(input, c + 1, n), m + 1, n - c) = SubSeq(input, (c + m) + 1, n)
      BY <1>0, <1>1, <2>1, EndOfEnd DEF n
    <2>4. SubSeq(stdin, m + 1, k) = SubSeq(input, (c + m) + 1, n)
      BY <1>0, <1>1, <2>3
    <2> QED
      BY <2>1, <2>2, <2>4 DEF k
  <1>5. PICK lost \in SUBSET Droppable : Noticed(input, lost, c, asked)
    BY NoticedIsAsked DEF InputRight, c, n, k
  <1>6. asked \in Text /\ asked' = asked \o more /\ asked' \in Text
    BY <1>3, ConcatProperties DEF InputRight, InputTyped, Text, more
  <1> DEFINE gone == Dropped(lost, c, c + a, c + b, c + m)
  <1>7. gone \in SUBSET Droppable
    <2> SUFFICES ASSUME NEW p \in gone, p \notin lost PROVE p \in Droppable
      OBVIOUS
    <2>1. p \in (c + 1)..(c + a) \/ p \in (c + b + 1)..(c + m)
      BY DEF Dropped
    <2> DEFINE i == p - c
    <2>2. i \in 1..k /\ c + i = p /\ p \in 1..n /\ (i \in (0 + 1)..a \/ i \in (b + 1)..m)
      <3>1. a \in Nat /\ b \in Nat /\ m \in Nat /\ a <= b /\ b <= m /\ m <= k
            /\ c \in Nat /\ k \in Nat /\ n \in Nat /\ n = c + k
        BY <1>1, <1>4
      <3>2. CASE p \in (c + 1)..(c + a)
        BY <3>1, <3>2
      <3>3. CASE p \in (c + b + 1)..(c + m)
        BY <3>1, <3>3
      <3> QED
        BY <2>1, <3>2, <3>3
    <2> HIDE DEF i
    <2>3. MayDrop(stdin, i)
      BY <2>2 DEF AllDroppable
    <2>4. input[p] = stdin[i] /\ (i = k => p = n)
      BY <1>1, <1>2, <2>2
    <2>5. i # k => stdin[i + 1] = input[p + 1]
      <3> SUFFICES ASSUME i # k PROVE stdin[i + 1] = input[p + 1]
        OBVIOUS
      <3>1. i + 1 \in 1..k /\ c + (i + 1) = p + 1
        BY <1>1, <2>2
      <3> QED
        BY <1>2, <3>1
    <2>6. DOMAIN input = 1..n
      BY <1>0 DEF Text, n
    <2> QED
      BY <2>2, <2>3, <2>4, <2>5, <2>6 DEF MayDrop, Droppable, k, n
  <1>8. \A i \in 1..((c + b) - (c + a)) : more[i] = input[(c + a) + i]
    <2>1. ASSUME NEW i \in 1..(b - a) PROVE more[i] = input[(c + a) + i]
      <3>1. a + i \in 1..k /\ c + (a + i) = (c + a) + i
        BY <1>1, <1>4
      <3>2. more[i] = stdin[a + i] /\ stdin[a + i] = input[c + (a + i)]
        BY <1>2, <1>3, <3>1
      <3> QED
        BY <3>1, <3>2
    <2>2. (c + b) - (c + a) = b - a
      BY <1>1
    <2> QED
      BY <2>1, <2>2
  <1>9. c + a \in Nat /\ c + b \in Nat /\ c + m \in Nat /\ c + a <= c + b /\ c + b <= c + m
        /\ c <= c + a /\ b - a = (c + b) - (c + a) /\ c + m <= n
    BY <1>1, <1>4
  <1>10. Noticed(input, gone, c + m, asked \o more)
    <2>1. Len(more) = (c + b) - (c + a)
      BY <1>3, <1>9
    <2> QED
      BY <1>1, <1>3, <1>5, <1>8, <1>9, <2>1, NoticedMore DEF InputRight, InputTyped
  <1> HIDE DEF gone
  <1>11. InputTyped'
    <2>1. input' \in Text /\ stdin' \in Text /\ asked' \in Text
      BY <1>0, <1>4, <1>6
    <2>2. Len(input') = n
      BY DEF n
    <2>3. Len(stdin') = k - m /\ k - m <= n /\ n - (k - m) = c + m
      BY <1>1, <1>4
    <2> QED
      BY <1>4, <2>1, <2>2, <2>3 DEF InputTyped
  <1>12. NothingUnasked'
    <2>1. Len(input') - Len(stdin') = c + m
      BY <1>1, <1>4 DEF n
    <2>2. Droppable' = Droppable
      BY DEF Droppable
    <2>3. Noticed(input', gone, Len(input') - Len(stdin'), asked')
      BY <1>6, <1>10, <2>1
    <2> QED
      BY <1>7, <2>2, <2>3 DEF NothingUnasked, Noticed, Kept
  <1> QED
    BY <1>11, <1>12 DEF InputRight

(* blanks counts the blanks at the front.                                  *)
LEMMA BlanksTake ==
    ASSUME NEW s \in Text
    PROVE  blanks(s) \in 0..Len(s) /\ \A i \in 1..blanks(s) : s[i] \in Blanks
  <1> DEFINE I == {i \in 1..Len(s) : s[i] \notin Blanks}
             end == SelectInSeq(s, LAMBDA c : c \notin Blanks)
  <1>0. Len(s) \in Nat
    BY DEF Text
  <1>1. blanks(s) = IF end = 0 THEN Len(s) ELSE end - 1
    BY DEF blanks
  <1>2. CASE I = {}
    <2>1. end = 0
      BY <1>2 DEF SelectInSeq
    <2> HIDE DEF end
    <2> QED
      BY <1>0, <1>1, <1>2, <2>1
  <1>3. CASE I # {}
    <2>1. end = Min(I)
      BY <1>3 DEF SelectInSeq
    <2>2. Min(I) \in I /\ \A y \in I : Min(I) <= y
      <3>1. I \subseteq Nat
        BY <1>0
      <3> HIDE DEF I
      <3> QED
        BY <1>3, <3>1, MinIsLeast
    <2> HIDE DEF end
    <2>3. end \in 1..Len(s) /\ \A y \in I : end <= y
      BY <2>1, <2>2
    <2>4. blanks(s) = end - 1 /\ end - 1 \in 0..Len(s)
      BY <1>0, <1>1, <2>3
    <2>5. ASSUME NEW i \in 1..(end - 1), s[i] \notin Blanks PROVE FALSE
      <3>1. i \in 1..Len(s) /\ ~(end <= i)
        BY <1>0, <2>3
      <3>2. i \in I
        BY <2>5, <3>1
      <3> QED
        BY <2>3, <3>1, <3>2
    <2> QED
      BY <2>4, <2>5
  <1> QED
    BY <1>2, <1>3

(* number takes digits from the front, or finds none there.                *)
LEMMA NumberTakes ==
    ASSUME NEW s \in Text
    PROVE  \E q \in 0..Len(s) :
              number(s) = SubSeq(s, 1, q) /\ (q = 0 => Len(s) = 0 \/ s[1] \notin Digits)
  <1> DEFINE I == {i \in 1..Len(s) : s[i] \notin Digits}
             end == SelectInSeq(s, LAMBDA c : c \notin Digits)
  <1>0. Len(s) \in Nat /\ SubSeq(s, 1, Len(s)) = s
    BY DEF Text
  <1>1. number(s) = IF end = 0 THEN s ELSE SubSeq(s, 1, end - 1)
    BY DEF number
  <1>2. CASE I = {}
    <2>1. end = 0
      BY <1>2 DEF SelectInSeq
    <2> HIDE DEF end
    <2>2. number(s) = SubSeq(s, 1, Len(s)) /\ Len(s) \in 0..Len(s)
      BY <1>0, <1>1, <2>1
    <2> QED
      BY <2>2
  <1>3. CASE I # {}
    <2>1. end = Min(I)
      BY <1>3 DEF SelectInSeq
    <2>2. Min(I) \in I
      <3>1. I \subseteq Nat
        BY <1>0
      <3> HIDE DEF I
      <3> QED
        BY <1>3, <3>1, MinIsLeast
    <2> HIDE DEF end
    <2>3. end \in 1..Len(s) /\ s[end] \notin Digits
      BY <2>1, <2>2
    <2>4. number(s) = SubSeq(s, 1, end - 1) /\ end - 1 \in 0..Len(s) /\ (end - 1 = 0 => end = 1)
      BY <1>0, <1>1, <2>3
    <2> QED
      BY <2>3, <2>4
  <1> QED
    BY <1>2, <1>3

(* ask_int drops the blanks, and the sign too where no digit follows.      *)
LEMMA AskIntKeeps ==
    ASSUME InputRight, ask_int
    PROVE  InputRight'
  <1> DEFINE a == blanks(stdin)
             b == signed(stdin)
             rest == Behind(b)
             digits == number(rest)
             m == b + Len(digits)
  <1>0. stdin \in Text /\ Len(stdin) \in Nat
    BY DEF InputRight, InputTyped, Text
  <1>1. /\ input' = input /\ stdin' = Behind(m)
        /\ asked' = IF digits = <<>> THEN asked ELSE asked \o SubSeq(stdin, a + 1, m)
    BY DEF ask_int
  <1>2. a \in 0..Len(stdin) /\ \A i \in 1..a : stdin[i] \in Blanks
    BY <1>0, BlanksTake
  <1>3. b \in Nat /\ a <= b /\ b <= Len(stdin)
        /\ (b = a \/ (b = a + 1 /\ stdin[b] \in Signs))
    <2> HIDE DEF a
    <2>1. b = IF a < Len(stdin) /\ stdin[a + 1] \in Signs THEN a + 1 ELSE a
      BY DEF signed, a
    <2> HIDE DEF b
    <2> QED
      BY <1>0, <1>2, <2>1
  <1> HIDE DEF a, b
  <1>4. /\ rest \in Text /\ Len(rest) = Len(stdin) - b
        /\ \A i \in 1..(Len(stdin) - b) : rest[i] = stdin[b + i]
    <2>1. Len(stdin) <= Len(stdin)
      BY <1>0
    <2> QED
      BY <1>0, <1>3, <2>1, PartOf DEF Behind
  <1> HIDE DEF rest
  <1>5. PICK q \in 0..Len(rest) :
            digits = SubSeq(rest, 1, q) /\ (q = 0 => Len(rest) = 0 \/ rest[1] \notin Digits)
    BY <1>4, NumberTakes
  <1>6. Len(digits) = q /\ q \in Nat /\ q <= Len(rest)
    <2>1. q \in Nat /\ 0 \in Nat /\ 0 <= q /\ q <= Len(rest)
      BY <1>0, <1>3, <1>4
    <2>2. Len(SubSeq(rest, 0 + 1, q)) = q - 0
      BY <1>4, <2>1, PartOf
    <2> QED
      BY <1>5, <2>1, <2>2
  <1> HIDE DEF digits
  <1>7. m \in Nat /\ b <= m /\ m <= Len(stdin) /\ a \in Nat /\ a <= m /\ m <= m
    BY <1>0, <1>2, <1>3, <1>4, <1>6
  <1>8. CASE q = 0
    <2>1. digits = <<>> /\ m = b
      BY <1>3, <1>4, <1>5, <1>6, <1>8
    <2>2. AllDroppable(stdin, 0, m)
      <3> SUFFICES ASSUME NEW i \in (0 + 1)..m PROVE MayDrop(stdin, i)
        BY DEF AllDroppable
      <3>1. CASE i <= a
        BY <1>2, <1>7, <3>1 DEF MayDrop
      <3>2. CASE a < i
        <4>1. i = b /\ stdin[b] \in Signs
          BY <1>2, <1>3, <2>1, <3>2
        <4>2. i = Len(stdin) \/ stdin[i + 1] \notin Digits
          <5>1. CASE Len(rest) = 0
            BY <1>0, <1>3, <1>4, <4>1, <5>1
          <5>2. CASE Len(rest) # 0
            <6>1. 1 \in 1..(Len(stdin) - b)
              BY <1>0, <1>3, <1>4, <5>2
            <6> QED
              BY <1>4, <1>5, <1>8, <4>1, <5>2, <6>1
          <5> QED
            BY <5>1, <5>2
        <4> QED
          BY <4>1, <4>2 DEF MayDrop
      <3> QED
        BY <1>2, <3>1, <3>2
    <2>3. AllDroppable(stdin, m, m)
      BY <1>7 DEF AllDroppable
    <2>4. asked' = asked \o SubSeq(stdin, m + 1, m)
      <3>1. SubSeq(stdin, m + 1, m) = <<>>
        BY <1>0, <1>7 DEF Text
      <3>2. asked \o <<>> = asked
        BY DEF InputRight, InputTyped, Text
      <3> QED
        BY <1>1, <2>1, <3>1, <3>2
    <2> HIDE DEF m
    <2> QED
      BY <1>1, <1>7, <2>2, <2>3, <2>4, InputReadOn DEF Behind
  <1>9. CASE q # 0
    <2>1. digits # <<>>
      BY <1>6, <1>9
    <2>2. AllDroppable(stdin, 0, a) /\ AllDroppable(stdin, m, m)
      BY <1>2, <1>7 DEF AllDroppable, MayDrop
    <2> HIDE DEF m
    <2> QED
      BY <1>1, <1>7, <2>1, <2>2, InputReadOn DEF Behind
  <1> QED
    BY <1>8, <1>9

(* ask_line takes the characters of a line, and its newline.               *)
LEMMA AskLineKeeps ==
    ASSUME TextsRight, InputRight, NEW v, ask_line(v)
    PROVE  TextsRight' /\ InputRight'
  <1>0. stdin \in Text /\ Len(stdin) \in Nat /\ <<>> \in Text
    BY DEF InputRight, InputTyped, Text
  <1>1. CASE stdin = <<>>
    <2>1. /\ Returns(v, Own(<<>>), <<>>, {}) /\ UNCHANGED <<in_buf, asked, stdin>>
          /\ UNCHANGED <<file_buf, input>>
      BY <1>1 DEF ask_line
    <2>2. TextsRight'
      BY <1>0, <2>1, ReturnsOwn
    <2>3. InputRight'
      BY <2>1, InputQuiet DEF Input
    <2> QED
      BY <2>2, <2>3
  <1>2. CASE stdin # <<>>
    <2> DEFINE read == fgets(stdin)
    <2>1. /\ in_buf' = LineOfInput(read) /\ Returns(v, InBuf, LineOfInput(read), {InBuf})
          /\ asked' = asked \o LineOfInput(read) /\ stdin' = Behind(Len(read))
          /\ file_buf' = file_buf /\ input' = input
      BY <1>2 DEF ask_line
    <2>2. PICK m \in 1..Len(stdin) : Took(stdin, m)
      BY <1>0, <1>2, FgetsTakes
    <2>3. read = SubSeq(stdin, 1, m)
      BY <2>2 DEF Took
    <2> HIDE DEF read
    <2>4. /\ Len(read) = m /\ LineOfInput(read) \in Text
          /\ LineOfInput(read) = IF stdin[m] = NL THEN SubSeq(stdin, 1, m - 1) ELSE SubSeq(stdin, 1, m)
      BY <1>0, <2>3, LineTyped
    <2>5. TextsRight'
      BY <2>1, <2>4, ReturnsInBuf
    <2> DEFINE b == IF stdin[m] = NL THEN m - 1 ELSE m
    <2>6. LineOfInput(read) = SubSeq(stdin, 0 + 1, b)
      BY <2>4
    <2>7. b \in Nat /\ m \in Nat /\ 0 \in Nat /\ 0 <= b /\ b <= m /\ m <= Len(stdin)
      BY <1>0, <2>2
    <2>8. AllDroppable(stdin, 0, 0)
      BY DEF AllDroppable
    <2>9. AllDroppable(stdin, b, m)
      <3> SUFFICES ASSUME NEW i \in (b + 1)..m PROVE stdin[i] = NL
        BY DEF AllDroppable, MayDrop, Blanks
      <3> QED
        BY <2>7
    <2>10. stdin' = SubSeq(stdin, m + 1, Len(stdin))
      BY <2>1, <2>4 DEF Behind
    <2> HIDE DEF b
    <2>11. InputRight'
      BY <2>1, <2>6, <2>7, <2>8, <2>9, <2>10, InputReadOn
    <2> QED
      BY <2>5, <2>11
  <1> QED
    BY <1>1, <1>2

(* join and str_slice make texts of their own.                             *)
LEMMA NewTextKeeps ==
    ASSUME TextsRight, NEW u, NEW text \in Text, NewText(u, text)
    PROVE  TextsRight'
  <1>1. \E made \in {text, <<>>} : Returns(u, Own(made), made, {})
    BY DEF NewText
  <1>2. PICK made \in {text, <<>>} : Returns(u, Own(made), made, {})
    BY <1>1
  <1>3. made \in Text
    <2>1. <<>> \in Text
      BY DEF Text
    <2> QED
      BY <1>2, <2>1
  <1>4. in_buf' = in_buf /\ file_buf' = file_buf
    BY DEF NewText, Input
  <1> QED
    BY <1>2, <1>3, <1>4, ReturnsOwn

-------------------------------------------------------------------------------
(***************************************************************************)
(* The files.                                                              *)
(***************************************************************************)
LEMMA FilesQuiet ==
    ASSUME FilesRight, Streams, halted' = halted
    PROVE  FilesRight'
  <1> USE DEF Streams
  <1>1. FilesTyped'
    BY DEF FilesRight, FilesTyped
  <1>2. NothingLost'
    BY DEF FilesRight, NothingLost, UpToDate
  <1>3. HaltedClosed'
    BY DEF FilesRight, HaltedClosed, Is
  <1>4. ReadersReady'
    BY DEF FilesRight, ReadersReady, Is
  <1>5. LinesMakeTheFile'
    BY DEF FilesRight, LinesMakeTheFile, Is
  <1> QED
    BY <1>1, <1>2, <1>3, <1>4, <1>5 DEF FilesRight

(* What a stream may be, and what its reads have returned, one at a time.  *)
LEMMA Kinds ==
    /\ Closed \in StreamKinds /\ Closed.is = "closed"
    /\ NULL \in StreamKinds /\ NULL.is = "null"
    /\ \A f \in Files : /\ Writer(f) \in StreamKinds /\ Writer(f).is = "writer" /\ Writer(f).file = f
                        /\ Writer(f).linked /\ Writer(f).waiting = <<>>
                        /\ Reader(f) \in StreamKinds /\ Reader(f).is = "reader" /\ Reader(f).file = f
                        /\ Reader(f).text = None /\ Reader(f).pos = 0 /\ ~Reader(f).eof
                        /\ ~Reader(f).error
  <1>1. <<>> \in Text
    BY DEF Text
  <1> QED
    BY <1>1 DEF Closed, NULL, Writer, Reader, StreamKinds

LEMMA KindOf ==
    ASSUME NEW s \in StreamKinds
    PROVE  \/ s.is = "closed" /\ s = Closed
           \/ s.is = "null" /\ s = NULL
           \/ /\ s.is = "reader" /\ s.file \in Files /\ s.text \in Text \cup {None}
              /\ s.pos \in Nat /\ s.eof \in BOOLEAN /\ s.error \in BOOLEAN
           \/ s.is = "writer" /\ s.file \in Files /\ s.linked \in BOOLEAN /\ s.waiting \in Text
  BY DEF Closed, NULL, StreamKinds

GoodLines(s, got) ==
    s.is = "reader" /\ s.text # None /\ ~s.error =>
        /\ FlattenSeq(got) = SubSeq(s.text, 1, s.pos)
        /\ \A k \in DOMAIN got :
              \/ got[k] # <<>> /\ (Last(got[k]) = NL \/ Len(got[k]) = BufSize - 1)
              \/ FlattenSeq(SubSeq(got, 1, k)) = s.text
        /\ s.eof => FlattenSeq(got) = s.text

LEMMA LinesOneByOne ==
    LinesMakeTheFile <=> \A h \in Handles : GoodLines(stream[h], pieces[h])
  BY DEF LinesMakeTheFile, GoodLines, Is

GoodReader(s, got, files) ==
    /\ s.is = "closed" => got = <<>>
    /\ s.is = "reader" /\ s.text = None =>
          files[s.file] \in Text /\ s.pos = 0 /\ (~s.error => got = <<>>) /\ ~s.eof
    /\ s.is = "reader" /\ s.text # None => s.pos <= Len(s.text)

LEMMA ReadersOneByOne ==
    ReadersReady <=> \A h \in Handles : GoodReader(stream[h], pieces[h], content)
  BY DEF ReadersReady, GoodReader, Is

(* A file whose writer stays as it is, and a file without one.             *)
SameWriters(s, t, f) ==
    \A g \in Handles :
        /\ Into(t[g], f) => Into(s[g], f) /\ t[g].waiting = s[g].waiting
        /\ Into(s[g], f) => Into(t[g], f)

LEMMA SameWriter ==
    ASSUME NEW s, NEW t, NEW f, NEW has, NEW due, UpToDate(s, f, has, due), SameWriters(s, t, f)
    PROVE  UpToDate(t, f, has, due)
  BY DEF UpToDate, SameWriters

LEMMA NoWriter ==
    ASSUME NEW t, NEW f, NEW has, \A g \in Handles : ~Into(t[g], f)
    PROVE  UpToDate(t, f, has, has)
  BY DEF UpToDate

(* Flushing brings a file up to date, or leaves it alone.                  *)
LEMMA FlushedSaves ==
    ASSUME FilesTyped, NothingLost, NEW hs \in SUBSET Handles, NEW f \in Files
    PROVE  /\ (\A h \in hs : ~Into(stream[h], f)) => Flushed(hs)[f] = content[f]
           /\ (\E h \in hs : Into(stream[h], f)) => Flushed(hs)[f] = saved[f] /\ saved[f] \in Text
  <1> DEFINE of == {h \in hs : Is(h, "writer") /\ stream[h].file = f /\ stream[h].linked}
  <1>1. Flushed(hs)[f] = IF of = {} THEN content[f]
                         ELSE content[f] \o stream[CHOOSE h \in of : TRUE].waiting
    BY DEF Flushed
  <1>2. of = {h \in hs : Into(stream[h], f)}
    BY DEF Into, Is
  <1> HIDE DEF of
  <1>3. ASSUME \A h \in hs : ~Into(stream[h], f) PROVE Flushed(hs)[f] = content[f]
    BY <1>1, <1>2, <1>3
  <1>4. ASSUME NEW h \in hs, Into(stream[h], f) PROVE Flushed(hs)[f] = saved[f] /\ saved[f] \in Text
    <2>1. h \in of
      BY <1>2, <1>4
    <2>2. \A g \in of : g = h
      BY <1>2, <1>4 DEF NothingLost, UpToDate
    <2>3. (CHOOSE g \in of : TRUE) = h
      BY <2>1, <2>2
    <2>4. Flushed(hs)[f] = content[f] \o stream[h].waiting
      BY <1>1, <2>1, <2>3
    <2>5. saved[f] = content[f] \o stream[h].waiting /\ content[f] \in Text
      BY <1>4 DEF NothingLost, UpToDate
    <2>6. stream[h].waiting \in Text
      BY <1>4, KindOf, Kinds DEF FilesTyped, Into
    <2> QED
      BY <2>4, <2>5, <2>6, ConcatProperties DEF Text
  <1> QED
    BY <1>3, <1>4

LEMMA FlushedTyped ==
    ASSUME FilesTyped, NothingLost, NEW hs \in SUBSET Handles
    PROVE  /\ Flushed(hs) \in [Files -> Text \cup {None}]
           /\ \A f \in Files : content[f] \in Text => Flushed(hs)[f] \in Text
  <1>1. Flushed(hs) = [f \in Files |-> Flushed(hs)[f]]
    BY DEF Flushed
  <1>2. ASSUME NEW f \in Files
        PROVE  /\ Flushed(hs)[f] \in Text \cup {None}
               /\ content[f] \in Text => Flushed(hs)[f] \in Text
    BY FlushedSaves DEF FilesTyped
  <1> QED
    BY <1>1, <1>2

(* The parts of FilesRight, in the next state, stream by stream.           *)
LEMMA FilesNext ==
    ASSUME FilesTyped', NothingLost', HaltedClosed',
           \A h \in Handles : GoodReader(stream'[h], pieces'[h], content'),
           \A h \in Handles : GoodLines(stream'[h], pieces'[h])
    PROVE  FilesRight'
  <1>1. ReadersReady'
    BY DEF ReadersReady, GoodReader, Is
  <1>2. LinesMakeTheFile'
    BY DEF LinesMakeTheFile, GoodLines, Is
  <1> QED
    BY <1>1, <1>2 DEF FilesRight

LEMMA FilesNow ==
    ASSUME FilesRight
    PROVE  /\ FilesTyped /\ NothingLost /\ HaltedClosed
           /\ \A h \in Handles : GoodReader(stream[h], pieces[h], content)
           /\ \A h \in Handles : GoodLines(stream[h], pieces[h])
  BY LinesOneByOne, ReadersOneByOne DEF FilesRight

(* file_open: what h was is closed, and has returned nothing.              *)
LEMMA FileOpenKeeps ==
    ASSUME FilesRight, ~halted, NEW h \in Handles, NEW f \in Files, NEW mode, file_open(h, f, mode)
    PROVE  FilesRight'
  <1>0. /\ FilesTyped /\ NothingLost
        /\ \A g \in Handles : GoodReader(stream[g], pieces[g], content)
        /\ \A g \in Handles : GoodLines(stream[g], pieces[g])
    BY FilesNow
  <1>1. stream[h].is = "closed" /\ pieces' = pieces /\ ~halted' /\ pieces[h] = <<>>
    BY <1>0 DEF file_open, Is, GoodReader
  <1>2. HaltedClosed'
    BY <1>1 DEF HaltedClosed
  <1>3. CASE stream' = [stream EXCEPT ![h] = NULL] /\ UNCHANGED <<content, saved>>
    <2>1. /\ stream'[h] = NULL /\ \A g \in Handles \ {h} : stream'[g] = stream[g]
      BY <1>0, <1>3 DEF FilesTyped
    <2>2. FilesTyped'
      BY <1>0, <1>1, <1>3, Kinds DEF FilesTyped
    <2>3. \A g \in Handles : stream'[g] # stream[g] => stream[g].is # "writer" /\ stream'[g].is # "writer"
      BY <1>1, <2>1, Kinds
    <2>4. NothingLost'
      <3> SUFFICES ASSUME NEW e \in Files PROVE UpToDate(stream', e, content'[e], saved'[e])
        BY DEF NothingLost
      <3>1. SameWriters(stream, stream', e)
        BY <2>3 DEF Into, SameWriters
      <3>2. UpToDate(stream, e, content'[e], saved'[e])
        BY <1>0, <1>3 DEF NothingLost
      <3> QED
        BY <3>1, <3>2, SameWriter
    <2>5. \A g \in Handles : GoodReader(stream'[g], pieces'[g], content')
      BY <1>0, <1>1, <1>3, <2>1, Kinds DEF GoodReader
    <2>6. \A g \in Handles : GoodLines(stream'[g], pieces'[g])
      BY <1>0, <1>1, <2>1, Kinds DEF GoodLines
    <2> QED
      BY <1>2, <2>2, <2>4, <2>5, <2>6, FilesNext
  <1>4. CASE content[f] # None /\ stream' = [stream EXCEPT ![h] = Reader(f)] /\ UNCHANGED <<content, saved>>
    <2>1. /\ stream'[h] = Reader(f) /\ \A g \in Handles \ {h} : stream'[g] = stream[g]
      BY <1>0, <1>4 DEF FilesTyped
    <2>2. FilesTyped'
      BY <1>0, <1>1, <1>4, Kinds DEF FilesTyped
    <2>3. \A g \in Handles : stream'[g] # stream[g] => stream[g].is # "writer" /\ stream'[g].is # "writer"
      BY <1>1, <2>1, Kinds
    <2>4. NothingLost'
      <3> SUFFICES ASSUME NEW e \in Files PROVE UpToDate(stream', e, content'[e], saved'[e])
        BY DEF NothingLost
      <3>1. SameWriters(stream, stream', e)
        BY <2>3 DEF Into, SameWriters
      <3>2. UpToDate(stream, e, content'[e], saved'[e])
        BY <1>0, <1>4 DEF NothingLost
      <3> QED
        BY <3>1, <3>2, SameWriter
    <2>5. content[f] \in Text
      BY <1>0, <1>4 DEF FilesTyped
    <2>6. \A g \in Handles : GoodReader(stream'[g], pieces'[g], content')
      BY <1>0, <1>1, <1>4, <2>1, <2>5, Kinds DEF GoodReader
    <2>7. \A g \in Handles : GoodLines(stream'[g], pieces'[g])
      BY <1>0, <1>1, <2>1, Kinds DEF GoodLines
    <2> QED
      BY <1>2, <2>2, <2>4, <2>6, <2>7, FilesNext
  <1>5. CASE /\ ~Writing(f) /\ stream' = [stream EXCEPT ![h] = Writer(f)]
             /\ content' = [content EXCEPT ![f] = <<>>] /\ saved' = [saved EXCEPT ![f] = <<>>]
    <2>0. <<>> \in Text /\ <<>> \o <<>> = <<>>
      BY DEF Text
    <2>1. /\ stream'[h] = Writer(f) /\ \A g \in Handles \ {h} : stream'[g] = stream[g]
          /\ content'[f] = <<>> /\ saved'[f] = <<>>
          /\ \A e \in Files \ {f} : content'[e] = content[e] /\ saved'[e] = saved[e]
      BY <1>0, <1>5 DEF FilesTyped
    <2>2. FilesTyped'
      BY <1>0, <1>1, <1>5, <2>0, Kinds DEF FilesTyped
    <2>3. \A g \in Handles : ~(stream[g].is = "writer" /\ stream[g].file = f)
      BY <1>5 DEF Writing, Is
    <2>4. NothingLost'
      <3> SUFFICES ASSUME NEW e \in Files PROVE UpToDate(stream', e, content'[e], saved'[e])
        BY DEF NothingLost
      <3>1. CASE e = f
        <4>1. \A g \in Handles : Into(stream'[g], e) => g = h
          BY <2>1, <2>3, <3>1 DEF Into
        <4>2. stream'[h].waiting = <<>>
          BY <2>1, Kinds
        <4>3. Into(stream'[h], e)
          BY <2>1, <3>1, Kinds DEF Into
        <4> QED
          BY <2>0, <2>1, <3>1, <4>1, <4>2, <4>3 DEF UpToDate
      <3>2. CASE e # f
        <4>1. SameWriters(stream, stream', e)
          BY <1>1, <2>1, <3>2, Kinds DEF Into, SameWriters
        <4>2. UpToDate(stream, e, content'[e], saved'[e])
          BY <1>0, <2>1, <3>2 DEF NothingLost
        <4> QED
          BY <4>1, <4>2, SameWriter
      <3> QED
        BY <3>1, <3>2
    <2>7. \A g \in Handles : GoodReader(stream'[g], pieces'[g], content')
      <3> SUFFICES ASSUME NEW g \in Handles PROVE GoodReader(stream'[g], pieces'[g], content')
        OBVIOUS
      <3>1. CASE g = h
        BY <1>1, <2>1, <3>1, Kinds DEF GoodReader
      <3>2. CASE g # h
        <4>1. stream[g] \in StreamKinds
          BY <1>0 DEF FilesTyped
        <4> QED
          BY <1>0, <1>1, <2>0, <2>1, <3>2, <4>1, KindOf DEF GoodReader
      <3> QED
        BY <3>1, <3>2
    <2>8. \A g \in Handles : GoodLines(stream'[g], pieces'[g])
      BY <1>0, <1>1, <2>1, Kinds DEF GoodLines
    <2> QED
      BY <1>2, <2>2, <2>4, <2>7, <2>8, FilesNext
  <1> QED
    BY <1>3, <1>4, <1>5 DEF file_open

(* Closing a stream flushes it, and all of them are closed at the end.     *)
LEMMA FileCloseKeeps ==
    ASSUME FilesRight, ~halted, NEW h \in Handles, file_close(h)
    PROVE  FilesRight'
  <1>0. /\ FilesTyped /\ NothingLost
        /\ \A g \in Handles : GoodReader(stream[g], pieces[g], content)
        /\ \A g \in Handles : GoodLines(stream[g], pieces[g])
    BY FilesNow
  <1>1. /\ content' = Flushed({h}) /\ saved' = saved /\ ~halted'
        /\ stream' = [stream EXCEPT ![h] = Closed] /\ pieces' = [pieces EXCEPT ![h] = <<>>]
    BY DEF file_close
  <1>2. /\ stream'[h] = Closed /\ \A g \in Handles \ {h} : stream'[g] = stream[g]
        /\ pieces'[h] = <<>> /\ \A g \in Handles \ {h} : pieces'[g] = pieces[g]
    BY <1>0, <1>1 DEF FilesTyped
  <1>3. HaltedClosed'
    BY <1>1 DEF HaltedClosed
  <1>4. FilesTyped'
    <2>1. content' \in [Files -> Text \cup {None}]
      BY <1>0, <1>1, FlushedTyped
    <2>2. stream' \in [Handles -> StreamKinds]
      BY <1>0, <1>1, Kinds DEF FilesTyped
    <2>3. pieces' \in [Handles -> Seq(Text)]
      BY <1>0, <1>1 DEF FilesTyped
    <2> QED
      BY <1>0, <1>1, <2>1, <2>2, <2>3 DEF FilesTyped
  <1>5. NothingLost'
    <2> SUFFICES ASSUME NEW f \in Files PROVE UpToDate(stream', f, content'[f], saved'[f])
      BY DEF NothingLost
    <2>1. UpToDate(stream, f, content[f], saved[f])
      BY <1>0 DEF NothingLost
    <2>2. CASE Into(stream[h], f)
      <3>1. content'[f] = saved[f]
        BY <1>0, <1>1, <2>2, FlushedSaves
      <3>2. \A g \in Handles : ~Into(stream'[g], f)
        <4>1. \A g \in Handles : Into(stream[g], f) => g = h
          BY <2>1, <2>2 DEF UpToDate
        <4>2. ~Into(stream'[h], f)
          BY <1>2, Kinds DEF Into
        <4> QED
          BY <1>2, <4>1, <4>2
      <3> QED
        BY <1>1, <3>1, <3>2, NoWriter
    <2>3. CASE ~Into(stream[h], f)
      <3>1. content'[f] = content[f]
        BY <1>0, <1>1, <2>3, FlushedSaves
      <3>2. SameWriters(stream, stream', f)
        BY <1>2, <2>3, Kinds DEF SameWriters, Into
      <3> QED
        BY <1>1, <2>1, <3>1, <3>2, SameWriter
    <2> QED
      BY <2>2, <2>3
  <1>6. \A g \in Handles : GoodReader(stream'[g], pieces'[g], content')
    <2> SUFFICES ASSUME NEW g \in Handles PROVE GoodReader(stream'[g], pieces'[g], content')
      OBVIOUS
    <2>1. CASE g = h
      BY <1>2, <2>1, Kinds DEF GoodReader
    <2>2. CASE g # h
      <3>1. stream[g].is = "reader" => stream[g].file \in Files
        BY <1>0, KindOf DEF FilesTyped
      <3>2. \A f \in Files : content[f] \in Text => content'[f] \in Text
        BY <1>0, <1>1, FlushedTyped
      <3> QED
        BY <1>0, <1>2, <2>2, <3>1, <3>2 DEF GoodReader
    <2> QED
      BY <2>1, <2>2
  <1>7. \A g \in Handles : GoodLines(stream'[g], pieces'[g])
    BY <1>0, <1>2, Kinds DEF GoodLines
  <1> QED
    BY <1>3, <1>4, <1>5, <1>6, <1>7, FilesNext

LEMMA HaltKeeps ==
    ASSUME FilesRight, halt
    PROVE  FilesRight'
  <1>0. FilesTyped /\ NothingLost
    BY FilesNow
  <1>1. /\ content' = Flushed(Handles) /\ saved' = saved
        /\ \A g \in Handles : stream'[g] = Closed /\ pieces'[g] = <<>>
    BY DEF halt
  <1>2. HaltedClosed'
    BY <1>1, Kinds DEF HaltedClosed, Is
  <1>3. FilesTyped'
    <2>1. content' \in [Files -> Text \cup {None}]
      BY <1>0, <1>1, FlushedTyped
    <2>2. stream' \in [Handles -> StreamKinds]
      BY Kinds DEF halt
    <2>3. pieces' \in [Handles -> Seq(Text)]
      BY DEF halt
    <2> QED
      BY <1>0, <1>1, <2>1, <2>2, <2>3 DEF FilesTyped
  <1>4. NothingLost'
    <2> SUFFICES ASSUME NEW f \in Files PROVE UpToDate(stream', f, content'[f], saved'[f])
      BY DEF NothingLost
    <2>1. content'[f] = saved[f]
      <3>1. CASE \E h \in Handles : Into(stream[h], f)
        BY <1>0, <1>1, <3>1, FlushedSaves
      <3>2. CASE \A h \in Handles : ~Into(stream[h], f)
        <4>1. content[f] = saved[f]
          BY <1>0, <3>2 DEF NothingLost, UpToDate
        <4> QED
          BY <1>0, <1>1, <3>2, <4>1, FlushedSaves
      <3> QED
        BY <3>1, <3>2
    <2>2. \A g \in Handles : ~Into(stream'[g], f)
      BY <1>1, Kinds DEF Into
    <2> QED
      BY <1>1, <2>1, <2>2, NoWriter
  <1>5. \A g \in Handles : GoodReader(stream'[g], pieces'[g], content')
    BY <1>1, Kinds DEF GoodReader
  <1>6. \A g \in Handles : GoodLines(stream'[g], pieces'[g])
    BY <1>1, Kinds DEF GoodLines
  <1> QED
    BY <1>2, <1>3, <1>4, <1>5, <1>6, FilesNext

(* A stream with one of its fields set is a stream.                        *)
LEMMA WriterWith ==
    ASSUME NEW s \in StreamKinds, s.is = "writer", NEW w \in Text
    PROVE  LET t == [s EXCEPT !.waiting = w] IN
           /\ t \in StreamKinds /\ t.is = "writer" /\ t.file = s.file /\ t.linked = s.linked
           /\ t.waiting = w
  <1>1. s \in [is : {"writer"}, file : Files, linked : BOOLEAN, waiting : Text]
    BY DEF StreamKinds, Closed, NULL
  <1> QED
    BY <1>1 DEF StreamKinds

LEMMA Unlinked ==
    ASSUME NEW s \in StreamKinds, s.is = "writer"
    PROVE  LET t == [s EXCEPT !.linked = FALSE] IN
           t \in StreamKinds /\ t.is = "writer" /\ ~t.linked
  <1>1. s \in [is : {"writer"}, file : Files, linked : BOOLEAN, waiting : Text]
    BY DEF StreamKinds, Closed, NULL
  <1> QED
    BY <1>1 DEF StreamKinds

LEMMA ReaderWith ==
    ASSUME NEW s \in StreamKinds, s.is = "reader", NEW x \in Text
    PROVE  LET t == [s EXCEPT !.text = x] IN
           /\ t \in StreamKinds /\ t.is = "reader" /\ t.file = s.file /\ t.text = x
           /\ t.pos = s.pos /\ t.eof = s.eof /\ t.error = s.error
  <1>1. s \in [is : {"reader"}, file : Files, text : Text \cup {None}, pos : Nat, eof : BOOLEAN,
               error : BOOLEAN]
    BY DEF StreamKinds, Closed, NULL
  <1> QED
    BY <1>1 DEF StreamKinds

(* fputs: the text is behind what was written, in the stream or the file.  *)
LEMMA FileWriteKeeps ==
    ASSUME FilesRight, ~halted, NEW h \in Handles, NEW text \in Writes, file_write(h, text)
    PROVE  FilesRight'
  <1>0. /\ FilesTyped /\ NothingLost
        /\ \A g \in Handles : GoodReader(stream[g], pieces[g], content)
        /\ \A g \in Handles : GoodLines(stream[g], pieces[g])
    BY FilesNow
  <1>1. pieces' = pieces /\ halted' = halted
    BY DEF file_write
  <1>2. CASE Is(h, "null")
    <2>1. Streams
      BY <1>1, <1>2 DEF file_write, Streams
    <2> QED
      BY <1>1, <2>1, FilesQuiet
  <1>3. CASE stream[h].is = "writer"
    <2> DEFINE s == stream[h]
               f == s.file
               longer == s.waiting \o text
    <2>1. s \in StreamKinds /\ f \in Files /\ s.waiting \in Text /\ text \in Text /\ <<>> \in Text
      <3>1. s \in StreamKinds
        BY <1>0 DEF FilesTyped
      <3>2. f \in Files /\ s.waiting \in Text
        BY <1>3, <3>1, KindOf
      <3> QED
        BY <3>1, <3>2, TextsAssumption DEF Text
    <2>2. longer \in Text
      BY <2>1, ConcatProperties DEF Text
    <2>3. /\ saved' = IF s.linked THEN [saved EXCEPT ![f] = @ \o text] ELSE saved
          /\ \/ stream' = [stream EXCEPT ![h].waiting = longer] /\ content' = content
             \/ /\ stream' = [stream EXCEPT ![h].waiting = <<>>]
                /\ content' = IF s.linked THEN [content EXCEPT ![f] = @ \o longer] ELSE content
      <3>1. ~Is(h, "null")
        BY <1>3 DEF Is
      <3> QED
        BY <3>1 DEF file_write
    <2>4. PICK w \in Text :
            /\ stream' = [stream EXCEPT ![h] = [s EXCEPT !.waiting = w]]
            /\ \/ w = longer /\ content' = content
               \/ w = <<>> /\ content' = IF s.linked THEN [content EXCEPT ![f] = @ \o longer] ELSE content
      BY <2>1, <2>2, <2>3
    <2> DEFINE r == [s EXCEPT !.waiting = w]
    <2>5. r \in StreamKinds /\ r.is = "writer" /\ r.file = f /\ r.linked = s.linked /\ r.waiting = w
      BY <1>3, <2>1, WriterWith
    <2>6. stream'[h] = r /\ \A g \in Handles \ {h} : stream'[g] = stream[g]
      BY <1>0, <2>4 DEF FilesTyped
    <2>7. stream' \in [Handles -> StreamKinds]
      BY <1>0, <2>4, <2>5 DEF FilesTyped
    <2>9. UpToDate(stream, f, content[f], saved[f]) /\ Into(s, f) <=> s.linked
      BY <1>0, <1>3, <2>1 DEF NothingLost, Into
    <2> HIDE DEF r, longer
    <2>8. \A g \in Handles : GoodLines(stream'[g], pieces'[g])
      <3>1. GoodLines(r, pieces[h])
        BY <2>5 DEF GoodLines
      <3> QED
        BY <1>0, <1>1, <2>6, <3>1
    <2>10. HaltedClosed'
      BY <1>1 DEF HaltedClosed
    <2>11. CASE ~s.linked
      <3>1. saved' = saved /\ content' = content
        BY <2>3, <2>4, <2>11
      <3>2. FilesTyped'
        BY <1>0, <1>1, <2>7, <3>1 DEF FilesTyped
      <3>3. \A e \in Files : SameWriters(stream, stream', e)
        BY <2>5, <2>6, <2>11 DEF SameWriters, Into
      <3>4. NothingLost'
        BY <1>0, <3>1, <3>3, SameWriter DEF NothingLost
      <3>5. \A g \in Handles : GoodReader(stream'[g], pieces'[g], content')
        BY <1>0, <1>1, <2>5, <2>6, <3>1 DEF GoodReader
      <3> QED
        BY <2>8, <2>10, <3>2, <3>4, <3>5, FilesNext
    <2>12. CASE s.linked
      <3>1. /\ content[f] \in Text /\ saved[f] = content[f] \o s.waiting
            /\ \A g \in Handles : Into(stream[g], f) => g = h
        BY <1>3, <2>9, <2>12 DEF UpToDate, Into
      <3>2. /\ saved'[f] = (content[f] \o s.waiting) \o text
            /\ \A e \in Files \ {f} : saved'[e] = saved[e] /\ content'[e] = content[e]
        BY <1>0, <2>1, <2>3, <2>4, <2>12, <3>1 DEF FilesTyped
      <3>3. content'[f] \in Text /\ saved'[f] = content'[f] \o w
        <4>1. (content[f] \o s.waiting) \o text = content[f] \o longer /\ content[f] \o longer \in Text
              /\ (content[f] \o longer) \o <<>> = content[f] \o longer
          <5> DEFINE c == content[f]
                     u == s.waiting
                     x == longer
          <5>1. c \in Seq(STRING) /\ u \in Seq(STRING) /\ text \in Seq(STRING) /\ x \in Seq(STRING)
                /\ x = u \o text
            BY <2>1, <2>2, <3>1 DEF Text, longer
          <5> HIDE DEF c, u, x
          <5>2. (c \o u) \o text = c \o x
            BY <5>1, ConcatAssociative
          <5>3. c \o x \in Seq(STRING)
            BY <5>1, ConcatProperties
          <5>4. (c \o x) \o <<>> = c \o x
            BY <5>3, ConcatEmptySeq
          <5> QED
            BY <5>2, <5>3, <5>4 DEF c, u, x, Text
        <4>2. CASE w = longer /\ content' = content
          BY <3>1, <3>2, <4>1, <4>2
        <4>3. CASE w = <<>> /\ content' = [content EXCEPT ![f] = @ \o longer]
          <5>1. content'[f] = content[f] \o longer
            BY <1>0, <2>1, <4>3 DEF FilesTyped
          <5> QED
            BY <3>2, <4>1, <4>3, <5>1
        <4> QED
          BY <2>4, <2>12, <4>2, <4>3
      <3>4. FilesTyped'
        <4>1. saved'[f] \in Text
          BY <2>1, <3>3, ConcatProperties DEF Text
        <4>2. saved' = [saved EXCEPT ![f] = saved'[f]] /\ content' = [content EXCEPT ![f] = content'[f]]
          BY <1>0, <2>1, <2>3, <2>4, <2>12 DEF FilesTyped
        <4>3. saved' \in [Files -> Text \cup {None}] /\ content' \in [Files -> Text \cup {None}]
          BY <1>0, <3>3, <4>1, <4>2 DEF FilesTyped
        <4> QED
          BY <1>0, <1>1, <2>7, <4>3 DEF FilesTyped
      <3>5. NothingLost'
        <4> SUFFICES ASSUME NEW e \in Files PROVE UpToDate(stream', e, content'[e], saved'[e])
          BY DEF NothingLost
        <4>1. CASE e = f
          <5>1. Into(stream'[h], f) /\ stream'[h].waiting = w
            BY <2>5, <2>6, <2>12 DEF Into
          <5>2. \A g \in Handles : Into(stream'[g], f) => g = h
            BY <2>6, <3>1
          <5> QED
            BY <3>3, <4>1, <5>1, <5>2 DEF UpToDate
        <4>2. CASE e # f
          <5>1. SameWriters(stream, stream', e)
            BY <2>5, <2>6, <4>2 DEF SameWriters, Into
          <5>2. UpToDate(stream, e, content'[e], saved'[e])
            BY <1>0, <3>2, <4>2 DEF NothingLost
          <5> QED
            BY <5>1, <5>2, SameWriter
        <4> QED
          BY <4>1, <4>2
      <3>6. \A e \in Files : content[e] \in Text => content'[e] \in Text
        BY <3>2, <3>3
      <3>7. \A g \in Handles : GoodReader(stream'[g], pieces'[g], content')
        <4> SUFFICES ASSUME NEW g \in Handles PROVE GoodReader(stream'[g], pieces'[g], content')
          OBVIOUS
        <4>1. CASE g = h
          BY <2>5, <2>6, <4>1 DEF GoodReader
        <4>2. CASE g # h
          <5>1. stream[g].is = "reader" => stream[g].file \in Files
            BY <1>0, KindOf DEF FilesTyped
          <5> QED
            BY <1>0, <1>1, <2>6, <3>6, <4>2, <5>1 DEF GoodReader
        <4> QED
          BY <4>1, <4>2
      <3> QED
        BY <2>8, <2>10, <3>4, <3>5, <3>7, FilesNext
    <2> QED
      BY <2>11, <2>12
  <1> QED
    BY <1>2, <1>3 DEF file_write, Is

(* A file that loses its name: its readers keep its text, its writer goes  *)
(* on for itself.                                                          *)
LEMMA FileRemoveKeeps ==
    ASSUME FilesRight, ~halted, NEW f \in Files, file_remove(f)
    PROVE  FilesRight'
  <1>0. /\ FilesTyped /\ NothingLost
        /\ \A g \in Handles : GoodReader(stream[g], pieces[g], content)
        /\ \A g \in Handles : GoodLines(stream[g], pieces[g])
    BY FilesNow
  <1>1. /\ content[f] # None /\ content' = [content EXCEPT ![f] = None]
        /\ saved' = [saved EXCEPT ![f] = None] /\ pieces' = pieces /\ ~halted'
    BY DEF file_remove
  <1>2. content[f] \in Text /\ content'[f] = None /\ saved'[f] = None
        /\ \A e \in Files \ {f} : content'[e] = content[e] /\ saved'[e] = saved[e]
    BY <1>0, <1>1 DEF FilesTyped
  <1>3. ASSUME NEW g \in Handles
        PROVE  /\ stream'[g] =
                     IF stream[g].is = "writer" /\ stream[g].file = f THEN [stream[g] EXCEPT !.linked = FALSE]
                     ELSE IF stream[g].is = "reader" /\ stream[g].file = f /\ stream[g].text = None
                          THEN [stream[g] EXCEPT !.text = content[f]]
                     ELSE stream[g]
               /\ stream[g] \in StreamKinds
    BY <1>0 DEF file_remove, Is, FilesTyped
  <1>4. HaltedClosed'
    BY <1>1 DEF HaltedClosed
  <1>5. ASSUME NEW g \in Handles
        PROVE  /\ stream'[g] \in StreamKinds
               /\ \A e \in Files \ {f} :
                     /\ Into(stream'[g], e) => Into(stream[g], e) /\ stream'[g].waiting = stream[g].waiting
                     /\ Into(stream[g], e) => Into(stream'[g], e)
               /\ ~Into(stream'[g], f)
               /\ GoodReader(stream'[g], pieces'[g], content')
               /\ GoodLines(stream'[g], pieces'[g])
    <2>1. CASE stream[g].is = "writer" /\ stream[g].file = f
      <3> DEFINE t == [stream[g] EXCEPT !.linked = FALSE]
      <3>1. stream'[g] = t
        BY <1>3, <2>1
      <3>2. t \in StreamKinds /\ t.is = "writer" /\ ~t.linked
        BY <1>3, <2>1, Unlinked
      <3> HIDE DEF t
      <3> QED
        BY <2>1, <3>1, <3>2 DEF Into, GoodReader, GoodLines
    <2>2. CASE stream[g].is = "reader" /\ stream[g].file = f /\ stream[g].text = None
      <3> DEFINE t == [stream[g] EXCEPT !.text = content[f]]
      <3>1. stream'[g] = t
        BY <1>3, <2>2
      <3>2. /\ t \in StreamKinds /\ t.is = "reader" /\ t.text = content[f] /\ t.pos = stream[g].pos
            /\ t.eof = stream[g].eof /\ t.error = stream[g].error
        <4> DEFINE s == stream[g]
        <4>1. s \in StreamKinds /\ s.is = "reader"
          BY <1>3, <2>2
        <4> HIDE DEF s
        <4>2. LET u == [s EXCEPT !.text = content[f]] IN
              /\ u \in StreamKinds /\ u.is = "reader" /\ u.text = content[f]
              /\ u.pos = s.pos /\ u.eof = s.eof /\ u.error = s.error
          BY <1>2, <4>1, ReaderWith
        <4> QED
          BY <4>2 DEF s
      <3> HIDE DEF t
      <3>3. stream[g].pos = 0 /\ (~stream[g].error => pieces'[g] = <<>>) /\ ~stream[g].eof
        BY <1>0, <1>1, <2>2 DEF GoodReader
      <3>4. Len(content[f]) >= 0 /\ SubSeq(content[f], 1, 0) = <<>> /\ content[f] # None
        BY <1>1, <1>2 DEF Text
      <3>5. GoodReader(stream'[g], pieces'[g], content')
        BY <3>1, <3>2, <3>3, <3>4 DEF GoodReader
      <3>6. GoodLines(stream'[g], pieces'[g])
        <4> SUFFICES ASSUME ~stream[g].error PROVE GoodLines(stream'[g], pieces'[g])
          BY <3>1, <3>2 DEF GoodLines
        <4>1. FlattenSeq(pieces'[g]) = <<>>
          BY <3>3, FlattenStarts, Zenon
        <4>2. DOMAIN pieces'[g] = {}
          BY <3>3
        <4>3. SubSeq(stream'[g].text, 1, stream'[g].pos) = <<>> /\ ~stream'[g].eof
          BY <3>1, <3>2, <3>3, <3>4
        <4> QED
          BY <4>1, <4>2, <4>3 DEF GoodLines
      <3> QED
        BY <2>2, <3>1, <3>2, <3>5, <3>6 DEF Into
    <2>3. CASE /\ ~(stream[g].is = "writer" /\ stream[g].file = f)
               /\ ~(stream[g].is = "reader" /\ stream[g].file = f /\ stream[g].text = None)
      <3>1. stream'[g] = stream[g] /\ pieces'[g] = pieces[g]
        BY <1>1, <1>3, <2>3
      <3>2. stream[g].is = "reader" => stream[g].file \in Files
        BY <1>3, KindOf
      <3>3. GoodReader(stream'[g], pieces'[g], content')
        BY <1>0, <1>2, <2>3, <3>1, <3>2 DEF GoodReader
      <3> QED
        BY <1>0, <1>3, <2>3, <3>1, <3>3 DEF Into
    <2> QED
      BY <2>1, <2>2, <2>3
  <1>6. FilesTyped'
    <2>1. stream' = [g \in Handles |-> stream'[g]]
      BY DEF file_remove
    <2>2. stream' \in [Handles -> StreamKinds]
      BY <1>5, <2>1
    <2> QED
      BY <1>0, <1>1, <2>2 DEF FilesTyped
  <1>7. NothingLost'
    <2> SUFFICES ASSUME NEW e \in Files PROVE UpToDate(stream', e, content'[e], saved'[e])
      BY DEF NothingLost
    <2>1. CASE e = f
      BY <1>2, <1>5, <2>1, NoWriter
    <2>2. CASE e # f
      <3>1. SameWriters(stream, stream', e)
        <4>1. \A g \in Handles :
                  /\ Into(stream'[g], e) => Into(stream[g], e) /\ stream'[g].waiting = stream[g].waiting
                  /\ Into(stream[g], e) => Into(stream'[g], e)
          BY <1>5, <2>2
        <4> QED
          BY <4>1 DEF SameWriters
      <3>2. UpToDate(stream, e, content'[e], saved'[e])
        BY <1>0, <1>2, <2>2 DEF NothingLost
      <3> QED
        BY <3>1, <3>2, SameWriter
    <2> QED
      BY <2>1, <2>2
  <1> QED
    BY <1>4, <1>5, <1>6, <1>7, FilesNext

(***************************************************************************)
(* What reads have returned of a text, up to a position.                   *)
(***************************************************************************)
Piece(got, k, text) ==
    \/ got[k] # <<>> /\ (Last(got[k]) = NL \/ Len(got[k]) = BufSize - 1)
    \/ FlattenSeq(SubSeq(got, 1, k)) = text

ReadSoFar(got, text, pos) ==
    /\ FlattenSeq(got) = SubSeq(text, 1, pos)
    /\ \A k \in DOMAIN got : Piece(got, k, text)

LEMMA ReadsOn ==
    ASSUME NEW got \in Seq(Text), NEW text \in Text, NEW pos \in Nat, NEW next \in Nat, NEW read,
           pos <= next, next <= Len(text), ReadSoFar(got, text, pos),
           read = SubSeq(text, pos + 1, next),
           (read # <<>> /\ (Last(read) = NL \/ Len(read) = BufSize - 1)) \/ next = Len(text)
    PROVE  ReadSoFar(Append(got, read), text, next) /\ Append(got, read) \in Seq(Text)
  <1> DEFINE all == Append(got, read)
  <1>1. read \in Text
    BY PartOf
  <1>2. /\ all \in Seq(Text) /\ Len(all) = Len(got) + 1 /\ all[Len(got) + 1] = read /\ Len(got) \in Nat
        /\ DOMAIN all = 1..(Len(got) + 1) /\ DOMAIN got = 1..Len(got)
        /\ \A k \in 1..Len(got) : all[k] = got[k]
    BY <1>1
  <1>3. FlattenSeq(all) = SubSeq(text, 1, next)
    <2>1. FlattenSeq(all) = SubSeq(text, 1, pos) \o SubSeq(text, pos + 1, next)
      BY <1>1, FlattenAppend DEF ReadSoFar
    <2>2. SubSeq(text, 1, pos) \o SubSeq(text, pos + 1, next) = SubSeq(text, 1, next)
      <3>1. text \in Seq(STRING) /\ Len(text) \in Nat
        BY DEF Text
      <3>2. 1 \in 1..(Len(text) + 1) /\ pos \in (1 - 1)..Len(text) /\ next \in pos..Len(text)
        BY <3>1
      <3> QED
        BY <3>1, <3>2, ConcatAdjacentSubSeq
    <2> QED
      BY <2>1, <2>2
  <1> HIDE DEF all
  <1>4. ASSUME NEW k \in DOMAIN all PROVE Piece(all, k, text)
    <2>1. CASE k \in 1..Len(got)
      <3>1. Piece(got, k, text) /\ all[k] = got[k]
        BY <1>2, <2>1 DEF ReadSoFar
      <3>2. SubSeq(all, 1, k) = SubSeq(got, 1, k)
        BY <1>2, <2>1
      <3> QED
        BY <3>1, <3>2 DEF Piece
    <2>2. CASE k = Len(got) + 1
      <3>1. CASE read # <<>> /\ (Last(read) = NL \/ Len(read) = BufSize - 1)
        BY <1>2, <2>2, <3>1 DEF Piece
      <3>2. CASE next = Len(text)
        <4>1. SubSeq(all, 1, k) = all /\ SubSeq(text, 1, next) = text
          BY <1>2, <2>2, <3>2 DEF Text
        <4> QED
          BY <1>3, <4>1 DEF Piece
      <3> QED
        BY <3>1, <3>2
    <2> QED
      BY <1>2, <2>1, <2>2
  <1> QED
    BY <1>2, <1>3, <1>4 DEF ReadSoFar, all

(* What a reader reads from, and how far it is.                            *)
LEMMA ReaderHas ==
    ASSUME FilesRight, NEW h \in Handles, stream[h].is = "reader"
    PROVE  /\ Snapshot(h) \in Text /\ Snapshot(h) # None /\ stream[h].file \in Files
           /\ stream[h].pos \in Nat /\ stream[h].pos <= Len(Snapshot(h))
           /\ ~stream[h].error => ReadSoFar(pieces[h], Snapshot(h), stream[h].pos)
           /\ pieces[h] \in Seq(Text) /\ stream[h].error \in BOOLEAN /\ (stream[h].text = None => ~stream[h].eof)
  <1>0. /\ FilesTyped /\ GoodReader(stream[h], pieces[h], content) /\ GoodLines(stream[h], pieces[h])
    BY FilesNow
  <1>1. /\ stream[h].file \in Files /\ stream[h].text \in Text \cup {None} /\ stream[h].pos \in Nat
        /\ pieces[h] \in Seq(Text) /\ stream[h].error \in BOOLEAN
    <2>1. stream[h] \in StreamKinds
      BY <1>0 DEF FilesTyped
    <2> QED
      BY <1>0, <2>1, KindOf DEF FilesTyped
  <1>2. CASE stream[h].text = None
    <2>1. /\ Snapshot(h) = content[stream[h].file] /\ Snapshot(h) \in Text
          /\ stream[h].pos = 0 /\ (~stream[h].error => pieces[h] = <<>>) /\ ~stream[h].eof
      BY <1>0, <1>2 DEF Snapshot, GoodReader
    <2>2. Len(Snapshot(h)) \in Nat /\ SubSeq(Snapshot(h), 1, 0) = <<>> /\ Snapshot(h) # None
      BY <2>1, TextsAssumption DEF Text
    <2>3. ASSUME ~stream[h].error PROVE ReadSoFar(pieces[h], Snapshot(h), stream[h].pos)
      <3>1. FlattenSeq(pieces[h]) = <<>>
        BY <2>1, <2>3, FlattenStarts, Zenon
      <3>2. DOMAIN pieces[h] = {}
        BY <2>1, <2>3
      <3> QED
        BY <2>1, <2>2, <3>1, <3>2 DEF ReadSoFar
    <2> QED
      BY <1>1, <2>1, <2>2, <2>3
  <1>3. CASE stream[h].text # None
    <2>1. Snapshot(h) = stream[h].text /\ stream[h].pos <= Len(Snapshot(h))
      BY <1>0, <1>3 DEF Snapshot, GoodReader
    <2>2. ~stream[h].error => ReadSoFar(pieces[h], Snapshot(h), stream[h].pos)
      BY <1>0, <1>3, <2>1 DEF GoodLines, ReadSoFar, Piece
    <2> QED
      BY <1>1, <1>3, <2>1, <2>2
  <1> QED
    BY <1>2, <1>3

(* One reader has read on; the other streams and the files are the same.   *)
LEMMA ReadKeeps ==
    ASSUME FilesRight, ~halted, ~halted', NEW h \in Handles, stream[h].is = "reader",
           content' = content, saved' = saved,
           NEW text \in Text, text # None, NEW pos \in Nat, NEW eof \in BOOLEAN, NEW got \in Seq(Text),
           NEW r \in StreamKinds, r.is = "reader", r.text = text, r.pos = pos, r.eof = eof,
           stream' = [stream EXCEPT ![h] = r],
           pieces' = [pieces EXCEPT ![h] = got],
           pos <= Len(text), ~r.error => ReadSoFar(got, text, pos), eof => pos = Len(text)
    PROVE  FilesRight'
  <1>0. /\ FilesTyped /\ NothingLost
        /\ \A g \in Handles : GoodReader(stream[g], pieces[g], content)
        /\ \A g \in Handles : GoodLines(stream[g], pieces[g])
    BY FilesNow
  <1>4. /\ stream'[h] = r /\ \A g \in Handles \ {h} : stream'[g] = stream[g]
        /\ pieces'[h] = got /\ \A g \in Handles \ {h} : pieces'[g] = pieces[g]
    BY <1>0 DEF FilesTyped
  <1>5. FilesTyped'
    BY <1>0 DEF FilesTyped
  <1>6. HaltedClosed'
    BY DEF HaltedClosed
  <1>7. NothingLost'
    <2> SUFFICES ASSUME NEW e \in Files PROVE UpToDate(stream', e, content'[e], saved'[e])
      BY DEF NothingLost
    <2>1. SameWriters(stream, stream', e)
      BY <1>4 DEF SameWriters, Into
    <2> QED
      BY <1>0, <2>1, SameWriter DEF NothingLost
  <1>8. GoodReader(r, got, content') /\ GoodLines(r, got)
    <2>1. SubSeq(text, 1, Len(text)) = text
      BY DEF Text
    <2> QED
      BY <2>1 DEF GoodReader, GoodLines, ReadSoFar, Piece
  <1>9. \A g \in Handles : GoodReader(stream'[g], pieces'[g], content')
    BY <1>0, <1>4, <1>8
  <1>10. \A g \in Handles : GoodLines(stream'[g], pieces'[g])
    BY <1>0, <1>4, <1>8
  <1> QED
    BY <1>5, <1>6, <1>7, <1>9, <1>10, FilesNext

Readers == [is : {"reader"}, file : Files, text : Text \cup {None}, pos : Nat, eof : BOOLEAN,
                error : BOOLEAN]

LEMMA ReaderIs ==
    ASSUME NEW s \in StreamKinds, s.is = "reader"
    PROVE  s \in Readers
  BY DEF StreamKinds, Closed, NULL, Readers

(* Repeated empty pieces count once.                                       *)
LEMMA NotedAtEnd ==
    ASSUME NEW h \in Handles, pieces \in [Handles -> Seq(Text)], NEW text \in Text
    PROVE  \E got \in Seq(Text) :
              /\ Noted(h, <<>>) = [pieces EXCEPT ![h] = got]
              /\ ReadSoFar(pieces[h], text, Len(text)) => ReadSoFar(got, text, Len(text))
  <1>1. CASE <<>> = <<>> /\ pieces[h] # <<>> /\ Last(pieces[h]) = <<>>
    <2>1. Noted(h, <<>>) = pieces
      BY <1>1 DEF Noted
    <2>2. pieces = [pieces EXCEPT ![h] = pieces[h]] /\ pieces[h] \in Seq(Text)
      OBVIOUS
    <2> QED
      BY <2>1, <2>2
  <1>2. CASE ~(<<>> = <<>> /\ pieces[h] # <<>> /\ Last(pieces[h]) = <<>>)
    <2>1. Noted(h, <<>>) = [pieces EXCEPT ![h] = Append(pieces[h], <<>>)]
      BY <1>2 DEF Noted
    <2>2. Len(text) \in Nat /\ Len(text) <= Len(text) /\ <<>> = SubSeq(text, Len(text) + 1, Len(text))
      BY DEF Text
    <2>3. /\ ReadSoFar(pieces[h], text, Len(text)) => ReadSoFar(Append(pieces[h], <<>>), text, Len(text))
          /\ Append(pieces[h], <<>>) \in Seq(Text)
      <3>1. Append(pieces[h], <<>>) \in Seq(Text)
        BY DEF Text
      <3>2. ASSUME ReadSoFar(pieces[h], text, Len(text))
            PROVE  ReadSoFar(Append(pieces[h], <<>>), text, Len(text))
        BY <2>2, <3>2, ReadsOn
      <3> QED
        BY <3>1, <3>2
    <2> QED
      BY <2>1, <2>3
  <1> QED
    BY <1>1, <1>2

(* A read that fails tells nothing of the file, and may spoil the buffer.  *)
LEMMA ReadFailsKeeps ==
    ASSUME FilesRight, TextsRight, ~halted, ~halted', NEW h \in Handles, NEW v, ReadFails(h, v),
           content' = content, saved' = saved, in_buf' = in_buf, stream[h].is = "reader"
    PROVE  FilesRight' /\ TextsRight'
  <1> DEFINE s == stream[h]
             text == Snapshot(h)
  <1>0. /\ <<>> \in Text /\ pieces \in [Handles -> Seq(Text)] /\ stream \in [Handles -> StreamKinds]
        /\ FilesTyped /\ NothingLost
        /\ \A g \in Handles : GoodReader(stream[g], pieces[g], content)
        /\ \A g \in Handles : GoodLines(stream[g], pieces[g])
    BY FilesNow DEF FilesTyped, Text
  <1>1. /\ text \in Text /\ text # None /\ s.file \in Files /\ s.pos \in Nat /\ s.pos <= Len(text)
        /\ pieces[h] \in Seq(Text) /\ Len(text) \in Nat
    BY ReaderHas DEF Text
  <1>2. s \in Readers /\ Readers \subseteq StreamKinds
    BY <1>0, ReaderIs DEF Readers, StreamKinds
  <1>3. PICK got \in Seq(Text) : pieces' = [pieces EXCEPT ![h] = got]
    BY <1>0, <1>1, NotedAtEnd DEF ReadFails
  <1>4. CASE /\ s.text = None /\ stream' = [stream EXCEPT ![h].error = TRUE]
             /\ Returns(v, Own(<<>>), <<>>, {}) /\ UNCHANGED file_buf
    <2> DEFINE r == [s EXCEPT !.error = TRUE]
    <2>1. stream' = [stream EXCEPT ![h] = r]
      BY <1>4
    <2>2. /\ r \in Readers /\ r.is = "reader" /\ r.text = None /\ r.pos = s.pos /\ r.eof = s.eof
          /\ r.error /\ r.file = s.file
      <3> HIDE DEF s
      <3> QED
        BY <1>2, <1>4 DEF Readers
    <2> HIDE DEF r
    <2>3. /\ stream'[h] = r /\ \A g \in Handles \ {h} : stream'[g] = stream[g]
          /\ pieces'[h] = got /\ \A g \in Handles \ {h} : pieces'[g] = pieces[g]
      BY <1>0, <1>3, <2>1
    <2>4. FilesTyped' /\ HaltedClosed'
      BY <1>0, <1>2, <1>3, <2>1, <2>2 DEF FilesTyped, HaltedClosed
    <2>5. NothingLost'
      <3> SUFFICES ASSUME NEW e \in Files PROVE UpToDate(stream', e, content'[e], saved'[e])
        BY DEF NothingLost
      <3>1. SameWriters(stream, stream', e)
        BY <2>2, <2>3 DEF SameWriters, Into
      <3> QED
        BY <1>0, <3>1, SameWriter DEF NothingLost
    <2>6. GoodReader(r, got, content') /\ GoodLines(r, got)
      BY <1>0, <1>4, <2>2 DEF GoodReader, GoodLines
    <2>7. \A g \in Handles : GoodReader(stream'[g], pieces'[g], content')
      BY <1>0, <2>3, <2>6
    <2>8. \A g \in Handles : GoodLines(stream'[g], pieces'[g])
      BY <1>0, <2>3, <2>6
    <2>9. TextsRight'
      BY <1>0, <1>4, ReturnsOwn
    <2> QED
      BY <2>4, <2>5, <2>7, <2>8, <2>9, FilesNext
  <1>5. CASE ~(/\ s.text = None /\ stream' = [stream EXCEPT ![h].error = TRUE]
               /\ Returns(v, Own(<<>>), <<>>, {}) /\ UNCHANGED file_buf)
    <2> DEFINE rest == Rest(h)
               read == fgets(rest)
    <2>1. /\ stream' = [stream EXCEPT ![h].text = text, ![h].pos = @ + Len(read), ![h].error = TRUE]
          /\ Returns(v, Own(<<>>), <<>>, IF read = <<>> THEN {} ELSE {FileBuf})
          /\ file_buf' \in Overwritten(read) /\ ~s.eof
      BY <1>5 DEF ReadFails
    <2>2. /\ rest \in Text /\ Len(rest) = Len(text) - s.pos
      <3>1. Len(text) <= Len(text) /\ rest = SubSeq(text, s.pos + 1, Len(text))
        BY <1>1 DEF Rest
      <3> HIDE DEF rest, text
      <3> QED
        BY <1>1, <3>1, PartOf
    <2> HIDE DEF rest, text
    <2>3. read \in Text /\ Len(read) \in Nat /\ Len(read) <= Len(rest)
      <3>1. CASE rest = <<>>
        <4>1. read = <<>>
          BY <3>1, FgetsOfNone
        <4> QED
          BY <1>0, <3>1, <4>1
      <3>2. CASE rest # <<>>
        <4>1. PICK m \in 1..Len(rest) : Took(rest, m)
          BY <2>2, <3>2, FgetsTakes
        <4>2. Len(rest) \in Nat /\ 0 \in Nat /\ m \in Nat /\ 0 <= m /\ m <= Len(rest)
          BY <1>1, <2>2
        <4>3. /\ SubSeq(rest, 0 + 1, m) \in Text /\ Len(SubSeq(rest, 0 + 1, m)) = m - 0
          BY <2>2, <4>2, PartOf
        <4> QED
          BY <4>1, <4>2, <4>3 DEF Took
      <3> QED
        BY <3>1, <3>2
    <2> HIDE DEF read
    <2> DEFINE r1 == [s EXCEPT !.text = text]
               r2 == [r1 EXCEPT !.pos = s.pos + Len(read)]
               r == [r2 EXCEPT !.error = TRUE]
    <2>4. stream' = [stream EXCEPT ![h] = r]
      BY <2>1
    <2>5. r1 \in Readers /\ r1.text = text /\ r1.eof = s.eof
      <3> HIDE DEF s
      <3> QED
        BY <1>1, <1>2 DEF Readers
    <2> HIDE DEF r1
    <2>6. r2 \in Readers /\ r2.text = text /\ r2.pos = s.pos + Len(read) /\ r2.eof = s.eof
      BY <1>1, <2>3, <2>5 DEF Readers
    <2> HIDE DEF r2
    <2>7. r \in Readers /\ r.is = "reader" /\ r.text = text /\ r.pos = s.pos + Len(read) /\ r.eof = s.eof
          /\ r.error
      BY <2>6 DEF Readers
    <2> HIDE DEF r
    <2>8. s.pos + Len(read) \in Nat /\ s.pos + Len(read) <= Len(text) /\ s.eof = FALSE
      <3>1. s.eof \in BOOLEAN
        BY <1>2 DEF Readers
      <3> QED
        BY <1>1, <2>1, <2>2, <2>3, <3>1
    <2>9. FilesRight'
      BY <1>1, <1>2, <1>3, <2>4, <2>7, <2>8, ReadKeeps
    <2>10. TextsRight'
      <3>1. CASE read = <<>>
        BY <1>0, <2>1, <3>1, OverwrittenByNone, ReturnsOwn
      <3>2. CASE read # <<>>
        BY <2>1, <2>3, <3>2, OverwrittenTyped, ReturnsNoLine DEF TextsRight, TextsTyped
      <3> QED
        BY <3>1, <3>2
    <2> QED
      BY <2>9, <2>10
  <1> QED
    BY <1>4, <1>5

(* file_read_line: the next line, the end, or neither.                     *)
LEMMA FileReadLineKeeps ==
    ASSUME FilesRight, TextsRight, ~halted, NEW h \in Handles, NEW v, file_read_line(h, v)
    PROVE  FilesRight' /\ TextsRight'
  <1>0. <<>> \in Text /\ pieces \in [Handles -> Seq(Text)] /\ stream \in [Handles -> StreamKinds]
    BY DEF FilesRight, FilesTyped, Text
  <1>1. content' = content /\ saved' = saved /\ ~halted' /\ in_buf' = in_buf
    BY DEF file_read_line, Input
  <1>2. CASE Is(h, "null")
    <2>1. /\ Returns(v, Own(<<>>), <<>>, {}) /\ stream' = stream /\ pieces' = Noted(h, <<>>)
          /\ file_buf' = file_buf
      BY <1>2 DEF file_read_line, ReadsNothing, ReadsLine, ReadFails, Is
    <2>2. TextsRight'
      BY <1>0, <1>1, <2>1, ReturnsOwn
    <2>3. /\ pieces' \in [Handles -> Seq(Text)]
          /\ \A g \in Handles \ {h} : pieces'[g] = pieces[g]
      BY <1>0, <2>1 DEF Noted
    <2>4. /\ FilesTyped /\ NothingLost
          /\ \A g \in Handles : GoodReader(stream[g], pieces[g], content)
          /\ \A g \in Handles : GoodLines(stream[g], pieces[g])
      BY FilesNow
    <2>5. FilesTyped' /\ HaltedClosed'
      BY <1>1, <2>1, <2>3, <2>4 DEF FilesTyped, HaltedClosed
    <2>6. NothingLost'
      BY <1>1, <2>1, <2>4 DEF NothingLost, UpToDate
    <2>7. \A g \in Handles : GoodReader(stream'[g], pieces'[g], content')
      BY <1>1, <1>2, <2>1, <2>3, <2>4 DEF GoodReader, Is
    <2>8. \A g \in Handles : GoodLines(stream'[g], pieces'[g])
      BY <1>2, <2>1, <2>3, <2>4 DEF GoodLines, Is
    <2> QED
      BY <2>2, <2>5, <2>6, <2>7, <2>8, FilesNext
  <1>3. CASE stream[h].is = "reader"
    <2> DEFINE s == stream[h]
               text == Snapshot(h)
    <2>1. /\ text \in Text /\ text # None /\ s.file \in Files /\ s.pos \in Nat /\ s.pos <= Len(text)
          /\ (~s.error => ReadSoFar(pieces[h], text, s.pos)) /\ pieces[h] \in Seq(Text)
          /\ s.error \in BOOLEAN /\ (s.text = None => ~s.eof)
      BY <1>3, ReaderHas
    <2>2. s \in Readers /\ Readers \subseteq StreamKinds
      BY <1>0, <1>3, ReaderIs DEF Readers, StreamKinds
    <2>3. ~Is(h, "null") /\ Is(h, "reader")
      BY <1>3 DEF Is
    <2>4. Len(text) \in Nat
      BY <2>1 DEF Text
    <2>5. Rest(h) = SubSeq(text, s.pos + 1, Len(text))
      BY DEF Rest
    <2>6. CASE Rest(h) = <<>> /\ ReadsNothing(h, v)
      <3>1. /\ Returns(v, Own(<<>>), <<>>, {}) /\ pieces' = Noted(h, <<>>) /\ file_buf' = file_buf
            /\ stream' = [stream EXCEPT ![h].text = text, ![h].eof = TRUE]
        BY <2>3, <2>6 DEF ReadsNothing
      <3>2. TextsRight'
        BY <1>0, <1>1, <3>1, ReturnsOwn
      <3>3. s.pos = Len(text)
        BY <2>1, <2>4, <2>5, <2>6, PartOf
      <3> DEFINE r1 == [s EXCEPT !.text = text]
                 r == [r1 EXCEPT !.eof = TRUE]
      <3>4. stream' = [stream EXCEPT ![h] = r]
        BY <3>1
      <3>5. r1 \in Readers /\ r1.text = text /\ r1.pos = s.pos /\ r1.error = s.error
        <4> HIDE DEF s, text
        <4> QED
          BY <2>1, <2>2 DEF Readers
      <3> HIDE DEF r1
      <3>6. r \in Readers /\ r.is = "reader" /\ r.text = text /\ r.pos = s.pos /\ r.eof = TRUE
            /\ r.error = s.error
        BY <3>5 DEF Readers
      <3> HIDE DEF r
      <3>7. PICK got \in Seq(Text) :
                pieces' = [pieces EXCEPT ![h] = got] /\ (~s.error => ReadSoFar(got, text, s.pos))
        BY <1>0, <2>1, <3>1, <3>3, NotedAtEnd
      <3> HIDE DEF text
      <3>8. FilesRight'
        BY <1>1, <1>3, <2>1, <2>2, <3>3, <3>4, <3>7, <3>6, ReadKeeps
      <3> QED
        BY <3>2, <3>8
    <2>7. CASE ReadsLine(h, v)
      <3> DEFINE rest == Rest(h)
                 read == fgets(rest)
                 eof == Short(read)
      <3>1. /\ file_buf' = read /\ Returns(v, FileBuf, read, {FileBuf}) /\ pieces' = Noted(h, read)
            /\ stream' = [stream EXCEPT ![h].text = text, ![h].pos = @ + Len(read), ![h].eof = eof]
        BY <2>7 DEF ReadsLine, LineOfFile
      <3>2. /\ rest \in Text /\ Len(rest) = Len(text) - s.pos
            /\ \A i \in 1..(Len(text) - s.pos) : rest[i] = text[s.pos + i]
        <4>1. Len(text) <= Len(text) /\ rest = SubSeq(text, s.pos + 1, Len(text))
          BY <2>4, <2>5
        <4> HIDE DEF rest, text
        <4> QED
          BY <2>1, <2>4, <4>1, PartOf
      <3> HIDE DEF rest, text
      <3>3. PICK m \in 1..Len(rest) : Took(rest, m)
        BY <2>7, <3>2, FgetsTakes DEF rest, ReadsLine
      <3>4. m \in Nat /\ m >= 1 /\ s.pos + m \in Nat /\ s.pos <= s.pos + m /\ s.pos + m <= Len(text)
            /\ 0 <= m /\ m <= Len(rest) /\ (m = Len(rest) => s.pos + m = Len(text))
        BY <2>1, <2>4, <3>2, <3>3
      <3>5. /\ read \in Text /\ Len(read) = m /\ \A i \in 1..m : read[i] = rest[i]
        <4>1. /\ SubSeq(rest, 0 + 1, m) \in Text /\ Len(SubSeq(rest, 0 + 1, m)) = m - 0
              /\ \A i \in 1..(m - 0) : SubSeq(rest, 0 + 1, m)[i] = rest[0 + i]
          <5>1. rest \in Text /\ m \in Nat /\ 0 \in Nat /\ 0 <= m /\ m <= Len(rest)
            BY <3>2, <3>4
          <5> QED
            BY <5>1, PartOf
        <4>2. read = SubSeq(rest, 0 + 1, m) /\ m - 0 = m /\ \A i \in 1..m : 0 + i = i
          BY <3>3, <3>4 DEF Took
        <4> QED
          BY <4>1, <4>2
      <3> HIDE DEF read
      <3>6. read # <<>> /\ Last(read) = rest[m]
        BY <3>4, <3>5 DEF Last
      <3>7. (Last(read) = NL \/ Len(read) = BufSize - 1) \/ s.pos + m = Len(text)
        BY <3>3, <3>4, <3>5, <3>6 DEF Took
      <3>8. eof => s.pos + m = Len(text)
        <4>1. BufSize \in Nat
          BY RuntimeAssumption
        <4> QED
          BY <3>6, <3>7, <4>1 DEF Short
      <3>9. read = SubSeq(text, s.pos + 1, s.pos + m)
        <4> DEFINE w == SubSeq(text, s.pos + 1, s.pos + m)
        <4>1. /\ w \in Text /\ Len(w) = (s.pos + m) - s.pos
              /\ \A i \in 1..((s.pos + m) - s.pos) : w[i] = text[s.pos + i]
          BY <2>1, <3>4, PartOf
        <4>2. (s.pos + m) - s.pos = m
          BY <2>1, <3>4
        <4>3. \A i \in 1..m : rest[i] = text[s.pos + i]
          BY <3>2, <3>4
        <4> HIDE DEF w
        <4>4. /\ w \in Seq(STRING) /\ read \in Seq(STRING) /\ Len(w) = Len(read)
              /\ \A i \in 1..Len(w) : w[i] = read[i]
          BY <3>5, <4>1, <4>2, <4>3 DEF Text
        <4>5. w = read
          BY <4>4, SeqEqual
        <4> QED
          BY <4>5 DEF w
      <3>10. /\ ~s.error => ReadSoFar(Append(pieces[h], read), text, s.pos + m)
             /\ Append(pieces[h], read) \in Seq(Text)
        <4>1. Append(pieces[h], read) \in Seq(Text)
          BY <2>1, <3>5
        <4>2. ASSUME ~s.error PROVE ReadSoFar(Append(pieces[h], read), text, s.pos + m)
          BY <2>1, <3>4, <3>6, <3>7, <3>9, <4>2, ReadsOn
        <4> QED
          BY <4>1, <4>2
      <3>11. pieces' = [pieces EXCEPT ![h] = Append(pieces[h], read)]
        BY <3>1, <3>6 DEF Noted
      <3>12. TextsRight'
        BY <1>1, <3>1, <3>5, ReturnsFileBuf
      <3> DEFINE r1 == [s EXCEPT !.text = text]
                 r2 == [r1 EXCEPT !.pos = s.pos + m]
                 r == [r2 EXCEPT !.eof = eof]
      <3>13. stream' = [stream EXCEPT ![h] = r]
        <4>1. stream' = [stream EXCEPT ![h].text = text, ![h].pos = @ + m, ![h].eof = eof]
          BY <3>1, <3>5
        <4> HIDE DEF eof
        <4> QED
          BY <4>1
      <3>14. r1 \in Readers /\ r1.text = text /\ r1.error = s.error
        <4> HIDE DEF s
        <4> QED
          BY <2>1, <2>2 DEF Readers
      <3> HIDE DEF r1
      <3>15. r2 \in Readers /\ r2.text = text /\ r2.pos = s.pos + m /\ r2.error = s.error
        BY <3>4, <3>14 DEF Readers
      <3> HIDE DEF r2
      <3>16. eof \in BOOLEAN
        BY DEF Short
      <3> HIDE DEF eof
      <3>17. r \in Readers /\ r.is = "reader" /\ r.text = text /\ r.pos = s.pos + m /\ r.eof = eof
             /\ r.error = s.error
        BY <3>15, <3>16 DEF Readers
      <3> HIDE DEF r
      <3>18. FilesRight'
        BY <1>1, <1>3, <2>1, <2>2, <3>4, <3>8, <3>10, <3>11, <3>13, <3>17, <3>16, ReadKeeps
      <3> QED
        BY <3>12, <3>18
    <2>8. CASE ReadFails(h, v)
      BY <1>1, <1>3, <2>8, ReadFailsKeeps
    <2> QED
      BY <2>3, <2>6, <2>7, <2>8 DEF file_read_line, ReadsNothing
  <1> QED
    BY <1>2, <1>3 DEF file_read_line, Is

-------------------------------------------------------------------------------
(***************************************************************************)
(* All of it together.                                                     *)
(***************************************************************************)
LEMMA InitIInv == Init => IInv
  <1> SUFFICES ASSUME Init PROVE IInv
    OBVIOUS
  <1>0. <<>> \in Text /\ <<>> \in Seq(Text) /\ None \notin Text
    BY TextsAssumption DEF Text
  <1>1. content \in [Files -> Text \cup {None}] /\ input \in Text
    BY TextsAssumption DEF Init
  <1>2. \A h \in Handles : stream[h] = Closed /\ pieces[h] = <<>>
    BY DEF Init
  <1>3. FilesTyped
    BY <1>0, <1>1, Kinds DEF Init, FilesTyped
  <1>4. NothingLost
    <2> SUFFICES ASSUME NEW f \in Files PROVE UpToDate(stream, f, content[f], saved[f])
      BY DEF NothingLost
    <2>1. \A g \in Handles : ~Into(stream[g], f)
      BY <1>2, Kinds DEF Into
    <2> QED
      BY <2>1, NoWriter DEF Init
  <1>5. HaltedClosed
    BY DEF Init, HaltedClosed
  <1>6. ReadersReady /\ LinesMakeTheFile
    BY <1>2, Kinds DEF ReadersReady, LinesMakeTheFile, Is
  <1>7. TextsTyped /\ TextsStay
    <2>1. Own(<<>>) \in Pointers /\ Own(<<>>).at = "own" /\ Own(<<>>).text = <<>>
      BY <1>0, PointersDiffer
    <2> QED
      BY <1>0, <2>1 DEF Init, TextsTyped, TextsStay, Chars
  <1>8. InputTyped
    BY <1>0, <1>1 DEF Init, InputTyped, Text
  <1>9. NothingUnasked
    <2>1. Len(input) - Len(stdin) = 0 /\ asked = <<>>
      BY <1>1 DEF Init, Text
    <2>2. Kept({}, 0) = {} /\ Cardinality(Kept({}, 0)) = 0
      BY FS_EmptySet DEF Kept
    <2>3. {} \in SUBSET Droppable /\ Noticed(input, {}, 0, asked)
      BY <2>1, <2>2 DEF Noticed
    <2> QED
      BY <2>1, <2>3, NoticedIsAsked
  <1> QED
    BY <1>3, <1>4, <1>5, <1>6, <1>7, <1>8, <1>9 DEF IInv, FilesRight, TextsRight, InputRight

LEMMA CallKeeps ==
    ASSUME IInv, ~halted, Call
    PROVE  IInv'
  <1>0. FilesRight /\ TextsRight /\ InputRight
    BY DEF IInv
  <1>1. ASSUME NEW h \in Handles, NEW f \in Files, NEW mode \in {"r", "w"}, file_open(h, f, mode)
        PROVE  IInv'
    <2>1. Input /\ Variables /\ in_buf' = in_buf
      BY <1>1 DEF file_open, Input
    <2> QED
      BY <1>0, <1>1, <2>1, FileOpenKeeps, TextsQuiet, InputQuiet DEF IInv
  <1>2. ASSUME NEW h \in Handles, file_close(h) PROVE IInv'
    <2>1. Input /\ Variables /\ in_buf' = in_buf
      BY <1>2 DEF file_close, Input
    <2> QED
      BY <1>0, <1>2, <2>1, FileCloseKeeps, TextsQuiet, InputQuiet DEF IInv
  <1>3. ASSUME NEW h \in Handles, NEW text \in Writes, file_write(h, text) PROVE IInv'
    <2>1. Input /\ Variables /\ in_buf' = in_buf
      BY <1>3 DEF file_write, Input
    <2> QED
      BY <1>0, <1>3, <2>1, FileWriteKeeps, TextsQuiet, InputQuiet DEF IInv
  <1>4. ASSUME NEW f \in Files, file_remove(f) PROVE IInv'
    <2>1. Input /\ Variables /\ in_buf' = in_buf
      BY <1>4 DEF file_remove, Input
    <2> QED
      BY <1>0, <1>4, <2>1, FileRemoveKeeps, TextsQuiet, InputQuiet DEF IInv
  <1>5. ASSUME NEW h \in Handles, NEW v \in Vars \cup {None}, file_read_line(h, v) PROVE IInv'
    <2>1. Input
      BY <1>5 DEF file_read_line
    <2> QED
      BY <1>0, <1>5, <2>1, FileReadLineKeeps, InputQuiet DEF IInv
  <1>6. ASSUME NEW v \in Vars \cup {None}, ask_line(v) PROVE IInv'
    <2>1. Streams /\ halted' = halted
      BY <1>6 DEF ask_line
    <2> QED
      BY <1>0, <1>6, <2>1, AskLineKeeps, FilesQuiet DEF IInv
  <1>7. CASE ask_int
    <2>1. Streams /\ Variables /\ halted' = halted /\ in_buf' = in_buf
      BY <1>7 DEF ask_int
    <2> QED
      BY <1>0, <1>7, <2>1, AskIntKeeps, FilesQuiet, TextsQuiet DEF IInv
  <1>8. ASSUME NEW u \in Vars, NEW text \in Text, NewText(u, text) PROVE IInv'
    <2>1. Streams /\ Input /\ halted' = halted
      BY <1>8 DEF NewText
    <2> QED
      BY <1>0, <1>8, <2>1, NewTextKeeps, FilesQuiet, InputQuiet DEF IInv
  <1>9. ASSUME NEW u \in Vars, NEW v \in Vars, NEW w \in Vars, join(u, v, w) PROVE IInv'
    <2>1. Chars(v) \o Chars(w) \in Text
      BY <1>0, CharsTyped, ConcatProperties DEF TextsRight, Text
    <2> QED
      BY <1>8, <1>9, <2>1 DEF join
  <1>10. ASSUME NEW u \in Vars, NEW v \in Vars, NEW p \in Slices, str_slice(u, v, p[1], p[2]) PROVE IInv'
    <2>1. Chars(v) \in Text
      BY <1>0, CharsTyped DEF TextsRight
    <2>2. p[1] \in Int /\ p[2] \in Int
      BY RuntimeAssumption
    <2>3. rt_text_slice(Chars(v), p[1], p[2]) \in Text
      BY <2>1, <2>2, SliceTyped
    <2> QED
      BY <1>8, <1>10, <2>3 DEF str_slice
  <1>11. CASE halt
    <2>1. Input /\ Variables /\ in_buf' = in_buf
      BY <1>11 DEF halt, Input
    <2> QED
      BY <1>0, <1>11, <2>1, HaltKeeps, TextsQuiet, InputQuiet DEF IInv
  <1> QED
    BY <1>1, <1>2, <1>3, <1>4, <1>5, <1>6, <1>7, <1>9, <1>10, <1>11 DEF Call

LEMMA StutterKeeps ==
    ASSUME IInv, UNCHANGED vars
    PROVE  IInv'
  <1>1. Streams /\ Input /\ Variables /\ halted' = halted /\ in_buf' = in_buf
    BY DEF vars, program, Streams, Input, Variables
  <1> QED
    BY <1>1, FilesQuiet, TextsQuiet, InputQuiet DEF IInv

LEMMA RuntimeInvariant == Spec => []IInv
  <1>1. IInv /\ [Next]_vars => IInv'
    BY CallKeeps, StutterKeeps DEF Next
  <1> QED
    BY <1>1, InitIInv, PTL DEF Spec

(* The reads of a handle return all of the file, in order and by lines.    *)
THEOREM LinesComeWhole == Spec => []LinesMakeTheFile
  <1>1. IInv => LinesMakeTheFile
    BY DEF IInv, FilesRight
  <1> QED
    BY <1>1, RuntimeInvariant, PTL

(* A text stays until its buffer is filled again, one of its own for good. *)
THEOREM TextsAreKept == Spec => []TextsStay
  <1>1. IInv => TextsStay
    BY DEF IInv, TextsRight
  <1> QED
    BY <1>1, RuntimeInvariant, PTL

(* What was written is in the file that is closed.                         *)
THEOREM FilesAreSaved == Spec => []ClosedIsSaved
  <1>1. ASSUME IInv PROVE ClosedIsSaved
    <2> SUFFICES ASSUME NEW f \in Files,
                        halted \/ \A h \in Handles : Is(h, "writer") /\ stream[h].linked => stream[h].file # f
                 PROVE  content[f] = saved[f]
      BY DEF ClosedIsSaved
    <2>1. \A h \in Handles : ~Into(stream[h], f)
      BY <1>1 DEF IInv, FilesRight, HaltedClosed, Is, Into
    <2>2. UpToDate(stream, f, content[f], saved[f])
      BY <1>1 DEF IInv, FilesRight, NothingLost
    <2> QED
      BY <2>1, <2>2 DEF UpToDate
  <1> QED
    BY <1>1, RuntimeInvariant, PTL

(* No character of the input is lost but blanks and signs without digits.  *)
THEOREM InputIsAsked == Spec => []NothingUnasked
  <1>1. IInv => NothingUnasked
    BY DEF IInv, InputRight
  <1> QED
    BY <1>1, RuntimeInvariant, PTL

(* str_slice is the substring of the documentation, for any positions.     *)
THEOREM SlicesAreSubstrings == Spec => []SliceDocumented
  <1>1. IInv => SliceDocumented
    BY SliceMeans DEF IInv, TextsRight
  <1> QED
    BY <1>1, RuntimeInvariant, PTL
===============================================================================
