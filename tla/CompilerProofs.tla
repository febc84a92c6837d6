---------------------------- MODULE CompilerProofs ----------------------------
(***************************************************************************)
(* Theorems about Compiler: the symbols and the passes of the generator    *)
(* over any program, and what ResolverProofs shows of the program that it  *)
(* gets, put together, for every source tree, alias and name.              *)
(***************************************************************************)
EXTENDS Compiler, FiniteSetTheorems, TLAPS

RP == INSTANCE ResolverProofs
-------------------------------------------------------------------------------
(***************************************************************************)
(* What joining an alias and a name with "__" can be relied on for,        *)
(* whatever the names.                                                     *)
(***************************************************************************)

(* Where the characters of a symbol come from.                             *)
LEMMA UnaliasedSymbol ==
    ASSUME NEW S, Generation!Underscore \in S, Generation!UserPrefix \in S, NEW n \in Seq(S)
    PROVE  LET m == Generation!mangle_func(None, n) IN
           /\ Len(m) = 1 + Len(n)
           /\ \A i \in 1..Len(n) : m[1 + i] = n[i]
<1>1. Generation!mangle_func(None, n) = (<<Generation!UserPrefix>> \o <<>>) \o n
  BY DEF Generation!mangle_func
<1>2. <<Generation!UserPrefix>> \in Seq(S) /\ <<>> \in Seq(S)
  OBVIOUS
<1>3. <<Generation!UserPrefix>> \o <<>> = <<Generation!UserPrefix>>
  BY <1>2
<1> QED BY <1>1, <1>2, <1>3

(* The alias, two underscores and the name stand behind the prefix.        *)
LEMMA AliasedSymbol ==
    ASSUME NEW S, Generation!Underscore \in S, Generation!UserPrefix \in S, NEW a \in Seq(S), a # None, NEW n \in Seq(S)
    PROVE  LET m == Generation!mangle_func(a, n) IN
           /\ Len(m) = 3 + Len(a) + Len(n)
           /\ \A i \in 1..Len(a) : m[1 + i] = a[i]
           /\ m[Len(a) + 2] = Generation!Underscore /\ m[Len(a) + 3] = Generation!Underscore
           /\ \A i \in 1..Len(n) : m[Len(a) + 3 + i] = n[i]
<1>1. Generation!mangle_func(a, n) = (<<Generation!UserPrefix>> \o (a \o <<Generation!Underscore, Generation!Underscore>>)) \o n
  BY DEF Generation!mangle_func, Generation!Separator
<1>2. <<Generation!UserPrefix>> \in Seq(S) /\ <<Generation!Underscore, Generation!Underscore>> \in Seq(S)
  OBVIOUS
<1> DEFINE x == a \o <<Generation!Underscore, Generation!Underscore>>
           y == <<Generation!UserPrefix>> \o x
<1>3. /\ x \in Seq(S) /\ Len(x) = Len(a) + 2
      /\ \A i \in 1..Len(a) : x[i] = a[i]
      /\ x[Len(a) + 1] = Generation!Underscore /\ x[Len(a) + 2] = Generation!Underscore
  BY <1>2
<1> HIDE DEF x
<1>4. /\ y \in Seq(S) /\ Len(y) = Len(a) + 3
      /\ \A i \in 1..(Len(a) + 2) : y[1 + i] = x[i]
  BY <1>2, <1>3
<1>5. Generation!mangle_func(a, n) = y \o n
  BY <1>1 DEF x
<1> HIDE DEF y
<1>6. Len(a) \in Nat /\ Len(n) \in Nat /\ Len(y \o n) = 3 + Len(a) + Len(n)
  <2>0. y \in Seq(S) /\ Len(y) = Len(a) + 3
    BY <1>4
  <2>1. Len(y \o n) = Len(y) + Len(n) /\ Len(a) \in Nat /\ Len(n) \in Nat
    BY <2>0
  <2> QED BY <1>4, <2>1
<1>7. \A j \in 1..(Len(a) + 3) : (y \o n)[j] = y[j]
  BY <1>4
<1>8. \A i \in 1..Len(n) : (y \o n)[Len(a) + 3 + i] = n[i]
  BY <1>4
<1>9. (y \o n)[Len(a) + 2] = Generation!Underscore /\ (y \o n)[Len(a) + 3] = Generation!Underscore
  <2>1. y[1 + (Len(a) + 1)] = x[Len(a) + 1] /\ y[1 + (Len(a) + 2)] = x[Len(a) + 2]
    BY <1>4, <1>6
  <2>2. 1 + (Len(a) + 1) = Len(a) + 2 /\ 1 + (Len(a) + 2) = Len(a) + 3
    BY <1>6
  <2>3. y[Len(a) + 2] = Generation!Underscore /\ y[Len(a) + 3] = Generation!Underscore
    BY <1>3, <2>1, <2>2
  <2> QED BY <1>6, <1>7, <2>3
<1>10. \A i \in 1..Len(a) : (y \o n)[1 + i] = a[i]
  <2> SUFFICES ASSUME NEW i \in 1..Len(a) PROVE (y \o n)[1 + i] = a[i]
    OBVIOUS
  <2>1. 1 + i \in 1..(Len(a) + 3) /\ i \in 1..(Len(a) + 2)
    BY <1>6
  <2> QED BY <1>3, <1>4, <1>7, <2>1
<1> QED BY <1>5, <1>6, <1>8, <1>9, <1>10

LEMMA SymbolStarts ==
    ASSUME NEW S, Generation!Underscore \in S, Generation!UserPrefix \in S, NEW a \in Seq(S) \cup {None}, NEW n \in Seq(S)
    PROVE  Generation!mangle_func(a, n)[1] = Generation!UserPrefix
<1> DEFINE x == IF a = None THEN <<>> ELSE a \o <<Generation!Underscore, Generation!Underscore>>
           y == <<Generation!UserPrefix>> \o x
<1>1. x \in Seq(S) /\ Generation!mangle_func(a, n) = y \o n
  BY DEF Generation!mangle_func, Generation!Separator
<1> HIDE DEF x
<1>2. y \in Seq(S) /\ y[1] = Generation!UserPrefix /\ Len(y) \in Nat \ {0}
  <2>1. <<Generation!UserPrefix>> \in Seq(S) /\ Len(<<Generation!UserPrefix>>) = 1 /\ <<Generation!UserPrefix>>[1] = Generation!UserPrefix
    OBVIOUS
  <2> QED BY <1>1, <2>1
<1> HIDE DEF y
<1> QED BY <1>1, <1>2

(* Sequences are equal if they agree in length and element by element.     *)
LEMMA SameSequence ==
    ASSUME NEW S, NEW s \in Seq(S), NEW t \in Seq(S), Len(s) = Len(t),
           \A i \in 1..Len(s) : s[i] = t[i]
    PROVE  s = t
  OBVIOUS

(* A clean alias ends where the symbol first has two underscores.          *)
LEMMA AliasEnds ==
    ASSUME NEW S, Generation!Underscore \in S, Generation!UserPrefix \in S,
           NEW a \in Seq(S) \ {<<>>}, NEW b \in Seq(S) \ {<<>>}, a # None, b # None,
           NEW n \in Seq(S), NEW k \in Seq(S),
           Generation!NoDouble(b), Generation!Last(b) # Generation!Underscore,
           Generation!mangle_func(a, n) = Generation!mangle_func(b, k)
    PROVE  ~(Len(a) < Len(b))
<1> SUFFICES ASSUME Len(a) < Len(b) PROVE FALSE
  OBVIOUS
<1> DEFINE m == Generation!mangle_func(a, n)
<1>1. m[Len(a) + 2] = Generation!Underscore /\ m[Len(a) + 3] = Generation!Underscore
  BY AliasedSymbol
<1>2. \A i \in 1..Len(b) : m[1 + i] = b[i]
  <2>1. \A i \in 1..Len(b) : Generation!mangle_func(b, k)[1 + i] = b[i]
    BY AliasedSymbol
  <2> QED BY <2>1
<1> HIDE DEF m
<1>3. Len(a) \in Nat /\ Len(b) \in Nat
  OBVIOUS
<1>4. b[Len(a) + 1] = Generation!Underscore
  <2>1. m[1 + (Len(a) + 1)] = b[Len(a) + 1]
    BY <1>2, <1>3
  <2> QED BY <1>1, <1>3, <2>1
<1>5. CASE Len(b) = Len(a) + 1
  BY <1>4, <1>5 DEF Generation!Last
<1>6. CASE Len(b) # Len(a) + 1
  <2>1. Len(a) + 2 \in 1..Len(b) /\ Len(a) + 1 \in 1..(Len(b) - 1)
    BY <1>3, <1>6
  <2>2. m[1 + (Len(a) + 2)] = b[Len(a) + 2]
    BY <1>2, <2>1
  <2>3. b[Len(a) + 2] = Generation!Underscore
    BY <1>1, <1>3, <2>2
  <2>4. ~(b[Len(a) + 1] = Generation!Underscore /\ b[(Len(a) + 1) + 1] = Generation!Underscore)
    BY <2>1 DEF Generation!NoDouble
  <2> QED BY <1>3, <1>4, <2>3, <2>4
<1> QED BY <1>5, <1>6

(* No unaliased clean name gives the symbol of an aliased one.             *)
LEMMA UnaliasedApart ==
    ASSUME NEW S, Generation!Underscore \in S, Generation!UserPrefix \in S, NEW a \in Seq(S), a # None,
           NEW n \in Seq(S), NEW k \in Seq(S), Generation!NoDouble(k)
    PROVE  Generation!mangle_func(a, n) # Generation!mangle_func(None, k)
<1> SUFFICES ASSUME Generation!mangle_func(a, n) = Generation!mangle_func(None, k) PROVE FALSE
  OBVIOUS
<1> DEFINE m == Generation!mangle_func(a, n)
<1>1. m[Len(a) + 2] = Generation!Underscore /\ m[Len(a) + 3] = Generation!Underscore /\ Len(m) = 3 + Len(a) + Len(n)
  BY AliasedSymbol
<1>2. Len(m) = 1 + Len(k) /\ \A i \in 1..Len(k) : m[1 + i] = k[i]
  BY UnaliasedSymbol
<1> HIDE DEF m
<1>3. Len(a) \in Nat /\ Len(n) \in Nat /\ Len(k) = Len(a) + Len(n) + 2
  BY <1>1, <1>2
<1>4. m[1 + (Len(a) + 1)] = k[Len(a) + 1] /\ m[1 + (Len(a) + 2)] = k[Len(a) + 2]
  BY <1>2, <1>3
<1>5. k[Len(a) + 1] = Generation!Underscore /\ k[(Len(a) + 1) + 1] = Generation!Underscore
  BY <1>1, <1>3, <1>4
<1> QED BY <1>3, <1>5 DEF Generation!NoDouble

(* Two functions get the same C symbol only if their aliases and their     *)
(* names are the same, provided that no alias contains "__" or ends in "_" *)
(* and that no name without an alias contains "__".                        *)
THEOREM MangleInjective ==
    ASSUME NEW S, Generation!Underscore \in S, Generation!UserPrefix \in S,
           NEW a \in (Seq(S) \ {<<>>}) \cup {None}, NEW b \in (Seq(S) \ {<<>>}) \cup {None},
           NEW n \in Seq(S), NEW k \in Seq(S), Generation!Clean(a, n), Generation!Clean(b, k),
           Generation!mangle_func(a, n) = Generation!mangle_func(b, k)
    PROVE  a = b /\ n = k
<1>1. CASE a = None /\ b = None
  <2>1. Len(n) = Len(k) /\ \A i \in 1..Len(n) : n[i] = k[i]
    <3>1. Len(Generation!mangle_func(None, n)) = 1 + Len(n) /\ Len(Generation!mangle_func(None, n)) = 1 + Len(k)
      BY <1>1, UnaliasedSymbol
    <3>2. \A i \in 1..Len(n) : Generation!mangle_func(None, n)[1 + i] = n[i]
      BY UnaliasedSymbol
    <3>3. \A i \in 1..Len(k) : Generation!mangle_func(None, n)[1 + i] = k[i]
      BY <1>1, UnaliasedSymbol
    <3> QED BY <3>1, <3>2, <3>3
  <2> QED BY <1>1, <2>1, SameSequence
<1>2. CASE a # None /\ b = None
  BY <1>2, UnaliasedApart DEF Generation!Clean
<1>3. CASE a = None /\ b # None
  BY <1>3, UnaliasedApart DEF Generation!Clean
<1>4. CASE a # None /\ b # None
  <2> DEFINE m == Generation!mangle_func(a, n)
  <2>1. ~(Len(a) < Len(b)) /\ ~(Len(b) < Len(a))
    BY <1>4, AliasEnds DEF Generation!Clean
  <2>2. Len(a) \in Nat /\ Len(b) \in Nat /\ Len(n) \in Nat /\ Len(k) \in Nat /\ Len(a) = Len(b)
    BY <1>4, <2>1
  <2>3. /\ Len(m) = 3 + Len(a) + Len(n) /\ \A i \in 1..Len(a) : m[1 + i] = a[i]
        /\ \A i \in 1..Len(n) : m[Len(a) + 3 + i] = n[i]
    BY <1>4, AliasedSymbol
  <2>4. /\ Len(m) = 3 + Len(b) + Len(k) /\ \A i \in 1..Len(b) : m[1 + i] = b[i]
        /\ \A i \in 1..Len(k) : m[Len(b) + 3 + i] = k[i]
    <3>1. LET p == Generation!mangle_func(b, k) IN
          /\ Len(p) = 3 + Len(b) + Len(k) /\ \A i \in 1..Len(b) : p[1 + i] = b[i]
          /\ \A i \in 1..Len(k) : p[Len(b) + 3 + i] = k[i]
      <4>1. b \in Seq(S) /\ b # None
        BY <1>4
      <4> QED BY <4>1, AliasedSymbol
    <3> QED BY <3>1
  <2> HIDE DEF m
  <2>5. \A i \in 1..Len(a) : a[i] = b[i]
    BY <2>2, <2>3, <2>4
  <2>6. Len(n) = Len(k) /\ \A i \in 1..Len(n) : n[i] = k[i]
    BY <2>2, <2>3, <2>4
  <2> QED BY <1>4, <2>2, <2>5, <2>6, SameSequence
<1> QED BY <1>1, <1>2, <1>3, <1>4
-------------------------------------------------------------------------------
(***************************************************************************)
(* The three passes over any program that is an array of declarations:     *)
(* what they have written of it, and in which order.                       *)
(***************************************************************************)
Indexed == Len(Items) \in Nat /\ DOMAIN Items = 1..Len(Items)

(* The declarations each pass has behind it.                               *)
StructsPassed    == {i \in DOMAIN Items : pass = "structs" => i < next}
PrototypesPassed == {i \in DOMAIN Items : pass # "structs" /\ (pass = "prototypes" => i < next)}
BodiesPassed     == {i \in DOMAIN Items : pass = "done" \/ (pass = "bodies" /\ i < next)}

PassTypeOK ==
    /\ pass \in {"structs", "prototypes", "bodies", "done"}
    /\ next \in Nat \ {0}
    /\ header \in Seq({Generation!Struct(Items[i]) : i \in DOMAIN Items}
                        \cup {Generation!Prototype(Items[i]) : i \in DOMAIN Items})
    /\ body \in Seq({Generation!Body(Items[i]) : i \in DOMAIN Items} \cup {Generation!CMain})

(* Every struct behind the first loop is in the header ...                 *)
StructsWritten ==
    \A i \in StructsPassed : Generation!IsStruct(Items[i]) => \E h \in DOMAIN header : header[h] = Generation!Struct(Items[i])

(* ... below those that precede it in the program.                         *)
StructsInOrder ==
    \A i, j \in StructsPassed :
        i < j /\ Generation!IsStruct(Items[i]) /\ Generation!IsStruct(Items[j]) =>
            \E g, h \in DOMAIN header :
                g < h /\ header[g] = Generation!Struct(Items[i]) /\ header[h] = Generation!Struct(Items[j])

(* Every function behind the second loop has its prototype.                *)
PrototypesWritten ==
    \A i \in PrototypesPassed : Generation!Written(Items[i]) => \E h \in DOMAIN header : header[h] = Generation!Prototype(Items[i])

(* Every function behind the third loop has a body ...                     *)
BodiesWritten ==
    \A i \in BodiesPassed : Generation!Written(Items[i]) => \E b \in DOMAIN body : body[b] = Generation!Body(Items[i])

(* ... every body is of such a function, or it is C's main, the end ...    *)
BodiesOwn ==
    \A b \in DOMAIN body :
        \/ pass = "done" /\ body[b] = Generation!CMain
        \/ \E i \in BodiesPassed : Generation!Written(Items[i]) /\ body[b] = Generation!Body(Items[i])

(* ... and no two bodies are of the same one.                              *)
BodiesApart ==
    \A b, c \in DOMAIN body :
        b < c => \/ pass = "done" /\ body[c] = Generation!CMain
                 \/ \E i, j \in BodiesPassed :
                      /\ i < j /\ Generation!Written(Items[i]) /\ Generation!Written(Items[j])
                      /\ body[b] = Generation!Body(Items[i]) /\ body[c] = Generation!Body(Items[j])

EInv ==
    /\ Indexed
    /\ PassTypeOK
    /\ StructsWritten
    /\ StructsInOrder
    /\ PrototypesWritten
    /\ BodiesWritten
    /\ BodiesOwn
    /\ BodiesApart

(* Appending keeps what is there in its place.                             *)
LEMMA Appended ==
    ASSUME NEW S, NEW s \in Seq(S), NEW e \in S
    PROVE  /\ Append(s, e) \in Seq(S)
           /\ DOMAIN Append(s, e) = DOMAIN s \cup {Len(s) + 1}
           /\ \A k \in DOMAIN s : Append(s, e)[k] = s[k] /\ k < Len(s) + 1
           /\ Append(s, e)[Len(s) + 1] = e
  OBVIOUS

LEMMA EmissionStarts == Generation!Init /\ Indexed => EInv
  BY DEF Generation!Init, EInv, PassTypeOK, StructsPassed, PrototypesPassed, BodiesPassed, Indexed,
     StructsWritten, StructsInOrder, PrototypesWritten, BodiesWritten, BodiesOwn, BodiesApart

(* What a declaration becomes depends on the program only.                 *)
LEMMA ItemsStay ==
    ASSUME Items' = Items
    PROVE  \A i : Generation!Body(Items[i])' = Generation!Body(Items[i]) /\ Generation!Struct(Items[i])' = Generation!Struct(Items[i])
  BY DEF Generation!Body, Generation!Struct, Generation!call_symbol, Generation!Matches

LEMMA EmitStructKeeps == EInv /\ Generation!EmitStruct => EInv'
<1> SUFFICES ASSUME EInv, Generation!EmitStruct PROVE EInv'
  OBVIOUS
<1> DEFINE S == {Generation!Struct(Items[i]) : i \in DOMAIN Items} \cup {Generation!Prototype(Items[i]) : i \in DOMAIN Items}
<1>1. /\ pass = "structs" /\ pass' = pass /\ next \in DOMAIN Items /\ next' = next + 1 /\ next \in Nat \ {0}
      /\ Items' = Items /\ body' = body /\ header \in Seq(S)
      /\ header' = IF Generation!IsStruct(Items[next]) THEN Append(header, Generation!Struct(Items[next])) ELSE header
  BY DEF Generation!EmitStruct, Generation!InPass, Generation!Current, EInv, PassTypeOK, Indexed
<1>2. /\ StructsPassed' = StructsPassed \cup {next} /\ \A i \in StructsPassed : i < next
      /\ PrototypesPassed' = {} /\ BodiesPassed' = {} /\ BodiesPassed = {}
  BY <1>1 DEF StructsPassed, PrototypesPassed, BodiesPassed, EInv, Indexed
<1>3. /\ header' \in Seq(S) /\ DOMAIN header \subseteq DOMAIN header'
      /\ \A k \in DOMAIN header : header'[k] = header[k]
      /\ Generation!IsStruct(Items[next]) =>
            \E h \in DOMAIN header' : header'[h] = Generation!Struct(Items[next]) /\ \A g \in DOMAIN header : g < h
  <2> HIDE DEF S
  <2>1. Generation!Struct(Items[next]) \in S
    BY <1>1 DEF S
  <2> QED BY <1>1, <2>1, Appended
<1>4. Indexed'
  BY <1>1 DEF EInv, Indexed
<1>5. PassTypeOK'
  <2>1. \A i : Generation!Body(Items[i])' = Generation!Body(Items[i]) /\ Generation!Struct(Items[i])' = Generation!Struct(Items[i])
    BY <1>1, ItemsStay
  <2> QED BY <1>1, <1>3, <2>1 DEF EInv, PassTypeOK
<1>6. StructsWritten'
  BY <1>1, <1>2, <1>3 DEF EInv, StructsWritten
<1>7. StructsInOrder'
  <2> SUFFICES ASSUME NEW i \in StructsPassed', NEW j \in StructsPassed', i < j,
                      Generation!IsStruct(Items[i]), Generation!IsStruct(Items[j])
               PROVE  \E g, h \in DOMAIN header' :
                         g < h /\ header'[g] = Generation!Struct(Items[i]) /\ header'[h] = Generation!Struct(Items[j])
    BY <1>1 DEF StructsInOrder
  <2>1. i \in StructsPassed
    <3>1. i \in Nat /\ j \in Nat
      BY DEF EInv, Indexed, StructsPassed
    <3> QED BY <1>1, <1>2, <3>1
  <2>2. CASE j = next
    <3>1. PICK g \in DOMAIN header : header[g] = Generation!Struct(Items[i])
      BY <2>1 DEF EInv, StructsWritten
    <3> QED BY <1>3, <2>2, <3>1
  <2>3. CASE j # next
    BY <1>2, <1>3, <2>1, <2>3 DEF EInv, StructsInOrder
  <2> QED BY <2>2, <2>3
<1>8. PrototypesWritten' /\ BodiesWritten' /\ BodiesOwn' /\ BodiesApart'
  BY <1>1, <1>2 DEF EInv, PrototypesWritten, BodiesWritten, BodiesOwn, BodiesApart
<1> QED BY <1>4, <1>5, <1>6, <1>7, <1>8 DEF EInv

LEMMA EmitPrototypeKeeps == EInv /\ Generation!EmitPrototype => EInv'
<1> SUFFICES ASSUME EInv, Generation!EmitPrototype PROVE EInv'
  OBVIOUS
<1> DEFINE S == {Generation!Struct(Items[i]) : i \in DOMAIN Items} \cup {Generation!Prototype(Items[i]) : i \in DOMAIN Items}
<1>1. /\ pass = "prototypes" /\ pass' = pass /\ next \in DOMAIN Items /\ next' = next + 1 /\ next \in Nat \ {0}
      /\ Items' = Items /\ body' = body /\ header \in Seq(S)
      /\ header' = IF Generation!Written(Items[next]) THEN Append(header, Generation!Prototype(Items[next])) ELSE header
  BY DEF Generation!EmitPrototype, Generation!InPass, Generation!Current, EInv, PassTypeOK, Indexed
<1>2. /\ StructsPassed' = StructsPassed /\ BodiesPassed' = {} /\ BodiesPassed = {}
      /\ PrototypesPassed' = PrototypesPassed \cup {next}
  BY <1>1 DEF StructsPassed, PrototypesPassed, BodiesPassed, EInv, Indexed
<1>3. /\ header' \in Seq(S) /\ DOMAIN header \subseteq DOMAIN header'
      /\ \A k \in DOMAIN header : header'[k] = header[k]
      /\ Generation!Written(Items[next]) => \E h \in DOMAIN header' : header'[h] = Generation!Prototype(Items[next])
  <2> HIDE DEF S
  <2>1. Generation!Prototype(Items[next]) \in S
    BY <1>1 DEF S
  <2> QED BY <1>1, <2>1, Appended
<1>4. Indexed'
  BY <1>1 DEF EInv, Indexed
<1>5. PassTypeOK'
  <2>1. \A i : Generation!Body(Items[i])' = Generation!Body(Items[i]) /\ Generation!Struct(Items[i])' = Generation!Struct(Items[i])
    BY <1>1, ItemsStay
  <2> QED BY <1>1, <1>3, <2>1 DEF EInv, PassTypeOK
<1>6. StructsWritten' /\ StructsInOrder'
  <2>1. StructsWritten'
    BY <1>1, <1>2, <1>3 DEF EInv, StructsWritten
  <2>2. StructsInOrder'
    BY <1>1, <1>2, <1>3 DEF EInv, StructsInOrder
  <2> QED BY <2>1, <2>2
<1>7. PrototypesWritten'
  BY <1>1, <1>2, <1>3 DEF EInv, PrototypesWritten
<1>8. BodiesWritten' /\ BodiesOwn' /\ BodiesApart'
  BY <1>1, <1>2 DEF EInv, BodiesWritten, BodiesOwn, BodiesApart
<1> QED BY <1>4, <1>5, <1>6, <1>7, <1>8 DEF EInv

LEMMA EmitBodyKeeps == EInv /\ Generation!EmitBody => EInv'
<1> SUFFICES ASSUME EInv, Generation!EmitBody PROVE EInv'
  OBVIOUS
<1> DEFINE S == {Generation!Body(Items[i]) : i \in DOMAIN Items} \cup {Generation!CMain}
<1>1. /\ pass = "bodies" /\ pass' = pass /\ next \in DOMAIN Items /\ next' = next + 1 /\ next \in Nat \ {0}
      /\ Items' = Items /\ header' = header /\ body \in Seq(S)
      /\ body' = IF Generation!Written(Items[next]) THEN Append(body, Generation!Body(Items[next])) ELSE body
  BY DEF Generation!EmitBody, Generation!InPass, Generation!Current, EInv, PassTypeOK, Indexed
<1>2. /\ StructsPassed' = StructsPassed /\ PrototypesPassed' = PrototypesPassed
      /\ BodiesPassed' = BodiesPassed \cup {next} /\ \A i \in BodiesPassed : i < next
  BY <1>1 DEF StructsPassed, PrototypesPassed, BodiesPassed, EInv, Indexed
<1>3. /\ body' \in Seq(S) /\ DOMAIN body \subseteq DOMAIN body'
      /\ \A k \in DOMAIN body : body'[k] = body[k]
      /\ \A k \in DOMAIN body' \ DOMAIN body :
            Generation!Written(Items[next]) /\ body'[k] = Generation!Body(Items[next]) /\ \A b \in DOMAIN body : b < k
      /\ \A k, b \in DOMAIN body' \ DOMAIN body : k = b
      /\ Generation!Written(Items[next]) => \E k \in DOMAIN body' : body'[k] = Generation!Body(Items[next])
  <2> HIDE DEF S
  <2>1. Generation!Body(Items[next]) \in S
    BY <1>1 DEF S
  <2> QED BY <1>1, <2>1, Appended
<1>4. \A i : Generation!Body(Items[i])' = Generation!Body(Items[i]) /\ Generation!Struct(Items[i])' = Generation!Struct(Items[i])
  BY <1>1, ItemsStay
<1>5. Indexed' /\ PassTypeOK'
  BY <1>1, <1>3, <1>4 DEF EInv, Indexed, PassTypeOK
<1>6. StructsWritten' /\ StructsInOrder' /\ PrototypesWritten'
  BY <1>1, <1>2 DEF EInv, StructsWritten, StructsInOrder, PrototypesWritten
<1>7. BodiesWritten'
  BY <1>1, <1>2, <1>3, <1>4 DEF EInv, BodiesWritten
<1>8. BodiesOwn'
  BY <1>1, <1>2, <1>3, <1>4 DEF EInv, BodiesOwn
<1>9. BodiesApart'
  <2> SUFFICES ASSUME NEW b \in DOMAIN body', NEW c \in DOMAIN body', b < c
               PROVE  \E i, j \in BodiesPassed' :
                        /\ i < j /\ Generation!Written(Items[i]) /\ Generation!Written(Items[j])
                        /\ body'[b] = Generation!Body(Items[i]) /\ body'[c] = Generation!Body(Items[j])
    BY <1>1, <1>4 DEF BodiesApart
  <2>1. b \in DOMAIN body
    <3>1. \A k \in DOMAIN body' : k \in Nat
      BY <1>3
    <3> QED BY <1>3, <3>1
  <2>2. CASE c \in DOMAIN body
    BY <1>1, <1>2, <1>3, <2>1, <2>2 DEF EInv, BodiesApart
  <2>3. CASE c \notin DOMAIN body
    <3>1. PICK i \in BodiesPassed : Generation!Written(Items[i]) /\ body[b] = Generation!Body(Items[i])
      BY <1>1, <2>1 DEF EInv, BodiesOwn
    <3> QED BY <1>2, <1>3, <2>1, <2>3, <3>1
  <2> QED BY <2>2, <2>3
<1> QED BY <1>5, <1>6, <1>7, <1>8, <1>9 DEF EInv

LEMMA EndPassKeeps == EInv /\ Generation!EndPass => EInv'
<1> SUFFICES ASSUME EInv, Generation!EndPass PROVE EInv'
  OBVIOUS
<1>1. /\ Items' = Items /\ header' = header /\ \A i \in DOMAIN Items : i < next
      /\ next \in Nat \ {0} /\ next' \in Nat \ {0}
      /\ pass \in {"structs", "prototypes", "bodies"} /\ pass' \in {"prototypes", "bodies", "done"}
  BY DEF Generation!EndPass, EInv, PassTypeOK, Indexed
<1>2. Indexed'
  BY <1>1 DEF EInv, Indexed
<1>3. \A i : Generation!Body(Items[i])' = Generation!Body(Items[i]) /\ Generation!Struct(Items[i])' = Generation!Struct(Items[i])
  BY <1>1, ItemsStay
<1>4. /\ StructsPassed' = StructsPassed /\ PrototypesPassed' = PrototypesPassed
      /\ BodiesPassed' = BodiesPassed
  BY <1>1 DEF Generation!EndPass, StructsPassed, PrototypesPassed, BodiesPassed, EInv, Indexed
<1>5. StructsWritten' /\ StructsInOrder' /\ PrototypesWritten'
  BY <1>1, <1>4 DEF EInv, StructsWritten, StructsInOrder, PrototypesWritten
<1>6. CASE pass # "bodies"
  <2>1. body' = body /\ pass' # "done" /\ pass # "done"
    BY <1>1, <1>6 DEF Generation!EndPass
  <2>2. PassTypeOK'
    BY <1>1, <1>3, <2>1 DEF EInv, PassTypeOK
  <2>3. BodiesWritten' /\ BodiesOwn' /\ BodiesApart'
    BY <1>1, <1>3, <1>4, <2>1 DEF EInv, BodiesWritten, BodiesOwn, BodiesApart
  <2> QED BY <1>2, <1>5, <2>2, <2>3 DEF EInv
<1>7. CASE pass = "bodies"
  <2> DEFINE S == {Generation!Body(Items[i]) : i \in DOMAIN Items} \cup {Generation!CMain}
  <2>1. body' = Append(body, Generation!CMain) /\ pass' = "done" /\ body \in Seq(S)
    BY <1>7 DEF Generation!EndPass, EInv, PassTypeOK
  <2>2. /\ body' \in Seq(S) /\ DOMAIN body \subseteq DOMAIN body'
        /\ \A k \in DOMAIN body : body'[k] = body[k]
        /\ \A k \in DOMAIN body' \ DOMAIN body : body'[k] = Generation!CMain /\ \A b \in DOMAIN body : b < k
        /\ \A k, b \in DOMAIN body' \ DOMAIN body : k = b
        /\ \A k \in DOMAIN body' : k \in Nat
    <3>1. Generation!CMain \in S
      OBVIOUS
    <3> HIDE DEF S
    <3> QED BY <2>1, <3>1, Appended
  <2>3. PassTypeOK'
    BY <1>1, <1>3, <2>1, <2>2 DEF EInv, PassTypeOK
  <2>4. BodiesWritten' /\ BodiesOwn'
    BY <1>1, <1>3, <1>4, <1>7, <2>1, <2>2 DEF EInv, BodiesWritten, BodiesOwn
  <2>5. BodiesApart'
    <3> SUFFICES ASSUME NEW b \in DOMAIN body', NEW c \in DOMAIN body', b < c, c \in DOMAIN body
                 PROVE  \E i, j \in BodiesPassed' :
                          /\ i < j /\ Generation!Written(Items[i]) /\ Generation!Written(Items[j])
                          /\ body'[b] = Generation!Body(Items[i]) /\ body'[c] = Generation!Body(Items[j])
      BY <1>1, <1>3, <2>1, <2>2 DEF BodiesApart
    <3>1. b \in DOMAIN body
      BY <2>2
    <3> QED BY <1>4, <1>7, <2>2, <3>1 DEF EInv, BodiesApart
  <2> QED BY <1>2, <1>5, <2>3, <2>4, <2>5 DEF EInv
<1> QED BY <1>1, <1>6, <1>7

LEMMA EmissionKeeps == EInv /\ [Generation!Next]_Generation!vars => EInv'
<1> SUFFICES ASSUME EInv, UNCHANGED Generation!vars PROVE EInv'
  BY EmitStructKeeps, EmitPrototypeKeeps, EmitBodyKeeps, EndPassKeeps DEF Generation!Next
<1>1. \A i : Generation!Body(Items[i])' = Generation!Body(Items[i]) /\ Generation!Struct(Items[i])' = Generation!Struct(Items[i])
  BY ItemsStay DEF Generation!vars
<1> QED
  BY <1>1 DEF Generation!vars, EInv, Indexed, PassTypeOK, StructsPassed, PrototypesPassed, BodiesPassed,
     StructsWritten, StructsInOrder, PrototypesWritten, BodiesWritten, BodiesOwn, BodiesApart

(* Another program before the first step.                                  *)
LEMMA EmissionRestarts == Generation!Init' /\ Indexed' => EInv'
  BY DEF Generation!Init, EInv, PassTypeOK, StructsPassed, PrototypesPassed, BodiesPassed, Indexed,
     StructsWritten, StructsInOrder, PrototypesWritten, BodiesWritten, BodiesOwn, BodiesApart
-------------------------------------------------------------------------------
(***************************************************************************)
(* The whole program of the resolver, and its generation behind that.      *)
(***************************************************************************)
(* Nothing is written before the resolver has come to its end.             *)
Waiting == status # "done" => Generation!Init

CInv ==
    /\ RP!IInv
    /\ RP!Order
    /\ EInv
    /\ Waiting

LEMMA ResolverAssumed ==
    /\ RP!PathMaxAssumption
    /\ RP!NamesAssumption
    /\ RP!PathsAssumption
    /\ RP!TreesAssumption
    /\ RP!CwdAssumption
    /\ RP!FilesAssumption
<1>1. RP!PathMaxAssumption /\ RP!NamesAssumption /\ RP!CwdAssumption
  BY PathMaxAssumption, NamesAssumption, CwdAssumption
  DEF RP!PathMaxAssumption, RP!NamesAssumption, RP!CwdAssumption
<1>2. RP!PathsAssumption
  BY ResolverAssumption DEF RP!PathsAssumption, RP!PathType, Resolution!PathsAssumption, Resolution!PathType
<1>3. RP!TreesAssumption
  BY ResolverAssumption
     DEF RP!TreesAssumption, RP!PathType, RP!IsImport,
         Resolution!TreesAssumption, Resolution!PathType, Resolution!IsImport
<1>4. RP!FilesAssumption
  BY ResolverAssumption
     DEF RP!FilesAssumption, RP!Nowhere, Resolution!FilesAssumption, Resolution!Nowhere
<1> QED BY <1>1, <1>2, <1>3, <1>4

(* The modules agree on what a path leads to and what an import loads.     *)
LEMMA SameLocate == \A p : RP!Locate(p) = Locate(p) /\ Resolution!Locate(p) = Locate(p)
  BY DEF RP!Locate, Resolution!Locate, Locate, RP!Enter, Resolution!Enter, Enter,
         RP!Nowhere, Resolution!Nowhere, Nowhere

LEMMA SameTree ==
    \A t, p : /\ RP!Readable(t, p) = Readable(t, p)
              /\ RP!Decls(t, p) = Decls(t, p)
              /\ RP!ImportIndices(t, p) = ImportIndices(t, p)
              /\ RP!OwnIndices(t, p) = OwnIndices(t, p)
              /\ \A i : RP!ImportedBy(t, p, i) = ImportedBy(t, p, i)
<1>1. \A t, p : RP!Readable(t, p) = Readable(t, p) /\ RP!Decls(t, p) = Decls(t, p)
  BY SameLocate DEF RP!Readable, Readable, RP!Decls, Decls
<1>2. \A t, p : RP!ImportIndices(t, p) = ImportIndices(t, p) /\ RP!OwnIndices(t, p) = OwnIndices(t, p)
  BY <1>1 DEF RP!ImportIndices, ImportIndices, RP!OwnIndices, OwnIndices, RP!IsImport, IsImport
<1>3. \A t, p, r : RP!Child(t, p, r) = Child(t, p, r)
  <2>1. \A p, r : RP!Join(p, r) = Join(p, r) /\ RP!Dirname(p) = Dirname(p)
    BY DEF RP!Join, Join, RP!Dirname, Dirname, RP!Front, Front, RP!Abs, Abs, RP!Rel, Rel
  <2>2. \A t, p : RP!Exists(t, p) = Exists(t, p)
    BY SameLocate DEF RP!Exists, Exists
  <2> QED BY <2>1, <2>2 DEF RP!Child, Child
<1> QED BY <1>1, <1>2, <1>3 DEF RP!ImportedBy, ImportedBy

(* The declaration an entry of the program stands for.                     *)
DeclOf(k) == Decls(tree, program[k].path)[program[k].idx]

LEMMA ItemsIndexed == ASSUME RP!IInv PROVE Indexed
<1>1. program \in Seq(RP!EntryType)
  BY DEF RP!IInv, RP!TypeOK
<1>2. Len(program) \in Nat /\ DOMAIN program = 1..Len(program)
  BY <1>1
<1>3. DOMAIN Items = 1..Len(program)
  BY <1>2 DEF Items
<1> HIDE DEF Items
<1>4. Len(Items) = Len(program)
  BY <1>2, <1>3
<1> QED BY <1>2, <1>3, <1>4 DEF Indexed

LEMMA ItemShape ==
    ASSUME RP!IInv, status = "done", NEW k \in DOMAIN program
    PROVE  /\ k \in DOMAIN Items
           /\ Items[k].kind = DeclOf(k).kind
           /\ Items[k].alias = program[k].alias
           /\ Generation!IsFunction(Items[k]) => Items[k].name \in Seq(STRING)
<1>1. program[k].path \in RP!Loaded /\ program[k].idx \in RP!OwnIndices(tree, program[k].path) /\ tree \in Trees
  <2>1. program[k] \in RP!EntryType
    BY DEF RP!IInv, RP!TypeOK
  <2> QED BY <2>1 DEF RP!IInv, RP!TypeOK, RP!EntryType, RP!EntriesOwn
<1>2. Readable(tree, program[k].path)
  BY <1>1, SameTree DEF RP!IInv, RP!LoadedReadable
<1> DEFINE d == DeclOf(k)
<1>3. /\ "kind" \in DOMAIN d
      /\ Generation!IsFunction(d) => "name" \in DOMAIN d /\ d.name \in Seq(STRING)
  <2>1. Locate(program[k].path) \in DOMAIN tree /\ tree[Locate(program[k].path)].wellFormed
    BY <1>2 DEF Readable
  <2>2. program[k].idx \in DOMAIN tree[Locate(program[k].path)].decls
    BY <1>1, SameTree DEF OwnIndices, Decls
  <2> QED BY <1>1, <2>1, <2>2, DeclarationsAssumption DEF DeclOf, Decls
<1>4. k \in DOMAIN Items /\ Items[k] = WithAlias(d, program[k].alias)
  BY DEF Items, DeclOf
<1> HIDE DEF d
<1>5. Items[k].alias = program[k].alias /\ \A x \in DOMAIN d \ {"alias"} : Items[k][x] = d[x]
  BY <1>4 DEF WithAlias
<1>6. Items[k].kind = d.kind
  BY <1>3, <1>5
<1>7. Generation!IsFunction(Items[k]) => Items[k].name = d.name /\ d.name \in Seq(STRING)
  BY <1>3, <1>5, <1>6 DEF Generation!IsFunction
<1> QED BY <1>4, <1>5, <1>6, <1>7 DEF d

LEMMA SameLoaded == RP!Loaded = Loaded /\ Resolution!Loaded = Loaded
  BY DEF RP!Loaded, Loaded, Resolution!Loaded, RP!ToSet, Resolution!ToSet

LEMMA SameInit == Resolution!Init => RP!Init
  BY DEF Resolution!Init, RP!Init

LEMMA SameReach == \A p : Resolution!ReachedFrom(p) = RP!ReachedFrom(p)
<1>1. \A p : Resolution!ImportsOf(p) = RP!ImportsOf(p)
  <2>1. \A p : Resolution!ImportIndices(tree, p) = RP!ImportIndices(tree, p)
    BY SameLocate DEF Resolution!ImportIndices, RP!ImportIndices, Resolution!Decls, RP!Decls,
       Resolution!IsImport, RP!IsImport
  <2>2. \A p, i : Resolution!ImportedBy(tree, p, i) = RP!ImportedBy(tree, p, i)
    <3>1. \A p, r : RP!Join(p, r) = Resolution!Join(p, r) /\ RP!Dirname(p) = Resolution!Dirname(p)
      BY DEF RP!Join, Resolution!Join, RP!Dirname, Resolution!Dirname, RP!Front, Resolution!Front,
         RP!Abs, Resolution!Abs, RP!Rel, Resolution!Rel
    <3>2. \A t, p : RP!Exists(t, p) = Resolution!Exists(t, p)
      BY SameLocate DEF RP!Exists, Resolution!Exists
    <3>3. \A t, p, r : RP!Child(t, p, r) = Resolution!Child(t, p, r)
      BY <3>1, <3>2 DEF RP!Child, Resolution!Child
    <3> QED BY <3>3, SameLocate DEF Resolution!ImportedBy, RP!ImportedBy, Resolution!Decls, RP!Decls
  <2> QED BY <2>1, <2>2 DEF Resolution!ImportsOf, RP!ImportsOf
<1> QED BY <1>1, SameLoaded DEF Resolution!ReachedFrom, RP!ReachedFrom

LEMMA SameNext == [Resolution!Next]_resolving => [RP!Next]_RP!vars
  BY DEF resolving, RP!vars, Resolution!Next, RP!Next, Resolution!LoadMain, RP!LoadMain,
     Resolution!Import, RP!Import, Resolution!Push, RP!Push, Resolution!Return, RP!Return,
     Resolution!LoadFile, RP!LoadFile, Resolution!InLoop, RP!InLoop, Resolution!Current, RP!Current,
     Resolution!Source, RP!Source, Resolution!Top, RP!Top, Resolution!Advanced, RP!Advanced,
     Resolution!Entry, RP!Entry, Resolution!Frame, RP!Frame, Resolution!Front, RP!Front,
     Resolution!Last, RP!Last, Resolution!ToSet, RP!ToSet, Resolution!Readable, RP!Readable,
     Resolution!Locate, RP!Locate, Resolution!Decls, RP!Decls, Resolution!Enter, RP!Enter,
     Resolution!Nowhere, RP!Nowhere, Resolution!IsImport, RP!IsImport,
     Resolution!ImportedBy, RP!ImportedBy, Resolution!Child, RP!Child, Resolution!Join, RP!Join,
     Resolution!Dirname, RP!Dirname, Resolution!Exists, RP!Exists, Resolution!Abs, RP!Abs,
     Resolution!Rel, RP!Rel
-------------------------------------------------------------------------------
LEMMA ItemsReindexed == ASSUME RP!IInv' PROVE Indexed'
<1>1. program' \in Seq(RP!EntryType')
  BY DEF RP!IInv, RP!TypeOK
<1>2. Len(program') \in Nat /\ DOMAIN program' = 1..Len(program')
  BY <1>1
<1>3. DOMAIN Items' = 1..Len(program')
  BY <1>2 DEF Items
<1> HIDE DEF Items
<1>4. Len(Items') = Len(program')
  BY <1>2, <1>3
<1> QED BY <1>2, <1>3, <1>4 DEF Indexed

LEMMA InitCInv == Init => CInv
<1> SUFFICES ASSUME Init PROVE CInv
  OBVIOUS
<1>1. RP!IInv /\ RP!Order
  BY ResolverAssumed, SameInit, RP!InitIInv, RP!InitOrder DEF Init
<1>2. EInv
  BY <1>1, ItemsIndexed, EmissionStarts DEF Init
<1> QED BY <1>1, <1>2 DEF Init, CInv, Waiting

LEMMA ResolveKeeps == CInv /\ Resolve => CInv'
<1> SUFFICES ASSUME CInv, Resolve PROVE CInv'
  OBVIOUS
<1>1. [RP!Next]_RP!vars
  BY SameNext DEF Resolve
<1>2. RP!IInv' /\ RP!Order'
  BY <1>1, ResolverAssumed, RP!StepPreserves, RP!StepOrder DEF CInv
<1>3. status # "done"
  BY DEF Resolve, Resolution!Next, Resolution!LoadMain, Resolution!Import, Resolution!Push,
     Resolution!Return, Resolution!InLoop
<1>4. Generation!Init'
  BY <1>3 DEF CInv, Waiting, Generation!Init, Resolve, generating
<1>5. EInv'
  BY <1>2, <1>4, ItemsReindexed, EmissionRestarts
<1> QED BY <1>2, <1>4, <1>5 DEF CInv, Waiting

LEMMA GenerateKeeps == CInv /\ Generate => CInv'
<1> SUFFICES ASSUME CInv, Generate PROVE CInv'
  OBVIOUS
<1>1. RP!IInv' /\ RP!Order'
  <2>1. [RP!Next]_RP!vars
    BY SameNext DEF Generate
  <2> QED BY <2>1, ResolverAssumed, RP!StepPreserves, RP!StepOrder DEF CInv
<1>2. EInv'
  BY EmissionKeeps DEF Generate, CInv
<1>3. Waiting'
  BY DEF Generate, resolving, Waiting
<1> QED BY <1>1, <1>2, <1>3 DEF CInv

LEMMA CInvariance == Spec => []CInv
<1>1. CInv /\ UNCHANGED vars => CInv'
  <2> SUFFICES ASSUME CInv, UNCHANGED vars PROVE CInv'
    OBVIOUS
  <2>1. [RP!Next]_RP!vars /\ Generation!vars' = Generation!vars
    BY DEF vars, RP!vars, Generation!vars, Items
  <2>2. RP!IInv' /\ RP!Order' /\ EInv'
    BY <2>1, ResolverAssumed, RP!StepPreserves, RP!StepOrder, EmissionKeeps DEF CInv
  <2> QED BY <2>2 DEF CInv, Waiting, Generation!Init, vars
<1>2. CInv /\ [Next]_vars => CInv'
  BY <1>1, ResolveKeeps, GenerateKeeps DEF Next
<1> QED BY <1>2, InitCInv, PTL DEF Spec
-------------------------------------------------------------------------------
(***************************************************************************)
(* What a name means once the program is complete.                         *)
(***************************************************************************)

(* The generator runs on the whole program of the resolver.                *)
LEMMA DoneResolved == CInv /\ Done => status = "done"
<1> SUFFICES ASSUME CInv, Done, status # "done" PROVE FALSE
  OBVIOUS
<1>1. Generation!Init
  BY DEF CInv, Waiting
<1> QED BY <1>1 DEF Generation!Init, Done

(* The alias of a function tells its file.                                 *)
LEMMA AliasTellsFile ==
    ASSUME CInv, status = "done", Consistent, NEW k \in DOMAIN program,
           Generation!IsFunction(Items[k])
    PROVE  /\ Items[k].alias \in (Seq(STRING) \ {<<>>}) \cup {None}
           /\ program[k].path = Main => Items[k].alias = None
           /\ program[k].path # Main =>
                /\ Items[k].alias # None
                /\ \E e \in AllImports : PathOf(e) = program[k].path /\ AliasOf(e) = Items[k].alias
<1>1. RP!IInv /\ RP!CallableByItsAlias
  BY DEF CInv, RP!Order
<1>2. Items[k].kind = DeclOf(k).kind /\ Items[k].alias = program[k].alias
  BY <1>1, ItemShape
<1>3. DeclOf(k).kind = "func"
  BY <1>2 DEF Generation!IsFunction
<1>4. IF program[k].path = Main THEN program[k].alias = None
      ELSE \E q \in Loaded : \E i \in ImportIndices(tree, q) :
              /\ ImportedBy(tree, q, i) = program[k].path
              /\ Decls(tree, q)[i].alias = program[k].alias
  BY <1>1, <1>3, SameTree, SameLoaded DEF RP!CallableByItsAlias, DeclOf
<1>5. CASE program[k].path = Main
  BY <1>2, <1>4, <1>5
<1>6. CASE program[k].path # Main
  <2>0. PICK q \in Loaded : \E i \in ImportIndices(tree, q) :
           /\ ImportedBy(tree, q, i) = program[k].path
           /\ Decls(tree, q)[i].alias = program[k].alias
    BY <1>4, <1>6
  <2>1. PICK i \in ImportIndices(tree, q) :
           /\ ImportedBy(tree, q, i) = program[k].path
           /\ Decls(tree, q)[i].alias = program[k].alias
    BY <2>0
  <2>2. Decls(tree, q)[i].alias \in Aliases
    <3>1. tree \in Trees /\ Readable(tree, q)
      BY <1>1, SameTree, SameLoaded DEF RP!IInv, RP!TypeOK, RP!LoadedReadable
    <3> QED BY <3>1, ResolverAssumption
            DEF Resolution!TreesAssumption, Readable, Decls, ImportIndices, IsImport, Resolution!IsImport
  <2>3. <<q, i>> \in AllImports
    BY DEF AllImports
  <2>4. PathOf(<<q, i>>) = program[k].path /\ AliasOf(<<q, i>>) = Items[k].alias
    BY <1>2, <2>1 DEF PathOf, AliasOf
  <2>5. Items[k].alias \in Seq(STRING) \ {<<>>} /\ Items[k].alias # None
    BY <1>2, <2>1, <2>2, SpellingAssumption
  <2> QED BY <1>6, <2>3, <2>4, <2>5
<1> QED BY <1>5, <1>6

(* In a consistent program alias and name tell a function.                 *)
LEMMA NamedOnce ==
    ASSUME CInv, status = "done", Consistent, NEW j \in DOMAIN program, NEW k \in DOMAIN program,
           Generation!IsFunction(Items[j]), Generation!IsFunction(Items[k]),
           Items[j].alias = Items[k].alias, Items[j].name = Items[k].name
    PROVE  j = k
<1>1. program[j].path = program[k].path
  BY AliasTellsFile DEF Consistent
<1>2. j \in DOMAIN Items /\ k \in DOMAIN Items
  BY DEF Items
<1> QED BY <1>1, <1>2 DEF Consistent

LEMMA SymbolsApart == CInv => SymbolsDistinct
<1> SUFFICES ASSUME CInv, Done, Consistent, NEW j \in Written, NEW k \in Written,
                    Generation!Clean(Items[j].alias, Items[j].name),
                    Generation!Clean(Items[k].alias, Items[k].name), SymbolOf(j) = SymbolOf(k)
             PROVE  j = k
  BY DEF SymbolsDistinct
<1>1. status = "done" /\ RP!IInv
  BY DoneResolved DEF CInv
<1>2. /\ j \in DOMAIN program /\ k \in DOMAIN program
      /\ Generation!IsFunction(Items[j]) /\ Generation!IsFunction(Items[k])
      /\ ~Generation!IsNative(Items[j]) /\ ~Generation!IsNative(Items[k])
  BY DEF Written, Generation!Written, Items
<1>3. /\ Items[j].alias \in (Seq(STRING) \ {<<>>}) \cup {None} /\ Items[j].name \in Seq(STRING)
      /\ Items[k].alias \in (Seq(STRING) \ {<<>>}) \cup {None} /\ Items[k].name \in Seq(STRING)
  BY <1>1, <1>2, AliasTellsFile, ItemShape
<1>4. Generation!mangle_func(Items[j].alias, Items[j].name) = Generation!mangle_func(Items[k].alias, Items[k].name)
  BY <1>2 DEF SymbolOf
<1> DEFINE S == STRING \cup {Generation!Underscore, Generation!UserPrefix}
<1>6. Seq(STRING) \subseteq Seq(S)
  OBVIOUS
<1>7. Items[j].alias = Items[k].alias /\ Items[j].name = Items[k].name
  <2>1. Generation!Underscore \in S /\ Generation!UserPrefix \in S
    OBVIOUS
  <2>2. /\ Items[j].alias \in (Seq(S) \ {<<>>}) \cup {None} /\ Items[j].name \in Seq(S)
        /\ Items[k].alias \in (Seq(S) \ {<<>>}) \cup {None} /\ Items[k].name \in Seq(S)
    BY <1>3, <1>6
  <2>3. Generation!Clean(Items[j].alias, Items[j].name) /\ Generation!Clean(Items[k].alias, Items[k].name)
    OBVIOUS
  <2> HIDE DEF S
  <2>4. \A x, y \in (Seq(S) \ {<<>>}) \cup {None} : \A n, m \in Seq(S) :
           Generation!Clean(x, n) /\ Generation!Clean(y, m) /\ Generation!mangle_func(x, n) = Generation!mangle_func(y, m) => x = y /\ n = m
    BY <2>1, MangleInjective
  <2> QED BY <1>4, <2>2, <2>3, <2>4
<1> QED BY <1>1, <1>2, <1>7, NamedOnce

(* Two functions never get the same C symbol, whatever the aliases and     *)
(* names, if none of them can be confused once they are joined by "__".    *)
THEOREM SymbolsAreDistinct == Spec => []SymbolsDistinct
  BY CInvariance, SymbolsApart, PTL

LEMMA StructsSorted == CInv => ImportedStructsFirst
<1> SUFFICES ASSUME CInv, Done, NEW j \in DOMAIN Items, NEW k \in DOMAIN Items,
                    Generation!IsStruct(Items[j]), Generation!IsStruct(Items[k]),
                    NEW i \in ImportIndices(tree, program[k].path), i < program[k].idx,
                    ImportedBy(tree, program[k].path, i) = program[j].path,
                    program[k].path \notin Resolution!ReachedFrom(program[j].path)
             PROVE  \E g, h \in DOMAIN header :
                       /\ g < h
                       /\ header[g] = Generation!Struct(Items[j])
                       /\ header[h] = Generation!Struct(Items[k])
  BY DEF ImportedStructsFirst
<1>1. /\ RP!IInv /\ RP!DependenciesBefore /\ EInv
      /\ j \in DOMAIN program /\ k \in DOMAIN program /\ DOMAIN Items = DOMAIN program
  BY DEF CInv, RP!Order, Items
<1>2. program[j].idx \in RP!OwnIndices(tree, program[j].path)
  BY <1>1 DEF RP!IInv, RP!EntriesOwn
<1>3. PICK m \in 1..(k - 1) : program[m].path = program[j].path /\ program[m].idx = program[j].idx
  BY <1>1, <1>2, SameTree, SameReach DEF RP!DependenciesBefore
<1>4. j < k
  <2>1. DOMAIN Items = 1..Len(Items) /\ Len(Items) \in Nat
    BY <1>1 DEF EInv, Indexed
  <2>2. m \in DOMAIN program
    BY <1>1, <2>1
  <2>3. m = j
    BY <1>1, <1>3, <2>2 DEF RP!IInv, RP!EachDeclarationOnce
  <2> QED BY <1>1, <2>1, <2>3
<1>5. j \in StructsPassed /\ k \in StructsPassed
  BY DEF StructsPassed, Done
<1> QED BY <1>1, <1>4, <1>5 DEF EInv, StructsInOrder

(* A struct stands below the struct types of the files imported above it,  *)
(* whatever the imports, unless the imported file imports back.            *)
THEOREM StructsFollowImports == Spec => []ImportedStructsFirst
  BY CInvariance, StructsSorted, PTL
-------------------------------------------------------------------------------
(***************************************************************************)
(* What a call becomes.                                                    *)
(***************************************************************************)

(* find_func finds what the call means, and nothing else.                  *)
LEMMA MeantIsFound ==
    ASSUME CInv, status = "done", Consistent, NEW q \in Loaded, NEW c,
           c.module # None \/ q = Main, NEW t \in Meant(q, c)
    PROVE  Generation!Matches(c.module, c.callee) = {t}
<1>1. /\ t \in DOMAIN Items /\ t \in DOMAIN program
      /\ Generation!IsFunction(Items[t]) /\ Items[t].name = c.callee
  BY DEF Meant, Items
<1>2. Items[t].alias = c.module
  <2>1. CASE c.module = None
    BY <1>1, <2>1, AliasTellsFile DEF Meant
  <2>2. CASE c.module # None
    <3>1. PICK i \in ImportIndices(tree, q) :
             Decls(tree, q)[i].alias = c.module /\ ImportedBy(tree, q, i) = program[t].path
      BY <2>2 DEF Meant
    <3>2. <<q, i>> \in AllImports
      BY DEF AllImports
    <3>3. PathOf(<<q, i>>) = program[t].path /\ AliasOf(<<q, i>>) = c.module
      BY <3>1 DEF PathOf, AliasOf
    <3>4. program[t].path # Main
      BY <3>2, <3>3 DEF Consistent
    <3> QED BY <1>1, <3>2, <3>3, <3>4, AliasTellsFile DEF Consistent
  <2> QED BY <2>1, <2>2
<1>3. t \in Generation!Matches(c.module, c.callee)
  BY <1>1, <1>2 DEF Generation!Matches
<1>4. ASSUME NEW u \in Generation!Matches(c.module, c.callee) PROVE u = t
  <2>1. u \in DOMAIN program /\ Generation!IsFunction(Items[u]) /\ Items[u].alias = c.module /\ Items[u].name = c.callee
    BY DEF Generation!Matches, Items
  <2> QED BY <1>1, <1>2, <2>1, NamedOnce
<1> QED BY <1>3, <1>4

LEMMA CallTranslated ==
    ASSUME CInv, NEW c, NEW t \in DOMAIN Items, Generation!Matches(c.module, c.callee) = {t}
    PROVE  Generation!call_symbol(c) = SymbolOf(t)
<1>1. t \in Nat
  BY DEF CInv, EInv, Indexed
<1> DEFINE found == Generation!Matches(c.module, c.callee)
           f     == CHOOSE i \in found : \A j \in found : i <= j
<1>2. f = t
  BY <1>1
<1>3. Items[t].alias = c.module /\ Items[t].name = c.callee
  BY DEF Generation!Matches
<1>4. Generation!call_symbol(c) =
        IF found # {} /\ Generation!IsNative(Items[f]) THEN Items[f].native
        ELSE Generation!mangle_func(c.module, c.callee)
  BY DEF Generation!call_symbol
<1> HIDE DEF f
<1> QED BY <1>2, <1>3, <1>4 DEF SymbolOf

(* No symbol of the program is the one of C's main.                        *)
LEMMA NotMain ==
    ASSUME CInv, Done, Consistent, NEW k \in Written
    PROVE  SymbolOf(k) # <<"main">>
<1>0. status = "done" /\ RP!IInv
  BY DoneResolved DEF CInv
<1> DEFINE S == STRING \cup {Generation!Underscore, Generation!UserPrefix}
<1>1. k \in DOMAIN program /\ Generation!IsFunction(Items[k]) /\ ~Generation!IsNative(Items[k])
  BY DEF Written, Generation!Written, Items
<1>2. Items[k].alias \in Seq(S) \cup {None} /\ Items[k].name \in Seq(S)
  <2>1. Seq(STRING) \subseteq Seq(S)
    OBVIOUS
  <2>2. Items[k].alias \in (Seq(STRING) \ {<<>>}) \cup {None} /\ Items[k].name \in Seq(STRING)
    BY <1>0, <1>1, AliasTellsFile, ItemShape
  <2> HIDE DEF S
  <2> QED BY <2>1, <2>2
<1>3. Generation!Underscore \in S /\ Generation!UserPrefix \in S
  OBVIOUS
<1> HIDE DEF S
<1>4. Generation!mangle_func(Items[k].alias, Items[k].name)[1] = Generation!UserPrefix
  BY <1>2, <1>3, SymbolStarts
<1>5. SymbolOf(k)[1] = "rl_u_"
  BY <1>1, <1>4 DEF SymbolOf, Generation!UserPrefix
<1>6. <<"main">>[1] = "main"
  OBVIOUS
<1> QED BY <1>5, <1>6

(* A body under the symbol of a function is the body of that function.     *)
LEMMA BodyOwned ==
    ASSUME CInv, Done, Consistent, AllClean, NEW k \in Written,
           NEW b \in DOMAIN body, body[b].symbol = SymbolOf(k)
    PROVE  /\ body[b] = Generation!Body(Items[k])
           /\ \A i \in Written : body[b] = Generation!Body(Items[i]) => i = k
<1>1. status = "done" /\ RP!IInv
  BY DoneResolved DEF CInv
<1>2. ASSUME NEW i \in Written
      PROVE  Generation!Body(Items[i]).symbol = SymbolOf(i) /\ (SymbolOf(i) = SymbolOf(k) => i = k)
  <2>1. Generation!Body(Items[i]).symbol = SymbolOf(i)
    BY DEF Written, Generation!Written, Generation!Body, SymbolOf
  <2>2. SymbolOf(i) = SymbolOf(k) => i = k
    BY SymbolsApart DEF SymbolsDistinct, AllClean
  <2> QED BY <2>1, <2>2
<1>3. SymbolOf(k) # <<"main">>
  BY NotMain
<1>4. body[b] # Generation!CMain
  BY <1>3 DEF Generation!CMain
<1>5. PICK i \in BodiesPassed : Generation!Written(Items[i]) /\ body[b] = Generation!Body(Items[i])
  BY <1>4 DEF CInv, EInv, BodiesOwn
<1>6. i \in Written /\ body[b] = Generation!Body(Items[i])
  BY <1>5 DEF BodiesPassed, Written
<1> QED BY <1>2, <1>6

(* Every function of a consistent program is known to C.                   *)
LEMMA AllLinked ==
    ASSUME CInv, Done, Consistent, AllClean, NEW t \in DOMAIN Items, Generation!IsFunction(Items[t])
    PROVE  Linked(t)
<1>1. CASE Generation!IsNative(Items[t])
  BY <1>1 DEF Linked
<1>2. CASE ~Generation!IsNative(Items[t])
  <2>1. t \in Written
    BY <1>2 DEF Written, Generation!Written
  <2>2. Generation!Written(Items[t]) /\ t \in BodiesPassed /\ t \in PrototypesPassed
    BY <2>1 DEF Written, BodiesPassed, PrototypesPassed, Done
  <2>3. \E h \in DOMAIN header : header[h] = Generation!Prototype(Items[t])
    BY <2>2 DEF CInv, EInv, PrototypesWritten
  <2>4. PICK b \in DOMAIN body : body[b] = Generation!Body(Items[t])
    BY <2>2 DEF CInv, EInv, BodiesWritten
  <2>5. body[b].symbol = SymbolOf(t)
    BY <1>2, <2>4 DEF Generation!Body, SymbolOf
  <2>6. ASSUME NEW c \in DOMAIN body, body[c].symbol = SymbolOf(t), NEW d \in DOMAIN body,
               body[d].symbol = SymbolOf(t), c < d
        PROVE  FALSE
    <3>1. body[d] # Generation!CMain
      BY <2>1, <2>6, NotMain DEF Generation!CMain
    <3>2. PICK i \in BodiesPassed, j \in BodiesPassed :
             /\ i < j /\ Generation!Written(Items[i]) /\ Generation!Written(Items[j])
             /\ body[c] = Generation!Body(Items[i]) /\ body[d] = Generation!Body(Items[j])
      BY <2>6, <3>1 DEF CInv, EInv, BodiesApart
    <3>3. /\ i \in Written /\ body[c] = Generation!Body(Items[i])
          /\ j \in Written /\ body[d] = Generation!Body(Items[j])
      BY <3>2 DEF BodiesPassed, Written
    <3>4. i = t /\ j = t
      BY <2>1, <2>6, <3>3, BodyOwned
    <3>5. t \in Nat
      BY DEF CInv, EInv, Indexed
    <3> QED BY <3>2, <3>4, <3>5
  <2>7. {c \in DOMAIN body : body[c].symbol = SymbolOf(t)} = {b}
    <3>1. DOMAIN body \subseteq Nat
      <4>1. body \in Seq({Generation!Body(Items[i]) : i \in DOMAIN Items} \cup {Generation!CMain})
        BY DEF CInv, EInv, PassTypeOK
      <4> QED BY <4>1
    <3>2. ASSUME NEW c \in DOMAIN body, body[c].symbol = SymbolOf(t) PROVE c = b
      <4>1. ~(c < b) /\ ~(b < c)
        BY <2>5, <2>6, <3>2
      <4> QED BY <3>1, <4>1
    <3> QED BY <2>5, <3>2
  <2>8. Cardinality({c \in DOMAIN body : body[c].symbol = SymbolOf(t)}) = 1
    BY <2>7, FS_Singleton
  <2> QED BY <2>3, <2>8 DEF Linked
<1> QED BY <1>1, <1>2

LEMMA CallsMeant == CInv => CallsReach
<1> SUFFICES ASSUME CInv, Done, Consistent, AllClean,
                    NEW k \in Written, NEW x \in DOMAIN Items[k].calls,
                    Items[k].calls[x].module # None \/ program[k].path = Main,
                    NEW t \in Meant(program[k].path, Items[k].calls[x])
             PROVE  /\ Linked(t)
                    /\ \A b \in DOMAIN body : body[b].symbol = SymbolOf(k) => body[b].calls[x] = SymbolOf(t)
  <2>1. ToSet(body) = {body[b] : b \in DOMAIN body}
    BY DEF ToSet
  <2> QED BY <2>1 DEF CallsReach, Reaches
<1> DEFINE c == Items[k].calls[x]
<1>1. status = "done" /\ RP!IInv
  BY DoneResolved DEF CInv
<1>2. program[k].path \in Loaded
  <2>1. k \in DOMAIN program
    BY DEF Written, Items
  <2>2. program[k] \in RP!EntryType
    BY <1>1, <2>1 DEF RP!IInv, RP!TypeOK
  <2> QED BY <2>2, SameLoaded DEF RP!EntryType
<1>3. t \in DOMAIN Items /\ Generation!IsFunction(Items[t])
  BY DEF Meant
<1>4. Generation!call_symbol(c) = SymbolOf(t)
  BY <1>1, <1>2, <1>3, MeantIsFound, CallTranslated
<1>5. ASSUME NEW b \in DOMAIN body, body[b].symbol = SymbolOf(k)
      PROVE  body[b].calls[x] = SymbolOf(t)
  <2>1. body[b] = Generation!Body(Items[k])
    BY <1>5, BodyOwned
  <2> QED BY <1>4, <2>1 DEF Generation!Body
<1> QED BY <1>3, <1>5, AllLinked

(* In a consistent program every qualified call, and every call in the     *)
(* main file, reaches the function it means and links, whatever the files. *)
THEOREM CallsReachWhatTheyMean == Spec => []CallsReach
  BY CInvariance, CallsMeant, PTL
===============================================================================
