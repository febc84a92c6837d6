---------------------------- MODULE GeneratorProofs ----------------------------
(***************************************************************************)
(* What the generator writes and what it writes into.                      *)
(*                                                                         *)
(* Scopes: whatever the functions of a program are, the scopes that infer  *)
(* looks a name up in agree with the scopes of the C text written so far.  *)
(*                                                                         *)
(* Rope: for every alphabet, every first capacity and every set of         *)
(* strings it stays inside its block, it is a terminated string between    *)
(* any two steps, and it holds the text that was appended.                 *)
(*                                                                         *)
(* Expressions: what the documentation gives a type, infer gives the same  *)
(* type, and gen_expr the type's C type, whatever the program and however  *)
(* deep the expression.  Trees of a height consist of lower ones, so a     *)
(* recursion over them has one solution and an induction goes by height.   *)
(***************************************************************************)
EXTENDS Bodies, Rope, SequenceTheorems, FiniteSetTheorems, WellFoundedInduction, TLAPS

-------------------------------------------------------------------------------
(* A set with zero, and with every successor, has every natural number.    *)
LEMMA Climb ==
    ASSUME NEW S, S \subseteq Nat, 0 \in S, \A n \in S : n + 1 \in S
    PROVE  S = Nat
<1> SUFFICES ASSUME Nat \ S # {} PROVE FALSE
  OBVIOUS
<1> DEFINE T == Nat \ S
<1>1. T \subseteq Nat /\ T # {}
  OBVIOUS
<1>2. \E x \in T : \A y \in T : ~(y < x)
  <2> HIDE DEF T
  <2>1. PICK x \in T : \A y \in T : ~(<<y, x>> \in OpToRel(<, Nat))
    BY <1>1, WFMin, NatLessThanWellFounded
  <2> QED BY <1>1, <2>1 DEF OpToRel
<1>3. PICK x \in T : \A y \in T : ~(y < x)
  BY <1>2
<1>4. x # 0 /\ x - 1 \in Nat /\ x - 1 < x /\ x = (x - 1) + 1
  BY <1>1, <1>3
<1>5. x - 1 \in S
  BY <1>3, <1>4
<1> QED BY <1>3, <1>4, <1>5

(* A set of places of a sequence has a last one.                           *)
LEMMA Latest ==
    ASSUME NEW n \in Nat, NEW H, H \subseteq 1..n, H # {}
    PROVE  \E h \in H : \A e \in H : e <= h
<1> DEFINE T == {n - h : h \in H}
<1>0. \A h \in H : n - h \in Nat
  OBVIOUS
<1>1. T \subseteq Nat /\ T # {}
  BY <1>0
<1> HIDE DEF T
<1>2. PICK x \in T : \A y \in T : ~(<<y, x>> \in OpToRel(<, Nat))
  BY <1>1, WFMin, NatLessThanWellFounded
<1>3. \A y \in T : ~(y < x)
  BY <1>1, <1>2 DEF OpToRel
<1>4. PICK h \in H : x = n - h
  BY <1>2 DEF T
<1>5. \A e \in H : n - e \in T
  BY DEF T
<1>6. \A e \in H : e <= h
  <2> TAKE e \in H
  <2>1. ~(n - e < n - h)
    BY <1>3, <1>4, <1>5
  <2> QED BY <2>1
<1> QED BY <1>6

(* The last of the places that have something is the one that the lookups  *)
(* choose.                                                                 *)
LEMMA Chosen ==
    ASSUME NEW n \in Nat, NEW H, H \subseteq 1..n, NEW h \in H, \A e \in H : e <= h
    PROVE  (CHOOSE x \in H : \A e \in H : e <= x) = h
<1> DEFINE c == CHOOSE x \in H : \A e \in H : e <= x
<1>1. c \in H /\ \A e \in H : e <= c
  OBVIOUS
<1> HIDE DEF c
<1>2. c \in Nat /\ h \in Nat
  BY <1>1
<1>3. c = h
  BY <1>1, <1>2
<1> QED BY <1>3 DEF c

-------------------------------------------------------------------------------
(* Where a scope has a name, and where a list of scopes does.              *)
Places(scope, x) == {i \in DOMAIN scope : scope[i].name = x}
Having(in, x)    == {d \in DOMAIN in : LatestIn(in[d], x) # None}

LEMMA LatestInIs ==
    ASSUME NEW S, NEW scope \in Seq(S), NEW x
    PROVE  /\ Places(scope, x) = {} => LatestIn(scope, x) = None
           /\ \A i \in Places(scope, x) :
                (\A j \in Places(scope, x) : j <= i) => LatestIn(scope, x) = scope[i].type
           /\ Places(scope, x) # {} => \E i \in Places(scope, x) : \A j \in Places(scope, x) : j <= i
<1> DEFINE H == Places(scope, x)
<1>1. Len(scope) \in Nat /\ H \subseteq 1..Len(scope)
  BY DEF Places
<1>2. LatestIn(scope, x) = IF H = {} THEN None ELSE scope[CHOOSE i \in H : \A j \in H : j <= i].type
  BY Zenon DEF LatestIn, Places
<1> HIDE DEF H
<1>3. H # {} => \E i \in H : \A j \in H : j <= i
  BY <1>1, Latest
<1>4. ASSUME NEW i \in H, \A j \in H : j <= i PROVE LatestIn(scope, x) = scope[i].type
  <2>1. (CHOOSE k \in H : \A j \in H : j <= k) = i
    BY <1>1, <1>4, Chosen
  <2> QED BY <1>2, <2>1
<1> QED BY <1>2, <1>3, <1>4 DEF H

LEMMA LookUpIs ==
    ASSUME NEW S, NEW in \in Seq(S), NEW x
    PROVE  /\ Having(in, x) = {} => LookUp(in, x) = None
           /\ \A d \in Having(in, x) :
                (\A e \in Having(in, x) : e <= d) => LookUp(in, x) = LatestIn(in[d], x)
           /\ Having(in, x) # {} => \E d \in Having(in, x) : \A e \in Having(in, x) : e <= d
<1> DEFINE H == Having(in, x)
<1>1. Len(in) \in Nat /\ H \subseteq 1..Len(in)
  BY DEF Having
<1>2. LookUp(in, x) = IF H = {} THEN None ELSE LatestIn(in[CHOOSE d \in H : \A e \in H : e <= d], x)
  BY Zenon DEF LookUp, Having
<1> HIDE DEF H
<1>3. H # {} => \E d \in H : \A e \in H : e <= d
  BY <1>1, Latest
<1>4. ASSUME NEW d \in H, \A e \in H : e <= d PROVE LookUp(in, x) = LatestIn(in[d], x)
  <2>1. (CHOOSE k \in H : \A e \in H : e <= k) = d
    BY <1>1, <1>4, Chosen
  <2> QED BY <1>2, <2>1
<1> QED BY <1>2, <1>3, <1>4 DEF H

(* Two scopes that have the same variables, whatever else they say.        *)
Same(a, b) ==
    /\ Len(a) = Len(b)
    /\ \A i \in 1..Len(a) : a[i].name = b[i].name /\ a[i].type = b[i].type

LEMMA SameLatest ==
    ASSUME NEW S, NEW a \in Seq(S), NEW R, NEW b \in Seq(R), Same(a, b), NEW x
    PROVE  LatestIn(a, x) = LatestIn(b, x)
<1>1. Places(a, x) = Places(b, x)
  BY DEF Places, Same
<1>2. CASE Places(a, x) = {}
  BY <1>1, <1>2, LatestInIs
<1>3. CASE Places(a, x) # {}
  <2>1. PICK i \in Places(a, x) : \A j \in Places(a, x) : j <= i
    BY <1>3, LatestInIs
  <2>2. LatestIn(a, x) = a[i].type
    BY <2>1, LatestInIs
  <2>3. LatestIn(b, x) = b[i].type
    BY <1>1, <2>1, LatestInIs
  <2>4. i \in 1..Len(a)
    BY DEF Places
  <2> QED BY <2>2, <2>3, <2>4 DEF Same
<1> QED BY <1>2, <1>3

(* Another variable does not change what a scope has of a name.            *)
LEMMA LatestOfOthers ==
    ASSUME NEW S, NEW a \in Seq(S), NEW d \in S, NEW x, d.name # x
    PROVE  LatestIn(Append(a, d), x) = LatestIn(a, x)
<1> DEFINE b == Append(a, d)
<1>1. /\ b \in Seq(S) /\ Len(b) = Len(a) + 1 /\ Len(a) \in Nat
      /\ b[Len(a) + 1] = d /\ \A i \in 1..Len(a) : b[i] = a[i]
  OBVIOUS
<1> HIDE DEF b
<1>2. Places(a, x) = Places(b, x)
  BY <1>1 DEF Places
<1>3. CASE Places(a, x) = {}
  BY <1>1, <1>2, <1>3, LatestInIs DEF b
<1>4. CASE Places(a, x) # {}
  <2>1. PICK i \in Places(a, x) : \A j \in Places(a, x) : j <= i
    BY <1>4, LatestInIs
  <2>2. LatestIn(a, x) = a[i].type
    BY <2>1, LatestInIs
  <2>3. LatestIn(b, x) = b[i].type
    BY <1>1, <1>2, <2>1, LatestInIs
  <2>4. i \in 1..Len(a)
    BY DEF Places
  <2> QED BY <1>1, <2>2, <2>3, <2>4 DEF b
<1> QED BY <1>3, <1>4

(* A variable's type, or None.                                             *)
LEMMA LatestType ==
    ASSUME NEW scope \in Seq([name : Names, type : Types]), NEW x
    PROVE  LatestIn(scope, x) \in Types \cup {None}
<1>1. CASE Places(scope, x) = {}
  BY <1>1, LatestInIs
<1>2. CASE Places(scope, x) # {}
  <2>1. PICK i \in Places(scope, x) : \A j \in Places(scope, x) : j <= i
    BY <1>2, LatestInIs
  <2>2. LatestIn(scope, x) = scope[i].type
    BY <2>1, LatestInIs
  <2>3. scope[i] \in [name : Names, type : Types]
    <3>1. \A S : scope \in Seq(S) => \A k \in DOMAIN scope : scope[k] \in S
      OBVIOUS
    <3> QED BY <3>1 DEF Places
  <2> QED BY <2>2, <2>3
<1> QED BY <1>1, <1>2

LEMMA LookUpType ==
    ASSUME NEW in \in Seq(Seq([name : Names, type : Types])), NEW x
    PROVE  LookUp(in, x) \in Types \cup {None}
<1>1. CASE Having(in, x) = {}
  BY <1>1, LookUpIs
<1>2. CASE Having(in, x) # {}
  <2>1. PICK d \in Having(in, x) : \A e \in Having(in, x) : e <= d
    BY <1>2, LookUpIs
  <2>2. LookUp(in, x) = LatestIn(in[d], x)
    BY <2>1, LookUpIs
  <2>3. in[d] \in Seq([name : Names, type : Types])
    BY DEF Having
  <2> QED BY <2>2, <2>3, LatestType
<1> QED BY <1>1, <1>2

(* Lists of scopes that have the same of a name scope by scope.            *)
AlikeFor(in, on, x) ==
    Len(in) = Len(on) /\ \A d \in 1..Len(in) : LatestIn(in[d], x) = LatestIn(on[d], x)

LEMMA LookUpAlike ==
    ASSUME NEW S, NEW in \in Seq(S), NEW R, NEW on \in Seq(R), NEW x, AlikeFor(in, on, x)
    PROVE  LookUp(in, x) = LookUp(on, x)
<1>1. Having(in, x) = Having(on, x)
  BY DEF Having, AlikeFor
<1>2. CASE Having(in, x) = {}
  BY <1>1, <1>2, LookUpIs
<1>3. CASE Having(in, x) # {}
  <2>1. PICK d \in Having(in, x) : \A e \in Having(in, x) : e <= d
    BY <1>3, LookUpIs
  <2>2. LookUp(in, x) = LatestIn(in[d], x)
    BY <2>1, LookUpIs
  <2>3. LookUp(on, x) = LatestIn(on[d], x)
    BY <1>1, <2>1, LookUpIs
  <2>4. d \in 1..Len(in)
    BY DEF Having
  <2> QED BY <2>2, <2>3, <2>4 DEF AlikeFor
<1> QED BY <1>2, <1>3

(* A scope more that has nothing of a name.                                *)
LEMMA LookUpBeyond ==
    ASSUME NEW S, NEW in \in Seq(S), NEW scope \in S, NEW x, LatestIn(scope, x) = None
    PROVE  LookUp(Append(in, scope), x) = LookUp(in, x)
<1> DEFINE on == Append(in, scope)
<1>1. /\ on \in Seq(S) /\ Len(on) = Len(in) + 1 /\ Len(in) \in Nat
      /\ on[Len(in) + 1] = scope /\ \A d \in 1..Len(in) : on[d] = in[d]
  OBVIOUS
<1> HIDE DEF on
<1>2. Having(in, x) = Having(on, x)
  BY <1>1 DEF Having
<1>3. CASE Having(in, x) = {}
  BY <1>1, <1>2, <1>3, LookUpIs DEF on
<1>4. CASE Having(in, x) # {}
  <2>1. PICK d \in Having(in, x) : \A e \in Having(in, x) : e <= d
    BY <1>4, LookUpIs
  <2>2. LookUp(in, x) = LatestIn(in[d], x)
    BY <2>1, LookUpIs
  <2>3. LookUp(on, x) = LatestIn(on[d], x)
    BY <1>1, <1>2, <2>1, LookUpIs
  <2>4. d \in 1..Len(in)
    BY DEF Having
  <2> QED BY <1>1, <2>2, <2>3, <2>4 DEF on
<1> QED BY <1>3, <1>4

(* The innermost scope with one variable more.                             *)
With(in, d) == [in EXCEPT ![Len(in)] = Append(@, d)]

LEMMA WithIs ==
    ASSUME NEW S, NEW in \in Seq(Seq(S)), in # <<>>, NEW d \in S
    PROVE  /\ With(in, d) \in Seq(Seq(S)) /\ Len(With(in, d)) = Len(in) /\ Len(in) \in Nat \ {0}
           /\ With(in, d)[Len(in)] = Append(in[Len(in)], d)
           /\ \A e \in 1..Len(in) : e # Len(in) => With(in, d)[e] = in[e]
BY DEF With

LEMMA LookUpOthers ==
    ASSUME NEW S, NEW in \in Seq(Seq(S)), in # <<>>, NEW d \in S, NEW x, d.name # x
    PROVE  LookUp(With(in, d), x) = LookUp(in, x)
<1>1. LatestIn(With(in, d)[Len(in)], x) = LatestIn(in[Len(in)], x)
  <2>1. in[Len(in)] \in Seq(S)
    OBVIOUS
  <2>2. LatestIn(Append(in[Len(in)], d), x) = LatestIn(in[Len(in)], x)
    BY <2>1, LatestOfOthers
  <2> QED BY <2>2, WithIs
<1> DEFINE more == With(in, d)
<1>2. /\ more \in Seq(Seq(S)) /\ Len(more) = Len(in) /\ Len(in) \in Nat
      /\ LatestIn(more[Len(in)], x) = LatestIn(in[Len(in)], x)
      /\ \A k \in 1..Len(in) : k # Len(in) => more[k] = in[k]
  BY <1>1, WithIs
<1> HIDE DEF more
<1>3. AlikeFor(more, in, x)
  BY <1>2 DEF AlikeFor
<1>4. LookUp(more, x) = LookUp(in, x)
  BY <1>2, <1>3, LookUpAlike
<1> QED BY <1>4 DEF more

(***************************************************************************)
(* The generator's list has the program scope below the scopes of C.       *)
(***************************************************************************)
Mirrors(sc, at) ==
    /\ Len(sc) = Len(at) + 1
    /\ sc[1] = <<>>
    /\ \A d \in 1..Len(at) : Same(sc[d + 1], at[d])

LEMMA MirrorsLookUp ==
    ASSUME NEW S, NEW sc \in Seq(Seq(S)), NEW R, NEW at \in Seq(Seq(R)), Mirrors(sc, at), NEW x
    PROVE  LookUp(sc, x) = LookUp(at, x)
<1>1. Len(at) \in Nat /\ Len(sc) = Len(at) + 1 /\ sc[1] = <<>>
  BY DEF Mirrors
<1>2. \A d \in 1..Len(at) : LatestIn(sc[d + 1], x) = LatestIn(at[d], x)
  <2> TAKE d \in 1..Len(at)
  <2>1. sc[d + 1] \in Seq(S) /\ at[d] \in Seq(R) /\ Same(sc[d + 1], at[d])
    BY <1>1 DEF Mirrors
  <2> QED BY <2>1, SameLatest
<1>3. LatestIn(sc[1], x) = None
  <2>1. <<>> \in Seq(S) /\ Places(<<>>, x) = {}
    BY DEF Places
  <2> QED BY <1>1, <2>1, LatestInIs
<1>4. \A e \in 1..Len(sc) : e # 1 => e - 1 \in 1..Len(at) /\ (e - 1) + 1 = e
  BY <1>1
<1>5. /\ \A d \in Having(at, x) : d + 1 \in Having(sc, x)
      /\ \A e \in Having(sc, x) : e - 1 \in Having(at, x) /\ (e - 1) + 1 = e
  <2>1. \A d \in Having(at, x) : d + 1 \in Having(sc, x)
    <3> SUFFICES ASSUME NEW d \in Having(at, x) PROVE d + 1 \in Having(sc, x)
      OBVIOUS
    <3>1. d \in 1..Len(at) /\ LatestIn(at[d], x) # None
      BY DEF Having
    <3>2. d + 1 \in DOMAIN sc
      BY <1>1, <3>1
    <3> QED BY <1>2, <3>1, <3>2 DEF Having
  <2>2. \A e \in Having(sc, x) : e \in 1..Len(sc) /\ e # 1 /\ LatestIn(sc[e], x) # None
    BY <1>3 DEF Having
  <2>3. \A e \in Having(sc, x) : LatestIn(at[e - 1], x) # None
    BY <1>2, <1>4, <2>2
  <2> QED BY <1>4, <2>1, <2>2, <2>3 DEF Having
<1>6. CASE Having(at, x) = {}
  <2>1. Having(sc, x) = {}
    BY <1>5, <1>6
  <2> QED BY <1>6, <2>1, LookUpIs
<1>7. CASE Having(at, x) # {}
  <2>1. PICK d \in Having(at, x) : \A e \in Having(at, x) : e <= d
    BY <1>7, LookUpIs
  <2>2. d \in 1..Len(at) /\ Having(at, x) \subseteq Nat
    BY DEF Having
  <2>3. \A e \in Having(sc, x) : e <= d + 1
    <3> TAKE e \in Having(sc, x)
    <3>1. e - 1 <= d /\ e - 1 \in Nat /\ (e - 1) + 1 = e
      BY <1>5, <2>1, <2>2
    <3>2. e \in Nat
      BY DEF Having
    <3> QED BY <2>2, <3>1, <3>2
  <2>4. LookUp(sc, x) = LatestIn(sc[d + 1], x)
    BY <1>5, <2>3, LookUpIs
  <2>5. LookUp(at, x) = LatestIn(at[d], x)
    BY <2>1, LookUpIs
  <2> QED BY <1>2, <2>2, <2>4, <2>5
<1> QED BY <1>6, <1>7

-------------------------------------------------------------------------------
(* Sequences put together.                                                 *)
LEMMA Joined ==
    ASSUME NEW S, NEW s \in Seq(S), NEW t \in Seq(S)
    PROVE  /\ s \o t \in Seq(S) /\ Len(s \o t) = Len(s) + Len(t)
           /\ Len(s) \in Nat /\ Len(t) \in Nat
           /\ \A k \in 1..Len(s) : (s \o t)[k] = s[k]
           /\ \A k \in 1..Len(t) : (s \o t)[Len(s) + k] = t[k]
OBVIOUS

(* C's reading of a text is defined by its recursion.                      *)
IsReading(r, text, n) ==
    r = [k \in 0..n |-> IF k = 0 THEN <<>> ELSE CRead(r[k - 1], text[k])]

LEMMA ReadingExists ==
    ASSUME NEW text, NEW n \in Nat
    PROVE  \E r : IsReading(r, text, n)
<1> DEFINE S == {m \in Nat : \E r : IsReading(r, text, m)}
<1>1. 0 \in S
  <2> DEFINE r == [k \in 0..0 |-> <<>>]
  <2>1. r = [k \in 0..0 |-> IF k = 0 THEN <<>> ELSE CRead(r[k - 1], text[k])]
    OBVIOUS
  <2> HIDE DEF r
  <2> QED BY <2>1 DEF IsReading
<1>2. ASSUME NEW m \in S PROVE m + 1 \in S
  <2>1. PICK r : IsReading(r, text, m)
    OBVIOUS
  <2> DEFINE q == [k \in 0..(m + 1) |-> IF k = m + 1 THEN CRead(r[m], text[k]) ELSE r[k]]
             p == [k \in 0..(m + 1) |-> IF k = 0 THEN <<>> ELSE CRead(q[k - 1], text[k])]
  <2>2. m \in Nat /\ \A k \in 0..m : r[k] = IF k = 0 THEN <<>> ELSE CRead(r[k - 1], text[k])
    BY <2>1 DEF IsReading
  <2>3. \A k \in 0..(m + 1) : q[k] = IF k = 0 THEN <<>> ELSE CRead(q[k - 1], text[k])
    BY <2>2
  <2>4. DOMAIN q = 0..(m + 1) /\ q = [k \in DOMAIN q |-> q[k]]
    OBVIOUS
  <2> HIDE DEF q
  <2>5. q = p
    BY <2>3, <2>4
  <2>6. IsReading(q, text, m + 1)
    BY <2>5 DEF IsReading
  <2> QED BY <2>2, <2>6
<1>3. S \subseteq Nat
  OBVIOUS
<1> HIDE DEF S
<1>4. n \in S
  BY <1>1, <1>2, <1>3, Climb
<1> QED BY <1>4 DEF S

LEMMA ReadingIs ==
    ASSUME NEW S, NEW text \in Seq(S)
    PROVE  /\ CReading(text)[0] = <<>>
           /\ \A k \in 1..Len(text) : CReading(text)[k] = CRead(CReading(text)[k - 1], text[k])
<1> DEFINE c == CHOOSE r : r = [k \in 0..Len(text) |-> IF k = 0 THEN <<>> ELSE CRead(r[k - 1], text[k])]
<1>1. Len(text) \in Nat
  OBVIOUS
<1>2. \E r : r = [k \in 0..Len(text) |-> IF k = 0 THEN <<>> ELSE CRead(r[k - 1], text[k])]
  BY <1>1, ReadingExists DEF IsReading
<1>3. c = [k \in 0..Len(text) |-> IF k = 0 THEN <<>> ELSE CRead(c[k - 1], text[k])]
  BY <1>2, Zenon
<1>4. CReading(text) = c
  BY DEF CReading
<1> HIDE DEF c
<1>5. c[0] = <<>> /\ \A k \in 1..Len(text) : c[k] = CRead(c[k - 1], text[k])
  BY <1>1, <1>3
<1> QED BY <1>4, <1>5

LEMMA JoinedReading ==
    ASSUME NEW S, NEW text \in Seq(S), NEW more \in Seq(S)
    PROVE  /\ CReading(text \o more)[0] = <<>>
           /\ \A k \in 1..Len(text \o more) :
                CReading(text \o more)[k] = CRead(CReading(text \o more)[k - 1], (text \o more)[k])
<1> DEFINE u == text \o more
<1>1. u \in Seq(S)
  BY Joined
<1> HIDE DEF u
<1>2. /\ CReading(u)[0] = <<>>
      /\ \A k \in 1..Len(u) : CReading(u)[k] = CRead(CReading(u)[k - 1], u[k])
  BY <1>1, ReadingIs
<1> QED BY <1>2 DEF u

(* What follows does not change how a text is read.                        *)
LEMMA ReadingPrefix ==
    ASSUME NEW S, NEW text \in Seq(S), NEW more \in Seq(S)
    PROVE  \A k \in 0..Len(text) : CReading(text \o more)[k] = CReading(text)[k]
<1> DEFINE a == CReading(text)  b == CReading(text \o more)
           T == {k \in Nat : k <= Len(text) => b[k] = a[k]}
<1>1. a[0] = <<>> /\ \A k \in 1..Len(text) : a[k] = CRead(a[k - 1], text[k])
  BY ReadingIs
<1>2. b[0] = <<>> /\ \A k \in 1..Len(text) : b[k] = CRead(b[k - 1], text[k])
  <2>1. b[0] = <<>> /\ \A k \in 1..Len(text \o more) : b[k] = CRead(b[k - 1], (text \o more)[k])
    BY JoinedReading
  <2> HIDE DEF a, b
  <2> QED BY <2>1, Joined
<1> HIDE DEF a, b
<1>3. 0 \in T
  BY <1>1, <1>2
<1>4. ASSUME NEW k \in T PROVE k + 1 \in T
  <2>1. CASE k + 1 <= Len(text)
    <3>1. k + 1 \in 1..Len(text) /\ (k + 1) - 1 = k /\ b[k] = a[k]
      BY <2>1
    <3> QED BY <1>1, <1>2, <3>1
  <2>2. CASE ~(k + 1 <= Len(text))
    BY <2>2
  <2> QED BY <2>1, <2>2
<1>5. T \subseteq Nat
  OBVIOUS
<1> HIDE DEF T
<1>6. T = Nat
  BY <1>3, <1>4, <1>5, Climb
<1> QED BY <1>6 DEF T, a, b

(* Names and semicolons leave C's scopes as they are.                      *)
Quiet(more) == \A k \in 1..Len(more) : more[k].item \in {"name", "number", "semi"}

LEMMA ReadingQuiet ==
    ASSUME NEW S, NEW text \in Seq(S), NEW more \in Seq(S), Quiet(more)
    PROVE  \A k \in 0..Len(more) : CReading(text \o more)[Len(text) + k] = CReading(text)[Len(text)]
<1> DEFINE b == CReading(text \o more)
           T == {k \in Nat : k <= Len(more) => b[Len(text) + k] = CReading(text)[Len(text)]}
<1>1. b[Len(text)] = CReading(text)[Len(text)]
  BY ReadingPrefix, Joined
<1>2. \A k \in 1..Len(text \o more) : b[k] = CRead(b[k - 1], (text \o more)[k])
  BY JoinedReading
<1> HIDE DEF b
<1>3. 0 \in T
  BY <1>1, Joined
<1>4. ASSUME NEW k \in T PROVE k + 1 \in T
  <2>1. CASE k + 1 <= Len(more)
    <3>1. /\ Len(text) + (k + 1) \in 1..Len(text \o more)
          /\ (Len(text) + (k + 1)) - 1 = Len(text) + k
          /\ (text \o more)[Len(text) + (k + 1)] = more[k + 1]
          /\ more[k + 1].item \in {"name", "number", "semi"}
      BY <2>1, Joined DEF Quiet
    <3>2. b[Len(text) + (k + 1)] = CRead(b[Len(text) + k], more[k + 1])
      BY <1>2, <3>1
    <3>3. CRead(b[Len(text) + k], more[k + 1]) = b[Len(text) + k]
      BY <3>1 DEF CRead
    <3> QED BY <2>1, <3>2, <3>3
  <2>2. CASE ~(k + 1 <= Len(more))
    BY <2>2
  <2> QED BY <2>1, <2>2
<1>5. T \subseteq Nat
  OBVIOUS
<1> HIDE DEF T
<1>6. T = Nat
  BY <1>3, <1>4, <1>5, Climb
<1> QED BY <1>6 DEF T, b

-------------------------------------------------------------------------------
(* The text: what the walk writes, and which of it is right.               *)
VariableOf == [name : Names, type : Types]

Item ==
    [item : {"open", "close", "for", "endfor", "semi"}]
        \cup [item : {"declare"}, name : Names, type : Types]
        \cup [item : {"name"}, name : Names \cup Enumerators, type : Types \cup {None}]
        \cup [item : {"number"}, name : Enumerators]

Own(text, k) ==
    \E j \in 1..(k - 1) :
        /\ text[j].item = "declare" /\ text[j].name = text[k].name
        /\ \A i \in j..k : text[i].item \notin {"semi", "open"}

Right(text, k) ==
    /\ text[k].item = "name" /\ ~Own(text, k) =>
           text[k].type = LookUp(CReading(text)[k], text[k].name)
    /\ text[k].item = "number" /\ ~Own(text, k) =>
           LookUp(CReading(text)[k], text[k].name) = None

AllRight(text) == \A k \in 1..Len(text) : Right(text, k)

Number(text, item) == Cardinality({k \in DOMAIN text : text[k].item = item})

Balanced(text, n) ==
    n = 1 + (Number(text, "open") - Number(text, "close")) + (Number(text, "for") - Number(text, "endfor"))

(* A text and the generator's scopes behind it.                            *)
Told(text, sc) ==
    /\ text \in Seq(Item)
    /\ sc \in Seq(Seq(VariableOf))
    /\ CReading(text)[Len(text)] \in Seq(Seq(Item))
    /\ Mirrors(sc, CReading(text)[Len(text)])
    /\ AllRight(text)
    /\ Balanced(text, Len(sc))

-------------------------------------------------------------------------------
(* What follows does not make a text right or wrong.                       *)
LEMMA RightPrefix ==
    ASSUME NEW S, NEW text \in Seq(S), NEW more \in Seq(S), NEW k \in 1..Len(text), Right(text, k)
    PROVE  Right(text \o more, k)
<1> DEFINE u == text \o more
<1>1. u[k] = text[k] /\ k \in Nat /\ \A i \in 1..k : u[i] = text[i]
  BY Joined
<1>2. CReading(u)[k] = CReading(text)[k]
  BY ReadingPrefix
<1> HIDE DEF u
<1>3. Own(text, k) => Own(u, k)
  <2> SUFFICES ASSUME Own(text, k) PROVE Own(u, k)
    OBVIOUS
  <2>1. PICK j \in 1..(k - 1) :
            /\ text[j].item = "declare" /\ text[j].name = text[k].name
            /\ \A i \in j..k : text[i].item \notin {"semi", "open"}
    BY DEF Own
  <2>2. j \in 1..k /\ \A i \in j..k : i \in 1..k
    BY <1>1
  <2>3. u[j] = text[j] /\ \A i \in j..k : u[i].item \notin {"semi", "open"}
    BY <1>1, <2>1, <2>2
  <2> QED BY <1>1, <2>1, <2>3 DEF Own
<1>4. Right(u, k)
  BY <1>1, <1>2, <1>3 DEF Right
<1> QED BY <1>4 DEF u

LEMMA AllRightJoined ==
    ASSUME NEW S, NEW text \in Seq(S), NEW more \in Seq(S), AllRight(text),
           \A j \in 1..Len(more) : Right(text \o more, Len(text) + j)
    PROVE  AllRight(text \o more)
<1> SUFFICES ASSUME NEW k \in 1..Len(text \o more) PROVE Right(text \o more, k)
  BY DEF AllRight
<1>1. CASE k \in 1..Len(text)
  BY <1>1, RightPrefix DEF AllRight
<1>2. CASE k \notin 1..Len(text)
  <2>1. k - Len(text) \in 1..Len(more) /\ Len(text) + (k - Len(text)) = k
    BY <1>2, Joined
  <2> QED BY <2>1
<1> QED BY <1>1, <1>2

Nameless(more) == \A j \in 1..Len(more) : more[j].item \notin {"name", "number"}

LEMMA AllRightNameless ==
    ASSUME NEW S, NEW text \in Seq(S), NEW more \in Seq(S), AllRight(text), Nameless(more)
    PROVE  AllRight(text \o more)
<1>1. \A j \in 1..Len(more) : Right(text \o more, Len(text) + j)
  BY Joined DEF Right, Nameless
<1> QED BY <1>1, AllRightJoined

-------------------------------------------------------------------------------
(* Counting.                                                               *)
Of(text, item) == {k \in DOMAIN text : text[k].item = item}

LEMMA NumberIs ==
    ASSUME NEW S, NEW text \in Seq(S), NEW item
    PROVE  Number(text, item) = Cardinality(Of(text, item)) /\ IsFiniteSet(Of(text, item)) /\ Number(text, item) \in Nat
<1>1. Len(text) \in Nat /\ Of(text, item) \subseteq 1..Len(text)
  BY DEF Of
<1>2. IsFiniteSet(1..Len(text))
  BY <1>1, FS_Interval
<1>3. IsFiniteSet(Of(text, item))
  BY <1>1, <1>2, FS_Subset
<1>4. Number(text, item) = Cardinality(Of(text, item))
  BY DEF Number, Of
<1> QED BY <1>3, <1>4, FS_CardinalityType

LEMMA NumberWithout ==
    ASSUME NEW S, NEW text \in Seq(S), NEW more \in Seq(S), NEW item,
           \A k \in 1..Len(more) : more[k].item # item
    PROVE  Number(text \o more, item) = Number(text, item)
<1> DEFINE u == text \o more
<1>1. Of(u, item) = Of(text, item)
  <2>1. /\ u \in Seq(S) /\ Len(u) = Len(text) + Len(more) /\ Len(text) \in Nat /\ Len(more) \in Nat
        /\ \A k \in 1..Len(text) : u[k] = text[k]
        /\ \A k \in 1..Len(more) : u[Len(text) + k] = more[k]
    BY Joined
  <2> HIDE DEF u
  <2>2. \A k \in 1..Len(u) : k \notin 1..Len(text) => k - Len(text) \in 1..Len(more) /\ Len(text) + (k - Len(text)) = k
    BY <2>1
  <2>3. \A k \in 1..Len(u) : k \notin 1..Len(text) => u[k].item # item
    BY <2>1, <2>2
  <2>4. DOMAIN u = 1..Len(u) /\ DOMAIN text = 1..Len(text) /\ 1..Len(text) \subseteq 1..Len(u)
    BY <2>1
  <2> QED BY <2>1, <2>3, <2>4 DEF Of
<1>2. u \in Seq(S)
  BY Joined
<1> HIDE DEF u
<1>3. Number(u, item) = Number(text, item)
  BY <1>1, <1>2, NumberIs
<1> QED BY <1>3 DEF u

LEMMA NumberWithOne ==
    ASSUME NEW S, NEW text \in Seq(S), NEW e \in S
    PROVE  Number(text \o <<e>>, e.item) = Number(text, e.item) + 1
<1> DEFINE u == text \o <<e>>
<1>1. /\ u \in Seq(S) /\ Len(u) = Len(text) + 1 /\ Len(text) \in Nat
      /\ \A k \in 1..Len(text) : u[k] = text[k]
      /\ u[Len(text) + 1] = e
  OBVIOUS
<1> HIDE DEF u
<1>2. Of(u, e.item) = Of(text, e.item) \cup {Len(text) + 1} /\ Len(text) + 1 \notin Of(text, e.item)
  BY <1>1 DEF Of
<1>3. Cardinality(Of(u, e.item)) = Cardinality(Of(text, e.item)) + 1
  BY <1>2, NumberIs, FS_AddElement
<1>4. Number(u, e.item) = Number(text, e.item) + 1
  BY <1>1, <1>3, NumberIs
<1> QED BY <1>4 DEF u

(* Neither names nor declarations open or close anything.                  *)
Level(more) == \A k \in 1..Len(more) : more[k].item \notin {"open", "close", "for", "endfor"}

LEMMA BalancedLevel ==
    ASSUME NEW S, NEW text \in Seq(S), NEW more \in Seq(S), NEW n, Balanced(text, n), Level(more)
    PROVE  Balanced(text \o more, n)
<1>1. /\ Number(text \o more, "open") = Number(text, "open")
      /\ Number(text \o more, "close") = Number(text, "close")
      /\ Number(text \o more, "for") = Number(text, "for")
      /\ Number(text \o more, "endfor") = Number(text, "endfor")
  BY NumberWithout DEF Level
<1> QED BY <1>1 DEF Balanced

LEMMA BalancedMark ==
    ASSUME NEW text \in Seq(Item), NEW i \in {"open", "close", "for", "endfor"}, NEW n \in Nat, Balanced(text, n)
    PROVE  /\ i \in {"open", "for"} => Balanced(text \o Mark(i), n + 1)
           /\ i \in {"close", "endfor"} => Balanced(text \o Mark(i), n - 1)
<1> DEFINE e == [item |-> i]
<1>1. e \in Item /\ e.item = i /\ Mark(i) = <<e>>
  BY DEF Item, Mark
<1> HIDE DEF e
<1>2. Number(text \o Mark(i), i) = Number(text, i) + 1
  BY <1>1, NumberWithOne
<1>3. \A j : j # i => Number(text \o Mark(i), j) = Number(text, j)
  <2> TAKE j
  <2>1. <<e>> \in Seq(Item) /\ Len(<<e>>) = 1 /\ <<e>>[1] = e
    BY <1>1
  <2>2. j # i => \A k \in 1..Len(<<e>>) : <<e>>[k].item # j
    BY <1>1, <2>1
  <2> DEFINE more == <<e>>
  <2>3. more \in Seq(Item) /\ (j # i => \A k \in 1..Len(more) : more[k].item # j)
    BY <2>1, <2>2
  <2>4. Mark(i) = more
    BY <1>1
  <2> HIDE DEF more
  <2>5. j # i => Number(text \o more, j) = Number(text, j)
    BY <2>3, NumberWithout
  <2> QED BY <2>4, <2>5
<1>4. \A j : Number(text, j) \in Nat
  BY NumberIs
<1> DEFINE o1 == Number(text, "open")   o2 == Number(text \o Mark(i), "open")
           c1 == Number(text, "close")  c2 == Number(text \o Mark(i), "close")
           f1 == Number(text, "for")    f2 == Number(text \o Mark(i), "for")
           e1 == Number(text, "endfor") e2 == Number(text \o Mark(i), "endfor")
<1>5. o1 \in Nat /\ c1 \in Nat /\ f1 \in Nat /\ e1 \in Nat
  BY <1>4
<1>6. n = 1 + (o1 - c1) + (f1 - e1)
  BY DEF Balanced
<1>7. CASE i = "open"
  <2>1. o2 = o1 + 1 /\ c2 = c1 /\ f2 = f1 /\ e2 = e1
    BY <1>2, <1>3, <1>7
  <2> HIDE DEF o1, c1, f1, e1, o2, c2, f2, e2
  <2>2. n + 1 = 1 + (o2 - c2) + (f2 - e2)
    BY <1>5, <1>6, <2>1
  <2>3. Balanced(text \o Mark(i), n + 1)
    BY <2>2 DEF Balanced, o2, c2, f2, e2
  <2> QED BY <1>7, <2>3
<1>8. CASE i = "close"
  <2>1. o2 = o1 /\ c2 = c1 + 1 /\ f2 = f1 /\ e2 = e1
    BY <1>2, <1>3, <1>8
  <2> HIDE DEF o1, c1, f1, e1, o2, c2, f2, e2
  <2>2. n - 1 = 1 + (o2 - c2) + (f2 - e2)
    BY <1>5, <1>6, <2>1
  <2>3. Balanced(text \o Mark(i), n - 1)
    BY <2>2 DEF Balanced, o2, c2, f2, e2
  <2> QED BY <1>8, <2>3
<1>9. CASE i = "for"
  <2>1. o2 = o1 /\ c2 = c1 /\ f2 = f1 + 1 /\ e2 = e1
    BY <1>2, <1>3, <1>9
  <2> HIDE DEF o1, c1, f1, e1, o2, c2, f2, e2
  <2>2. n + 1 = 1 + (o2 - c2) + (f2 - e2)
    BY <1>5, <1>6, <2>1
  <2>3. Balanced(text \o Mark(i), n + 1)
    BY <2>2 DEF Balanced, o2, c2, f2, e2
  <2> QED BY <1>9, <2>3
<1>10. CASE i = "endfor"
  <2>1. o2 = o1 /\ c2 = c1 /\ f2 = f1 /\ e2 = e1 + 1
    BY <1>2, <1>3, <1>10
  <2> HIDE DEF o1, c1, f1, e1, o2, c2, f2, e2
  <2>2. n - 1 = 1 + (o2 - c2) + (f2 - e2)
    BY <1>5, <1>6, <2>1
  <2>3. Balanced(text \o Mark(i), n - 1)
    BY <2>2 DEF Balanced, o2, c2, f2, e2
  <2> QED BY <1>10, <2>3
<1> QED BY <1>7, <1>8, <1>9, <1>10

-------------------------------------------------------------------------------
(* How the scopes of the generator and those of C go on together.          *)
LEMMA MirrorsOpen ==
    ASSUME NEW S, NEW sc \in Seq(Seq(S)), NEW R, NEW at \in Seq(Seq(R)), Mirrors(sc, at)
    PROVE  Mirrors(Append(sc, <<>>), Append(at, <<>>))
<1> DEFINE u == Append(sc, <<>>)  v == Append(at, <<>>)
<1>1. /\ Len(at) \in Nat /\ Len(sc) = Len(at) + 1 /\ sc[1] = <<>>
      /\ \A d \in 1..Len(at) : Same(sc[d + 1], at[d])
  <2>1. Len(at) \in Nat
    OBVIOUS
  <2> QED BY <2>1, Zenon DEF Mirrors
<1>2. <<>> \in Seq(S) /\ <<>> \in Seq(R)
  OBVIOUS
<1>3. /\ Len(u) = Len(sc) + 1 /\ u[Len(sc) + 1] = <<>> /\ \A d \in 1..Len(sc) : u[d] = sc[d]
      /\ Len(v) = Len(at) + 1 /\ v[Len(at) + 1] = <<>> /\ \A d \in 1..Len(at) : v[d] = at[d]
  BY <1>2
<1>4. Same(<<>>, <<>>)
  BY DEF Same
<1> HIDE DEF u, v
<1>5. Len(u) = Len(v) + 1 /\ u[1] = <<>>
  BY <1>1, <1>3
<1>6. \A d \in 1..Len(v) : Same(u[d + 1], v[d])
  <2> TAKE d \in 1..Len(v)
  <2>1. CASE d = Len(at) + 1
    BY <1>1, <1>3, <1>4, <2>1
  <2>2. CASE d # Len(at) + 1
    <3>1. d \in 1..Len(at) /\ d + 1 \in 1..Len(sc)
      BY <1>1, <1>3, <2>2
    <3> QED BY <1>1, <1>3, <3>1
  <2> QED BY <2>1, <2>2
<1>7. Mirrors(u, v)
  BY <1>5, <1>6 DEF Mirrors
<1> QED BY <1>7 DEF u, v

LEMMA FrontIs ==
    ASSUME NEW S, NEW s \in Seq(S), s # <<>>
    PROVE  /\ Front(s) \in Seq(S) /\ Len(Front(s)) = Len(s) - 1
           /\ Len(s) \in Nat \ {0}
           /\ \A k \in 1..(Len(s) - 1) : Front(s)[k] = s[k]
<1>1. Len(s) \in Nat \ {0} /\ Len(s) - 1 \in Nat /\ Len(s) - 1 <= Len(s)
  OBVIOUS
<1> DEFINE n == Len(s) - 1
<1>2. n \in Nat /\ n <= Len(s)
  BY <1>1
<1> HIDE DEF n
<1>3. SubSeq(s, 1, n) \in Seq(S) /\ Len(SubSeq(s, 1, n)) = n /\ \A k \in 1..n : SubSeq(s, 1, n)[k] = s[k]
  BY <1>2
<1>4. Front(s) = SubSeq(s, 1, n)
  BY DEF Front, n
<1> QED BY <1>1, <1>3, <1>4 DEF n

LEMMA MirrorsClose ==
    ASSUME NEW S, NEW sc \in Seq(Seq(S)), NEW R, NEW at \in Seq(Seq(R)), Mirrors(sc, at), Len(sc) > 1
    PROVE  at # <<>> /\ sc # <<>> /\ Mirrors(Front(sc), Front(at))
<1>0. Len(at) \in Nat
  OBVIOUS
<1>1. /\ Len(at) \in Nat /\ Len(sc) = Len(at) + 1 /\ sc[1] = <<>>
      /\ \A d \in 1..Len(at) : Same(sc[d + 1], at[d])
  BY <1>0 DEF Mirrors
<1>2. at # <<>> /\ sc # <<>>
  BY <1>1
<1> DEFINE u == Front(sc)  v == Front(at)
<1>3. /\ Len(u) = Len(sc) - 1 /\ \A d \in 1..(Len(sc) - 1) : u[d] = sc[d]
      /\ Len(v) = Len(at) - 1 /\ \A d \in 1..(Len(at) - 1) : v[d] = at[d]
      /\ Len(at) # 0
  BY <1>2, FrontIs
<1> HIDE DEF u, v
<1>4. Len(u) = Len(v) + 1 /\ u[1] = <<>>
  <2>1. 1 \in 1..(Len(sc) - 1)
    BY <1>1
  <2> QED BY <1>1, <1>3, <2>1
<1>5. \A d \in 1..Len(v) : Same(u[d + 1], v[d])
  <2> TAKE d \in 1..Len(v)
  <2>1. d \in 1..Len(at) /\ d \in 1..(Len(at) - 1) /\ d + 1 \in 1..(Len(sc) - 1)
    BY <1>1, <1>3
  <2> QED BY <1>1, <1>3, <2>1
<1>6. Mirrors(u, v)
  BY <1>4, <1>5 DEF Mirrors
<1> QED BY <1>2, <1>6 DEF u, v

LEMMA MirrorsDeclare ==
    ASSUME NEW S, NEW sc \in Seq(Seq(S)), NEW R, NEW at \in Seq(Seq(R)), Mirrors(sc, at), Len(sc) > 1,
           NEW v \in S, NEW e \in R, v.name = e.name, v.type = e.type
    PROVE  at # <<>> /\ sc # <<>> /\ Mirrors(With(sc, v), With(at, e))
<1>0. Len(at) \in Nat
  OBVIOUS
<1>1. /\ Len(at) \in Nat /\ Len(sc) = Len(at) + 1 /\ sc[1] = <<>>
      /\ \A d \in 1..Len(at) : Same(sc[d + 1], at[d])
  BY <1>0 DEF Mirrors
<1>2. at # <<>> /\ sc # <<>>
  BY <1>1
<1> DEFINE a == With(sc, v)  b == With(at, e)
<1>3. /\ Len(a) = Len(sc) /\ a[Len(sc)] = Append(sc[Len(sc)], v)
      /\ \A d \in 1..Len(sc) : d # Len(sc) => a[d] = sc[d]
      /\ Len(b) = Len(at) /\ b[Len(at)] = Append(at[Len(at)], e)
      /\ \A d \in 1..Len(at) : d # Len(at) => b[d] = at[d]
  <2>1. /\ Len(a) = Len(sc) /\ a[Len(sc)] = Append(sc[Len(sc)], v)
        /\ \A d \in 1..Len(sc) : d # Len(sc) => a[d] = sc[d]
    BY <1>2, WithIs
  <2>2. /\ Len(b) = Len(at) /\ b[Len(at)] = Append(at[Len(at)], e)
        /\ \A d \in 1..Len(at) : d # Len(at) => b[d] = at[d]
    BY <1>2, WithIs
  <2> QED BY <2>1, <2>2
<1> HIDE DEF a, b
<1>4. Len(a) = Len(b) + 1 /\ a[1] = <<>>
  BY <1>1, <1>3
<1>5. Same(Append(sc[Len(sc)], v), Append(at[Len(at)], e))
  <2> DEFINE s == sc[Len(sc)]  t == at[Len(at)]
  <2>1. s \in Seq(S) /\ t \in Seq(R)
    BY <1>2
  <2>2. Same(s, t)
    <3>1. Len(at) \in 1..Len(at) /\ Len(sc) = Len(at) + 1
      BY <1>1
    <3> QED BY <1>1, <3>1
  <2> HIDE DEF s, t
  <2>3. Same(Append(s, v), Append(t, e))
    <3>1. /\ Len(Append(s, v)) = Len(s) + 1 /\ Append(s, v)[Len(s) + 1] = v /\ Len(s) \in Nat
          /\ \A i \in 1..Len(s) : Append(s, v)[i] = s[i]
      BY <2>1
    <3>2. /\ Len(Append(t, e)) = Len(t) + 1 /\ Append(t, e)[Len(t) + 1] = e
          /\ \A i \in 1..Len(t) : Append(t, e)[i] = t[i]
      BY <2>1
    <3>3. Len(s) = Len(t) /\ \A i \in 1..Len(s) : s[i].name = t[i].name /\ s[i].type = t[i].type
      BY <2>2 DEF Same
    <3>4. \A i \in 1..(Len(s) + 1) : Append(s, v)[i].name = Append(t, e)[i].name
                                     /\ Append(s, v)[i].type = Append(t, e)[i].type
      <4> TAKE i \in 1..(Len(s) + 1)
      <4>1. CASE i = Len(s) + 1
        BY <3>1, <3>2, <3>3, <4>1
      <4>2. CASE i # Len(s) + 1
        <5>1. i \in 1..Len(s)
          BY <3>1, <4>2
        <5> QED BY <3>1, <3>2, <3>3, <5>1
      <4> QED BY <4>1, <4>2
    <3> QED BY <3>1, <3>2, <3>3, <3>4 DEF Same
  <2> QED BY <2>3 DEF s, t
<1>6. \A d \in 1..Len(b) : Same(a[d + 1], b[d])
  <2> TAKE d \in 1..Len(b)
  <2>1. CASE d = Len(at)
    BY <1>1, <1>3, <1>5, <2>1
  <2>2. CASE d # Len(at)
    <3>1. d \in 1..Len(at) /\ d + 1 \in 1..Len(sc) /\ d + 1 # Len(sc)
      BY <1>1, <1>3, <2>2
    <3> QED BY <1>1, <1>3, <2>2, <3>1
  <2> QED BY <2>1, <2>2
<1>7. Mirrors(a, b)
  BY <1>4, <1>6 DEF Mirrors
<1> QED BY <1>2, <1>7 DEF a, b

-------------------------------------------------------------------------------
(* One item more, and what C makes of it.                                  *)
LEMMA ReadingOne ==
    ASSUME NEW S, NEW text \in Seq(S), NEW e \in S
    PROVE  /\ text \o <<e>> \in Seq(S) /\ Len(text \o <<e>>) = Len(text) + 1
           /\ CReading(text \o <<e>>)[Len(text \o <<e>>)] = CRead(CReading(text)[Len(text)], e)
<1>1. <<e>> \in Seq(S) /\ Len(<<e>>) = 1 /\ <<e>>[1] = e
  OBVIOUS
<1> DEFINE u == text \o <<e>>
<1>2. /\ u \in Seq(S) /\ Len(u) = Len(text) + 1 /\ Len(text) \in Nat /\ u[Len(text) + 1] = e
  BY <1>1
<1>3. CReading(u)[Len(text)] = CReading(text)[Len(text)]
  <2>1. \A k \in 0..Len(text) : CReading(u)[k] = CReading(text)[k]
    BY <1>1, ReadingPrefix
  <2> HIDE DEF u
  <2> QED BY <1>2, <2>1
<1> HIDE DEF u
<1>4. \A k \in 1..Len(u) : CReading(u)[k] = CRead(CReading(u)[k - 1], u[k])
  BY <1>2, ReadingIs
<1>5. Len(text) + 1 \in 1..Len(u) /\ (Len(text) + 1) - 1 = Len(text)
  BY <1>2
<1>6. CReading(u)[Len(u)] = CRead(CReading(text)[Len(text)], e)
  BY <1>2, <1>3, <1>4, <1>5
<1> QED BY <1>2, <1>6 DEF u

LEMMA NamelessOne ==
    ASSUME NEW text \in Seq(Item), NEW e \in Item, e.item \notin {"name", "number"}, AllRight(text)
    PROVE  AllRight(text \o <<e>>)
<1>1. <<e>> \in Seq(Item) /\ Nameless(<<e>>)
  BY DEF Nameless
<1> QED BY <1>1, AllRightNameless

LEMMA MarkIs ==
    ASSUME NEW i \in {"open", "close", "for", "endfor", "semi"}
    PROVE  /\ Mark(i) = <<[item |-> i]>> /\ [item |-> i] \in Item /\ [item |-> i].item = i
           /\ Mark(i) \in Seq(Item) /\ Len(Mark(i)) = 1 /\ Mark(i)[1] = [item |-> i]
BY DEF Mark, Item

(* A brace or a for opens a scope.                                         *)
LEMMA TellOpen ==
    ASSUME NEW text, NEW sc, Told(text, sc), NEW i \in {"open", "for"}
    PROVE  Told(text \o Mark(i), Append(sc, <<>>))
<1> DEFINE e == [item |-> i]  at == CReading(text)[Len(text)]  u == text \o Mark(i)
<1>1. Mark(i) = <<e>> /\ e \in Item /\ e.item = i
  BY MarkIs
<1>2. /\ text \in Seq(Item) /\ sc \in Seq(Seq(VariableOf)) /\ at \in Seq(Seq(Item))
      /\ Mirrors(sc, at) /\ AllRight(text) /\ Balanced(text, Len(sc))
  BY DEF Told
<1> HIDE DEF e, at
<1>3. u \in Seq(Item) /\ CReading(u)[Len(u)] = CRead(at, e)
  BY <1>1, <1>2, ReadingOne DEF at
<1>4. CRead(at, e) = Append(at, <<>>)
  BY <1>1 DEF CRead
<1>5. AllRight(u)
  BY <1>1, <1>2, NamelessOne
<1>6. Balanced(u, Len(sc) + 1)
  BY <1>2, BalancedMark
<1> HIDE DEF u
<1>7. <<>> \in Seq(VariableOf) /\ <<>> \in Seq(Item)
  OBVIOUS
<1>8. /\ Append(sc, <<>>) \in Seq(Seq(VariableOf)) /\ Len(Append(sc, <<>>)) = Len(sc) + 1
      /\ Append(at, <<>>) \in Seq(Seq(Item))
  BY <1>2, <1>7
<1>9. Mirrors(Append(sc, <<>>), Append(at, <<>>))
  BY <1>2, MirrorsOpen
<1>10. Told(u, Append(sc, <<>>))
  BY <1>3, <1>4, <1>5, <1>6, <1>8, <1>9 DEF Told
<1> QED BY <1>10 DEF u

(* A closing brace, or the end of a for.                                   *)
LEMMA TellClose ==
    ASSUME NEW text, NEW sc, Told(text, sc), Len(sc) > 1, NEW i \in {"close", "endfor"}
    PROVE  Told(text \o Mark(i), Front(sc))
<1> DEFINE e == [item |-> i]  at == CReading(text)[Len(text)]  u == text \o Mark(i)
<1>1. Mark(i) = <<e>> /\ e \in Item /\ e.item = i
  BY MarkIs
<1>2. /\ text \in Seq(Item) /\ sc \in Seq(Seq(VariableOf)) /\ at \in Seq(Seq(Item))
      /\ Mirrors(sc, at) /\ AllRight(text) /\ Balanced(text, Len(sc))
  BY DEF Told
<1> HIDE DEF e, at
<1>3. u \in Seq(Item) /\ CReading(u)[Len(u)] = CRead(at, e)
  BY <1>1, <1>2, ReadingOne DEF at
<1>4. CRead(at, e) = Front(at)
  BY <1>1 DEF CRead
<1>5. AllRight(u)
  BY <1>1, <1>2, NamelessOne
<1>6. Balanced(u, Len(sc) - 1)
  BY <1>2, BalancedMark
<1> HIDE DEF u
<1>7. at # <<>> /\ sc # <<>> /\ Mirrors(Front(sc), Front(at))
  BY <1>2, MirrorsClose
<1>8. Front(sc) \in Seq(Seq(VariableOf)) /\ Len(Front(sc)) = Len(sc) - 1 /\ Front(at) \in Seq(Seq(Item))
  BY <1>2, <1>7, FrontIs
<1>10. Told(u, Front(sc))
  BY <1>3, <1>4, <1>5, <1>6, <1>7, <1>8 DEF Told
<1> QED BY <1>10 DEF u

(* A semicolon.                                                            *)
LEMMA TellSemi ==
    ASSUME NEW text, NEW sc, Told(text, sc)
    PROVE  Told(text \o Mark("semi"), sc)
<1> DEFINE e == [item |-> "semi"]  at == CReading(text)[Len(text)]  u == text \o Mark("semi")
<1>1. Mark("semi") = <<e>> /\ e \in Item /\ e.item = "semi" /\ <<e>> \in Seq(Item) /\ Level(<<e>>)
  BY MarkIs DEF Level
<1>2. /\ text \in Seq(Item) /\ sc \in Seq(Seq(VariableOf)) /\ at \in Seq(Seq(Item))
      /\ Mirrors(sc, at) /\ AllRight(text) /\ Balanced(text, Len(sc))
  BY DEF Told
<1> HIDE DEF e, at
<1>3. u \in Seq(Item) /\ CReading(u)[Len(u)] = CRead(at, e)
  BY <1>1, <1>2, ReadingOne DEF at
<1>4. CRead(at, e) = at
  BY <1>1 DEF CRead
<1>5. AllRight(u)
  BY <1>1, <1>2, NamelessOne
<1>6. Balanced(u, Len(sc))
  BY <1>1, <1>2, BalancedLevel
<1> HIDE DEF u
<1>10. Told(u, sc)
  BY <1>2, <1>3, <1>4, <1>5, <1>6 DEF Told
<1> QED BY <1>10 DEF u

(* A declaration, of a variable that scope_add knows.                      *)
LEMMA DeclareIs ==
    ASSUME NEW d, d.name \in Names, d.type \in Types
    PROVE  /\ Declare(d) = <<Declarator(d)>> /\ Declarator(d) \in Item
           /\ Declarator(d).item = "declare" /\ Declarator(d).name = d.name /\ Declarator(d).type = d.type
           /\ [name |-> d.name, type |-> d.type] \in VariableOf
BY DEF Declare, Declarator, Item, VariableOf

LEMMA TellDeclare ==
    ASSUME NEW text, NEW sc, Told(text, sc), Len(sc) > 1, NEW d, d.name \in Names, d.type \in Types
    PROVE  Told(text \o Declare(d), With(sc, [name |-> d.name, type |-> d.type]))
<1> DEFINE e == Declarator(d)  v == [name |-> d.name, type |-> d.type]
           at == CReading(text)[Len(text)]  u == text \o Declare(d)
<1>1. /\ Declare(d) = <<e>> /\ e \in Item /\ e.item = "declare" /\ <<e>> \in Seq(Item) /\ Level(<<e>>)
      /\ v \in VariableOf /\ v.name = e.name /\ v.type = e.type
  BY DeclareIs DEF Level
<1>2. /\ text \in Seq(Item) /\ sc \in Seq(Seq(VariableOf)) /\ at \in Seq(Seq(Item))
      /\ Mirrors(sc, at) /\ AllRight(text) /\ Balanced(text, Len(sc))
  BY DEF Told
<1> HIDE DEF e, at, v
<1>3. u \in Seq(Item) /\ CReading(u)[Len(u)] = CRead(at, e)
  BY <1>1, <1>2, ReadingOne DEF at
<1>4. CRead(at, e) = With(at, e)
  BY <1>1 DEF CRead, With
<1>5. AllRight(u)
  BY <1>1, <1>2, NamelessOne
<1>6. Balanced(u, Len(sc))
  BY <1>1, <1>2, BalancedLevel
<1> HIDE DEF u
<1>7. at # <<>> /\ sc # <<>> /\ Mirrors(With(sc, v), With(at, e))
  BY <1>1, <1>2, MirrorsDeclare
<1>8. With(sc, v) \in Seq(Seq(VariableOf)) /\ Len(With(sc, v)) = Len(sc)
  BY <1>1, <1>2, <1>7, WithIs
<1>9. With(at, e) \in Seq(Seq(Item))
  BY <1>1, <1>2, <1>7, WithIs
<1>10. Told(u, With(sc, v))
  BY <1>3, <1>4, <1>5, <1>6, <1>7, <1>8, <1>9 DEF Told
<1> QED BY <1>10 DEF u, v

-------------------------------------------------------------------------------
(* The names of an expression, written by the scopes sc.                   *)
Written(sc, e) ==
    [k \in DOMAIN e |->
        IF LookUp(sc, e[k]) = None /\ e[k] \in Enumerators THEN [item |-> "number", name |-> e[k]]
        ELSE [item |-> "name", name |-> e[k], type |-> LookUp(sc, e[k])]]

LEMMA WrittenIs ==
    ASSUME NEW sc \in Seq(Seq(VariableOf)), NEW e \in Used
    PROVE  /\ Written(sc, e) \in Seq(Item) /\ Len(Written(sc, e)) = Len(e) /\ Len(e) \in Nat
           /\ \A k \in 1..Len(e) :
                /\ Written(sc, e)[k].item \in {"name", "number"} /\ Written(sc, e)[k].name = e[k]
                /\ Written(sc, e)[k].item = "name" => Written(sc, e)[k].type = LookUp(sc, e[k])
                /\ Written(sc, e)[k].item = "number" => LookUp(sc, e[k]) = None
<1> DEFINE w == Written(sc, e)
<1>1. Len(e) \in Nat /\ DOMAIN e = 1..Len(e) /\ \A k \in 1..Len(e) : e[k] \in Names \cup Enumerators
  BY DEF Used
<1>2. /\ DOMAIN w = 1..Len(e) /\ w = [k \in 1..Len(e) |-> w[k]]
      /\ \A k \in 1..Len(e) : w[k] =
             IF LookUp(sc, e[k]) = None /\ e[k] \in Enumerators THEN [item |-> "number", name |-> e[k]]
             ELSE [item |-> "name", name |-> e[k], type |-> LookUp(sc, e[k])]
  BY <1>1 DEF Written
<1> HIDE DEF w
<1>3. ASSUME NEW k \in 1..Len(e)
      PROVE  /\ w[k] \in Item /\ w[k].item \in {"name", "number"} /\ w[k].name = e[k]
             /\ w[k].item = "name" => w[k].type = LookUp(sc, e[k])
             /\ w[k].item = "number" => LookUp(sc, e[k]) = None
  <2>1. e[k] \in Names \cup Enumerators
    BY <1>1
  <2>2. LookUp(sc, e[k]) \in Types \cup {None}
    BY LookUpType DEF VariableOf
  <2>3. CASE LookUp(sc, e[k]) = None /\ e[k] \in Enumerators
    <3>1. w[k] = [item |-> "number", name |-> e[k]]
      BY <1>2, <2>3
    <3> QED BY <2>3, <3>1 DEF Item
  <2>4. CASE ~(LookUp(sc, e[k]) = None /\ e[k] \in Enumerators)
    <3>1. w[k] = [item |-> "name", name |-> e[k], type |-> LookUp(sc, e[k])]
      BY <1>2, <2>4
    <3> QED BY <2>1, <2>2, <3>1 DEF Item
  <2> QED BY <2>3, <2>4
<1>4. w \in [1..Len(e) -> Item]
  BY <1>2, <1>3
<1>5. w \in Seq(Item) /\ Len(w) = Len(e)
  BY <1>1, <1>4
<1> QED BY <1>1, <1>3, <1>5 DEF w

(***************************************************************************)
(* An expression written by the scopes sc where C has those of on: they    *)
(* may differ in a variable whose declarator is the item before it.        *)
(***************************************************************************)
Declares(text, x) == text # <<>> /\ text[Len(text)].item = "declare" /\ text[Len(text)].name = x

ReadsAlike(sc, on, text) == \A x : LookUp(sc, x) = LookUp(on, x) \/ Declares(text, x)

LEMMA TellExpr ==
    ASSUME NEW text, NEW on, Told(text, on), NEW sc \in Seq(Seq(VariableOf)), ReadsAlike(sc, on, text),
           NEW e \in Used
    PROVE  Told(text \o Written(sc, e), on)
<1> DEFINE at == CReading(text)[Len(text)]  w == Written(sc, e)  u == text \o w
<1>1. /\ text \in Seq(Item) /\ on \in Seq(Seq(VariableOf)) /\ at \in Seq(Seq(Item))
      /\ Mirrors(on, at) /\ AllRight(text) /\ Balanced(text, Len(on))
  BY DEF Told
<1>2. /\ w \in Seq(Item) /\ Len(w) = Len(e) /\ Len(e) \in Nat
      /\ \A k \in 1..Len(w) :
           /\ w[k].item \in {"name", "number"} /\ w[k].name = e[k]
           /\ w[k].item = "name" => w[k].type = LookUp(sc, e[k])
           /\ w[k].item = "number" => LookUp(sc, e[k]) = None
  BY WrittenIs
<1> HIDE DEF w
<1>3. Quiet(w) /\ Level(w)
  BY <1>2 DEF Quiet, Level
<1>4. \A k \in 0..Len(w) : CReading(u)[Len(text) + k] = at
  BY <1>1, <1>2, <1>3, ReadingQuiet
<1>5. /\ u \in Seq(Item) /\ Len(u) = Len(text) + Len(w) /\ Len(text) \in Nat
      /\ \A k \in 1..Len(text) : u[k] = text[k]
      /\ \A k \in 1..Len(w) : u[Len(text) + k] = w[k]
  <2>1. text \in Seq(Item) /\ w \in Seq(Item)
    BY <1>1, <1>2
  <2> QED BY <2>1, Joined
<1>6. Balanced(u, Len(on))
  BY <1>1, <1>2, <1>3, BalancedLevel
<1>7. \A x : LookUp(on, x) = LookUp(at, x)
  BY <1>1, MirrorsLookUp
<1> HIDE DEF u, at
<1>8. ASSUME NEW k \in 1..Len(w) PROVE Right(u, Len(text) + k)
  <2>1. u[Len(text) + k] = w[k] /\ CReading(u)[Len(text) + k] = at
    BY <1>4, <1>5
  <2>2. /\ w[k].name = e[k]
        /\ w[k].item = "name" => w[k].type = LookUp(sc, e[k])
        /\ w[k].item = "number" => LookUp(sc, e[k]) = None
    BY <1>2
  <2>3. CASE LookUp(sc, e[k]) = LookUp(on, e[k])
    <3>1. LookUp(sc, e[k]) = LookUp(at, e[k])
      BY <1>7, <2>3
    <3> DEFINE i == u[Len(text) + k]
    <3>2. i.item = "name" => i.type = LookUp(CReading(u)[Len(text) + k], i.name)
      BY <2>1, <2>2, <3>1
    <3>3. i.item = "number" => LookUp(CReading(u)[Len(text) + k], i.name) = None
      BY <2>1, <2>2, <3>1
    <3> QED BY <3>2, <3>3, Zenon DEF Right
  <2>4. CASE Declares(text, e[k])
    <3>1. Len(text) \in 1..(Len(text) + k - 1) /\ Len(text) \in 1..Len(text)
      BY <1>1, <1>5, <2>4 DEF Declares
    <3>2. u[Len(text)].item = "declare" /\ u[Len(text)].name = u[Len(text) + k].name
      <4>1. u[Len(text)] = text[Len(text)]
        BY <1>5, <3>1
      <4>2. u[Len(text) + k].name = e[k]
        BY <2>1, <2>2
      <4> QED BY <2>4, <4>1, <4>2 DEF Declares
    <3>3. \A i \in Len(text)..(Len(text) + k) : u[i].item \notin {"semi", "open"}
      <4> TAKE i \in Len(text)..(Len(text) + k)
      <4>1. CASE i = Len(text)
        BY <3>2, <4>1
      <4>2. CASE i # Len(text)
        <5>1. i - Len(text) \in 1..Len(w) /\ Len(text) + (i - Len(text)) = i
          BY <1>2, <1>5, <4>2
        <5> QED BY <1>2, <1>5, <5>1
      <4> QED BY <4>1, <4>2
    <3>4. Own(u, Len(text) + k)
      BY <3>1, <3>2, <3>3 DEF Own
    <3> QED BY <3>4 DEF Right
  <2> QED BY <2>3, <2>4 DEF ReadsAlike
<1>9. AllRight(u)
  BY <1>1, <1>2, <1>8, AllRightJoined DEF u
<1>10. CReading(u)[Len(u)] = at
  BY <1>2, <1>4, <1>5
<1>11. Told(u, on)
  BY <1>1, <1>5, <1>6, <1>9, <1>10 DEF Told
<1> QED BY <1>11 DEF u, w

-------------------------------------------------------------------------------
(* Sequences of one length and the same elements.                          *)
LEMMA SameSequence ==
    ASSUME NEW S, NEW s \in Seq(S), NEW t \in Seq(S), Len(s) = Len(t), \A k \in 1..Len(s) : s[k] = t[k]
    PROVE  s = t
OBVIOUS

LEMMA JoinedOne ==
    ASSUME NEW S, NEW s \in Seq(S), NEW t \in Seq(S), NEW e \in S
    PROVE  s \o Append(t, e) = (s \o t) \o <<e>>
<1>1. /\ Append(t, e) \in Seq(S) /\ Len(Append(t, e)) = Len(t) + 1 /\ Append(t, e)[Len(t) + 1] = e
      /\ \A k \in 1..Len(t) : Append(t, e)[k] = t[k]
      /\ <<e>> \in Seq(S) /\ Len(<<e>>) = 1 /\ <<e>>[1] = e
      /\ Len(s) \in Nat /\ Len(t) \in Nat
  OBVIOUS
<1> DEFINE a == Append(t, e)  b == s \o t  l == s \o a  r == b \o <<e>>
<1>2. /\ b \in Seq(S) /\ Len(b) = Len(s) + Len(t)
      /\ \A k \in 1..Len(s) : b[k] = s[k]
      /\ \A k \in 1..Len(t) : b[Len(s) + k] = t[k]
  BY Joined
<1> HIDE DEF a, b
<1>3. /\ l \in Seq(S) /\ Len(l) = Len(s) + Len(a)
      /\ \A k \in 1..Len(s) : l[k] = s[k]
      /\ \A k \in 1..Len(a) : l[Len(s) + k] = a[k]
  BY <1>1, Joined DEF a
<1>4. /\ r \in Seq(S) /\ Len(r) = Len(b) + 1
      /\ \A k \in 1..Len(b) : r[k] = b[k]
      /\ r[Len(b) + 1] = e
  BY <1>1, <1>2
<1> HIDE DEF l, r
<1>5. /\ Len(a) = Len(t) + 1 /\ a[Len(t) + 1] = e /\ \A k \in 1..Len(t) : a[k] = t[k]
  BY <1>1 DEF a
<1>6. Len(l) = Len(r)
  BY <1>1, <1>2, <1>3, <1>4, <1>5
<1>7. \A k \in 1..Len(l) : l[k] = r[k]
  <2> TAKE k \in 1..Len(l)
  <2>1. CASE k \in 1..Len(s)
    <3>1. k \in 1..Len(b)
      BY <1>1, <1>2, <2>1
    <3> QED BY <1>2, <1>3, <1>4, <2>1, <3>1
  <2>2. CASE k = Len(s) + (Len(t) + 1)
    <3>1. Len(t) + 1 \in 1..Len(a) /\ k = Len(b) + 1
      BY <1>1, <1>2, <1>5, <2>2
    <3> QED BY <1>3, <1>4, <1>5, <2>2, <3>1
  <2>3. CASE k \notin 1..Len(s) /\ k # Len(s) + (Len(t) + 1)
    <3>1. /\ k - Len(s) \in 1..Len(t) /\ k - Len(s) \in 1..Len(a) /\ k = Len(s) + (k - Len(s))
          /\ k \in 1..Len(b)
      BY <1>1, <1>2, <1>3, <1>5, <2>3
    <3>2. l[k] = t[k - Len(s)]
      BY <1>3, <1>5, <3>1
    <3>3. r[k] = t[k - Len(s)]
      BY <1>2, <1>4, <3>1
    <3> QED BY <3>2, <3>3
  <2> QED BY <2>1, <2>2, <2>3
<1>8. l = r
  BY <1>3, <1>4, <1>6, <1>7, SameSequence
<1> QED BY <1>8 DEF l, r, a, b

LEMMA WithLast ==
    ASSUME NEW S, NEW in \in Seq(Seq(S)), Len(in) > 0, NEW s \in Seq(S), NEW d \in S
    PROVE  Append(in, Append(s, d)) = With(Append(in, s), d) /\ Len(Append(in, s)) > 1
<1> DEFINE t == Append(s, d)  a == Append(in, s)  b == Append(in, t)
<1>1. t \in Seq(S) /\ Len(in) \in Nat
  OBVIOUS
<1> HIDE DEF t
<1>2. /\ a \in Seq(Seq(S)) /\ Len(a) = Len(in) + 1 /\ a[Len(in) + 1] = s /\ \A k \in 1..Len(in) : a[k] = in[k]
      /\ b \in Seq(Seq(S)) /\ Len(b) = Len(in) + 1 /\ b[Len(in) + 1] = t /\ \A k \in 1..Len(in) : b[k] = in[k]
  BY <1>1
<1> HIDE DEF a, b
<1>3. a # <<>> /\ Len(a) > 1
  BY <1>1, <1>2
<1> DEFINE c == With(a, d)
<1>4. /\ c \in Seq(Seq(S)) /\ Len(c) = Len(a) /\ c[Len(a)] = Append(a[Len(a)], d)
      /\ \A k \in 1..Len(a) : k # Len(a) => c[k] = a[k]
  <2>1. a \in Seq(Seq(S)) /\ a # <<>>
    BY <1>2, <1>3
  <2> QED BY <2>1, WithIs
<1> HIDE DEF c
<1>5. c[Len(a)] = t
  BY <1>2, <1>4 DEF t
<1>6. \A k \in 1..Len(b) : b[k] = c[k]
  <2> TAKE k \in 1..Len(b)
  <2>1. CASE k = Len(a)
    BY <1>2, <1>5, <2>1
  <2>2. CASE k # Len(a)
    <3>1. k \in 1..Len(in) /\ k \in 1..Len(a)
      BY <1>1, <1>2, <2>2
    <3> QED BY <1>2, <1>4, <2>2, <3>1
  <2> QED BY <2>1, <2>2
<1>7. b = c
  BY <1>2, <1>4, <1>6, SameSequence
<1> QED BY <1>3, <1>7 DEF a, b, c, t

(* The parameters of a function are declared one by one.                   *)
Declarators(params, n) == [k \in 1..n |-> Declarator(params[k])]
Parameters(params, n) == [k \in 1..n |-> [name |-> params[k].name, type |-> params[k].type]]

LEMMA OneParameterMore ==
    ASSUME NEW params \in Seq(VariableOf), NEW n \in Nat, n < Len(params)
    PROVE  /\ Declarators(params, n) \in Seq(Item) /\ Parameters(params, n) \in Seq(VariableOf)
           /\ params[n + 1].name \in Names /\ params[n + 1].type \in Types
           /\ Declarators(params, n + 1) = Append(Declarators(params, n), Declarator(params[n + 1]))
           /\ Parameters(params, n + 1) =
                Append(Parameters(params, n), [name |-> params[n + 1].name, type |-> params[n + 1].type])
<1>1. \A k \in 1..(n + 1) : params[k] \in VariableOf
  OBVIOUS
<1>2. \A k \in 1..(n + 1) : params[k].name \in Names /\ params[k].type \in Types
  BY <1>1 DEF VariableOf
<1> DEFINE i(k) == Declarator(params[k])  v(k) == [name |-> params[k].name, type |-> params[k].type]
<1>3. \A k \in 1..(n + 1) : i(k) \in Item /\ v(k) \in VariableOf
  BY <1>2, DeclareIs
<1>4. n + 1 \in 1..(n + 1) /\ \A k \in 1..n : k \in 1..(n + 1)
  OBVIOUS
<1>5. /\ Declarators(params, n) = [k \in 1..n |-> i(k)] /\ Declarators(params, n + 1) = [k \in 1..(n + 1) |-> i(k)]
      /\ Parameters(params, n) = [k \in 1..n |-> v(k)] /\ Parameters(params, n + 1) = [k \in 1..(n + 1) |-> v(k)]
  BY DEF Declarators, Parameters
<1>6. i(n + 1) \in Item /\ v(n + 1) \in VariableOf
  BY <1>3, <1>4
<1> HIDE DEF i, v
<1>7. [k \in 1..n |-> i(k)] \in Seq(Item) /\ [k \in 1..n |-> v(k)] \in Seq(VariableOf)
  BY <1>3, <1>4
<1>8. [k \in 1..(n + 1) |-> i(k)] = Append([k \in 1..n |-> i(k)], i(n + 1))
  BY <1>3, <1>7
<1>9. [k \in 1..(n + 1) |-> v(k)] = Append([k \in 1..n |-> v(k)], v(n + 1))
  BY <1>3, <1>7
<1> QED BY <1>2, <1>4, <1>5, <1>7, <1>8, <1>9 DEF i, v

LEMMA TellParameters ==
    ASSUME NEW text, NEW sc \in Seq(Seq(VariableOf)), Len(sc) > 0, Told(text, Append(sc, <<>>)),
           NEW params \in Seq(VariableOf)
    PROVE  Told(text \o Declarators(params, Len(params)), Append(sc, Parameters(params, Len(params))))
<1> DEFINE T == {n \in Nat : n <= Len(params) =>
                    Told(text \o Declarators(params, n), Append(sc, Parameters(params, n)))}
<1>1. text \in Seq(Item)
  BY DEF Told
<1>2. 0 \in T
  <2>1. Declarators(params, 0) = <<>> /\ Parameters(params, 0) = <<>>
    BY DEF Declarators, Parameters
  <2>2. text \o <<>> = text
    BY <1>1
  <2>3. Told(text \o Declarators(params, 0), Append(sc, Parameters(params, 0)))
    BY <2>1, <2>2, Zenon
  <2> QED BY <2>3
<1>3. ASSUME NEW n \in T PROVE n + 1 \in T
  <2>1. CASE n + 1 <= Len(params)
    <3> DEFINE d == params[n + 1]  v == [name |-> params[n + 1].name, type |-> params[n + 1].type]
               ds == Declarators(params, n)  vs == Parameters(params, n)
    <3>0. n \in Nat /\ n < Len(params) /\ n + 1 \in Nat /\ Len(params) \in Nat
      BY <2>1
    <3>1. Told(text \o ds, Append(sc, vs))
      BY <3>0
    <3>2. /\ ds \in Seq(Item) /\ vs \in Seq(VariableOf) /\ d.name \in Names /\ d.type \in Types
          /\ Declarators(params, n + 1) = Append(ds, Declarator(d)) /\ Parameters(params, n + 1) = Append(vs, v)
      BY <3>0, OneParameterMore
    <3>3. Declarator(d) \in Item /\ v \in VariableOf /\ Declare(d) = <<Declarator(d)>>
      BY <3>2, DeclareIs
    <3> HIDE DEF d, ds, vs
    <3>4. text \o Declarators(params, n + 1) = (text \o ds) \o Declare(d)
      <4>1. text \o Append(ds, Declarator(d)) = (text \o ds) \o <<Declarator(d)>>
        <5> DEFINE item == Declarator(d)
        <5>1. text \in Seq(Item) /\ ds \in Seq(Item) /\ item \in Item
          BY <1>1, <3>2, <3>3
        <5> HIDE DEF item
        <5>2. text \o Append(ds, item) = (text \o ds) \o <<item>>
          BY <5>1, JoinedOne
        <5> QED BY <5>2 DEF item
      <4> QED BY <3>2, <3>3, <4>1, Zenon
    <3>5. Append(sc, Append(vs, v)) = With(Append(sc, vs), v) /\ Len(Append(sc, vs)) > 1
      <4> HIDE DEF v
      <4> QED BY <3>2, <3>3, WithLast
    <3>6. Told((text \o ds) \o Declare(d), With(Append(sc, vs), v))
      <4>1. v = [name |-> d.name, type |-> d.type]
        BY DEF d
      <4> HIDE DEF v
      <4> QED BY <3>1, <3>2, <3>5, <4>1, TellDeclare
    <3>7. Told(text \o Declarators(params, n + 1), Append(sc, Parameters(params, n + 1)))
      BY <3>2, <3>4, <3>5, <3>6, Zenon
    <3> QED BY <3>0, <3>7
  <2>2. CASE ~(n + 1 <= Len(params))
    BY <2>2
  <2> QED BY <2>1, <2>2
<1>4. T \subseteq Nat /\ Len(params) \in Nat
  OBVIOUS
<1>5. \A n \in T : n <= Len(params) => Told(text \o Declarators(params, n), Append(sc, Parameters(params, n)))
  OBVIOUS
<1> HIDE DEF T
<1>6. T = Nat
  BY <1>2, <1>3, <1>4, Climb
<1> QED BY <1>4, <1>5, <1>6

-------------------------------------------------------------------------------
(***************************************************************************)
(* The stack of calls.  A list of statements and the end of a for have a   *)
(* scope each; the calls that wait for them have none.                     *)
(***************************************************************************)
Tasks ==
    [do : {"statements"}, list : List]
        \cup [do : {"else"}, statement : {s \in Nodes : s.kind = "if"}, chained : BOOLEAN]
        \cup [do : {"header"}, cond : Used, step : Used, body : List]
        \cup [do : {"endfor"}]

Owning(task) == task.do \in {"statements", "endfor"}
Owners(w)    == {i \in DOMAIN w : Owning(w[i])}
Depth(w)     == Cardinality(Owners(w))

Walking ==
    /\ program \in Programs
    /\ function \in 1..(Len(program) + 1)
    /\ Running => function \in 1..Len(program)
    /\ work \in Seq(Tasks)
    /\ Len(scopes) = 1 + Depth(work)

IInv == Walking /\ Told(out, scopes)

LEMMA DepthIs ==
    ASSUME NEW w \in Seq(Tasks)
    PROVE  IsFiniteSet(Owners(w)) /\ Depth(w) \in Nat
<1>1. Len(w) \in Nat /\ Owners(w) \subseteq 1..Len(w)
  BY DEF Owners
<1>2. IsFiniteSet(Owners(w))
  <2>1. IsFiniteSet(1..Len(w))
    BY <1>1, FS_Interval
  <2> QED BY <1>1, <2>1, FS_Subset
<1> QED BY <1>2, FS_CardinalityType DEF Depth

LEMMA DepthEmpty == Depth(<<>>) = 0
<1>1. Owners(<<>>) = {}
  BY DEF Owners
<1> QED BY <1>1, FS_EmptySet DEF Depth

LEMMA DepthMore ==
    ASSUME NEW w \in Seq(Tasks), NEW t \in Tasks
    PROVE  /\ Append(w, t) \in Seq(Tasks) /\ Append(w, t) # <<>>
           /\ Depth(w) \in Nat
           /\ Owning(t) => Depth(Append(w, t)) = Depth(w) + 1
           /\ ~Owning(t) => Depth(Append(w, t)) = Depth(w)
<1> DEFINE u == Append(w, t)
<1>1. /\ u \in Seq(Tasks) /\ u # <<>> /\ Len(u) = Len(w) + 1 /\ Len(w) \in Nat /\ u[Len(w) + 1] = t
      /\ \A i \in 1..Len(w) : u[i] = w[i]
  OBVIOUS
<1> HIDE DEF u
<1>2. Owning(t) => Owners(u) = Owners(w) \cup {Len(w) + 1}
  BY <1>1 DEF Owners
<1>3. ~Owning(t) => Owners(u) = Owners(w)
  BY <1>1 DEF Owners
<1>4. Len(w) + 1 \notin Owners(w)
  BY <1>1 DEF Owners
<1>5. Owning(t) => Depth(u) = Depth(w) + 1
  BY <1>2, <1>4, DepthIs, FS_AddElement DEF Depth
<1>6. ~Owning(t) => Depth(u) = Depth(w)
  BY <1>3 DEF Depth
<1> QED BY <1>1, <1>5, <1>6, DepthIs DEF u

LEMMA FrontAndLast ==
    ASSUME NEW S, NEW w \in Seq(S), w # <<>>
    PROVE  Front(w) \in Seq(S) /\ Last(w) \in S /\ w = Append(Front(w), Last(w))
<1>1. /\ Front(w) \in Seq(S) /\ Len(Front(w)) = Len(w) - 1 /\ Len(w) \in Nat \ {0}
      /\ \A k \in 1..(Len(w) - 1) : Front(w)[k] = w[k]
  BY FrontIs
<1>2. Last(w) = w[Len(w)] /\ w[Len(w)] \in S
  BY <1>1 DEF Last
<1> DEFINE f == Front(w)  l == Last(w)  u == Append(f, l)
<1>3. f \in Seq(S) /\ Len(f) + 1 = Len(w) /\ l = w[Len(w)] /\ l \in S /\ \A k \in 1..Len(f) : f[k] = w[k]
  BY <1>1, <1>2
<1> HIDE DEF f, l
<1>4. /\ u \in Seq(S) /\ Len(u) = Len(f) + 1 /\ u[Len(f) + 1] = l /\ \A k \in 1..Len(f) : u[k] = f[k]
  BY <1>3
<1> HIDE DEF u
<1>5. Len(u) = Len(w) /\ \A k \in 1..Len(u) : u[k] = w[k]
  <2>1. \A k \in 1..Len(u) : k \in 1..Len(f) \/ k = Len(w)
    BY <1>1, <1>3, <1>4
  <2> QED BY <1>3, <1>4, <2>1
<1>6. u = w
  BY <1>4, <1>5, SameSequence
<1> QED BY <1>3, <1>6 DEF u, f, l

(* What the innermost call is, and the depth of the others.                *)
LEMMA Innermost ==
    ASSUME Walking, Told(out, scopes), Running
    PROVE  /\ Task \in Tasks /\ Pending \in Seq(Tasks) /\ Depth(Pending) \in Nat
           /\ function \in 1..Len(program)
           /\ scopes \in Seq(Seq(VariableOf)) /\ Len(scopes) \in Nat /\ Len(scopes) > 0
           /\ Owning(Task) => Len(scopes) = Depth(Pending) + 2
           /\ ~Owning(Task) => Len(scopes) = Depth(Pending) + 1
<1>1. work \in Seq(Tasks) /\ work # <<>> /\ function \in 1..Len(program) /\ Len(scopes) = 1 + Depth(work)
  BY DEF Walking, Running
<1>2. Pending \in Seq(Tasks) /\ Task \in Tasks /\ work = Append(Pending, Task)
  BY <1>1, FrontAndLast DEF Pending, Task
<1>3. /\ Depth(Pending) \in Nat
      /\ Owning(Task) => Depth(work) = Depth(Pending) + 1
      /\ ~Owning(Task) => Depth(work) = Depth(Pending)
  BY <1>2, DepthMore
<1>4. scopes \in Seq(Seq(VariableOf))
  BY DEF Told
<1> QED BY <1>1, <1>2, <1>3, <1>4

LEMMA StatementFacts ==
    ASSUME Walking, Told(out, scopes), NEW kind, Statement(kind)
    PROVE  /\ Running /\ Current \in Nodes /\ Current.kind = kind /\ Node(Current)
           /\ Moved \in Seq(Tasks) /\ Moved # <<>> /\ Len(scopes) = 1 + Depth(Moved) /\ Len(scopes) > 1
<1>1. Running /\ Task.do = "statements" /\ Task.list # <<>> /\ Head(Task.list).kind = kind
  BY DEF Statement, Doing
<1>2. /\ Task \in Tasks /\ Pending \in Seq(Tasks) /\ Depth(Pending) \in Nat
      /\ Owning(Task) => Len(scopes) = Depth(Pending) + 2
  BY <1>1, Innermost
<1>3. Task.list \in Seq(Nodes)
  BY <1>1, <1>2 DEF Tasks, List
<1>4. Owning(Task)
  BY <1>1 DEF Owning
<1>5. Current \in Nodes /\ Tail(Task.list) \in Seq(Nodes)
  BY <1>1, <1>3 DEF Current
<1>6. Statements(Tail(Task.list)) \in Tasks /\ Owning(Statements(Tail(Task.list)))
  BY <1>5 DEF Statements, Tasks, List, Owning
<1>7. Moved \in Seq(Tasks) /\ Moved # <<>> /\ Depth(Moved) = Depth(Pending) + 1
  BY <1>2, <1>6, DepthMore DEF Moved
<1>8. Current.kind = kind
  BY <1>1 DEF Current
<1> QED BY <1>1, <1>2, <1>4, <1>5, <1>7, <1>8, NodesAssumption

-------------------------------------------------------------------------------
(* What a statement is made of, by its kind.                               *)
LEMMA NodeParts ==
    ASSUME NEW s \in Nodes
    PROVE  /\ s.kind = "decl" => s.name \in Names /\ s.type \in Types /\ s.init \in Used
           /\ s.kind = "plain" => s.expr \in Used
           /\ s.kind = "if" => s.cond \in Used /\ s.then \in List /\ s.otherwise \in List
           /\ s.kind = "loop" => s.cond \in Used /\ s.body \in List
           /\ s.kind = "for" => /\ s.init.name \in Names /\ s.init.type \in Types /\ s.init.init \in Used
                               /\ s.cond \in Used /\ s.step \in Used /\ s.body \in List
<1>1. Node(s)
  BY NodesAssumption
<1>2. CASE s.kind = "decl"
  BY <1>1, <1>2 DEF Node, Declaration
<1>3. CASE s.kind = "plain"
  BY <1>1, <1>3 DEF Node
<1>4. CASE s.kind = "if"
  BY <1>1, <1>4 DEF Node
<1>5. CASE s.kind = "loop"
  BY <1>1, <1>5 DEF Node
<1>6. CASE s.kind = "for"
  BY <1>1, <1>6 DEF Node, Declaration
<1> QED BY <1>2, <1>3, <1>4, <1>5, <1>6

(* The generator's expressions are those written by its scopes.            *)
LEMMA ExprIsWritten ==
    ASSUME NEW e
    PROVE  Expr(e) = Written(scopes, e)
BY DEF Expr, Ident, scope_lookup, Written

LEMMA TellUsed ==
    ASSUME NEW text, Told(text, scopes), NEW e \in Used
    PROVE  Told(text \o Expr(e), scopes)
<1>1. ReadsAlike(scopes, scopes, text) /\ scopes \in Seq(Seq(VariableOf))
  BY DEF ReadsAlike, Told
<1>2. Told(text \o Written(scopes, e), scopes)
  BY <1>1, TellExpr
<1> QED BY <1>2, ExprIsWritten

(* C knows a variable from its declarator on, the generator later.         *)
LEMMA AlikeBehind ==
    ASSUME NEW text \in Seq(Item), NEW sc \in Seq(Seq(VariableOf)), NEW d, d.name \in Names, d.type \in Types,
           NEW on, \A x : x # d.name => LookUp(on, x) = LookUp(sc, x)
    PROVE  ReadsAlike(sc, on, text \o Declare(d))
<1> DEFINE u == text \o Declare(d)
<1>1. /\ Declare(d) = <<Declarator(d)>> /\ Declarator(d) \in Item
      /\ Declarator(d).item = "declare" /\ Declarator(d).name = d.name
  BY DeclareIs
<1>2. u # <<>> /\ u[Len(u)] = Declarator(d)
  BY <1>1
<1> HIDE DEF u
<1>3. Declares(u, d.name)
  BY <1>1, <1>2 DEF Declares
<1>4. ReadsAlike(sc, on, u)
  BY <1>3 DEF ReadsAlike
<1> QED BY <1>4 DEF u

(* A declaration with its initializer.                                     *)
LEMMA TellDeclaration ==
    ASSUME NEW text, Told(text, scopes), Len(scopes) > 1, NEW d, d.name \in Names, d.type \in Types, d.init \in Used
    PROVE  Told(text \o Declare(d) \o Expr(d.init) \o Mark("semi"), Added(d))
<1> DEFINE v == [name |-> d.name, type |-> d.type]  on == With(scopes, v)
<1>1. Told(text \o Declare(d), on)
  BY TellDeclare
<1>2. text \in Seq(Item) /\ scopes \in Seq(Seq(VariableOf)) /\ scopes # <<>> /\ v \in VariableOf /\ v.name = d.name
  <2>1. text \in Seq(Item) /\ scopes \in Seq(Seq(VariableOf))
    BY DEF Told
  <2>2. scopes # <<>>
    BY <2>1
  <2> QED BY <2>1, <2>2, DeclareIs
<1>3. Added(d) = on
  BY DEF Added, With
<1> HIDE DEF v
<1>4. \A x : x # d.name => LookUp(on, x) = LookUp(scopes, x)
  BY <1>2, LookUpOthers
<1> HIDE DEF on
<1>5. ReadsAlike(scopes, on, text \o Declare(d))
  BY <1>2, <1>4, AlikeBehind
<1>6. Told((text \o Declare(d)) \o Written(scopes, d.init), on)
  BY <1>1, <1>2, <1>5, TellExpr
<1>7. Told((text \o Declare(d)) \o Expr(d.init), on)
  BY <1>6, ExprIsWritten
<1> QED BY <1>3, <1>7, TellSemi

(* The header of a for, with a scope of its own.                           *)
LEMMA TellHeader ==
    ASSUME NEW text, Told(text, scopes), Len(scopes) > 1, NEW d, d.name \in Names, d.type \in Types, d.init \in Used
    PROVE  Told(text \o Mark("for") \o Declare(d) \o Expr(d.init) \o Mark("semi"), Append(scopes, Variables(<<d>>)))
<1> DEFINE v == [name |-> d.name, type |-> d.type]  on == Append(scopes, <<v>>)
<1>1. Told(text \o Mark("for"), Append(scopes, <<>>))
  BY TellOpen
<1>2. scopes \in Seq(Seq(VariableOf)) /\ v \in VariableOf /\ v.name = d.name
  BY DeclareIs DEF Told
<1>3. Variables(<<d>>) = <<v>>
  <2>1. DOMAIN <<d>> = 1..1 /\ <<d>>[1] = d
    OBVIOUS
  <2>2. Variables(<<d>>) = [k \in 1..1 |-> [name |-> <<d>>[k].name, type |-> <<d>>[k].type]]
    BY <2>1 DEF Variables
  <2> QED BY <2>1, <2>2
<1> HIDE DEF v
<1>4. on = With(Append(scopes, <<>>), v) /\ Len(Append(scopes, <<>>)) > 1
  <2>1. <<>> \in Seq(VariableOf) /\ Append(<<>>, v) = <<v>>
    BY <1>2
  <2>2. Append(scopes, Append(<<>>, v)) = With(Append(scopes, <<>>), v) /\ Len(Append(scopes, <<>>)) > 1
    <3>1. Len(scopes) \in Nat /\ Len(scopes) > 0
      BY <1>2
    <3> QED BY <1>2, <2>1, <3>1, WithLast
  <2> QED BY <2>1, <2>2
<1>5. Told((text \o Mark("for")) \o Declare(d), on)
  BY <1>1, <1>4, TellDeclare DEF v
<1>6. \A x : x # d.name => LookUp(on, x) = LookUp(scopes, x)
  <2> TAKE x
  <2>1. <<v>> \in Seq(VariableOf) /\ (x # d.name => Places(<<v>>, x) = {})
    BY <1>2 DEF Places
  <2>2. x # d.name => LatestIn(<<v>>, x) = None
    BY <2>1, LatestInIs
  <2> QED BY <1>2, <2>1, <2>2, LookUpBeyond
<1> HIDE DEF on
<1>7. text \o Mark("for") \in Seq(Item)
  BY <1>1 DEF Told
<1>8. ReadsAlike(scopes, on, (text \o Mark("for")) \o Declare(d))
  BY <1>2, <1>6, <1>7, AlikeBehind
<1>9. Told(((text \o Mark("for")) \o Declare(d)) \o Written(scopes, d.init), on)
  BY <1>2, <1>5, <1>8, TellExpr
<1>10. Told(((text \o Mark("for")) \o Declare(d)) \o Expr(d.init), on)
  BY <1>9, ExprIsWritten
<1>11. Told((((text \o Mark("for")) \o Declare(d)) \o Expr(d.init)) \o Mark("semi"), on)
  BY <1>10, TellSemi
<1> QED BY <1>3, <1>11 DEF on

-------------------------------------------------------------------------------
(* Each step of the walk keeps the inductive invariant.                    *)
LEMMA WalkingKept ==
    ASSUME Walking, Running, UNCHANGED <<program, function>>,
           work' \in Seq(Tasks), Len(scopes') = 1 + Depth(work')
    PROVE  Walking'
BY DEF Walking, Running

LEMMA StatementsIs ==
    ASSUME NEW list \in List
    PROVE  Statements(list) \in Tasks /\ Owning(Statements(list))
BY DEF Statements, Tasks, Owning

(* gen_block's opening: one scope and one list of statements more.         *)
LEMMA OpensBlock ==
    ASSUME NEW sc \in Seq(Seq(VariableOf)), NEW callers \in Seq(Tasks), Len(sc) = 1 + Depth(callers), NEW list \in List
    PROVE  /\ Append(callers, Statements(list)) \in Seq(Tasks)
           /\ Len(Append(sc, <<>>)) = 1 + Depth(Append(callers, Statements(list)))
<1>1. Statements(list) \in Tasks /\ Owning(Statements(list))
  BY StatementsIs
<1>2. /\ Append(callers, Statements(list)) \in Seq(Tasks) /\ Depth(callers) \in Nat
      /\ Depth(Append(callers, Statements(list))) = Depth(callers) + 1
  BY <1>1, DepthMore
<1>3. <<>> \in Seq(VariableOf) /\ Len(Append(sc, <<>>)) = Len(sc) + 1
  OBVIOUS
<1> QED BY <1>2, <1>3

LEMMA OneLonger ==
    ASSUME NEW S, NEW s \in Seq(S), NEW e \in S
    PROVE  Len(Append(s, e)) = Len(s) + 1
OBVIOUS

LEMMA BeginFunctionKeeps ==
    ASSUME IInv, BeginFunction
    PROVE  IInv'
<1> DEFINE params == program[function].params  body == program[function].body
           open == out \o Mark("open")
<1>1. /\ program \in Seq([params : Seq(VariableOf), body : List]) /\ function \in 1..Len(program)
      /\ work = <<>> /\ Len(scopes) = 1 + Depth(work) /\ Told(out, scopes)
  <2>1. program \in Programs /\ function \in 1..(Len(program) + 1) /\ Len(scopes) = 1 + Depth(work) /\ Told(out, scopes)
    BY DEF IInv, Walking
  <2>2. work = <<>> /\ function <= Len(program)
    BY DEF BeginFunction, Running
  <2>3. program \in Seq([params : Seq(VariableOf), body : List])
    BY <2>1, ProgramsAssumption, Zenon DEF VariableOf
  <2>4. Len(program) \in Nat
    BY <2>3
  <2> QED BY <2>1, <2>2, <2>3, <2>4
<1>2. params \in Seq(VariableOf) /\ body \in List /\ Len(params) \in Nat /\ DOMAIN params = 1..Len(params)
  <2> DEFINE P == [params : Seq(VariableOf), body : List]
  <2>1. program[function] \in P
    <3>1. program \in Seq(P)
      BY <1>1
    <3> HIDE DEF P
    <3> QED BY <1>1, <3>1
  <2>2. params \in Seq(VariableOf) /\ body \in List
    BY <2>1
  <2> HIDE DEF params
  <2> QED BY <2>2
<1>3. /\ out' = open \o [k \in DOMAIN params |-> Declarator(params[k])] \o Mark("semi")
      /\ scopes' = Append(scopes, Variables(params))
      /\ work' = <<Statements(body)>> /\ program' = program /\ function' = function
  BY DEF BeginFunction
<1> HIDE DEF params, body
<1>4. Variables(params) = Parameters(params, Len(params))
  BY <1>2 DEF Variables, Parameters
<1>5. out' = (open \o Declarators(params, Len(params))) \o Mark("semi")
  BY <1>2, <1>3 DEF Declarators
<1>6. scopes \in Seq(Seq(VariableOf)) /\ Len(scopes) = 1
  BY <1>1, DepthEmpty DEF Told
<1>7. Told(open, Append(scopes, <<>>))
  BY <1>1, TellOpen
<1>8. Told(out', scopes')
  <2>1. Told(open \o Declarators(params, Len(params)), Append(scopes, Parameters(params, Len(params))))
    <3> HIDE DEF open
    <3>1. Len(scopes) > 0
      BY <1>6
    <3> QED BY <1>2, <1>6, <1>7, <3>1, TellParameters
  <2>2. Told((open \o Declarators(params, Len(params))) \o Mark("semi"), Append(scopes, Parameters(params, Len(params))))
    BY <2>1, TellSemi
  <2> QED BY <1>3, <1>4, <1>5, <2>2
<1>9. work' \in Seq(Tasks) /\ Depth(work') = 1
  <2>1. Statements(body) \in Tasks /\ Owning(Statements(body)) /\ <<>> \in Seq(Tasks)
    BY <1>2, StatementsIs
  <2>2. Append(<<>>, Statements(body)) = <<Statements(body)>>
    BY <2>1
  <2>3. Depth(Append(<<>>, Statements(body))) = 0 + 1 /\ Append(<<>>, Statements(body)) \in Seq(Tasks)
    BY <2>1, DepthMore, DepthEmpty
  <2> QED BY <1>3, <2>2, <2>3
<1>10. Len(scopes') = 1 + Depth(work')
  <2>1. Parameters(params, Len(params)) \in Seq(VariableOf)
    <3>1. \A k \in 1..Len(params) : [name |-> params[k].name, type |-> params[k].type] \in VariableOf
      <4> TAKE k \in 1..Len(params)
      <4>1. params[k] \in VariableOf
        BY <1>2
      <4> QED BY <4>1 DEF VariableOf
    <3> QED BY <1>2, <3>1 DEF Parameters
  <2>2. Len(Append(scopes, Parameters(params, Len(params)))) = Len(scopes) + 1
    <3> DEFINE added == Parameters(params, Len(params))
    <3>1. added \in Seq(VariableOf)
      BY <2>1
    <3> HIDE DEF added
    <3>2. Len(Append(scopes, added)) = Len(scopes) + 1
      BY <1>6, <3>1, OneLonger
    <3> QED BY <3>2 DEF added
  <2> QED BY <1>3, <1>4, <1>6, <1>9, <2>2
<1>11. Walking'
  <2>1. program \in Programs
    BY DEF IInv, Walking
  <2>2. Len(program) \in Nat
    BY <1>1
  <2> QED BY <1>1, <1>3, <1>9, <1>10, <2>1, <2>2 DEF Walking, Running
<1> QED BY <1>8, <1>11 DEF IInv

LEMMA EndBlockKeeps ==
    ASSUME IInv, EndBlock
    PROVE  IInv'
<1>1. Walking /\ Told(out, scopes) /\ Running /\ Owning(Task)
  BY DEF IInv, EndBlock, Doing, Owning
<1>2. /\ Pending \in Seq(Tasks) /\ Depth(Pending) \in Nat /\ function \in 1..Len(program)
      /\ scopes \in Seq(Seq(VariableOf)) /\ Len(scopes) = Depth(Pending) + 2
  BY <1>1, Innermost
<1>3. /\ out' = out \o Mark("close") /\ scopes' = Front(scopes) /\ work' = Pending /\ program' = program
      /\ function' = IF Pending = <<>> THEN function + 1 ELSE function
  BY DEF EndBlock
<1>4. scopes # <<>> /\ Len(scopes) > 1
  BY <1>2
<1>5. Told(out', scopes')
  BY <1>1, <1>3, <1>4, TellClose
<1>6. Len(scopes') = 1 + Depth(work')
  <2>1. Len(Front(scopes)) = Len(scopes) - 1
    BY <1>2, <1>4, FrontIs
  <2>2. Len(Front(scopes)) = 1 + Depth(Pending)
    BY <1>2, <2>1
  <2> QED BY <1>3, <2>2
<1>7. Walking'
  <2>1. function' \in 1..(Len(program) + 1) /\ (work' # <<>> => function' \in 1..Len(program))
    BY <1>1, <1>2, <1>3 DEF Walking
  <2> QED BY <1>1, <1>2, <1>3, <1>6, <2>1 DEF Walking, Running
<1> QED BY <1>5, <1>7 DEF IInv

LEMMA VarDeclKeeps ==
    ASSUME IInv, VarDecl
    PROVE  IInv'
<1>1. Walking /\ Told(out, scopes) /\ Statement("decl")
  BY DEF IInv, VarDecl
<1>2. /\ Running /\ Current \in Nodes /\ Current.kind = "decl"
      /\ Moved \in Seq(Tasks) /\ Len(scopes) = 1 + Depth(Moved) /\ Len(scopes) > 1
  BY <1>1, StatementFacts
<1>3. Current.name \in Names /\ Current.type \in Types /\ Current.init \in Used
  BY <1>2, NodeParts
<1>4. /\ out' = out \o Declare(Current) \o Expr(Current.init) \o Mark("semi") /\ scopes' = Added(Current)
      /\ work' = Moved /\ program' = program /\ function' = function
  BY DEF VarDecl
<1>5. Told(out', scopes')
  BY <1>1, <1>2, <1>3, <1>4, TellDeclaration
<1>6. Len(scopes') = Len(scopes)
  <2>1. scopes \in Seq(Seq(VariableOf))
    BY <1>1 DEF Told
  <2> QED BY <1>4, <2>1 DEF Added
<1>7. Walking'
  <2>1. work' \in Seq(Tasks) /\ Len(scopes') = 1 + Depth(work') /\ UNCHANGED <<program, function>>
    BY <1>2, <1>4, <1>6
  <2> QED BY <1>1, <1>2, <2>1, WalkingKept
<1> QED BY <1>5, <1>7 DEF IInv

LEMMA PlainKeeps ==
    ASSUME IInv, Plain
    PROVE  IInv'
<1>1. Walking /\ Told(out, scopes) /\ Statement("plain")
  BY DEF IInv, Plain
<1>2. /\ Running /\ Current \in Nodes /\ Current.kind = "plain"
      /\ Moved \in Seq(Tasks) /\ Len(scopes) = 1 + Depth(Moved)
  BY <1>1, StatementFacts
<1>3. Current.expr \in Used
  BY <1>2, NodeParts
<1>4. /\ out' = out \o Expr(Current.expr) \o Mark("semi") /\ scopes' = scopes
      /\ work' = Moved /\ program' = program /\ function' = function
  BY DEF Plain
<1>5. Told(out', scopes')
  <2>1. Told(out \o Expr(Current.expr), scopes)
    BY <1>1, <1>3, TellUsed
  <2>2. Told((out \o Expr(Current.expr)) \o Mark("semi"), scopes)
    BY <2>1, TellSemi
  <2> QED BY <1>4, <2>2
<1>6. Walking'
  <2>1. work' \in Seq(Tasks) /\ Len(scopes') = 1 + Depth(work') /\ UNCHANGED <<program, function>>
    BY <1>2, <1>4
  <2> QED BY <1>1, <1>2, <2>1, WalkingKept
<1> QED BY <1>5, <1>6 DEF IInv

(* Every block is opened alike: the text before its brace told, and as     *)
(* many callers waiting as own a scope.                                    *)
LEMMA BlockKeeps ==
    ASSUME Walking, Running, UNCHANGED <<program, function>>,
           NEW list \in List, NEW text, Told(text, scopes), NEW callers \in Seq(Tasks),
           Len(scopes) = 1 + Depth(callers), Block(list, text, callers)
    PROVE  IInv'
<1>1. /\ out' = text \o Mark("open") /\ scopes' = Append(scopes, <<>>)
      /\ work' = Append(callers, Statements(list))
  BY DEF Block
<1>2. scopes \in Seq(Seq(VariableOf))
  BY DEF Told
<1>3. Told(out', scopes')
  BY <1>1, TellOpen
<1>4. work' \in Seq(Tasks) /\ Len(scopes') = 1 + Depth(work')
  BY <1>1, <1>2, OpensBlock
<1>5. Walking'
  BY <1>4, WalkingKept
<1> QED BY <1>3, <1>5 DEF IInv

(* The call that has the else of an if left to write owns no scope.        *)
LEMMA OtherwiseIs ==
    ASSUME NEW s \in Nodes, s.kind = "if", NEW chained \in BOOLEAN, NEW callers \in Seq(Tasks)
    PROVE  /\ Append(callers, Otherwise(s, chained)) \in Seq(Tasks)
           /\ Depth(Append(callers, Otherwise(s, chained))) = Depth(callers)
<1>1. Otherwise(s, chained) \in Tasks
  BY DEF Otherwise, Tasks
<1>2. ~Owning(Otherwise(s, chained))
  BY DEF Otherwise, Owning
<1> QED BY <1>1, <1>2, DepthMore

LEMMA WhenKeeps ==
    ASSUME IInv, When
    PROVE  IInv'
<1> DEFINE text == out \o Expr(Current.cond)  callers == Append(Moved, Otherwise(Current, FALSE))
<1>1. Walking /\ Told(out, scopes) /\ Statement("if")
  BY DEF IInv, When
<1>2. /\ Running /\ Current \in Nodes /\ Current.kind = "if"
      /\ Moved \in Seq(Tasks) /\ Len(scopes) = 1 + Depth(Moved)
  BY <1>1, StatementFacts
<1>3. Current.cond \in Used /\ Current.then \in List
  BY <1>2, NodeParts
<1>4. Told(text, scopes)
  BY <1>1, <1>3, TellUsed
<1>5. callers \in Seq(Tasks) /\ Len(scopes) = 1 + Depth(callers)
  BY <1>2, OtherwiseIs
<1>6. Block(Current.then, text, callers) /\ UNCHANGED <<program, function>>
  BY DEF When
<1> HIDE DEF text, callers
<1> QED BY <1>1, <1>2, <1>3, <1>4, <1>5, <1>6, BlockKeeps

LEMMA ElseKeeps ==
    ASSUME IInv, Else
    PROVE  IInv'
<1> DEFINE s == Task.statement
<1>1. Walking /\ Told(out, scopes) /\ Running /\ Task.do = "else" /\ UNCHANGED <<program, function>>
  BY DEF IInv, Else, Doing
<1>2. /\ Task \in Tasks /\ Pending \in Seq(Tasks)
      /\ ~Owning(Task) => Len(scopes) = Depth(Pending) + 1
      /\ Depth(Pending) \in Nat
  BY <1>1, Innermost
<1>3. s \in Nodes /\ s.kind = "if" /\ ~Owning(Task)
  BY <1>1, <1>2 DEF Tasks, Owning
<1>4. Len(scopes) = 1 + Depth(Pending)
  BY <1>2, <1>3
<1>5. s.otherwise \in List
  BY <1>3, NodeParts
<1>6. \/ work' = Pending /\ out' = out /\ scopes' = scopes
      \/ /\ Chained(s)
         /\ Block(s.otherwise[1].then, out \o Expr(s.otherwise[1].cond),
                  Append(Pending, Otherwise(s.otherwise[1], TRUE)))
      \/ Block(s.otherwise, out, Pending)
  BY DEF Else
<1> HIDE DEF s
<1>7. CASE work' = Pending /\ out' = out /\ scopes' = scopes
  <2>1. work' \in Seq(Tasks) /\ Len(scopes') = 1 + Depth(work')
    BY <1>2, <1>4, <1>7
  <2>2. Walking'
    BY <1>1, <2>1, WalkingKept
  <2> QED BY <1>1, <1>7, <2>2 DEF IInv
<1>8. CASE /\ Chained(s)
           /\ Block(s.otherwise[1].then, out \o Expr(s.otherwise[1].cond),
                    Append(Pending, Otherwise(s.otherwise[1], TRUE)))
  <2> DEFINE c == s.otherwise[1]  text == out \o Expr(c.cond)  callers == Append(Pending, Otherwise(c, TRUE))
  <2>1. c \in Nodes /\ c.kind = "if"
    BY <1>5, <1>8 DEF Chained, List
  <2>2. Block(c.then, text, callers)
    BY <1>8
  <2> HIDE DEF c
  <2>3. c.cond \in Used /\ c.then \in List
    BY <2>1, NodeParts
  <2>4. Told(text, scopes)
    BY <1>1, <2>3, TellUsed
  <2>5. callers \in Seq(Tasks) /\ Len(scopes) = 1 + Depth(callers)
    BY <1>2, <1>4, <2>1, OtherwiseIs
  <2> HIDE DEF text, callers
  <2> QED BY <1>1, <2>2, <2>3, <2>4, <2>5, BlockKeeps
<1>9. CASE Block(s.otherwise, out, Pending)
  BY <1>1, <1>2, <1>4, <1>5, <1>9, BlockKeeps
<1> QED BY <1>6, <1>7, <1>8, <1>9

LEMMA LoopKeeps ==
    ASSUME IInv, Loop
    PROVE  IInv'
<1> DEFINE text == out \o Expr(Current.cond)
<1>1. Walking /\ Told(out, scopes) /\ Statement("loop")
  BY DEF IInv, Loop
<1>2. /\ Running /\ Current \in Nodes /\ Current.kind = "loop"
      /\ Moved \in Seq(Tasks) /\ Len(scopes) = 1 + Depth(Moved)
  BY <1>1, StatementFacts
<1>3. Current.cond \in Used /\ Current.body \in List
  BY <1>2, NodeParts
<1>4. Told(text, scopes)
  BY <1>1, <1>3, TellUsed
<1>5. Block(Current.body, text, Moved) /\ UNCHANGED <<program, function>>
  BY DEF Loop
<1> HIDE DEF text
<1> QED BY <1>1, <1>2, <1>3, <1>4, <1>5, BlockKeeps

LEMMA WalkKeeps ==
    ASSUME IInv, Walk
    PROVE  IInv'
<1> DEFINE header == [do |-> "header", cond |-> Current.cond, step |-> Current.step, body |-> Current.body]
           d == Current.init
<1>1. Walking /\ Told(out, scopes) /\ Statement("for")
  BY DEF IInv, Walk
<1>2. /\ Running /\ Current \in Nodes /\ Current.kind = "for"
      /\ Moved \in Seq(Tasks) /\ Len(scopes) = 1 + Depth(Moved) /\ Len(scopes) > 1
  BY <1>1, StatementFacts
<1>3. /\ d.name \in Names /\ d.type \in Types /\ d.init \in Used
      /\ Current.cond \in Used /\ Current.step \in Used /\ Current.body \in List
  BY <1>2, NodeParts
<1>4. /\ out' = out \o Mark("for") \o Declare(d) \o Expr(d.init) \o Mark("semi")
      /\ scopes' = Append(scopes, Variables(<<d>>))
      /\ work' = Append(Append(Moved, EndWalk), header) /\ UNCHANGED <<program, function>>
  BY DEF Walk
<1>5. Told(out', scopes')
  BY <1>1, <1>2, <1>3, <1>4, TellHeader
<1>6. header \in Tasks /\ ~Owning(header) /\ EndWalk \in Tasks /\ Owning(EndWalk)
  BY <1>3 DEF Tasks, Owning, EndWalk
<1> HIDE DEF header, d
<1>7. work' \in Seq(Tasks) /\ Depth(work') = Depth(Moved) + 1 /\ Depth(Moved) \in Nat
  <2>1. Append(Moved, EndWalk) \in Seq(Tasks) /\ Depth(Append(Moved, EndWalk)) = Depth(Moved) + 1
    BY <1>2, <1>6, DepthMore
  <2>2. /\ Append(Append(Moved, EndWalk), header) \in Seq(Tasks)
        /\ Depth(Append(Append(Moved, EndWalk), header)) = Depth(Append(Moved, EndWalk))
    BY <1>6, <2>1, DepthMore
  <2> QED BY <1>2, <1>4, <2>1, <2>2, DepthIs
<1>8. Len(scopes') = Len(scopes) + 1
  <2>1. scopes \in Seq(Seq(VariableOf)) /\ <<[name |-> d.name, type |-> d.type]>> \in Seq(VariableOf)
    BY <1>1, <1>3 DEF Told, VariableOf, d
  <2>2. Variables(<<d>>) = <<[name |-> d.name, type |-> d.type]>>
    <3>1. DOMAIN <<d>> = 1..1 /\ <<d>>[1] = d
      OBVIOUS
    <3>2. Variables(<<d>>) = [k \in 1..1 |-> [name |-> <<d>>[k].name, type |-> <<d>>[k].type]]
      BY <3>1 DEF Variables
    <3> QED BY <3>1, <3>2
  <2>3. Len(Append(scopes, <<[name |-> d.name, type |-> d.type]>>)) = Len(scopes) + 1
    BY <2>1
  <2> QED BY <1>4, <2>2, <2>3
<1>9. Walking'
  <2>1. Len(scopes') = 1 + Depth(work')
    BY <1>2, <1>7, <1>8
  <2> QED BY <1>1, <1>2, <1>4, <1>7, <2>1, WalkingKept
<1> QED BY <1>5, <1>9 DEF IInv

LEMMA WalkBodyKeeps ==
    ASSUME IInv, WalkBody
    PROVE  IInv'
<1> DEFINE text == out \o Expr(Task.cond)  semi == text \o Mark("semi")  all == semi \o Expr(Task.step)
<1>1. Walking /\ Told(out, scopes) /\ Running /\ Task.do = "header" /\ UNCHANGED <<program, function>>
  BY DEF IInv, WalkBody, Doing
<1>2. /\ Task \in Tasks /\ Pending \in Seq(Tasks)
      /\ ~Owning(Task) => Len(scopes) = Depth(Pending) + 1
      /\ Depth(Pending) \in Nat
  BY <1>1, Innermost
<1>3. Task.cond \in Used /\ Task.step \in Used /\ Task.body \in List /\ ~Owning(Task)
  BY <1>1, <1>2 DEF Tasks, Owning
<1>4. Len(scopes) = 1 + Depth(Pending)
  BY <1>2, <1>3
<1>5. Told(text, scopes)
  BY <1>1, <1>3, TellUsed
<1>6. Block(Task.body, all, Pending)
  BY DEF WalkBody
<1> HIDE DEF text
<1>7. Told(semi, scopes)
  BY <1>5, TellSemi
<1> HIDE DEF semi
<1>8. Told(all, scopes)
  BY <1>3, <1>7, TellUsed
<1> HIDE DEF all
<1> QED BY <1>1, <1>2, <1>3, <1>4, <1>6, <1>8, BlockKeeps

LEMMA WalkEndsKeeps ==
    ASSUME IInv, WalkEnds
    PROVE  IInv'
<1>1. Walking /\ Told(out, scopes) /\ Running /\ Owning(Task)
  BY DEF IInv, WalkEnds, Doing, Owning
<1>2. /\ Pending \in Seq(Tasks) /\ Depth(Pending) \in Nat
      /\ scopes \in Seq(Seq(VariableOf)) /\ Len(scopes) = Depth(Pending) + 2
  BY <1>1, Innermost
<1>3. /\ out' = out \o Mark("endfor") /\ scopes' = Front(scopes) /\ work' = Pending
      /\ UNCHANGED <<program, function>>
  BY DEF WalkEnds
<1>4. scopes # <<>> /\ Len(scopes) > 1
  BY <1>2
<1>5. Told(out', scopes')
  BY <1>1, <1>3, <1>4, TellClose
<1>6. Len(scopes') = 1 + Depth(work')
  <2>1. Len(Front(scopes)) = Len(scopes) - 1
    BY <1>2, <1>4, FrontIs
  <2>2. Len(Front(scopes)) = 1 + Depth(Pending)
    BY <1>2, <2>1
  <2> QED BY <1>3, <2>2
<1>7. Walking'
  BY <1>1, <1>2, <1>3, <1>6, WalkingKept
<1> QED BY <1>5, <1>7 DEF IInv

LEMMA InitKeeps == Init => IInv
<1> SUFFICES ASSUME Init PROVE IInv
  OBVIOUS
<1> DEFINE none == <<>>
<1>1. /\ program \in Programs /\ function = 1 /\ scopes = <<<<>>>> /\ work = <<>> /\ out = none
  BY DEF Init
<1>2. none \in Seq(Item) /\ Len(none) = 0 /\ DOMAIN none = {} /\ 1..Len(none) = {}
  OBVIOUS
<1>3. scopes \in Seq(Seq(VariableOf)) /\ Len(scopes) = 1 /\ DOMAIN scopes = {1} /\ scopes[1] = <<>>
  <2>1. <<>> \in Seq(VariableOf)
    OBVIOUS
  <2> QED BY <1>1, <2>1
<1>4. CReading(none)[Len(none)] = <<>>
  <2>1. 0 \in 0..Len(none)
    BY <1>2
  <2> HIDE DEF none
  <2> QED BY <1>2, <2>1, ReadingIs
<1>5. Mirrors(scopes, <<>>)
  BY <1>3 DEF Mirrors
<1>6. AllRight(none)
  BY <1>2 DEF AllRight
<1>7. Balanced(none, 1)
  <2>1. \A item : Number(none, item) = 0
    BY <1>2, FS_EmptySet DEF Number
  <2> QED BY <2>1 DEF Balanced
<1> HIDE DEF none
<1>8. Told(out, scopes)
  <2>1. <<>> \in Seq(Seq(Item))
    OBVIOUS
  <2> QED BY <1>1, <1>2, <1>3, <1>4, <1>5, <1>6, <1>7, <2>1 DEF Told
<1>9. Walking
  <2>1. Len(program) \in Nat
    BY <1>1, ProgramsAssumption
  <2> QED BY <1>1, <1>3, <2>1, DepthEmpty DEF Walking, Running
<1> QED BY <1>8, <1>9 DEF IInv

LEMMA NextKeeps == IInv /\ [Next]_vars => IInv'
<1> SUFFICES ASSUME IInv, [Next]_vars PROVE IInv'
  OBVIOUS
<1>1. CASE BeginFunction
  BY <1>1, BeginFunctionKeeps
<1>2. CASE EndBlock
  BY <1>2, EndBlockKeeps
<1>3. CASE VarDecl
  BY <1>3, VarDeclKeeps
<1>4. CASE Plain
  BY <1>4, PlainKeeps
<1>5. CASE When
  BY <1>5, WhenKeeps
<1>6. CASE Else
  BY <1>6, ElseKeeps
<1>7. CASE Loop
  BY <1>7, LoopKeeps
<1>8. CASE Walk
  BY <1>8, WalkKeeps
<1>9. CASE WalkBody
  BY <1>9, WalkBodyKeeps
<1>10. CASE WalkEnds
  BY <1>10, WalkEndsKeeps
<1>11. CASE UNCHANGED vars
  BY <1>11 DEF vars, IInv, Walking, Running
<1> QED BY <1>1, <1>2, <1>3, <1>4, <1>5, <1>6, <1>7, <1>8, <1>9, <1>10, <1>11 DEF Next

-------------------------------------------------------------------------------
(* The walk's calls in progress and the generator's scopes fit the text    *)
(* written so far, at every step.                                          *)
THEOREM Invariance == Spec => []IInv
<1>1. Init => IInv
  BY InitKeeps
<1>2. IInv /\ [Next]_vars => IInv'
  BY NextKeeps
<1> QED BY <1>1, <1>2, PTL DEF Spec

(* The scopes are as many as the open braces and the open fors of the C    *)
(* text, whatever the statements: scope_push and scope_pop of gen_block    *)
(* and of a for add up, and the program scope is alone between functions.  *)
THEOREM TypeCorrect == Spec => []TypeOK
<1>1. IInv => TypeOK
  <2> SUFFICES ASSUME IInv PROVE TypeOK
    OBVIOUS
  <2>1. function \in 1..(Len(program) + 1) /\ Len(scopes) = 1 + Depth(work)
    BY DEF IInv, Walking
  <2>2. scopes \in Seq(Seq([name : Names, type : Types])) /\ Balanced(out, Len(scopes))
    BY DEF IInv, Told, VariableOf
  <2>3. \A d \in DOMAIN scopes : scopes[d] \in Seq([name : Names, type : Types])
    BY <2>2
  <2>4. Len(scopes) = 1 + (Count("open") - Count("close")) + (Count("for") - Count("endfor"))
    BY <2>2 DEF Balanced, Number, Count
  <2>5. ~Running => Len(scopes) = 1
    BY <2>1, DepthEmpty DEF Running
  <2> QED BY <2>1, <2>3, <2>4, <2>5 DEF TypeOK
<1> QED BY <1>1, Invariance, PTL

(* scope_lookup and the C compiler take a name for the same variable, or   *)
(* both for none: an expression is typed by the declaration that its C     *)
(* text will refer to, and an enumerator becomes its number just where C   *)
(* knows no variable of its name.                                          *)
THEOREM GeneratorAgreesWithC == Spec => []NamesAgree
<1>1. IInv => NamesAgree
  <2> SUFFICES ASSUME IInv PROVE NamesAgree
    OBVIOUS
  <2>1. AllRight(out) /\ out \in Seq(Item)
    BY DEF IInv, Told
  <2>2. \A k \in DOMAIN out : Right(out, k)
    BY <2>1 DEF AllRight
  <2>3. \A k : InOwnInitializer(k) <=> Own(out, k)
    BY Zenon DEF InOwnInitializer, Own
  <2>4. \A k, x : CBinding(k, x) = LookUp(CReading(out)[k], x)
    BY Zenon DEF CBinding, CScopes
  <2>5. ASSUME NEW k \in DOMAIN out
        PROVE  /\ out[k].item = "name" /\ ~InOwnInitializer(k) => out[k].type = CBinding(k, out[k].name)
               /\ out[k].item = "number" /\ ~InOwnInitializer(k) => CBinding(k, out[k].name) = None
    <3>1. Right(out, k) /\ (InOwnInitializer(k) <=> Own(out, k))
      BY <2>2, <2>3
    <3>2. CBinding(k, out[k].name) = LookUp(CReading(out)[k], out[k].name)
      BY <2>4
    <3> QED BY <3>1, <3>2 DEF Right
  <2> QED BY <2>5 DEF NamesAgree
<1> QED BY <1>1, Invariance, PTL

-------------------------------------------------------------------------------
(***************************************************************************)
(* The buffer that the text is built in.                                   *)
(***************************************************************************)
RopeBytes == Chars \cup {NUL, Junk}

(***************************************************************************)
(* The properties are not inductive alone.  A store is in bounds because   *)
(* the step before it saw Needed <= cap and made cap the size of the       *)
(* block; a realloc keeps the text because the block only grows, which is  *)
(* so because cap has only been doubled since the two were equal.          *)
(***************************************************************************)
RopePhase ==
    /\ pc = "idle" => cap = block
    /\ pc = "reserve" => block <= cap
    /\ pc = "store" => cap = block /\ Needed <= cap
    /\ pc \in {"reserve", "store"} => pending \in Texts

RopeIInv == RopeTypeOK /\ InBounds /\ Terminated /\ RopePhase

(* A function on an interval from one is a sequence.                       *)
LEMMA RopeBlock ==
    ASSUME NEW S, NEW n \in Nat, NEW f, f = [i \in 1..n |-> f[i]],
           \A i \in 1..n : f[i] \in S
    PROVE  f \in Seq(S) /\ Len(f) = n
  <1>1. f \in [1..n -> S]
    OBVIOUS
  <1> QED
    BY <1>1

(* The first n elements of a sequence.                                     *)
LEMMA PrefixSeq ==
    ASSUME NEW S, NEW s \in Seq(S), NEW n \in Nat, n <= Len(s)
    PROVE  /\ SubSeq(s, 1, n) \in Seq(S)
           /\ Len(SubSeq(s, 1, n)) = n
           /\ \A i \in 1..n : SubSeq(s, 1, n)[i] = s[i]
  OBVIOUS

(* The rope starts without a block.                                        *)
LEMMA RopeStarts == RopeInit => RopeIInv
  BY DEF RopeInit, RopeIInv, RopeTypeOK, InBounds, Terminated, RopePhase, Live

(* rope_init: a block of zeros is the empty string.                        *)
LEMMA RopeInitKeeps == RopeIInv /\ rope_init => RopeIInv'
  <1> SUFFICES ASSUME RopeIInv, rope_init PROVE RopeIInv'
    OBVIOUS
  <1>1. InitCap \in Nat /\ InitCap > 0
    BY InitCapAssumption
  <1>2. data' = [i \in 1..InitCap |-> NUL]
    BY DEF rope_init
  <1>3. data' \in Seq(RopeBytes) /\ Len(data') = InitCap
    BY <1>1, <1>2, RopeBlock DEF RopeBytes
  <1>4. RopeTypeOK' /\ InBounds'
    BY <1>1, <1>3 DEF RopeIInv, RopeTypeOK, InBounds, rope_init, RopeBytes
  <1>5. Terminated'
    BY <1>1, <1>2, <1>3 DEF Terminated, rope_init, Live
  <1>6. RopePhase'
    BY DEF RopePhase, rope_init
  <1> QED
    BY <1>4, <1>5, <1>6 DEF RopeIInv

(* The steps that leave the bytes of the block alone.                      *)
LEMMA RopeQuietKeeps ==
    ASSUME RopeIInv,
           rope_free \/ (\E t \in Texts : Push(t)) \/ Double \/ OutOfMemory
    PROVE  RopeIInv'
  <1> USE DEF RopeIInv, RopeTypeOK, InBounds, Terminated, Live, RopePhase
  <1>1. CASE rope_free
    BY <1>1 DEF rope_free
  <1>2. ASSUME NEW t \in Texts, Push(t) PROVE RopeIInv'
    <2>1. t \in Seq(Chars)
      BY TextsAssumption
    <2> QED
      BY <1>2, <2>1 DEF Push
  <1>3. CASE Double
    <2>1. cap' = 2 * cap /\ cap' \in Nat /\ cap <= cap'
      BY <1>3 DEF Double
    <2> QED
      BY <1>3, <2>1 DEF Double, Needed, End
  <1>4. CASE OutOfMemory
    BY <1>4 DEF OutOfMemory
  <1> QED
    BY <1>1, <1>2, <1>3, <1>4

(* rl_realloc: the block grows and its old bytes stay.                     *)
LEMMA RopeReallocKeeps == RopeIInv /\ Realloc => RopeIInv' /\ \A i \in 1..block : data'[i] = data[i]
  <1> SUFFICES ASSUME RopeIInv, Realloc
               PROVE  RopeIInv' /\ \A i \in 1..block : data'[i] = data[i]
    OBVIOUS
  <1>1. block \in Nat /\ cap \in Nat /\ block <= cap /\ Len(data) = block
    BY DEF RopeIInv, RopeTypeOK, InBounds, RopePhase, Realloc
  <1>2. data' = [i \in 1..cap |-> IF i <= block THEN data[i] ELSE Junk]
    BY DEF Realloc
  <1>3. \A i \in 1..block : data'[i] = data[i]
    BY <1>1, <1>2
  <1>4. \A i \in 1..cap : data'[i] \in RopeBytes
    BY <1>1, <1>2 DEF RopeIInv, RopeTypeOK, RopeBytes
  <1>5. data' \in Seq(RopeBytes) /\ Len(data') = cap
    BY <1>1, <1>2, <1>4, RopeBlock
  <1>6. RopeTypeOK' /\ InBounds'
    BY <1>1, <1>5 DEF RopeIInv, RopeTypeOK, InBounds, Realloc, RopeBytes
  <1>7. Terminated'
    <2>1. len \in Nat /\ len < block /\ data[len + 1] = NUL /\ \A i \in 1..len : data[i] \in Chars
      BY <1>1 DEF RopeIInv, RopeTypeOK, Terminated, Live, Realloc
    <2> QED
      BY <1>1, <1>3, <1>5, <2>1 DEF Terminated, Realloc
  <1>8. RopePhase'
    BY DEF RopeIInv, RopePhase, Realloc, Needed, End
  <1> QED
    BY <1>3, <1>6, <1>7, <1>8 DEF RopeIInv

(* The store: the old text, then the pushed one, then the terminator.      *)
LEMMA RopeStoreKeeps ==
    RopeIInv /\ Store =>
        /\ RopeIInv'
        /\ len' = len + Len(pending)
        /\ \A i \in 1..len : data'[i] = data[i]
        /\ \A i \in 1..Len(pending) : data'[len + i] = pending[i]
  <1> SUFFICES ASSUME RopeIInv, Store
               PROVE  /\ RopeIInv'
                      /\ len' = len + Len(pending)
                      /\ \A i \in 1..len : data'[i] = data[i]
                      /\ \A i \in 1..Len(pending) : data'[len + i] = pending[i]
    OBVIOUS
  <1>1. /\ len \in Nat /\ cap \in Nat /\ End \in Nat
        /\ pending \in Seq(Chars) /\ Len(pending) \in Nat
        /\ cap = block /\ Len(data) = block
        /\ len < block /\ End + 1 <= block
        /\ \A i \in 1..len : data[i] \in Chars
        /\ data \in Seq(RopeBytes)
    BY DEF RopeIInv, RopeTypeOK, InBounds, RopePhase, Store, Needed, End, Terminated, Live, RopeBytes
  <1>2. Larger(Len(data), End + 1) = block
    BY <1>1 DEF Larger
  <1>3. data' = [i \in 1..block |->
                    IF i \in (len + 1)..End THEN pending[i - len]
                    ELSE IF i = End + 1 THEN NUL ELSE data[i]]
    BY <1>2 DEF Store
  <1>4. End = len + Len(pending) /\ len' = End
    BY DEF Store, End
  <1>5. \A i \in 1..len : data'[i] = data[i]
    BY <1>1, <1>3, <1>4
  <1>6. \A i \in 1..Len(pending) : data'[len + i] = pending[i]
    <2> TAKE i \in 1..Len(pending)
    <2>1. len + i \in (len + 1)..End /\ len + i \in 1..block /\ (len + i) - len = i
      BY <1>1, <1>4
    <2> QED
      BY <1>3, <2>1
  <1>7. data'[End + 1] = NUL
    BY <1>1, <1>3, <1>4
  <1>8. \A i \in (len + 1)..End : data'[i] \in Chars
    <2> TAKE i \in (len + 1)..End
    <2>1. i \in 1..block /\ i - len \in 1..Len(pending)
      BY <1>1, <1>4
    <2>2. data'[i] = pending[i - len]
      BY <1>3, <2>1
    <2> QED
      BY <1>1, <2>1, <2>2
  <1>9. \A i \in 1..block : data'[i] \in RopeBytes
    <2> TAKE i \in 1..block
    <2>1. CASE i \in (len + 1)..End
      BY <1>8, <2>1 DEF RopeBytes
    <2>2. CASE i \notin (len + 1)..End
      <3>1. data'[i] = IF i = End + 1 THEN NUL ELSE data[i]
        BY <1>3, <2>2
      <3>2. data[i] \in RopeBytes
        BY <1>1
      <3> QED
        BY <3>1, <3>2 DEF RopeBytes
    <2> QED
      BY <2>1, <2>2
  <1>10. data' \in Seq(RopeBytes) /\ Len(data') = block
    <2>1. data' = [i \in 1..block |-> data'[i]]
      BY <1>3
    <2>2. block \in Nat
      BY <1>1
    <2> QED
      BY <1>9, <2>1, <2>2, RopeBlock
  <1>11. RopeTypeOK' /\ InBounds'
    <2>1. cap' = cap /\ block' = block /\ pc' = "idle" /\ pending' = <<>>
      BY DEF Store
    <2>2. InBounds'
      BY <1>10, <2>1 DEF InBounds
    <2>3. len' \in Nat /\ cap' \in Nat /\ block' \in Nat /\ cap' = block'
      BY <1>1, <1>4, <2>1
    <2>4. pending' \in Seq(Chars)
      BY <2>1
    <2> QED
      BY <1>10, <2>1, <2>2, <2>3, <2>4 DEF RopeTypeOK, RopeBytes
  <1>12. Terminated'
    <2>1. \A i \in 1..End : data'[i] \in Chars
      BY <1>1, <1>4, <1>5, <1>8
    <2> QED
      BY <1>1, <1>4, <1>7, <1>10, <2>1 DEF Terminated
  <1>13. RopePhase'
    BY <1>1 DEF RopePhase, Store
  <1> QED
    BY <1>4, <1>5, <1>6, <1>11, <1>12, <1>13 DEF RopeIInv

(* Every step keeps the inductive invariant.                               *)
LEMMA RopeNextKeeps == RopeIInv /\ [RopeNext]_ropeVars => RopeIInv'
  <1> SUFFICES ASSUME RopeIInv, [RopeNext]_ropeVars PROVE RopeIInv'
    OBVIOUS
  <1>1. CASE RopeNext
    BY <1>1, RopeInitKeeps, RopeQuietKeeps, RopeReallocKeeps, RopeStoreKeeps DEF RopeNext
  <1>2. CASE UNCHANGED ropeVars
    BY <1>2 DEF ropeVars, RopeIInv, RopeTypeOK, InBounds, Terminated, Live, RopePhase, Needed, End
  <1> QED
    BY <1>1, <1>2

(* The inductive invariant holds of every behaviour.                       *)
THEOREM RopeInvariance == RopeSpec => []RopeIInv
  <1>1. RopeInit => RopeIInv
    BY RopeStarts
  <1>2. RopeIInv /\ [RopeNext]_ropeVars => RopeIInv'
    BY RopeNextKeeps
  <1> QED
    BY <1>1, <1>2, PTL DEF RopeSpec

(* The variables of the rope keep their types, and between two pushes the  *)
(* capacity the code goes by is the size of the block.                     *)
THEOREM RopeTypeCorrect == RopeSpec => []RopeTypeOK
  BY RopeInvariance, PTL DEF RopeIInv

(* No push writes past the end of the block, its terminator included.      *)
THEOREM RopeStaysInBounds == RopeSpec => []InBounds
  BY RopeInvariance, PTL DEF RopeIInv

(* What the users of a rope read is a C string, and as long as len says.   *)
THEOREM RopeStaysTerminated == RopeSpec => []Terminated
  BY RopeInvariance, PTL DEF RopeIInv
-------------------------------------------------------------------------------
(* The abstract text: what the block holds before its terminator.          *)
Held      == IF Live THEN SubSeq(data, 1, len) ELSE <<>>
HeldState == IF Live THEN "live" ELSE pc

(* The held text has the characters of the block.                          *)
LEMMA HeldElements ==
    ASSUME RopeIInv, Live
    PROVE  Held \in Seq(RopeBytes) /\ Len(Held) = len /\ \A i \in 1..len : Held[i] = data[i]
  <1>1. data \in Seq(RopeBytes) /\ len \in Nat /\ len < Len(data)
    BY DEF RopeIInv, RopeTypeOK, Terminated, RopeBytes
  <1> QED
    BY <1>1 DEF Held

(* A step that moves or extends the block beyond the text keeps the text.  *)
LEMMA HeldKept ==
    ASSUME RopeIInv, RopeIInv', Live, Live', len' = len, \A i \in 1..len : data'[i] = data[i]
    PROVE  Held' = Held
  <1>1. Held \in Seq(RopeBytes) /\ Len(Held) = len /\ \A i \in 1..len : Held[i] = data[i]
    BY HeldElements
  <1>2. data' \in Seq(RopeBytes) /\ len' \in Nat /\ len' < Len(data')
    BY DEF RopeIInv, RopeTypeOK, Terminated, RopeBytes
  <1>3. Held' \in Seq(RopeBytes) /\ Len(Held') = len /\ \A i \in 1..len : Held'[i] = data'[i]
    BY <1>2 DEF Held
  <1> QED
    BY <1>1, <1>3, SeqEqual

(* A store appends the whole of the pushed string to the held text.        *)
LEMMA StoreExtends == RopeIInv /\ Store => Held' = Held \o pending
  <1> SUFFICES ASSUME RopeIInv, Store PROVE Held' = Held \o pending
    OBVIOUS
  <1>1. /\ RopeIInv'
        /\ len' = len + Len(pending)
        /\ \A i \in 1..len : data'[i] = data[i]
        /\ \A i \in 1..Len(pending) : data'[len + i] = pending[i]
    BY RopeStoreKeeps
  <1>2. Live /\ Live'
    BY DEF Live, Store
  <1>3. Held \in Seq(RopeBytes) /\ Len(Held) = len /\ \A i \in 1..len : Held[i] = data[i]
    BY <1>2, HeldElements
  <1>4. data' \in Seq(RopeBytes) /\ len' \in Nat /\ len' < Len(data')
    BY <1>1, <1>2 DEF RopeIInv, RopeTypeOK, Terminated, RopeBytes
  <1>5. Held' \in Seq(RopeBytes) /\ Len(Held') = len' /\ \A i \in 1..len' : Held'[i] = data'[i]
    <2>1. Held' = SubSeq(data', 1, len')
      BY <1>2 DEF Held
    <2>2. len' <= Len(data')
      BY <1>4
    <2> QED
      BY <1>4, <2>1, <2>2, PrefixSeq
  <1>6. pending \in Seq(RopeBytes) /\ Len(pending) \in Nat /\ len \in Nat
    BY DEF RopeIInv, RopeTypeOK, RopeBytes
  <1>7. /\ Held \o pending \in Seq(RopeBytes)
        /\ Len(Held \o pending) = len'
        /\ \A i \in 1..len' : (Held \o pending)[i] =
               IF i <= len THEN Held[i] ELSE pending[i - len]
    BY <1>1, <1>3, <1>6
  <1>8. \A i \in 1..len' : Held'[i] = (Held \o pending)[i]
    <2> TAKE i \in 1..len'
    <2>1. Held'[i] = data'[i]
      BY <1>5
    <2>2. i \in Int /\ len \in Int
      BY <1>6
    <2>3. CASE i <= len
      <3>1. i \in 1..len
        BY <2>2, <2>3
      <3>2. Held[i] = data[i] /\ data'[i] = data[i]
        BY <1>1, <1>3, <3>1
      <3>3. (Held \o pending)[i] = Held[i]
        BY <1>7, <2>3
      <3> QED
        BY <2>1, <3>2, <3>3
    <2>4. CASE ~(i <= len)
      <3>1. i - len \in 1..Len(pending) /\ len + (i - len) = i
        BY <1>1, <1>6, <2>2, <2>4
      <3>2. data'[i] = pending[i - len]
        BY <1>1, <3>1
      <3>3. (Held \o pending)[i] = pending[i - len]
        BY <1>7, <2>4
      <3> QED
        BY <2>1, <3>2, <3>3
    <2> QED
      BY <2>3, <2>4
  <1> QED
    BY <1>5, <1>7, <1>8, SeqEqual

(* Every step of the rope is one step of the text, or leaves it alone: the *)
(* doublings and the move of the block do not show.                        *)
THEOREM RopeImplementsText == RopeSpec => ImplementsText
  <1>1. RopeInit => Content!Init
    BY DEF RopeInit, Content!Init, Live
  <1>2. RopeIInv /\ RopeIInv' /\ [RopeNext]_ropeVars => [Content!Next]_Content!vars
    <2> SUFFICES ASSUME RopeIInv, RopeIInv', [RopeNext]_ropeVars
                 PROVE  Content!Next \/ (Held' = Held /\ HeldState' = HeldState)
      BY DEF Content!vars, Held, HeldState
    <2>1. CASE rope_init
      <3>1. ~Live /\ Live' /\ pc = "none" /\ len' = 0
        BY <2>1 DEF rope_init, Live
      <3>2. SubSeq(data', 1, len') = <<>>
        BY <3>1
      <3>3. Content!Create
        BY <3>1, <3>2 DEF Content!Create
      <3> QED
        BY <3>3 DEF Content!Next
    <2>2. CASE rope_free
      BY <2>2 DEF rope_free, Live, Content!Next, Content!Discard
    <2>3. CASE \E t \in Texts : Push(t)
      <3>1. Live /\ Live' /\ len' = len /\ data' = data
        BY <2>3 DEF Push, Live
      <3> QED
        BY <3>1 DEF Held, HeldState
    <2>4. CASE Double
      <3>1. Live /\ Live' /\ len' = len /\ data' = data
        BY <2>4 DEF Double, Live
      <3> QED
        BY <3>1 DEF Held, HeldState
    <2>5. CASE Realloc
      <3>1. Live /\ Live' /\ len' = len
        BY <2>5 DEF Realloc, Live
      <3>2. \A i \in 1..len : data'[i] = data[i]
        <4>1. \A i \in 1..block : data'[i] = data[i]
          BY <2>5, RopeReallocKeeps
        <4>2. len \in Nat /\ block \in Nat /\ len < block
          BY <3>1 DEF RopeIInv, RopeTypeOK, InBounds, Terminated
        <4> QED
          BY <4>1, <4>2
      <3>3. Held' = Held
        BY <3>1, <3>2, HeldKept
      <3> QED
        BY <3>1, <3>3 DEF HeldState
    <2>6. CASE OutOfMemory
      BY <2>6 DEF OutOfMemory, Live, Content!Next, Content!Exhaust
    <2>7. CASE Store
      <3>1. Live /\ Live' /\ pending \in Texts
        BY <2>7 DEF Store, Live, RopeIInv, RopePhase
      <3>2. Held' = Held \o pending
        BY <2>7, StoreExtends
      <3>3. Content!Extend(pending)
        BY <3>1, <3>2 DEF Content!Extend, Held
      <3> QED
        BY <3>1, <3>3 DEF Content!Next
    <2>8. CASE UNCHANGED ropeVars
      BY <2>8 DEF ropeVars, Held, HeldState, Live
    <2> QED
      BY <2>1, <2>2, <2>3, <2>4, <2>5, <2>6, <2>7, <2>8 DEF RopeNext
  <1> QED
    BY <1>1, <1>2, RopeInvariance, PTL DEF RopeSpec, ImplementsText, Content!Spec

-------------------------------------------------------------------------------
(* The trees up to a height, and what is so for a tree if it is so for all *)
(* lower ones.                                                             *)
LEMMA LowerIs ==
    /\ \A h \in DOMAIN Trees : h \in Nat \ {0} /\ Lower(h) \subseteq AllTrees /\ Trees[h] \subseteq AllTrees
    /\ \A h \in DOMAIN Trees : \A e \in Trees[h] : Expression(e, Lower(h))
    /\ \A h \in DOMAIN Trees : \A c \in Lower(h) : \E k \in DOMAIN Trees : k < h /\ c \in Trees[k]
    /\ \A e \in AllTrees : \E h \in DOMAIN Trees : e \in Trees[h]
<1>1. Len(Trees) \in Nat /\ DOMAIN Trees = 1..Len(Trees)
  BY TreesAssumption
<1>2. \A h \in DOMAIN Trees : \A k \in 1..(h - 1) : k \in DOMAIN Trees /\ k < h
  BY <1>1
<1>3. \A h \in DOMAIN Trees : \A c \in Lower(h) : \E k \in DOMAIN Trees : k < h /\ c \in Trees[k]
  BY <1>2 DEF Lower
<1>4. \A h \in DOMAIN Trees : Trees[h] \subseteq AllTrees
  BY DEF AllTrees
<1>5. \A h \in DOMAIN Trees : Lower(h) \subseteq AllTrees
  BY <1>3, <1>4
<1>6. \A h \in DOMAIN Trees : \A e \in Trees[h] : Expression(e, Lower(h))
  BY TreesAssumption
<1>7. \A e \in AllTrees : \E h \in DOMAIN Trees : e \in Trees[h]
  BY DEF AllTrees
<1> QED BY <1>1, <1>3, <1>4, <1>5, <1>6, <1>7

(* What is so for a tree if it is so for all lower ones is so for all.     *)
LEMMA ByHeight ==
    ASSUME NEW P, \A h \in DOMAIN Trees : Lower(h) \subseteq P => Trees[h] \subseteq P
    PROVE  AllTrees \subseteq P
<1> DEFINE D == {n \in Nat : \A h \in DOMAIN Trees : h <= n => Trees[h] \subseteq P}
<1>1. 0 \in D
  BY LowerIs
<1>2. ASSUME NEW n \in D PROVE n + 1 \in D
  <2>1. \A h \in DOMAIN Trees : h <= n => Trees[h] \subseteq P
    OBVIOUS
  <2>2. ASSUME NEW h \in DOMAIN Trees, h <= n + 1 PROVE Trees[h] \subseteq P
    <3>1. \A k \in DOMAIN Trees : k < h => k <= n
      BY <2>2, LowerIs
    <3>2. Lower(h) \subseteq P
      BY <2>1, <3>1, LowerIs
    <3> QED BY <3>2
  <2> QED BY <2>2
<1>3. D \subseteq Nat
  OBVIOUS
<1> HIDE DEF D
<1>4. D = Nat
  BY <1>1, <1>2, <1>3, Climb
<1>5. \A h \in DOMAIN Trees : h \in D
  BY <1>4, LowerIs
<1>6. \A h \in DOMAIN Trees : Trees[h] \subseteq P
  BY <1>5, LowerIs DEF D
<1> QED BY <1>6, LowerIs

(* A step that at a tree only looks at lower ones has a fixed point.       *)
LEMMA Recursive ==
    ASSUME NEW V, NEW v \in V, NEW G \in [[AllTrees -> V] -> [AllTrees -> V]],
           \A f, g \in [AllTrees -> V] : \A h \in DOMAIN Trees :
               (\A c \in Lower(h) : f[c] = g[c]) => \A e \in Trees[h] : G[f][e] = G[g][e]
    PROVE  \E f \in [AllTrees -> V] : f = G[f]
<1> DEFINE Good(n, f) == \A h \in DOMAIN Trees : h <= n => \A e \in Trees[h] : f[e] = G[f][e]
           D == {n \in Nat : \E f \in [AllTrees -> V] : Good(n, f)}
<1>1. 0 \in D
  <2>1. [e \in AllTrees |-> v] \in [AllTrees -> V]
    OBVIOUS
  <2>2. \A f : Good(0, f)
    BY LowerIs
  <2> QED BY <2>1, <2>2
<1>2. ASSUME NEW n \in D PROVE n + 1 \in D
  <2>1. PICK f \in [AllTrees -> V] : Good(n, f)
    OBVIOUS
  <2> DEFINE g == G[f]
  <2>2. g \in [AllTrees -> V]
    OBVIOUS
  <2> HIDE DEF g
  <2>3. ASSUME NEW h \in DOMAIN Trees, h <= n + 1 PROVE \A e \in Trees[h] : g[e] = G[g][e]
    <3>1. \A k \in DOMAIN Trees : k < h => k <= n
      BY <2>3, LowerIs
    <3>2. \A c \in Lower(h) : g[c] = f[c]
      BY <2>1, <3>1, LowerIs DEF g
    <3>3. \A e \in Trees[h] : G[g][e] = G[f][e]
      BY <2>2, <3>2
    <3> QED BY <3>3 DEF g
  <2>4. Good(n + 1, g)
    BY <2>3
  <2> QED BY <2>2, <2>4
<1>3. D \subseteq Nat
  OBVIOUS
<1> HIDE DEF D
<1>4. D = Nat
  BY <1>1, <1>2, <1>3, Climb
<1>5. PICK f \in [AllTrees -> V] : Good(Len(Trees), f)
  BY <1>4, TreesAssumption DEF D
<1>6. \A h \in DOMAIN Trees : h <= Len(Trees)
  BY TreesAssumption
<1>7. \A e \in AllTrees : f[e] = G[f][e]
  BY <1>5, <1>6, LowerIs
<1>8. f = G[f]
  BY <1>7
<1> QED BY <1>8

(***************************************************************************)
(* Types.                                                                  *)
(***************************************************************************)
Plainly  == Numbers \cup {"bool", "char", "text", "any"}
AllTypes == ValueTypes \cup [kind : {"void"}, name : {""}, over : Composed]
Words    == {"bool", "char", "int8_t", "int16_t", "uint8_t", "uint16_t", "int32_t", "uint32_t",
             "int64_t", "uint64_t", "float", "double", "void", "struct", "refused"}
CTypes   == [c : Words, struct : DOMAIN Structs \cup {""}, stars : Nat]
Composes == {"span", "ref"}

(* A suffix more in front, and the first one off.                          *)
LEMMA Composition ==
    /\ <<>> \in Composed
    /\ \A w \in Composes : \A s \in Composed :
         LET t == <<w>> \o s IN t \in Composed /\ t # <<>> /\ Head(t) = w /\ Tail(t) = s /\ Len(t) = Len(s) + 1
    /\ \A s \in Composed : Len(s) \in Nat /\ (s = <<>> => Len(s) = 0)
    /\ \A s \in Composed : s # <<>> =>
         Head(s) \in Composes /\ Tail(s) \in Composed /\ Len(s) = Len(Tail(s)) + 1
<1>1. <<>> \in Composed
  BY DEF Composed
<1>2. ASSUME NEW w \in Composes, NEW s \in Composed
      PROVE  LET t == <<w>> \o s IN
             t \in Composed /\ t # <<>> /\ Head(t) = w /\ Tail(t) = s /\ Len(t) = Len(s) + 1
  <2> DEFINE t == <<w>> \o s
  <2>1. t \in Composed /\ Len(t) = Len(s) + 1 /\ t # <<>>
    BY DEF Composed, Composes
  <2>2. Head(t) = w
    BY DEF Composed, Composes
  <2>3. Tail(t) = s
    <3>1. Tail(t) \in Composed /\ Len(Tail(t)) = Len(s)
      BY <2>1 DEF Composed, Composes
    <3>2. \A i \in 1..Len(s) : Tail(t)[i] = s[i]
      BY <2>1 DEF Composed, Composes
    <3>3. s \in Composed
      OBVIOUS
    <3> HIDE DEF t
    <3> QED BY <3>1, <3>2, <3>3, SeqEqual DEF Composed
  <2> QED BY <2>1, <2>2, <2>3
<1>3. \A s \in Composed : Len(s) \in Nat /\ (s = <<>> => Len(s) = 0)
  BY DEF Composed
<1>4. \A s \in Composed : s # <<>> =>
         Head(s) \in Composes /\ Tail(s) \in Composed /\ Len(s) = Len(Tail(s)) + 1
  BY DEF Composed, Composes
<1> QED BY <1>1, <1>2, <1>3, <1>4

(* A type with other suffixes.                                             *)
LEMMA TypeRecord ==
    ASSUME NEW t \in AllTypes
    PROVE  /\ t = [kind |-> t.kind, name |-> t.name, over |-> t.over]
           /\ \A s : [t EXCEPT !.over = s] = [kind |-> t.kind, name |-> t.name, over |-> s]
<1>1. ASSUME NEW K, NEW N, NEW O, t \in [kind : K, name : N, over : O]
      PROVE  t = [kind |-> t.kind, name |-> t.name, over |-> t.over]
  BY <1>1
<1>2. t = [kind |-> t.kind, name |-> t.name, over |-> t.over]
  BY <1>1 DEF AllTypes, ValueTypes
<1>3. \A s : [t EXCEPT !.over = s] = [kind |-> t.kind, name |-> t.name, over |-> s]
  <2> DEFINE u == [kind |-> t.kind, name |-> t.name, over |-> t.over]
  <2>1. \A s : [u EXCEPT !.over = s] = [kind |-> t.kind, name |-> t.name, over |-> s]
    OBVIOUS
  <2> QED BY <1>2, <2>1
<1> QED BY <1>2, <1>3

(* The types without suffixes are types; void is none of a value.          *)
LEMMA BaseTypes ==
    /\ ValueTypes \subseteq AllTypes /\ TY_VOID \in AllTypes /\ TY_VOID \notin ValueTypes
    /\ \A k \in Plainly : Type(k) \in ValueTypes
    /\ {TY_INT, TY_TEXT, TY_BOOL, TY_CHAR, TY_ANY} \subseteq ValueTypes
<1>1. <<>> \in Composed
  BY Composition
<1>2. ValueTypes \subseteq AllTypes
  BY DEF AllTypes
<1>3. TY_VOID \in AllTypes
  BY <1>1 DEF AllTypes, TY_VOID, Type
<1>4. TY_VOID \notin ValueTypes
  <2>1. \A t \in ValueTypes : t.kind \in Plainly \cup {"named"}
    BY DEF ValueTypes, Plainly
  <2>2. TY_VOID.kind = "void"
    BY DEF TY_VOID, Type
  <2>3. "void" \notin Plainly \cup {"named"}
    BY DEF Plainly, Numbers, Wholes
  <2> QED BY <2>1, <2>2, <2>3
<1>5. \A k \in Plainly : Type(k) \in ValueTypes
  BY <1>1 DEF ValueTypes, Plainly, Type
<1>6. {"int", "text", "bool", "char", "any"} \subseteq Plainly
  BY DEF Plainly, Numbers, Wholes
<1>7. {TY_INT, TY_TEXT, TY_BOOL, TY_CHAR, TY_ANY} \subseteq ValueTypes
  BY <1>5, <1>6 DEF TY_INT, TY_TEXT, TY_BOOL, TY_CHAR, TY_ANY
<1> QED BY <1>2, <1>3, <1>4, <1>5, <1>7

(* The kind of a type is its first suffix, or what the type is named.      *)
LEMMA Kinds ==
    /\ \A t \in AllTypes : t.over \in Composed
    /\ \A t \in AllTypes : t.over # <<>> <=> Kind(t) \in Composes
    /\ \A t \in AllTypes : Kind(t) \notin Composes => Kind(t) = t.kind
    /\ \A t \in ValueTypes : Kind(t) \in Composes \cup Plainly \cup {"named"}
    /\ \A t \in ValueTypes : t.kind = "named" => t.name \in DOMAIN Structs
    /\ \A t \in ValueTypes : Kind(t) \in Plainly => t = Type(Kind(t))
    /\ \A t \in AllTypes : t \notin ValueTypes => t.kind = "void" /\ Kind(t) \in Composes \cup {"void"}
<1>1. \A t \in AllTypes : t.over \in Composed
  BY DEF AllTypes, ValueTypes
<1>2. \A t \in AllTypes : t.kind \notin Composes
  BY DEF AllTypes, ValueTypes, Composes, Numbers, Wholes
<1>3. \A t \in AllTypes : t.over # <<>> <=> Kind(t) \in Composes
  BY <1>1, <1>2, Composition DEF Kind
<1>4. \A t \in AllTypes : Kind(t) \notin Composes => Kind(t) = t.kind
  BY <1>3 DEF Kind
<1>5. \A t \in ValueTypes : Kind(t) \in Composes \cup Plainly \cup {"named"}
  BY <1>4, BaseTypes DEF ValueTypes, Plainly
<1>6. \A t \in ValueTypes : t.kind = "named" => t.name \in DOMAIN Structs
  BY DEF ValueTypes, Numbers, Wholes
<1>7. \A t \in ValueTypes : Kind(t) \in Plainly => t = Type(Kind(t))
  <2> TAKE t \in ValueTypes
  <2>1. Kind(t) \in Plainly => Kind(t) = t.kind /\ t.over = <<>>
    BY <1>3, <1>4, BaseTypes DEF Plainly, Composes, Numbers, Wholes
  <2>2. t.kind \in Plainly => t = [kind |-> t.kind, name |-> "", over |-> t.over]
    BY DEF ValueTypes, Plainly, Numbers, Wholes
  <2> QED BY <2>1, <2>2 DEF Type
<1>8. \A t \in AllTypes : t \notin ValueTypes => t.kind = "void" /\ Kind(t) \in Composes \cup {"void"}
  BY <1>4 DEF AllTypes
<1> QED BY <1>1, <1>3, <1>4, <1>5, <1>6, <1>7, <1>8

(* Types of C.                                                             *)
LEMMA PtrIs ==
    ASSUME NEW a, NEW b, NEW n \in Nat
    PROVE  Ptr([c |-> a, struct |-> b, stars |-> n]) = [c |-> a, struct |-> b, stars |-> n + 1]
<1> DEFINE t == [c |-> a, struct |-> b, stars |-> n]
<1>1. t.stars = n /\ \A m : [t EXCEPT !.stars = m] = [c |-> a, struct |-> b, stars |-> m]
  OBVIOUS
<1> HIDE DEF t
<1>2. Ptr(t) = [c |-> a, struct |-> b, stars |-> n + 1]
  BY <1>1 DEF Ptr
<1> QED BY <1>2 DEF t

(* A star less.                                                            *)
LEMMA PointeeIs ==
    ASSUME NEW a, NEW b, NEW n \in Nat
    PROVE  Pointee([c |-> a, struct |-> b, stars |-> n]) = [c |-> a, struct |-> b, stars |-> n - 1]
<1> DEFINE t == [c |-> a, struct |-> b, stars |-> n]
<1>1. t.stars = n /\ \A m : [t EXCEPT !.stars = m] = [c |-> a, struct |-> b, stars |-> m]
  OBVIOUS
<1> HIDE DEF t
<1>2. Pointee(t) = [c |-> a, struct |-> b, stars |-> n - 1]
  BY <1>1 DEF Pointee
<1> QED BY <1>2 DEF t

(* Stars for all suffixes.                                                 *)
LEMMA MoreStars ==
    ASSUME NEW a, NEW b, NEW n \in Nat, NEW k
    PROVE  [[c |-> a, struct |-> b, stars |-> n] EXCEPT !.stars = @ + k] = [c |-> a, struct |-> b, stars |-> n + k]
<1> DEFINE t == [c |-> a, struct |-> b, stars |-> n]
<1>1. t.stars = n /\ \A m : [t EXCEPT !.stars = m] = [c |-> a, struct |-> b, stars |-> m]
  OBVIOUS
<1> HIDE DEF t
<1>2. [t EXCEPT !.stars = @ + k] = [c |-> a, struct |-> b, stars |-> n + k]
  BY <1>1
<1> QED BY <1>2 DEF t

(* A type of C by its parts.                                               *)
LEMMA CTypeForm ==
    /\ \A t \in CTypes : /\ t = [c |-> t.c, struct |-> t.struct, stars |-> t.stars]
                         /\ t.c \in Words /\ t.struct \in DOMAIN Structs \cup {""} /\ t.stars \in Nat
    /\ \A a \in Words, b \in DOMAIN Structs \cup {""}, n \in Nat : [c |-> a, struct |-> b, stars |-> n] \in CTypes
<1>1. ASSUME NEW t \in CTypes
      PROVE  /\ t = [c |-> t.c, struct |-> t.struct, stars |-> t.stars]
             /\ t.c \in Words /\ t.struct \in DOMAIN Structs \cup {""} /\ t.stars \in Nat
  BY DEF CTypes
<1>2. ASSUME NEW a \in Words, NEW b \in DOMAIN Structs \cup {""}, NEW n \in Nat
      PROVE  [c |-> a, struct |-> b, stars |-> n] \in CTypes
  BY DEF CTypes
<1> QED BY <1>1, <1>2

(* The types of C that the generator names itself.                         *)
LEMMA Pointers ==
    /\ CString = [c |-> "char", struct |-> "", stars |-> 1]
    /\ Address = [c |-> "void", struct |-> "", stars |-> 1]
    /\ {CString, Address, CInt, Refused} \subseteq CTypes
    /\ \A a \in Words : C(a) \in CTypes
    /\ \A s \in DOMAIN Structs : Struct(s) \in CTypes
<1>1. \A a \in Words : C(a) \in CTypes /\ Ptr(C(a)) = [c |-> a, struct |-> "", stars |-> 0 + 1]
  <2> TAKE a \in Words
  <2>1. 0 \in Nat /\ "" \in DOMAIN Structs \cup {""} /\ C(a) = [c |-> a, struct |-> "", stars |-> 0]
    BY DEF C
  <2>2. C(a) \in CTypes
    BY <2>1, CTypeForm
  <2>3. Ptr([c |-> a, struct |-> "", stars |-> 0]) = [c |-> a, struct |-> "", stars |-> 0 + 1]
    BY <2>1, PtrIs
  <2> QED BY <2>1, <2>2, <2>3
<1>2. 0 + 1 = 1 /\ {"char", "void", "int32_t", "refused", "struct"} \subseteq Words
  BY DEF Words
<1>3. /\ CString = [c |-> "char", struct |-> "", stars |-> 1]
      /\ Address = [c |-> "void", struct |-> "", stars |-> 1]
  BY <1>1, <1>2 DEF CString, Address
<1>4. CString \in CTypes /\ Address \in CTypes
  BY <1>2, <1>3, CTypeForm
<1>5. CInt \in CTypes /\ Refused \in CTypes
  BY <1>1, <1>2 DEF CInt, Refused
<1>6. \A s \in DOMAIN Structs : Struct(s) \in CTypes
  BY <1>2, CTypeForm DEF Struct
<1> QED BY <1>1, <1>3, <1>4, <1>5, <1>6

(* The spellings.                                                          *)
LEMMA EmitsBase ==
    /\ emit_base("text") = CString /\ emit_base("any") = Address /\ emit_base("void") = C("void")
    /\ emit_base("bool") = C("bool") /\ emit_base("char") = C("char")
    /\ emit_base("float") = C("float") /\ emit_base("double") = C("double")
    /\ emit_base("int") = C("int32_t") /\ emit_base("int8") = C("int8_t")
    /\ emit_base("int16") = C("int16_t") /\ emit_base("int64") = C("int64_t")
    /\ emit_base("uint") = C("uint32_t") /\ emit_base("uint8") = C("uint8_t")
    /\ emit_base("uint16") = C("uint16_t") /\ emit_base("uint64") = C("uint64_t")
BY DEF emit_base, Spelling

(* emit_type puts a star behind the base for every suffix.                 *)
LEMMA EmitBase ==
    ASSUME NEW t \in AllTypes, NEW base,
           base = IF t.kind = "named" THEN Struct(t.name) ELSE emit_base(t.kind)
    PROVE  /\ base \in CTypes
           /\ emit_type(t) = [c |-> base.c, struct |-> base.struct, stars |-> base.stars + Len(t.over)]
           /\ Kind(t) \notin Composes => emit_type(t) = base
<1>1. ASSUME t.kind = "named" PROVE base \in CTypes
  <2>1. t.name \in DOMAIN Structs
    BY <1>1 DEF AllTypes, ValueTypes, Numbers, Wholes
  <2> QED BY <1>1, <2>1, Pointers
<1>2. ASSUME t.kind # "named" PROVE base \in CTypes
  <2>1. t.kind \in Plainly \cup {"void"}
    BY <1>2 DEF AllTypes, ValueTypes, Plainly
  <2>2. \A k \in Plainly \cup {"void"} : emit_base(k) \in CTypes
    BY EmitsBase, Pointers DEF Plainly, Numbers, Wholes, Words
  <2> QED BY <1>2, <2>1, <2>2
<1>3. base \in CTypes
  BY <1>1, <1>2
<1>4. base = [c |-> base.c, struct |-> base.struct, stars |-> base.stars] /\ base.stars \in Nat
  BY <1>3, CTypeForm
<1>5. Len(t.over) \in Nat
  BY Kinds, Composition
<1>6. emit_type(t) = [base EXCEPT !.stars = @ + Len(t.over)]
  BY DEF emit_type
<1>7. emit_type(t) = [c |-> base.c, struct |-> base.struct, stars |-> base.stars + Len(t.over)]
  BY <1>4, <1>5, <1>6, MoreStars
<1>8. Kind(t) \notin Composes => Len(t.over) = 0
  BY Kinds, Composition
<1>9. base.stars + 0 = base.stars
  BY <1>4
<1>10. Kind(t) \notin Composes => emit_type(t) = base
  BY <1>4, <1>7, <1>8, <1>9
<1> QED BY <1>3, <1>7, <1>10

(* emit_type makes a type of C of every type.                              *)
LEMMA EmittedType ==
    ASSUME NEW t \in AllTypes
    PROVE  emit_type(t) \in CTypes
<1> DEFINE base == IF t.kind = "named" THEN Struct(t.name) ELSE emit_base(t.kind)
<1>1. base \in CTypes /\ emit_type(t) = [c |-> base.c, struct |-> base.struct, stars |-> base.stars + Len(t.over)]
  BY EmitBase
<1> HIDE DEF base
<1>2. Len(t.over) \in Nat
  BY Kinds, Composition
<1>3. base.c \in Words /\ base.struct \in DOMAIN Structs \cup {""} /\ base.stars \in Nat
  BY <1>1, CTypeForm
<1>4. \A m, n \in Nat : m + n \in Nat
  OBVIOUS
<1>5. base.stars + Len(t.over) \in Nat
  BY <1>2, <1>3, <1>4
<1> QED BY <1>1, <1>3, <1>5, CTypeForm

(* A reference to a type and a span of it are a star more in C.            *)
LEMMA Wraps ==
    ASSUME NEW t \in AllTypes
    PROVE  /\ Span(t) \in AllTypes /\ Kind(Span(t)) = "span" /\ Inner(Span(t)) = t
           /\ Ref(t) \in AllTypes /\ Kind(Ref(t)) = "ref" /\ Inner(Ref(t)) = t
           /\ t \in ValueTypes => Span(t) \in ValueTypes /\ Ref(t) \in ValueTypes
           /\ emit_type(Span(t)) = Ptr(emit_type(t)) /\ emit_type(Ref(t)) = Ptr(emit_type(t))
<1> DEFINE Wrap(w) == [t EXCEPT !.over = <<w>> \o @]
<1>1. ASSUME NEW w \in Composes
      PROVE  /\ Wrap(w) \in AllTypes /\ Kind(Wrap(w)) = w /\ Inner(Wrap(w)) = t
             /\ t \in ValueTypes => Wrap(w) \in ValueTypes
             /\ emit_type(Wrap(w)) = Ptr(emit_type(t))
  <2> DEFINE u == Wrap(w)  more == <<w>> \o t.over
  <2>1. t.over \in Composed
    BY Kinds
  <2>2. more \in Composed /\ more # <<>> /\ Head(more) = w /\ Tail(more) = t.over /\ Len(more) = Len(t.over) + 1
    BY <2>1, Composition
  <2>3. t = [kind |-> t.kind, name |-> t.name, over |-> t.over] /\ u = [kind |-> t.kind, name |-> t.name, over |-> more]
    BY TypeRecord
  <2> HIDE DEF u, more
  <2>4. u.kind = t.kind /\ u.name = t.name /\ u.over = more
    BY <2>3
  <2>5. u \in AllTypes /\ (t \in ValueTypes => u \in ValueTypes)
    BY <2>2, <2>3 DEF AllTypes, ValueTypes
  <2>6. Kind(u) = w
    BY <2>2, <2>4 DEF Kind
  <2>7. Inner(u) = t
    <3>1. Inner(u) = [u EXCEPT !.over = t.over]
      BY <2>2, <2>4 DEF Inner
    <3>2. [u EXCEPT !.over = t.over] = [kind |-> t.kind, name |-> t.name, over |-> t.over]
      BY <2>3
    <3> QED BY <2>3, <3>1, <3>2
  <2>8. emit_type(u) = Ptr(emit_type(t))
    <3> DEFINE base == IF t.kind = "named" THEN Struct(t.name) ELSE emit_base(t.kind)
    <3>1. base \in CTypes /\ emit_type(t) = [c |-> base.c, struct |-> base.struct, stars |-> base.stars + Len(t.over)]
      BY EmitBase
    <3>2. emit_type(u) = [c |-> base.c, struct |-> base.struct, stars |-> base.stars + Len(more)]
      BY <2>4, <2>5, EmitBase
    <3> HIDE DEF base
    <3>3. base.stars \in Nat /\ Len(t.over) \in Nat
      BY <2>1, <3>1, Composition DEF CTypes
    <3> DEFINE n == base.stars + Len(t.over)
    <3>4. n \in Nat /\ base.stars + Len(more) = n + 1
      BY <2>2, <3>3
    <3> HIDE DEF n
    <3>5. emit_type(t) = [c |-> base.c, struct |-> base.struct, stars |-> n]
      BY <3>1 DEF n
    <3>6. emit_type(u) = [c |-> base.c, struct |-> base.struct, stars |-> n + 1]
      BY <3>2, <3>4
    <3>7. Ptr([c |-> base.c, struct |-> base.struct, stars |-> n])
             = [c |-> base.c, struct |-> base.struct, stars |-> n + 1]
      BY <3>4, PtrIs
    <3> QED BY <3>5, <3>6, <3>7
  <2> QED BY <2>5, <2>6, <2>7, <2>8 DEF u
<1>2. Span(t) = Wrap("span") /\ Ref(t) = Wrap("ref")
  BY DEF Span, Ref
<1>3. "span" \in Composes /\ "ref" \in Composes
  BY DEF Composes
<1> HIDE DEF Wrap
<1> QED BY <1>1, <1>2, <1>3

(* What a reference or a span is of is a star less in C.                   *)
LEMMA Unwraps ==
    ASSUME NEW t \in AllTypes, Kind(t) \in Composes
    PROVE  /\ Inner(t) \in AllTypes /\ (t \in ValueTypes => Inner(t) \in ValueTypes)
           /\ emit_type(t) = Ptr(emit_type(Inner(t)))
<1> DEFINE u == Inner(t)
<1>1. t.over \in Composed /\ t.over # <<>>
  BY Kinds
<1>2. Tail(t.over) \in Composed /\ Head(t.over) \in Composes /\ Len(t.over) = Len(Tail(t.over)) + 1
  BY <1>1, Composition
<1>3. u = [kind |-> t.kind, name |-> t.name, over |-> Tail(t.over)]
  BY TypeRecord DEF Inner
<1> HIDE DEF u
<1>4. u \in AllTypes /\ (t \in ValueTypes => u \in ValueTypes)
  BY <1>2, <1>3 DEF AllTypes, ValueTypes
<1> DEFINE base == IF t.kind = "named" THEN Struct(t.name) ELSE emit_base(t.kind)
<1>5. base \in CTypes /\ emit_type(t) = [c |-> base.c, struct |-> base.struct, stars |-> base.stars + Len(t.over)]
  BY EmitBase
<1>6. emit_type(u) = [c |-> base.c, struct |-> base.struct, stars |-> base.stars + Len(Tail(t.over))]
  BY <1>3, <1>4, EmitBase
<1> HIDE DEF base
<1>7. base.stars \in Nat /\ Len(Tail(t.over)) \in Nat
  BY <1>2, <1>5, Composition DEF CTypes
<1> DEFINE n == base.stars + Len(Tail(t.over))
<1>8. n \in Nat /\ base.stars + Len(t.over) = n + 1
  BY <1>2, <1>7
<1> HIDE DEF n
<1>9. emit_type(t) = Ptr(emit_type(u))
  <2>1. emit_type(u) = [c |-> base.c, struct |-> base.struct, stars |-> n]
    BY <1>6 DEF n
  <2>2. emit_type(t) = [c |-> base.c, struct |-> base.struct, stars |-> n + 1]
    BY <1>5, <1>8
  <2>3. Ptr([c |-> base.c, struct |-> base.struct, stars |-> n])
           = [c |-> base.c, struct |-> base.struct, stars |-> n + 1]
    BY <1>8, PtrIs
  <2> QED BY <2>1, <2>2, <2>3
<1> QED BY <1>4, <1>9 DEF u

(***************************************************************************)
(* The recursions over trees.                                              *)
(***************************************************************************)
Identifiers == Names \cup Enumerators
Known == [Identifiers -> ValueTypes \cup {None}]

(* The parts of a tree are lower ones.                                     *)
LEMMA PartsOf ==
    ASSUME NEW h \in DOMAIN Trees, NEW e \in Trees[h]
    PROVE  /\ e.e \in Literals \cup {"nil", "sizeof", "ident", "binary", "unary", "assign", "call",
                                     "index", "field", "array", "cast"}
           /\ e.e = "ident" => e.name \in Identifiers
           /\ e.e = "binary" => /\ e.op \in Tests \cup {"+", "-", "*", "/", "%"}
                                /\ e.lhs \in Lower(h) /\ e.rhs \in Lower(h)
           /\ e.e = "unary" => e.op \in {"-", "!"} /\ e.rhs \in Lower(h)
           /\ e.e = "assign" => /\ e.op \in {"=", "+=", "-=", "*=", "/="}
                                /\ e.lhs \in Lower(h) /\ e.rhs \in Lower(h)
           /\ e.e = "call" => e.args \in Seq(Lower(h))
           /\ e.e = "index" => e.base \in Lower(h) /\ e.index \in Lower(h)
           /\ e.e = "field" => e.base \in Lower(h)
           /\ e.e = "array" => e.elems \in Seq(Lower(h))
           /\ e.e = "cast" => e.to \in ValueTypes /\ e.lhs \in Lower(h)
<1>1. Expression(e, Lower(h))
  BY LowerIs
<1>2. e.e = "ident" => e.name \in Identifiers
  BY LowerIs, ExpressionsAssumption DEF Identifiers
<1> QED BY <1>1, <1>2 DEF Expression, Literals

(* infer, kind by kind.                                                    *)
LEMMA InferCases ==
    ASSUME NEW env, NEW f, NEW e
    PROVE  /\ e.e \in Literals => InferAt(env, f, e) = Type(e.e)
           /\ e.e = "nil" => InferAt(env, f, e) = TY_ANY
           /\ e.e = "sizeof" => InferAt(env, f, e) = TY_INT
           /\ e.e = "ident" => InferAt(env, f, e) = IF env[e.name] # None THEN env[e.name] ELSE TY_INT
           /\ e.e = "binary" => InferAt(env, f, e) = IF e.op \in Tests THEN TY_BOOL ELSE f[e.lhs]
           /\ e.e = "unary" => InferAt(env, f, e) = IF e.op = "!" THEN TY_BOOL ELSE f[e.rhs]
           /\ e.e = "assign" => InferAt(env, f, e) = f[e.lhs]
           /\ e.e = "call" => InferAt(env, f, e) = IF find_func(e.module, e.callee) = None THEN TY_INT
                                                   ELSE find_func(e.module, e.callee).result
           /\ e.e = "index" => InferAt(env, f, e) = IF Kind(f[e.base]) = "span" THEN Inner(f[e.base])
                                                    ELSE IF Kind(f[e.base]) = "text" THEN TY_CHAR ELSE TY_INT
           /\ e.e = "field" => InferAt(env, f, e) = field_type_of(f[e.base], e.field)
           /\ e.e = "array" => InferAt(env, f, e) = Span(IF e.elems = <<>> THEN TY_INT ELSE f[e.elems[1]])
           /\ e.e = "cast" => InferAt(env, f, e) = e.to
BY DEF InferAt, Literals

(* find_func finds a function, or none.                                    *)
LEMMA Found ==
    ASSUME NEW m, NEW n, find_func(m, n) # None
    PROVE  find_func(m, n) \in Functions
BY DEF find_func

(* A field has a type, also one that is not there.                         *)
LEMMA FieldType ==
    ASSUME NEW base \in AllTypes, NEW field
    PROVE  field_type_of(base, field) \in AllTypes
<1>1. Ref(base) \in AllTypes /\ TY_INT \in AllTypes
  BY Wraps, BaseTypes
<1>2. Kind(base) = "ref" => Inner(base) \in AllTypes
  BY Unwraps DEF Composes
<1>3. \A s \in DOMAIN Structs : \A f \in DOMAIN Structs[s] : Structs[s][f] \in AllTypes
  BY StructsAssumption, BaseTypes
<1> QED BY <1>1, <1>2, <1>3 DEF field_type_of

(* The elements of a sequence.                                             *)
LEMMA ElementsOf ==
    ASSUME NEW S, NEW s \in Seq(S)
    PROVE  /\ \A k \in DOMAIN s : s[k] \in S
           /\ s # <<>> => 1 \in DOMAIN s
OBVIOUS

(* infer at a tree makes a type, of the types of the lower ones.           *)
LEMMA InferStep ==
    ASSUME NEW env \in Known, NEW f, NEW h \in DOMAIN Trees, NEW e \in Trees[h],
           \A c \in Lower(h) : f[c] \in AllTypes
    PROVE  /\ InferAt(env, f, e) \in AllTypes
           /\ \A g : (\A c \in Lower(h) : f[c] = g[c]) => InferAt(env, f, e) = InferAt(env, g, e)
<1>0. \A c \in Lower(h) : f[c] \in AllTypes
  OBVIOUS
<1>1. CASE e.e \in Literals
  <2>1. e.e \in Plainly
    BY <1>1 DEF Literals, Plainly, Numbers, Wholes
  <2> QED BY <1>1, <2>1, InferCases, BaseTypes
<1>2. CASE e.e \in {"nil", "sizeof"}
  BY <1>2, InferCases, BaseTypes
<1>3. CASE e.e = "ident"
  <2>1. env[e.name] \in ValueTypes \cup {None}
    BY <1>3, PartsOf DEF Known
  <2> QED BY <1>3, <2>1, InferCases, BaseTypes
<1>4. CASE e.e \in {"binary", "unary", "assign"}
  BY <1>0, <1>4, PartsOf, InferCases, BaseTypes
<1>5. CASE e.e = "call"
  <2>1. find_func(e.module, e.callee) # None => find_func(e.module, e.callee).result \in AllTypes
    BY Found, FunctionsAssumption, BaseTypes
  <2> QED BY <1>5, <2>1, InferCases, BaseTypes
<1>6. CASE e.e = "index"
  <2>1. e.base \in Lower(h)
    BY <1>6, PartsOf
  <2>2. Kind(f[e.base]) = "span" => Inner(f[e.base]) \in AllTypes
    BY <1>0, <2>1, Unwraps DEF Composes
  <2>3. InferAt(env, f, e) \in AllTypes
    BY <1>6, <2>2, InferCases, BaseTypes
  <2> QED BY <1>6, <2>1, <2>3, InferCases
<1>7. CASE e.e = "field"
  <2>1. e.base \in Lower(h)
    BY <1>7, PartsOf
  <2>2. field_type_of(f[e.base], e.field) \in AllTypes
    BY <1>0, <2>1, FieldType
  <2> QED BY <1>7, <2>1, <2>2, InferCases
<1>8. CASE e.e = "array"
  <2>1. e.elems # <<>> => e.elems[1] \in Lower(h)
    BY <1>8, PartsOf, ElementsOf
  <2> DEFINE first == IF e.elems = <<>> THEN TY_INT ELSE f[e.elems[1]]
  <2>2. first \in AllTypes
    BY <1>0, <2>1, BaseTypes
  <2>3. Span(first) \in AllTypes
    BY <2>2, Wraps
  <2>4. InferAt(env, f, e) = Span(first)
    BY <1>8, InferCases
  <2>5. ASSUME NEW g, \A c \in Lower(h) : f[c] = g[c]
        PROVE  InferAt(env, f, e) = InferAt(env, g, e)
    <3>1. InferAt(env, g, e) = Span(IF e.elems = <<>> THEN TY_INT ELSE g[e.elems[1]])
      BY <1>8, InferCases
    <3>2. first = IF e.elems = <<>> THEN TY_INT ELSE g[e.elems[1]]
      BY <2>1, <2>5
    <3> QED BY <2>4, <3>1, <3>2
  <2> QED BY <2>3, <2>4, <2>5
<1>9. CASE e.e = "cast"
  BY <1>9, PartsOf, InferCases, BaseTypes
<1> QED BY <1>1, <1>2, <1>3, <1>4, <1>5, <1>6, <1>7, <1>8, <1>9, PartsOf

(* infer is a function on the trees that satisfies its equation.           *)
LEMMA InferIs ==
    ASSUME NEW env \in Known
    PROVE  /\ infer(env) \in [AllTrees -> AllTypes]
           /\ \A e \in AllTrees : infer(env)[e] = InferAt(env, infer(env), e)
<1> DEFINE Step(f) == [e \in AllTrees |-> InferAt(env, f, e)]
           F == [AllTrees -> AllTypes]
           G == [f \in F |-> Step(f)]
<1>1. ASSUME NEW f \in F PROVE Step(f) \in F
  <2>1. \A e \in AllTrees : InferAt(env, f, e) \in AllTypes
    BY LowerIs, InferStep
  <2> QED BY <2>1
<1>2. ASSUME NEW f \in F, NEW g \in F, NEW h \in DOMAIN Trees, \A c \in Lower(h) : f[c] = g[c]
      PROVE  \A e \in Trees[h] : Step(f)[e] = Step(g)[e]
  <2>1. ASSUME NEW e \in Trees[h] PROVE InferAt(env, f, e) = InferAt(env, g, e)
    <3>1. \A c \in Lower(h) : f[c] \in AllTypes
      BY LowerIs
    <3> QED BY <1>2, <3>1, InferStep
  <2> QED BY <2>1, LowerIs
<1>3. \A f \in F : G[f] = Step(f)
  OBVIOUS
<1>4. G \in [F -> F]
  BY <1>1
<1> HIDE DEF G, Step
<1>5. \A f, g \in F : \A h \in DOMAIN Trees :
          (\A c \in Lower(h) : f[c] = g[c]) => \A e \in Trees[h] : G[f][e] = G[g][e]
  BY <1>2, <1>3
<1>6. \E f \in F : f = G[f]
  BY <1>4, <1>5, Recursive, BaseTypes
<1>7. PICK f \in F : f = Step(f)
  BY <1>3, <1>6
<1> DEFINE i == CHOOSE g : g = Step(g)
<1>8. i = Step(i)
  BY <1>7, Zenon
<1>9. infer(env) = i
  BY DEF infer, Step
<1> HIDE DEF i
<1>10. i \in F
  <2>1. i = [e \in AllTrees |-> InferAt(env, i, e)]
    BY <1>8 DEF Step
  <2> DEFINE P == {e \in AllTrees : i[e] \in AllTypes}
  <2>2. ASSUME NEW h \in DOMAIN Trees, Lower(h) \subseteq P PROVE Trees[h] \subseteq P
    <3>1. \A e \in Trees[h] : InferAt(env, i, e) \in AllTypes
      BY <2>2, InferStep
    <3> QED BY <2>1, <3>1, LowerIs
  <2> HIDE DEF P
  <2>3. AllTrees \subseteq P
    BY <2>2, ByHeight
  <2> QED BY <2>1, <2>3 DEF P
<1> QED BY <1>8, <1>9, <1>10 DEF Step

(* What can be assigned to, of what can be of the lower ones.              *)
LEMMA PlaceStep ==
    ASSUME NEW f, NEW h \in DOMAIN Trees, NEW e \in Trees[h]
    PROVE  /\ PlaceAt(f, e) \in BOOLEAN
           /\ \A g : (\A c \in Lower(h) : f[c] = g[c]) => PlaceAt(f, e) = PlaceAt(g, e)
<1>1. PlaceAt(f, e) \in BOOLEAN
  BY DEF PlaceAt
<1>2. e.e = "field" => e.base \in Lower(h)
  BY PartsOf
<1> QED BY <1>1, <1>2 DEF PlaceAt

(* Place satisfies its equation.                                           *)
LEMMA PlaceIs ==
    /\ Place \in [AllTrees -> BOOLEAN]
    /\ \A e \in AllTrees : Place[e] = PlaceAt(Place, e)
<1> DEFINE Step(f) == [e \in AllTrees |-> PlaceAt(f, e)]
           F == [AllTrees -> BOOLEAN]
           G == [f \in F |-> Step(f)]
<1>1. ASSUME NEW f \in F PROVE Step(f) \in F
  <2>1. \A e \in AllTrees : PlaceAt(f, e) \in BOOLEAN
    BY LowerIs, PlaceStep
  <2> QED BY <2>1
<1>2. ASSUME NEW f \in F, NEW g \in F, NEW h \in DOMAIN Trees, \A c \in Lower(h) : f[c] = g[c]
      PROVE  \A e \in Trees[h] : Step(f)[e] = Step(g)[e]
  <2>1. \A e \in Trees[h] : PlaceAt(f, e) = PlaceAt(g, e)
    BY <1>2, PlaceStep
  <2> QED BY <2>1, LowerIs
<1>3. \A f \in F : G[f] = Step(f)
  OBVIOUS
<1>4. G \in [F -> F]
  BY <1>1
<1> HIDE DEF G, Step
<1>5. \A f, g \in F : \A h \in DOMAIN Trees :
          (\A c \in Lower(h) : f[c] = g[c]) => \A e \in Trees[h] : G[f][e] = G[g][e]
  BY <1>2, <1>3
<1>6. \E f \in F : f = G[f]
  BY <1>4, <1>5, Recursive
<1>7. PICK f \in F : f = Step(f)
  BY <1>3, <1>6
<1> DEFINE i == CHOOSE g : g = Step(g)
<1>8. i = Step(i)
  BY <1>7, Zenon
<1>9. Place = i
  BY DEF Place, Step
<1> HIDE DEF i
<1>10. i \in F
  <2>1. i = [e \in AllTrees |-> PlaceAt(i, e)]
    BY <1>8 DEF Step
  <2>2. \A e \in AllTrees : PlaceAt(i, e) \in BOOLEAN
    BY LowerIs, PlaceStep
  <2> QED BY <2>1, <2>2
<1> QED BY <1>8, <1>9, <1>10 DEF Step

Typings == AllTypes \cup {None}

(* The documentation gives a field a type or none.                         *)
LEMMA TypedFieldType ==
    ASSUME NEW base \in Typings, NEW place, NEW field
    PROVE  TypedField(base, place, field) \in Typings
<1>1. CASE base = None
  BY <1>1 DEF TypedField, Typings
<1>2. CASE base # None
  <2>1. base \in AllTypes
    BY <1>2 DEF Typings
  <2>2. Ref(base) \in AllTypes /\ TY_INT \in AllTypes
    BY <2>1, Wraps, BaseTypes
  <2>3. Kind(base) = "ref" => Inner(base) \in AllTypes
    BY <2>1, Unwraps DEF Composes
  <2> DEFINE held == IF Kind(base) = "ref" THEN Inner(base) ELSE base
  <2>4. held \in AllTypes
    BY <2>1, <2>3
  <2>5. Kind(held) = "named" => held.name \in DOMAIN Structs
    <3> HIDE DEF held
    <3>1. Kind(held) = "named" => held \in ValueTypes /\ held.kind = "named"
      BY <2>4, Kinds DEF Composes
    <3> QED BY <3>1, Kinds
  <2>6. \A s \in DOMAIN Structs : \A f \in DOMAIN Structs[s] : Structs[s][f] \in AllTypes
    BY StructsAssumption, BaseTypes
  <2>7. Kind(held) = "named" /\ field \in DOMAIN Structs[held.name] => Structs[held.name][field] \in AllTypes
    BY <2>5, <2>6
  <2> QED BY <1>2, <2>2, <2>3, <2>7 DEF TypedField, Typings, Judge
<1> QED BY <1>1, <1>2

(* The documentation's type of a tree, of the types of the lower ones.     *)
LEMMA TypedStep ==
    ASSUME NEW env \in Known, NEW p, NEW f, NEW h \in DOMAIN Trees, NEW e \in Trees[h],
           \A c \in Lower(h) : f[c] \in Typings
    PROVE  /\ TypedAt(env, p, f, e) \in Typings
           /\ \A g : (\A c \in Lower(h) : f[c] = g[c]) => TypedAt(env, p, f, e) = TypedAt(env, p, g, e)
<1>0. /\ \A c \in Lower(h) : f[c] \in Typings
      /\ None \in Typings /\ AllTypes \subseteq Typings
      /\ {TY_INT, TY_TEXT, TY_BOOL, TY_CHAR, TY_ANY, TY_VOID} \subseteq AllTypes
  BY BaseTypes DEF Typings
<1>1. CASE e.e \in Literals
  <2>1. e.e \in Plainly
    BY <1>1 DEF Literals, Plainly, Numbers, Wholes
  <2>2. Type(e.e) \in AllTypes
    BY <2>1, BaseTypes
  <2>3. \A g : TypedAt(env, p, g, e) = Type(e.e)
    BY <1>1 DEF TypedAt, Literals
  <2> QED BY <1>0, <2>2, <2>3
<1>2. CASE e.e \in {"nil", "sizeof"}
  <2>1. e.e = "nil" => \A g : TypedAt(env, p, g, e) = TY_ANY
    BY DEF TypedAt, Literals
  <2>2. e.e = "sizeof" => \A g : TypedAt(env, p, g, e) = TY_INT
    BY DEF TypedAt, Literals
  <2> QED BY <1>0, <1>2, <2>1, <2>2
<1>3. CASE e.e = "ident"
  <2>1. env[e.name] \in Typings
    BY <1>0, <1>3, PartsOf, BaseTypes DEF Known, Typings
  <2>2. \A g : TypedAt(env, p, g, e) = IF env[e.name] = None /\ e.name \in Enumerators THEN TY_INT ELSE env[e.name]
    BY <1>3 DEF TypedAt, Literals
  <2> QED BY <1>0, <2>1, <2>2
<1>4. CASE e.e = "binary"
  <2>1. e.lhs \in Lower(h) /\ e.rhs \in Lower(h)
    BY <1>4, PartsOf
  <2>2. \A g : TypedAt(env, p, g, e) = TypedBinary(e.op, g[e.lhs], g[e.rhs])
    BY <1>4 DEF TypedAt, Literals
  <2>3. TypedBinary(e.op, f[e.lhs], f[e.rhs]) \in {TY_BOOL, f[e.lhs], None}
    BY DEF TypedBinary, Judge
  <2>4. TypedAt(env, p, f, e) \in Typings
    BY <1>0, <2>1, <2>2, <2>3
  <2> QED BY <2>1, <2>2, <2>4
<1>5. CASE e.e \in {"unary", "assign"}
  <2>1. /\ e.e = "unary" => e.rhs \in Lower(h)
        /\ e.e = "assign" => e.lhs \in Lower(h) /\ e.rhs \in Lower(h)
    BY PartsOf
  <2>2. e.e = "unary" => \A g : TypedAt(env, p, g, e) =
            Judge(IF e.op = "!" THEN g[e.rhs] = TY_BOOL ELSE Numeric(g[e.rhs]), g[e.rhs])
    BY DEF TypedAt, Literals
  <2>3. e.e = "assign" => \A g : TypedAt(env, p, g, e) =
            Judge(p[e.lhs] /\ Fits(g[e.rhs], g[e.lhs]) /\ (e.op # "=" => Numeric(g[e.lhs])), g[e.lhs])
    BY DEF TypedAt, Literals
  <2>4. \A known, x : Judge(known, x) \in {x, None}
    BY DEF Judge
  <2>5. TypedAt(env, p, f, e) \in Typings
    <3>1. e.e = "unary" => TypedAt(env, p, f, e) \in {f[e.rhs], None}
      BY <2>2, <2>4, Zenon
    <3>2. e.e = "assign" => TypedAt(env, p, f, e) \in {f[e.lhs], None}
      BY <2>3, <2>4, Zenon
    <3> QED BY <1>0, <1>5, <2>1, <3>1, <3>2
  <2>6. ASSUME NEW g, \A c \in Lower(h) : f[c] = g[c]
        PROVE  TypedAt(env, p, f, e) = TypedAt(env, p, g, e)
    <3>1. CASE e.e = "unary"
      <4>1. f[e.rhs] = g[e.rhs]
        BY <2>1, <2>6, <3>1
      <4> QED BY <2>2, <3>1, <4>1, Zenon
    <3>2. CASE e.e = "assign"
      <4>1. f[e.rhs] = g[e.rhs] /\ f[e.lhs] = g[e.lhs]
        BY <2>1, <2>6, <3>2
      <4> QED BY <2>3, <3>2, <4>1, Zenon
    <3> QED BY <1>5, <3>1, <3>2
  <2> QED BY <2>5, <2>6
<1>6. CASE e.e = "call"
  <2> DEFINE d == find_func(e.module, e.callee)
             given == [k \in DOMAIN e.args |-> f[e.args[k]]]
  <2>1. d # None => d.result \in AllTypes
    BY Found, FunctionsAssumption, BaseTypes
  <2>2. TypedCall(d, given) \in Typings
    BY <1>0, <2>1 DEF TypedCall, Judge
  <2>3. \A k \in DOMAIN e.args : e.args[k] \in Lower(h)
    BY <1>6, PartsOf, ElementsOf
  <2>4. ASSUME NEW g, \A c \in Lower(h) : f[c] = g[c]
        PROVE  TypedAt(env, p, f, e) = TypedAt(env, p, g, e)
    <3>1. given = [k \in DOMAIN e.args |-> g[e.args[k]]]
      BY <2>3, <2>4
    <3> HIDE DEF given, d
    <3>2. TypedAt(env, p, f, e) = TypedCall(d, given)
      BY <1>6 DEF given, d, TypedAt, Literals
    <3>3. TypedAt(env, p, g, e) = TypedCall(d, given)
      BY <1>6, <3>1 DEF d, TypedAt, Literals
    <3> QED BY <3>2, <3>3
  <2>5. TypedAt(env, p, f, e) = TypedCall(d, given)
    BY <1>6 DEF TypedAt, Literals
  <2> HIDE DEF d, given
  <2> QED BY <2>2, <2>4, <2>5
<1>7. CASE e.e = "index"
  <2>1. e.base \in Lower(h) /\ e.index \in Lower(h)
    BY <1>7, PartsOf
  <2>2. f[e.base] # None /\ Kind(f[e.base]) = "span" => Inner(f[e.base]) \in AllTypes
    BY <1>0, <2>1, Unwraps DEF Composes, Typings
  <2>3. TypedIndex(e, f[e.base], f[e.index]) \in Typings
    BY <1>0, <2>2 DEF TypedIndex, Judge
  <2>4. TypedAt(env, p, f, e) = TypedIndex(e, f[e.base], f[e.index])
    BY <1>7 DEF TypedAt, Literals
  <2>5. ASSUME NEW g, \A c \in Lower(h) : f[c] = g[c]
        PROVE  TypedAt(env, p, f, e) = TypedAt(env, p, g, e)
    <3>1. TypedAt(env, p, g, e) = TypedIndex(e, g[e.base], g[e.index])
      BY <1>7 DEF TypedAt, Literals
    <3> QED BY <2>1, <2>4, <2>5, <3>1
  <2> QED BY <2>3, <2>4, <2>5
<1>8. CASE e.e = "field"
  <2>1. e.base \in Lower(h)
    BY <1>8, PartsOf
  <2>2. TypedField(f[e.base], p[e.base], e.field) \in Typings
    BY <1>0, <2>1, TypedFieldType
  <2>3. TypedAt(env, p, f, e) = TypedField(f[e.base], p[e.base], e.field)
    BY <1>8 DEF TypedAt, Literals
  <2>4. ASSUME NEW g, \A c \in Lower(h) : f[c] = g[c]
        PROVE  TypedAt(env, p, f, e) = TypedAt(env, p, g, e)
    <3>1. TypedAt(env, p, g, e) = TypedField(g[e.base], p[e.base], e.field)
      BY <1>8 DEF TypedAt, Literals
    <3>2. f[e.base] = g[e.base]
      BY <2>1, <2>4
    <3> QED BY <2>3, <3>1, <3>2, Zenon
  <2> QED BY <2>2, <2>3, <2>4
<1>9. CASE e.e = "array"
  <2> DEFINE types == [k \in DOMAIN e.elems |-> f[e.elems[k]]]
  <2>1. \A k \in DOMAIN e.elems : e.elems[k] \in Lower(h)
    BY <1>9, PartsOf, ElementsOf
  <2>2. types # <<>> => types[1] \in Typings
    <3>1. types # <<>> => e.elems # <<>>
      OBVIOUS
    <3>2. e.elems # <<>> => 1 \in DOMAIN e.elems
      BY <1>9, PartsOf, ElementsOf
    <3> QED BY <1>0, <2>1, <3>1, <3>2
  <2>3. \A g : (\A c \in Lower(h) : f[c] = g[c]) => types = [k \in DOMAIN e.elems |-> g[e.elems[k]]]
    BY <2>1
  <2>4. TypedAt(env, p, f, e) = TypedArray(types)
    BY <1>9 DEF TypedAt, Literals
  <2> HIDE DEF types
  <2>5. TypedArray(types) \in Typings
    <3>1. CASE types # <<>> /\ types[1] \in AllTypes
      <4>1. Span(types[1]) \in AllTypes
        BY <3>1, Wraps
      <4> QED BY <1>0, <4>1 DEF TypedArray
    <3>2. CASE types # <<>> /\ types[1] = None
      <4>1. \A k : ~(types[k] = types[1] /\ types[1] \notin {None, TY_VOID})
        BY <3>2
      <4>2. DOMAIN types # {}
        BY <2>2, <3>2, <1>9, PartsOf, ElementsOf DEF types
      <4> QED BY <1>0, <4>1, <4>2 DEF TypedArray
    <3>3. CASE types = <<>>
      BY <1>0, <3>3 DEF TypedArray
    <3> QED BY <2>2, <3>1, <3>2, <3>3 DEF Typings
  <2>6. ASSUME NEW g, \A c \in Lower(h) : f[c] = g[c]
        PROVE  TypedAt(env, p, f, e) = TypedAt(env, p, g, e)
    <3>1. TypedAt(env, p, g, e) = TypedArray([k \in DOMAIN e.elems |-> g[e.elems[k]]])
      BY <1>9 DEF TypedAt, Literals
    <3> QED BY <2>3, <2>4, <2>6, <3>1
  <2> QED BY <2>4, <2>5, <2>6
<1>10. CASE e.e = "cast"
  <2>1. e.lhs \in Lower(h) /\ e.to \in Typings
    BY <1>0, <1>10, PartsOf, BaseTypes
  <2>2. \A g : TypedAt(env, p, g, e) = Judge(g[e.lhs] # None /\ Castable(g[e.lhs], e.to), e.to)
    BY <1>10 DEF TypedAt, Literals
  <2>3. TypedAt(env, p, f, e) \in Typings
    BY <1>0, <2>1, <2>2 DEF Judge
  <2> QED BY <2>1, <2>2, <2>3
<1> QED BY <1>1, <1>2, <1>3, <1>4, <1>5, <1>6, <1>7, <1>8, <1>9, <1>10, PartsOf

(* Typed satisfies its equation.                                           *)
LEMMA TypedIs ==
    ASSUME NEW env \in Known
    PROVE  /\ Typed(env) \in [AllTrees -> Typings]
           /\ \A e \in AllTrees : Typed(env)[e] = TypedAt(env, Place, Typed(env), e)
<1> DEFINE Step(f) == [e \in AllTrees |-> TypedAt(env, Place, f, e)]
           F == [AllTrees -> Typings]
           G == [f \in F |-> Step(f)]
<1>1. ASSUME NEW f \in F PROVE Step(f) \in F
  <2>1. \A e \in AllTrees : TypedAt(env, Place, f, e) \in Typings
    BY LowerIs, TypedStep
  <2> QED BY <2>1
<1>2. ASSUME NEW f \in F, NEW g \in F, NEW h \in DOMAIN Trees, \A c \in Lower(h) : f[c] = g[c]
      PROVE  \A e \in Trees[h] : Step(f)[e] = Step(g)[e]
  <2>1. ASSUME NEW e \in Trees[h] PROVE TypedAt(env, Place, f, e) = TypedAt(env, Place, g, e)
    <3>1. \A c \in Lower(h) : f[c] \in Typings
      BY LowerIs
    <3> QED BY <1>2, <3>1, TypedStep
  <2> QED BY <2>1, LowerIs
<1>3. \A f \in F : G[f] = Step(f)
  OBVIOUS
<1>4. G \in [F -> F]
  BY <1>1
<1> HIDE DEF G, Step
<1>5. \A f, g \in F : \A h \in DOMAIN Trees :
          (\A c \in Lower(h) : f[c] = g[c]) => \A e \in Trees[h] : G[f][e] = G[g][e]
  BY <1>2, <1>3
<1>6. \E f \in F : f = G[f]
  <2>1. None \in Typings
    BY DEF Typings
  <2> QED BY <1>4, <1>5, <2>1, Recursive
<1>7. PICK f \in F : f = Step(f)
  BY <1>3, <1>6
<1> DEFINE i == CHOOSE g : g = Step(g)
<1>8. i = Step(i)
  BY <1>7, Zenon
<1>9. Typed(env) = i
  BY DEF Typed, Step
<1> HIDE DEF i
<1>10. i \in F
  <2>1. i = [e \in AllTrees |-> TypedAt(env, Place, i, e)]
    BY <1>8 DEF Step
  <2> DEFINE P == {e \in AllTrees : i[e] \in Typings}
  <2>2. ASSUME NEW h \in DOMAIN Trees, Lower(h) \subseteq P PROVE Trees[h] \subseteq P
    <3>1. \A e \in Trees[h] : TypedAt(env, Place, i, e) \in Typings
      BY <2>2, TypedStep
    <3> QED BY <2>1, <3>1, LowerIs
  <2> HIDE DEF P
  <2>3. AllTrees \subseteq P
    BY <2>2, ByHeight
  <2> QED BY <2>1, <2>3 DEF P
<1> QED BY <1>8, <1>9, <1>10 DEF Step

(* What infer says at an expression, if it agrees at its parts.            *)
LEMMA FieldAgrees ==
    ASSUME NEW base \in AllTypes, NEW place, NEW field, TypedField(base, place, field) # None
    PROVE  field_type_of(base, field) = TypedField(base, place, field)
<1> DEFINE held == IF Kind(base) = "ref" THEN Inner(base) ELSE base
<1>1. base # None
  BY DEF TypedField
<1>2. held \in AllTypes
  BY Unwraps DEF Composes
<1>3. Kind(held) = "named" => held.name \in DOMAIN Structs
  <2> HIDE DEF held
  <2>1. Kind(held) = "named" => held \in ValueTypes /\ held.kind = "named"
    BY <1>2, Kinds DEF Composes
  <2> QED BY <2>1, Kinds
<1> DEFINE fields == Structs[held.name]
<1>4. field_type_of(base, field) =
          CASE field = "address" -> Ref(base)
            [] field = "value" /\ Kind(base) = "ref" -> Inner(base)
            [] field = "length" /\ Kind(base) \in {"span", "text"} -> TY_INT
            [] OTHER -> IF Kind(held) = "named" /\ held.name \in DOMAIN Structs
                           /\ field \in DOMAIN fields THEN fields[field] ELSE TY_INT
  BY DEF field_type_of
<1>5. TypedField(base, place, field) =
          CASE field = "address" -> Judge(place, Ref(base))
            [] field = "value" -> Judge(Kind(base) = "ref", Inner(base))
            [] field = "length" -> Judge(Kind(base) \in {"span", "text"}, TY_INT)
            [] OTHER -> IF Kind(held) = "named" /\ field \in DOMAIN fields THEN fields[field] ELSE None
  BY <1>1 DEF TypedField
<1> HIDE DEF held, fields
<1> QED BY <1>3, <1>4, <1>5 DEF Judge

(* An operator has the type of its left operand, or it is a test.          *)
LEMMA SameOperators ==
    ASSUME NEW op \in Tests \cup {"+", "-", "*", "/", "%"}, NEW a, NEW b
    PROVE  TypedBinary(op, a, b) \in {IF op \in Tests THEN TY_BOOL ELSE a, None}
BY DEF TypedBinary, Judge, Tests

(* At a tree infer agrees if it does at the lower ones.                    *)
LEMMA InferredAt ==
    ASSUME NEW env \in Known, NEW p, NEW f, NEW g, NEW h \in DOMAIN Trees, NEW e \in Trees[h],
           \A c \in Lower(h) : f[c] \in Typings /\ (f[c] # None => g[c] = f[c]),
           TypedAt(env, p, f, e) # None
    PROVE  InferAt(env, g, e) = TypedAt(env, p, f, e)
<1>1. CASE e.e \in Literals \cup {"nil", "sizeof"}
  <2>1. e.e \in Literals => InferAt(env, g, e) = Type(e.e) /\ TypedAt(env, p, f, e) = Type(e.e)
    BY DEF InferAt, TypedAt, Literals
  <2>2. e.e = "nil" => InferAt(env, g, e) = TY_ANY /\ TypedAt(env, p, f, e) = TY_ANY
    BY InferCases DEF TypedAt, Literals
  <2>3. e.e = "sizeof" => InferAt(env, g, e) = TY_INT /\ TypedAt(env, p, f, e) = TY_INT
    BY InferCases DEF TypedAt, Literals
  <2> QED BY <1>1, <2>1, <2>2, <2>3
<1>2. CASE e.e = "ident"
  <2>1. TypedAt(env, p, f, e) = IF env[e.name] = None /\ e.name \in Enumerators THEN TY_INT ELSE env[e.name]
    BY <1>2 DEF TypedAt, Literals
  <2>2. InferAt(env, g, e) = IF env[e.name] # None THEN env[e.name] ELSE TY_INT
    BY <1>2 DEF InferAt, Literals
  <2> QED BY <2>1, <2>2
<1>3. CASE e.e = "binary"
  <2>1. e.lhs \in Lower(h) /\ e.op \in Tests \cup {"+", "-", "*", "/", "%"}
    BY <1>3, PartsOf
  <2>2. TypedAt(env, p, f, e) = TypedBinary(e.op, f[e.lhs], f[e.rhs])
    BY <1>3 DEF TypedAt, Literals
  <2>3. InferAt(env, g, e) = IF e.op \in Tests THEN TY_BOOL ELSE g[e.lhs]
    BY <1>3 DEF InferAt, Literals
  <2>4. TypedAt(env, p, f, e) \in {IF e.op \in Tests THEN TY_BOOL ELSE f[e.lhs], None}
    BY <2>1, <2>2, SameOperators
  <2>5. f[e.lhs] # None => g[e.lhs] = f[e.lhs]
    BY <2>1
  <2> QED BY <2>3, <2>4, <2>5
<1>4. CASE e.e = "unary"
  <2>1. e.rhs \in Lower(h)
    BY <1>4, PartsOf
  <2>2. TypedAt(env, p, f, e) =
            Judge(IF e.op = "!" THEN f[e.rhs] = TY_BOOL ELSE Numeric(f[e.rhs]), f[e.rhs])
    BY <1>4 DEF TypedAt, Literals
  <2>3. InferAt(env, g, e) = IF e.op = "!" THEN TY_BOOL ELSE g[e.rhs]
    BY <1>4 DEF InferAt, Literals
  <2>4. f[e.rhs] # None => g[e.rhs] = f[e.rhs]
    BY <2>1
  <2> QED BY <2>2, <2>3, <2>4 DEF Judge
<1>5. CASE e.e = "assign"
  <2>1. e.lhs \in Lower(h)
    BY <1>5, PartsOf
  <2>2. \E known : TypedAt(env, p, f, e) = Judge(known, f[e.lhs])
    BY <1>5 DEF TypedAt, Literals
  <2>3. InferAt(env, g, e) = g[e.lhs]
    BY <1>5 DEF InferAt, Literals
  <2>4. f[e.lhs] # None => g[e.lhs] = f[e.lhs]
    BY <2>1
  <2> QED BY <2>2, <2>3, <2>4 DEF Judge
<1>6. CASE e.e = "call"
  <2> DEFINE d == find_func(e.module, e.callee)
             given == [k \in DOMAIN e.args |-> f[e.args[k]]]
  <2>1. TypedAt(env, p, f, e) = TypedCall(d, given)
    BY <1>6 DEF TypedAt, Literals
  <2>2. InferAt(env, g, e) = IF d = None THEN TY_INT ELSE d.result
    BY <1>6 DEF InferAt, Literals
  <2> HIDE DEF d, given
  <2> QED BY <2>1, <2>2 DEF TypedCall, Judge
<1>7. CASE e.e = "index"
  <2>1. e.base \in Lower(h)
    BY <1>7, PartsOf
  <2>2. TypedAt(env, p, f, e) = TypedIndex(e, f[e.base], f[e.index])
    BY <1>7 DEF TypedAt, Literals
  <2>3. InferAt(env, g, e) = IF Kind(g[e.base]) = "span" THEN Inner(g[e.base])
                             ELSE IF Kind(g[e.base]) = "text" THEN TY_CHAR ELSE TY_INT
    BY <1>7 DEF InferAt, Literals
  <2>4. f[e.base] # None
    BY <2>2 DEF TypedIndex
  <2>5. g[e.base] = f[e.base]
    BY <2>1, <2>4
  <2>6. Kind(TY_TEXT) = "text"
    BY DEF Kind, TY_TEXT, Type
  <2> QED BY <2>2, <2>3, <2>5, <2>6 DEF TypedIndex, Judge
<1>8. CASE e.e = "field"
  <2>1. e.base \in Lower(h)
    BY <1>8, PartsOf
  <2>2. TypedAt(env, p, f, e) = TypedField(f[e.base], p[e.base], e.field)
    BY <1>8 DEF TypedAt, Literals
  <2>3. InferAt(env, g, e) = field_type_of(g[e.base], e.field)
    BY <1>8 DEF InferAt, Literals
  <2>4. f[e.base] # None
    BY <2>2 DEF TypedField
  <2>5. g[e.base] = f[e.base] /\ f[e.base] \in AllTypes
    BY <2>1, <2>4 DEF Typings
  <2>6. TypedField(f[e.base], p[e.base], e.field) # None
    BY <2>2, Zenon
  <2>7. field_type_of(f[e.base], e.field) = TypedField(f[e.base], p[e.base], e.field)
    BY <2>5, <2>6, FieldAgrees
  <2> QED BY <2>2, <2>3, <2>5, <2>7
<1>9. CASE e.e = "array"
  <2> DEFINE types == [k \in DOMAIN e.elems |-> f[e.elems[k]]]
  <2>1. \A k \in DOMAIN e.elems : e.elems[k] \in Lower(h)
    BY <1>9, PartsOf, ElementsOf
  <2>2. e.elems # <<>> => 1 \in DOMAIN e.elems
    BY <1>9, PartsOf, ElementsOf
  <2>3. TypedAt(env, p, f, e) = TypedArray(types)
    BY <1>9 DEF TypedAt, Literals
  <2>4. InferAt(env, g, e) = Span(IF e.elems = <<>> THEN TY_INT ELSE g[e.elems[1]])
    BY <1>9 DEF InferAt, Literals
  <2>5. types # <<>> => e.elems # <<>> /\ types[1] = f[e.elems[1]]
    BY <2>2
  <2> HIDE DEF types
  <2>6. types # <<>> /\ (\A k \in DOMAIN types : types[k] = types[1] /\ types[1] \notin {None, TY_VOID})
        /\ TypedArray(types) = Span(types[1])
    BY <2>3 DEF TypedArray
  <2>7. 1 \in DOMAIN types
    BY <2>2, <2>5, <2>6 DEF types
  <2>8. g[e.elems[1]] = f[e.elems[1]]
    BY <2>1, <2>2, <2>5, <2>6, <2>7
  <2> QED BY <2>3, <2>4, <2>5, <2>6, <2>8
<1>10. CASE e.e = "cast"
  <2>1. \E known : TypedAt(env, p, f, e) = Judge(known, e.to)
    BY <1>10 DEF TypedAt, Literals
  <2>2. InferAt(env, g, e) = e.to
    BY <1>10 DEF InferAt, Literals
  <2> QED BY <2>1, <2>2 DEF Judge
<1> QED BY <1>1, <1>2, <1>3, <1>4, <1>5, <1>6, <1>7, <1>8, <1>9, <1>10, PartsOf

(* What the documentation gives a type, infer gives the same.              *)
LEMMA Inferred ==
    ASSUME NEW env \in Known
    PROVE  \A e \in AllTrees : Typed(env)[e] # None => infer(env)[e] = Typed(env)[e]
<1> DEFINE f == Typed(env)
           g == infer(env)
           P == {e \in AllTrees : f[e] # None => g[e] = f[e]}
<1>1. ASSUME NEW h \in DOMAIN Trees, Lower(h) \subseteq P PROVE Trees[h] \subseteq P
  <2>1. \A c \in Lower(h) : f[c] \in Typings /\ (f[c] # None => g[c] = f[c])
    BY <1>1, LowerIs, TypedIs
  <2>2. ASSUME NEW e \in Trees[h] PROVE e \in P
    <3>1. e \in AllTrees
      BY LowerIs
    <3>2. f[e] = TypedAt(env, Place, f, e) /\ g[e] = InferAt(env, g, e)
      BY <3>1, TypedIs, InferIs
    <3> HIDE DEF f, g
    <3>3. TypedAt(env, Place, f, e) # None => InferAt(env, g, e) = TypedAt(env, Place, f, e)
      BY <2>1, InferredAt
    <3> QED BY <3>1, <3>2, <3>3
  <2> QED BY <2>2
<1> HIDE DEF P
<1>2. AllTrees \subseteq P
  BY <1>1, ByHeight
<1> QED BY <1>2 DEF P

(* In front of a statement the generator knows of names what C does, and   *)
(* the trees that the statement can be are trees of the program.           *)
LEMMA InFront ==
    ASSUME IInv
    PROVE  LookedUp = Meant /\ LookedUp \in Known /\ Expressed \subseteq AllTrees
<1>1. Walking /\ Told(out, scopes)
  BY DEF IInv
<1> DEFINE at == CReading(out)[Len(out)]
<1>2. scopes \in Seq(Seq(VariableOf)) /\ at \in Seq(Seq(Item)) /\ Mirrors(scopes, at)
  BY <1>1 DEF Told
<1> HIDE DEF at
<1>3. \A x : LookUp(scopes, x) = LookUp(at, x)
  BY <1>2, MirrorsLookUp
<1>4. \A x : CBinding(Len(out), x) = LookUp(at, x)
  BY Zenon DEF CBinding, CScopes, at
<1>5. \A x : scope_lookup(x) = CBinding(Len(out), x)
  BY <1>3, <1>4 DEF scope_lookup
<1>6. LookedUp = Meant
  BY <1>5 DEF LookedUp, Meant
<1>7. \A x : scope_lookup(x) \in ValueTypes \cup {None}
  BY <1>2, LookUpType, TypesAssumption DEF scope_lookup, VariableOf
<1>8. LookedUp \in Known
  BY <1>7 DEF LookedUp, Known, Identifiers
<1>9. Expressed \subseteq AllTrees
  <2>1. Doing("statements") /\ Task.list # <<>> => Current \in Nodes
    <3> SUFFICES ASSUME Doing("statements"), Task.list # <<>> PROVE Current \in Nodes
      OBVIOUS
    <3>1. Statement(Current.kind)
      BY DEF Statement, Current
    <3> QED BY <1>1, <3>1, StatementFacts
  <2>2. \A s \in Nodes : "trees" \in DOMAIN s => s.trees \subseteq AllTrees
    BY ExpressionsAssumption
  <2> QED BY <2>1, <2>2 DEF Expressed
<1> QED BY <1>6, <1>8, <1>9

(* The generator infers of an expression the type that the documentation   *)
(* gives it, for every program, in front of every statement, and for every *)
(* expression however deep.                                                *)
THEOREM InfersAsDocumented == Spec => []InferAgrees
<1>1. IInv => InferAgrees
  <2> SUFFICES ASSUME IInv PROVE InferAgrees
    OBVIOUS
  <2>1. Expressed \subseteq AllTrees /\ LookedUp = Meant /\ Meant \in Known
    BY InFront
  <2>2. \A e \in AllTrees : Typed(Meant)[e] # None => infer(Meant)[e] = Typed(Meant)[e]
    BY <2>1, Inferred
  <2>3. \A e \in Expressed : Typed(Meant)[e] # None => infer(LookedUp)[e] = Typed(Meant)[e]
    BY <2>1, <2>2
  <2> QED BY <2>3, Zenon DEF InferAgrees
<1> QED BY <1>1, Invariance, PTL

-------------------------------------------------------------------------------
(***************************************************************************)
(* What C makes of an expression is a type of C, and the rest.             *)
(***************************************************************************)
CTexts == [type : CTypes, place : BOOLEAN, compares : BOOLEAN, elem : CTypes]

(* A star more or less makes a type of C.                                  *)
LEMMA PtrType ==
    ASSUME NEW t \in CTypes
    PROVE  /\ Ptr(t) \in CTypes /\ Ptr(t).stars = t.stars + 1 /\ Ptr(t).c = t.c /\ Ptr(t).stars > 0
           /\ Pointee(Ptr(t)) = t
           /\ t.stars > 0 => Pointee(t) \in CTypes
<1>1. t = [c |-> t.c, struct |-> t.struct, stars |-> t.stars] /\ t.stars \in Nat
      /\ t.c \in Words /\ t.struct \in DOMAIN Structs \cup {""}
  BY CTypeForm
<1> DEFINE a == t.c
           b == t.struct
           n == t.stars
<1> HIDE DEF a, b, n
<1>2. t = [c |-> a, struct |-> b, stars |-> n] /\ n \in Nat /\ a \in Words /\ b \in DOMAIN Structs \cup {""}
  BY <1>1 DEF a, b, n
<1>3. n + 1 \in Nat /\ n + 1 > 0 /\ (n > 0 => n - 1 \in Nat) /\ (n + 1) - 1 = n
  <2>1. \A m \in Nat : m + 1 \in Nat /\ m + 1 > 0 /\ (m > 0 => m - 1 \in Nat) /\ (m + 1) - 1 = m
    OBVIOUS
  <2>2. n \in Nat
    BY <1>2
  <2> QED BY <2>1, <2>2
<1>4. Ptr(t) = [c |-> a, struct |-> b, stars |-> n + 1]
  BY <1>2, PtrIs
<1>5. Pointee(t) = [c |-> a, struct |-> b, stars |-> n - 1]
  BY <1>2, PointeeIs
<1>6. Pointee(Ptr(t)) = [c |-> a, struct |-> b, stars |-> (n + 1) - 1]
  BY <1>3, <1>4, PointeeIs
<1>7. Pointee(Ptr(t)) = t
  BY <1>2, <1>3, <1>6
<1>8. Ptr(t) \in CTypes /\ (n > 0 => Pointee(t) \in CTypes)
  BY <1>2, <1>3, <1>4, <1>5, CTypeForm
<1>9. Ptr(t).stars = n + 1 /\ Ptr(t).c = a
  BY <1>4
<1> QED BY <1>3, <1>7, <1>8, <1>9 DEF n, a

(* So does promotion.                                                      *)
LEMMA PromotedType ==
    ASSUME NEW t \in CTypes
    PROVE  Promoted(t) \in CTypes
BY Pointers DEF Promoted

(* A unary operator.                                                       *)
LEMMA UnaryType ==
    ASSUME NEW op \in {"!", "-", "&", "*"}, NEW a \in CTexts
    PROVE  TypeOfUnary(op, a) \in CTypes
<1>1. a.type \in CTypes
  BY DEF CTexts
<1>2. CInt \in CTypes /\ Refused \in CTypes /\ Promoted(a.type) \in CTypes /\ Ptr(a.type) \in CTypes
  BY <1>1, Pointers, PromotedType, PtrType
<1>3. Pointed(a.type) => Pointee(a.type) \in CTypes
  BY <1>1, PtrType DEF Pointed, Pointer
<1> QED BY <1>2, <1>3 DEF TypeOfUnary, Accept

(* A binary operator.                                                      *)
LEMMA BinaryType ==
    ASSUME NEW op, NEW place, NEW a \in CTypes, NEW b \in CTypes
    PROVE  TypeOfBinary(op, place, a, b) \in CTypes
<1>1. CInt \in CTypes /\ Refused \in CTypes
  BY Pointers
<1>2. Pointed(a) => Pointee(a) \in CTypes
  BY PtrType DEF Pointed, Pointer
<1>3. Common(a, b) \in CTypes
  BY PromotedType DEF Common
<1> QED BY <1>1, <1>2, <1>3 DEF TypeOfBinary, Accept

(* The environment of C that comes of what the names mean.                 *)
LEMMA EnvironmentIs ==
    ASSUME NEW env \in Known
    PROVE  LET c == CEnvironment(env) IN
           /\ \A x \in Identifiers : /\ c.variables[x] \in CTypes
                                     /\ c.variables[x] = IF env[x] = None THEN Refused ELSE emit_type(env[x])
           /\ DOMAIN c.structs = DOMAIN Structs
           /\ \A s \in DOMAIN Structs :
                 /\ DOMAIN c.structs[s] = DOMAIN Structs[s]
                 /\ \A f \in DOMAIN Structs[s] : /\ c.structs[s][f] = emit_type(Structs[s][f])
                                                 /\ c.structs[s][f] \in CTypes
           /\ DOMAIN c.functions = DOMAIN Natives \cup {f.symbol : f \in Functions}
           /\ \A s \in DOMAIN Natives : c.functions[s] = Natives[s]
           /\ \A s \in DOMAIN c.functions : c.functions[s].result \in CTypes
<1> DEFINE c == CEnvironment(env)
           symbols == DOMAIN Natives \cup {f.symbol : f \in Functions}
           declared(s) == CHOOSE f \in Functions : f.symbol = s
           made(s) == IF s \in DOMAIN Natives THEN Natives[s]
                      ELSE Prototype([k \in DOMAIN declared(s).params |-> emit_type(declared(s).params[k])],
                                     emit_type(declared(s).result))
<1>1. /\ c.variables = [x \in DOMAIN env |-> IF env[x] = None THEN Refused ELSE emit_type(env[x])]
      /\ c.structs = [s \in DOMAIN Structs |-> [f \in DOMAIN Structs[s] |-> emit_type(Structs[s][f])]]
      /\ c.functions = [s \in symbols |-> made(s)]
  BY DEF CEnvironment
<1> HIDE DEF c
<1>2. DOMAIN env = Identifiers /\ \A x \in Identifiers : env[x] \in AllTypes \cup {None}
  BY BaseTypes DEF Known
<1>z. \A x \in Identifiers : env[x] # None => emit_type(env[x]) \in CTypes
  BY <1>2, EmittedType
<1>3. \A x \in Identifiers : /\ c.variables[x] \in CTypes
                             /\ c.variables[x] = IF env[x] = None THEN Refused ELSE emit_type(env[x])
  <2> TAKE x \in Identifiers
  <2>1. c.variables = [y \in DOMAIN env |-> IF env[y] = None THEN Refused ELSE emit_type(env[y])]
    BY <1>1
  <2>2. c.variables[x] = IF env[x] = None THEN Refused ELSE emit_type(env[x])
    BY <1>2, <2>1
  <2>3. Refused \in CTypes
    BY Pointers
  <2> QED BY <1>z, <2>2, <2>3
<1>4. \A s \in DOMAIN Structs : \A f \in DOMAIN Structs[s] : emit_type(Structs[s][f]) \in CTypes
  BY StructsAssumption, BaseTypes, EmittedType
<1>5. \A s \in DOMAIN Natives : Natives[s].result \in CTypes
  <2>1. {C("uint64_t"), C("bool"), C("int64_t"), C("void"), C("double"), CString, CInt, Address} \subseteq CTypes
    BY Pointers DEF Words
  <2>2. \A p, r : Prototype(p, r).result = r
    BY DEF Prototype
  <2> HIDE DEF CString, CInt, Address
  <2> QED BY <2>1, <2>2 DEF Natives
<1>6. ASSUME NEW s \in {f.symbol : f \in Functions} PROVE emit_type(declared(s).result) \in CTypes
  <2>1. \E f \in Functions : f.symbol = s
    OBVIOUS
  <2>2. declared(s) \in Functions
    BY <2>1, Zenon
  <2> HIDE DEF declared
  <2>3. declared(s).result \in AllTypes
    BY <2>2, FunctionsAssumption, BaseTypes
  <2> QED BY <2>3, EmittedType
<1>7. \A s \in symbols : made(s).result \in CTypes
  <2> TAKE s \in symbols
  <2>1. CASE s \in DOMAIN Natives
    BY <1>5, <2>1
  <2>2. CASE s \notin DOMAIN Natives
    <3>1. emit_type(declared(s).result) \in CTypes
      BY <1>6, <2>2
    <3> HIDE DEF declared
    <3> QED BY <2>2, <3>1 DEF Prototype
  <2> QED BY <2>1, <2>2
<1> HIDE DEF made
<1>8. \A s \in DOMAIN Natives : c.functions[s] = Natives[s]
  BY <1>1 DEF made
<1> QED BY <1>1, <1>3, <1>4, <1>7, <1>8 DEF c

(* A call.                                                                 *)
LEMMA CallType ==
    ASSUME NEW c, \A s \in DOMAIN c.functions : c.functions[s].result \in CTypes, NEW symbol, NEW given
    PROVE  TypeOfCall(c, symbol, given) \in CTypes
<1>1. Refused \in CTypes /\ C("void") \in CTypes
  BY Pointers DEF Words
<1> QED BY <1>1 DEF TypeOfCall, Accept

(* A cast.                                                                 *)
LEMMA CastType ==
    ASSUME NEW t \in CTypes, NEW s
    PROVE  TypeOfCast(t, s) \in CTypes
BY Pointers DEF TypeOfCast, Accept

(* A member.                                                               *)
LEMMA MemberType ==
    ASSUME NEW env \in Known, NEW by, NEW t \in CTypes, NEW field
    PROVE  TypeOfMember(CEnvironment(env), by, t, field) \in CTypes
<1> DEFINE c == CEnvironment(env)
           held == IF by = "->" /\ Pointed(t) THEN Pointee(t) ELSE t
<1>1. Refused \in CTypes
  BY Pointers
<1>2. /\ DOMAIN c.structs = DOMAIN Structs
      /\ \A s \in DOMAIN Structs : \A f \in DOMAIN c.structs[s] : c.structs[s][f] \in CTypes
  BY EnvironmentIs
<1>3. held.struct \in DOMAIN Structs \cup {""}
  BY PtrType, CTypeForm DEF Pointed, Pointer
<1> HIDE DEF c
<1> QED BY <1>1, <1>2, <1>3 DEF c, TypeOfMember

(* An operation on expressions makes an expression.                        *)
LEMMA MadeText ==
    ASSUME NEW type \in CTypes, NEW place \in BOOLEAN, NEW args
    PROVE  Made(type, place, args) \in CTexts
<1>1. Refused \in CTypes
  BY Pointers
<1>2. (\E k \in DOMAIN args : args[k].compares) \in BOOLEAN
  OBVIOUS
<1>3. (IF \E k \in DOMAIN args : args[k].type = Refused THEN Refused ELSE type) \in CTypes
  BY <1>1
<1> QED BY <1>1, <1>2, <1>3 DEF Made, CTexts

(* An expression with a field replaced.                                    *)
LEMMA TextRecord ==
    ASSUME NEW m \in CTexts
    PROVE  /\ \A b : /\ [m EXCEPT !.compares = b].type = m.type
                     /\ [m EXCEPT !.compares = b].place = m.place
                     /\ [m EXCEPT !.compares = b].compares = b
                     /\ [m EXCEPT !.compares = b].elem = m.elem
                     /\ b \in BOOLEAN => [m EXCEPT !.compares = b] \in CTexts
           /\ \A t : /\ [m EXCEPT !.elem = t].type = m.type
                     /\ [m EXCEPT !.elem = t].place = m.place
                     /\ [m EXCEPT !.elem = t].compares = m.compares
                     /\ [m EXCEPT !.elem = t].elem = t
                     /\ t \in CTypes => [m EXCEPT !.elem = t] \in CTexts
BY DEF CTexts

(* A constant.                                                             *)
LEMMA ConstantText ==
    ASSUME NEW type \in CTypes
    PROVE  Constant(type) \in CTexts
BY MadeText DEF Constant

(* A unary operator's.                                                     *)
LEMMA UnaryText ==
    ASSUME NEW op \in {"!", "-", "&", "*"}, NEW a \in CTexts
    PROVE  Unary(op, a) \in CTexts
<1>1. TypeOfUnary(op, a) \in CTypes /\ (op = "*") \in BOOLEAN
  BY UnaryType
<1> QED BY <1>1, MadeText DEF Unary

(* A binary operator's, field by field.                                    *)
LEMMA OperatorIs ==
    ASSUME NEW op, NEW a \in CTexts, NEW b \in CTexts
    PROVE  /\ Operator(op, a, b) \in CTexts
           /\ Operator(op, a, b).type = IF Refused \in {a.type, b.type} THEN Refused
                                        ELSE TypeOfBinary(op, a.place, a.type, b.type)
           /\ Operator(op, a, b).place <=> op = "[]"
           /\ Operator(op, a, b).compares <=>
                  a.compares \/ b.compares \/ (op \in {"==", "!="} /\ a.type = CString /\ b.type = CString)
           /\ Operator(op, a, b).elem = Refused
<1> DEFINE type == TypeOfBinary(op, a.place, a.type, b.type)
           args == <<a, b>>
           made == Made(type, op = "[]", args)
           texts == op \in {"==", "!="} /\ {a.type, b.type} = {CString}
<1>1. type \in CTypes /\ (op = "[]") \in BOOLEAN
  BY BinaryType DEF CTexts
<1>2. DOMAIN args = {1, 2} /\ args[1] = a /\ args[2] = b
  OBVIOUS
<1> HIDE DEF type, args
<1>3. made \in CTexts
  BY <1>1, MadeText
<1>4. /\ made.type = IF \E k \in DOMAIN args : args[k].type = Refused THEN Refused ELSE type
      /\ made.place <=> (op = "[]")
      /\ made.compares <=> \E k \in DOMAIN args : args[k].compares
      /\ made.elem = Refused
  BY DEF Made
<1>5. (\E k \in DOMAIN args : args[k].type = Refused) <=> Refused \in {a.type, b.type}
  BY <1>2
<1>6. (\E k \in DOMAIN args : args[k].compares) <=> a.compares \/ b.compares
  BY <1>2
<1>7. Operator(op, a, b) = [made EXCEPT !.compares = made.compares \/ texts]
  BY DEF Operator, args, type
<1>8. texts <=> op \in {"==", "!="} /\ a.type = CString /\ b.type = CString
  OBVIOUS
<1> HIDE DEF made, texts
<1> DEFINE v == made.compares \/ texts
<1>9. v \in BOOLEAN
  OBVIOUS
<1>10. Operator(op, a, b) = [made EXCEPT !.compares = v]
  BY <1>7
<1>11. v <=> a.compares \/ b.compares \/ (op \in {"==", "!="} /\ a.type = CString /\ b.type = CString)
  BY <1>4, <1>6, <1>8
<1> HIDE DEF v
<1>12. /\ Operator(op, a, b) \in CTexts
       /\ Operator(op, a, b).type = made.type
       /\ Operator(op, a, b).place = made.place
       /\ Operator(op, a, b).compares = v
       /\ Operator(op, a, b).elem = made.elem
  BY <1>3, <1>9, <1>10, TextRecord
<1>13. Operator(op, a, b).type = IF Refused \in {a.type, b.type} THEN Refused ELSE type
  BY <1>4, <1>5, <1>12
<1>14. Operator(op, a, b).place <=> op = "[]"
  BY <1>4, <1>12
<1> QED BY <1>4, <1>11, <1>12, <1>13, <1>14 DEF type

(* A call's.                                                               *)
LEMMA CallsText ==
    ASSUME NEW env \in Known, NEW symbol, NEW args
    PROVE  Calls(CEnvironment(env), symbol, args) \in CTexts
<1> DEFINE c == CEnvironment(env)
<1>1. \A s \in DOMAIN c.functions : c.functions[s].result \in CTypes
  BY EnvironmentIs
<1> HIDE DEF c
<1>2. TypeOfCall(c, symbol, [k \in DOMAIN args |-> args[k].type]) \in CTypes
  BY <1>1, CallType
<1> QED BY <1>2, MadeText DEF Calls, c

(* A cast's.                                                               *)
LEMMA CastToText ==
    ASSUME NEW type \in CTypes, NEW a
    PROVE  CastTo(type, a) \in CTexts
<1>1. TypeOfCast(type, a.type) \in CTypes
  BY CastType
<1> QED BY <1>1, MadeText DEF CastTo

(* A member's.                                                             *)
LEMMA MemberText ==
    ASSUME NEW env \in Known, NEW by, NEW a \in CTexts, NEW field
    PROVE  Member(CEnvironment(env), by, a, field) \in CTexts
<1>1. a.type \in CTypes /\ a.place \in BOOLEAN
  BY DEF CTexts
<1>2. TypeOfMember(CEnvironment(env), by, a.type, field) \in CTypes
  BY <1>1, MemberType
<1>3. (by = "->" \/ a.place) \in BOOLEAN
  OBVIOUS
<1> QED BY <1>2, <1>3, MadeText DEF Member

(* An array literal's, field by field.                                     *)
LEMMA SpanOfIs ==
    ASSUME NEW elem \in CTypes, NEW elems
    PROVE  /\ SpanOf(elem, elems) \in CTexts
           /\ SpanOf(elem, elems).type = IF \E k \in DOMAIN elems : elems[k].type = Refused THEN Refused
                                         ELSE Accept(\A k \in DOMAIN elems : Converts(elems[k].type, elem), Address)
           /\ SpanOf(elem, elems).compares <=> \E k \in DOMAIN elems : elems[k].compares
           /\ SpanOf(elem, elems).elem = elem
<1> DEFINE type == Accept(\A k \in DOMAIN elems : Converts(elems[k].type, elem), Address)
           made == Made(type, FALSE, elems)
<1>1. type \in CTypes
  BY Pointers DEF Accept
<1>2. SpanOf(elem, elems) = [made EXCEPT !.elem = elem]
  BY DEF SpanOf
<1>3. made \in CTexts
  <2> HIDE DEF type
  <2> QED BY <1>1, MadeText
<1>4. /\ made.type = IF \E k \in DOMAIN elems : elems[k].type = Refused THEN Refused ELSE type
      /\ made.compares <=> \E k \in DOMAIN elems : elems[k].compares
  BY DEF Made
<1> HIDE DEF made, type
<1>5. /\ SpanOf(elem, elems) \in CTexts /\ SpanOf(elem, elems).type = made.type
      /\ SpanOf(elem, elems).compares = made.compares /\ SpanOf(elem, elems).elem = elem
  BY <1>2, <1>3, TextRecord
<1> QED BY <1>4, <1>5 DEF type

(* gen_field makes an expression of C, of that of the base.                *)
LEMMA FieldText ==
    ASSUME NEW env \in Known, NEW type, NEW f, NEW e, f[e.base] \in CTexts
    PROVE  /\ gen_field(CEnvironment(env), type, f, e) \in CTexts
           /\ \A g : f[e.base] = g[e.base] =>
                gen_field(CEnvironment(env), type, f, e) = gen_field(CEnvironment(env), type, g, e)
<1> DEFINE c == CEnvironment(env)
           base == f[e.base]
           kind == Kind(type[e.base])
<1>1. /\ Unary("&", base) \in CTexts /\ Unary("*", base) \in CTexts
      /\ \A by, field : Member(c, by, base, field) \in CTexts
      /\ \A s, a : Calls(c, s, a) \in CTexts
      /\ \A a : CastTo(CInt, a) \in CTexts
  BY UnaryText, MemberText, CallsText, CastToText, Pointers
<1>2. \A g : gen_field(c, type, g, e) =
        CASE e.field = "address" -> Unary("&", g[e.base])
          [] e.field = "value" /\ kind = "ref" -> Unary("*", g[e.base])
          [] e.field = "length" /\ kind = "text" -> CastTo(CInt, Calls(c, "rt_text_len", <<g[e.base]>>))
          [] e.field = "length" /\ kind = "span" -> Calls(c, "rt_span_len", <<g[e.base]>>)
          [] OTHER -> Member(c, IF kind = "ref" THEN "->" ELSE ".", g[e.base], e.field)
  BY DEF gen_field
<1> HIDE DEF c, kind
<1>3. gen_field(c, type, f, e) \in CTexts
  BY <1>1, <1>2
<1>4. ASSUME NEW g, f[e.base] = g[e.base] PROVE gen_field(c, type, f, e) = gen_field(c, type, g, e)
  BY <1>2, <1>4
<1> QED BY <1>3, <1>4 DEF c

(* Binary makes one of those of the operands.                              *)
LEMMA BinaryText ==
    ASSUME NEW env \in Known, NEW type, NEW f, NEW e, f[e.lhs] \in CTexts, f[e.rhs] \in CTexts
    PROVE  /\ Binary(CEnvironment(env), type, f, e) \in CTexts
           /\ \A g : f[e.lhs] = g[e.lhs] /\ f[e.rhs] = g[e.rhs] =>
                Binary(CEnvironment(env), type, f, e) = Binary(CEnvironment(env), type, g, e)
<1> DEFINE c == CEnvironment(env)
           texts == Kind(type[e.lhs]) = "text" /\ Kind(type[e.rhs]) = "text"
<1>1. \A g : Binary(c, type, g, e) =
        CASE texts /\ e.op = "+" -> Calls(c, "rt_text_concat", <<g[e.lhs], g[e.rhs]>>)
          [] texts /\ e.op = "==" -> Calls(c, "rt_text_equal", <<g[e.lhs], g[e.rhs]>>)
          [] texts /\ e.op = "!=" -> Unary("!", Calls(c, "rt_text_equal", <<g[e.lhs], g[e.rhs]>>))
          [] OTHER -> Operator(e.op, g[e.lhs], g[e.rhs])
  BY DEF Binary
<1>2. \A s, a : Calls(c, s, a) \in CTexts
  BY CallsText
<1>3. \A s, a : Unary("!", Calls(c, s, a)) \in CTexts
  BY <1>2, UnaryText
<1>4. Operator(e.op, f[e.lhs], f[e.rhs]) \in CTexts
  BY OperatorIs
<1> HIDE DEF c, texts
<1>5. Binary(c, type, f, e) \in CTexts
  BY <1>1, <1>2, <1>3, <1>4
<1>6. ASSUME NEW g, f[e.lhs] = g[e.lhs], f[e.rhs] = g[e.rhs] PROVE Binary(c, type, f, e) = Binary(c, type, g, e)
  BY <1>1, <1>6
<1> QED BY <1>5, <1>6 DEF c

(* gen_expr at a tree makes an expression of C, of those of the lower      *)
(* ones.                                                                   *)
LEMMA GenStep ==
    ASSUME NEW env \in Known, NEW c, c = CEnvironment(env), NEW type \in [AllTrees -> AllTypes],
           NEW f, NEW h \in DOMAIN Trees, NEW e \in Trees[h], \A a \in Lower(h) : f[a] \in CTexts
    PROVE  /\ GenAt(env, c, type, f, e) \in CTexts
           /\ \A g : (\A a \in Lower(h) : f[a] = g[a]) => GenAt(env, c, type, f, e) = GenAt(env, c, type, g, e)
<1>0. \A a \in Lower(h) : f[a] \in CTexts
  OBVIOUS
<1>1. CASE e.e \in Literals \cup {"nil", "sizeof"}
  <2>1. \A t \in {CInt, C("float"), C("double"), CString, Address} : Constant(t) \in CTexts
    BY ConstantText, Pointers DEF Words
  <2> DEFINE t == CASE e.e \in {"int", "char", "bool", "sizeof"} -> CInt
                    [] e.e \in {"float", "double"} -> C(e.e)
                    [] e.e = "text" -> CString
                    [] e.e = "nil" -> Address
  <2>2. t \in {CInt, C("float"), C("double"), CString, Address}
    BY <1>1 DEF Literals
  <2>3. \A g : GenAt(env, c, type, g, e) = Constant(t)
    BY <1>1 DEF GenAt, Literals
  <2> HIDE DEF t
  <2> QED BY <2>1, <2>2, <2>3
<1>2. CASE e.e = "ident"
  <2>1. \A g : GenAt(env, c, type, g, e) =
                 IF env[e.name] = None /\ e.name \in Enumerators THEN Constant(CInt) ELSE Variable(c, e.name)
    BY <1>2 DEF GenAt, Literals
  <2>2. c.variables[e.name] \in CTypes
    BY <1>2, PartsOf, EnvironmentIs
  <2>3. Variable(c, e.name) \in CTexts
    BY <2>2, MadeText DEF Variable
  <2>4. Constant(CInt) \in CTexts
    BY ConstantText, Pointers
  <2> QED BY <2>1, <2>3, <2>4
<1>3. CASE e.e = "binary"
  <2>1. e.lhs \in Lower(h) /\ e.rhs \in Lower(h)
    BY <1>3, PartsOf
  <2>2. \A g : GenAt(env, c, type, g, e) = Binary(c, type, g, e)
    BY <1>3 DEF GenAt, Literals
  <2>3. Binary(c, type, f, e) \in CTexts
    BY <1>0, <2>1, BinaryText
  <2>4. ASSUME NEW g, \A a \in Lower(h) : f[a] = g[a] PROVE Binary(c, type, f, e) = Binary(c, type, g, e)
    BY <1>0, <2>1, <2>4, BinaryText
  <2> QED BY <2>2, <2>3, <2>4
<1>4. CASE e.e = "unary"
  <2>1. e.rhs \in Lower(h) /\ e.op \in {"!", "-"}
    BY <1>4, PartsOf
  <2>2. \A g : GenAt(env, c, type, g, e) = Unary(e.op, g[e.rhs])
    BY <1>4 DEF GenAt, Literals
  <2>3. Unary(e.op, f[e.rhs]) \in CTexts
    BY <1>0, <2>1, UnaryText
  <2> QED BY <2>1, <2>2, <2>3
<1>5. CASE e.e = "assign"
  <2>1. e.lhs \in Lower(h) /\ e.rhs \in Lower(h)
    BY <1>5, PartsOf
  <2>2. \A g : GenAt(env, c, type, g, e) = Operator(e.op, g[e.lhs], g[e.rhs])
    BY <1>5 DEF GenAt, Literals
  <2>3. Operator(e.op, f[e.lhs], f[e.rhs]) \in CTexts
    BY <1>0, <2>1, OperatorIs
  <2> QED BY <2>1, <2>2, <2>3
<1>6. CASE e.e = "call"
  <2> DEFINE d == find_func(e.module, e.callee)
             symbol == IF d = None THEN "undeclared" ELSE d.symbol
  <2>1. \A g : GenAt(env, c, type, g, e) = Calls(c, symbol, [k \in DOMAIN e.args |-> g[e.args[k]]])
    BY <1>6 DEF GenAt, Literals
  <2>2. \A k \in DOMAIN e.args : e.args[k] \in Lower(h)
    BY <1>6, PartsOf, ElementsOf
  <2> HIDE DEF symbol
  <2>3. \A a : Calls(c, symbol, a) \in CTexts
    BY CallsText
  <2>4. ASSUME NEW g, \A a \in Lower(h) : f[a] = g[a]
        PROVE  [k \in DOMAIN e.args |-> f[e.args[k]]] = [k \in DOMAIN e.args |-> g[e.args[k]]]
    BY <2>2, <2>4
  <2>5. ASSUME NEW g, \A a \in Lower(h) : f[a] = g[a]
        PROVE  GenAt(env, c, type, f, e) = GenAt(env, c, type, g, e)
    BY <2>1, <2>4, <2>5
  <2> QED BY <2>1, <2>3, <2>5
<1>7. CASE e.e = "index"
  <2>1. e.base \in Lower(h) /\ e.index \in Lower(h)
    BY <1>7, PartsOf
  <2>2. \A g : GenAt(env, c, type, g, e) = Operator("[]", g[e.base], g[e.index])
    BY <1>7 DEF GenAt, Literals
  <2>3. Operator("[]", f[e.base], f[e.index]) \in CTexts
    BY <1>0, <2>1, OperatorIs
  <2> QED BY <2>1, <2>2, <2>3
<1>8. CASE e.e = "field"
  <2>1. e.base \in Lower(h)
    BY <1>8, PartsOf
  <2>2. \A g : GenAt(env, c, type, g, e) = gen_field(c, type, g, e)
    BY <1>8 DEF GenAt, Literals
  <2>3. gen_field(c, type, f, e) \in CTexts
    BY <1>0, <2>1, FieldText
  <2>4. ASSUME NEW g, \A a \in Lower(h) : f[a] = g[a] PROVE gen_field(c, type, f, e) = gen_field(c, type, g, e)
    BY <1>0, <2>1, <2>4, FieldText
  <2> QED BY <2>2, <2>3, <2>4
<1>9. CASE e.e = "array"
  <2> DEFINE elem == IF e.elems = <<>> THEN CInt ELSE emit_type(type[e.elems[1]])
  <2>1. \A k \in DOMAIN e.elems : e.elems[k] \in Lower(h)
    BY <1>9, PartsOf, ElementsOf
  <2>2. elem \in CTypes
    <3>1. e.elems # <<>> => 1 \in DOMAIN e.elems
      BY <1>9, PartsOf, ElementsOf
    <3>2. e.elems # <<>> => type[e.elems[1]] \in AllTypes
      BY <2>1, <3>1, LowerIs
    <3> QED BY <3>2, EmittedType, Pointers
  <2>3. \A g : GenAt(env, c, type, g, e) = SpanOf(elem, [k \in DOMAIN e.elems |-> g[e.elems[k]]])
    BY <1>9 DEF GenAt, ArrayLit, Literals
  <2> HIDE DEF elem
  <2>4. \A s : SpanOf(elem, s) \in CTexts
    BY <2>2, SpanOfIs
  <2>5. ASSUME NEW g, \A a \in Lower(h) : f[a] = g[a]
        PROVE  [k \in DOMAIN e.elems |-> f[e.elems[k]]] = [k \in DOMAIN e.elems |-> g[e.elems[k]]]
    BY <2>1, <2>5
  <2>6. ASSUME NEW g, \A a \in Lower(h) : f[a] = g[a]
        PROVE  GenAt(env, c, type, f, e) = GenAt(env, c, type, g, e)
    BY <2>3, <2>5, <2>6
  <2> QED BY <2>3, <2>4, <2>6
<1>10. CASE e.e = "cast"
  <2>1. e.lhs \in Lower(h) /\ e.to \in AllTypes
    BY <1>10, PartsOf, BaseTypes
  <2> DEFINE reads == Kind(type[e.lhs]) = "text" /\ Kind(e.to) \in {"int", "int64"}
  <2>2. \A g : GenAt(env, c, type, g, e) = IF reads THEN Calls(c, "rt_text_to_int", <<g[e.lhs]>>)
                                           ELSE CastTo(emit_type(e.to), g[e.lhs])
    BY <1>10 DEF GenAt, Literals
  <2> HIDE DEF reads
  <2>3. \A a : CastTo(emit_type(e.to), a) \in CTexts /\ Calls(c, "rt_text_to_int", a) \in CTexts
    BY <2>1, EmittedType, CastToText, CallsText
  <2> QED BY <2>1, <2>2, <2>3
<1> QED BY <1>1, <1>2, <1>3, <1>4, <1>5, <1>6, <1>7, <1>8, <1>9, <1>10, PartsOf

(* gen_expr satisfies its equation.                                        *)
LEMMA GenIs ==
    ASSUME NEW env \in Known, NEW c, c = CEnvironment(env)
    PROVE  /\ gen_expr(env, c) \in [AllTrees -> CTexts]
           /\ \A e \in AllTrees : gen_expr(env, c)[e] = GenAt(env, c, infer(env), gen_expr(env, c), e)
<1> DEFINE type == infer(env)
<1>0. type \in [AllTrees -> AllTypes]
  BY InferIs
<1> HIDE DEF type
<1> DEFINE Step(f) == [e \in AllTrees |-> GenAt(env, c, type, f, e)]
           F == [AllTrees -> CTexts]
           G == [f \in F |-> Step(f)]
<1>1. ASSUME NEW f \in F PROVE Step(f) \in F
  <2>1. \A e \in AllTrees : GenAt(env, c, type, f, e) \in CTexts
    BY <1>0, LowerIs, GenStep
  <2> QED BY <2>1
<1>2. ASSUME NEW f \in F, NEW g \in F, NEW h \in DOMAIN Trees, \A a \in Lower(h) : f[a] = g[a]
      PROVE  \A e \in Trees[h] : Step(f)[e] = Step(g)[e]
  <2>1. ASSUME NEW e \in Trees[h] PROVE GenAt(env, c, type, f, e) = GenAt(env, c, type, g, e)
    <3>1. \A a \in Lower(h) : f[a] \in CTexts
      BY LowerIs
    <3> QED BY <1>0, <1>2, <3>1, GenStep
  <2> QED BY <2>1, LowerIs
<1>3. \A f \in F : G[f] = Step(f)
  OBVIOUS
<1>4. G \in [F -> F]
  BY <1>1
<1> HIDE DEF G, Step
<1>5. \A f, g \in F : \A h \in DOMAIN Trees :
          (\A a \in Lower(h) : f[a] = g[a]) => \A e \in Trees[h] : G[f][e] = G[g][e]
  BY <1>2, <1>3
<1>6. \E f \in F : f = G[f]
  <2>1. Constant(CInt) \in CTexts
    BY ConstantText, Pointers
  <2> QED BY <1>4, <1>5, <2>1, Recursive
<1>7. PICK f \in F : f = Step(f)
  BY <1>3, <1>6
<1> DEFINE i == CHOOSE g : g = Step(g)
<1>8. i = Step(i)
  BY <1>7, Zenon
<1>9. gen_expr(env, c) = i
  BY DEF gen_expr, Step, type
<1> HIDE DEF i
<1>10. i \in F
  <2>1. i = [e \in AllTrees |-> GenAt(env, c, type, i, e)]
    BY <1>8 DEF Step
  <2> DEFINE P == {e \in AllTrees : i[e] \in CTexts}
  <2>2. ASSUME NEW h \in DOMAIN Trees, Lower(h) \subseteq P PROVE Trees[h] \subseteq P
    <3>1. \A e \in Trees[h] : GenAt(env, c, type, i, e) \in CTexts
      BY <1>0, <2>2, GenStep
    <3> QED BY <2>1, <3>1, LowerIs
  <2> HIDE DEF P
  <2>3. AllTrees \subseteq P
    BY <2>2, ByHeight
  <2> QED BY <2>1, <2>3 DEF P
<1> QED BY <1>8, <1>9, <1>10 DEF Step, type

(***************************************************************************)
(* What the types of the language are in C.                                *)
(***************************************************************************)
LEMMA RankedIs == Ranked = {"int32_t", "uint32_t", "int64_t", "uint64_t", "float", "double"}
<1>1. DOMAIN Ranks = 1..6
  BY DEF Ranks
<1>2. /\ Ranks[1] = "int32_t" /\ Ranks[2] = "uint32_t" /\ Ranks[3] = "int64_t"
      /\ Ranks[4] = "uint64_t" /\ Ranks[5] = "float" /\ Ranks[6] = "double"
  BY DEF Ranks
<1>3. 1..6 = {1, 2, 3, 4, 5, 6}
  OBVIOUS
<1> HIDE DEF Ranks
<1> QED BY <1>1, <1>2, <1>3 DEF Ranked

Arithmetics == Numbers \cup {"bool", "char"}

(* The types without suffixes in C.                                        *)
LEMMA EmitsPlainly ==
    /\ \A k \in Plainly : emit_type(Type(k)) = emit_base(k) /\ Kind(Type(k)) = k
    /\ emit_type(TY_INT) = CInt /\ emit_type(TY_BOOL) = C("bool") /\ emit_type(TY_CHAR) = C("char")
    /\ emit_type(TY_TEXT) = CString /\ emit_type(TY_ANY) = Address /\ emit_type(TY_VOID) = C("void")
    /\ Kind(TY_INT) = "int" /\ Kind(TY_BOOL) = "bool" /\ Kind(TY_CHAR) = "char"
    /\ Kind(TY_TEXT) = "text" /\ Kind(TY_ANY) = "any" /\ Kind(TY_VOID) = "void"
<1>1. \A k : Kind(Type(k)) = k /\ Type(k).kind = k
  BY DEF Kind, Type
<1>2. ASSUME NEW k \in Plainly \cup {"void"} PROVE emit_type(Type(k)) = emit_base(k)
  <2>1. Type(k) \in AllTypes
    BY BaseTypes DEF TY_VOID
  <2>2. k # "named" /\ k \notin Composes
    BY DEF Plainly, Numbers, Wholes, Composes
  <2>3. emit_base(k) = IF Type(k).kind = "named" THEN Struct(Type(k).name) ELSE emit_base(Type(k).kind)
    BY <1>1, <2>2
  <2>4. Kind(Type(k)) \notin Composes => emit_type(Type(k)) = emit_base(k)
    BY <2>1, <2>3, EmitBase
  <2> QED BY <1>1, <2>2, <2>4
<1>3. {"int", "bool", "char", "text", "any"} \subseteq Plainly
  BY DEF Plainly, Numbers, Wholes
<1>4. \A k \in {"int", "bool", "char", "text", "any", "void"} : emit_type(Type(k)) = emit_base(k) /\ Kind(Type(k)) = k
  BY <1>1, <1>2, <1>3
<1> QED BY <1>1, <1>2, <1>4, EmitsBase DEF TY_INT, TY_BOOL, TY_CHAR, TY_TEXT, TY_ANY, TY_VOID, CInt

(* The numbers, bool and char are arithmetic in C.                         *)
LEMMA ArithmeticTypes ==
    /\ \A k \in Arithmetics : /\ k \in Plainly /\ Arithmetic(emit_base(k)) /\ ~Pointer(emit_base(k))
                              /\ k \in Wholes => Whole(emit_base(k))
    /\ Whole(CInt) /\ Arithmetic(CInt) /\ Arithmetic(C("bool")) /\ Whole(C("int64_t"))
<1>1. \A a \in Narrow \cup Ranked : Arithmetic(C(a)) /\ C(a).stars = 0 /\ C(a).c = a
  BY DEF Arithmetic, C
<1>2. \A a \in (Narrow \cup Ranked) \ {"float", "double"} : Whole(C(a))
  BY <1>1 DEF Whole, Real
<1>3. \A k \in Arithmetics : \E a \in Narrow \cup Ranked :
          emit_base(k) = C(a) /\ (k \in Wholes => a \notin {"float", "double"})
  <2>1. Narrow \cup Ranked = {"bool", "char", "int8_t", "int16_t", "uint8_t", "uint16_t", "int32_t", "uint32_t",
                              "int64_t", "uint64_t", "float", "double"}
    BY RankedIs DEF Narrow
  <2> QED BY <2>1, EmitsBase DEF Arithmetics, Numbers, Wholes
<1>4. {"int32_t", "bool", "int64_t"} \subseteq (Narrow \cup Ranked) \ {"float", "double"}
  BY RankedIs DEF Narrow
<1>5. \A k \in Arithmetics : k \in Plainly
  BY DEF Arithmetics, Plainly
<1>6. \A a : ~Pointer(C(a))
  BY DEF Pointer, C
<1>7. ASSUME NEW k \in Arithmetics
      PROVE  k \in Plainly /\ Arithmetic(emit_base(k)) /\ ~Pointer(emit_base(k)) /\ (k \in Wholes => Whole(emit_base(k)))
  <2>1. PICK a \in Narrow \cup Ranked : emit_base(k) = C(a) /\ (k \in Wholes => a \notin {"float", "double"})
    BY <1>3, Zenon
  <2>2. k \in Wholes => Whole(C(a))
    BY <1>2, <2>1
  <2> QED BY <1>1, <1>5, <1>6, <2>1, <2>2
<1>8. Whole(CInt) /\ Arithmetic(CInt) /\ Arithmetic(C("bool")) /\ Whole(C("int64_t"))
  <2>1. CInt = C("int32_t")
    BY DEF CInt
  <2> QED BY <1>1, <1>2, <1>4, <2>1
<1> QED BY <1>7, <1>8

(* What C has for a type, by the kind of the type.                         *)
LEMMA EmitForm ==
    ASSUME NEW t \in ValueTypes \cup {TY_VOID}
    PROVE  /\ Kind(t) \in Composes \cup Arithmetics \cup {"text", "any", "named", "void"}
           /\ Kind(t) \in Arithmetics => /\ t = Type(Kind(t)) /\ emit_type(t) = emit_base(Kind(t))
                                         /\ Arithmetic(emit_type(t)) /\ ~Pointer(emit_type(t))
           /\ Kind(t) = "text" => t = TY_TEXT
           /\ Kind(t) = "any" => t = TY_ANY
           /\ Kind(t) = "void" <=> t = TY_VOID
           /\ Kind(t) = "named" => t.name \in DOMAIN Structs /\ emit_type(t) = Struct(t.name)
           /\ Kind(t) \in Composes => /\ Inner(t) \in ValueTypes
                                      /\ emit_type(t) = Ptr(emit_type(Inner(t))) /\ Pointer(emit_type(t))
           /\ emit_type(t) \in CTypes
<1>1. CASE t = TY_VOID
  <2>1. Kind(t) = "void" /\ emit_type(t) = C("void")
    BY <1>1, EmitsPlainly
  <2>2. "void" \notin Composes \cup Arithmetics \cup {"text", "any", "named"}
    BY DEF Composes, Arithmetics, Numbers, Wholes
  <2>3. C("void") \in CTypes
    BY Pointers DEF Words
  <2> QED BY <1>1, <2>1, <2>2, <2>3
<1>2. CASE t \in ValueTypes
  <2>1. t \in AllTypes /\ emit_type(t) \in CTypes
    BY <1>2, BaseTypes, EmittedType
  <2>2. Kind(t) \in Composes \cup Plainly \cup {"named"} /\ t # TY_VOID
    BY <1>2, Kinds, BaseTypes
  <2>3. Kind(t) \in Plainly => t = Type(Kind(t))
    BY <1>2, Kinds
  <2>4. Plainly = Arithmetics \cup {"text", "any"} /\ "void" \notin Composes \cup Plainly \cup {"named"}
        /\ "named" \notin Composes
    BY DEF Arithmetics, Plainly, Composes, Numbers, Wholes
  <2>5. Kind(t) \in Arithmetics => emit_type(t) = emit_base(Kind(t))
    BY <2>3, <2>4, EmitsPlainly
  <2>6. Kind(t) \in Arithmetics => Arithmetic(emit_type(t)) /\ ~Pointer(emit_type(t))
    BY <2>5, ArithmeticTypes
  <2>7. Kind(t) = "named" => t.name \in DOMAIN Structs /\ emit_type(t) = Struct(t.name)
    <3> SUFFICES ASSUME Kind(t) = "named" PROVE t.name \in DOMAIN Structs /\ emit_type(t) = Struct(t.name)
      OBVIOUS
    <3>1. Kind(t) \notin Composes
      BY <2>4
    <3>2. t.kind = "named"
      BY <2>1, <3>1, Kinds
    <3> DEFINE base == IF t.kind = "named" THEN Struct(t.name) ELSE emit_base(t.kind)
    <3>3. base = Struct(t.name)
      BY <3>2
    <3>4. emit_type(t) = base
      <4> HIDE DEF base
      <4>1. \A b : b = base => b = IF t.kind = "named" THEN Struct(t.name) ELSE emit_base(t.kind)
        BY DEF base
      <4> QED BY <2>1, <3>1, <4>1, EmitBase
    <3> QED BY <1>2, <3>2, <3>3, <3>4, Kinds
  <2>8. Kind(t) \in Composes => /\ Inner(t) \in ValueTypes
                                /\ emit_type(t) = Ptr(emit_type(Inner(t))) /\ Pointer(emit_type(t))
    <3> SUFFICES ASSUME Kind(t) \in Composes
                 PROVE  /\ Inner(t) \in ValueTypes
                        /\ emit_type(t) = Ptr(emit_type(Inner(t))) /\ Pointer(emit_type(t))
      OBVIOUS
    <3>1. Inner(t) \in ValueTypes /\ emit_type(t) = Ptr(emit_type(Inner(t)))
      BY <1>2, <2>1, Unwraps
    <3>2. emit_type(Inner(t)) \in CTypes
      BY <3>1, BaseTypes, EmittedType
    <3> QED BY <3>1, <3>2, PtrType DEF Pointer
  <2> QED BY <2>1, <2>2, <2>3, <2>4, <2>5, <2>6, <2>7, <2>8 DEF TY_TEXT, TY_ANY
<1> QED BY <1>1, <1>2

(* A value has neither C's void nor no type, and suffixes make it a        *)
(* pointer that is not void *.                                             *)
LEMMA EmitsValue ==
    ASSUME NEW t \in ValueTypes
    PROVE  emit_type(t) \notin {C("void"), Refused} /\ (Kind(t) \in Composes => Pointed(emit_type(t)))
<1>1. ASSUME NEW u \in ValueTypes PROVE emit_type(u) \notin {C("void"), Refused}
  <2>1. C("void").stars = 0 /\ C("void").c = "void" /\ Refused.stars = 0 /\ Refused.c = "refused"
    BY DEF C, Refused
  <2>2. u # TY_VOID
    BY BaseTypes
  <2>3. Kind(u) \in Composes \cup {"text", "any"} => emit_type(u).stars > 0
    <3>1. Kind(u) \in Composes => emit_type(u).stars > 0
      BY EmitForm DEF Pointer
    <3>2. CString.stars > 0 /\ Address.stars > 0
      <4>1. CString.stars = 1 /\ Address.stars = 1
        BY Pointers
      <4> QED BY <4>1
    <3>3. Kind(u) = "text" => emit_type(u) = CString
      BY EmitForm, EmitsPlainly
    <3>4. Kind(u) = "any" => emit_type(u) = Address
      BY EmitForm, EmitsPlainly
    <3> QED BY <3>1, <3>2, <3>3, <3>4
  <2>4. Kind(u) \in Arithmetics => emit_type(u).c \in Narrow \cup Ranked
    BY EmitForm DEF Arithmetic
  <2>5. {"void", "refused"} \cap (Narrow \cup Ranked) = {}
    BY RankedIs DEF Narrow
  <2>6. Kind(u) = "named" => emit_type(u).c = "struct"
    BY EmitForm DEF Struct
  <2> QED BY <2>1, <2>2, <2>3, <2>4, <2>5, <2>6, EmitForm
<1>2. Kind(t) \in Composes => Pointed(emit_type(t))
  <2> SUFFICES ASSUME Kind(t) \in Composes PROVE emit_type(t) # Address
    BY EmitForm DEF Pointed
  <2>1. Inner(t) \in ValueTypes /\ emit_type(t) = Ptr(emit_type(Inner(t)))
    BY EmitForm
  <2>2. emit_type(Inner(t)) \in CTypes /\ emit_type(Inner(t)) # C("void")
    BY <1>1, <2>1, EmitForm
  <2>3. Pointee(emit_type(t)) = emit_type(Inner(t))
    BY <2>1, <2>2, PtrType
  <2>4. Pointee(Address) = C("void")
    BY Pointers, PtrType DEF Address, Words
  <2> QED BY <2>2, <2>3, <2>4
<1> QED BY <1>1, <1>2

(* What C gives an expression that has the C type of a type of the         *)
(* language, as far as SameInC says it.                                    *)
LEMMA PointersAre ==
    /\ Pointer(CString) /\ Pointer(Address) /\ Pointed(CString)
    /\ CString # Address /\ CString # Refused /\ Address # Refused
<1>1. CString.stars = 1 /\ Address.stars = 1 /\ CString.c = "char" /\ Address.c = "void"
  BY Pointers
<1>2. Refused.c = "refused"
  BY DEF Refused, C
<1>3. 1 > 0
  OBVIOUS
<1>4. Pointer(CString) /\ Pointer(Address)
  BY <1>1, <1>3 DEF Pointer
<1>5. CString # Address /\ CString # Refused /\ Address # Refused
  BY <1>1, <1>2
<1> QED BY <1>4, <1>5 DEF Pointed

(* Promotion keeps arithmetic types arithmetic and all others as they are. *)
LEMMA PromotedIs ==
    ASSUME NEW x \in CTypes
    PROVE  /\ Arithmetic(x) => Arithmetic(Promoted(x)) /\ ~Pointer(x)
           /\ Whole(x) => Whole(Promoted(x))
           /\ Arithmetic(Promoted(x)) => Arithmetic(x)
           /\ Whole(Promoted(x)) => Whole(x)
           /\ ~Arithmetic(x) => Promoted(x) = x
           /\ Promoted(Promoted(x)) = Promoted(x)
           /\ Pointer(x) => ~Arithmetic(x)
<1>1. CInt.stars = 0 /\ CInt.c \notin Narrow /\ Whole(CInt) /\ Arithmetic(CInt)
  BY ArithmeticTypes DEF CInt, C, Narrow
<1>2. x.stars = 0 /\ x.c \in Narrow => Arithmetic(x) /\ Whole(x)
  BY DEF Arithmetic, Whole, Real, Narrow
<1>3. x.stars \in Nat
  BY CTypeForm
<1>4. Pointer(x) => x.stars # 0
  BY <1>3 DEF Pointer
<1>5. Arithmetic(x) => x.stars = 0
  BY DEF Arithmetic
<1>6. CASE x.stars = 0 /\ x.c \in Narrow
  <2>1. Promoted(x) = CInt /\ Promoted(CInt) = CInt
    BY <1>1, <1>6 DEF Promoted
  <2> QED BY <1>1, <1>2, <1>4, <1>6, <2>1
<1>7. CASE ~(x.stars = 0 /\ x.c \in Narrow)
  <2>1. Promoted(x) = x
    BY <1>7 DEF Promoted
  <2> QED BY <1>4, <1>5, <2>1
<1> QED BY <1>6, <1>7

(* Whole numbers are whole in C.                                           *)
LEMMA WholeTypes ==
    ASSUME NEW t \in ValueTypes, Kind(t) \in Wholes
    PROVE  Whole(emit_type(t)) /\ Kind(t) \in Arithmetics
<1>1. Kind(t) \in Arithmetics
  BY DEF Arithmetics, Numbers
<1> QED BY <1>1, EmitForm, ArithmeticTypes

(* A C type that SameInC lets pass is of the form of the type's own.       *)
LEMMA SameForm ==
    ASSUME NEW t \in ValueTypes \cup {TY_VOID}, NEW x \in CTypes, SameInC(x, t)
    PROVE  /\ x # Refused
           /\ Kind(t) \in Arithmetics => Arithmetic(x) /\ ~Pointer(x)
           /\ Kind(t) \in Wholes => Whole(x)
           /\ Kind(t) \notin Arithmetics \cup {"span"} => x = emit_type(t)
           /\ Kind(t) = "span" => x \in {emit_type(t), Address} /\ Pointer(x)
<1> DEFINE m == emit_type(t)
<1>1. m \in CTypes
  BY EmitForm
<1>2. m # Refused
  <2>1. C("void") # Refused
    BY DEF C, Refused
  <2> QED BY <2>1, EmitsValue, EmitsPlainly
<1>3. Kind(t) \in Arithmetics => Arithmetic(m) /\ ~Pointer(m)
  BY EmitForm
<1>4. Kind(t) \in Wholes => t \in ValueTypes
  <2>1. "void" \notin Wholes
    BY DEF Wholes
  <2> QED BY <2>1, EmitsPlainly
<1>5. Kind(t) \in Wholes => Whole(m) /\ Kind(t) \in Arithmetics
  BY <1>4, WholeTypes
<1>6. Kind(t) = "span" => Pointer(m)
  BY EmitForm DEF Composes
<1>7. Kind(t) \notin Arithmetics => ~Arithmetic(m)
  <2>1. Kind(t) \in Composes \cup {"text", "any"} => Pointer(m)
    <3>1. Pointer(CString) /\ Pointer(Address)
      BY PointersAre
    <3> QED BY <3>1, EmitForm, EmitsPlainly
  <2>2. Kind(t) = "named" => ~Arithmetic(m)
    <3>1. Kind(t) = "named" => m.c = "struct"
      BY EmitForm DEF Struct
    <3>2. "struct" \notin Narrow \cup Ranked
      BY RankedIs DEF Narrow
    <3> QED BY <3>1, <3>2 DEF Arithmetic
  <2>3. Kind(t) = "void" => ~Arithmetic(m)
    <3>1. Kind(t) = "void" => m.c = "void"
      <4>1. C("void").c = "void"
        BY DEF C
      <4> QED BY <4>1, EmitForm, EmitsPlainly
    <3>2. "void" \notin Narrow \cup Ranked
      BY RankedIs DEF Narrow
    <3> QED BY <3>1, <3>2 DEF Arithmetic
  <2> QED BY <1>1, <2>1, <2>2, <2>3, EmitForm, PromotedIs
<1>8. Pointer(Address) /\ Address # Refused
  BY PointersAre
<1>9. ~Arithmetic(Refused) 
  BY RankedIs DEF Arithmetic, Refused, C, Narrow
<1>10. "span" \notin Arithmetics
  BY DEF Arithmetics, Numbers, Wholes
<1> HIDE DEF m
<1>11. CASE Promoted(x) = Promoted(m)
  <2>1. CASE Arithmetic(m)
    <3>1. Arithmetic(x) /\ ~Pointer(x)
      BY <1>1, <1>11, <2>1, PromotedIs
    <3>2. Whole(m) => Whole(x)
      BY <1>1, <1>11, PromotedIs
    <3> QED BY <1>5, <1>7, <1>9, <2>1, <3>1, <3>2, <1>10
  <2>2. CASE ~Arithmetic(m)
    <3>1. ~Arithmetic(x)
      BY <1>1, <1>11, <2>2, PromotedIs
    <3>2. x = m
      BY <1>1, <1>11, <2>2, <3>1, PromotedIs
    <3> QED BY <1>2, <1>3, <1>5, <1>6, <2>2, <3>2 DEF m
  <2> QED BY <2>1, <2>2
<1>12. CASE t = TY_INT /\ x = C("int64_t")
  <2>1. Kind(t) = "int"
    BY <1>12, EmitsPlainly
  <2>2. "int" \in Wholes /\ "int" \in Arithmetics /\ "int" # "span"
    BY DEF Arithmetics, Numbers, Wholes
  <2>3. Whole(x) /\ Arithmetic(x)
    BY <1>12, ArithmeticTypes DEF Whole
  <2>4. ~Pointer(x)
    BY <2>3, PromotedIs
  <2> QED BY <1>9, <2>1, <2>2, <2>3, <2>4
<1>13. CASE Kind(t) = "span" /\ x = Address
  <2>1. "span" \notin Wholes
    BY DEF Wholes
  <2> QED BY <1>8, <1>10, <1>13, <2>1
<1> QED BY <1>11, <1>12, <1>13 DEF SameInC, m

(* What fits a type converts in C to what the type itself converts to.     *)
LEMMA ConvertsAs ==
    ASSUME NEW t \in ValueTypes \cup {TY_VOID}, NEW to \in ValueTypes, Fits(t, to),
           NEW x \in CTypes, SameInC(x, t), NEW y, Converts(emit_type(to), y)
    PROVE  Converts(x, y)
<1>1. Kind(TY_ANY) = "any" /\ emit_type(TY_ANY) = Address /\ "any" \notin Arithmetics \cup {"span"}
  BY EmitsPlainly DEF Arithmetics, Numbers, Wholes
<1> DEFINE m == emit_type(to)
<1>2. m \in CTypes /\ (Kind(to) \in {"span", "ref"} => Pointer(m))
  BY EmitForm DEF Composes
<1>3. Kind(to) \in Arithmetics => Arithmetic(m) /\ ~Pointer(m)
  BY EmitForm
<1>4. Pointer(m) => ~Arithmetic(m)
  BY <1>2, PromotedIs
<1>5. Pointer(Address)
  BY PointersAre
<1> HIDE DEF m
<1>6. Converts(m, y)
  BY DEF m
<1>7. Pointer(m) => Pointer(y)
  BY <1>4, <1>6 DEF Converts
<1>8. Pointer(m) => Converts(Address, y)
  BY <1>5, <1>7 DEF Converts
<1>9. CASE t = to
  <2>1. CASE Kind(to) \in Arithmetics
    <3>1. Arithmetic(x)
      BY <1>9, <2>1, SameForm
    <3>2. Arithmetic(y)
      BY <1>3, <1>6, <2>1 DEF Converts
    <3> QED BY <3>1, <3>2 DEF Converts
  <2>2. CASE Kind(to) \notin Arithmetics \cup {"span"}
    BY <1>6, <1>9, <2>2, SameForm DEF m
  <2>3. CASE Kind(to) = "span"
    BY <1>2, <1>6, <1>8, <1>9, <2>3, SameForm DEF m
  <2> QED BY <2>1, <2>2, <2>3
<1>10. CASE t = TY_ANY /\ Kind(to) \in {"ref", "span"}
  <2>1. x = Address
    BY <1>1, <1>10, SameForm
  <2> QED BY <1>2, <1>8, <1>10, <2>1
<1> QED BY <1>9, <1>10 DEF Fits

(* Every type of a value converts to itself.                               *)
LEMMA ConvertsToItself ==
    ASSUME NEW t \in ValueTypes
    PROVE  Converts(emit_type(t), emit_type(t))
BY EmitsValue DEF Converts

(***************************************************************************)
(* An operation on what C takes comes out as what C says of the types.     *)
(***************************************************************************)
Fair(x)     == x.type # Refused /\ ~x.compares
Comes(x, t) == x.type = t /\ ~x.compares /\ x.elem = Refused

LEMMA MadeComes ==
    ASSUME NEW type, NEW place, NEW args, \A k \in DOMAIN args : Fair(args[k])
    PROVE  Comes(Made(type, place, args), type)
<1>1. Made(type, place, args).type = type
  BY DEF Made, Fair
<1>2. ~Made(type, place, args).compares
  BY DEF Made, Fair
<1>3. Made(type, place, args).elem = Refused
  BY DEF Made
<1> QED BY <1>1, <1>2, <1>3 DEF Comes

(* One argument.                                                           *)
LEMMA OneArgument ==
    ASSUME NEW a, Fair(a)
    PROVE  \A k \in DOMAIN <<a>> : Fair(<<a>>[k])
OBVIOUS

(* A unary operator.                                                       *)
LEMMA UnaryComes ==
    ASSUME NEW op, NEW a, Fair(a)
    PROVE  Comes(Unary(op, a), TypeOfUnary(op, a)) /\ (Unary(op, a).place <=> op = "*")
<1>1. Comes(Unary(op, a), TypeOfUnary(op, a))
  BY OneArgument, MadeComes DEF Unary
<1>2. Unary(op, a).place <=> op = "*"
  BY DEF Unary, Made
<1> QED BY <1>1, <1>2

(* A binary operator, but not one that compares texts.                     *)
LEMMA OperatorComes ==
    ASSUME NEW op, NEW a \in CTexts, NEW b \in CTexts, Fair(a), Fair(b),
           ~(op \in {"==", "!="} /\ a.type = CString /\ b.type = CString)
    PROVE  /\ Comes(Operator(op, a, b), TypeOfBinary(op, a.place, a.type, b.type))
           /\ Operator(op, a, b).place <=> op = "[]"
BY OperatorIs DEF Fair, Comes

(* A call.                                                                 *)
LEMMA CallsComes ==
    ASSUME NEW c, NEW symbol, NEW args, \A k \in DOMAIN args : Fair(args[k])
    PROVE  Comes(Calls(c, symbol, args), TypeOfCall(c, symbol, [k \in DOMAIN args |-> args[k].type]))
BY MadeComes DEF Calls

(* A cast.                                                                 *)
LEMMA CastComes ==
    ASSUME NEW type, NEW a, Fair(a)
    PROVE  Comes(CastTo(type, a), TypeOfCast(type, a.type))
BY OneArgument, MadeComes DEF CastTo

(* A member.                                                               *)
LEMMA MemberComes ==
    ASSUME NEW c, NEW by, NEW a, Fair(a), NEW field
    PROVE  /\ Comes(Member(c, by, a, field), TypeOfMember(c, by, a.type, field))
           /\ Member(c, by, a, field).place <=> by = "->" \/ a.place
<1>1. Comes(Member(c, by, a, field), TypeOfMember(c, by, a.type, field))
  BY OneArgument, MadeComes DEF Member
<1>2. Member(c, by, a, field).place <=> by = "->" \/ a.place
  BY DEF Member, Made
<1> QED BY <1>1, <1>2

-------------------------------------------------------------------------------
(* The operators of C between operands of one numeric type, and so on.     *)
LEMMA NumericIs ==
    ASSUME NEW t \in ValueTypes \cup {TY_VOID}, Numeric(t)
    PROVE  Kind(t) \in Numbers /\ Kind(t) \in Arithmetics /\ t.kind = Kind(t)
<1>1. PICK k \in Numbers : t = Type(k)
  BY DEF Numeric
<1>2. Kind(t) = k /\ t.kind = k
  BY <1>1 DEF Type, Kind
<1> QED BY <1>1, <1>2 DEF Arithmetics

(* An arithmetic type is scalar and no pointer.                            *)
LEMMA NoPointer ==
    ASSUME NEW x \in CTypes, Arithmetic(x)
    PROVE  ~Pointed(x) /\ x # CString /\ Scalar(x)
BY PromotedIs, PointersAre DEF Pointed, Scalar

(* Operators on arithmetic operands.                                       *)
LEMMA BothArithmetic ==
    ASSUME NEW x \in CTypes, NEW y \in CTypes, Arithmetic(x), Arithmetic(y), NEW place
    PROVE  /\ \A op \in Tests : TypeOfBinary(op, place, x, y) = CInt
           /\ \A op \in {"+", "-", "*", "/"} : TypeOfBinary(op, place, x, y) = Common(x, y)
           /\ Whole(x) /\ Whole(y) => TypeOfBinary("%", place, x, y) = Common(x, y)
           /\ \A op \in {"+=", "-=", "*=", "/="} : place = TRUE => TypeOfBinary(op, place, x, y) = x
<1>1. ~Pointed(x) /\ Scalar(x) /\ Scalar(y) /\ Converts(x, y)
  BY NoPointer DEF Converts
<1> QED BY <1>1 DEF TypeOfBinary, Tests, Accept

(* Two operands of one type have that type in common.                      *)
LEMMA CommonIs ==
    ASSUME NEW t \in ValueTypes \cup {TY_VOID}, NEW x \in CTypes, NEW y \in CTypes, SameInC(x, t), SameInC(y, t),
           Kind(t) # "span"
    PROVE  SameInC(Common(x, y), t)
<1>1. ASSUME NEW z \in CTypes, SameInC(z, t) PROVE SameInC(Promoted(z), t)
  <2>1. CASE Promoted(z) = Promoted(emit_type(t))
    BY <2>1, PromotedIs DEF SameInC
  <2>2. CASE t = TY_INT /\ z = C("int64_t")
    <3>1. Promoted(C("int64_t")) = C("int64_t")
      BY DEF Promoted, C, Narrow
    <3> QED BY <2>2, <3>1 DEF SameInC
  <2> QED BY <1>1, <2>1, <2>2 DEF SameInC
<1>2. Common(x, y) \in {Promoted(x), Promoted(y)}
  BY DEF Common
<1> QED BY <1>1, <1>2

(* Operators on operands of one numeric type.                              *)
LEMMA NumericOperator ==
    ASSUME NEW t \in ValueTypes \cup {TY_VOID}, Numeric(t), NEW x \in CTypes, NEW y \in CTypes,
           SameInC(x, t), SameInC(y, t), NEW place
    PROVE  /\ \A op \in Tests : TypeOfBinary(op, place, x, y) = CInt
           /\ \A op \in {"+", "-", "*", "/"} : SameInC(TypeOfBinary(op, place, x, y), t)
           /\ t.kind \in Wholes => SameInC(TypeOfBinary("%", place, x, y), t)
           /\ \A op \in {"+=", "-=", "*=", "/="} : place = TRUE => TypeOfBinary(op, place, x, y) = x
           /\ x # CString
<1>1. Kind(t) \in Arithmetics /\ t.kind = Kind(t) /\ Kind(t) # "span"
  BY NumericIs DEF Arithmetics, Numbers, Wholes
<1>2. Arithmetic(x) /\ Arithmetic(y) /\ (t.kind \in Wholes => Whole(x) /\ Whole(y))
  BY <1>1, SameForm
<1>3. SameInC(Common(x, y), t)
  BY <1>1, CommonIs
<1>4. /\ \A op \in Tests : TypeOfBinary(op, place, x, y) = CInt
      /\ \A op \in {"+", "-", "*", "/"} : TypeOfBinary(op, place, x, y) = Common(x, y)
      /\ Whole(x) /\ Whole(y) => TypeOfBinary("%", place, x, y) = Common(x, y)
      /\ \A op \in {"+=", "-=", "*=", "/="} : place = TRUE => TypeOfBinary(op, place, x, y) = x
  BY <1>2, BothArithmetic, Zenon
<1>5. x # CString
  BY <1>2, NoPointer
<1> QED BY <1>2, <1>3, <1>4, <1>5

(* Tests of such.                                                          *)
LEMMA NumericTest ==
    ASSUME NEW t \in ValueTypes \cup {TY_VOID}, Numeric(t), NEW x \in CTypes, NEW y \in CTypes,
           SameInC(x, t), SameInC(y, t), NEW place, NEW op \in Tests
    PROVE  TypeOfBinary(op, place, x, y) = CInt
<1>1. Kind(t) \in Arithmetics
  BY NumericIs
<1>2. Arithmetic(x) /\ Arithmetic(y)
  BY <1>1, SameForm
<1>3. Scalar(x) /\ Scalar(y) /\ Converts(x, y)
  BY <1>2 DEF Scalar, Converts
<1> QED BY <1>3 DEF TypeOfBinary, Tests, Accept

(* Arithmetic on such.                                                     *)
LEMMA NumericResult ==
    ASSUME NEW t \in ValueTypes \cup {TY_VOID}, Numeric(t), NEW x \in CTypes, NEW y \in CTypes,
           SameInC(x, t), SameInC(y, t), NEW place, NEW op \in {"+", "-", "*", "/", "%"},
           op = "%" => t.kind \in Wholes
    PROVE  SameInC(TypeOfBinary(op, place, x, y), t)
BY NumericOperator

(* == and != on what can be compared, other than texts.                    *)
LEMMA TestOperator ==
    ASSUME NEW a \in ValueTypes \cup {TY_VOID}, NEW b \in ValueTypes \cup {TY_VOID}, NEW x \in CTypes, NEW y \in CTypes,
           SameInC(x, a), SameInC(y, b), NEW place, Comparable(a, b), ~(a = TY_TEXT /\ b = TY_TEXT)
    PROVE  /\ \A op \in {"==", "!="} : TypeOfBinary(op, place, x, y) = CInt
           /\ ~(x = CString /\ y = CString)
<1>1. CASE a = b
  <2>1. Kind(a) \in Arithmetics
    <3>1. Numeric(a) \/ a \in {TY_BOOL, TY_CHAR}
      BY <1>1 DEF Comparable
    <3> QED BY <3>1, NumericIs, EmitsPlainly DEF Arithmetics
  <2>2. Arithmetic(x) /\ Arithmetic(y)
    BY <1>1, <2>1, SameForm
  <2>3. Converts(x, y) /\ Scalar(x) /\ Scalar(y)
    BY <2>2 DEF Converts, Scalar
  <2>4. \A op \in {"==", "!="} : TypeOfBinary(op, place, x, y) = CInt
    BY <2>3 DEF TypeOfBinary, Accept
  <2>5. x # CString
    BY <2>2, NoPointer
  <2> QED BY <2>4, <2>5
<1>2. CASE a # b
  <2>1. Kind(TY_ANY) = "any" /\ emit_type(TY_ANY) = Address /\ {"any", "ref"} \cap (Arithmetics \cup {"span"}) = {}
        /\ TY_ANY \in ValueTypes
    BY EmitsPlainly, BaseTypes DEF Arithmetics, Numbers, Wholes
  <2>2. ASSUME NEW t \in ValueTypes \cup {TY_VOID}, Kind(t) \in {"ref", "span"}, NEW z \in CTypes, SameInC(z, t)
        PROVE  Pointer(z)
    <3>1. CASE Kind(t) = "span"
      BY <2>2, <3>1, SameForm
    <3>2. CASE Kind(t) = "ref"
      <4>1. Pointer(emit_type(t))
        BY <3>2, EmitForm DEF Composes
      <4> QED BY <2>1, <2>2, <3>2, <4>1, SameForm
    <3> QED BY <2>2, <3>1, <3>2
  <2>3. ASSUME NEW z \in CTypes, SameInC(z, TY_ANY) PROVE z = Address
    BY <2>1, <2>3, SameForm
  <2>4. Pointer(x) /\ Pointer(y) /\ Address \in {x, y}
    <3>1. CASE Fits(a, b)
      BY <1>2, <2>2, <2>3, <3>1, PointersAre DEF Fits
    <3>2. CASE Fits(b, a)
      BY <1>2, <2>2, <2>3, <3>2, PointersAre DEF Fits
    <3> QED BY <1>2, <3>1, <3>2 DEF Comparable
  <2>5. Converts(x, y) /\ Scalar(x) /\ Scalar(y)
    BY <2>4 DEF Converts, Scalar
  <2>6. \A op \in {"==", "!="} : TypeOfBinary(op, place, x, y) = CInt
    BY <2>5 DEF TypeOfBinary, Accept
  <2> QED BY <2>4, <2>6, PointersAre
<1> QED BY <1>1, <1>2

(* Calls of the runtime that the generator writes itself.                  *)
LEMMA OneGiven ==
    ASSUME NEW c, NEW s, s # "rt_print", s \in DOMAIN c.functions, NEW q, NEW r, c.functions[s] = Prototype(<<q>>, r),
           NEW z, Converts(z, q)
    PROVE  TypeOfCall(c, s, <<z>>) = r
<1>1. c.functions[s].params = <<q>> /\ c.functions[s].result = r
  BY DEF Prototype
<1>2. Len(<<z>>) = Len(<<q>>) /\ \A k \in DOMAIN <<z>> : Converts(<<z>>[k], <<q>>[k])
  OBVIOUS
<1> QED BY <1>1, <1>2 DEF TypeOfCall, Accept

(* A call with two texts.                                                  *)
LEMMA TwoTexts ==
    ASSUME NEW c, NEW s, s # "rt_print", s \in DOMAIN c.functions, NEW r,
           c.functions[s] = Prototype(<<CString, CString>>, r)
    PROVE  TypeOfCall(c, s, <<CString, CString>>) = r
<1>1. c.functions[s].params = <<CString, CString>> /\ c.functions[s].result = r
  BY DEF Prototype
<1>2. Converts(CString, CString)
  BY PointersAre DEF Converts
<1>3. \A k \in DOMAIN <<CString, CString>> : Converts(<<CString, CString>>[k], <<CString, CString>>[k])
  BY <1>2
<1> QED BY <1>1, <1>3 DEF TypeOfCall, Accept

(* The runtime's functions by their prototypes.                            *)
LEMMA RuntimeCalls ==
    ASSUME NEW env \in Known, NEW c, c = CEnvironment(env)
    PROVE  /\ TypeOfCall(c, "rt_text_concat", <<CString, CString>>) = CString
           /\ TypeOfCall(c, "rt_text_equal", <<CString, CString>>) = C("bool")
           /\ TypeOfCall(c, "rt_text_len", <<CString>>) = C("uint64_t")
           /\ TypeOfCall(c, "rt_text_to_int", <<CString>>) = C("int64_t")
           /\ \A z : Pointer(z) => TypeOfCall(c, "rt_span_len", <<z>>) = CInt
<1>1. \A s \in DOMAIN Natives : s \in DOMAIN c.functions /\ c.functions[s] = Natives[s]
  BY EnvironmentIs
<1>2. /\ {"rt_text_concat", "rt_text_equal", "rt_text_len", "rt_text_to_int", "rt_span_len"} \subseteq DOMAIN Natives
      /\ Natives["rt_text_concat"] = Prototype(<<CString, CString>>, CString)
      /\ Natives["rt_text_equal"] = Prototype(<<CString, CString>>, C("bool"))
      /\ Natives["rt_text_len"] = Prototype(<<CString>>, C("uint64_t"))
      /\ Natives["rt_text_to_int"] = Prototype(<<CString>>, C("int64_t"))
      /\ Natives["rt_span_len"] = Prototype(<<Address>>, CInt)
  BY DEF Natives
<1>3. Converts(CString, CString) /\ \A z : Pointer(z) => Converts(z, Address)
  BY PointersAre DEF Converts
<1>4. TypeOfCall(c, "rt_text_concat", <<CString, CString>>) = CString
  BY <1>1, <1>2, TwoTexts
<1>5. TypeOfCall(c, "rt_text_equal", <<CString, CString>>) = C("bool")
  BY <1>1, <1>2, TwoTexts
<1>6. TypeOfCall(c, "rt_text_len", <<CString>>) = C("uint64_t")
  BY <1>1, <1>2, <1>3, OneGiven
<1>7. TypeOfCall(c, "rt_text_to_int", <<CString>>) = C("int64_t")
  BY <1>1, <1>2, <1>3, OneGiven
<1>8. ASSUME NEW z, Pointer(z) PROVE TypeOfCall(c, "rt_span_len", <<z>>) = CInt
  BY <1>1, <1>2, <1>3, <1>8, OneGiven
<1> QED BY <1>4, <1>5, <1>6, <1>7, <1>8

(* What a call with one argument comes out as.                             *)
LEMMA CallOfOne ==
    ASSUME NEW c, NEW s, NEW a, Fair(a)
    PROVE  Comes(Calls(c, s, <<a>>), TypeOfCall(c, s, <<a.type>>))
<1>1. [k \in DOMAIN <<a>> |-> <<a>>[k].type] = <<a.type>>
  OBVIOUS
<1> QED BY <1>1, OneArgument, CallsComes

(* What one with two does.                                                 *)
LEMMA CallOfTwo ==
    ASSUME NEW c, NEW s, NEW a, NEW b, Fair(a), Fair(b)
    PROVE  Comes(Calls(c, s, <<a, b>>), TypeOfCall(c, s, <<a.type, b.type>>))
<1>1. [k \in DOMAIN <<a, b>> |-> <<a, b>>[k].type] = <<a.type, b.type>>
  OBVIOUS
<1>2. \A k \in DOMAIN <<a, b>> : Fair(<<a, b>>[k])
  OBVIOUS
<1> QED BY <1>1, <1>2, CallsComes

-------------------------------------------------------------------------------
(* A part of an expression, and what comes out of it.                      *)
Operand(t, x) == t \in ValueTypes \cup {TY_VOID} /\ x \in CTexts /\ Fair(x) /\ SameInC(x.type, t)

(* An operand is taken by C and has its type's form.                       *)
LEMMA OperandIs ==
    ASSUME NEW t, NEW x, Operand(t, x)
    PROVE  /\ t \in ValueTypes \cup {TY_VOID} /\ x \in CTexts /\ Fair(x) /\ x.type \in CTypes /\ SameInC(x.type, t)
           /\ x.type # Refused
           /\ t = TY_TEXT => x.type = CString
           /\ t = TY_ANY => x.type = Address
           /\ t \in {TY_BOOL, TY_CHAR} => Arithmetic(x.type) /\ Scalar(x.type)
<1>1. t \in ValueTypes \cup {TY_VOID} /\ x \in CTexts /\ Fair(x) /\ x.type \in CTypes /\ SameInC(x.type, t)
  BY DEF Operand, CTexts
<1>2. {"text", "any"} \cap (Arithmetics \cup {"span"}) = {} /\ {"bool", "char"} \subseteq Arithmetics
  BY DEF Arithmetics, Numbers, Wholes
<1>3. t = TY_TEXT => x.type = CString
  BY <1>1, <1>2, EmitsPlainly, SameForm
<1>4. t = TY_ANY => x.type = Address
  BY <1>1, <1>2, EmitsPlainly, SameForm
<1>5. t \in {TY_BOOL, TY_CHAR} => Arithmetic(x.type)
  BY <1>1, <1>2, EmitsPlainly, SameForm
<1> QED BY <1>1, <1>3, <1>4, <1>5 DEF Fair, Scalar

(* C's int and bool are a bool's, and so on.                               *)
LEMMA TestIsBool == SameInC(CInt, TY_BOOL) /\ SameInC(CInt, TY_INT) /\ SameInC(CString, TY_TEXT) /\ SameInC(C("bool"), TY_BOOL)
<1>1. Promoted(C("bool")) = CInt /\ Promoted(CInt) = CInt
  BY DEF Promoted, C, Narrow, CInt
<1> QED BY <1>1, EmitsPlainly DEF SameInC

(* A type is not None.                                                     *)
LEMMA NotNone ==
    ASSUME NEW t, t \in ValueTypes \cup {TY_VOID} \/ Numeric(t)
    PROVE  t # None
<1>1. Numeric(t) => t \in ValueTypes
  BY BaseTypes DEF Numeric, Plainly
<1> QED BY <1>1, TypesAssumption

(* Where a binary operator has a type, its operands have theirs.           *)
LEMMA TypedOperands ==
    ASSUME NEW op \in Tests \cup {"+", "-", "*", "/", "%"}, NEW a, NEW b, TypedBinary(op, a, b) # None
    PROVE  /\ a # None /\ b # None
           /\ op \in {"&&", "||"} => a = TY_BOOL /\ b = TY_BOOL
           /\ op \in {"==", "!="} => Comparable(a, b)
           /\ op \in {"<", ">", "<=", ">="} => Numeric(a) /\ a = b
           /\ op = "+" => a = b /\ (Numeric(a) \/ a = TY_TEXT)
           /\ op \in {"-", "*", "/"} => a = b /\ Numeric(a)
           /\ op = "%" => a = b /\ Numeric(a) /\ a.kind \in Wholes
           /\ TypedBinary(op, a, b) = IF op \in Tests THEN TY_BOOL ELSE a
<1>1. /\ op \in {"&&", "||"} => a = TY_BOOL /\ b = TY_BOOL
      /\ op \in {"==", "!="} => Comparable(a, b)
      /\ op \in {"<", ">", "<=", ">="} => Numeric(a) /\ a = b
      /\ op = "+" => a = b /\ (Numeric(a) \/ a = TY_TEXT)
      /\ op \in {"-", "*", "/"} => a = b /\ Numeric(a)
      /\ op = "%" => a = b /\ Numeric(a) /\ a.kind \in Wholes
      /\ TypedBinary(op, a, b) = IF op \in Tests THEN TY_BOOL ELSE a
  BY DEF TypedBinary, Judge, Tests
<1>2. \A t : Numeric(t) \/ t \in {TY_TEXT, TY_BOOL, TY_CHAR} => t # None
  BY NotNone, BaseTypes
<1>3. Comparable(a, b) => a # None /\ b # None
  BY <1>2 DEF Comparable, Fits
<1> QED BY <1>1, <1>2, <1>3 DEF Tests

(* A binary operator comes out as its type.                                *)
LEMMA BinarySound ==
    ASSUME NEW env \in Known, NEW c, c = CEnvironment(env), NEW type, NEW x, NEW e,
           e.op \in Tests \cup {"+", "-", "*", "/", "%"},
           NEW a, NEW b, TypedBinary(e.op, a, b) # None,
           a # None => type[e.lhs] = a /\ Operand(a, x[e.lhs]),
           b # None => type[e.rhs] = b /\ Operand(b, x[e.rhs]),
           NEW t, t = TypedBinary(e.op, a, b)
    PROVE  /\ t \in ValueTypes /\ Kind(t) # "span"
           /\ \E m : Comes(Binary(c, type, x, e), m) /\ SameInC(m, t)
<1> DEFINE op == e.op
           l == x[e.lhs]
           r == x[e.rhs]
<1>1. /\ a # None /\ b # None
      /\ op \in {"&&", "||"} => a = TY_BOOL /\ b = TY_BOOL
      /\ op \in {"==", "!="} => Comparable(a, b)
      /\ op \in {"<", ">", "<=", ">="} => Numeric(a) /\ a = b
      /\ op = "+" => a = b /\ (Numeric(a) \/ a = TY_TEXT)
      /\ op \in {"-", "*", "/"} => a = b /\ Numeric(a)
      /\ op = "%" => a = b /\ Numeric(a) /\ a.kind \in Wholes
      /\ t = IF op \in Tests THEN TY_BOOL ELSE a
  BY TypedOperands
<1>2. type[e.lhs] = a /\ type[e.rhs] = b /\ Operand(a, l) /\ Operand(b, r)
  BY <1>1
<1>3. op \in Tests \cup {"+", "-", "*", "/", "%"}
  OBVIOUS
<1>4. a \in ValueTypes \cup {TY_VOID} /\ b \in ValueTypes \cup {TY_VOID}
  BY <1>2, OperandIs
<1>5. Kind(a) = "text" <=> a = TY_TEXT
  BY <1>4, EmitForm, EmitsPlainly
<1>6. Kind(b) = "text" <=> b = TY_TEXT
  BY <1>4, EmitForm, EmitsPlainly
<1> DEFINE texts == a = TY_TEXT /\ b = TY_TEXT
<1>7. Binary(c, type, x, e) =
        CASE texts /\ op = "+" -> Calls(c, "rt_text_concat", <<l, r>>)
          [] texts /\ op = "==" -> Calls(c, "rt_text_equal", <<l, r>>)
          [] texts /\ op = "!=" -> Unary("!", Calls(c, "rt_text_equal", <<l, r>>))
          [] OTHER -> Operator(op, l, r)
  BY <1>2, <1>5, <1>6 DEF Binary
<1>8. t \in ValueTypes /\ Kind(t) # "span"
  <2>1. t \in {TY_BOOL, TY_TEXT} \/ Numeric(t)
    BY <1>1, <1>3
  <2>2. Numeric(t) => t \in ValueTypes /\ Kind(t) \in Numbers
    <3>1. Numeric(t) => t \in ValueTypes
      BY BaseTypes DEF Numeric, Plainly
    <3> QED BY <3>1, NumericIs
  <2>3. "span" \notin Numbers
    BY DEF Numbers, Wholes
  <2> QED BY <2>1, <2>2, <2>3, BaseTypes, EmitsPlainly
<1>9. Fair(l) /\ Fair(r) /\ l \in CTexts /\ r \in CTexts /\ l.type \in CTypes /\ r.type \in CTypes
      /\ SameInC(l.type, a) /\ SameInC(r.type, b)
  BY <1>2, OperandIs
<1> DEFINE m == TypeOfBinary(op, l.place, l.type, r.type)
<1> HIDE DEF op, l, r, m
<1>10. CASE texts /\ op \in {"+", "==", "!="}
  <2>1. l.type = CString /\ r.type = CString
    BY <1>2, <1>10, OperandIs
  <2>2. Comes(Calls(c, "rt_text_concat", <<l, r>>), CString)
    BY <1>9, <2>1, CallOfTwo, RuntimeCalls
  <2>3. Comes(Calls(c, "rt_text_equal", <<l, r>>), C("bool"))
    BY <1>9, <2>1, CallOfTwo, RuntimeCalls
  <2>4. Fair(Calls(c, "rt_text_equal", <<l, r>>))
    <3>1. C("bool") # Refused
      BY DEF C, Refused
    <3> QED BY <2>3, <3>1 DEF Comes, Fair
  <2>5. TypeOfUnary("!", Calls(c, "rt_text_equal", <<l, r>>)) = CInt
    BY <2>3, ArithmeticTypes DEF Comes, TypeOfUnary, Accept, Scalar
  <2>6. Comes(Unary("!", Calls(c, "rt_text_equal", <<l, r>>)), CInt)
    BY <2>4, <2>5, UnaryComes
  <2>7. t = IF op = "+" THEN TY_TEXT ELSE TY_BOOL
    BY <1>1, <1>10 DEF Tests
  <2> QED BY <1>7, <1>8, <1>10, <2>2, <2>3, <2>6, <2>7, TestIsBool
<1>11. CASE ~(texts /\ op \in {"+", "==", "!="})
  <2>1. Binary(c, type, x, e) = Operator(op, l, r)
    BY <1>7, <1>11
  <2>2. ASSUME ~(op \in {"==", "!="} /\ l.type = CString /\ r.type = CString)
        PROVE  Comes(Binary(c, type, x, e), m)
    BY <1>9, <2>1, <2>2, OperatorComes DEF m
  <2>3. CASE op \in {"==", "!="}
    <3>1. m = CInt /\ ~(l.type = CString /\ r.type = CString)
      BY <1>1, <1>4, <1>9, <1>11, <2>3, TestOperator DEF m
    <3>2. t = TY_BOOL
      BY <1>1, <2>3 DEF Tests
    <3> QED BY <1>8, <2>2, <3>1, <3>2, TestIsBool
  <2>4. CASE op \in {"&&", "||"}
    <3>1. Scalar(l.type) /\ Scalar(r.type)
      BY <1>1, <1>2, <2>4, OperandIs
    <3>2. m = CInt
      BY <2>4, <3>1 DEF m, TypeOfBinary, Accept
    <3>3. t = TY_BOOL
      BY <1>1, <2>4 DEF Tests
    <3> QED BY <1>8, <2>2, <2>4, <3>2, <3>3, TestIsBool
  <2>5. CASE op \in {"<", ">", "<=", ">=", "+", "-", "*", "/", "%"}
    <3>1. Numeric(a) /\ a = b
      BY <1>1, <1>11, <2>5
    <3> DEFINE y == l.type
               z == r.type
               q == l.place
    <3>a. y \in CTypes /\ z \in CTypes /\ SameInC(y, a) /\ SameInC(z, a)
      BY <1>9, <3>1
    <3> HIDE DEF y, z, q
    <3>b. m = TypeOfBinary(op, q, y, z)
      BY DEF m, q, y, z
    <3>c. op \in Tests => m = CInt
      BY <1>4, <3>1, <3>a, <3>b, NumericTest
    <3>d. op \in {"+", "-", "*", "/", "%"} => SameInC(m, a)
      BY <1>1, <1>4, <3>1, <3>a, <3>b, NumericResult
    <3>3. SameInC(m, t)
      BY <1>1, <2>5, <3>c, <3>d, TestIsBool DEF Tests
    <3> QED BY <1>8, <2>2, <2>5, <3>3
  <2> QED BY <1>3, <2>3, <2>4, <2>5 DEF Tests
<1> QED BY <1>10, <1>11

(* What comes out of an expression e, of which it is known whether it can  *)
(* be assigned to, and its type.                                           *)
Sound(e, place, t, x) ==
    /\ t \in ValueTypes \cup {TY_VOID}
    /\ Faithful(x, t)
    /\ place => x.place /\ x.type = emit_type(t) /\ t \in ValueTypes
    /\ Kind(t) = "span" /\ e.e # "array" => x.type = emit_type(t)

(* What is sound is an operand.                                            *)
LEMMA SoundPart ==
    ASSUME NEW e, NEW place, NEW t, NEW x \in CTexts, Sound(e, place, t, x)
    PROVE  Operand(t, x)
<1>1. t \in ValueTypes \cup {TY_VOID} /\ SameInC(x.type, t) /\ ~x.compares /\ x.type \in CTypes
  BY DEF Sound, Faithful, CTexts
<1>2. x.type # Refused
  BY <1>1, SameForm
<1> QED BY <1>1, <1>2 DEF Operand, Fair

(* What comes out as a C type that is the type's is sound.                 *)
LEMMA SoundAs ==
    ASSUME NEW e, NEW place, NEW t \in ValueTypes \cup {TY_VOID}, NEW x, NEW m, Comes(x, m), SameInC(m, t),
           place => x.place /\ m = emit_type(t) /\ t \in ValueTypes,
           Kind(t) = "span" => m = emit_type(t)
    PROVE  Sound(e, place, t, x)
BY DEF Sound, Faithful, Comes

(* What comes out as emit_type says is sound.                              *)
LEMMA SoundAsEmitted ==
    ASSUME NEW e, NEW place, NEW t \in ValueTypes \cup {TY_VOID}, NEW x, Comes(x, emit_type(t)),
           place => x.place /\ t \in ValueTypes
    PROVE  Sound(e, place, t, x)
BY SoundAs DEF SameInC

(* A field is a member in C, behind . or ->.                               *)
LEMMA MemberIs ==
    ASSUME NEW env \in Known, NEW c, c = CEnvironment(env), NEW n \in DOMAIN Structs, NEW field \in DOMAIN Structs[n],
           NEW by, NEW t, (by = "->" /\ t = Ptr(Struct(n))) \/ (by = "." /\ t = Struct(n))
    PROVE  TypeOfMember(c, by, t, field) = emit_type(Structs[n][field])
<1>1. Struct(n) \in CTypes /\ Struct(n).stars = 0 /\ Struct(n).c = "struct" /\ Struct(n).struct = n
  BY Pointers DEF Struct
<1>2. ~Pointer(Struct(n))
  BY <1>1 DEF Pointer
<1>3. Pointer(Ptr(Struct(n))) /\ Pointee(Ptr(Struct(n))) = Struct(n) /\ Ptr(Struct(n)).c = "struct"
  BY <1>1, PtrType DEF Pointer
<1>4. Pointed(Ptr(Struct(n)))
  <2>1. Address.c = "void"
    BY Pointers
  <2> QED BY <1>3, <2>1 DEF Pointed
<1>5. /\ n \in DOMAIN c.structs /\ field \in DOMAIN c.structs[n]
      /\ c.structs[n][field] = emit_type(Structs[n][field])
  BY EnvironmentIs
<1>6. CASE by = "->" /\ t = Ptr(Struct(n))
  <2>1. (IF by = "->" /\ Pointed(t) THEN Pointee(t) ELSE t) = Struct(n)
    BY <1>3, <1>4, <1>6
  <2>2. (by = "->") = Pointer(t)
    BY <1>3, <1>6 DEF Pointer
  <2> QED BY <1>1, <1>5, <2>1, <2>2 DEF TypeOfMember
<1>7. CASE by = "." /\ t = Struct(n)
  <2>1. (IF by = "->" /\ Pointed(t) THEN Pointee(t) ELSE t) = Struct(n)
    BY <1>7
  <2>2. (by = "->") = Pointer(t)
    BY <1>2, <1>7 DEF Pointer
  <2> QED BY <1>1, <1>5, <2>1, <2>2 DEF TypeOfMember
<1> QED BY <1>6, <1>7

(* A field comes out as its type, and a place as a place.                  *)
LEMMA FieldSound ==
    ASSUME NEW env \in Known, NEW c, c = CEnvironment(env), NEW type, NEW x, NEW e, NEW p, NEW base,
           type[e.base] = base, x[e.base] \in CTexts, Sound(e.base, p, base, x[e.base]),
           NEW t, t = TypedField(base, p, e.field), t # None
    PROVE  /\ t \in ValueTypes
           /\ Comes(gen_field(c, type, x, e), emit_type(t))
           /\ e.field = "value" \/ (e.field \notin {"address", "length"} /\ p) => gen_field(c, type, x, e).place
<1> DEFINE a == x[e.base]
           field == e.field
           kind == Kind(base)
           held == IF kind = "ref" THEN Inner(base) ELSE base
<1>1. base # None
  BY DEF TypedField
<1>2. /\ Operand(base, a) /\ base \in ValueTypes \cup {TY_VOID}
      /\ p => a.place /\ a.type = emit_type(base) /\ base \in ValueTypes
  BY SoundPart DEF Sound
<1>3. Fair(a) /\ a.type \in CTypes /\ SameInC(a.type, base)
  BY <1>2, OperandIs
<1>4. gen_field(c, type, x, e) =
        CASE field = "address" -> Unary("&", a)
          [] field = "value" /\ kind = "ref" -> Unary("*", a)
          [] field = "length" /\ kind = "text" -> CastTo(CInt, Calls(c, "rt_text_len", <<a>>))
          [] field = "length" /\ kind = "span" -> Calls(c, "rt_span_len", <<a>>)
          [] OTHER -> Member(c, IF kind = "ref" THEN "->" ELSE ".", a, field)
  BY DEF gen_field
<1>5. t =
        CASE field = "address" -> Judge(p, Ref(base))
          [] field = "value" -> Judge(kind = "ref", Inner(base))
          [] field = "length" -> Judge(kind \in {"span", "text"}, TY_INT)
          [] OTHER -> IF Kind(held) = "named" /\ field \in DOMAIN Structs[held.name]
                      THEN Structs[held.name][field] ELSE None
  BY <1>1 DEF TypedField
<1>6. kind = "ref" => /\ base \in ValueTypes /\ Inner(base) \in ValueTypes
                      /\ a.type = Ptr(emit_type(Inner(base))) /\ Pointed(a.type)
  <2> SUFFICES ASSUME kind = "ref"
               PROVE  /\ base \in ValueTypes /\ Inner(base) \in ValueTypes
                      /\ a.type = Ptr(emit_type(Inner(base))) /\ Pointed(a.type)
    OBVIOUS
  <2>1. base # TY_VOID
    BY EmitsPlainly
  <2>2. "ref" \in Composes /\ "ref" \notin Arithmetics \cup {"span"}
    BY DEF Composes, Arithmetics, Numbers, Wholes
  <2>3. a.type = emit_type(base)
    BY <1>2, <1>3, <2>2, SameForm
  <2> QED BY <1>2, <2>1, <2>2, <2>3, EmitForm, EmitsValue
<1> HIDE DEF a, field, kind, held
<1>7. CASE field = "address"
  <2>1. p /\ t = Ref(base)
    BY <1>5, <1>7 DEF Judge
  <2>2. base \in ValueTypes /\ base \in AllTypes /\ a.place /\ a.type = emit_type(base)
    BY <1>2, <2>1, BaseTypes
  <2>3. t \in ValueTypes /\ emit_type(t) = Ptr(emit_type(base))
    BY <2>1, <2>2, Wraps
  <2>4. TypeOfUnary("&", a) = emit_type(t)
    BY <2>2, <2>3 DEF TypeOfUnary, Accept
  <2>5. gen_field(c, type, x, e) = Unary("&", a)
    BY <1>4, <1>7
  <2>6. Comes(Unary("&", a), emit_type(t))
    BY <1>3, <2>4, UnaryComes
  <2> QED BY <1>7, <2>3, <2>5, <2>6 DEF field
<1>8. CASE field = "value"
  <2>1. kind = "ref" /\ t = Inner(base)
    BY <1>5, <1>8 DEF Judge
  <2>2. emit_type(t) \in CTypes
    BY <1>6, <2>1, EmitForm
  <2>3. Pointee(a.type) = emit_type(t)
    BY <1>6, <2>1, <2>2, PtrType
  <2>4. TypeOfUnary("*", a) = emit_type(t)
    BY <1>6, <2>1, <2>3 DEF TypeOfUnary
  <2>5. gen_field(c, type, x, e) = Unary("*", a)
    BY <1>4, <1>8, <2>1
  <2>6. Comes(Unary("*", a), emit_type(t)) /\ Unary("*", a).place
    BY <1>3, <2>4, UnaryComes
  <2> QED BY <1>6, <2>1, <2>5, <2>6
<1>9. CASE field = "length"
  <2>1. kind \in {"span", "text"} /\ t = TY_INT
    BY <1>5, <1>9 DEF Judge
  <2>2. t \in ValueTypes /\ emit_type(t) = CInt
    BY <2>1, BaseTypes, EmitsPlainly
  <2>3. CASE kind = "text"
    <3>1. a.type = CString
      BY <1>2, <2>3, EmitForm, OperandIs DEF kind
    <3>2. Comes(Calls(c, "rt_text_len", <<a>>), C("uint64_t"))
      BY <1>3, <3>1, CallOfOne, RuntimeCalls
    <3>3. C("uint64_t") # Refused /\ C("uint64_t").stars = 0 /\ C("uint64_t").c = "uint64_t"
      BY DEF C, Refused
    <3>4. Fair(Calls(c, "rt_text_len", <<a>>))
      BY <3>2, <3>3 DEF Comes, Fair
    <3>5. TypeOfCast(CInt, C("uint64_t")) = CInt
      <4>1. Arithmetic(C("uint64_t"))
        BY <3>3, RankedIs DEF Arithmetic
      <4>2. ~Pointer(C("uint64_t")) /\ ~Pointer(CInt)
        <5>1. CInt.stars = 0
          BY DEF CInt, C
        <5> QED BY <3>3, <5>1 DEF Pointer
      <4> QED BY <4>1, <4>2, ArithmeticTypes DEF TypeOfCast, Accept, Scalar
    <3>6. Comes(CastTo(CInt, Calls(c, "rt_text_len", <<a>>)), CInt)
      BY <3>2, <3>4, <3>5, CastComes DEF Comes
    <3>7. gen_field(c, type, x, e) = CastTo(CInt, Calls(c, "rt_text_len", <<a>>))
      BY <1>4, <1>9, <2>3
    <3> QED BY <1>9, <2>2, <3>6, <3>7 DEF field
  <2>4. CASE kind = "span"
    <3>1. Pointer(a.type)
      BY <1>2, <1>3, <2>4, SameForm DEF kind
    <3>2. Comes(Calls(c, "rt_span_len", <<a>>), CInt)
      BY <1>3, <3>1, CallOfOne, RuntimeCalls
    <3>3. gen_field(c, type, x, e) = Calls(c, "rt_span_len", <<a>>)
      BY <1>4, <1>9, <2>4
    <3> QED BY <1>9, <2>2, <3>2, <3>3 DEF field
  <2> QED BY <2>1, <2>3, <2>4
<1>10. CASE field \notin {"address", "value", "length"}
  <2> DEFINE n == held.name
             by == IF kind = "ref" THEN "->" ELSE "."
  <2>1. Kind(held) = "named" /\ field \in DOMAIN Structs[n] /\ t = Structs[n][field]
    BY <1>5, <1>10
  <2>2. held \in ValueTypes \cup {TY_VOID}
    BY <1>2, <1>6 DEF held
  <2>3. n \in DOMAIN Structs /\ emit_type(held) = Struct(n)
    BY <2>1, <2>2, EmitForm
  <2>4. kind = "ref" => a.type = Ptr(Struct(n))
    BY <1>6, <2>3 DEF held
  <2>5. kind # "ref" => a.type = Struct(n)
    <3>1. "named" \notin Arithmetics \cup {"span"}
      BY DEF Arithmetics, Numbers, Wholes
    <3>2. kind # "ref" => held = base
      BY DEF held
    <3> QED BY <1>2, <1>3, <2>1, <2>3, <3>1, <3>2, SameForm
  <2> HIDE DEF n
  <2>6. TypeOfMember(c, by, a.type, field) = emit_type(t)
    <3>1. kind = "ref" => by = "->" /\ a.type = Ptr(Struct(n))
      BY <2>4
    <3>2. kind # "ref" => by = "." /\ a.type = Struct(n)
      BY <2>5
    <3>3. (by = "->" /\ a.type = Ptr(Struct(n))) \/ (by = "." /\ a.type = Struct(n))
      BY <3>1, <3>2
    <3> HIDE DEF by
    <3>4. TypeOfMember(c, by, a.type, field) = emit_type(Structs[n][field])
      BY <2>1, <2>3, <3>3, MemberIs
    <3> QED BY <2>1, <3>4
  <2>7. gen_field(c, type, x, e) = Member(c, by, a, field)
    BY <1>4, <1>10
  <2> HIDE DEF by
  <2>8. Comes(Member(c, by, a, field), emit_type(t)) /\ (Member(c, by, a, field).place <=> by = "->" \/ a.place)
    BY <1>3, <2>6, MemberComes
  <2>9. t \in ValueTypes
    BY <2>1, <2>3, StructsAssumption
  <2> QED BY <1>2, <1>10, <2>7, <2>8, <2>9 DEF field
<1> QED BY <1>7, <1>8, <1>9, <1>10

(* Calls of the functions of a program, and of the library's.              *)
LEMMA LengthIs ==
    ASSUME NEW n \in Nat, NEW r, r = [k \in 1..n |-> r[k]]
    PROVE  Len(r) = n /\ DOMAIN r = 1..n
<1> DEFINE T == {r[k] : k \in 1..n}
<1>1. r \in [1..n -> T]
  OBVIOUS
<1>2. Len(r) = n
  BY <1>1
<1> QED BY <1>1, <1>2

(* A function on the places of a sequence is as long.                      *)
LEMMA LengthOf ==
    ASSUME NEW S, NEW s \in Seq(S), NEW r, r = [k \in DOMAIN s |-> r[k]]
    PROVE  Len(r) = Len(s) /\ DOMAIN r = DOMAIN s
<1>1. DOMAIN s = 1..Len(s) /\ Len(s) \in Nat
  OBVIOUS
<1> QED BY <1>1, LengthIs

(* C is told of a program's function the types of its declaration.         *)
LEMMA DeclaredIs ==
    ASSUME NEW env \in Known, NEW c, c = CEnvironment(env), NEW d \in Functions, ~d.native
    PROVE  /\ d.symbol \in DOMAIN c.functions
           /\ c.functions[d.symbol] = Prototype([k \in DOMAIN d.params |-> emit_type(d.params[k])], emit_type(d.result))
<1> DEFINE s == d.symbol
           g == CHOOSE g \in Functions : g.symbol = s
<1>1. d.symbol \notin DOMAIN Natives /\ \A f \in Functions : f.symbol = s => f.params = d.params /\ f.result = d.result
  BY SymbolsAssumption
<1>2. g \in Functions /\ g.symbol = s
  BY Zenon
<1>3. c.functions =
        [z \in DOMAIN Natives \cup {f.symbol : f \in Functions} |->
            IF z \in DOMAIN Natives THEN Natives[z]
            ELSE LET f == CHOOSE f \in Functions : f.symbol = z IN
                 Prototype([k \in DOMAIN f.params |-> emit_type(f.params[k])], emit_type(f.result))]
  BY DEF CEnvironment
<1>4. s \in {f.symbol : f \in Functions}
  OBVIOUS
<1>5. c.functions[s] = Prototype([k \in DOMAIN g.params |-> emit_type(g.params[k])], emit_type(g.result))
  BY <1>1, <1>3, <1>4
<1> HIDE DEF g
<1>6. g.params = d.params /\ g.result = d.result
  BY <1>1, <1>2
<1> QED BY <1>3, <1>4, <1>5, <1>6

(* rt_print takes whatever std.out takes.                                  *)
LEMMA PrintConverts ==
    ASSUME NEW t \in ValueTypes \cup {TY_VOID}, Numeric(t) \/ t \in {TY_TEXT, TY_BOOL}, NEW y \in CTypes, SameInC(y, t)
    PROVE  Converts(y, rt_print(y))
<1>1. {"bool"} \cap {"text", "span"} = {} /\ "text" \notin Arithmetics \cup {"span"} /\ "bool" \in Arithmetics
  BY DEF Arithmetics, Numbers, Wholes
<1>2. CASE t = TY_TEXT
  <2>1. y = CString
    BY <1>1, <1>2, EmitsPlainly, SameForm
  <2>2. rt_print(CString) = CString
    BY Pointers DEF rt_print, Real, C
  <2> QED BY <2>1, <2>2, PointersAre DEF Converts
<1>3. CASE Numeric(t) \/ t = TY_BOOL
  <2>1. Kind(t) \in Arithmetics
    BY <1>1, <1>3, NumericIs, EmitsPlainly
  <2>2. Arithmetic(y) /\ y # CString
    BY <2>1, SameForm, NoPointer
  <2>3. \A w \in {"double", "bool", "uint64_t", "int64_t"} : Arithmetic(C(w))
    BY RankedIs DEF Arithmetic, C, Narrow
  <2>4. rt_print(y) \in {C("double"), C("bool"), C("uint64_t"), C("int64_t")}
    BY <2>2 DEF rt_print
  <2>5. Arithmetic(rt_print(y))
    BY <2>3, <2>4
  <2> QED BY <2>2, <2>5 DEF Converts
<1> QED BY <1>2, <1>3

(* A call with a type comes out as its type.                               *)
LEMMA CallSound ==
    ASSUME NEW env \in Known, NEW c, c = CEnvironment(env), NEW d \in Functions, NEW n \in Nat,
           NEW given, DOMAIN given = 1..n, Len(given) = n, NEW xs, DOMAIN xs = 1..n,
           \A k \in 1..n : given[k] # None => Operand(given[k], xs[k]),
           NEW t, t = TypedCall(d, given), t # None
    PROVE  /\ t = d.result
           /\ \E m : /\ Comes(Calls(c, d.symbol, xs), m)
                     /\ SameInC(m, t) /\ (Kind(t) = "span" => m = emit_type(t))
<1> DEFINE types == [k \in DOMAIN xs |-> xs[k].type]
           known == /\ ~Misdeclared(d)
                    /\ Len(given) = Len(d.params)
                    /\ \A k \in DOMAIN given :
                         IF d.symbol = "rt_print" THEN Numeric(given[k]) \/ given[k] \in {TY_TEXT, TY_BOOL}
                         ELSE Fits(given[k], d.params[k])
<1>1. TypedCall(d, given) = IF d = None THEN None ELSE Judge(known, d.result)
  BY Zenon DEF TypedCall
<1>2. known /\ t = d.result
  <2> HIDE DEF known
  <2> QED BY <1>1 DEF Judge
<1>3. Len(given) = n /\ Len(types) = n
  <2>1. types = [k \in 1..n |-> types[k]]
    OBVIOUS
  <2> HIDE DEF types
  <2> QED BY <2>1, LengthIs
<1>4. \A k \in 1..n : types[k] = xs[k].type
  OBVIOUS
<1>5. DOMAIN given = 1..n /\ DOMAIN types = 1..n /\ DOMAIN xs = 1..n
  OBVIOUS
<1>7. \A k \in 1..n : IF d.symbol = "rt_print" THEN Numeric(given[k]) \/ given[k] \in {TY_TEXT, TY_BOOL}
                             ELSE Fits(given[k], d.params[k])
  BY <1>2, <1>5
<1>8. ~Misdeclared(d) /\ Len(d.params) = n
  BY <1>2, <1>3
<1> HIDE DEF known
<1>9. ASSUME NEW k \in 1..n PROVE Operand(given[k], xs[k])
  <2>1. Numeric(given[k]) \/ given[k] \in {TY_TEXT, TY_BOOL} => given[k] # None
    BY NotNone, BaseTypes
  <2>2. Fits(given[k], d.params[k]) => given[k] # None
    BY DEF Fits
  <2>3. given[k] # None
    BY <1>7, <2>1, <2>2
  <2> QED BY <1>4, <2>3
<1>10. \A k \in 1..n : /\ given[k] \in ValueTypes \cup {TY_VOID} /\ types[k] \in CTypes
                              /\ SameInC(types[k], given[k]) /\ Fair(xs[k])
  BY <1>4, <1>9, OperandIs
<1> DEFINE m == TypeOfCall(c, d.symbol, types)
<1>11. Comes(Calls(c, d.symbol, xs), m)
  BY <1>5, <1>10, CallsComes
<1> HIDE DEF types
<1>12. d.params \in Seq(ValueTypes) /\ d.result \in ValueTypes \cup {TY_VOID}
  BY FunctionsAssumption
<1>13. DOMAIN d.params = 1..n /\ \A k \in 1..n : d.params[k] \in ValueTypes
  BY <1>3, <1>8, <1>12
<1>14. ASSUME NEW ps, NEW r, d.symbol # "rt_print", d.symbol \in DOMAIN c.functions,
              c.functions[d.symbol] = Prototype(ps, r), Len(ps) = Len(d.params),
              \A k \in 1..n : Converts(emit_type(d.params[k]), ps[k])
       PROVE  m = r
  <2>1. \A k \in 1..n : Fits(given[k], d.params[k])
    BY <1>7, <1>14
  <2>2. ASSUME NEW k \in 1..n PROVE Converts(types[k], ps[k])
    <3> DEFINE y == types[k]
               s == given[k]
               to == d.params[k]
               q == ps[k]
    <3>1. /\ s \in ValueTypes \cup {TY_VOID} /\ to \in ValueTypes /\ Fits(s, to)
          /\ y \in CTypes /\ SameInC(y, s) /\ Converts(emit_type(to), q)
      BY <1>10, <1>13, <1>14, <2>1
    <3> HIDE DEF y, s, to, q
    <3>2. Converts(y, q)
      BY <3>1, ConvertsAs
    <3> QED BY <3>2 DEF y, q
  <2>3. c.functions[d.symbol].params = ps /\ c.functions[d.symbol].result = r
    BY <1>14 DEF Prototype
  <2>4. Len(types) = Len(ps)
    BY <1>3, <1>8, <1>14
  <2> QED BY <1>5, <1>14, <2>2, <2>3, <2>4 DEF TypeOfCall, Accept
<1>15. CASE ~d.native
  <2> DEFINE ps == [k \in DOMAIN d.params |-> emit_type(d.params[k])]
  <2>1. d.symbol \in DOMAIN c.functions /\ c.functions[d.symbol] = Prototype(ps, emit_type(d.result))
    BY <1>15, DeclaredIs
  <2>2. d.symbol # "rt_print"
    BY <1>15, SymbolsAssumption
  <2>3. Len(ps) = Len(d.params)
    <3>1. ps = [k \in DOMAIN d.params |-> ps[k]]
      OBVIOUS
    <3> HIDE DEF ps
    <3> QED BY <1>12, <3>1, LengthOf
  <2>4. \A k \in 1..n : Converts(emit_type(d.params[k]), ps[k])
    BY <1>13, ConvertsToItself
  <2> HIDE DEF ps
  <2>5. m = emit_type(d.result)
    BY <1>14, <2>1, <2>2, <2>3, <2>4
  <2>6. SameInC(m, d.result)
    BY <2>5 DEF SameInC
  <2> HIDE DEF m
  <2> QED BY <1>2, <1>11, <2>5, <2>6
<1>16. CASE d.native /\ d.symbol = "rt_print"
  <2>1. Len(d.params) = 1 /\ d.result = TY_VOID
    BY <1>8, <1>16, NativesAssumption
  <2>2. 1 \in 1..n /\ Len(types) = 1
    BY <1>3, <1>8, <2>1
  <2>3. Converts(types[1], rt_print(types[1]))
    BY <1>7, <1>10, <1>16, <2>2, PrintConverts
  <2>4. m = C("void")
    BY <1>16, <2>2, <2>3 DEF TypeOfCall, Accept
  <2>5. SameInC(m, d.result) /\ m = emit_type(d.result)
    BY <2>1, <2>4, EmitsPlainly DEF SameInC
  <2> HIDE DEF m
  <2> QED BY <1>2, <1>11, <2>5
<1>17. CASE d.native /\ d.symbol # "rt_print"
  <2> DEFINE p == Natives[d.symbol]
  <2>1. /\ d.symbol \in DOMAIN Natives
        /\ Len(d.params) = Len(p.params)
        /\ \A k \in DOMAIN d.params : Converts(emit_type(d.params[k]), p.params[k])
        /\ SameInC(p.result, d.result)
        /\ Kind(d.result) = "span" => p.result = emit_type(d.result)
    BY <1>8, <1>17, NativesAssumption
  <2>2. d.symbol \in DOMAIN c.functions /\ c.functions[d.symbol] = p
    BY <2>1, EnvironmentIs
  <2> HIDE DEF p
  <2>4. m = p.result
    <3>1. \A k \in 1..n : Fits(given[k], d.params[k])
      BY <1>7, <1>17
    <3>2. ASSUME NEW k \in 1..n PROVE Converts(types[k], p.params[k])
      <4> DEFINE y == types[k]
                 s == given[k]
                 to == d.params[k]
                 q == p.params[k]
      <4>1. /\ s \in ValueTypes \cup {TY_VOID} /\ to \in ValueTypes /\ Fits(s, to)
            /\ y \in CTypes /\ SameInC(y, s) /\ Converts(emit_type(to), q)
        BY <1>10, <1>13, <2>1, <3>1
      <4> HIDE DEF y, s, to, q
      <4>2. Converts(y, q)
        BY <4>1, ConvertsAs
      <4> QED BY <4>2 DEF y, q
    <3>3. Len(types) = Len(p.params)
      BY <1>3, <1>8, <2>1
    <3> QED BY <1>5, <1>17, <2>2, <3>2, <3>3 DEF TypeOfCall, Accept
  <2> HIDE DEF m
  <2> QED BY <1>2, <1>11, <2>1, <2>4
<1> QED BY <1>15, <1>16, <1>17

(* The other kinds of expressions.                                         *)
LEMMA NoArguments == \A type, place : Comes(Made(type, place, <<>>), type)
<1>1. DOMAIN <<>> = {}
  OBVIOUS
<1>2. \A k \in DOMAIN <<>> : Fair(<<>>[k])
  BY <1>1
<1> QED BY <1>2, MadeComes

(* An assignment with an operator.                                         *)
LEMMA NumericAssign ==
    ASSUME NEW t \in ValueTypes \cup {TY_VOID}, Numeric(t), NEW x \in CTypes, NEW y \in CTypes,
           SameInC(x, t), SameInC(y, t), NEW op \in {"+=", "-=", "*=", "/="}
    PROVE  TypeOfBinary(op, TRUE, x, y) = x
<1>1. Kind(t) \in Arithmetics
  BY NumericIs
<1>2. Arithmetic(x) /\ Arithmetic(y) /\ ~Pointed(x)
  BY <1>1, SameForm, NoPointer
<1> QED BY <1>2 DEF TypeOfBinary, Accept

(* A constant.                                                             *)
LEMMA ConstantSound ==
    ASSUME NEW e, NEW t \in ValueTypes, NEW m, m = emit_type(t) \/ SameInC(m, t), Kind(t) # "span"
    PROVE  Sound(e, FALSE, t, Constant(m))
<1>1. Comes(Constant(m), m)
  BY NoArguments DEF Constant
<1>2. SameInC(m, t)
  BY DEF SameInC
<1> QED BY <1>1, <1>2, SoundAs

(* A literal, nil and sizeof.                                              *)
LEMMA LiteralSound ==
    ASSUME NEW e, e.e \in Literals \cup {"nil", "sizeof"}, NEW env, NEW c, NEW p, NEW f, NEW type, NEW x
    PROVE  Sound(e, PlaceAt(p, e), TypedAt(env, p, f, e), GenAt(env, c, type, x, e))
<1>1. PlaceAt(p, e) = FALSE
  BY DEF PlaceAt, Literals
<1>2. CASE e.e \in {"int", "sizeof"}
  <2>1. TypedAt(env, p, f, e) = TY_INT /\ GenAt(env, c, type, x, e) = Constant(CInt)
    BY <1>2 DEF TypedAt, GenAt, Literals, TY_INT
  <2>2. TY_INT \in ValueTypes /\ Kind(TY_INT) # "span" /\ CInt = emit_type(TY_INT)
    BY BaseTypes, EmitsPlainly
  <2> QED BY <1>1, <2>1, <2>2, ConstantSound
<1>3. CASE e.e = "bool"
  <2>1. TypedAt(env, p, f, e) = TY_BOOL /\ GenAt(env, c, type, x, e) = Constant(CInt)
    BY <1>3 DEF TypedAt, GenAt, Literals, TY_BOOL
  <2>2. TY_BOOL \in ValueTypes /\ Kind(TY_BOOL) # "span" /\ SameInC(CInt, TY_BOOL)
    BY BaseTypes, EmitsPlainly, TestIsBool
  <2> QED BY <1>1, <2>1, <2>2, ConstantSound
<1>4. CASE e.e = "char"
  <2>1. TypedAt(env, p, f, e) = TY_CHAR /\ GenAt(env, c, type, x, e) = Constant(CInt)
    BY <1>4 DEF TypedAt, GenAt, Literals, TY_CHAR
  <2>2. Promoted(C("char")) = CInt /\ Promoted(CInt) = CInt
    BY DEF Promoted, C, Narrow, CInt
  <2>3. TY_CHAR \in ValueTypes /\ Kind(TY_CHAR) # "span" /\ SameInC(CInt, TY_CHAR)
    BY <2>2, BaseTypes, EmitsPlainly DEF SameInC
  <2> QED BY <1>1, <2>1, <2>3, ConstantSound
<1>5. CASE e.e \in {"float", "double"}
  <2>1. TypedAt(env, p, f, e) = Type(e.e) /\ GenAt(env, c, type, x, e) = Constant(C(e.e))
    BY <1>5 DEF TypedAt, GenAt, Literals
  <2>2. e.e \in Plainly
    BY <1>5 DEF Plainly, Numbers
  <2>3. emit_base(e.e) = C(e.e)
    BY <1>5, EmitsBase
  <2>4. Type(e.e) \in ValueTypes /\ Kind(Type(e.e)) # "span" /\ emit_type(Type(e.e)) = C(e.e)
    BY <1>5, <2>2, <2>3, BaseTypes, EmitsPlainly
  <2> QED BY <1>1, <2>1, <2>4, ConstantSound
<1>6. CASE e.e = "text"
  <2>1. TypedAt(env, p, f, e) = TY_TEXT /\ GenAt(env, c, type, x, e) = Constant(CString)
    BY <1>6 DEF TypedAt, GenAt, Literals, TY_TEXT
  <2>2. TY_TEXT \in ValueTypes /\ Kind(TY_TEXT) # "span" /\ SameInC(CString, TY_TEXT)
    BY BaseTypes, EmitsPlainly, TestIsBool
  <2> QED BY <1>1, <2>1, <2>2, ConstantSound
<1>7. CASE e.e = "nil"
  <2>1. TypedAt(env, p, f, e) = TY_ANY /\ GenAt(env, c, type, x, e) = Constant(Address)
    BY <1>7 DEF TypedAt, GenAt, Literals
  <2>2. TY_ANY \in ValueTypes /\ Kind(TY_ANY) # "span" /\ Address = emit_type(TY_ANY)
    BY BaseTypes, EmitsPlainly
  <2> QED BY <1>1, <2>1, <2>2, ConstantSound
<1> QED BY <1>2, <1>3, <1>4, <1>5, <1>6, <1>7 DEF Literals

(* A name: a variable, or an enumerator where no variable has its name.    *)
LEMMA NameSound ==
    ASSUME NEW env \in Known, NEW c, c = CEnvironment(env), NEW e, e.e = "ident", e.name \in Identifiers,
           NEW p, NEW f, NEW type, NEW x, TypedAt(env, p, f, e) # None
    PROVE  Sound(e, PlaceAt(p, e), TypedAt(env, p, f, e), GenAt(env, c, type, x, e))
<1>1. PlaceAt(p, e) <=> e.name \notin Enumerators
  BY DEF PlaceAt
<1>2. TypedAt(env, p, f, e) = IF env[e.name] = None /\ e.name \in Enumerators THEN TY_INT ELSE env[e.name]
  BY DEF TypedAt, Literals
<1>3. GenAt(env, c, type, x, e) = IF env[e.name] = None /\ e.name \in Enumerators THEN Constant(CInt)
                                  ELSE Variable(c, e.name)
  BY DEF GenAt, Literals
<1>4. CASE env[e.name] = None
  <2>1. e.name \in Enumerators /\ ~PlaceAt(p, e)
    BY <1>1, <1>2, <1>4
  <2>2. PlaceAt(p, e) = FALSE
    BY <2>1 DEF PlaceAt
  <2>3. TY_INT \in ValueTypes /\ Kind(TY_INT) # "span" /\ CInt = emit_type(TY_INT)
    BY BaseTypes, EmitsPlainly
  <2>4. Sound(e, FALSE, TY_INT, Constant(CInt))
    BY <2>3, ConstantSound
  <2> QED BY <1>2, <1>3, <1>4, <2>1, <2>2, <2>4
<1>5. CASE env[e.name] # None
  <2>1. env[e.name] \in ValueTypes
    BY <1>5 DEF Known
  <2>2. c.variables[e.name] = emit_type(env[e.name])
    BY <1>5, EnvironmentIs
  <2>3. Comes(Variable(c, e.name), emit_type(env[e.name]))
    BY <2>2, NoArguments DEF Variable
  <2>4. Variable(c, e.name).place
    BY DEF Variable, Made
  <2>5. Sound(e, PlaceAt(p, e), env[e.name], Variable(c, e.name))
    BY <2>1, <2>3, <2>4, SoundAsEmitted
  <2> QED BY <1>2, <1>3, <1>5, <2>5
<1> QED BY <1>4, <1>5

(* A unary operator.                                                       *)
LEMMA UnarySound ==
    ASSUME NEW op \in {"-", "!"}, NEW t, NEW a, Operand(t, a), op = "!" => t = TY_BOOL, op # "!" => Numeric(t)
    PROVE  t \in ValueTypes /\ Kind(t) # "span" /\ \E m : Comes(Unary(op, a), m) /\ SameInC(m, t)
<1>1. t \in ValueTypes \cup {TY_VOID} /\ Fair(a) /\ a.type \in CTypes /\ SameInC(a.type, t)
  BY OperandIs
<1>2. Comes(Unary(op, a), TypeOfUnary(op, a))
  BY <1>1, UnaryComes
<1>3. CASE op = "!"
  <2>1. t = TY_BOOL /\ Scalar(a.type)
    BY <1>3, OperandIs
  <2>2. TypeOfUnary(op, a) = CInt
    BY <1>3, <2>1 DEF TypeOfUnary, Accept
  <2>3. t \in ValueTypes /\ Kind(t) # "span" /\ SameInC(CInt, t)
    BY <2>1, BaseTypes, EmitsPlainly, TestIsBool
  <2> QED BY <1>2, <2>2, <2>3
<1>4. CASE op = "-"
  <2>1. Numeric(t)
    BY <1>4
  <2>2. Kind(t) \in Numbers /\ Kind(t) \in Arithmetics
    BY <1>1, <2>1, NumericIs
  <2>3. Kind(t) \notin {"span", "void"}
    BY <2>2 DEF Numbers, Wholes
  <2>4. t \in ValueTypes
    BY <1>1, <2>3, EmitsPlainly
  <2>5. Arithmetic(a.type)
    BY <1>1, <2>2, SameForm
  <2>6. TypeOfUnary(op, a) = Promoted(a.type)
    BY <1>4, <2>5 DEF TypeOfUnary, Accept
  <2>7. SameInC(Common(a.type, a.type), t)
    BY <1>1, <2>3, CommonIs
  <2>8. Common(a.type, a.type) = Promoted(a.type)
    BY DEF Common
  <2> QED BY <1>2, <2>3, <2>4, <2>6, <2>7, <2>8
<1> QED BY <1>3, <1>4

(* An assignment.                                                          *)
LEMMA AssignSound ==
    ASSUME NEW op \in {"=", "+=", "-=", "*=", "/="}, NEW a \in ValueTypes, NEW b, Fits(b, a),
           NEW l, NEW r, Operand(a, l), Operand(b, r), l.place, l.type = emit_type(a), op # "=" => Numeric(a)
    PROVE  Comes(Operator(op, l, r), emit_type(a))
<1> DEFINE y == l.type
           z == r.type
           q == l.place
<1>1. /\ l \in CTexts /\ r \in CTexts /\ Fair(l) /\ Fair(r) /\ y \in CTypes /\ z \in CTypes
      /\ SameInC(y, a) /\ SameInC(z, b) /\ b \in ValueTypes \cup {TY_VOID} /\ q \in BOOLEAN
  BY OperandIs DEF CTexts
<1>2. y = emit_type(a) /\ q = TRUE
  BY <1>1
<1>3. Comes(Operator(op, l, r), TypeOfBinary(op, q, y, z))
  BY <1>1, OperatorComes
<1> HIDE DEF y, z, q
<1>4. CASE op = "="
  <2>1. Converts(emit_type(a), y)
    BY <1>2, ConvertsToItself
  <2>2. Converts(z, y)
    BY <1>1, <2>1, ConvertsAs
  <2>3. TypeOfBinary(op, q, y, z) = y
    BY <1>2, <1>4, <2>2 DEF TypeOfBinary, Accept
  <2> QED BY <1>2, <1>3, <2>3
<1>5. CASE op # "="
  <2>1. Numeric(a) /\ op \in {"+=", "-=", "*=", "/="}
    BY <1>5
  <2>2. Kind(a) \notin {"ref", "span"}
    BY <2>1, NumericIs DEF Numbers, Wholes
  <2>3. b = a
    BY <2>2 DEF Fits
  <2>4. TypeOfBinary(op, TRUE, y, z) = y
    BY <1>1, <2>1, <2>3, NumericAssign
  <2> QED BY <1>2, <1>3, <2>4
<1> QED BY <1>4, <1>5

(* An element of a span, or a character of a text.                         *)
LEMMA IndexSound ==
    ASSUME NEW e, NEW p, NEW base, NEW index, TypedIndex(e, base, index) # None,
           NEW a \in CTexts, NEW b, Sound(e.base, p, base, a), Operand(index, b),
           NEW t, t = TypedIndex(e, base, index)
    PROVE  t \in ValueTypes /\ Comes(Operator("[]", a, b), emit_type(t)) /\ Operator("[]", a, b).place
<1> DEFINE y == a.type
           z == b.type
           q == a.place
<1>1. base # None /\ index = TY_INT /\ e.base.e # "array"
  BY DEF TypedIndex
<1>2. t = IF Kind(base) = "span" THEN Inner(base) ELSE Judge(base = TY_TEXT, TY_CHAR)
  BY <1>1 DEF TypedIndex
<1>3. base \in ValueTypes \cup {TY_VOID} /\ (Kind(base) = "span" => y = emit_type(base)) /\ Operand(base, a)
  BY <1>1, SoundPart DEF Sound
<1>4. /\ Fair(a) /\ Fair(b) /\ b \in CTexts /\ z \in CTypes /\ SameInC(z, TY_INT)
      /\ base = TY_TEXT => y = CString
  BY <1>1, <1>3, OperandIs
<1>5. Comes(Operator("[]", a, b), TypeOfBinary("[]", q, y, z)) /\ Operator("[]", a, b).place
  BY <1>4, OperatorComes
<1> HIDE DEF y, z, q
<1>6. Whole(z)
  <2>1. TY_INT \in ValueTypes /\ Kind(TY_INT) \in Wholes
    BY BaseTypes, EmitsPlainly DEF Wholes
  <2> QED BY <1>4, <2>1, SameForm
<1>7. Pointed(y) => TypeOfBinary("[]", q, y, z) = Pointee(y)
  BY <1>6 DEF TypeOfBinary
<1>8. CASE Kind(base) = "span"
  <2>1. base # TY_VOID /\ Kind(base) \in Composes
    BY <1>8, EmitsPlainly DEF Composes
  <2>2. base \in ValueTypes /\ t = Inner(base)
    BY <1>2, <1>3, <1>8, <2>1
  <2>3. t \in ValueTypes /\ y = Ptr(emit_type(t)) /\ Pointed(y)
    BY <1>3, <1>8, <2>1, <2>2, EmitForm, EmitsValue
  <2>4. emit_type(t) \in CTypes
    BY <2>3, EmitForm
  <2>5. Pointee(y) = emit_type(t)
    BY <2>3, <2>4, PtrType
  <2> QED BY <1>5, <1>7, <2>3, <2>5
<1>9. CASE Kind(base) # "span"
  <2>1. base = TY_TEXT /\ t = TY_CHAR
    BY <1>2, <1>9 DEF Judge
  <2>2. y = CString /\ Pointed(y)
    BY <1>4, <2>1, PointersAre
  <2>3. C("char") \in CTypes
    BY Pointers DEF Words
  <2>4. Pointee(y) = C("char")
    BY <2>2, <2>3, PtrType DEF CString
  <2>5. t \in ValueTypes /\ emit_type(t) = C("char")
    BY <2>1, BaseTypes, EmitsPlainly
  <2> QED BY <1>5, <1>7, <2>2, <2>4, <2>5
<1> QED BY <1>8, <1>9

(* An array literal: its elements convert to the type of the first.        *)
LEMMA ArraySound ==
    ASSUME NEW e, e.e = "array", NEW S, e.elems \in Seq(S), NEW f, NEW x, NEW type,
           \A k \in DOMAIN e.elems : f[e.elems[k]] # None =>
               type[e.elems[k]] = f[e.elems[k]] /\ Operand(f[e.elems[k]], x[e.elems[k]]),
           NEW t, t = TypedArray([k \in DOMAIN e.elems |-> f[e.elems[k]]]), t # None
    PROVE  Sound(e, FALSE, t, ArrayLit(type, x, e))
<1> DEFINE types == [k \in DOMAIN e.elems |-> f[e.elems[k]]]
           xs    == [k \in DOMAIN e.elems |-> x[e.elems[k]]]
           first == types[1]
           elem  == IF e.elems = <<>> THEN CInt ELSE emit_type(type[e.elems[1]])
<1>1. DOMAIN e.elems = 1..Len(e.elems) /\ Len(e.elems) \in Nat
  OBVIOUS
<1>2. \A k \in DOMAIN e.elems : types[k] = f[e.elems[k]] /\ xs[k] = x[e.elems[k]]
  OBVIOUS
<1>3. DOMAIN types = DOMAIN e.elems /\ DOMAIN xs = DOMAIN e.elems
  OBVIOUS
<1>4. types # <<>> => 1 \in DOMAIN e.elems /\ e.elems # <<>>
  BY <1>1
<1>5. ArrayLit(type, x, e) = SpanOf(elem, xs)
  BY DEF ArrayLit
<1>6. t = TypedArray(types)
  OBVIOUS
<1> HIDE DEF types, xs
<1>7. /\ types # <<>>
      /\ \A k \in DOMAIN types : types[k] = first /\ first \notin {None, TY_VOID}
      /\ t = Span(first)
  BY <1>6 DEF TypedArray
<1>8. 1 \in DOMAIN e.elems /\ e.elems # <<>>
  BY <1>4, <1>7
<1>9. first \notin {None, TY_VOID} /\ \A k \in DOMAIN e.elems : f[e.elems[k]] = first
  BY <1>2, <1>3, <1>7, <1>8
<1>10. \A k \in DOMAIN e.elems : type[e.elems[k]] = first /\ Operand(first, xs[k])
  BY <1>2, <1>9
<1>11. first \in ValueTypes
  BY <1>8, <1>9, <1>10, OperandIs
<1>12. elem = emit_type(first)
  BY <1>8, <1>10
<1> HIDE DEF first, elem
<1>13. ASSUME NEW k \in DOMAIN xs
       PROVE  Converts(xs[k].type, elem) /\ xs[k].type # Refused /\ ~xs[k].compares
  <2> DEFINE z == xs[k].type
  <2>1. z \in CTypes /\ SameInC(z, first) /\ z # Refused /\ ~xs[k].compares
    BY <1>3, <1>10, OperandIs DEF Fair
  <2> HIDE DEF z
  <2>2. Fits(first, first)
    BY <1>9 DEF Fits
  <2>3. Converts(emit_type(first), elem)
    BY <1>11, <1>12, ConvertsToItself
  <2>4. Converts(z, elem)
    BY <1>11, <2>1, <2>2, <2>3, ConvertsAs
  <2> QED BY <2>1, <2>4 DEF z
<1>14. elem \in CTypes
  BY <1>11, <1>12, EmitForm
<1> DEFINE y == SpanOf(elem, xs)
<1>15. y.type = Address /\ ~y.compares /\ y.elem = elem
  BY <1>13, <1>14, SpanOfIs DEF Accept
<1>16. first \in AllTypes
  BY <1>11, BaseTypes
<1>17. t \in ValueTypes /\ Kind(t) = "span" /\ Inner(t) = first
  BY <1>7, <1>11, <1>16, Wraps
<1> HIDE DEF y
<1>18. Faithful(y, t)
  BY <1>12, <1>15, <1>17 DEF Faithful, SameInC
<1> QED BY <1>5, <1>17, <1>18 DEF Sound, y

(* The types that are pointers in C.                                       *)
LEMMA PointerKinds ==
    ASSUME NEW t \in ValueTypes \cup {TY_VOID}, Kind(t) \in {"any", "text", "span", "ref"},
           NEW x \in CTypes, SameInC(x, t)
    PROVE  Pointer(x) /\ Pointer(emit_type(t)) /\ Scalar(x) /\ Scalar(emit_type(t))
<1>1. {"any", "text", "ref"} \cap (Arithmetics \cup {"span"}) = {} /\ Composes = {"span", "ref"}
  BY DEF Arithmetics, Numbers, Wholes, Composes
<1>2. Pointer(emit_type(t))
  BY <1>1, EmitForm, EmitsPlainly, PointersAre
<1>3. Pointer(x)
  BY <1>1, <1>2, SameForm
<1> QED BY <1>2, <1>3 DEF Scalar

(* A cast.                                                                 *)
LEMMA CastSound ==
    ASSUME NEW env \in Known, NEW c, c = CEnvironment(env), NEW t \in ValueTypes, NEW s, Castable(s, t),
           NEW a, Operand(s, a)
    PROVE  \E m : /\ Comes(IF Kind(s) = "text" /\ Kind(t) \in {"int", "int64"}
                           THEN Calls(c, "rt_text_to_int", <<a>>) ELSE CastTo(emit_type(t), a), m)
                  /\ SameInC(m, t) /\ (Kind(t) = "span" => m = emit_type(t))
<1> DEFINE z == a.type
           m == emit_type(t)
<1>1. s \in ValueTypes \cup {TY_VOID} /\ Fair(a) /\ z \in CTypes /\ SameInC(z, s) /\ (s = TY_TEXT => z = CString)
  BY OperandIs
<1>2. m \in CTypes /\ SameInC(m, t)
  BY EmitForm DEF SameInC
<1>3. CASE Kind(s) = "text" /\ Kind(t) \in {"int", "int64"}
  <2>1. s = TY_TEXT
    BY <1>1, <1>3, EmitForm
  <2>2. Comes(Calls(c, "rt_text_to_int", <<a>>), C("int64_t"))
    BY <1>1, <2>1, CallOfOne, RuntimeCalls
  <2>3. Kind(t) \in Arithmetics /\ Kind(t) # "span"
    BY <1>3 DEF Arithmetics, Numbers, Wholes
  <2>4. t = Type(Kind(t)) /\ m = emit_base(Kind(t))
    BY <2>3, EmitForm
  <2>5. SameInC(C("int64_t"), t)
    BY <1>3, <2>4, EmitsBase DEF SameInC, TY_INT
  <2> QED BY <1>3, <2>2, <2>3, <2>5
<1>4. CASE ~(Kind(s) = "text" /\ Kind(t) \in {"int", "int64"})
  <2>1. Comes(CastTo(m, a), TypeOfCast(m, z))
    BY <1>1, CastComes
  <2> HIDE DEF z, m
  <2>2. TypeOfCast(m, z) = m
    <3>1. CASE (Numeric(s) \/ s \in {TY_BOOL, TY_CHAR}) /\ (Numeric(t) \/ t = TY_CHAR)
      <4>1. Kind(s) \in Arithmetics /\ Kind(t) \in Arithmetics
        <5>1. {"bool", "char"} \subseteq Arithmetics
          BY DEF Arithmetics
        <5> QED BY <1>1, <3>1, <5>1, NumericIs, EmitsPlainly
      <4>2. Arithmetic(z) /\ ~Pointer(z)
        BY <1>1, <4>1, SameForm
      <4>3. Arithmetic(m) /\ ~Pointer(m)
        BY <4>1, EmitForm DEF m
      <4> QED BY <4>2, <4>3 DEF TypeOfCast, Accept, Scalar
    <3>2. CASE s = TY_TEXT /\ t \in {TY_INT, Type("int64")}
      <4>1. "int64" \in Plainly
        BY DEF Plainly, Numbers, Wholes
      <4>2. Kind(s) = "text" /\ Kind(t) \in {"int", "int64"}
        BY <3>2, <4>1, EmitsPlainly
      <4> QED BY <1>4, <4>2
    <3>3. CASE {Kind(s), Kind(t)} \subseteq {"any", "text", "span", "ref"}
      <4>1. Pointer(z) /\ Scalar(z)
        BY <1>1, <3>3, PointerKinds
      <4>2. Pointer(m) /\ Scalar(m)
        BY <1>2, <3>3, PointerKinds DEF m
      <4>3. ~Real(z) /\ ~Real(m)
        BY <4>1, <4>2 DEF Pointer, Real
      <4> QED BY <4>1, <4>2, <4>3 DEF TypeOfCast, Accept
    <3> QED BY <3>1, <3>2, <3>3 DEF Castable
  <2> QED BY <1>2, <1>4, <2>1, <2>2 DEF m
<1> QED BY <1>3, <1>4

(* What comes out of a tree, if it is sound of its parts.                  *)
LEMMA SoundAt ==
    ASSUME NEW env \in Known, NEW c, c = CEnvironment(env), NEW p, NEW f, NEW type, NEW x,
           NEW h \in DOMAIN Trees, NEW e \in Trees[h],
           \A a \in Lower(h) : /\ p[a] \in BOOLEAN /\ x[a] \in CTexts
                               /\ f[a] # None => type[a] = f[a] /\ Sound(a, p[a], f[a], x[a]),
           TypedAt(env, p, f, e) # None
    PROVE  Sound(e, PlaceAt(p, e), TypedAt(env, p, f, e), GenAt(env, c, type, x, e))
<1> DEFINE t == TypedAt(env, p, f, e)
           y == GenAt(env, c, type, x, e)
<1>0. ASSUME NEW a \in Lower(h)
      PROVE  /\ x[a] \in CTexts
             /\ f[a] # None => type[a] = f[a] /\ Sound(a, p[a], f[a], x[a]) /\ Operand(f[a], x[a])
  BY SoundPart
<1>1. CASE e.e \in Literals \cup {"nil", "sizeof"}
  BY <1>1, LiteralSound
<1>2. CASE e.e = "ident"
  BY <1>2, PartsOf, NameSound
<1>3. CASE e.e = "binary"
  <2>1. e.lhs \in Lower(h) /\ e.rhs \in Lower(h) /\ e.op \in Tests \cup {"+", "-", "*", "/", "%"}
    BY <1>3, PartsOf
  <2>2. t = TypedBinary(e.op, f[e.lhs], f[e.rhs])
    BY <1>3 DEF TypedAt, Literals
  <2>3. y = Binary(c, type, x, e)
    BY <1>3 DEF GenAt, Literals
  <2>4. PlaceAt(p, e) = FALSE
    BY <1>3 DEF PlaceAt
  <2> DEFINE a == f[e.lhs]
             b == f[e.rhs]
  <2>5. /\ a # None => type[e.lhs] = a /\ Operand(a, x[e.lhs])
        /\ b # None => type[e.rhs] = b /\ Operand(b, x[e.rhs])
    BY <1>0, <2>1
  <2>6. t # None
    OBVIOUS
  <2> HIDE DEF t, y, a, b
  <2>7. TypedBinary(e.op, a, b) # None /\ t = TypedBinary(e.op, a, b)
    BY <2>2, <2>6 DEF a, b
  <2>8. t \in ValueTypes /\ Kind(t) # "span" /\ \E m : Comes(Binary(c, type, x, e), m) /\ SameInC(m, t)
    BY <2>1, <2>3, <2>5, <2>7, BinarySound
  <2>9. Sound(e, FALSE, t, y)
    BY <2>3, <2>8, SoundAs
  <2> QED BY <2>4, <2>9 DEF t, y
<1>4. CASE e.e = "unary"
  <2>1. e.rhs \in Lower(h) /\ e.op \in {"-", "!"}
    BY <1>4, PartsOf
  <2> DEFINE s == f[e.rhs]
             a == x[e.rhs]
  <2>2. t = Judge(IF e.op = "!" THEN s = TY_BOOL ELSE Numeric(s), s)
    BY <1>4 DEF TypedAt, Literals
  <2>3. y = Unary(e.op, a)
    BY <1>4 DEF GenAt, Literals
  <2>4. PlaceAt(p, e) = FALSE
    BY <1>4 DEF PlaceAt
  <2>5. s # None => Operand(s, a)
    BY <1>0, <2>1
  <2>6. t # None
    OBVIOUS
  <2> HIDE DEF t, y, s, a
  <2>7. t = s /\ s # None /\ (e.op = "!" => s = TY_BOOL) /\ (e.op # "!" => Numeric(s))
    BY <2>2, <2>6 DEF Judge
  <2>8. s \in ValueTypes /\ Kind(s) # "span" /\ \E m : Comes(Unary(e.op, a), m) /\ SameInC(m, s)
    BY <2>1, <2>5, <2>7, UnarySound
  <2>9. Sound(e, FALSE, t, y)
    BY <2>3, <2>7, <2>8, SoundAs
  <2> QED BY <2>4, <2>9 DEF t, y
<1>5. CASE e.e = "assign"
  <2>1. e.lhs \in Lower(h) /\ e.rhs \in Lower(h) /\ e.op \in {"=", "+=", "-=", "*=", "/="}
    BY <1>5, PartsOf
  <2> DEFINE a == f[e.lhs]
             b == f[e.rhs]
             l == x[e.lhs]
             r == x[e.rhs]
             q == p[e.lhs]
  <2>2. t = Judge(q /\ Fits(b, a) /\ (e.op # "=" => Numeric(a)), a)
    BY <1>5 DEF TypedAt, Literals
  <2>3. y = Operator(e.op, l, r)
    BY <1>5 DEF GenAt, Literals
  <2>4. PlaceAt(p, e) = FALSE
    BY <1>5 DEF PlaceAt
  <2>5. /\ a # None => Sound(e.lhs, q, a, l) /\ Operand(a, l)
        /\ b # None => Operand(b, r)
    BY <1>0, <2>1
  <2>6. t # None
    OBVIOUS
  <2> HIDE DEF t, y, a, b, l, r, q
  <2>7. t = a /\ q /\ Fits(b, a) /\ (e.op # "=" => Numeric(a))
    BY <2>2, <2>6 DEF Judge
  <2>8. a # None /\ b # None
    BY <2>7 DEF Fits
  <2>9. l.place /\ l.type = emit_type(a) /\ a \in ValueTypes
    BY <2>5, <2>7, <2>8 DEF Sound
  <2>10. Comes(Operator(e.op, l, r), emit_type(a))
    BY <2>1, <2>5, <2>7, <2>8, <2>9, AssignSound
  <2>11. Sound(e, FALSE, t, y)
    BY <2>3, <2>7, <2>9, <2>10, SoundAsEmitted
  <2> QED BY <2>4, <2>11 DEF t, y
<1>6. CASE e.e = "call"
  <2> DEFINE d == find_func(e.module, e.callee)
             given == [k \in DOMAIN e.args |-> f[e.args[k]]]
             xs == [k \in DOMAIN e.args |-> x[e.args[k]]]
  <2>1. e.args \in Seq(Lower(h)) /\ \A k \in DOMAIN e.args : e.args[k] \in Lower(h)
    BY <1>6, PartsOf, ElementsOf
  <2>2. t = TypedCall(d, given)
    BY <1>6 DEF TypedAt, Literals
  <2>3. y = Calls(c, IF d = None THEN "undeclared" ELSE d.symbol, xs)
    BY <1>6 DEF GenAt, Literals
  <2>4. PlaceAt(p, e) = FALSE
    BY <1>6 DEF PlaceAt
  <2>5. \A k \in DOMAIN e.args : f[e.args[k]] # None => Operand(f[e.args[k]], x[e.args[k]])
    BY <1>0, <2>1
  <2>6. t # None
    OBVIOUS
  <2>7. d # None => d \in Functions
    BY Found
  <2> HIDE DEF t, y, d
  <2>8. d # None
    BY <2>2, <2>6 DEF TypedCall
  <2>9. y = Calls(c, d.symbol, xs)
    BY <2>3, <2>8
  <2>10. /\ t = d.result
         /\ \E m : /\ Comes(Calls(c, d.symbol, xs), m)
                   /\ SameInC(m, t) /\ (Kind(t) = "span" => m = emit_type(t))
    <3> DEFINE n == Len(e.args)
    <3>1. n \in Nat /\ DOMAIN e.args = 1..n
      BY <2>1
    <3>2. \A k \in 1..n : given[k] # None => Operand(given[k], xs[k])
      BY <2>5, <3>1
    <3>3. given = [k \in 1..n |-> given[k]] /\ xs = [k \in 1..n |-> xs[k]]
      BY <3>1
    <3> HIDE DEF n, given, xs
    <3>4. DOMAIN given = 1..n /\ DOMAIN xs = 1..n /\ Len(given) = n
      BY <3>1, <3>3, LengthIs
    <3> QED BY <2>2, <2>6, <2>7, <2>8, <2>9, <3>1, <3>2, <3>4, CallSound
  <2> HIDE DEF given, xs
  <2>11. t \in ValueTypes \cup {TY_VOID}
    BY <2>2, <2>7, <2>8, <2>10, FunctionsAssumption
  <2>12. \E m : Comes(y, m) /\ SameInC(m, t) /\ (Kind(t) = "span" => m = emit_type(t))
    BY <2>2, <2>9, <2>10
  <2>13. Sound(e, FALSE, t, y)
    BY <2>11, <2>12, SoundAs
  <2> QED BY <2>4, <2>13 DEF t, y
<1>7. CASE e.e = "index"
  <2>1. e.base \in Lower(h) /\ e.index \in Lower(h)
    BY <1>7, PartsOf
  <2> DEFINE a == f[e.base]
             b == f[e.index]
             l == x[e.base]
             r == x[e.index]
             q == p[e.base]
  <2>2. t = TypedIndex(e, a, b)
    BY <1>7 DEF TypedAt, Literals
  <2>3. y = Operator("[]", l, r)
    BY <1>7 DEF GenAt, Literals
  <2>4. /\ a # None => Sound(e.base, q, a, l)
        /\ b # None => Operand(b, r)
        /\ l \in CTexts
    BY <1>0, <2>1
  <2>5. t # None
    OBVIOUS
  <2> HIDE DEF t, y, a, b, l, r, q
  <2>6. a # None /\ b = TY_INT /\ TypedIndex(e, a, b) # None
    BY <2>2, <2>5 DEF TypedIndex
  <2>7. b # None
    BY <2>6, NotNone, BaseTypes
  <2>8. t \in ValueTypes /\ Comes(y, emit_type(t)) /\ y.place
    BY <2>2, <2>3, <2>4, <2>6, <2>7, IndexSound
  <2> DEFINE place == PlaceAt(p, e)
  <2> HIDE DEF place
  <2>9. Sound(e, place, t, y)
    BY <2>8, SoundAsEmitted
  <2> QED BY <2>9 DEF t, y, place
<1>8. CASE e.e = "field"
  <2>1. e.base \in Lower(h)
    BY <1>8, PartsOf
  <2> DEFINE a == f[e.base]
             q == p[e.base]
             place == PlaceAt(p, e)
  <2>2. t = TypedField(a, q, e.field)
    BY <1>8 DEF TypedAt, Literals
  <2>3. y = gen_field(c, type, x, e)
    BY <1>8 DEF GenAt, Literals
  <2>4. place => e.field = "value" \/ (e.field \notin {"address", "length"} /\ q)
    BY <1>8 DEF PlaceAt
  <2>5. /\ a # None => type[e.base] = a /\ Sound(e.base, q, a, x[e.base])
        /\ x[e.base] \in CTexts /\ q \in BOOLEAN
    BY <1>0, <2>1
  <2>6. t # None
    OBVIOUS
  <2> HIDE DEF t, y, a, q, place
  <2>7. a # None
    BY <2>2, <2>6 DEF TypedField
  <2>8. /\ t \in ValueTypes /\ Comes(y, emit_type(t))
        /\ e.field = "value" \/ (e.field \notin {"address", "length"} /\ q) => y.place
    BY <2>2, <2>3, <2>5, <2>6, <2>7, FieldSound
  <2>9. Sound(e, place, t, y)
    BY <2>4, <2>8, SoundAsEmitted
  <2> QED BY <2>9 DEF t, y, place
<1>9. CASE e.e = "array"
  <2>1. e.elems \in Seq(Lower(h)) /\ \A k \in DOMAIN e.elems : e.elems[k] \in Lower(h)
    BY <1>9, PartsOf, ElementsOf
  <2>2. t = TypedArray([k \in DOMAIN e.elems |-> f[e.elems[k]]])
    BY <1>9 DEF TypedAt, Literals
  <2>3. y = ArrayLit(type, x, e)
    BY <1>9 DEF GenAt, Literals
  <2>4. PlaceAt(p, e) = FALSE
    BY <1>9 DEF PlaceAt
  <2>5. \A k \in DOMAIN e.elems : f[e.elems[k]] # None =>
            type[e.elems[k]] = f[e.elems[k]] /\ Operand(f[e.elems[k]], x[e.elems[k]])
    BY <1>0, <2>1
  <2>6. t # None
    OBVIOUS
  <2> HIDE DEF t, y
  <2>7. Sound(e, FALSE, t, y)
    BY <1>9, <2>1, <2>2, <2>3, <2>5, <2>6, ArraySound
  <2> QED BY <2>4, <2>7 DEF t, y
<1>10. CASE e.e = "cast"
  <2>1. e.lhs \in Lower(h) /\ e.to \in ValueTypes
    BY <1>10, PartsOf
  <2> DEFINE s == f[e.lhs]
             a == x[e.lhs]
  <2>2. t = Judge(s # None /\ Castable(s, e.to), e.to)
    BY <1>10 DEF TypedAt, Literals
  <2>3. y = IF Kind(type[e.lhs]) = "text" /\ Kind(e.to) \in {"int", "int64"}
            THEN Calls(c, "rt_text_to_int", <<a>>) ELSE CastTo(emit_type(e.to), a)
    BY <1>10 DEF GenAt, Literals
  <2>4. PlaceAt(p, e) = FALSE
    BY <1>10 DEF PlaceAt
  <2>5. s # None => type[e.lhs] = s /\ Operand(s, a)
    BY <1>0, <2>1
  <2>6. t # None
    OBVIOUS
  <2> HIDE DEF t, y, s, a
  <2>7. s # None /\ Castable(s, t) /\ t = e.to
    BY <2>2, <2>6 DEF Judge
  <2>8. y = IF Kind(s) = "text" /\ Kind(t) \in {"int", "int64"}
            THEN Calls(c, "rt_text_to_int", <<a>>) ELSE CastTo(emit_type(t), a)
    BY <2>3, <2>5, <2>7
  <2>9. \E m : Comes(y, m) /\ SameInC(m, t) /\ (Kind(t) = "span" => m = emit_type(t))
    BY <2>1, <2>5, <2>7, <2>8, CastSound
  <2>10. Sound(e, FALSE, t, y)
    BY <2>1, <2>7, <2>9, SoundAs
  <2> QED BY <2>4, <2>10 DEF t, y
<1> QED BY <1>1, <1>2, <1>3, <1>4, <1>5, <1>6, <1>7, <1>8, <1>9, <1>10, PartsOf

(* What the documentation gives a type comes out in C as that type.        *)
LEMMA ComesOut ==
    ASSUME NEW env \in Known, NEW c, c = CEnvironment(env)
    PROVE  \A e \in AllTrees : Typed(env)[e] # None => Faithful(gen_expr(env, c)[e], Typed(env)[e])
<1> DEFINE f == Typed(env)
           g == infer(env)
           x == gen_expr(env, c)
           P == {e \in AllTrees : f[e] # None => Sound(e, Place[e], f[e], x[e])}
<1>1. ASSUME NEW h \in DOMAIN Trees, Lower(h) \subseteq P PROVE Trees[h] \subseteq P
  <2>1. \A a \in Lower(h) : /\ Place[a] \in BOOLEAN /\ x[a] \in CTexts
                            /\ f[a] # None => g[a] = f[a] /\ Sound(a, Place[a], f[a], x[a])
    BY <1>1, LowerIs, PlaceIs, GenIs, Inferred
  <2>2. ASSUME NEW e \in Trees[h] PROVE e \in P
    <3>1. e \in AllTrees
      BY LowerIs
    <3>2. /\ f[e] = TypedAt(env, Place, f, e) /\ Place[e] = PlaceAt(Place, e)
          /\ x[e] = GenAt(env, c, g, x, e)
      BY <3>1, TypedIs, PlaceIs, GenIs
    <3> HIDE DEF f, g, x
    <3>3. TypedAt(env, Place, f, e) # None =>
              Sound(e, PlaceAt(Place, e), TypedAt(env, Place, f, e), GenAt(env, c, g, x, e))
      BY <2>1, SoundAt
    <3> QED BY <3>1, <3>2, <3>3
  <2> QED BY <2>2
<1> HIDE DEF P
<1>2. AllTrees \subseteq P
  BY <1>1, ByHeight
<1> QED BY <1>2 DEF P, Sound

(* An expression that the documentation gives a type comes out as C text   *)
(* that C takes and gives the type's own C type, as far as SameInC says    *)
(* it: operators, calls and casts fit what the operands have come out as.  *)
(* No texts are compared by where they are, and an array is made of what   *)
(* its type says.  For every program, in front of every statement, for     *)
(* every expression however deep.                                          *)
THEOREM ComesOutAsDocumented == Spec => []CAgrees
<1>1. IInv => CAgrees
  <2> SUFFICES ASSUME IInv PROVE CAgrees
    OBVIOUS
  <2>1. Expressed \subseteq AllTrees /\ LookedUp = Meant /\ Meant \in Known
    BY InFront
  <2>2. \A e \in AllTrees : Typed(Meant)[e] # None =>
            Faithful(gen_expr(Meant, CEnvironment(Meant))[e], Typed(Meant)[e])
    BY <2>1, ComesOut
  <2>3. \A e \in Expressed : Typed(Meant)[e] # None =>
            Faithful(gen_expr(LookedUp, CEnvironment(Meant))[e], Typed(Meant)[e])
    BY <2>1, <2>2
  <2> QED BY <2>3, Zenon DEF CAgrees
<1> QED BY <1>1, Invariance, PTL
===============================================================================
