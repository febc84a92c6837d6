-------------------------- MODULE InstallationProofs --------------------------
(***************************************************************************)
(* The promises of install.sh, the Makefile and rl_find_home hold for any  *)
(* place of the source tree, any number of objects, and scripts, changes   *)
(* of the tree and cuts in any number and order.                           *)
(***************************************************************************)
EXTENDS Installation, TLAPS

(***************************************************************************)
(* Paths.                                                                  *)
(***************************************************************************)
Lib(dir, file) == LIBDIR \o <<dir, file>>
RUNTIME == LIBDIR \o <<"runtime">>
STDLIB  == LIBDIR \o <<"stdlib">>

Words == STRING \cup {"usr", "local", "lib", "root_lang", "bin", "rtlc", "rootc", "runtime", "stdlib",
                      "rootrt.c", "rootrt.h", "root.rtl", "etc", "profile.d", "root_lang.sh", "opt"}

(* Sequences are equal if they agree in length and element by element.     *)
LEMMA SameSequence ==
    ASSUME NEW S, NEW s \in Seq(S), NEW t \in Seq(S), Len(s) = Len(t), \A i \in 1..Len(s) : s[i] = t[i]
    PROVE  s = t
  OBVIOUS

LEMMA Joined ==
    ASSUME NEW S, NEW s \in Seq(S), NEW t \in Seq(S)
    PROVE  /\ s \o t \in Seq(S) /\ Len(s \o t) = Len(s) + Len(t)
           /\ \A i \in 1..Len(s) : (s \o t)[i] = s[i]
           /\ \A i \in 1..Len(t) : (s \o t)[Len(s) + i] = t[i]
  OBVIOUS

LEMMA PrefixAgrees ==
    ASSUME NEW S, NEW p \in Seq(S), NEW q \in Seq(S)
    PROVE  IsPrefix(p, q) <=> Len(p) <= Len(q) /\ \A i \in 1..Len(p) : p[i] = q[i]
  <1>1. CASE Len(p) <= Len(q)
    <2>1. /\ SubSeq(p, 1, Len(p)) \in Seq(S) /\ Len(SubSeq(p, 1, Len(p))) = Len(p)
          /\ \A i \in 1..Len(p) : SubSeq(p, 1, Len(p))[i] = p[i]
      OBVIOUS
    <2>2. /\ SubSeq(q, 1, Len(p)) \in Seq(S) /\ Len(SubSeq(q, 1, Len(p))) = Len(p)
          /\ \A i \in 1..Len(p) : SubSeq(q, 1, Len(p))[i] = q[i]
      BY <1>1
    <2>3. SubSeq(p, 1, Len(p)) = SubSeq(q, 1, Len(p)) <=> \A i \in 1..Len(p) : p[i] = q[i]
      <3> DEFINE s == SubSeq(p, 1, Len(p))
                 t == SubSeq(q, 1, Len(p))
      <3> HIDE DEF s, t
      <3>1. /\ s \in Seq(S) /\ t \in Seq(S) /\ Len(s) = Len(p) /\ Len(t) = Len(p)
            /\ \A i \in 1..Len(p) : s[i] = p[i] /\ t[i] = q[i]
        BY <2>1, <2>2 DEF s, t
      <3>2. s = t <=> \A i \in 1..Len(p) : p[i] = q[i]
        BY <3>1, SameSequence
      <3> QED
        BY <3>2 DEF s, t
    <2> QED
      BY <1>1, <2>3 DEF IsPrefix
  <1>2. CASE ~(Len(p) <= Len(q))
    BY <1>2 DEF IsPrefix
  <1> QED
    BY <1>1, <1>2

(* Names of the installed places, one by one.                              *)
LEMMA Installed ==
    /\ LIBDIR \in Seq(Words) /\ Len(LIBDIR) = 4
    /\ LIBDIR[1] = "usr" /\ LIBDIR[2] = "local" /\ LIBDIR[3] = "lib" /\ LIBDIR[4] = "root_lang"
    /\ RTLC \in Seq(Words) /\ Len(RTLC) = 4
    /\ RTLC[1] = "usr" /\ RTLC[2] = "local" /\ RTLC[3] = "bin" /\ RTLC[4] = "rtlc"
    /\ ROOTC \in Seq(Words) /\ Len(ROOTC) = 4
    /\ ROOTC[1] = "usr" /\ ROOTC[2] = "local" /\ ROOTC[3] = "bin" /\ ROOTC[4] = "rootc"
  <1>1. Prefix \in Seq(Words) /\ Len(Prefix) = 2 /\ Prefix[1] = "usr" /\ Prefix[2] = "local"
    BY DEF Prefix, Words
  <1>2. /\ <<"lib", "root_lang">> \in Seq(Words) /\ <<"bin", "rtlc">> \in Seq(Words)
        /\ <<"bin", "rootc">> \in Seq(Words)
    BY DEF Words
  <1>3. ASSUME NEW a, NEW b, <<a, b>> \in Seq(Words)
        PROVE  LET q == Prefix \o <<a, b>> IN
               q \in Seq(Words) /\ Len(q) = 4 /\ q[1] = "usr" /\ q[2] = "local" /\ q[3] = a /\ q[4] = b
    BY <1>1, <1>3, Joined
  <1> QED
    BY <1>2, <1>3 DEF LIBDIR, RTLC, ROOTC

LEMMA InLibrary ==
    ASSUME NEW r \in Seq(Words)
    PROVE  LET q == LIBDIR \o r IN
           /\ q \in Seq(Words) /\ Len(q) = Len(LIBDIR) + Len(r)
           /\ \A i \in 1..4 : q[i] = LIBDIR[i]
           /\ \A i \in 1..Len(r) : q[4 + i] = r[i]
  <1>1. LIBDIR \in Seq(Words) /\ Len(LIBDIR) = 4
    BY Installed
  <1>2. /\ LIBDIR \o r \in Seq(Words) /\ Len(LIBDIR \o r) = Len(LIBDIR) + Len(r)
        /\ \A i \in 1..Len(LIBDIR) : (LIBDIR \o r)[i] = LIBDIR[i]
        /\ \A i \in 1..Len(r) : (LIBDIR \o r)[Len(LIBDIR) + i] = r[i]
    <2>1. LIBDIR \in Seq(Words)
      BY <1>1
    <2> QED
      BY <2>1, Joined
  <1> QED
    BY <1>1, <1>2

LEMMA Directories ==
    ASSUME NEW p \in {RUNTIME, STDLIB}
    PROVE  /\ p \in Seq(Words) /\ Len(p) <= 5
           /\ p[5] \in {"runtime", "stdlib"}
           /\ \A i \in 1..4 : p[i] = LIBDIR[i] /\ p[i] \notin {"runtime", "stdlib", "bin"}
  <1>1. /\ <<"runtime">> \in Seq(Words) /\ <<"runtime">>[1] = "runtime" /\ Len(<<"runtime">>) = 1
        /\ <<"stdlib">> \in Seq(Words) /\ <<"stdlib">>[1] = "stdlib" /\ Len(<<"stdlib">>) = 1
    BY DEF Words
  <1>2. PICK r \in Seq(Words) : p = LIBDIR \o r /\ Len(r) = 1 /\ r[1] \in {"runtime", "stdlib"}
    BY <1>1 DEF RUNTIME, STDLIB
  <1>3. /\ p \in Seq(Words) /\ Len(p) = Len(LIBDIR) + Len(r)
        /\ \A i \in 1..4 : p[i] = LIBDIR[i]
        /\ \A i \in 1..Len(r) : p[4 + i] = r[i]
    BY <1>2, InLibrary
  <1>4. Len(p) <= 5
    <2>1. \A a, b, c \in Nat : a = b + c /\ b = 4 /\ c = 1 => a <= 5
      OBVIOUS
    <2>2. Len(p) \in Nat /\ Len(LIBDIR) \in Nat /\ Len(r) \in Nat
      BY <1>3, Installed
    <2> QED
      BY <1>2, <1>3, <2>1, <2>2, Installed, Zenon
  <1>5. p[5] = r[1]
    <2>1. \A n : n = 1 => 1 \in 1..n
      OBVIOUS
    <2>2. 1 \in 1..Len(r)
      BY <1>2, <2>1, Zenon
    <2>3. p[4 + 1] = r[1]
      BY <1>3, <2>2
    <2> QED
      BY <2>3
  <1>6. \A i \in 1..4 : LIBDIR[i] \notin {"runtime", "stdlib", "bin"}
    BY Installed
  <1> QED
    BY <1>2, <1>3, <1>4, <1>5, <1>6

(* What lies in the tree begins with its names.                            *)
LEMMA InTree ==
    ASSUME NEW r \in Seq(Words)
    PROVE  LET q == TREE \o r IN
           /\ TREE \in Seq(Words)
           /\ q \in Seq(Words) /\ Len(q) = Len(TREE) + Len(r) /\ Len(TREE) \in Nat
           /\ \A i \in 1..Len(TREE) : q[i] = TREE[i]
           /\ \A i \in 1..Len(r) : q[Len(TREE) + i] = r[i]
  <1>1. TREE \in Seq(Words)
    <2>1. Seq(STRING) \subseteq Seq(Words)
      BY DEF Words
    <2> QED
      BY <2>1, InstallationAssumption
  <1> QED
    BY <1>1, Joined

LEMMA TreeUnder ==
    ASSUME NEW r \in Seq(Words), NEW p \in Seq(Words), IsPrefix(p, TREE \o r), ~IsPrefix(p, TREE)
    PROVE  \E m \in 1..Len(p) :
              m = Len(TREE) + 1 /\ p[m] = r[1] /\ \A i \in 1..Len(TREE) : p[i] = TREE[i]
  <1> DEFINE q == TREE \o r
  <1>1. /\ q \in Seq(Words) /\ Len(q) = Len(TREE) + Len(r) /\ Len(TREE) \in Nat /\ Len(p) \in Nat
        /\ \A i \in 1..Len(TREE) : q[i] = TREE[i]
        /\ \A i \in 1..Len(r) : q[Len(TREE) + i] = r[i]
    BY InTree
  <1>2. TREE \in Seq(Words)
    BY InTree
  <1>3. IsPrefix(p, q)
    OBVIOUS
  <1> HIDE DEF q
  <1>4. Len(p) <= Len(q) /\ \A i \in 1..Len(p) : p[i] = q[i]
    BY <1>1, <1>3, PrefixAgrees
  <1>5. Len(TREE) < Len(p)
    <2> SUFFICES ASSUME Len(p) <= Len(TREE) PROVE FALSE
      BY <1>1
    <2>1. \A i \in 1..Len(p) : p[i] = TREE[i]
      BY <1>1, <1>4
    <2> QED
      BY <1>2, <2>1, PrefixAgrees
  <1>6. Len(TREE) + 1 \in 1..Len(p) /\ 1 \in 1..Len(r) /\ Len(r) \in Nat
    BY <1>1, <1>4, <1>5
  <1>7. p[Len(TREE) + 1] = r[1]
    <2>1. p[Len(TREE) + 1] = q[Len(TREE) + 1]
      BY <1>4, <1>6, Zenon
    <2>2. q[Len(TREE) + 1] = r[1]
      BY <1>1, <1>6, Zenon
    <2> QED
      BY <2>1, <2>2, Zenon
  <1>8. ASSUME NEW i \in 1..Len(TREE) PROVE p[i] = TREE[i]
    <2>1. i \in 1..Len(p)
      BY <1>1, <1>5
    <2> QED
      BY <1>1, <1>4, <2>1, Zenon
  <1> QED
    BY <1>6, <1>7, <1>8

LEMMA TreeOver ==
    ASSUME NEW r \in Seq(Words), NEW p \in Seq(Words), IsPrefix(TREE \o r, p)
    PROVE  Len(r) > 0 => \E m \in 1..Len(p) : p[m] = r[1] /\ m - 1 + Len(r) <= Len(p)
  <1> SUFFICES ASSUME Len(r) > 0 PROVE \E m \in 1..Len(p) : p[m] = r[1] /\ m - 1 + Len(r) <= Len(p)
    OBVIOUS
  <1> DEFINE q == TREE \o r
  <1>1. /\ q \in Seq(Words) /\ Len(q) = Len(TREE) + Len(r) /\ Len(TREE) \in Nat
        /\ \A i \in 1..Len(r) : q[Len(TREE) + i] = r[i]
    BY InTree
  <1>2. IsPrefix(q, p)
    OBVIOUS
  <1> HIDE DEF q
  <1>3. Len(q) <= Len(p) /\ \A i \in 1..Len(q) : q[i] = p[i]
    BY <1>1, <1>2, PrefixAgrees
  <1>4. 1 \in 1..Len(r) /\ Len(TREE) + 1 \in 1..Len(q) /\ Len(TREE) + 1 \in 1..Len(p)
    BY <1>1, <1>3
  <1>5. p[Len(TREE) + 1] = r[1] /\ (Len(TREE) + 1) - 1 + Len(r) <= Len(p)
    BY <1>1, <1>3, <1>4
  <1> QED
    BY <1>4, <1>5

(* The paths of the tree that the properties are about.                    *)
TreePaths == LibraryOf(TREE) \cup {TREE \o <<"runtime">>, LOCAL_BIN}

Rests == {<<"runtime", "rootrt.c">>, <<"runtime", "rootrt.h">>, <<"stdlib", "root.rtl">>,
          <<"runtime">>, <<"bin", "rootc">>}

LEMMA RestShape ==
    ASSUME NEW r \in Rests
    PROVE  /\ r \in Seq(Words)
           /\ r # <<"runtime">> => Len(r) = 2
           /\ \/ Len(r) = 1 \/ Len(r) = 2
           /\ r[1] \in {"runtime", "stdlib", "bin"}
           /\ r[1] = "bin" => Len(r) = 2 /\ r[2] = "rootc"
  <1>1. r \in Seq(Words)
    <2>1. \A a, b \in Words : <<a, b>> \in Seq(Words) /\ <<a>> \in Seq(Words)
      OBVIOUS
    <2>2. {"runtime", "rootrt.c", "rootrt.h", "stdlib", "root.rtl", "bin", "rootc"} \subseteq Words
      BY DEF Words
    <2> QED
      BY <2>1, <2>2 DEF Rests
  <1> QED
    BY <1>1 DEF Rests

LEMMA TreePathShape ==
    ASSUME NEW q \in TreePaths
    PROVE  \E r \in Rests : q = TREE \o r
  BY DEF TreePaths, LibraryOf, LOCAL_BIN, Rests

LEMMA ProfileNames ==
    /\ PROFILE \in Seq(Words) /\ Len(PROFILE) = 3
    /\ PROFILE[1] = "etc" /\ PROFILE[2] = "profile.d" /\ PROFILE[3] = "root_lang.sh"
  BY DEF PROFILE, Words

(* No script deletes or registers anything within the tree ...             *)
LEMMA TreeApart ==
    ASSUME NEW q \in TreePaths, NEW p \in {LIBDIR, RTLC, ROOTC, PROFILE}
    PROVE  ~IsPrefix(p, q)
  <1> SUFFICES ASSUME IsPrefix(p, q) PROVE FALSE
    OBVIOUS
  <1>1. PICK r \in Rests : q = TREE \o r
    BY TreePathShape
  <1>2. r \in Seq(Words) /\ r[1] \in {"runtime", "stdlib", "bin"}
    BY RestShape
  <1>3. p \in Seq(Words) /\ ~IsPrefix(p, TREE)
    BY Installed, ProfileNames, InstallationAssumption
  <1>4. IsPrefix(p, TREE \o r)
    BY <1>1
  <1>5. PICK m \in 1..Len(p) : m = Len(TREE) + 1 /\ p[m] = r[1] /\ \A i \in 1..Len(TREE) : p[i] = TREE[i]
    BY <1>2, <1>3, <1>4, TreeUnder
  <1>6. CASE p = LIBDIR
    BY <1>2, <1>5, <1>6, Installed
  <1>7. CASE p = PROFILE
    BY <1>2, <1>5, <1>7, ProfileNames
  <1>8. CASE p \in {RTLC, ROOTC}
    <2>1. Len(p) = 4 /\ p[1] = "usr" /\ p[2] = "local" /\ p[3] = "bin" /\ p[4] \in {"rtlc", "rootc"}
      BY <1>8, Installed
    <2>2. m = 3
      BY <1>2, <1>5, <2>1
    <2>3. TREE \in Seq(Words) /\ Len(TREE) \in Nat
      BY <1>2, InTree
    <2>4. Len(TREE) = 2 /\ TREE[1] = "usr" /\ TREE[2] = "local"
      <3>1. \A n \in Nat : 3 = n + 1 => n = 2 /\ 1 \in 1..n /\ 2 \in 1..n
        OBVIOUS
      <3>2. Len(TREE) = 2 /\ 1 \in 1..Len(TREE) /\ 2 \in 1..Len(TREE)
        BY <1>5, <2>2, <2>3, <3>1
      <3> QED
        BY <1>5, <2>1, <3>2
    <2>5. TREE = Prefix
      <3>1. Prefix \in Seq(Words) /\ Len(Prefix) = 2 /\ Prefix[1] = "usr" /\ Prefix[2] = "local"
        BY DEF Prefix, Words
      <3> QED
        BY <2>3, <2>4, <3>1, SameSequence
    <2> QED
      BY <2>5, InstallationAssumption
  <1> QED
    BY <1>6, <1>7, <1>8

(* ... and no library directory is made there.                             *)
LEMMA TreeNotAbove ==
    ASSUME NEW q \in LibraryOf(TREE) \cup {LOCAL_BIN}, NEW p \in {RUNTIME, STDLIB}
    PROVE  ~IsPrefix(q, p)
  <1> SUFFICES ASSUME IsPrefix(q, p) PROVE FALSE
    OBVIOUS
  <1>1. PICK r \in Rests \ {<<"runtime">>} : q = TREE \o r
    BY DEF LibraryOf, LOCAL_BIN, Rests
  <1>2. r \in Seq(Words) /\ Len(r) >= 2 /\ r[1] \in {"runtime", "stdlib", "bin"}
    BY RestShape
  <1>3. p \in Seq(Words) /\ Len(p) <= 5 /\ \A i \in 1..4 : p[i] \notin {"runtime", "stdlib", "bin"}
    BY Directories
  <1>4. IsPrefix(TREE \o r, p)
    BY <1>1
  <1>5. PICK m \in 1..Len(p) : p[m] = r[1] /\ m - 1 + Len(r) <= Len(p)
    BY <1>2, <1>3, <1>4, TreeOver
  <1>6. m \in 1..4
    BY <1>2, <1>3, <1>5
  <1> QED
    BY <1>2, <1>3, <1>5, <1>6

(***************************************************************************)
(* The inductive invariant.                                                *)
(***************************************************************************)
Versions == [c : Nat, h : Nat]

InstalledFiles == {RTLC, ROOTC} \cup LibraryOf(LIBDIR)

Commands ==
    {Clean, Compile, Link, Register}
        \cup {MakeDir(p) : p \in {RUNTIME, STDLIB}}
        \cup {Copy(LOCAL_BIN, p) : p \in {RTLC, ROOTC}}
        \cup {Copy(TREE \o r, LIBDIR \o r) : r \in Rests \ {<<"runtime">>, <<"bin", "rootc">>}}
        \cup {Delete(p) : p \in {RTLC, ROOTC, PROFILE}} \cup {DeleteAll(LIBDIR)}

IsDisk(d) == d = [p \in Paths |-> d[p]]

TypeInv ==
    /\ IsDisk(disk)
    /\ tree \in Versions
    /\ objects \in [Objects -> Versions \cup {None, Torn}]
    /\ newer \in BOOLEAN
    /\ script.tree \in Versions
    /\ todo \in Seq(Commands)

(* The tree has its library, of its own version.                           *)
TreeReady ==
    /\ \A p \in LibraryOf(TREE) : disk[p] = Made(tree.c)
    /\ disk[TREE \o <<"runtime">>] # None

(* Make believes the executable in the tree up to date only if it is torn, *)
(* or linked from the objects as they are.                                 *)
LocalBinary ==
    newer => \/ disk[LOCAL_BIN] = Torn
             \/ disk[LOCAL_BIN] = Binary(objects) /\ objects \in [Objects -> Versions]

(* What each script has reached after its first k commands.                *)
Whole(v) == [o \in Objects |-> v]
Compiled == \A o \in Objects : objects[o] = Torn \/ (objects[o] \in Versions /\ objects[o].c = script.tree.c)
LibraryFile(dir, file) == disk[Lib(dir, file)] = Made(script.tree.c)

InstallReached(k) ==
    /\ k = 1 => objects = Whole(None) /\ ~newer
    /\ k = 2 => objects = Whole(script.tree) /\ ~newer
    /\ k = 3 => disk[LOCAL_BIN] = Binary(Whole(script.tree))
    /\ k >= 4 => disk[RTLC] = Binary(Whole(script.tree))
    /\ k >= 5 => disk[RUNTIME] # None
    /\ k >= 7 => LibraryFile("runtime", "rootrt.c")
    /\ k >= 8 => LibraryFile("runtime", "rootrt.h")
    /\ k >= 9 => LibraryFile("stdlib", "root.rtl")

MakeReached(k) ==
    /\ k >= 1 => Compiled
    /\ k >= 2 => newer

MakeInstallReached(k) ==
    /\ MakeReached(k)
    /\ k >= 3 => disk[ROOTC] = disk[LOCAL_BIN]
    /\ k >= 4 => disk[RUNTIME] # None
    /\ k >= 5 => LibraryFile("runtime", "rootrt.c")
    /\ k >= 6 => LibraryFile("runtime", "rootrt.h")
    /\ k >= 8 => LibraryFile("stdlib", "root.rtl")

(* k of the commands of the script are behind it, the rest is to do.       *)
At(does, k) ==
    /\ k \in Nat
    /\ Len(todo) + k = Len(does)
    /\ \A i \in 1..Len(todo) : todo[i] = does[k + i]

Deleting(commands) == \A i \in 1..Len(commands) : commands[i].do \in {"rm", "rm -rf"}

OnScript ==
    /\ ~Idle => script.tree = tree
    /\ \/ Idle /\ ~ended
       \/ script.name = "install.sh"     /\ \E k \in 0..10 : At(install_sh, k) /\ InstallReached(k)
       \/ script.name = "make install"   /\ \E k \in 0..8  : At(make_install, k) /\ MakeInstallReached(k)
       \/ script.name = "make"           /\ \E k \in 0..2  : At(make, k) /\ MakeReached(k)
       \/ script.name \in {"uninstall.sh", "make uninstall"} /\ Deleting(todo)

IInv == TypeInv /\ TreeReady /\ LocalBinary /\ OnScript

(***************************************************************************)
(* The installed places are different ones.                                *)
(***************************************************************************)
LEMMA LibraryPaths ==
    /\ \A dir, file \in Words :
          LIBDIR \o <<dir, file>> = <<"usr", "local", "lib", "root_lang", dir, file>>
    /\ \A dir \in Words : LIBDIR \o <<dir>> = <<"usr", "local", "lib", "root_lang", dir>>
    /\ RTLC = <<"usr", "local", "bin", "rtlc">>
    /\ ROOTC = <<"usr", "local", "bin", "rootc">>
    /\ LIBDIR = <<"usr", "local", "lib", "root_lang">>
  <1>1. LIBDIR = <<"usr", "local", "lib", "root_lang">>
    <2>1. <<"usr", "local", "lib", "root_lang">> \in Seq(Words)
      BY DEF Words
    <2> QED
      BY <2>1, Installed, SameSequence
  <1>2. RTLC = <<"usr", "local", "bin", "rtlc">>
    <2>1. <<"usr", "local", "bin", "rtlc">> \in Seq(Words)
      BY DEF Words
    <2> QED
      BY <2>1, Installed, SameSequence
  <1>3. ROOTC = <<"usr", "local", "bin", "rootc">>
    <2>1. <<"usr", "local", "bin", "rootc">> \in Seq(Words)
      BY DEF Words
    <2> QED
      BY <2>1, Installed, SameSequence
  <1>4. ASSUME NEW dir \in Words, NEW file \in Words
        PROVE  LIBDIR \o <<dir, file>> = <<"usr", "local", "lib", "root_lang", dir, file>>
    <2> DEFINE q == LIBDIR \o <<dir, file>>
               t == <<"usr", "local", "lib", "root_lang", dir, file>>
    <2>1. /\ q \in Seq(Words) /\ Len(q) = Len(LIBDIR) + 2
          /\ \A i \in 1..4 : q[i] = LIBDIR[i]
          /\ \A i \in 1..2 : q[4 + i] = <<dir, file>>[i]
      <3>1. <<dir, file>> \in Seq(Words) /\ Len(<<dir, file>>) = 2
        OBVIOUS
      <3> DEFINE r == <<dir, file>>
      <3> HIDE DEF r
      <3>2. /\ LIBDIR \o r \in Seq(Words) /\ Len(LIBDIR \o r) = Len(LIBDIR) + Len(r)
            /\ \A i \in 1..4 : (LIBDIR \o r)[i] = LIBDIR[i]
            /\ \A i \in 1..Len(r) : (LIBDIR \o r)[4 + i] = r[i]
        BY <3>1, InLibrary DEF r
      <3> QED
        BY <3>1, <3>2 DEF r
    <2>2. t \in Seq(Words) /\ Len(t) = 6
      BY DEF Words
    <2> HIDE DEF q
    <2>3. Len(q) = 6
      BY <2>1, Installed
    <2>4. q[5] = dir /\ q[6] = file
      BY <2>1
    <2>5. \A i \in 1..6 : q[i] = t[i]
      BY <2>1, <2>4, Installed
    <2>6. q = t
      <3> HIDE DEF t
      <3> QED
        BY <2>1, <2>2, <2>3, <2>5, SameSequence
    <2> QED
      BY <2>6 DEF q
  <1>5. ASSUME NEW dir \in Words
        PROVE  LIBDIR \o <<dir>> = <<"usr", "local", "lib", "root_lang", dir>>
    <2> DEFINE q == LIBDIR \o <<dir>>
               t == <<"usr", "local", "lib", "root_lang", dir>>
    <2>1. /\ q \in Seq(Words) /\ Len(q) = Len(LIBDIR) + 1
          /\ \A i \in 1..4 : q[i] = LIBDIR[i]
          /\ \A i \in 1..1 : q[4 + i] = <<dir>>[i]
      <3>1. <<dir>> \in Seq(Words) /\ Len(<<dir>>) = 1
        OBVIOUS
      <3> DEFINE r == <<dir>>
      <3> HIDE DEF r
      <3>2. /\ LIBDIR \o r \in Seq(Words) /\ Len(LIBDIR \o r) = Len(LIBDIR) + Len(r)
            /\ \A i \in 1..4 : (LIBDIR \o r)[i] = LIBDIR[i]
            /\ \A i \in 1..Len(r) : (LIBDIR \o r)[4 + i] = r[i]
        BY <3>1, InLibrary DEF r
      <3> QED
        BY <3>1, <3>2 DEF r
    <2>2. t \in Seq(Words) /\ Len(t) = 5
      BY DEF Words
    <2> HIDE DEF q
    <2>3. Len(q) = 5
      BY <2>1, Installed
    <2>4. q[5] = dir
      BY <2>1
    <2>5. \A i \in 1..5 : q[i] = t[i]
      BY <2>1, <2>4, Installed
    <2>6. q = t
      <3> HIDE DEF t
      <3> QED
        BY <2>1, <2>2, <2>3, <2>5, SameSequence
    <2> QED
      BY <2>6 DEF q
  <1> QED
    BY <1>1, <1>2, <1>3, <1>4, <1>5

LEMMA Different ==
    LET c == Lib("runtime", "rootrt.c")
        h == Lib("runtime", "rootrt.h")
        rtl == Lib("stdlib", "root.rtl")
    IN  /\ RTLC # ROOTC
        /\ c # h /\ c # rtl /\ h # rtl
        /\ \A p \in {c, h, rtl} : p \notin {RTLC, ROOTC, PROFILE, RUNTIME}
        /\ \A p \in {RTLC, ROOTC} : p \notin {PROFILE, RUNTIME}
        /\ RUNTIME # PROFILE
  <1>1. {"runtime", "stdlib", "rootrt.c", "rootrt.h", "root.rtl"} \subseteq Words
    BY DEF Words
  <1>2. /\ Lib("runtime", "rootrt.c") = <<"usr", "local", "lib", "root_lang", "runtime", "rootrt.c">>
        /\ Lib("runtime", "rootrt.h") = <<"usr", "local", "lib", "root_lang", "runtime", "rootrt.h">>
        /\ Lib("stdlib", "root.rtl") = <<"usr", "local", "lib", "root_lang", "stdlib", "root.rtl">>
        /\ RUNTIME = <<"usr", "local", "lib", "root_lang", "runtime">>
        /\ PROFILE = <<"etc", "profile.d", "root_lang.sh">>
    BY <1>1, LibraryPaths DEF Lib, RUNTIME, PROFILE
  <1> QED
    BY <1>2, LibraryPaths

(* Nothing but the directories themselves lies on the way to them.         *)
LEMMA NotAboveDirectories ==
    ASSUME NEW q \in {RUNTIME, STDLIB}
    PROVE  /\ IsPrefix(q, q)
           /\ \A p \in InstalledFiles : ~IsPrefix(p, q)
  <1>1. q \in Seq(Words) /\ Len(q) <= 5 /\ \A i \in 1..4 : q[i] = LIBDIR[i]
    BY Directories
  <1>2. IsPrefix(q, q)
    BY <1>1, PrefixAgrees
  <1>3. ASSUME NEW p \in {RTLC, ROOTC}, IsPrefix(p, q) PROVE FALSE
    <2>1. p \in Seq(Words) /\ Len(p) = 4 /\ p[3] = "bin"
      BY Installed
    <2>2. p[3] = q[3]
      BY <1>1, <1>3, <2>1, PrefixAgrees
    <2> QED
      BY <1>1, <2>1, <2>2, Installed
  <1>4. ASSUME NEW p \in LibraryOf(LIBDIR), IsPrefix(p, q) PROVE FALSE
    <2>1. PICK r \in Rests : p = LIBDIR \o r /\ Len(r) = 2
      BY RestShape DEF LibraryOf, Rests
    <2>2. p \in Seq(Words) /\ Len(p) = Len(LIBDIR) + Len(r)
      BY <2>1, InLibrary, RestShape
    <2>3. Len(p) = 6
      <3> DEFINE n == Len(p)
                 a == Len(LIBDIR)
                 b == Len(r)
      <3>1. n = a + b /\ a = 4 /\ b = 2
        BY <2>1, <2>2, Installed
      <3> HIDE DEF n, a, b
      <3>2. n = 6
        BY <3>1
      <3> QED
        BY <3>2 DEF n
    <2>4. Len(p) <= Len(q)
      BY <1>1, <1>4, <2>2, PrefixAgrees
    <2> QED
      BY <1>1, <2>3, <2>4
  <1> QED
    BY <1>2, <1>3, <1>4 DEF InstalledFiles

LEMMA LibraryWithin ==
    /\ \A p \in LibraryOf(LIBDIR) \cup {RUNTIME} : IsPrefix(LIBDIR, p)
    /\ \A p \in {RTLC, ROOTC, PROFILE} : IsPrefix(p, p)
  <1>1. ASSUME NEW p \in LibraryOf(LIBDIR) \cup {RUNTIME} PROVE IsPrefix(LIBDIR, p)
    <2>1. PICK r \in Rests : p = LIBDIR \o r
      BY <1>1 DEF LibraryOf, Rests, RUNTIME
    <2>2. r \in Seq(Words) /\ Len(r) \in Nat
      BY RestShape
    <2>3. /\ p \in Seq(Words) /\ Len(p) = Len(LIBDIR) + Len(r)
          /\ \A i \in 1..4 : p[i] = LIBDIR[i]
      BY <2>1, <2>2, InLibrary
    <2>4. LIBDIR \in Seq(Words) /\ Len(LIBDIR) = 4
      BY Installed
    <2>5. Len(LIBDIR) <= Len(p) /\ \A i \in 1..Len(LIBDIR) : LIBDIR[i] = p[i]
      BY <2>2, <2>3, <2>4
    <2> QED
      BY <2>3, <2>4, <2>5, PrefixAgrees
  <1>2. ASSUME NEW p \in {RTLC, ROOTC, PROFILE} PROVE IsPrefix(p, p)
    <2>1. p \in Seq(Words)
      BY Installed, ProfileNames
    <2> QED
      BY <2>1, PrefixAgrees
  <1> QED
    BY <1>1, <1>2

LEMMA TreeDifferent ==
    /\ \A q \in TreePaths : q \notin InstalledFiles \cup {PROFILE}
    /\ LOCAL_BIN \notin LibraryOf(TREE) \cup {TREE \o <<"runtime">>}
  <1>1. ASSUME NEW q \in TreePaths PROVE q \notin InstalledFiles \cup {PROFILE}
    BY TreeApart, LibraryWithin DEF InstalledFiles
  <1>2. ASSUME NEW r \in Rests, r[1] # "bin" PROVE LOCAL_BIN # TREE \o r
    <2>1. <<"bin", "rootc">> \in Rests /\ r \in Seq(Words) /\ <<"bin", "rootc">> \in Seq(Words)
      BY RestShape DEF Rests
    <2>2. 1 \in 1..Len(r) /\ 1 \in 1..Len(<<"bin", "rootc">>)
      BY RestShape
    <2>3. (TREE \o r)[Len(TREE) + 1] = r[1]
      BY <2>1, <2>2, InTree
    <2>4. (TREE \o <<"bin", "rootc">>)[Len(TREE) + 1] = <<"bin", "rootc">>[1]
      BY <2>1, <2>2, InTree
    <2>5. <<"bin", "rootc">>[1] = "bin"
      OBVIOUS
    <2> QED
      BY <1>2, <2>3, <2>4, <2>5, Zenon DEF LOCAL_BIN
  <1>3. ASSUME NEW q \in LibraryOf(TREE) \cup {TREE \o <<"runtime">>} PROVE LOCAL_BIN # q
    <2>1. PICK r \in Rests : q = TREE \o r /\ r[1] # "bin"
      BY DEF LibraryOf, Rests
    <2> QED
      BY <1>2, <2>1
  <1> QED
    BY <1>1, <1>3

LEMMA AllPlaces ==
    /\ TreePaths \subseteq Paths
    /\ InstalledFiles \cup {PROFILE, RUNTIME, STDLIB} \subseteq Paths
  BY DEF TreePaths, Paths, LibraryOf, LibraryDirs, InstalledFiles, Binaries, RUNTIME, STDLIB

(***************************************************************************)
(* What the commands do to the disk.                                       *)
(***************************************************************************)
Same(P) == \A p \in P : disk'[p] = disk[p]

LEMMA PutEffect ==
    ASSUME NEW p \in Paths, NEW content, IsDisk(disk), disk' = Put(p, content)
    PROVE  IsDisk(disk') /\ disk'[p] = content /\ Same(Paths \ {p})
  BY DEF IsDisk, Put, Same

LEMMA PutDirEffect ==
    ASSUME NEW p \in {RUNTIME, STDLIB}, IsDisk(disk), disk' = PutDir(p)
    PROVE  /\ IsDisk(disk')
           /\ Same(InstalledFiles \cup LibraryOf(TREE) \cup {LOCAL_BIN})
           /\ \A q \in Paths : disk[q] # None => disk'[q] # None
           /\ disk'[p] # None
  <1>1. IsDisk(disk') /\ \A q \in Paths : disk'[q] = IF IsPrefix(q, p) /\ disk[q] = None THEN Dir ELSE disk[q]
    BY DEF IsDisk, PutDir
  <1>2. \A q \in InstalledFiles \cup LibraryOf(TREE) \cup {LOCAL_BIN} : ~IsPrefix(q, p) /\ q \in Paths
    BY NotAboveDirectories, TreeNotAbove, AllPlaces DEF TreePaths
  <1>3. IsPrefix(p, p) /\ p \in Paths
    BY NotAboveDirectories, AllPlaces
  <1> QED
    BY <1>1, <1>2, <1>3, NoneAssumption DEF Same

LEMMA WithoutEffect ==
    ASSUME NEW p \in {LIBDIR, RTLC, ROOTC, PROFILE}, IsDisk(disk), disk' = Without(p)
    PROVE  IsDisk(disk') /\ Same(TreePaths)
  BY TreeApart, AllPlaces DEF IsDisk, Without, Same

(***************************************************************************)
(* The commands of a script, by what they do.                              *)
(***************************************************************************)
LEMMA Fields ==
    /\ Clean.do = "clean" /\ Compile.do = "compile" /\ Link.do = "link"
    /\ Register.do = "tee" /\ Register.to = PROFILE
    /\ \A p : MakeDir(p).do = "mkdir" /\ MakeDir(p).to = p
    /\ \A p, q : Copy(p, q).do = "cp" /\ Copy(p, q).from = p /\ Copy(p, q).to = q
    /\ \A p : Delete(p).do = "rm" /\ Delete(p).to = p
    /\ \A p : DeleteAll(p).do = "rm -rf" /\ DeleteAll(p).to = p
  BY DEF Clean, Compile, Link, Register, MakeDir, Copy, Delete, DeleteAll

Kind(x) ==
    /\ x.do = "mkdir" => x.to \in {RUNTIME, STDLIB}
    /\ x.do = "cp" => x.to \in InstalledFiles
    /\ x.do = "tee" => x.to = PROFILE
    /\ x.do \in {"rm", "rm -rf"} => x.to \in {LIBDIR, RTLC, ROOTC, PROFILE}

LEMMA Kinds ==
    ASSUME NEW x \in Commands
    PROVE  Kind(x)
  <1>1. CASE x \in {Clean, Compile, Link, Register}
    <2>1. x.do \in {"clean", "compile", "link"} \/ (x.do = "tee" /\ x.to = PROFILE)
      BY <1>1, Fields
    <2> QED
      BY <2>1 DEF Kind
  <1>2. CASE x \in {MakeDir(p) : p \in {RUNTIME, STDLIB}}
    <2>0. PICK p \in {RUNTIME, STDLIB} : x = MakeDir(p)
      BY <1>2
    <2>1. x.do = "mkdir" /\ x.to \in {RUNTIME, STDLIB}
      BY <2>0 DEF MakeDir
    <2> QED
      BY <2>1 DEF Kind
  <1>3. CASE x \in {Copy(LOCAL_BIN, p) : p \in {RTLC, ROOTC}}
    <2>0. PICK p \in {RTLC, ROOTC} : x = Copy(LOCAL_BIN, p)
      BY <1>3
    <2>1. x.do = "cp" /\ x.to \in {RTLC, ROOTC}
      BY <2>0 DEF Copy
    <2> QED
      BY <2>1 DEF Kind, InstalledFiles
  <1>4. CASE x \in {Copy(TREE \o r, LIBDIR \o r) : r \in Rests \ {<<"runtime">>, <<"bin", "rootc">>}}
    <2>1. PICK r \in Rests \ {<<"runtime">>, <<"bin", "rootc">>} : x = Copy(TREE \o r, LIBDIR \o r)
      BY <1>4
    <2>2. LIBDIR \o r \in InstalledFiles
      BY DEF Rests, InstalledFiles, LibraryOf
    <2>3. x.do = "cp" /\ x.to = LIBDIR \o r
      BY <2>1 DEF Copy
    <2> QED
      BY <2>2, <2>3 DEF Kind
  <1>5. CASE x \in {Delete(p) : p \in {RTLC, ROOTC, PROFILE}} \cup {DeleteAll(LIBDIR)}
    <2>0. PICK p \in {LIBDIR, RTLC, ROOTC, PROFILE} : x \in {Delete(p), DeleteAll(p)}
      BY <1>5
    <2>1. x.do \in {"rm", "rm -rf"} /\ x.to = p
      <3>1. CASE x = Delete(p)
        BY <3>1 DEF Delete
      <3>2. CASE x = DeleteAll(p)
        BY <3>2 DEF DeleteAll
      <3> QED
        BY <2>0, <3>1, <3>2
    <2> QED
      BY <2>0, <2>1 DEF Kind
  <1> QED
    BY <1>1, <1>2, <1>3, <1>4, <1>5 DEF Commands

(* The scripts, command by command.                                        *)
TreeLib(dir, file) == TREE \o <<dir, file>>
CopyLib(dir, file) == Copy(TreeLib(dir, file), Lib(dir, file))

InstallCommands ==
    <<Clean, Compile, Link, Copy(LOCAL_BIN, RTLC), MakeDir(RUNTIME), MakeDir(STDLIB),
      CopyLib("runtime", "rootrt.c"), CopyLib("runtime", "rootrt.h"), CopyLib("stdlib", "root.rtl"),
      Register>>
MakeInstallCommands ==
    <<Compile, Link, Copy(LOCAL_BIN, ROOTC), MakeDir(RUNTIME),
      CopyLib("runtime", "rootrt.c"), CopyLib("runtime", "rootrt.h"),
      MakeDir(STDLIB), CopyLib("stdlib", "root.rtl")>>

Divides(u, s, t) ==
    /\ Len(u) = Len(s) + Len(t)
    /\ \A i \in 1..Len(s) : u[i] = s[i]
    /\ \A i \in 1..Len(t) : u[Len(s) + i] = t[i]

LEMMA Concat ==
    ASSUME NEW S, NEW s \in Seq(S), NEW t \in Seq(S), NEW u \in Seq(S), Divides(u, s, t)
    PROVE  s \o t = u
  <1>1. s \o t \in Seq(S) /\ Len(s \o t) = Len(u)
    BY DEF Divides
  <1>2. \A i \in 1..Len(u) : (s \o t)[i] = u[i]
    BY DEF Divides
  <1> QED
    BY <1>1, <1>2, SameSequence

TenOf(a, b, c, d, e, f, g, h, i, j) ==
    <<a>> \o <<b, c>> \o <<d, e, f>> \o <<g, h>> \o <<i>> \o <<j>>
EightOf(a, b, c, d, e, f, g, h) == <<a, b>> \o <<c, d>> \o <<e, f>> \o <<g>> \o <<h>>

LEMMA Chain ==
    ASSUME NEW a, NEW b, NEW c, NEW d, NEW e, NEW f, NEW g, NEW h, NEW i, NEW j
    PROVE  /\ TenOf(a, b, c, d, e, f, g, h, i, j) = <<a, b, c, d, e, f, g, h, i, j>>
           /\ EightOf(a, b, c, d, e, f, g, h) = <<a, b, c, d, e, f, g, h>>
  <1> DEFINE S == {a, b, c, d, e, f, g, h, i, j}
  <1>1. <<a>> \o <<b, c>> = <<a, b, c>>
    <2>1. <<a>> \in Seq(S) /\ <<b, c>> \in Seq(S) /\ <<a, b, c>> \in Seq(S)
      OBVIOUS
    <2>2. Divides(<<a, b, c>>, <<a>>, <<b, c>>)
      BY DEF Divides
    <2> QED
      BY <2>1, <2>2, Concat
  <1>2. <<a, b, c>> \o <<d, e, f>> = <<a, b, c, d, e, f>>
    <2>1. <<a, b, c>> \in Seq(S) /\ <<d, e, f>> \in Seq(S) /\ <<a, b, c, d, e, f>> \in Seq(S)
      OBVIOUS
    <2>2. Divides(<<a, b, c, d, e, f>>, <<a, b, c>>, <<d, e, f>>)
      BY DEF Divides
    <2> QED
      BY <2>1, <2>2, Concat
  <1>3. <<a, b, c, d, e, f>> \o <<g, h>> = <<a, b, c, d, e, f, g, h>>
    <2>1. <<a, b, c, d, e, f>> \in Seq(S) /\ <<g, h>> \in Seq(S) /\ <<a, b, c, d, e, f, g, h>> \in Seq(S)
      OBVIOUS
    <2>2. Divides(<<a, b, c, d, e, f, g, h>>, <<a, b, c, d, e, f>>, <<g, h>>)
      BY DEF Divides
    <2> QED
      BY <2>1, <2>2, Concat
  <1>4. <<a, b, c, d, e, f, g, h>> \o <<i>> = <<a, b, c, d, e, f, g, h, i>>
    <2>1. <<a, b, c, d, e, f, g, h>> \in Seq(S) /\ <<i>> \in Seq(S) /\ <<a, b, c, d, e, f, g, h, i>> \in Seq(S)
      OBVIOUS
    <2>2. Divides(<<a, b, c, d, e, f, g, h, i>>, <<a, b, c, d, e, f, g, h>>, <<i>>)
      BY DEF Divides
    <2> QED
      BY <2>1, <2>2, Concat
  <1>5. <<a, b, c, d, e, f, g, h, i>> \o <<j>> = <<a, b, c, d, e, f, g, h, i, j>>
    <2>1. <<a, b, c, d, e, f, g, h, i>> \in Seq(S) /\ <<j>> \in Seq(S) /\ <<a, b, c, d, e, f, g, h, i, j>> \in Seq(S)
      OBVIOUS
    <2>2. Divides(<<a, b, c, d, e, f, g, h, i, j>>, <<a, b, c, d, e, f, g, h, i>>, <<j>>)
      BY DEF Divides
    <2> QED
      BY <2>1, <2>2, Concat
  <1>6. <<a, b>> \o <<c, d>> = <<a, b, c, d>>
    <2>1. <<a, b>> \in Seq(S) /\ <<c, d>> \in Seq(S) /\ <<a, b, c, d>> \in Seq(S)
      OBVIOUS
    <2>2. Divides(<<a, b, c, d>>, <<a, b>>, <<c, d>>)
      BY DEF Divides
    <2> QED
      BY <2>1, <2>2, Concat
  <1>7. <<a, b, c, d>> \o <<e, f>> = <<a, b, c, d, e, f>>
    <2>1. <<a, b, c, d>> \in Seq(S) /\ <<e, f>> \in Seq(S) /\ <<a, b, c, d, e, f>> \in Seq(S)
      OBVIOUS
    <2>2. Divides(<<a, b, c, d, e, f>>, <<a, b, c, d>>, <<e, f>>)
      BY DEF Divides
    <2> QED
      BY <2>1, <2>2, Concat
  <1>8. <<a, b, c, d, e, f>> \o <<g>> = <<a, b, c, d, e, f, g>>
    <2>1. <<a, b, c, d, e, f>> \in Seq(S) /\ <<g>> \in Seq(S) /\ <<a, b, c, d, e, f, g>> \in Seq(S)
      OBVIOUS
    <2>2. Divides(<<a, b, c, d, e, f, g>>, <<a, b, c, d, e, f>>, <<g>>)
      BY DEF Divides
    <2> QED
      BY <2>1, <2>2, Concat
  <1>9. <<a, b, c, d, e, f, g>> \o <<h>> = <<a, b, c, d, e, f, g, h>>
    <2>1. <<a, b, c, d, e, f, g>> \in Seq(S) /\ <<h>> \in Seq(S) /\ <<a, b, c, d, e, f, g, h>> \in Seq(S)
      OBVIOUS
    <2>2. Divides(<<a, b, c, d, e, f, g, h>>, <<a, b, c, d, e, f, g>>, <<h>>)
      BY DEF Divides
    <2> QED
      BY <2>1, <2>2, Concat
  <1> QED
    BY <1>1, <1>2, <1>3, <1>4, <1>5, <1>6, <1>7, <1>8, <1>9, Zenon DEF TenOf, EightOf

LEMMA AllCommands ==
    /\ {Clean, Compile, Link, Register} \subseteq Commands
    /\ {MakeDir(RUNTIME), MakeDir(STDLIB), Copy(LOCAL_BIN, RTLC), Copy(LOCAL_BIN, ROOTC)} \subseteq Commands
    /\ {CopyLib("runtime", "rootrt.c"), CopyLib("runtime", "rootrt.h"), CopyLib("stdlib", "root.rtl")}
          \subseteq Commands
    /\ {Delete(RTLC), Delete(ROOTC), Delete(PROFILE), DeleteAll(LIBDIR)} \subseteq Commands
  <1>1. {Clean, Compile, Link, Register} \subseteq Commands
    BY DEF Commands
  <1>2. {MakeDir(RUNTIME), MakeDir(STDLIB), Copy(LOCAL_BIN, RTLC), Copy(LOCAL_BIN, ROOTC)} \subseteq Commands
    BY DEF Commands
  <1>3. ASSUME NEW r \in Rests \ {<<"runtime">>, <<"bin", "rootc">>}
        PROVE  Copy(TREE \o r, LIBDIR \o r) \in Commands
    BY DEF Commands
  <1>4. {<<"runtime", "rootrt.c">>, <<"runtime", "rootrt.h">>, <<"stdlib", "root.rtl">>}
            \subseteq Rests \ {<<"runtime">>, <<"bin", "rootc">>}
    BY DEF Rests
  <1>5. {Delete(RTLC), Delete(ROOTC), Delete(PROFILE), DeleteAll(LIBDIR)} \subseteq Commands
    BY DEF Commands
  <1> QED
    BY <1>1, <1>2, <1>3, <1>4, <1>5 DEF CopyLib, TreeLib, Lib

LEMMA Tables ==
    /\ install_sh = InstallCommands /\ make_install = MakeInstallCommands
    /\ install_sh \in Seq(Commands) /\ make_install \in Seq(Commands) /\ make \in Seq(Commands)
    /\ uninstall_sh \in Seq(Commands) /\ make_uninstall \in Seq(Commands)
  <1>1. install_sh = InstallCommands
    <2>1. install_sh = TenOf(Clean, Compile, Link, Copy(LOCAL_BIN, RTLC), MakeDir(RUNTIME), MakeDir(STDLIB),
                             CopyLib("runtime", "rootrt.c"), CopyLib("runtime", "rootrt.h"),
                             CopyLib("stdlib", "root.rtl"), Register)
      BY Zenon DEF install_sh, make, CopyLibrary, CopyStdlib, CopyLib, TreeLib, Lib, RUNTIME, STDLIB, TenOf
    <2> QED
      BY <2>1, Chain, Zenon DEF InstallCommands
  <1>2. make_install = MakeInstallCommands
    <2>1. make_install = EightOf(Compile, Link, Copy(LOCAL_BIN, ROOTC), MakeDir(RUNTIME),
                                 CopyLib("runtime", "rootrt.c"), CopyLib("runtime", "rootrt.h"),
                                 MakeDir(STDLIB), CopyLib("stdlib", "root.rtl"))
      BY Zenon DEF make_install, make, CopyLibrary, CopyStdlib, CopyLib, TreeLib, Lib, RUNTIME, STDLIB, EightOf
    <2> QED
      BY <2>1, Chain, Zenon DEF MakeInstallCommands
  <1>3. InstallCommands \in Seq(Commands) /\ MakeInstallCommands \in Seq(Commands)
    BY AllCommands DEF InstallCommands, MakeInstallCommands
  <1>4. make \in Seq(Commands) /\ uninstall_sh \in Seq(Commands) /\ make_uninstall \in Seq(Commands)
    BY AllCommands DEF make, uninstall_sh, make_uninstall
  <1> QED
    BY <1>1, <1>2, <1>3, <1>4

(***************************************************************************)
(* Every step keeps the types, the library of the tree, and what make      *)
(* believes of the executable there.                                       *)
(***************************************************************************)
Base == TypeInv /\ TreeReady /\ LocalBinary

LEMMA Progress ==
    ASSUME TypeInv, ~Idle
    PROVE  /\ Head(todo) \in Commands /\ Head(todo) = todo[1] /\ Len(todo) \in Nat \ {0}
           /\ Tail(todo) \in Seq(Commands) /\ Len(Tail(todo)) = Len(todo) - 1
           /\ \A i \in 1..Len(Tail(todo)) : Tail(todo)[i] = todo[i + 1]
  BY DEF TypeInv, Idle

LEMMA BaseKept ==
    ASSUME Base, IsDisk(disk'), UNCHANGED <<tree, objects, newer>>, script'.tree \in Versions,
           todo' \in Seq(Commands), Same(LibraryOf(TREE) \cup {LOCAL_BIN}),
           disk'[TREE \o <<"runtime">>] # None
    PROVE  Base'
  BY DEF Base, TypeInv, TreeReady, LocalBinary, Same

(* A file written outside of the tree.                                     *)
LEMMA BaseAfterPut ==
    ASSUME Base, ~Idle, NEW content, NEW p \in InstalledFiles \cup {PROFILE}, disk' = Put(p, content),
           UNCHANGED <<tree, script, objects, newer>>, todo' \in Seq(Commands)
    PROVE  Base'
  <1>1. IsDisk(disk) /\ p \in Paths
    BY AllPlaces DEF Base, TypeInv
  <1>2. IsDisk(disk') /\ Same(Paths \ {p})
    BY <1>1, PutEffect
  <1>3. TreePaths \subseteq Paths \ {p}
    BY TreeDifferent, AllPlaces
  <1>4. Same(LibraryOf(TREE) \cup {LOCAL_BIN}) /\ disk'[TREE \o <<"runtime">>] # None
    BY <1>2, <1>3 DEF Same, TreePaths, Base, TreeReady
  <1> QED
    BY <1>2, <1>4, BaseKept DEF Base, TypeInv

LEMMA BaseAfterCopy ==
    ASSUME Base, RunCopy
    PROVE  Base'
  <1>1. ~Idle /\ Head(todo) \in Commands /\ Head(todo).do = "cp" /\ Tail(todo) \in Seq(Commands)
    BY Progress DEF Base, RunCopy, Doing
  <1>2. Head(todo).to \in InstalledFiles
    BY <1>1, Kinds DEF Kind
  <1> QED
    BY <1>1, <1>2, BaseAfterPut DEF RunCopy, Done

LEMMA BaseAfterTee ==
    ASSUME Base, RunTee
    PROVE  Base'
  <1>1. ~Idle /\ Tail(todo) \in Seq(Commands)
    BY Progress DEF Base, RunTee, Doing
  <1> QED
    BY <1>1, BaseAfterPut DEF RunTee, Done

LEMMA BaseAfterMkdir ==
    ASSUME Base, RunMkdir
    PROVE  Base'
  <1>1. ~Idle /\ Head(todo) \in Commands /\ Head(todo).do = "mkdir" /\ Tail(todo) \in Seq(Commands)
    BY Progress DEF Base, RunMkdir, Doing
  <1>2. Head(todo).to \in {RUNTIME, STDLIB}
    BY <1>1, Kinds DEF Kind
  <1>3. /\ IsDisk(disk') /\ Same(InstalledFiles \cup LibraryOf(TREE) \cup {LOCAL_BIN})
        /\ \A q \in Paths : disk[q] # None => disk'[q] # None
    BY <1>2, PutDirEffect DEF Base, TypeInv, RunMkdir
  <1>4. Same(LibraryOf(TREE) \cup {LOCAL_BIN})
    BY <1>3 DEF Same
  <1>5. disk'[TREE \o <<"runtime">>] # None
    BY <1>3, AllPlaces DEF TreePaths, Base, TreeReady
  <1> QED
    BY <1>1, <1>3, <1>4, <1>5, BaseKept DEF RunMkdir, Done, Base, TypeInv

LEMMA BaseAfterRemove ==
    ASSUME Base, RunRemove
    PROVE  Base'
  <1>1. ~Idle /\ Head(todo) \in Commands /\ Head(todo).do \in {"rm", "rm -rf"} /\ Tail(todo) \in Seq(Commands)
    BY Progress DEF Base, RunRemove, Doing
  <1>2. Head(todo).to \in {LIBDIR, RTLC, ROOTC, PROFILE}
    BY <1>1, Kinds DEF Kind
  <1>3. IsDisk(disk') /\ Same(TreePaths)
    BY <1>2, WithoutEffect DEF Base, TypeInv, RunRemove
  <1>4. Same(LibraryOf(TREE) \cup {LOCAL_BIN}) /\ disk'[TREE \o <<"runtime">>] # None
    BY <1>3 DEF Same, TreePaths, Base, TreeReady
  <1> QED
    BY <1>1, <1>3, <1>4, BaseKept DEF RunRemove, Done, Base, TypeInv

(* The executable of the tree written.                                     *)
LEMMA TreeReadyAfterLink ==
    ASSUME Base, NEW content, disk' = Put(LOCAL_BIN, content), tree' = tree
    PROVE  IsDisk(disk') /\ disk'[LOCAL_BIN] = content /\ TreeReady'
  <1>1. IsDisk(disk) /\ LOCAL_BIN \in Paths
    BY AllPlaces DEF Base, TypeInv, TreePaths
  <1>2. IsDisk(disk') /\ disk'[LOCAL_BIN] = content /\ Same(Paths \ {LOCAL_BIN})
    BY <1>1, PutEffect
  <1>3. LibraryOf(TREE) \cup {TREE \o <<"runtime">>} \subseteq Paths \ {LOCAL_BIN}
    BY AllPlaces, TreeDifferent DEF TreePaths
  <1> QED
    BY <1>2, <1>3 DEF TreeReady, Same, Base

LEMMA BaseAfterClean ==
    ASSUME Base, MakeClean
    PROVE  Base'
  <1>1. ~Idle /\ Tail(todo) \in Seq(Commands)
    BY Progress DEF Base, MakeClean, Doing
  <1>2. IsDisk(disk') /\ TreeReady'
    BY TreeReadyAfterLink DEF MakeClean, Done
  <1>3. TypeInv'
    BY <1>1, <1>2 DEF Base, TypeInv, MakeClean, Done
  <1>4. LocalBinary'
    BY DEF LocalBinary, MakeClean
  <1> QED
    BY <1>2, <1>3, <1>4 DEF Base

LEMMA BaseAfterCompile ==
    ASSUME Base, CompileSources
    PROVE  Base'
  <1>1. ~Idle /\ Tail(todo) \in Seq(Commands)
    BY Progress DEF Base, CompileSources, Doing
  <1>2. TypeInv'
    <2>1. objects' \in [Objects -> Versions \cup {None, Torn}]
      BY DEF Base, TypeInv, CompileSources
    <2>2. newer' \in BOOLEAN
      BY DEF CompileSources
    <2> QED
      BY <1>1, <2>1, <2>2 DEF Base, TypeInv, CompileSources, Done
  <1>3. TreeReady'
    BY DEF Base, TreeReady, CompileSources, Done
  <1>4. LocalBinary'
    <2> SUFFICES ASSUME newer'
                 PROVE  \/ disk'[LOCAL_BIN] = Torn
                        \/ disk'[LOCAL_BIN] = Binary(objects') /\ objects' \in [Objects -> Versions]
      BY DEF LocalBinary
    <2>1. newer /\ objects' = objects /\ disk' = disk
      BY DEF CompileSources
    <2> QED
      BY <2>1 DEF Base, LocalBinary
  <1> QED
    BY <1>2, <1>3, <1>4 DEF Base

LEMMA BaseAfterLink ==
    ASSUME Base, LinkObjects, \A o \in Objects : objects[o] = Torn \/ objects[o] \in Versions
    PROVE  Base'
  <1>1. ~Idle /\ Tail(todo) \in Seq(Commands)
    BY Progress DEF Base, LinkObjects, Doing
  <1>2. CASE newer
    <2>1. UNCHANGED <<disk, objects, newer, tree, script>> /\ todo' = Tail(todo)
      BY <1>2 DEF LinkObjects, Done
    <2> QED
      BY <1>1, <1>2, <2>1 DEF Base, TypeInv, TreeReady, LocalBinary, LinkObjects
  <1>3. CASE ~newer
    <2>1. disk' = Put(LOCAL_BIN, Binary(objects)) /\ UNCHANGED <<objects, tree, script>> /\ todo' = Tail(todo)
          /\ newer' = TRUE
      BY <1>3 DEF LinkObjects, Done
    <2>2. IsDisk(disk') /\ TreeReady' /\ disk'[LOCAL_BIN] = Binary(objects)
      BY <2>1, TreeReadyAfterLink
    <2>3. TypeInv'
      BY <1>1, <2>1, <2>2 DEF Base, TypeInv
    <2>4. objects \in [Objects -> Versions]
      BY <1>3 DEF LinkObjects, Base, TypeInv
    <2>5. LocalBinary'
      BY <2>1, <2>2, <2>4 DEF LocalBinary
    <2> QED
      BY <2>2, <2>3, <2>5 DEF Base
  <1> QED
    BY <1>2, <1>3

LEMMA RuntimeIsNoFile ==
    TREE \o <<"runtime">> \notin LibraryOf(TREE)
  <1>1. ASSUME NEW r \in Rests, r # <<"runtime">> PROVE TREE \o <<"runtime">> # TREE \o r
    <2>1. <<"runtime">> \in Rests /\ <<"runtime">> \in Seq(Words) /\ r \in Seq(Words) /\ Len(r) = 2
      BY <1>1, RestShape DEF Rests
    <2>2. Len(TREE \o <<"runtime">>) = Len(TREE) + Len(<<"runtime">>) /\ Len(TREE \o r) = Len(TREE) + Len(r)
          /\ Len(TREE) \in Nat
      BY <2>1, InTree
    <2>3. Len(<<"runtime">>) = 1
      OBVIOUS
    <2>4. \A n \in Nat : n + 1 # n + 2
      OBVIOUS
    <2> QED
      BY <2>1, <2>2, <2>3, <2>4, Zenon
  <1>2. <<"runtime", "rootrt.c">> # <<"runtime">> /\ <<"runtime", "rootrt.h">> # <<"runtime">>
        /\ <<"stdlib", "root.rtl">> # <<"runtime">>
    OBVIOUS
  <1>3. {<<"runtime", "rootrt.c">>, <<"runtime", "rootrt.h">>, <<"stdlib", "root.rtl">>} \subseteq Rests
    BY DEF Rests
  <1> QED
    BY <1>1, <1>2, <1>3, Zenon DEF LibraryOf

LEMMA BaseAfterUpdate ==
    ASSUME Base, Update
    PROVE  Base'
  <1>1. UNCHANGED <<objects, newer, script, todo>>
    BY DEF Update
  <1>2. CASE /\ tree' = [c |-> tree.c + 1, h |-> tree.h]
             /\ disk' = [p \in Paths |-> IF p \in LibraryOf(TREE) THEN Made(tree'.c) ELSE disk[p]]
    <2>1. tree' \in Versions
      BY <1>2 DEF Base, TypeInv, Versions
    <2> DEFINE v == tree'.c
    <2> HIDE DEF v
    <2>2. disk' = [p \in Paths |-> IF p \in LibraryOf(TREE) THEN Made(v) ELSE disk[p]]
      BY <1>2 DEF v
    <2>3. IsDisk(disk') /\ (\A p \in LibraryOf(TREE) : disk'[p] = Made(v))
          /\ Same({LOCAL_BIN, TREE \o <<"runtime">>})
      BY <2>2, AllPlaces, TreeDifferent, RuntimeIsNoFile DEF IsDisk, TreePaths, Same
    <2>4. TreeReady'
      BY <2>3 DEF TreeReady, Same, Base, v
    <2>5. TypeInv'
      BY <1>1, <2>1, <2>3 DEF Base, TypeInv
    <2>6. LocalBinary'
      BY <1>1, <2>3 DEF Base, LocalBinary, Same
    <2> QED
      BY <2>4, <2>5, <2>6 DEF Base
  <1>3. CASE tree' = [tree EXCEPT !.h = @ + 1] /\ UNCHANGED disk
    <2>1. tree' \in Versions /\ tree'.c = tree.c
      BY <1>3 DEF Base, TypeInv, Versions
    <2> QED
      BY <1>1, <1>3, <2>1 DEF Base, TypeInv, TreeReady, LocalBinary
  <1> QED
    BY <1>2, <1>3 DEF Update

LEMMA ScriptCases ==
    ASSUME NEW s \in Scripts
    PROVE  \/ s.name = "make" /\ s.does = make
           \/ s.name = "install.sh" /\ s.does = install_sh
           \/ s.name = "make install" /\ s.does = make_install
           \/ s.name = "uninstall.sh" /\ s.does = uninstall_sh
           \/ s.name = "make uninstall" /\ s.does = make_uninstall
  <1>1. CASE s = [name |-> "make", does |-> make]
    BY <1>1
  <1>2. CASE s = [name |-> "install.sh", does |-> install_sh]
    BY <1>2
  <1>3. CASE s = [name |-> "make install", does |-> make_install]
    BY <1>3
  <1>4. CASE s = [name |-> "uninstall.sh", does |-> uninstall_sh]
    BY <1>4
  <1>5. CASE s = [name |-> "make uninstall", does |-> make_uninstall]
    BY <1>5
  <1> QED
    BY <1>1, <1>2, <1>3, <1>4, <1>5 DEF Scripts

LEMMA BaseAfterStart ==
    ASSUME Base, Start
    PROVE  Base'
  <1>1. PICK s \in Scripts : script' = [name |-> s.name, tree |-> tree] /\ todo' = s.does
    BY DEF Start
  <1>2. s.does \in Seq(Commands)
    BY Tables, ScriptCases
  <1>3. UNCHANGED <<disk, tree, objects, newer>>
    BY DEF Start
  <1> QED
    BY <1>1, <1>2, <1>3 DEF Base, TypeInv, TreeReady, LocalBinary

LEMMA BaseAfterCut ==
    ASSUME Base, Cut
    PROVE  Base'
  <1>1. ~Idle /\ todo' \in Seq(Commands) /\ UNCHANGED <<tree, script>> /\ Head(todo) \in Commands
    BY Progress DEF Cut, Base
  <1>2. CASE CutNothing
    BY <1>1, <1>2 DEF CutNothing, Base, TypeInv, TreeReady, LocalBinary
  <1>3. CASE CutCompile
    <2>1. PICK whole, torn \in SUBSET {o \in Objects : OutOfDate(o)} :
             objects' = [o \in Objects |->
                            IF o \in torn THEN Torn ELSE IF o \in whole THEN tree ELSE objects[o]]
      BY <1>3 DEF CutCompile
    <2>2. objects' \in [Objects -> Versions \cup {None, Torn}]
      BY <2>1 DEF Base, TypeInv
    <2>3. newer' \in BOOLEAN /\ UNCHANGED disk /\ (newer' => newer /\ objects' = objects)
      BY <1>3 DEF CutCompile
    <2>4. TypeInv'
      BY <1>1, <2>2, <2>3 DEF Base, TypeInv
    <2>5. TreeReady'
      BY <1>1, <2>3 DEF Base, TreeReady
    <2>6. LocalBinary'
      BY <2>3 DEF Base, LocalBinary
    <2> QED
      BY <2>4, <2>5, <2>6 DEF Base
  <1>4. CASE CutLink
    <2>1. IsDisk(disk') /\ disk'[LOCAL_BIN] = Torn /\ TreeReady' /\ newer' = TRUE /\ UNCHANGED objects
      BY <1>1, <1>4, TreeReadyAfterLink DEF CutLink
    <2> QED
      BY <1>1, <2>1 DEF Base, TypeInv, LocalBinary
  <1>5. CASE CutWrite
    <2>1. Head(todo).to \in InstalledFiles \cup {PROFILE}
      BY <1>1, <1>5, Kinds DEF Kind, CutWrite, Doing
    <2> QED
      BY <1>1, <1>5, <2>1, BaseAfterPut DEF CutWrite
  <1>6. CASE CutDelete
    <2>1. Head(todo).to \in {LIBDIR, RTLC, ROOTC, PROFILE}
      BY <1>1, <1>6, Kinds DEF Kind, CutDelete, Doing
    <2>2. PICK gone \in SUBSET {q \in Paths : IsPrefix(Head(todo).to, q) /\ disk[q] # None} :
             disk' = [q \in Paths |-> IF q \in gone THEN None ELSE disk[q]]
      BY <1>6 DEF CutDelete
    <2>3. \A q \in TreePaths : q \notin gone /\ q \in Paths
      BY <2>1, <2>2, TreeApart, AllPlaces
    <2>4. IsDisk(disk') /\ Same(TreePaths)
      BY <2>2, <2>3 DEF IsDisk, Same
    <2>5. Same(LibraryOf(TREE) \cup {LOCAL_BIN}) /\ disk'[TREE \o <<"runtime">>] # None
      BY <2>4 DEF Same, TreePaths, Base, TreeReady
    <2>6. UNCHANGED <<objects, newer>>
      BY <1>6 DEF CutDelete
    <2> QED
      BY <1>1, <2>4, <2>5, <2>6, BaseKept DEF Base, TypeInv
  <1> QED
    BY <1>2, <1>3, <1>4, <1>5, <1>6 DEF Cut

(***************************************************************************)
(* Every step keeps what the script has reached.                           *)
(***************************************************************************)
LEMMA Advance ==
    ASSUME TypeInv, ~Idle, todo' = Tail(todo), NEW does \in Seq(Commands), NEW k \in Nat, At(does, k)
    PROVE  k + 1 <= Len(does) /\ Head(todo) = does[k + 1] /\ At(does, k + 1)'
  <1>1. /\ Head(todo) = todo[1] /\ Len(todo) \in Nat \ {0}
        /\ Len(Tail(todo)) = Len(todo) - 1
        /\ \A i \in 1..Len(Tail(todo)) : Tail(todo)[i] = todo[i + 1]
    BY Progress
  <1>2. Len(todo) + k = Len(does) /\ \A i \in 1..Len(todo) : todo[i] = does[k + i]
    BY DEF At
  <1>3. Len(todo') + (k + 1) = Len(does) /\ k + 1 <= Len(does) /\ Head(todo) = does[k + 1]
    BY <1>1, <1>2
  <1>4. ASSUME NEW i \in 1..Len(todo') PROVE todo'[i] = does[(k + 1) + i]
    <2>1. i + 1 \in 1..Len(todo) /\ todo'[i] = todo[i + 1] /\ k + (i + 1) = (k + 1) + i
      BY <1>1
    <2> QED
      BY <1>2, <2>1
  <1>5. k + 1 \in Nat
    OBVIOUS
  <1> QED
    BY <1>3, <1>4, <1>5, Zenon DEF At

LEMMA ScriptCut ==
    ASSUME Cut
    PROVE  OnScript'
  BY DEF Cut, OnScript, Idle

LEMMA ScriptStarts ==
    ASSUME Base, Start
    PROVE  OnScript'
  <1>1. PICK s \in Scripts : script' = [name |-> s.name, tree |-> tree] /\ todo' = s.does
    BY DEF Start
  <1>2. script'.name = s.name /\ script'.tree = tree' /\ todo' = s.does
    BY <1>1 DEF Start
  <1>3. todo' \in Seq(Commands)
    BY BaseAfterStart DEF Base, TypeInv
  <1>4. ASSUME NEW does \in Seq(Commands), todo' = does PROVE At(does, 0)'
    <2>1. Len(todo') + 0 = Len(does) /\ \A i \in 1..Len(todo') : todo'[i] = does[0 + i]
      BY <1>4
    <2>2. 0 \in Nat
      OBVIOUS
    <2> QED
      BY <2>1, <2>2, Zenon DEF At
  <1>5. CASE s.name = "install.sh" /\ s.does = install_sh
    <2>1. At(install_sh, 0)'
      BY <1>2, <1>4, <1>5, Tables
    <2>2. InstallReached(0)'
      BY DEF InstallReached
    <2> QED
      BY <1>2, <1>5, <2>1, <2>2 DEF OnScript
  <1>6. CASE s.name = "make install" /\ s.does = make_install
    <2>1. At(make_install, 0)'
      BY <1>2, <1>4, <1>6, Tables
    <2>2. MakeInstallReached(0)'
      BY DEF MakeInstallReached, MakeReached
    <2>3. 0 \in 0..8
      OBVIOUS
    <2> QED
      BY <1>2, <1>6, <2>1, <2>2, <2>3, Zenon DEF OnScript
  <1>7. CASE s.name = "make" /\ s.does = make
    <2>1. At(make, 0)'
      BY <1>2, <1>4, <1>7, Tables
    <2>2. MakeReached(0)'
      BY DEF MakeReached
    <2> QED
      BY <1>2, <1>7, <2>1, <2>2 DEF OnScript
  <1>8. CASE \/ s.name = "uninstall.sh" /\ s.does = uninstall_sh
             \/ s.name = "make uninstall" /\ s.does = make_uninstall
    <2>1. Deleting(uninstall_sh)
      <3>1. Len(uninstall_sh) = 3 /\ uninstall_sh[1] = Delete(RTLC) /\ uninstall_sh[2] = DeleteAll(LIBDIR)
            /\ uninstall_sh[3] = Delete(PROFILE)
        BY DEF uninstall_sh
      <3>2. uninstall_sh[1].do = "rm" /\ uninstall_sh[2].do = "rm -rf" /\ uninstall_sh[3].do = "rm"
        <4>1. Delete(RTLC).do = "rm" /\ DeleteAll(LIBDIR).do = "rm -rf" /\ Delete(PROFILE).do = "rm"
          BY DEF Delete, DeleteAll
        <4> QED
          BY <3>1, <4>1, Zenon
      <3>3. \A i \in 1..3 : uninstall_sh[i].do \in {"rm", "rm -rf"}
        <4>1. \A i \in 1..3 : i = 1 \/ i = 2 \/ i = 3
          OBVIOUS
        <4>2. "rm" \in {"rm", "rm -rf"} /\ "rm -rf" \in {"rm", "rm -rf"}
          OBVIOUS
        <4> QED
          BY <3>2, <4>1, <4>2, Zenon
      <3> QED
        BY <3>1, <3>3, Zenon DEF Deleting
    <2>2. Deleting(make_uninstall)
      <3>1. Len(make_uninstall) = 2 /\ make_uninstall[1] = Delete(ROOTC) /\ make_uninstall[2] = DeleteAll(LIBDIR)
        BY DEF make_uninstall
      <3>2. make_uninstall[1].do = "rm" /\ make_uninstall[2].do = "rm -rf"
        <4>1. Delete(ROOTC).do = "rm" /\ DeleteAll(LIBDIR).do = "rm -rf"
          BY DEF Delete, DeleteAll
        <4> QED
          BY <3>1, <4>1, Zenon
      <3>3. \A i \in 1..2 : make_uninstall[i].do \in {"rm", "rm -rf"}
        <4>1. \A i \in 1..2 : i = 1 \/ i = 2
          OBVIOUS
        <4>2. "rm" \in {"rm", "rm -rf"} /\ "rm -rf" \in {"rm", "rm -rf"}
          OBVIOUS
        <4> QED
          BY <3>2, <4>1, <4>2, Zenon
      <3> QED
        BY <3>1, <3>3, Zenon DEF Deleting
    <2> QED
      BY <1>2, <1>8, <2>1, <2>2 DEF OnScript
  <1> QED
    BY <1>5, <1>6, <1>7, <1>8, ScriptCases

(* A step that changes neither the script nor what it has reached.         *)
Untouched ==
    /\ disk'[RTLC] = disk[RTLC] /\ disk'[ROOTC] = disk[ROOTC] /\ disk'[RUNTIME] = disk[RUNTIME]
    /\ disk'[LOCAL_BIN] = disk[LOCAL_BIN]
    /\ disk'[Lib("runtime", "rootrt.c")] = disk[Lib("runtime", "rootrt.c")]
    /\ disk'[Lib("runtime", "rootrt.h")] = disk[Lib("runtime", "rootrt.h")]
    /\ disk'[Lib("stdlib", "root.rtl")] = disk[Lib("stdlib", "root.rtl")]

LEMMA ScriptKept ==
    ASSUME OnScript, Untouched, UNCHANGED <<objects, newer, script, todo, ended>>, Idle \/ tree' = tree
    PROVE  OnScript'
  <1>1. ASSUME NEW k \in 0..10, At(install_sh, k), InstallReached(k)
        PROVE  At(install_sh, k)' /\ InstallReached(k)'
    BY <1>1 DEF Untouched, At, InstallReached, LibraryFile
  <1>2. ASSUME NEW k \in 0..8, At(make_install, k), MakeInstallReached(k)
        PROVE  At(make_install, k)' /\ MakeInstallReached(k)'
    BY <1>2 DEF Untouched, At, MakeInstallReached, MakeReached, Compiled, LibraryFile
  <1>3. ASSUME NEW k \in 0..2, At(make, k), MakeReached(k)
        PROVE  At(make, k)' /\ MakeReached(k)'
    BY <1>3 DEF At, MakeReached, Compiled
  <1>4. Idle' <=> Idle
    BY DEF Idle
  <1> QED
    BY <1>1, <1>2, <1>3, <1>4 DEF OnScript

LEMMA ScriptUpdated ==
    ASSUME Base, OnScript, Update
    PROVE  OnScript'
  <1>1. Idle /\ UNCHANGED <<objects, newer, script, todo, ended>>
    BY DEF Update
  <1>2. InstalledFiles \cup {RUNTIME, LOCAL_BIN} \subseteq Paths \ LibraryOf(TREE)
    <2>1. \A q \in InstalledFiles : q \notin LibraryOf(TREE)
      BY TreeDifferent DEF TreePaths
    <2>2. RUNTIME \notin LibraryOf(TREE)
      BY TreeApart, LibraryWithin DEF TreePaths
    <2> QED
      BY <2>1, <2>2, AllPlaces, TreeDifferent DEF TreePaths
  <1>3. Same(InstalledFiles \cup {RUNTIME, LOCAL_BIN})
    <2>1. CASE disk' = disk
      BY <2>1 DEF Same
    <2>2. CASE disk' = [p \in Paths |-> IF p \in LibraryOf(TREE) THEN Made(tree'.c) ELSE disk[p]]
      BY <1>2, <2>2 DEF Same
    <2> QED
      BY <2>1, <2>2 DEF Update
  <1>4. Untouched
    BY <1>3 DEF Same, InstalledFiles, LibraryOf, Lib, Untouched
  <1> QED
    BY <1>1, <1>4, ScriptKept

(* Each command is run by its own action.                                  *)
Run == MakeClean \/ CompileSources \/ LinkObjects \/ RunMkdir \/ RunCopy \/ RunTee \/ RunRemove

LEMMA Running ==
    ASSUME Run
    PROVE  /\ ~Idle /\ todo' = Tail(todo) /\ UNCHANGED <<script, tree>>
           /\ Head(todo).do = "clean"   => MakeClean
           /\ Head(todo).do = "compile" => CompileSources
           /\ Head(todo).do = "link"    => LinkObjects
           /\ Head(todo).do = "mkdir"   => RunMkdir
           /\ Head(todo).do = "cp"      => RunCopy
           /\ Head(todo).do = "tee"     => RunTee
  BY DEF Run, MakeClean, CompileSources, LinkObjects, RunMkdir, RunCopy, RunTee, RunRemove, Doing, Done

LEMMA Copied ==
    ASSUME Base, Run, NEW p, NEW q \in InstalledFiles, Head(todo) = Copy(p, q)
    PROVE  disk'[q] = disk[p] /\ Same(Paths \ {q}) /\ UNCHANGED <<objects, newer>>
  <1>1. Head(todo).do = "cp" /\ Head(todo).from = p /\ Head(todo).to = q
    BY DEF Copy
  <1>2. RunCopy
    BY <1>1, Running
  <1>3. disk' = Put(q, disk[p]) /\ UNCHANGED <<objects, newer>>
    BY <1>1, <1>2 DEF RunCopy
  <1>4. q \in Paths /\ IsDisk(disk)
    BY AllPlaces DEF Base, TypeInv
  <1> QED
    BY <1>3, <1>4, PutEffect

LEMMA DirectoryMade ==
    ASSUME Base, Run, NEW p \in {RUNTIME, STDLIB}, Head(todo) = MakeDir(p)
    PROVE  /\ Same(InstalledFiles \cup {LOCAL_BIN}) /\ UNCHANGED <<objects, newer>>
           /\ disk[RUNTIME] # None => disk'[RUNTIME] # None
           /\ disk'[p] # None
  <1>1. Head(todo).do = "mkdir" /\ Head(todo).to = p
    BY DEF MakeDir
  <1>2. RunMkdir
    BY <1>1, Running
  <1>3. disk' = PutDir(p) /\ UNCHANGED <<objects, newer>>
    BY <1>1, <1>2 DEF RunMkdir
  <1>4. /\ Same(InstalledFiles \cup LibraryOf(TREE) \cup {LOCAL_BIN}) /\ disk'[p] # None
        /\ \A q \in Paths : disk[q] # None => disk'[q] # None
    BY <1>3, PutDirEffect DEF Base, TypeInv
  <1> QED
    BY <1>3, <1>4, AllPlaces DEF Same

LEMMA Registered ==
    ASSUME Base, Run, Head(todo) = Register
    PROVE  Same(Paths \ {PROFILE}) /\ UNCHANGED <<objects, newer>>
  <1>1. RunTee
    BY Running, Fields
  <1>2. disk' = Put(PROFILE, Script) /\ UNCHANGED <<objects, newer>>
    BY <1>1 DEF RunTee
  <1>3. PROFILE \in Paths /\ IsDisk(disk)
    BY AllPlaces DEF Base, TypeInv
  <1> QED
    BY <1>2, <1>3, PutEffect

LEMMA CompiledNow ==
    ASSUME Base, Run, Head(todo) = Compile, script.tree = tree
    PROVE  Compiled' /\ (objects = Whole(None) /\ ~newer => objects' = Whole(script'.tree) /\ ~newer')
  <1>1. CompileSources /\ script' = script
    BY Running, Fields
  <1>2. objects' = [o \in Objects |-> IF OutOfDate(o) THEN tree ELSE objects[o]]
    BY <1>1 DEF CompileSources
  <1>3. ASSUME NEW o \in Objects
        PROVE  objects'[o] = Torn \/ (objects'[o] \in Versions /\ objects'[o].c = script'.tree.c)
    <2>1. CASE OutOfDate(o)
      BY <1>1, <1>2, <2>1 DEF Base, TypeInv
    <2>2. CASE ~OutOfDate(o)
      BY <1>1, <1>2, <2>2 DEF OutOfDate, Base, TypeInv
    <2> QED
      BY <2>1, <2>2
  <1>4. ASSUME objects = Whole(None), ~newer PROVE objects' = Whole(script'.tree) /\ ~newer'
    <2>1. \A o \in Objects : OutOfDate(o)
      BY <1>4 DEF Whole, OutOfDate
    <2>2. objects' = Whole(script'.tree)
      BY <1>1, <1>2, <2>1 DEF Whole
    <2> QED
      BY <1>1, <1>4, <2>2 DEF CompileSources
  <1> QED
    BY <1>3, <1>4 DEF Compiled

LEMMA LinkedNow ==
    ASSUME Base, Run, Head(todo) = Link
    PROVE  /\ newer' /\ UNCHANGED objects
           /\ ~newer => disk'[LOCAL_BIN] = Binary(objects)
  <1>1. LinkObjects
    BY Running, Fields
  <1>2. newer' /\ UNCHANGED objects /\ (~newer => disk' = Put(LOCAL_BIN, Binary(objects)))
    BY <1>1 DEF LinkObjects
  <1>3. LOCAL_BIN \in Paths /\ IsDisk(disk)
    BY AllPlaces DEF Base, TypeInv, TreePaths
  <1> QED
    BY <1>2, <1>3, PutEffect

LEMMA LibraryFiles ==
    /\ LibraryOf(LIBDIR) = {Lib("runtime", "rootrt.c"), Lib("runtime", "rootrt.h"),
                            Lib("stdlib", "root.rtl")}
    /\ LibraryOf(TREE) = {TreeLib("runtime", "rootrt.c"), TreeLib("runtime", "rootrt.h"),
                          TreeLib("stdlib", "root.rtl")}
  BY Zenon DEF LibraryOf, Lib, TreeLib

(* A file copied to the library leaves the other ones, the compilers and   *)
(* the directory in place.                                                 *)
LEMMA LibraryCopied ==
    ASSUME Base, Run, script.tree = tree, NEW dir, NEW file,
           TreeLib(dir, file) \in LibraryOf(TREE), Lib(dir, file) \in LibraryOf(LIBDIR),
           Head(todo) = CopyLib(dir, file)
    PROVE  /\ LibraryFile(dir, file)'
           /\ \A p \in InstalledFiles \cup {LOCAL_BIN, RUNTIME} : p # Lib(dir, file) => disk'[p] = disk[p]
           /\ UNCHANGED <<objects, newer>>
  <1>1. /\ disk'[Lib(dir, file)] = disk[TreeLib(dir, file)] /\ Same(Paths \ {Lib(dir, file)})
        /\ UNCHANGED <<objects, newer>>
    BY Copied DEF CopyLib, InstalledFiles
  <1>2. disk[TreeLib(dir, file)] = Made(tree.c)
    BY DEF Base, TreeReady
  <1>3. script' = script
    BY Running
  <1> QED
    BY <1>1, <1>2, <1>3, AllPlaces DEF LibraryFile, Same, TreePaths

LEMMA CompilerCopied ==
    ASSUME Base, Run, NEW q \in {RTLC, ROOTC}, Head(todo) = Copy(LOCAL_BIN, q)
    PROVE  /\ disk'[q] = disk[LOCAL_BIN] /\ disk'[LOCAL_BIN] = disk[LOCAL_BIN]
           /\ UNCHANGED <<objects, newer>>
  <1>1. disk'[q] = disk[LOCAL_BIN] /\ Same(Paths \ {q}) /\ UNCHANGED <<objects, newer>>
    BY Copied DEF InstalledFiles
  <1>2. LOCAL_BIN \in Paths \ {q}
    BY AllPlaces, TreeDifferent DEF TreePaths, InstalledFiles
  <1> QED
    BY <1>1, <1>2 DEF Same

LEMMA InstallTable ==
    /\ install_sh \in Seq(Commands) /\ Len(install_sh) = 10
    /\ install_sh[1] = Clean /\ install_sh[2] = Compile /\ install_sh[3] = Link
    /\ install_sh[4] = Copy(LOCAL_BIN, RTLC)
    /\ install_sh[5] = MakeDir(RUNTIME) /\ install_sh[6] = MakeDir(STDLIB)
    /\ install_sh[7] = CopyLib("runtime", "rootrt.c") /\ install_sh[8] = CopyLib("runtime", "rootrt.h")
    /\ install_sh[9] = CopyLib("stdlib", "root.rtl") /\ install_sh[10] = Register
  BY Tables DEF InstallCommands

LEMMA InstallStep ==
    ASSUME Base, Run, script.tree = tree, NEW k \in 0..10, At(install_sh, k), InstallReached(k)
    PROVE  k + 1 \in 0..10 /\ At(install_sh, k + 1)' /\ InstallReached(k + 1)'
  <1> DEFINE c == Lib("runtime", "rootrt.c")
             h == Lib("runtime", "rootrt.h")
             rtl == Lib("stdlib", "root.rtl")
  <1>1. TypeInv /\ ~Idle /\ todo' = Tail(todo) /\ script' = script
    BY Running DEF Base
  <1>2. k + 1 <= Len(install_sh) /\ Head(todo) = install_sh[k + 1] /\ At(install_sh, k + 1)'
    BY <1>1, Advance, InstallTable
  <1>3. k \in 0..9 /\ k + 1 \in 0..10
    <2>1. \A n : n = 10 => (k + 1 <= n => k \in 0..9 /\ k + 1 \in 0..10)
      OBVIOUS
    <2> QED
      BY <1>2, <2>1, InstallTable, Zenon
  <1>4. /\ {c, h, rtl} = LibraryOf(LIBDIR) /\ {c, h, rtl, RTLC} \subseteq InstalledFiles
        /\ RTLC # c /\ RTLC # h /\ RTLC # rtl /\ c # h /\ c # rtl /\ h # rtl
        /\ RUNTIME # c /\ RUNTIME # h /\ RUNTIME # rtl
        /\ \A p \in {c, h, rtl, RTLC, RUNTIME} : p \in Paths \ {PROFILE}
        /\ TreeLib("runtime", "rootrt.c") \in LibraryOf(TREE)
        /\ TreeLib("runtime", "rootrt.h") \in LibraryOf(TREE)
        /\ TreeLib("stdlib", "root.rtl") \in LibraryOf(TREE)
    BY LibraryFiles, Different, AllPlaces DEF InstalledFiles
  <1> HIDE DEF c, h, rtl
  <1>5. CASE k = 0
    <2>0. Head(todo) = Clean
      BY <1>2, <1>5, InstallTable
    <2>1. MakeClean
      BY <2>0, Running, Fields
    <2>2. objects' = Whole(None) /\ ~newer'
      BY <2>1 DEF MakeClean, Whole
    <2>3. InstallReached(1)'
      BY <2>2 DEF InstallReached, Whole
    <2> QED
      BY <1>2, <1>3, <1>5, <2>3
  <1>6. CASE k = 1
    <2>1. objects' = Whole(script'.tree) /\ ~newer'
      BY <1>2, <1>6, CompiledNow, InstallTable DEF InstallReached
    <2>2. InstallReached(2)'
      BY <2>1 DEF InstallReached, Whole
    <2> QED
      BY <1>2, <1>3, <1>6, <2>2
  <1>7. CASE k = 2
    <2>1. Head(todo) = Link
      BY <1>2, <1>7, InstallTable
    <2>2. objects = Whole(script.tree) /\ disk'[LOCAL_BIN] = Binary(objects)
      BY <1>7, <2>1, LinkedNow DEF InstallReached
    <2>3. InstallReached(3)'
      BY <1>1, <2>2 DEF InstallReached, Whole
    <2> QED
      BY <1>2, <1>3, <1>7, <2>3
  <1>8. CASE k = 3
    <2>1. Head(todo) = Copy(LOCAL_BIN, RTLC)
      BY <1>2, <1>8, InstallTable
    <2>2. disk'[RTLC] = Binary(Whole(script.tree))
      BY <1>8, <2>1, CompilerCopied DEF InstallReached
    <2>3. InstallReached(4)'
      BY <1>1, <2>2 DEF InstallReached, Whole
    <2> QED
      BY <1>2, <1>3, <1>8, <2>3
  <1>9. CASE k = 4
    <2>1. Head(todo) = MakeDir(RUNTIME)
      BY <1>2, <1>9, InstallTable
    <2>2. disk'[RUNTIME] # None /\ disk'[RTLC] = disk[RTLC]
      BY <1>4, <2>1, DirectoryMade DEF Same
    <2>3. InstallReached(5)'
      BY <1>1, <1>9, <2>2 DEF InstallReached, Whole
    <2> QED
      BY <1>2, <1>3, <1>9, <2>3
  <1>10. CASE k = 5
    <2>1. Head(todo) = MakeDir(STDLIB)
      BY <1>2, <1>10, InstallTable
    <2>2. (disk[RUNTIME] # None => disk'[RUNTIME] # None) /\ disk'[RTLC] = disk[RTLC]
      BY <1>4, <2>1, DirectoryMade DEF Same
    <2>3. InstallReached(6)'
      BY <1>1, <1>10, <2>2 DEF InstallReached, Whole
    <2> QED
      BY <1>2, <1>3, <1>10, <2>3
  <1>11. CASE k = 6
    <2>1. Head(todo) = CopyLib("runtime", "rootrt.c")
      BY <1>2, <1>11, InstallTable
    <2>2. /\ LibraryFile("runtime", "rootrt.c")'
          /\ disk'[RUNTIME] = disk[RUNTIME] /\ disk'[RTLC] = disk[RTLC]
      BY <1>4, <2>1, LibraryCopied DEF c
    <2>3. InstallReached(7)'
      BY <1>1, <1>11, <2>2 DEF InstallReached, Whole
    <2> QED
      BY <1>2, <1>3, <1>11, <2>3
  <1>12. CASE k = 7
    <2>1. Head(todo) = CopyLib("runtime", "rootrt.h")
      BY <1>2, <1>12, InstallTable
    <2>2. /\ LibraryFile("runtime", "rootrt.h")' /\ disk'[c] = disk[c]
          /\ disk'[RUNTIME] = disk[RUNTIME] /\ disk'[RTLC] = disk[RTLC]
      BY <1>4, <2>1, LibraryCopied DEF h
    <2>3. InstallReached(8)'
      BY <1>1, <1>12, <2>2 DEF InstallReached, Whole, LibraryFile, c
    <2> QED
      BY <1>2, <1>3, <1>12, <2>3
  <1>13. CASE k = 8
    <2>1. Head(todo) = CopyLib("stdlib", "root.rtl")
      BY <1>2, <1>13, InstallTable
    <2>2. /\ LibraryFile("stdlib", "root.rtl")' /\ disk'[c] = disk[c] /\ disk'[h] = disk[h]
          /\ disk'[RUNTIME] = disk[RUNTIME] /\ disk'[RTLC] = disk[RTLC]
      BY <1>4, <2>1, LibraryCopied DEF rtl
    <2>3. InstallReached(9)'
      BY <1>1, <1>13, <2>2 DEF InstallReached, Whole, LibraryFile, c, h
    <2> QED
      BY <1>2, <1>3, <1>13, <2>3
  <1>14. CASE k = 9
    <2>1. Head(todo) = Register
      BY <1>2, <1>14, InstallTable
    <2>2. /\ disk'[c] = disk[c] /\ disk'[h] = disk[h] /\ disk'[rtl] = disk[rtl]
          /\ disk'[RUNTIME] = disk[RUNTIME] /\ disk'[RTLC] = disk[RTLC]
      BY <1>4, <2>1, Registered DEF Same
    <2>3. InstallReached(10)'
      BY <1>1, <1>14, <2>2 DEF InstallReached, Whole, LibraryFile, c, h, rtl
    <2> QED
      BY <1>2, <1>3, <1>14, <2>3
  <1> QED
    BY <1>3, <1>5, <1>6, <1>7, <1>8, <1>9, <1>10, <1>11, <1>12, <1>13, <1>14

LEMMA MakeTables ==
    /\ make \in Seq(Commands) /\ Len(make) = 2 /\ make[1] = Compile /\ make[2] = Link
    /\ make_install \in Seq(Commands) /\ Len(make_install) = 8
    /\ make_install[1] = Compile /\ make_install[2] = Link
    /\ make_install[3] = Copy(LOCAL_BIN, ROOTC) /\ make_install[4] = MakeDir(RUNTIME)
    /\ make_install[5] = CopyLib("runtime", "rootrt.c") /\ make_install[6] = CopyLib("runtime", "rootrt.h")
    /\ make_install[7] = MakeDir(STDLIB) /\ make_install[8] = CopyLib("stdlib", "root.rtl")
  BY Tables DEF make, MakeInstallCommands

LEMMA CompiledKept ==
    ASSUME Compiled, UNCHANGED <<script, objects>>
    PROVE  Compiled'
  BY DEF Compiled

LEMMA MakeStep ==
    ASSUME Base, Run, script.tree = tree, NEW k \in 0..2, At(make, k), MakeReached(k)
    PROVE  k + 1 \in 0..2 /\ At(make, k + 1)' /\ MakeReached(k + 1)'
  <1>1. TypeInv /\ ~Idle /\ todo' = Tail(todo) /\ script' = script
    BY Running DEF Base
  <1>2. k + 1 <= Len(make) /\ Head(todo) = make[k + 1] /\ At(make, k + 1)'
    BY <1>1, Advance, MakeTables
  <1>3. k \in 0..1 /\ k + 1 \in 0..2
    <2>1. \A n : n = 2 => (k + 1 <= n => k \in 0..1 /\ k + 1 \in 0..2)
      OBVIOUS
    <2> QED
      BY <1>2, <2>1, MakeTables, Zenon
  <1>4. CASE k = 0
    <2>1. Head(todo) = Compile
      BY <1>2, <1>4, MakeTables
    <2>2. MakeReached(1)'
      BY <2>1, CompiledNow DEF MakeReached
    <2> QED
      BY <1>2, <1>3, <1>4, <2>2
  <1>5. CASE k = 1
    <2>1. Head(todo) = Link
      BY <1>2, <1>5, MakeTables
    <2>2. Compiled /\ newer' /\ UNCHANGED objects
      BY <1>5, <2>1, LinkedNow DEF MakeReached
    <2>3. MakeReached(2)'
      BY <1>1, <2>2, CompiledKept DEF MakeReached
    <2> QED
      BY <1>2, <1>3, <1>5, <2>3
  <1> QED
    BY <1>3, <1>4, <1>5

LEMMA MakeInstallStep ==
    ASSUME Base, Run, script.tree = tree, NEW k \in 0..8, At(make_install, k), MakeInstallReached(k)
    PROVE  k + 1 \in 0..8 /\ At(make_install, k + 1)' /\ MakeInstallReached(k + 1)'
  <1> DEFINE c == Lib("runtime", "rootrt.c")
             h == Lib("runtime", "rootrt.h")
             rtl == Lib("stdlib", "root.rtl")
  <1>1. TypeInv /\ ~Idle /\ todo' = Tail(todo) /\ script' = script
    BY Running DEF Base
  <1>2. k + 1 <= Len(make_install) /\ Head(todo) = make_install[k + 1] /\ At(make_install, k + 1)'
    BY <1>1, Advance, MakeTables
  <1>3. k \in 0..7 /\ k + 1 \in 0..8
    <2>1. \A n : n = 8 => (k + 1 <= n => k \in 0..7 /\ k + 1 \in 0..8)
      OBVIOUS
    <2> QED
      BY <1>2, <2>1, MakeTables, Zenon
  <1>4. /\ {c, h, rtl} = LibraryOf(LIBDIR) /\ {c, h, rtl, ROOTC} \subseteq InstalledFiles
        /\ ROOTC # c /\ ROOTC # h /\ ROOTC # rtl /\ c # h /\ c # rtl /\ h # rtl
        /\ RUNTIME # c /\ RUNTIME # h /\ RUNTIME # rtl
        /\ LOCAL_BIN # c /\ LOCAL_BIN # h /\ LOCAL_BIN # rtl
        /\ TreeLib("runtime", "rootrt.c") \in LibraryOf(TREE)
        /\ TreeLib("runtime", "rootrt.h") \in LibraryOf(TREE)
        /\ TreeLib("stdlib", "root.rtl") \in LibraryOf(TREE)
    BY LibraryFiles, Different, TreeDifferent DEF InstalledFiles, TreePaths
  <1> HIDE DEF c, h, rtl
  <1>5. CASE k = 0
    <2>1. Head(todo) = Compile
      BY <1>2, <1>5, MakeTables
    <2>2. MakeInstallReached(1)'
      BY <2>1, CompiledNow DEF MakeReached, MakeInstallReached
    <2> QED
      BY <1>2, <1>3, <1>5, <2>2
  <1>6. CASE k = 1
    <2>1. Head(todo) = Link
      BY <1>2, <1>6, MakeTables
    <2>2. Compiled /\ newer' /\ UNCHANGED objects
      BY <1>6, <2>1, LinkedNow DEF MakeReached, MakeInstallReached
    <2>3. MakeInstallReached(2)'
      BY <1>1, <2>2, CompiledKept DEF MakeReached, MakeInstallReached
    <2> QED
      BY <1>2, <1>3, <1>6, <2>3
  <1>7. CASE k = 2
    <2>1. Head(todo) = Copy(LOCAL_BIN, ROOTC)
      BY <1>2, <1>7, MakeTables
    <2>2. disk'[ROOTC] = disk'[LOCAL_BIN] /\ UNCHANGED <<objects, newer>>
      BY <2>1, CompilerCopied
    <2>3. Compiled' /\ newer'
      BY <1>1, <1>7, <2>2, CompiledKept DEF MakeReached, MakeInstallReached
    <2>4. MakeInstallReached(3)'
      BY <2>2, <2>3 DEF MakeReached, MakeInstallReached
    <2> QED
      BY <1>2, <1>3, <1>7, <2>4
  <1>8. ASSUME k >= 3, UNCHANGED <<objects, newer>>, Same({ROOTC, LOCAL_BIN})
        PROVE  Compiled' /\ newer' /\ disk'[ROOTC] = disk'[LOCAL_BIN]
    BY <1>1, <1>8, CompiledKept DEF MakeReached, MakeInstallReached, Same
  <1>9. CASE k = 3
    <2>1. Head(todo) = MakeDir(RUNTIME)
      BY <1>2, <1>9, MakeTables
    <2>2. disk'[RUNTIME] # None /\ Same({ROOTC, LOCAL_BIN}) /\ UNCHANGED <<objects, newer>>
      BY <1>4, <2>1, DirectoryMade DEF Same
    <2>3. MakeInstallReached(4)'
      BY <1>8, <1>9, <2>2 DEF MakeReached, MakeInstallReached
    <2> QED
      BY <1>2, <1>3, <1>9, <2>3
  <1>10. CASE k = 4
    <2>1. Head(todo) = CopyLib("runtime", "rootrt.c")
      BY <1>2, <1>10, MakeTables
    <2>2. /\ LibraryFile("runtime", "rootrt.c")'
          /\ disk'[RUNTIME] = disk[RUNTIME] /\ Same({ROOTC, LOCAL_BIN}) /\ UNCHANGED <<objects, newer>>
      BY <1>4, <2>1, LibraryCopied DEF c, Same
    <2>3. MakeInstallReached(5)'
      BY <1>8, <1>10, <2>2 DEF MakeReached, MakeInstallReached
    <2> QED
      BY <1>2, <1>3, <1>10, <2>3
  <1>11. CASE k = 5
    <2>1. Head(todo) = CopyLib("runtime", "rootrt.h")
      BY <1>2, <1>11, MakeTables
    <2>2. /\ LibraryFile("runtime", "rootrt.h")' /\ disk'[c] = disk[c]
          /\ disk'[RUNTIME] = disk[RUNTIME] /\ Same({ROOTC, LOCAL_BIN}) /\ UNCHANGED <<objects, newer>>
      BY <1>4, <2>1, LibraryCopied DEF h, Same
    <2>3. MakeInstallReached(6)'
      BY <1>1, <1>8, <1>11, <2>2 DEF MakeReached, MakeInstallReached, LibraryFile, c
    <2> QED
      BY <1>2, <1>3, <1>11, <2>3
  <1>12. CASE k = 6
    <2>1. Head(todo) = MakeDir(STDLIB)
      BY <1>2, <1>12, MakeTables
    <2>2. /\ disk'[c] = disk[c] /\ disk'[h] = disk[h] /\ (disk[RUNTIME] # None => disk'[RUNTIME] # None)
          /\ Same({ROOTC, LOCAL_BIN}) /\ UNCHANGED <<objects, newer>>
      BY <1>4, <2>1, DirectoryMade DEF Same
    <2>3. MakeInstallReached(7)'
      BY <1>1, <1>8, <1>12, <2>2 DEF MakeReached, MakeInstallReached, LibraryFile, c, h
    <2> QED
      BY <1>2, <1>3, <1>12, <2>3
  <1>13. CASE k = 7
    <2>1. Head(todo) = CopyLib("stdlib", "root.rtl")
      BY <1>2, <1>13, MakeTables
    <2>2. /\ LibraryFile("stdlib", "root.rtl")' /\ disk'[c] = disk[c] /\ disk'[h] = disk[h]
          /\ disk'[RUNTIME] = disk[RUNTIME] /\ Same({ROOTC, LOCAL_BIN}) /\ UNCHANGED <<objects, newer>>
      BY <1>4, <2>1, LibraryCopied DEF rtl, Same
    <2>3. MakeInstallReached(8)'
      BY <1>1, <1>8, <1>13, <2>2 DEF MakeReached, MakeInstallReached, LibraryFile, c, h
    <2> QED
      BY <1>2, <1>3, <1>13, <2>3
  <1> QED
    BY <1>3, <1>5, <1>6, <1>7, <1>9, <1>10, <1>11, <1>12, <1>13

LEMMA UninstallStep ==
    ASSUME Base, Run, Deleting(todo)
    PROVE  Deleting(todo)'
  <1>1. TypeInv /\ ~Idle /\ todo' = Tail(todo)
    BY Running DEF Base
  <1>2. /\ Len(Tail(todo)) \in Nat /\ Len(todo) = Len(Tail(todo)) + 1
        /\ \A i \in 1..Len(Tail(todo)) : Tail(todo)[i] = todo[i + 1]
    BY <1>1, Progress
  <1>3. ASSUME NEW i \in 1..Len(Tail(todo)) PROVE Tail(todo)[i].do \in {"rm", "rm -rf"}
    <2>1. i + 1 \in 1..Len(todo)
      BY <1>2
    <2> QED
      BY <1>2, <2>1 DEF Deleting
  <1> QED
    BY <1>1, <1>3 DEF Deleting

LEMMA ScriptRuns ==
    ASSUME Base, OnScript, Run
    PROVE  OnScript'
  <1>1. ~Idle /\ UNCHANGED <<script, tree>> /\ script.tree = tree
    BY Running DEF OnScript
  <1>2. CASE script.name = "install.sh" /\ \E k \in 0..10 : At(install_sh, k) /\ InstallReached(k)
    <2>1. \E k \in 0..10 : At(install_sh, k)' /\ InstallReached(k)'
      BY <1>1, <1>2, InstallStep
    <2> QED
      BY <1>1, <1>2, <2>1 DEF OnScript
  <1>3. CASE script.name = "make install" /\ \E k \in 0..8 : At(make_install, k) /\ MakeInstallReached(k)
    <2>1. \E k \in 0..8 : At(make_install, k)' /\ MakeInstallReached(k)'
      BY <1>1, <1>3, MakeInstallStep
    <2> QED
      BY <1>1, <1>3, <2>1 DEF OnScript
  <1>4. CASE script.name = "make" /\ \E k \in 0..2 : At(make, k) /\ MakeReached(k)
    <2>1. \E k \in 0..2 : At(make, k)' /\ MakeReached(k)'
      BY <1>1, <1>4, MakeStep
    <2> QED
      BY <1>1, <1>4, <2>1 DEF OnScript
  <1>5. CASE /\ script.name \in {"uninstall.sh", "make uninstall"}
             /\ Deleting(todo)
    BY <1>1, <1>5, UninstallStep DEF OnScript
  <1> QED
    BY <1>1, <1>2, <1>3, <1>4, <1>5 DEF OnScript

(* Nothing is linked before it was compiled.                               *)
LEMMA LinkedCompiled ==
    ASSUME Base, OnScript, LinkObjects
    PROVE  \A o \in Objects : objects[o] = Torn \/ objects[o] \in Versions
  <1>1. TypeInv /\ ~Idle /\ todo' = Tail(todo) /\ Head(todo).do = "link"
    BY DEF Base, LinkObjects, Doing, Done
  <1>2. CASE \E k \in 0..10 : At(install_sh, k) /\ InstallReached(k)
    <2>1. PICK k \in 0..10 : At(install_sh, k) /\ InstallReached(k)
      BY <1>2
    <2>2. k + 1 <= 10 /\ Head(todo) = install_sh[k + 1]
      <3>1. k + 1 <= Len(install_sh) /\ Head(todo) = install_sh[k + 1]
        BY <1>1, <2>1, Advance, InstallTable
      <3> QED
        BY <3>1, InstallTable, Zenon
    <2>3. k = 2
      <3>1. k \in {0, 1, 2, 3, 4, 5, 6, 7, 8, 9}
        BY <2>2
      <3>2. /\ install_sh[1].do = "clean" /\ install_sh[2].do = "compile" /\ install_sh[4].do = "cp"
            /\ install_sh[5].do = "mkdir" /\ install_sh[6].do = "mkdir"
        BY InstallTable DEF Clean, Compile, Copy, MakeDir
      <3>3. /\ install_sh[7].do = "cp" /\ install_sh[8].do = "cp" /\ install_sh[9].do = "cp"
            /\ install_sh[10].do = "tee"
        BY InstallTable DEF CopyLib, Copy, Register
      <3> QED
        BY <1>1, <2>2, <3>1, <3>2, <3>3
    <2> QED
      BY <2>1, <2>3 DEF InstallReached, Whole, Base, TypeInv
  <1>3. CASE \E k \in 0..8 : At(make_install, k) /\ MakeInstallReached(k)
    <2>1. PICK k \in 0..8 : At(make_install, k) /\ MakeInstallReached(k)
      BY <1>3
    <2>2. k # 0
      <3> SUFFICES ASSUME k = 0 PROVE FALSE
        OBVIOUS
      <3>1. Head(todo) = make_install[k + 1]
        BY <1>1, <2>1, Advance, MakeTables
      <3>2. Head(todo) = Compile
        BY <3>1, MakeTables
      <3> QED
        BY <1>1, <3>2 DEF Compile
    <2> QED
      BY <2>1, <2>2 DEF MakeInstallReached, MakeReached, Compiled
  <1>4. CASE \E k \in 0..2 : At(make, k) /\ MakeReached(k)
    <2>1. PICK k \in 0..2 : At(make, k) /\ MakeReached(k)
      BY <1>4
    <2>2. k # 0
      <3> SUFFICES ASSUME k = 0 PROVE FALSE
        OBVIOUS
      <3>1. Head(todo) = make[k + 1]
        BY <1>1, <2>1, Advance, MakeTables
      <3>2. Head(todo) = Compile
        BY <3>1, MakeTables
      <3> QED
        BY <1>1, <3>2 DEF Compile
    <2> QED
      BY <2>1, <2>2 DEF MakeReached, Compiled
  <1>5. CASE Deleting(todo)
    <2>1. Head(todo) = todo[1] /\ 1 \in 1..Len(todo)
      BY <1>1, Progress
    <2> QED
      BY <1>1, <1>5, <2>1 DEF Deleting
  <1> QED
    BY <1>1, <1>2, <1>3, <1>4, <1>5 DEF OnScript

(***************************************************************************)
(* The invariant.                                                          *)
(***************************************************************************)
LEMMA InitInv ==
    Init => IInv
  <1> SUFFICES ASSUME Init PROVE IInv
    OBVIOUS
  <1>1. PICK there \in {Dir, None} :
           disk = [p \in Paths |-> IF p \in LibraryOf(TREE) THEN Made(0)
                                    ELSE IF p \in LibraryDirs(TREE) THEN Dir
                                    ELSE IF p = Elsewhere THEN there ELSE None]
    BY DEF Init
  <1>2. tree = [c |-> 0, h |-> 0] /\ objects = [o \in Objects |-> None] /\ newer = FALSE
        /\ script.tree = tree /\ todo = <<>> /\ ended = FALSE
    BY DEF Init
  <1>3. TypeInv
    <2>1. IsDisk(disk)
      BY <1>1 DEF IsDisk
    <2>2. tree \in Versions /\ script.tree \in Versions
      BY <1>2 DEF Versions
    <2>3. objects \in [Objects -> Versions \cup {None, Torn}]
      BY <1>2
    <2>4. todo \in Seq(Commands) /\ newer \in BOOLEAN
      <3>1. <<>> \in Seq(Commands) /\ FALSE \in BOOLEAN
        OBVIOUS
      <3> QED
        BY <1>2, <3>1, Zenon
    <2> QED
      BY <2>1, <2>2, <2>3, <2>4 DEF TypeInv
  <1>4. TreeReady
    <2>1. \A p \in LibraryOf(TREE) : disk[p] = Made(0)
      BY <1>1, AllPlaces DEF TreePaths
    <2>2. TREE \o <<"runtime">> \in Paths /\ TREE \o <<"runtime">> \in LibraryDirs(TREE)
      BY AllPlaces DEF TreePaths, LibraryDirs
    <2>3. disk[TREE \o <<"runtime">>] = Dir
      BY <1>1, <2>2, RuntimeIsNoFile
    <2> QED
      BY <1>2, <2>1, <2>3, NoneAssumption DEF TreeReady
  <1>5. LocalBinary /\ OnScript
    BY <1>2 DEF LocalBinary, OnScript, Idle
  <1> QED
    BY <1>3, <1>4, <1>5 DEF IInv

LEMMA NextInv ==
    IInv /\ [Next]_vars => IInv'
  <1> SUFFICES ASSUME IInv, [Next]_vars PROVE IInv'
    OBVIOUS
  <1>1. Base /\ OnScript
    BY DEF IInv, Base
  <1>2. CASE Update
    BY <1>1, <1>2, BaseAfterUpdate, ScriptUpdated DEF IInv, Base
  <1>3. CASE Start
    BY <1>1, <1>3, BaseAfterStart, ScriptStarts DEF IInv, Base
  <1>4. CASE MakeClean
    <2>1. Base'
      BY <1>1, <1>4, BaseAfterClean
    <2> QED
      BY <1>1, <1>4, <2>1, ScriptRuns DEF IInv, Base, Run
  <1>5. CASE CompileSources
    <2>1. Base'
      BY <1>1, <1>5, BaseAfterCompile
    <2> QED
      BY <1>1, <1>5, <2>1, ScriptRuns DEF IInv, Base, Run
  <1>6. CASE LinkObjects
    <2>1. Base'
      BY <1>1, <1>6, BaseAfterLink, LinkedCompiled
    <2> QED
      BY <1>1, <1>6, <2>1, ScriptRuns DEF IInv, Base, Run
  <1>7. CASE RunMkdir
    <2>1. Base'
      BY <1>1, <1>7, BaseAfterMkdir
    <2> QED
      BY <1>1, <1>7, <2>1, ScriptRuns DEF IInv, Base, Run
  <1>8. CASE RunCopy
    <2>1. Base'
      BY <1>1, <1>8, BaseAfterCopy
    <2> QED
      BY <1>1, <1>8, <2>1, ScriptRuns DEF IInv, Base, Run
  <1>9. CASE RunTee
    <2>1. Base'
      BY <1>1, <1>9, BaseAfterTee
    <2> QED
      BY <1>1, <1>9, <2>1, ScriptRuns DEF IInv, Base, Run
  <1>10. CASE RunRemove
    <2>1. Base'
      BY <1>1, <1>10, BaseAfterRemove
    <2> QED
      BY <1>1, <1>10, <2>1, ScriptRuns DEF IInv, Base, Run
  <1>11. CASE Cut
    BY <1>1, <1>11, BaseAfterCut, ScriptCut DEF IInv, Base
  <1>12. CASE UNCHANGED vars
    <2>1. UNCHANGED <<disk, tree, objects, newer, script, todo, ended>>
      BY <1>12 DEF vars
    <2>2. TypeInv' /\ TreeReady' /\ LocalBinary'
      BY <1>1, <2>1 DEF Base, TypeInv, TreeReady, LocalBinary
    <2>3. OnScript'
      BY <1>1, <2>1, ScriptKept DEF Untouched
    <2> QED
      BY <2>2, <2>3 DEF IInv
  <1> QED
    BY <1>2, <1>3, <1>4, <1>5, <1>6, <1>7, <1>8, <1>9, <1>10, <1>11, <1>12 DEF Next

(***************************************************************************)
(* The search for the library.                                             *)
(***************************************************************************)
(* The first six numbers have a least one in every set of them.            *)
LEMMA Least ==
    ASSUME NEW I \in SUBSET (1..6), I # {}
    PROVE  Min(I) \in I /\ \A i \in I : Min(I) <= i
  <1>1. \E m \in I : \A i \in I : m <= i
    <2>1. CASE 1 \in I
      BY <2>1
    <2>2. CASE 1 \notin I /\ 2 \in I
      BY <2>2
    <2>3. CASE 1 \notin I /\ 2 \notin I /\ 3 \in I
      BY <2>3
    <2>4. CASE 1 \notin I /\ 2 \notin I /\ 3 \notin I /\ 4 \in I
      BY <2>4
    <2>5. CASE 1 \notin I /\ 2 \notin I /\ 3 \notin I /\ 4 \notin I /\ 5 \in I
      BY <2>5
    <2>6. CASE 1 \notin I /\ 2 \notin I /\ 3 \notin I /\ 4 \notin I /\ 5 \notin I /\ 6 \in I
      BY <2>6
    <2>7. \E i \in 1..6 : i \in I
      OBVIOUS
    <2> QED
      BY <2>1, <2>2, <2>3, <2>4, <2>5, <2>6, <2>7
  <1> QED
    BY <1>1 DEF Min

Candidate(self, i) == Candidates(self)[i]

LEMMA SixCandidates ==
    ASSUME NEW self
    PROVE  /\ Len(Candidates(self)) = 6
           /\ Candidate(self, 1) = Front(self) /\ Candidate(self, 2) = Front(Front(self))
           /\ Candidate(self, 3) = Front(Front(self)) \o <<"lib", "root_lang">>
           /\ Candidate(self, 4) = LIBDIR /\ Candidate(self, 5) = <<"usr", "lib", "root_lang">>
           /\ Candidate(self, 6) = <<"opt", "root_lang">>
  <1> DEFINE a == Front(self)
             b == Front(Front(self))
             x == Front(Front(self)) \o <<"lib", "root_lang">>
             y == <<"usr", "lib", "root_lang">>
             z == <<"opt", "root_lang">>
  <1>1. Candidates(self) = <<a, b, x>> \o <<LIBDIR, y, z>>
    BY Zenon DEF Candidates, Fallbacks
  <1> HIDE DEF a, b, x, y, z
  <1>2. <<a, b, x>> \o <<LIBDIR, y, z>> = <<a, b, x, LIBDIR, y, z>>
    <2> DEFINE S == {a, b, x, LIBDIR, y, z}
    <2>1. <<a, b, x>> \in Seq(S) /\ <<LIBDIR, y, z>> \in Seq(S) /\ <<a, b, x, LIBDIR, y, z>> \in Seq(S)
      OBVIOUS
    <2>2. Divides(<<a, b, x, LIBDIR, y, z>>, <<a, b, x>>, <<LIBDIR, y, z>>)
      BY DEF Divides
    <2> QED
      BY <2>1, <2>2, Concat
  <1>3. Candidates(self) = <<a, b, x, LIBDIR, y, z>>
    BY <1>1, <1>2, Zenon
  <1>4. /\ Len(Candidates(self)) = 6 /\ Candidate(self, 1) = a /\ Candidate(self, 2) = b
        /\ Candidate(self, 3) = x /\ Candidate(self, 4) = LIBDIR /\ Candidate(self, 5) = y
        /\ Candidate(self, 6) = z
    BY <1>3 DEF Candidate
  <1> QED
    BY <1>4 DEF a, b, x, y, z

(* It ends at the first place with a runtime, or at the default.           *)
LEMMA HomeFound ==
    ASSUME NEW self
    PROVE  LET home == rl_find_home(None, self) IN
           \/ \E m \in 1..6 :
                 /\ home = Candidate(self, m) /\ dir_has_runtime(Candidate(self, m))
                 /\ \A i \in 1..6 : dir_has_runtime(Candidate(self, i)) => m <= i
           \/ home = LIBDIR /\ \A i \in 1..6 : ~dir_has_runtime(Candidate(self, i))
  <1> DEFINE I == {i \in 1..6 : dir_has_runtime(Candidate(self, i))}
             found == SelectInSeq(Candidates(self), dir_has_runtime)
             home == rl_find_home(None, self)
  <1>1. found = IF I # {} THEN Min(I) ELSE 0
    <2>1. 1..Len(Candidates(self)) = 1..6
      BY SixCandidates
    <2>2. I = {i \in 1..Len(Candidates(self)) : dir_has_runtime(Candidates(self)[i])}
      BY <2>1 DEF Candidate
    <2> QED
      BY <2>2 DEF SelectInSeq
  <1>2. home = IF found = 0 THEN LIBDIR ELSE Candidate(self, found)
    BY DEF rl_find_home, Candidate
  <1> HIDE DEF found, home
  <1>3. CASE I = {}
    BY <1>1, <1>2, <1>3 DEF home
  <1>4. CASE I # {}
    <2>1. Min(I) \in I /\ \A i \in I : Min(I) <= i
      BY <1>4, Least
    <2>2. found = Min(I) /\ found # 0
      BY <1>1, <1>4, <2>1
    <2> QED
      BY <1>2, <2>1, <2>2 DEF home
  <1> QED
    BY <1>3, <1>4

(* The last name of a path.                                                *)
LEMMA OneMore ==
    ASSUME NEW S, NEW s \in Seq(S), NEW a \in S
    PROVE  /\ s \o <<a>> \in Seq(S) /\ Len(s) \in Nat /\ Len(s \o <<a>>) = Len(s) + 1
           /\ (s \o <<a>>)[Len(s) + 1] = a
           /\ \A i \in 1..Len(s) : (s \o <<a>>)[i] = s[i]
  OBVIOUS

LEMMA LastSame ==
    ASSUME NEW s \in Seq(Words), NEW t \in Seq(Words), NEW a \in Words, NEW b \in Words,
           s \o <<a>> = t \o <<b>>
    PROVE  s = t /\ a = b
  <1> DEFINE q == s \o <<a>>
  <1>1. /\ Len(s) \in Nat /\ Len(q) = Len(s) + 1 /\ q[Len(s) + 1] = a
        /\ \A i \in 1..Len(s) : q[i] = s[i]
    BY OneMore
  <1>2. q = t \o <<b>>
    OBVIOUS
  <1> HIDE DEF q
  <1>3. /\ Len(t) \in Nat /\ Len(q) = Len(t) + 1 /\ q[Len(t) + 1] = b
        /\ \A i \in 1..Len(t) : q[i] = t[i]
    BY <1>2, OneMore
  <1>4. Len(s) = Len(t)
    BY <1>1, <1>3
  <1>5. a = b /\ \A i \in 1..Len(s) : s[i] = t[i]
    BY <1>1, <1>3, <1>4
  <1> QED
    BY <1>4, <1>5, SameSequence

LEMMA TwoNames ==
    ASSUME NEW s \in Seq(Words), NEW a \in Words, NEW b \in Words
    PROVE  s \o <<a, b>> = (s \o <<a>>) \o <<b>> /\ s \o <<a>> \in Seq(Words)
  <1> DEFINE p == s \o <<a>>
             q == p \o <<b>>
             ab == <<a, b>>
  <1>1. /\ p \in Seq(Words) /\ Len(s) \in Nat /\ Len(p) = Len(s) + 1 /\ p[Len(s) + 1] = a
        /\ \A i \in 1..Len(s) : p[i] = s[i]
    BY OneMore
  <1>2. ab \in Seq(Words) /\ Len(ab) = 2 /\ ab[1] = a /\ ab[2] = b
    OBVIOUS
  <1> HIDE DEF p, ab
  <1>3. /\ q \in Seq(Words) /\ Len(q) = Len(p) + 1 /\ q[Len(p) + 1] = b
        /\ \A i \in 1..Len(p) : q[i] = p[i]
    BY <1>1, OneMore
  <1>4. Divides(q, s, ab)
    <2> HIDE DEF q
    <2>1. Len(q) = Len(s) + 2 /\ \A i \in 1..Len(s) : q[i] = s[i]
      BY <1>1, <1>3
    <2>2. q[Len(s) + 1] = a /\ q[Len(s) + 2] = b
      BY <1>1, <1>3
    <2>3. \A i \in 1..2 : q[Len(s) + i] = ab[i]
      BY <1>2, <2>2
    <2>4. \A i \in 1..Len(ab) : q[Len(s) + i] = ab[i]
      BY <1>2, <2>3, Zenon
    <2>5. Len(q) = Len(s) + Len(ab)
      BY <1>2, <2>1, Zenon
    <2> QED
      BY <2>1, <2>4, <2>5 DEF Divides
  <1>5. s \o ab = q
    BY <1>2, <1>3, <1>4, Concat
  <1> QED
    BY <1>1, <1>5 DEF p, ab

LEMMA FrontOf ==
    ASSUME NEW s \in Seq(Words), NEW a \in Words
    PROVE  Front(s \o <<a>>) = s
  <1> DEFINE q == s \o <<a>>
  <1>1. /\ q \in Seq(Words) /\ Len(s) \in Nat /\ Len(q) = Len(s) + 1
        /\ \A i \in 1..Len(s) : q[i] = s[i]
    BY OneMore
  <1> HIDE DEF q
  <1>2. Len(q) - 1 = Len(s)
    BY <1>1
  <1>3. SubSeq(q, 1, Len(s)) = s
    <2>1. /\ SubSeq(q, 1, Len(s)) \in Seq(Words) /\ Len(SubSeq(q, 1, Len(s))) = Len(s)
          /\ \A i \in 1..Len(s) : SubSeq(q, 1, Len(s))[i] = q[i]
      BY <1>1
    <2> QED
      BY <1>1, <2>1, SameSequence
  <1> QED
    BY <1>2, <1>3 DEF Front, q

(***************************************************************************)
(* Without ROOTLANG_HOME the compiler's home has a runtime, or no place    *)
(* it looks in has one and the home is the default: whatever the disk      *)
(* holds (rl_find_home).                                                   *)
(***************************************************************************)
THEOREM HomeIsFound ==
    Spec => []HomeHasRuntime
  <1>1. HomeHasRuntime
    <2> SUFFICES ASSUME NEW self \in Binaries
                 PROVE  LET home == rl_find_home(None, self) IN
                        \/ dir_has_runtime(home)
                        \/ home = LIBDIR /\ \A p \in Places(self) : ~dir_has_runtime(p)
      BY DEF HomeHasRuntime
    <2>1. ASSUME NEW p \in Places(self) PROVE \E i \in 1..6 : p = Candidate(self, i)
      <3>1. Places(self) = {Candidate(self, 1), Candidate(self, 2), Candidate(self, 3),
                            Candidate(self, 4), Candidate(self, 5), Candidate(self, 6)}
        BY SixCandidates, Zenon DEF Places
      <3> QED
        BY <3>1
    <2> QED
      BY <2>1, HomeFound
  <1> QED
    BY <1>1, PTL

(* Where a runtime directory may be, of all the paths of the model.        *)
OPT == <<"opt", "root_lang">>

LEMMA PathNames ==
    /\ Prefix \in Seq(Words) /\ Prefix = <<"usr">> \o <<"local">> /\ <<"usr">> \in Seq(Words)
    /\ LIBDIR = (Prefix \o <<"lib">>) \o <<"root_lang">> /\ Prefix \o <<"lib">> \in Seq(Words)
    /\ RTLC = (Prefix \o <<"bin">>) \o <<"rtlc">> /\ Prefix \o <<"bin">> \in Seq(Words)
    /\ ROOTC = (Prefix \o <<"bin">>) \o <<"rootc">>
    /\ OPT = <<"opt">> \o <<"root_lang">> /\ OPT \in Seq(Words) /\ <<"opt">> \in Seq(Words)
    /\ PROFILE = <<"etc", "profile.d">> \o <<"root_lang.sh">> /\ <<"etc", "profile.d">> \in Seq(Words)
    /\ Elsewhere = OPT \o <<"runtime">>
  <1>1. {"usr", "local", "lib", "root_lang", "bin", "rtlc", "rootc", "opt", "etc", "profile.d", "root_lang.sh",
         "runtime"} \subseteq Words
    BY DEF Words
  <1>2. Prefix \in Seq(Words) /\ <<"usr">> \in Seq(Words) /\ <<"opt">> \in Seq(Words) /\ OPT \in Seq(Words)
        /\ <<"etc", "profile.d">> \in Seq(Words)
    BY <1>1 DEF Prefix, OPT
  <1>3. /\ Prefix = <<"usr">> \o <<"local">> /\ OPT = <<"opt">> \o <<"root_lang">>
        /\ PROFILE = <<"etc", "profile.d">> \o <<"root_lang.sh">>
        /\ Elsewhere = OPT \o <<"runtime">>
    BY DEF Prefix, OPT, PROFILE, Elsewhere
  <1>4. /\ LIBDIR = (Prefix \o <<"lib">>) \o <<"root_lang">> /\ Prefix \o <<"lib">> \in Seq(Words)
        /\ RTLC = (Prefix \o <<"bin">>) \o <<"rtlc">> /\ Prefix \o <<"bin">> \in Seq(Words)
        /\ ROOTC = (Prefix \o <<"bin">>) \o <<"rootc">>
    <2>1. \A a, b \in Words : Prefix \o <<a, b>> = (Prefix \o <<a>>) \o <<b>> /\ Prefix \o <<a>> \in Seq(Words)
      BY <1>2, TwoNames
    <2>2. "lib" \in Words /\ "root_lang" \in Words /\ "bin" \in Words /\ "rtlc" \in Words /\ "rootc" \in Words
      BY <1>1
    <2> QED
      BY <2>1, <2>2, Zenon DEF LIBDIR, RTLC, ROOTC
  <1> QED
    BY <1>2, <1>3, <1>4

LEMMA RuntimePlaces ==
    ASSUME NEW s \in Seq(Words), s \o <<"runtime">> \in Paths
    PROVE  s \in {TREE, LIBDIR, OPT} \/ s \o <<"runtime">> = TREE
  <1> DEFINE p == s \o <<"runtime">>
  <1>1. {"runtime", "stdlib", "rootrt.c", "rootrt.h", "root.rtl", "root_lang", "rtlc", "rootc", "bin",
         "root_lang.sh"} \subseteq Words
    BY DEF Words
  <1>2. TREE \in Seq(Words) /\ LIBDIR \in Seq(Words)
    <2>1. <<>> \in Seq(Words)
      OBVIOUS
    <2> QED
      BY <2>1, InTree, Installed
  <1>3. ASSUME NEW t \in Seq(Words), NEW b \in Words, p = t \o <<b>> PROVE s = t /\ b = "runtime"
    BY <1>1, <1>3, LastSame
  <1>4. ASSUME NEW home \in {TREE, LIBDIR}, p \in LibraryOf(home) PROVE FALSE
    <2>1. \A d, f \in Words : home \o <<d, f>> = (home \o <<d>>) \o <<f>> /\ home \o <<d>> \in Seq(Words)
      BY <1>2, TwoNames
    <2>2. PICK d \in Words, f \in {"rootrt.c", "rootrt.h", "root.rtl"} : p = home \o <<d, f>>
      BY <1>1, <1>4 DEF LibraryOf
    <2>3. p = (home \o <<d>>) \o <<f>> /\ home \o <<d>> \in Seq(Words) /\ f \in Words
      BY <1>1, <2>1, <2>2
    <2>4. f = "runtime"
      BY <1>3, <2>3
    <2> QED
      BY <2>2, <2>4
  <1>5. ASSUME NEW home \in {TREE, LIBDIR}, p \in LibraryDirs(home) PROVE p = home \/ s = home
    <2>1. CASE p = home
      BY <2>1
    <2>2. CASE p = home \o <<"runtime">>
      BY <1>1, <1>2, <1>3, <2>2
    <2>3. CASE p = home \o <<"stdlib">>
      BY <1>1, <1>2, <1>3, <2>3
    <2> QED
      BY <1>5, <2>1, <2>2, <2>3 DEF LibraryDirs
  <1>6. p # LIBDIR
    BY <1>1, <1>3, PathNames
  <1>7. p \notin Binaries
    <2>1. p # RTLC /\ p # ROOTC
      BY <1>1, <1>3, PathNames
    <2>2. LOCAL_BIN = (TREE \o <<"bin">>) \o <<"rootc">> /\ TREE \o <<"bin">> \in Seq(Words)
      BY <1>1, <1>2, TwoNames DEF LOCAL_BIN
    <2>3. p # LOCAL_BIN
      BY <1>1, <1>3, <2>2
    <2> QED
      BY <2>1, <2>3 DEF Binaries
  <1>8. p # PROFILE
    BY <1>1, <1>3, PathNames
  <1>9. p = Elsewhere => s = OPT
    BY <1>1, <1>3, PathNames
  <1>10. p \in Paths
    OBVIOUS
  <1> HIDE DEF p
  <1>11. s \in {TREE, LIBDIR, OPT} \/ p = TREE
    BY <1>4, <1>5, <1>6, <1>7, <1>8, <1>9, <1>10 DEF Paths
  <1> QED
    BY <1>11 DEF p

(* The compiler of the tree finds the tree.                                *)
LEMMA LocalHome ==
    ASSUME IsDisk(disk), disk[TREE \o <<"runtime">>] # None
    PROVE  rl_find_home(None, LOCAL_BIN) = TREE
  <1> DEFINE bin == TREE \o <<"bin">>
  <1>1. "bin" \in Words /\ "rootc" \in Words /\ "runtime" \in Words
    BY DEF Words
  <1>2. TREE \in Seq(Words)
    <2>1. <<>> \in Seq(Words)
      OBVIOUS
    <2> QED
      BY <2>1, InTree
  <1>3. LOCAL_BIN = bin \o <<"rootc">> /\ bin \in Seq(Words)
    BY <1>1, <1>2, TwoNames DEF LOCAL_BIN
  <1>4. Front(LOCAL_BIN) = bin /\ Front(Front(LOCAL_BIN)) = TREE
    <2>1. Front(bin) = TREE
      BY <1>1, <1>2, FrontOf
    <2>2. Front(LOCAL_BIN) = bin
      BY <1>1, <1>3, FrontOf
    <2> QED
      BY <2>1, <2>2
  <1>5. ~dir_has_runtime(bin)
    <2> SUFFICES ASSUME bin \o <<"runtime">> \in Paths PROVE FALSE
      BY DEF dir_has_runtime, IsDisk
    <2>1. Len(bin) = Len(TREE) + 1 /\ Len(bin \o <<"runtime">>) = Len(bin) + 1 /\ Len(TREE) \in Nat
      BY <1>1, <1>2, <1>3, OneMore
    <2>2. bin # TREE /\ bin \o <<"runtime">> # TREE
      BY <2>1
    <2>3. bin # LIBDIR /\ bin # OPT
      <3>1. "root_lang" \in Words /\ "bin" # "root_lang"
        BY DEF Words
      <3> QED
        BY <1>1, <1>2, <3>1, LastSame, PathNames
    <2> QED
      BY <1>3, <2>2, <2>3, RuntimePlaces
  <1>6. dir_has_runtime(TREE)
    BY AllPlaces DEF dir_has_runtime, IsDisk, TreePaths
  <1>7. Candidate(LOCAL_BIN, 1) = bin /\ Candidate(LOCAL_BIN, 2) = TREE
    BY <1>4, SixCandidates
  <1> HIDE DEF bin
  <1>8. ~dir_has_runtime(Candidate(LOCAL_BIN, 1)) /\ dir_has_runtime(Candidate(LOCAL_BIN, 2))
    BY <1>5, <1>6, <1>7
  <1>9. 1 \in 1..6 /\ 2 \in 1..6 /\ \A m \in 1..6 : m <= 2 => m = 1 \/ m = 2
    OBVIOUS
  <1> QED
    BY <1>7, <1>8, <1>9, HomeFound

(* An installed compiler finds the library beside it.                      *)
LEMMA InstalledHome ==
    ASSUME IsDisk(disk), disk[RUNTIME] # None, NEW self \in {RTLC, ROOTC}
    PROVE  rl_find_home(None, self) = LIBDIR
  <1> DEFINE bin == Prefix \o <<"bin">>
  <1>1. {"bin", "rootc", "rtlc", "runtime", "root_lang", "usr", "local"} \subseteq Words
    BY DEF Words
  <1>2. Front(self) = bin /\ Front(Front(self)) = Prefix
    <2>1. Front(bin) = Prefix
      BY <1>1, PathNames, FrontOf
    <2>2. Front(self) = bin
      <3>1. Front(RTLC) = bin /\ Front(ROOTC) = bin
        BY <1>1, PathNames, FrontOf
      <3> QED
        BY <3>1
    <2> QED
      BY <2>1, <2>2
  <1>3. ASSUME NEW home \in {bin, Prefix}, dir_has_runtime(home) PROVE FALSE
    <2>1. home \o <<"runtime">> \in Paths
      BY <1>3 DEF dir_has_runtime, IsDisk
    <2>2. TREE # home /\ ~IsPrefix(home \o <<"runtime">>, TREE)
      <3>1. Front(RTLC) = bin
        BY <1>1, PathNames, FrontOf
      <3> QED
        BY <3>1, InstallationAssumption
    <2>3. home \o <<"runtime">> # TREE
      <3> SUFFICES ASSUME home \o <<"runtime">> = TREE PROVE FALSE
        OBVIOUS
      <3>1. home \in Seq(Words)
        BY PathNames
      <3>2. home \o <<"runtime">> \in Seq(Words)
        BY <1>1, <3>1, OneMore
      <3>3. ASSUME NEW q \in Seq(Words) PROVE IsPrefix(q, q)
        BY PrefixAgrees
      <3> QED
        BY <2>2, <3>2, <3>3
    <2>4. home # LIBDIR /\ home # OPT
      <3>1. bin # LIBDIR /\ bin # OPT
        BY <1>1, LastSame, PathNames
      <3>2. Prefix # LIBDIR /\ Prefix # OPT
        BY <1>1, LastSame, PathNames
      <3> QED
        BY <3>1, <3>2
    <2>5. home \in Seq(Words)
      BY PathNames
    <2> QED
      BY <2>1, <2>2, <2>3, <2>4, <2>5, RuntimePlaces
  <1>4. dir_has_runtime(LIBDIR)
    BY AllPlaces DEF dir_has_runtime, IsDisk, RUNTIME
  <1>5. Candidate(self, 1) = bin /\ Candidate(self, 2) = Prefix /\ Candidate(self, 3) = LIBDIR
    BY <1>2, SixCandidates DEF LIBDIR
  <1> HIDE DEF bin
  <1>6. /\ ~dir_has_runtime(Candidate(self, 1)) /\ ~dir_has_runtime(Candidate(self, 2))
        /\ dir_has_runtime(Candidate(self, 3))
    BY <1>3, <1>4, <1>5
  <1>7. 3 \in 1..6 /\ \A m \in 1..6 : m <= 3 => m = 1 \/ m = 2 \/ m = 3
    OBVIOUS
  <1> QED
    BY <1>5, <1>6, <1>7, HomeFound

(***************************************************************************)
(* The promises.                                                           *)
(***************************************************************************)
LEMMA EveryTerminal ==
    ASSUME IsDisk(disk), disk[RUNTIME] # None, NEW self \in {RTLC, ROOTC}, NEW env \in NewTerminals
    PROVE  rl_find_home(env, self) = LIBDIR
  <1>1. env = None \/ (env # None /\ env = LIBDIR)
    BY DEF NewTerminals
  <1>2. CASE env = None
    BY <1>2, InstalledHome
  <1>3. CASE env # None /\ env = LIBDIR
    BY <1>3 DEF rl_find_home
  <1> QED
    BY <1>1, <1>2, <1>3

LEMMA LibraryWorks ==
    ASSUME IsDisk(disk), disk[RUNTIME] # None, NEW self \in {RTLC, ROOTC}, NEW v,
           disk[self] = Binary([o \in Objects |-> v]),
           disk[Lib("runtime", "rootrt.c")] = Made(v.c), disk[Lib("runtime", "rootrt.h")] = Made(v.c),
           disk[Lib("stdlib", "root.rtl")] = Made(v.c)
    PROVE  \A env \in NewTerminals : Works(env, self, v)
  <1> SUFFICES ASSUME NEW env \in NewTerminals PROVE Works(env, self, v)
    OBVIOUS
  <1>1. rl_find_home(env, self) = LIBDIR
    BY EveryTerminal
  <1>2. \A p \in LibraryOf(LIBDIR) : p \in Paths /\ disk[p] = Made(v.c)
    BY LibraryFiles, AllPlaces DEF InstalledFiles
  <1> QED
    BY <1>1, <1>2 DEF Works

(***************************************************************************)
(* Whatever was on the machine before, a half installation, a half build   *)
(* or another version included, a finished install.sh leaves a compiler of *)
(* the tree with a library to match, in every terminal; so does a finished *)
(* make install, if no header was edited since the objects were compiled   *)
(* and no build was cut while linking.                                     *)
(***************************************************************************)
THEOREM InstallWorks ==
    Spec => []FinishedInstallWorks
  <1>1. IInv => FinishedInstallWorks
    <2> SUFFICES ASSUME IInv, Idle, ended
                 PROVE  /\ script.name = "install.sh" => \A env \in NewTerminals : Works(env, RTLC, script.tree)
                        /\ /\ script.name = "make install"
                           /\ disk[LOCAL_BIN] # Torn
                           /\ \A o \in Objects : objects[o].h = script.tree.h
                           => \A env \in NewTerminals : Works(env, ROOTC, script.tree)
      BY DEF FinishedInstallWorks
    <2>1. TypeInv /\ LocalBinary /\ OnScript /\ IsDisk(disk) /\ Len(todo) = 0
      BY DEF IInv, TypeInv, Idle
    <2>2. ASSUME script.name = "install.sh" PROVE \A env \in NewTerminals : Works(env, RTLC, script.tree)
      <3>1. PICK k \in 0..10 : At(install_sh, k) /\ InstallReached(k)
        BY <2>1, <2>2 DEF OnScript
      <3>2. k = 10
        BY <2>1, <3>1, InstallTable DEF At
      <3>3. /\ disk[RTLC] = Binary(Whole(script.tree)) /\ disk[RUNTIME] # None
            /\ LibraryFile("runtime", "rootrt.c") /\ LibraryFile("runtime", "rootrt.h")
            /\ LibraryFile("stdlib", "root.rtl")
        BY <3>1, <3>2 DEF InstallReached
      <3> QED
        BY <2>1, <3>3, LibraryWorks DEF Whole, LibraryFile
    <2>3. ASSUME script.name = "make install", disk[LOCAL_BIN] # Torn,
                 \A o \in Objects : objects[o].h = script.tree.h
          PROVE  \A env \in NewTerminals : Works(env, ROOTC, script.tree)
      <3>1. PICK k \in 0..8 : At(make_install, k) /\ MakeInstallReached(k)
        BY <2>1, <2>3 DEF OnScript
      <3>2. k = 8
        BY <2>1, <3>1, MakeTables DEF At
      <3>3. /\ disk[ROOTC] = disk[LOCAL_BIN] /\ disk[RUNTIME] # None /\ newer /\ Compiled
            /\ LibraryFile("runtime", "rootrt.c") /\ LibraryFile("runtime", "rootrt.h")
            /\ LibraryFile("stdlib", "root.rtl")
        BY <3>1, <3>2 DEF MakeInstallReached, MakeReached
      <3>4. disk[LOCAL_BIN] = Binary(objects) /\ objects \in [Objects -> Versions]
        BY <2>1, <2>3, <3>3 DEF LocalBinary
      <3>5. \A o \in Objects : objects[o] = script.tree
        <4> SUFFICES ASSUME NEW o \in Objects PROVE objects[o] = script.tree
          OBVIOUS
        <4>1. objects[o] \in Versions /\ objects[o].h = script.tree.h /\ script.tree \in Versions
          BY <2>1, <2>3, <3>4 DEF TypeInv
        <4>2. objects[o].c = script.tree.c
          BY <3>3, <4>1 DEF Compiled, Versions, Torn
        <4> QED
          BY <4>1, <4>2 DEF Versions
      <3>6. objects = [o \in Objects |-> script.tree]
        BY <3>4, <3>5
      <3> QED
        BY <2>1, <3>3, <3>4, <3>6, LibraryWorks DEF LibraryFile
    <2> QED
      BY <2>2, <2>3
  <1> QED
    BY <1>1, InitInv, NextInv, PTL DEF Spec

(***************************************************************************)
(* Without ROOTLANG_HOME, a compiler built in the tree compiles and links  *)
(* against the library of the tree, whatever an installation next to it is *)
(* or is in the middle of.                                                 *)
(***************************************************************************)
THEOREM LocalWorks ==
    Spec => []LocalBuildWorks
  <1>1. IInv => LocalBuildWorks
    <2> SUFFICES ASSUME IInv, NEW h \in 0..MaxEdits, NEW v, v = [c |-> tree.c, h |-> h],
                        disk[LOCAL_BIN] = Binary([o \in Objects |-> v])
                 PROVE  Works(None, LOCAL_BIN, v)
      BY DEF LocalBuildWorks
    <2>1. TreeReady /\ IsDisk(disk) /\ v.c = tree.c
      BY DEF IInv, TypeInv
    <2>2. rl_find_home(None, LOCAL_BIN) = TREE
      BY <2>1, LocalHome DEF TreeReady
    <2>3. \A p \in LibraryOf(TREE) : p \in Paths /\ disk[p] = Made(v.c)
      BY <2>1, AllPlaces DEF TreeReady, TreePaths
    <2> QED
      BY <2>2, <2>3 DEF Works
  <1> QED
    BY <1>1, InitInv, NextInv, PTL DEF Spec
===============================================================================
