---------------------------- MODULE ResolverProofs ----------------------------
(***************************************************************************)
(* Theorems about Resolver, for every set of source trees, every home and  *)
(* every spelling of every path.                                           *)
(***************************************************************************)
EXTENDS Resolver, SequenceTheorems, WellFoundedInduction, TLAPS

(* In the stack fs, the loop of a load of p is past its i-th declaration.  *)
Passed(fs, p, i) ==
    \A m \in DOMAIN fs : fs[m].path = p => i < fs[m].next

(* Before the first call nothing is loaded, after the last nothing runs.   *)
StartsEmpty ==
    /\ status = "start" => loaded = <<>> /\ frames = <<>> /\ program = <<>>
    /\ status = "done" => frames = <<>>

(* Only a file that cannot be loaded is in the set without a source.       *)
LoadedReadable == status # "fatal" => \A p \in Loaded : Readable(tree, p)

(* No file is loaded twice at once.                                        *)
FramesDistinct ==
    \A j, k \in DOMAIN frames : frames[j].path = frames[k].path => j = k

(* What a file being loaded has pushed lies behind its loop index.         *)
PushedIsPassed ==
    \A k \in DOMAIN program : Passed(frames, program[k].path, program[k].idx)

(* A program entry is a declaration of its file, and not an import.        *)
EntriesOwn ==
    \A k \in DOMAIN program : program[k].idx \in OwnIndices(tree, program[k].path)

(* An import behind the loop index has been loaded ...                     *)
PassedImportsLoaded ==
    status # "fatal" =>
        \A p \in Loaded : \A i \in ImportIndices(tree, p) :
            Passed(frames, p, i) => ImportedBy(tree, p, i) \in Loaded

(* ... and any other declaration behind it has been pushed.                *)
PassedPushed ==
    status # "fatal" =>
        \A p \in Loaded : \A i \in OwnIndices(tree, p) :
            Passed(frames, p, i) => <<p, i>> \in Emitted(program)

IInv ==
    /\ TypeOK
    /\ StartsEmpty
    /\ LoadedReadable
    /\ FramesDistinct
    /\ PushedIsPassed
    /\ EntriesOwn
    /\ PassedImportsLoaded
    /\ PassedPushed
    /\ EachDeclarationOnce
-------------------------------------------------------------------------------
(* Dirname and Join make paths of paths.                                   *)
LEMMA DirnameType ==
    ASSUME NEW p \in PathType
    PROVE  Dirname(p) \in PathType
<1>1. CASE Len(p.segs) > 1
  <2>1. p.segs \in Seq(Names) /\ SubSeq(p.segs, 1, Len(p.segs) - 1) \in Seq(Names)
    BY <1>1 DEF PathType
  <2>2. Dirname(p) = [p EXCEPT !.segs = SubSeq(p.segs, 1, Len(p.segs) - 1)]
    BY <1>1 DEF Dirname, Front, PathType
  <2> QED BY <2>1, <2>2 DEF PathType
<1>2. CASE ~(Len(p.segs) > 1)
  <2>1. <<".">> \in Seq(Names)
    <3>1. "." \in Names
      BY NamesAssumption
    <3>2. \A S : \A x \in S : <<x>> \in Seq(S)
      OBVIOUS
    <3> QED BY <3>1, <3>2
  <2>2. <<>> \in Seq(Names)
    OBVIOUS
  <2>3. Abs(<<>>) \in PathType /\ Rel(<<".">>) \in PathType
    BY <2>1, <2>2 DEF Abs, Rel, PathType
  <2> QED BY <1>2, <2>3 DEF Dirname
<1> QED BY <1>1, <1>2

LEMMA JoinType ==
    ASSUME NEW dir \in PathType, NEW rel \in PathType
    PROVE  Join(dir, rel) \in PathType
<1>1. dir.segs \o rel.segs \in Seq(Names)
  BY DEF PathType
<1>2. [dir EXCEPT !.segs = @ \o rel.segs] \in PathType
  BY <1>1 DEF PathType
<1> QED BY <1>2 DEF Join

(* The alias and the path of an import of a readable file are typed.       *)
LEMMA ImportType ==
    ASSUME NEW t \in Trees, NEW p \in PathType, Readable(t, p),
           NEW i \in ImportIndices(t, p)
    PROVE  /\ ImportedBy(t, p, i) \in PathType
           /\ Decls(t, p)[i].alias \in Aliases
<1> DEFINE d == Decls(t, p)[i]
<1>1. d.alias \in Aliases /\ d.path \in PathType
  BY TreesAssumption DEF Readable, Decls, ImportIndices
<1>2. Join(Dirname(p), d.path) \in PathType /\ Join(Home, d.path) \in PathType
  BY <1>1, PathsAssumption, DirnameType, JoinType
<1>3. ImportedBy(t, p, i) \in {Join(Dirname(p), d.path), Join(Home, d.path)}
  BY DEF ImportedBy, Child
<1> QED BY <1>1, <1>2, <1>3

(* The declarations of a readable file are a finite array.                 *)
LEMMA DeclsIndexed ==
    ASSUME NEW t \in Trees, NEW p, Readable(t, p)
    PROVE  /\ Len(Decls(t, p)) \in Nat
           /\ DOMAIN Decls(t, p) = 1..Len(Decls(t, p))
           /\ ImportIndices(t, p) \subseteq 1..Len(Decls(t, p))
           /\ OwnIndices(t, p) \subseteq 1..Len(Decls(t, p))
  BY TreesAssumption DEF Readable, Decls, ImportIndices, OwnIndices

LEMMA ToSetAppend ==
    ASSUME NEW S, NEW s \in Seq(S), NEW e
    PROVE  ToSet(Append(s, e)) = ToSet(s) \cup {e}
<1>1. DOMAIN Append(s, e) = 1..(Len(s) + 1)
  OBVIOUS
<1>2. \A k \in 1..Len(s) : Append(s, e)[k] = s[k]
  OBVIOUS
<1>3. Append(s, e)[Len(s) + 1] = e
  OBVIOUS
<1> QED BY <1>1, <1>2, <1>3 DEF ToSet

LEMMA SeqMonotone ==
    ASSUME NEW S, NEW T, S \subseteq T, NEW s \in Seq(S)
    PROVE  s \in Seq(T)
  OBVIOUS

LEMMA SeqElements ==
    ASSUME NEW S, NEW s \in Seq(S)
    PROVE  \A m \in DOMAIN s : s[m] \in S
  OBVIOUS

(* Moving the innermost loop on changes one loop index and nothing else.   *)
LEMMA AdvancedFacts ==
    ASSUME TypeOK, frames # <<>>
    PROVE  /\ Len(frames) \in DOMAIN frames /\ DOMAIN frames = 1..Len(frames)
           /\ Top = frames[Len(frames)] /\ Top \in FrameType
           /\ Advanced \in Seq(FrameType)
           /\ DOMAIN Advanced = DOMAIN frames /\ Len(Advanced) = Len(frames)
           /\ \A m \in DOMAIN frames :
                 /\ Advanced[m].path = frames[m].path
                 /\ Advanced[m].alias = frames[m].alias
                 /\ Advanced[m].next =
                        IF m = Len(frames) THEN frames[m].next + 1 ELSE frames[m].next
<1>1. frames \in Seq(FrameType)
  BY DEF TypeOK
<1>2. Len(frames) \in DOMAIN frames /\ DOMAIN frames = 1..Len(frames) /\ Len(frames) \in Nat
  BY <1>1
<1>3. Top = frames[Len(frames)] /\ Top \in FrameType
  BY <1>1, <1>2 DEF Top, Last
<1>4. Advanced = [frames EXCEPT ![Len(frames)] =
                     [frames[Len(frames)] EXCEPT !.next = frames[Len(frames)].next + 1]]
  BY DEF Advanced
<1>5. [frames[Len(frames)] EXCEPT !.next = frames[Len(frames)].next + 1] \in FrameType
  BY <1>3 DEF FrameType
<1>6. \A m \in DOMAIN frames : frames[m] \in FrameType
  BY <1>1
<1>7. Advanced \in Seq(FrameType)
  BY <1>1, <1>2, <1>4, <1>5
<1>8. DOMAIN Advanced = DOMAIN frames /\ Len(Advanced) = Len(frames)
  BY <1>1, <1>2, <1>4, <1>7
<1>9. ASSUME NEW m \in DOMAIN frames
      PROVE  /\ Advanced[m].path = frames[m].path
             /\ Advanced[m].alias = frames[m].alias
             /\ Advanced[m].next =
                    IF m = Len(frames) THEN frames[m].next + 1 ELSE frames[m].next
  <2>1. frames[m] = [path |-> frames[m].path, alias |-> frames[m].alias, next |-> frames[m].next]
    BY <1>6 DEF FrameType
  <2>2. CASE m = Len(frames)
    <3>1. Advanced[m] = [frames[m] EXCEPT !.next = frames[m].next + 1]
      BY <1>4, <2>2, <1>2
    <3> QED BY <3>1, <2>1, <2>2
  <2>3. CASE m # Len(frames)
    BY <1>4, <2>3, <1>2
  <2> QED BY <2>2, <2>3
<1> QED BY <1>2, <1>3, <1>7, <1>8, <1>9

LEMMA InitIInv == Init => IInv
<1> SUFFICES ASSUME Init PROVE IInv
  OBVIOUS
<1>1. DOMAIN frames = {} /\ DOMAIN program = {} /\ Loaded = {}
  BY DEF Init, Loaded, ToSet
<1>2. TypeOK
  BY <1>1 DEF Init, TypeOK
<1> QED
  BY <1>1, <1>2 DEF Init, IInv, StartsEmpty, LoadedReadable, FramesDistinct, PushedIsPassed,
     EntriesOwn, PassedImportsLoaded, PassedPushed, EachDeclarationOnce
(***************************************************************************)
(* A call of load_file(P, a) from the stack B preserves the invariant, if  *)
(* B itself satisfies it but for one import that leads to P.               *)
(***************************************************************************)
LEMMA LoadFilePreserves ==
    ASSUME IInv,
           NEW P \in PathType, NEW a \in Aliases \cup {None}, NEW B \in Seq(FrameType),
           LoadFile(P, a, B),
           UNCHANGED <<tree, program>>,
           \/ status = "start" /\ B = <<>>
           \/ status = "running" /\ B # <<>>,
           \A j, k \in DOMAIN B : B[j].path = B[k].path => j = k,
           \A k \in DOMAIN program : Passed(B, program[k].path, program[k].idx),
           \A p \in Loaded : \A i \in ImportIndices(tree, p) :
               Passed(B, p, i) => ImportedBy(tree, p, i) \in Loaded \cup {P},
           \A p \in Loaded : \A i \in OwnIndices(tree, p) :
               Passed(B, p, i) => <<p, i>> \in Emitted(program)
    PROVE  IInv'
<1>0. /\ tree \in Trees /\ loaded \in Seq(PathType) /\ program \in Seq(EntryType)
      /\ tree' = tree /\ program' = program
      /\ Emitted(program)' = Emitted(program)
      /\ StartsEmpty
  BY DEF IInv, TypeOK, Emitted
<1>1. \A m \in DOMAIN B : B[m] \in FrameType /\ B[m].path \in Loaded
  <2>1. \A m \in DOMAIN B : B[m] \in FrameType
    BY SeqElements
  <2> QED BY <2>1 DEF FrameType
<1>2. \A p \in Loaded : Readable(tree, p)
  BY DEF IInv, LoadedReadable
<1>3. \A k \in DOMAIN program : program[k] \in EntryType /\ program[k].path \in Loaded
  <2>1. \A k \in DOMAIN program : program[k] \in EntryType
    BY <1>0, SeqElements
  <2> QED BY <2>1 DEF EntryType
<1>4. EachDeclarationOnce' /\ EntriesOwn'
  BY <1>0 DEF IInv, EachDeclarationOnce, EntriesOwn
<1>5. CASE P \in Loaded
  <2>1. frames' = B /\ loaded' = loaded /\ status' = status
    BY <1>5 DEF LoadFile, Loaded
  <2>2. Loaded' = Loaded /\ FrameType' = FrameType /\ EntryType' = EntryType
    BY <2>1 DEF Loaded, FrameType, EntryType
  <2>3. status = "running" /\ B # <<>>
    <3>1. loaded # <<>>
      BY <1>5 DEF Loaded, ToSet
    <3> QED BY <3>1, <1>0 DEF StartsEmpty
  <2>4. TypeOK'
    BY <1>0, <2>1, <2>2, <2>3 DEF TypeOK
  <2>5. StartsEmpty'
    BY <2>1, <2>3 DEF StartsEmpty
  <2>6. LoadedReadable'
    BY <1>0, <1>2, <2>2 DEF LoadedReadable
  <2>7. FramesDistinct' /\ PushedIsPassed'
    BY <1>0, <2>1 DEF FramesDistinct, PushedIsPassed, Passed
  <2>8. PassedImportsLoaded'
    BY <1>0, <1>5, <2>1, <2>2 DEF PassedImportsLoaded, Passed
  <2>9. PassedPushed'
    BY <1>0, <2>1, <2>2 DEF PassedPushed, Passed
  <2> QED BY <1>4, <2>4, <2>5, <2>6, <2>7, <2>8, <2>9 DEF IInv
<1>6. CASE P \notin Loaded
  <2>1. loaded' = Append(loaded, P) /\ loaded' \in Seq(PathType)
    <3>1. loaded' = Append(loaded, P)
      BY <1>6 DEF LoadFile, Loaded
    <3> QED BY <1>0, <3>1
  <2>2. Loaded' = Loaded \cup {P}
    BY <1>0, <2>1, ToSetAppend DEF Loaded
  <2>3. FrameType \subseteq FrameType' /\ EntryType \subseteq EntryType'
    BY <2>2 DEF FrameType, EntryType
  <2>4. program' \in Seq(EntryType')
    BY <1>0, <2>3, SeqMonotone
  <2>5. B \in Seq(FrameType')
    BY <2>3, SeqMonotone
  <2>6. CASE Readable(tree, P)
    <3> DEFINE f == Frame(P, a)
    <3>1. frames' = Append(B, f) /\ status' = "running"
      BY <1>6, <2>6 DEF LoadFile, Loaded
    <3>2. f \in FrameType' /\ f.path = P /\ f.next = 1
      BY <2>2 DEF Frame, FrameType
    <3>3. frames' \in Seq(FrameType') /\ frames' # <<>>
      BY <2>5, <3>1, <3>2
    <3>4. /\ Len(B) \in Nat /\ DOMAIN B = 1..Len(B) /\ DOMAIN frames' = 1..(Len(B) + 1)
          /\ \A m \in 1..Len(B) : frames'[m] = B[m]
          /\ frames'[Len(B) + 1] = f
      BY <3>1
    <3>5. \A m \in 1..Len(B) : frames'[m].path \in Loaded /\ frames'[m].path # P
      BY <1>1, <1>6, <3>4
    <3>6. TypeOK'
      BY <1>0, <2>1, <2>4, <3>1, <3>3 DEF TypeOK
    <3>7. StartsEmpty'
      BY <3>1 DEF StartsEmpty
    <3>8. LoadedReadable'
      BY <1>0, <1>2, <2>2, <2>6 DEF LoadedReadable
    <3>9. FramesDistinct'
      BY <3>2, <3>4, <3>5 DEF FramesDistinct
    <3>10. PushedIsPassed'
      BY <1>0, <1>3, <1>6, <3>2, <3>4, <3>5 DEF PushedIsPassed, Passed
    <3>11. ASSUME NEW p \in Loaded', NEW i, Passed(frames, p, i)'
           PROVE  /\ p = P => i < 1
                  /\ p # P => p \in Loaded /\ Passed(B, p, i)
      BY <2>2, <3>2, <3>4, <3>11 DEF Passed
    <3>12. \A i \in ImportIndices(tree, P) \cup OwnIndices(tree, P) : ~(i < 1)
      BY <1>0, <2>6, DeclsIndexed
    <3>13. PassedImportsLoaded'
      BY <1>0, <2>2, <3>11, <3>12 DEF PassedImportsLoaded
    <3>14. PassedPushed'
      BY <1>0, <2>2, <3>11, <3>12 DEF PassedPushed
    <3> QED BY <1>4, <3>6, <3>7, <3>8, <3>9, <3>10, <3>13, <3>14 DEF IInv
  <2>7. CASE ~Readable(tree, P)
    <3>1. frames' = B /\ status' = "fatal"
      BY <1>6, <2>7 DEF LoadFile, Loaded
    <3>2. TypeOK'
      BY <1>0, <2>1, <2>4, <2>5, <3>1 DEF TypeOK
    <3>3. FramesDistinct' /\ PushedIsPassed'
      BY <1>0, <3>1 DEF FramesDistinct, PushedIsPassed, Passed
    <3> QED
      BY <1>4, <3>1, <3>2, <3>3
      DEF IInv, StartsEmpty, LoadedReadable, PassedImportsLoaded, PassedPushed
  <2> QED BY <2>6, <2>7
<1> QED BY <1>5, <1>6
LEMMA LoadMainPreserves == IInv /\ LoadMain => IInv'
<1> SUFFICES ASSUME IInv, LoadMain PROVE IInv'
  OBVIOUS
<1>1. status = "start" /\ loaded = <<>> /\ program = <<>>
  BY DEF LoadMain, IInv, StartsEmpty
<1>2. Loaded = {} /\ DOMAIN program = {}
  BY <1>1 DEF Loaded, ToSet
<1>3. LoadFile(Main, None, <<>>) /\ UNCHANGED <<tree, program>>
  BY DEF LoadMain
<1>4. <<>> \in Seq(FrameType) /\ Main \in PathType /\ None \in Aliases \cup {None}
  BY PathsAssumption
<1> QED BY <1>1, <1>2, <1>3, <1>4, LoadFilePreserves

(* What the four actions of the loop know of the innermost frame.          *)
LEMMA InnermostFrame ==
    ASSUME IInv, status = "running"
    PROVE  /\ frames # <<>> /\ Top.path \in Loaded /\ Top.path \in PathType
           /\ Top.next \in Nat \ {0} /\ Top.alias \in Aliases \cup {None}
           /\ tree \in Trees /\ Readable(tree, Top.path)
<1>1. frames # <<>> /\ tree \in Trees /\ loaded \in Seq(PathType)
  BY DEF IInv, TypeOK
<1>2. Top \in FrameType
  BY <1>1, AdvancedFacts DEF IInv
<1>3. Top.path \in Loaded
  BY <1>2 DEF FrameType
<1>4. Top.path \in PathType
  BY <1>1, <1>3, SeqElements DEF Loaded, ToSet
<1> QED BY <1>1, <1>2, <1>3, <1>4 DEF IInv, LoadedReadable, FrameType

(***************************************************************************)
(* Advancing the innermost loop passes one more declaration of its file    *)
(* and no other declaration.                                               *)
(***************************************************************************)
LEMMA AdvancedPasses ==
    ASSUME IInv, status = "running"
    PROVE  /\ \A j, k \in DOMAIN Advanced : Advanced[j].path = Advanced[k].path => j = k
           /\ \A p, i : Passed(frames, p, i) /\ i \in Nat => Passed(Advanced, p, i)
           /\ \A p, i : Passed(Advanced, p, i) /\ i \in Nat =>
                 Passed(frames, p, i) \/ (p = Top.path /\ i = Top.next)
           /\ Passed(Advanced, Top.path, Top.next)
<1>0. frames # <<>> /\ TypeOK /\ frames \in Seq(FrameType)
  BY InnermostFrame DEF IInv, TypeOK
<1> DEFINE n == Len(frames)
<1>1. /\ n \in DOMAIN frames /\ DOMAIN Advanced = DOMAIN frames /\ Top = frames[n]
      /\ \A m \in DOMAIN frames :
            /\ Advanced[m].path = frames[m].path
            /\ Advanced[m].next = IF m = n THEN frames[m].next + 1 ELSE frames[m].next
  BY <1>0, AdvancedFacts
<1>2. \A m \in DOMAIN frames : frames[m].next \in Nat
  <2>1. \A m \in DOMAIN frames : frames[m] \in FrameType
    BY <1>0, SeqElements
  <2> QED BY <2>1 DEF FrameType
<1>3. \A j, k \in DOMAIN frames : frames[j].path = frames[k].path => j = k
  BY DEF IInv, FramesDistinct
<1>4. \A j, k \in DOMAIN Advanced : Advanced[j].path = Advanced[k].path => j = k
  BY <1>1, <1>3
<1>5. ASSUME NEW p, NEW i \in Nat, Passed(frames, p, i)
      PROVE  Passed(Advanced, p, i)
  BY <1>1, <1>2, <1>5 DEF Passed
<1>6. ASSUME NEW p, NEW i \in Nat, Passed(Advanced, p, i), ~Passed(frames, p, i)
      PROVE  p = Top.path /\ i = Top.next
  <2>1. PICK m \in DOMAIN frames : frames[m].path = p /\ ~(i < frames[m].next)
    BY <1>6 DEF Passed
  <2>2. i < Advanced[m].next
    BY <1>1, <1>6, <2>1 DEF Passed
  <2>3. m = n
    BY <1>1, <2>1, <2>2
  <2> QED BY <1>1, <1>2, <2>1, <2>2, <2>3
<1>7. Passed(Advanced, Top.path, Top.next)
  BY <1>1, <1>2, <1>3 DEF Passed
<1> QED BY <1>4, <1>5, <1>6, <1>7

LEMMA ImportPreserves == IInv /\ Import => IInv'
<1> SUFFICES ASSUME IInv, Import PROVE IInv'
  OBVIOUS
<1>1. /\ status = "running" /\ Top.next <= Len(Source) /\ IsImport(Current)
      /\ UNCHANGED <<tree, program>>
  BY DEF Import, InLoop
<1> DEFINE P == ImportedBy(tree, Top.path, Top.next)
<1>2. LoadFile(P, Current.alias, Advanced)
  BY DEF Import
<1>3. /\ Top.path \in Loaded /\ Top.path \in PathType /\ Top.next \in Nat
      /\ tree \in Trees /\ Readable(tree, Top.path) /\ frames # <<>> /\ TypeOK
  BY <1>1, InnermostFrame DEF IInv
<1>4. \A p \in Loaded : \A i \in ImportIndices(tree, p) \cup OwnIndices(tree, p) : i \in Nat
  <2>1. \A p \in Loaded : Readable(tree, p)
    BY <1>1 DEF IInv, LoadedReadable
  <2> QED BY <1>3, <2>1, DeclsIndexed
<1>5. Top.next \in DOMAIN Decls(tree, Top.path) => Top.next \in ImportIndices(tree, Top.path)
  BY <1>1 DEF Current, Source, ImportIndices
<1>6. Top.next \notin OwnIndices(tree, Top.path)
  BY <1>5 DEF OwnIndices
<1>7. P \in PathType /\ Current.alias \in Aliases
  <2>1. Top.next \in 1..Len(Source)
    BY <1>1, <1>3, InnermostFrame, DeclsIndexed DEF Source
  <2> QED BY <2>1, <1>3, <1>5, DeclsIndexed, ImportType DEF Source, Current
<1>8. Advanced \in Seq(FrameType) /\ Advanced # <<>>
  BY <1>3, AdvancedFacts
<1>9. \A k \in DOMAIN program : Passed(Advanced, program[k].path, program[k].idx)
  <2>1. \A k \in DOMAIN program : program[k].idx \in Nat
    <3>1. \A k \in DOMAIN program : program[k] \in EntryType
      BY <1>3, SeqElements DEF TypeOK
    <3> QED BY <3>1 DEF EntryType
  <2> QED BY <1>1, <2>1, AdvancedPasses DEF IInv, PushedIsPassed
<1>10. ASSUME NEW p \in Loaded, NEW i \in ImportIndices(tree, p), Passed(Advanced, p, i)
       PROVE  ImportedBy(tree, p, i) \in Loaded \cup {P}
  <2>1. CASE Passed(frames, p, i)
    BY <1>1, <2>1 DEF IInv, PassedImportsLoaded
  <2>2. CASE ~Passed(frames, p, i)
    BY <1>1, <1>4, <1>10, <2>2, AdvancedPasses
  <2> QED BY <2>1, <2>2
<1>11. ASSUME NEW p \in Loaded, NEW i \in OwnIndices(tree, p), Passed(Advanced, p, i)
       PROVE  <<p, i>> \in Emitted(program)
  <2>1. Passed(frames, p, i)
    BY <1>1, <1>4, <1>6, <1>11, AdvancedPasses
  <2> QED BY <1>1, <2>1 DEF IInv, PassedPushed
<1>12. \A j, k \in DOMAIN Advanced : Advanced[j].path = Advanced[k].path => j = k
  BY <1>1, AdvancedPasses
<1> HIDE DEF P
<1> QED BY <1>1, <1>2, <1>7, <1>8, <1>9, <1>10, <1>11, <1>12, LoadFilePreserves

LEMMA PushPreserves == IInv /\ Push => IInv'
<1> SUFFICES ASSUME IInv, Push PROVE IInv'
  OBVIOUS
<1> DEFINE e == Entry(Top, Current)
<1>1. /\ status = "running" /\ Top.next <= Len(Source) /\ ~IsImport(Current)
      /\ program' = Append(program, e) /\ frames' = Advanced
      /\ tree' = tree /\ status' = status /\ loaded' = loaded
  BY DEF Push, InLoop
<1>2. /\ Top.path \in Loaded /\ Top.next \in Nat \ {0} /\ Top.alias \in Aliases \cup {None}
      /\ tree \in Trees /\ Readable(tree, Top.path) /\ frames # <<>> /\ TypeOK
  BY <1>1, InnermostFrame DEF IInv
<1>3. /\ Loaded' = Loaded /\ FrameType' = FrameType /\ EntryType' = EntryType
  BY <1>1 DEF Loaded, FrameType, EntryType
<1>4. e.path = Top.path /\ e.idx = Top.next /\ e \in EntryType
  BY <1>2 DEF Entry, EntryType
<1>5. /\ program \in Seq(EntryType) /\ Len(program) \in Nat /\ DOMAIN program = 1..Len(program)
      /\ program' \in Seq(EntryType) /\ DOMAIN program' = 1..(Len(program) + 1)
      /\ \A k \in DOMAIN program : program'[k] = program[k]
      /\ program'[Len(program) + 1] = e
  <2>1. program \in Seq(EntryType)
    BY <1>2 DEF TypeOK
  <2> HIDE DEF e
  <2> QED BY <1>1, <1>4, <2>1
<1>6. \A k \in DOMAIN program : program[k].path \in Loaded /\ program[k].idx \in Nat
  <2>1. \A k \in DOMAIN program : program[k] \in EntryType
    BY <1>5, SeqElements
  <2> QED BY <2>1 DEF EntryType
<1>7. Top.next \in OwnIndices(tree, Top.path)
  <2>1. Top.next \in DOMAIN Decls(tree, Top.path)
    BY <1>1, <1>2, DeclsIndexed DEF Source
  <2> QED BY <1>1, <2>1 DEF OwnIndices, ImportIndices, Current, Source
<1>8. Top.next \notin ImportIndices(tree, Top.path)
  BY <1>7 DEF OwnIndices
<1>9. frames' \in Seq(FrameType) /\ frames' # <<>>
  BY <1>1, <1>2, AdvancedFacts
<1>10. TypeOK'
  BY <1>1, <1>2, <1>3, <1>5, <1>9 DEF TypeOK
<1>11. StartsEmpty' /\ LoadedReadable'
  BY <1>1, <1>3 DEF IInv, StartsEmpty, LoadedReadable
<1>12. FramesDistinct'
  BY <1>1, AdvancedPasses DEF FramesDistinct
<1>13. PushedIsPassed'
  <2>1. \A k \in DOMAIN program : Passed(Advanced, program[k].path, program[k].idx)
    BY <1>1, <1>6, AdvancedPasses DEF IInv, PushedIsPassed
  <2>2. Passed(Advanced, e.path, e.idx)
    BY <1>1, <1>4, AdvancedPasses
  <2> HIDE DEF e
  <2>3. \A k \in DOMAIN program' : Passed(frames', program'[k].path, program'[k].idx)
    BY <1>1, <1>5, <2>1, <2>2
  <2> QED BY <2>3 DEF PushedIsPassed, Passed
<1>14. EntriesOwn'
  <2> HIDE DEF e
  <2> QED BY <1>1, <1>4, <1>5, <1>7 DEF IInv, EntriesOwn
<1>15. \A p, i : <<p, i>> \in Emitted(program)' <=>
               <<p, i>> \in Emitted(program) \/ (p = Top.path /\ i = Top.next)
  <2> HIDE DEF e
  <2> QED BY <1>4, <1>5 DEF Emitted
<1>16. \A p \in Loaded : \A i \in ImportIndices(tree, p) \cup OwnIndices(tree, p) : i \in Nat
  BY <1>1, <1>2, DeclsIndexed DEF IInv, LoadedReadable
<1>17. ASSUME NEW p, NEW i, Passed(frames, p, i)', i \in Nat
       PROVE  Passed(frames, p, i) \/ (p = Top.path /\ i = Top.next)
  <2>1. Passed(Advanced, p, i)
    BY <1>1, <1>17 DEF Passed
  <2> QED BY <1>1, <1>17, <2>1, AdvancedPasses
<1>18. PassedImportsLoaded'
  BY <1>1, <1>3, <1>8, <1>16, <1>17 DEF IInv, PassedImportsLoaded
<1>19. PassedPushed'
  BY <1>1, <1>3, <1>15, <1>16, <1>17 DEF IInv, PassedPushed
<1>20. EachDeclarationOnce'
  <2>1. \A k \in DOMAIN program : program[k].path = Top.path => program[k].idx < Top.next
    <3>1. Len(frames) \in DOMAIN frames /\ Top = frames[Len(frames)]
      BY <1>2, AdvancedFacts
    <3> QED BY <3>1 DEF IInv, PushedIsPassed, Passed
  <2>2. \A k \in DOMAIN program : ~(program[k].path = e.path /\ program[k].idx = e.idx)
    BY <1>2, <1>4, <1>6, <2>1
  <2> HIDE DEF e
  <2> QED BY <1>5, <2>2 DEF IInv, EachDeclarationOnce
<1> QED
  BY <1>10, <1>11, <1>12, <1>13, <1>14, <1>18, <1>19, <1>20 DEF IInv
(* When the innermost loop has ended, dropping its frame passes nothing    *)
(* that was not passed already.                                            *)
LEMMA ReturnPasses ==
    ASSUME IInv, status = "running", Top.next > Len(Source),
           NEW p \in Loaded, NEW i \in ImportIndices(tree, p) \cup OwnIndices(tree, p)
    PROVE  Passed(Front(frames), p, i) => Passed(frames, p, i)
<1> DEFINE n == Len(frames)
<1>1. /\ frames # <<>> /\ TypeOK /\ tree \in Trees /\ Readable(tree, p)
      /\ Readable(tree, Top.path)
  BY InnermostFrame DEF IInv, LoadedReadable
<1>2. /\ frames \in Seq(FrameType) /\ n \in Nat \ {0} /\ DOMAIN frames = 1..n
      /\ Top = frames[n] /\ Top.next \in Nat
  BY <1>1, AdvancedFacts, InnermostFrame DEF TypeOK
<1>3. DOMAIN Front(frames) = 1..(n - 1) /\ \A m \in 1..(n - 1) : Front(frames)[m] = frames[m]
  BY <1>2 DEF Front
<1>4. i \in 1..Len(Decls(tree, p))
  BY <1>1, DeclsIndexed
<1>5. p = Top.path => i < frames[n].next
  <2>1. Len(Source) \in Nat
    BY <1>1, DeclsIndexed DEF Source
  <2> QED BY <1>2, <1>4, <2>1 DEF Source
<1>6. ASSUME Passed(Front(frames), p, i), NEW m \in DOMAIN frames, frames[m].path = p
      PROVE  i < frames[m].next
  <2>1. CASE m = n
    BY <1>2, <1>5, <1>6, <2>1
  <2>2. CASE m # n
    BY <1>2, <1>3, <1>6, <2>2 DEF Passed
  <2> QED BY <2>1, <2>2
<1> QED BY <1>6 DEF Passed

LEMMA ReturnPreserves == IInv /\ Return => IInv'
<1> SUFFICES ASSUME IInv, Return PROVE IInv'
  OBVIOUS
<1>1. /\ status = "running" /\ Top.next > Len(Source) /\ frames' = Front(frames)
      /\ status' = IF Len(frames) = 1 THEN "done" ELSE "running"
      /\ tree' = tree /\ loaded' = loaded /\ program' = program
  BY DEF Return
<1>2. /\ Loaded' = Loaded /\ FrameType' = FrameType /\ EntryType' = EntryType
      /\ Emitted(program)' = Emitted(program)
  BY <1>1 DEF Loaded, FrameType, EntryType, Emitted
<1>3. frames # <<>> /\ TypeOK /\ frames \in Seq(FrameType)
  BY <1>1, InnermostFrame DEF IInv, TypeOK
<1>4. /\ Len(frames) \in Nat \ {0} /\ frames' \in Seq(FrameType)
      /\ DOMAIN frames' = 1..(Len(frames) - 1) /\ DOMAIN frames' \subseteq DOMAIN frames
      /\ Len(frames') = Len(frames) - 1
      /\ \A m \in DOMAIN frames' : frames'[m] = frames[m]
  <2>1. Len(frames) \in Nat \ {0} /\ DOMAIN frames = 1..Len(frames)
    BY <1>3
  <2>2. frames' = SubSeq(frames, 1, Len(frames) - 1)
    BY <1>1 DEF Front
  <2>3. frames' \in Seq(FrameType) /\ Len(frames') = Len(frames) - 1
    BY <1>3, <2>1, <2>2
  <2>4. \A m \in 1..(Len(frames) - 1) : frames'[m] = frames[m]
    BY <1>3, <2>1, <2>2
  <2> QED BY <2>1, <2>3, <2>4
<1>5. Len(frames) = 1 => frames' = <<>>
  BY <1>4
<1>6. TypeOK'
  BY <1>1, <1>2, <1>3, <1>4 DEF TypeOK
<1>7. StartsEmpty' /\ LoadedReadable'
  BY <1>1, <1>2, <1>5 DEF IInv, StartsEmpty, LoadedReadable
<1>8. FramesDistinct' /\ PushedIsPassed'
  BY <1>1, <1>4 DEF IInv, FramesDistinct, PushedIsPassed, Passed
<1>9. EntriesOwn' /\ EachDeclarationOnce'
  BY <1>1 DEF IInv, EntriesOwn, EachDeclarationOnce
<1>10. \A p \in Loaded : \A i \in ImportIndices(tree, p) \cup OwnIndices(tree, p) :
          Passed(frames, p, i)' => Passed(frames, p, i)
  BY <1>1, ReturnPasses DEF Passed
<1>11. PassedImportsLoaded' /\ PassedPushed'
  BY <1>1, <1>2, <1>10 DEF IInv, PassedImportsLoaded, PassedPushed
<1> QED BY <1>6, <1>7, <1>8, <1>9, <1>11 DEF IInv

LEMMA StepPreserves == IInv /\ [Next]_vars => IInv'
<1> SUFFICES ASSUME IInv, [Next]_vars PROVE IInv'
  OBVIOUS
<1>1. CASE LoadMain
  BY <1>1, LoadMainPreserves
<1>2. CASE Import
  BY <1>2, ImportPreserves
<1>3. CASE Push
  BY <1>3, PushPreserves
<1>4. CASE Return
  BY <1>4, ReturnPreserves
<1>5. CASE UNCHANGED vars
  <2>1. /\ Loaded' = Loaded /\ FrameType' = FrameType /\ EntryType' = EntryType
        /\ Emitted(program)' = Emitted(program)
    BY <1>5 DEF vars, Loaded, FrameType, EntryType, Emitted
  <2>2. TypeOK' /\ StartsEmpty' /\ LoadedReadable'
    BY <1>5, <2>1 DEF vars, IInv, TypeOK, StartsEmpty, LoadedReadable
  <2>3. FramesDistinct' /\ PushedIsPassed' /\ EntriesOwn' /\ EachDeclarationOnce'
    BY <1>5, <2>1
    DEF vars, IInv, FramesDistinct, PushedIsPassed, EntriesOwn, EachDeclarationOnce, Passed
  <2>4. PassedImportsLoaded' /\ PassedPushed'
    BY <1>5, <2>1 DEF vars, IInv, PassedImportsLoaded, PassedPushed, Passed
  <2> QED BY <2>2, <2>3, <2>4 DEF IInv
<1> QED BY <1>1, <1>2, <1>3, <1>4, <1>5 DEF Next

THEOREM Invariance == Spec => []IInv
  BY InitIInv, StepPreserves, PTL DEF Spec

(* The resolver's variables keep their types, whatever the source tree.    *)
THEOREM TypeCorrect == Spec => []TypeOK
  BY Invariance, PTL DEF IInv

(* No declaration is pushed twice, whatever the imports of the tree: the   *)
(* early return of load_file and the recording of a path before its loop   *)
(* are enough.                                                             *)
THEOREM DeclarationsOnce == Spec => []EachDeclarationOnce
  BY Invariance, PTL DEF IInv
-------------------------------------------------------------------------------
(***************************************************************************)
(* What the recursion adds to that: the calls in progress are a chain of   *)
(* imports, each under the alias of its frame, and what lies before an     *)
(* entry of the program came from the imports above it.                    *)
(***************************************************************************)
MainLoaded == status # "start" => Main \in Loaded

(* The alias of a call is one by which the path can be called.             *)
Gives(path, alias) ==
    IF path = Main THEN alias = None
    ELSE \E q \in Loaded : \E i \in ImportIndices(tree, q) :
            ImportedBy(tree, q, i) = path /\ Decls(tree, q)[i].alias = alias

FramesCallable == \A m \in DOMAIN frames : Gives(frames[m].path, frames[m].alias)

(* A file being loaded is reached from all those whose load is waiting.    *)
CallersReach ==
    \A j, k \in DOMAIN frames : j <= k => frames[k].path \in ReachedFrom(frames[j].path)

(* DependenciesFirst, as a fact about the program so far.                  *)
DependenciesBefore ==
    \A k \in DOMAIN program : \A i \in ImportIndices(tree, program[k].path) :
        \A c \in {ImportedBy(tree, program[k].path, i)} :
        i < program[k].idx /\ program[k].path \notin ReachedFrom(c) =>
            \A j \in OwnIndices(tree, c) :
                \E m \in 1..(k - 1) : program[m].path = c /\ program[m].idx = j

Order ==
    /\ MainLoaded
    /\ FramesCallable
    /\ CallableByItsAlias
    /\ CallersReach
    /\ DependenciesBefore

(* Reachability begins at the file itself and is closed under imports.     *)
LEMMA ReachSelf ==
    ASSUME NEW p \in Loaded
    PROVE  p \in ReachedFrom(p)
  BY DEF ReachedFrom

LEMMA ReachStep ==
    ASSUME NEW p \in Loaded, NEW q \in ReachedFrom(p), NEW c \in ImportsOf(q) \cap Loaded
    PROVE  c \in ReachedFrom(p)
  BY DEF ReachedFrom

(* It grows with the set of loaded paths.                                  *)
LEMMA ReachGrows ==
    ASSUME tree' = tree, Loaded \subseteq Loaded', NEW p \in Loaded, NEW q \in ReachedFrom(p)
    PROVE  q \in ReachedFrom(p)'
<1> SUFFICES ASSUME NEW S \in SUBSET Loaded', p \in S,
                    \A r \in S : ImportsOf(r)' \cap Loaded' \subseteq S
             PROVE  q \in S
  BY DEF ReachedFrom
<1> DEFINE T == S \cap Loaded
<1>1. \A r : ImportsOf(r)' = ImportsOf(r)
  BY DEF ImportsOf
<1>2. T \in SUBSET Loaded /\ p \in T /\ \A r \in T : ImportsOf(r) \cap Loaded \subseteq T
  BY <1>1
<1>3. q \in T
  <2> HIDE DEF T
  <2> QED BY <1>2 DEF ReachedFrom
<1> QED BY <1>3

(* While the loop runs nothing of what an entry depends on is unknown.     *)
LEMMA DependencyLoaded ==
    ASSUME IInv, status # "fatal", NEW k \in DOMAIN program,
           NEW i \in ImportIndices(tree, program[k].path), i < program[k].idx
    PROVE  ImportedBy(tree, program[k].path, i) \in Loaded /\ program[k].path \in Loaded
<1>1. program[k].path \in Loaded /\ program[k].idx \in Nat
  <2>1. program[k] \in EntryType
    BY SeqElements DEF IInv, TypeOK
  <2> QED BY <2>1 DEF EntryType
<1>2. i \in Nat
  BY <1>1, DeclsIndexed DEF IInv, LoadedReadable, TypeOK
<1>3. \A m \in DOMAIN frames : frames[m].next \in Nat
  <2>1. \A m \in DOMAIN frames : frames[m] \in FrameType
    BY SeqElements DEF IInv, TypeOK
  <2> QED BY <2>1 DEF FrameType
<1>4. Passed(frames, program[k].path, i)
  BY <1>1, <1>2, <1>3 DEF IInv, PushedIsPassed, Passed
<1> QED BY <1>1, <1>4 DEF IInv, PassedImportsLoaded

(* Loading more, and pushing nothing, changes nothing for the program.     *)
LEMMA ProgramStays ==
    ASSUME IInv, Order, status # "fatal", tree' = tree, program' = program, Loaded \subseteq Loaded'
    PROVE  CallableByItsAlias' /\ DependenciesBefore'
<1>1. CallableByItsAlias'
  BY DEF Order, CallableByItsAlias
<1>2. DependenciesBefore'
  BY ReachGrows, DependencyLoaded DEF Order, DependenciesBefore
<1> QED BY <1>1, <1>2

LEMMA GivesGrows ==
    ASSUME tree' = tree, Loaded \subseteq Loaded', NEW p, NEW a, Gives(p, a)
    PROVE  Gives(p, a)'
  BY DEF Gives

LEMMA InitOrder == Init => Order
<1> SUFFICES ASSUME Init PROVE Order
  OBVIOUS
<1>1. DOMAIN frames = {} /\ DOMAIN program = {}
  BY DEF Init
<1> QED
  BY <1>1 DEF Init, Order, MainLoaded, FramesCallable, CallableByItsAlias, CallersReach, DependenciesBefore

LEMMA LoadMainOrder == IInv /\ Order /\ LoadMain => Order'
<1> SUFFICES ASSUME IInv, Order, LoadMain PROVE Order'
  OBVIOUS
<1>1. status = "start" /\ loaded = <<>> /\ tree' = tree /\ program' = program
  BY DEF LoadMain, IInv, StartsEmpty
<1>2. Loaded = {}
  BY <1>1 DEF Loaded, ToSet
<1>3. loaded' = <<Main>> /\ frames' \in {<<>>, <<Frame(Main, None)>>}
  BY <1>1, <1>2 DEF LoadMain, LoadFile, Loaded
<1>4. Loaded' = {Main}
  BY <1>3 DEF Loaded, ToSet
<1>5. CallableByItsAlias' /\ DependenciesBefore'
  BY <1>1, <1>2, ProgramStays
<1>6. \A m \in DOMAIN frames' : m = 1 /\ frames'[m].path = Main /\ frames'[m].alias = None
  BY <1>3 DEF Frame
<1>7. FramesCallable'
  BY <1>6 DEF FramesCallable, Gives
<1>8. Main \in ReachedFrom(Main)'
  BY <1>4 DEF ReachedFrom
<1>9. CallersReach'
  BY <1>6, <1>8 DEF CallersReach
<1> QED BY <1>4, <1>5, <1>7, <1>9 DEF Order, MainLoaded

(***************************************************************************)
(* A new frame is of a path that the innermost one imports, under the      *)
(* alias of that import, so the chain of imports grows by one link.        *)
(***************************************************************************)
LEMMA ImportOrder == IInv /\ Order /\ Import => Order'
<1> SUFFICES ASSUME IInv, Order, Import PROVE Order'
  OBVIOUS
<1> DEFINE P == ImportedBy(tree, Top.path, Top.next)
           n == Len(frames)
<1>1. /\ status = "running" /\ Top.next <= Len(Source) /\ IsImport(Current)
      /\ tree' = tree /\ program' = program /\ LoadFile(P, Current.alias, Advanced)
  BY DEF Import, InLoop
<1>2. /\ frames # <<>> /\ Top.path \in Loaded /\ Top.next \in Nat \ {0} /\ TypeOK
      /\ tree \in Trees /\ Readable(tree, Top.path)
  BY <1>1, InnermostFrame DEF IInv
<1>3. Top.next \in ImportIndices(tree, Top.path) /\ Current.alias = Decls(tree, Top.path)[Top.next].alias
  BY <1>1, <1>2, DeclsIndexed DEF ImportIndices, Source, Current
<1>4. /\ n \in Nat /\ DOMAIN frames = 1..n /\ n \in 1..n /\ Top = frames[n]
      /\ Advanced \in Seq(FrameType) /\ DOMAIN Advanced = 1..n /\ Len(Advanced) = n
      /\ \A m \in 1..n : Advanced[m].path = frames[m].path /\ Advanced[m].alias = frames[m].alias
  BY <1>2, AdvancedFacts
<1>5. \A m \in 1..n : frames[m].path \in Loaded
  <2>1. \A m \in 1..n : frames[m] \in FrameType
    BY <1>2, <1>4, SeqElements DEF TypeOK
  <2> QED BY <2>1 DEF FrameType
<1>6. Main \in Loaded
  BY <1>1 DEF Order, MainLoaded
<1> HIDE DEF P, n
<1>7. CASE P \in Loaded
  <2>1. frames' = Advanced /\ loaded' = loaded /\ status' = status
    BY <1>1, <1>7 DEF LoadFile, Loaded
  <2>2. Loaded' = Loaded
    BY <2>1 DEF Loaded
  <2>3. CallableByItsAlias' /\ DependenciesBefore'
    BY <1>1, <2>2, ProgramStays
  <2>4. FramesCallable'
    BY <1>1, <1>4, <2>1, <2>2, GivesGrows DEF FramesCallable, Order
  <2>5. CallersReach'
    BY <1>1, <1>4, <1>5, <2>1, <2>2, ReachGrows DEF CallersReach, Order
  <2> QED BY <1>6, <2>2, <2>3, <2>4, <2>5 DEF Order, MainLoaded
<1>8. ASSUME P \notin Loaded,
             NEW p, p = P, NEW a, a = Current.alias, NEW y, y = Top.path
      PROVE  Order'
  <2>1. /\ loaded' = Append(loaded, p)
        /\ frames' = IF Readable(tree, p) THEN Append(Advanced, Frame(p, a)) ELSE Advanced
    BY <1>1, <1>8 DEF LoadFile, Loaded
  <2>2. Loaded' = Loaded \cup {p}
    BY <1>2, <2>1, ToSetAppend DEF Loaded, TypeOK
  <2>3. CallableByItsAlias' /\ DependenciesBefore'
    BY <1>1, <2>2, ProgramStays
  <2>4. /\ DOMAIN frames' \subseteq 1..(n + 1)
        /\ \A m \in 1..n : frames'[m].path = frames[m].path /\ frames'[m].alias = frames[m].alias
        /\ n + 1 \in DOMAIN frames' => frames'[n + 1].path = p /\ frames'[n + 1].alias = a
    <3>1. CASE Readable(tree, p)
      <4> DEFINE f == Frame(p, a)
      <4>1. f.path = p /\ f.alias = a
        BY DEF Frame
      <4> HIDE DEF f
      <4>2. /\ DOMAIN frames' = 1..(n + 1) /\ frames'[n + 1] = f
            /\ \A m \in 1..n : frames'[m] = Advanced[m]
        BY <1>4, <2>1, <3>1 DEF f
      <4> QED BY <1>4, <4>1, <4>2
    <3>2. CASE ~Readable(tree, p)
      BY <1>4, <2>1, <3>2
    <3> QED BY <3>1, <3>2
  <2>5. Gives(p, a)'
    <3>1. p # Main
      BY <1>6, <1>8
    <3>2. PICK i \in ImportIndices(tree, y) : ImportedBy(tree, y, i) = p /\ Decls(tree, y)[i].alias = a
      BY <1>3, <1>8 DEF P
    <3> QED BY <1>1, <1>2, <1>8, <2>2, <3>1, <3>2 DEF Gives
  <2>6. \A m \in 1..n : \A x, b : x = frames[m].path /\ b = frames[m].alias => Gives(x, b)'
    BY <1>1, <1>4, <2>2, GivesGrows DEF FramesCallable, Order
  <2>7. FramesCallable'
    <3>1. \A m \in DOMAIN frames' :
             \A x, b : x = frames'[m].path /\ b = frames'[m].alias => Gives(x, b)'
      BY <1>4, <2>4, <2>5, <2>6
    <3> QED BY <3>1 DEF FramesCallable
  <2>8. \A j, k \in 1..n : \A x, z : x = frames[j].path /\ z = frames[k].path /\ j <= k
                                      => z \in ReachedFrom(x)'
    BY <1>1, <1>4, <1>5, <2>2, ReachGrows DEF CallersReach, Order
  <2>9. p \in ImportsOf(y)'
    BY <1>1, <1>3, <1>8 DEF ImportsOf, P
  <2>10. \A j \in 1..n : \A x : x = frames[j].path => p \in ReachedFrom(x)'
    <3>1. \A j \in 1..n : \A x : x = frames[j].path => y \in ReachedFrom(x)'
      BY <1>4, <1>8, <2>8
    <3> QED BY <1>5, <2>2, <2>9, <3>1 DEF ReachedFrom
  <2>11. p \in ReachedFrom(p)'
    BY <2>2 DEF ReachedFrom
  <2>12. CallersReach'
    <3> SUFFICES ASSUME NEW j \in DOMAIN frames', NEW k \in DOMAIN frames', j <= k,
                        NEW x, x = frames'[j].path, NEW z, z = frames'[k].path
                 PROVE  z \in ReachedFrom(x)'
      BY DEF CallersReach
    <3>1. CASE k = n + 1
      BY <1>4, <2>4, <2>10, <2>11, <3>1
    <3>2. CASE k # n + 1
      BY <1>4, <2>4, <2>8, <3>2
    <3> QED BY <3>1, <3>2
  <2> QED BY <1>6, <2>2, <2>3, <2>7, <2>12 DEF Order, MainLoaded
<1> QED BY <1>7, <1>8

(* An import above the declaration being pushed leads to a file that is    *)
(* loaded, and has pushed all of its own unless it is waiting further up.  *)
LEMMA PushedAfterImports ==
    ASSUME IInv, Order, status = "running",
           NEW i \in ImportIndices(tree, Top.path), i < Top.next,
           Top.path \notin ReachedFrom(ImportedBy(tree, Top.path, i)),
           NEW j \in OwnIndices(tree, ImportedBy(tree, Top.path, i))
    PROVE  <<ImportedBy(tree, Top.path, i), j>> \in Emitted(program)
<1> DEFINE c == ImportedBy(tree, Top.path, i)
           n == Len(frames)
<1>1. /\ frames # <<>> /\ Top.path \in Loaded /\ TypeOK
  BY InnermostFrame DEF IInv
<1>2. n \in Nat /\ DOMAIN frames = 1..n /\ n \in 1..n /\ Top = frames[n]
  BY <1>1, AdvancedFacts
<1>3. Passed(frames, Top.path, i)
  BY <1>2 DEF Passed, IInv, FramesDistinct
<1>4. c \in Loaded
  BY <1>1, <1>3 DEF IInv, PassedImportsLoaded
<1>5. \A m \in 1..n : frames[m].path # c
  BY <1>2 DEF Order, CallersReach
<1>6. Passed(frames, c, j)
  BY <1>2, <1>5 DEF Passed
<1> QED BY <1>4, <1>6 DEF IInv, PassedPushed

LEMMA PushOrder == IInv /\ Order /\ Push => Order'
<1> SUFFICES ASSUME IInv, Order, Push PROVE Order'
  OBVIOUS
<1> DEFINE e == Entry(Top, Current)
           n == Len(program)
<1>1. /\ status = "running" /\ Top.next <= Len(Source) /\ ~IsImport(Current)
      /\ program' = Append(program, e) /\ frames' = Advanced
      /\ tree' = tree /\ status' = status /\ loaded' = loaded
  BY DEF Push, InLoop
<1>2. /\ frames # <<>> /\ Top.path \in Loaded /\ Top.next \in Nat \ {0} /\ TypeOK
  BY <1>1, InnermostFrame DEF IInv
<1>3. Loaded' = Loaded
  BY <1>1 DEF Loaded
<1>4. /\ e.path = Top.path /\ e.idx = Top.next
      /\ Current.kind = "func" => e.alias = Top.alias
      /\ Current = Decls(tree, Top.path)[Top.next]
  BY DEF Entry, Current, Source
<1>5. /\ n \in Nat /\ DOMAIN program = 1..n /\ DOMAIN program' = 1..(n + 1)
      /\ \A k \in 1..n : program'[k] = program[k]
      /\ program'[n + 1] = e
  <2>1. program \in Seq(EntryType)
    BY <1>2 DEF TypeOK
  <2> HIDE DEF e
  <2> QED BY <1>1, <2>1
<1>6. /\ DOMAIN Advanced = DOMAIN frames /\ Len(frames) \in DOMAIN frames /\ Top = frames[Len(frames)]
      /\ \A m \in DOMAIN frames : Advanced[m].path = frames[m].path /\ Advanced[m].alias = frames[m].alias
  BY <1>2, AdvancedFacts
<1> HIDE DEF e, n
<1>7. FramesCallable'
  BY <1>1, <1>3, <1>6, GivesGrows DEF FramesCallable, Order
<1>8. CallersReach'
  <2>1. \A m \in DOMAIN frames : frames[m].path \in Loaded
    <3>1. \A m \in DOMAIN frames : frames[m] \in FrameType
      BY <1>2, SeqElements DEF TypeOK
    <3> QED BY <3>1 DEF FrameType
  <2> QED BY <1>1, <1>3, <1>6, <2>1, ReachGrows DEF CallersReach, Order
<1>9. CallableByItsAlias'
  <2>1. Gives(Top.path, Top.alias)
    BY <1>6 DEF FramesCallable, Order
  <2>2. ASSUME NEW k \in 1..(n + 1), Decls(tree, program'[k].path)[program'[k].idx].kind = "func"
        PROVE  Gives(program'[k].path, program'[k].alias)
    <3>1. CASE k = n + 1
      BY <1>4, <1>5, <2>1, <2>2, <3>1
    <3>2. CASE k # n + 1
      BY <1>5, <2>2, <3>2 DEF Order, CallableByItsAlias, Gives
    <3> QED BY <3>1, <3>2
  <2> QED BY <1>1, <1>3, <1>5, <2>2 DEF CallableByItsAlias, Gives
<1>10. DependenciesBefore'
  <2> SUFFICES ASSUME NEW k \in DOMAIN program', NEW i \in ImportIndices(tree', program'[k].path),
                      NEW c, c = ImportedBy(tree', program'[k].path, i), i < program'[k].idx,
                      program'[k].path \notin ReachedFrom(c)',
                      NEW j \in OwnIndices(tree', c)
               PROVE  \E m \in 1..(k - 1) : program'[m].path = c /\ program'[m].idx = j
    BY DEF DependenciesBefore
  <2> DEFINE p == program'[k].path
  <2>1. p \notin ReachedFrom(c)
    BY <1>1, <1>3 DEF ReachedFrom, ImportsOf
  <2>2. CASE k = n + 1
    <3>1. <<c, j>> \in Emitted(program)
      BY <1>1, <1>4, <1>5, <2>1, <2>2, PushedAfterImports
    <3>2. PICK m \in 1..n : program[m].path = c /\ program[m].idx = j
      BY <1>5, <3>1 DEF Emitted
    <3> QED BY <1>5, <2>2, <3>2
  <2>3. CASE k # n + 1
    <3>1. k \in DOMAIN program /\ program'[k] = program[k]
      BY <1>5, <2>3
    <3>2. /\ i \in ImportIndices(tree, program[k].path) /\ c = ImportedBy(tree, program[k].path, i)
          /\ i < program[k].idx /\ program[k].path \notin ReachedFrom(c) /\ j \in OwnIndices(tree, c)
      BY <1>1, <2>1, <3>1
    <3>3. PICK m \in 1..(k - 1) : program[m].path = c /\ program[m].idx = j
      BY <3>1, <3>2 DEF Order, DependenciesBefore
    <3> QED BY <1>5, <2>3, <3>1, <3>3
  <2> QED BY <2>2, <2>3
<1> QED BY <1>1, <1>3, <1>7, <1>8, <1>9, <1>10 DEF Order, MainLoaded

LEMMA ReturnOrder == IInv /\ Order /\ Return => Order'
<1> SUFFICES ASSUME IInv, Order, Return PROVE Order'
  OBVIOUS
<1>1. /\ status = "running" /\ frames' = Front(frames) /\ status' \in {"done", "running"}
      /\ tree' = tree /\ loaded' = loaded /\ program' = program
  BY DEF Return
<1>2. Loaded' = Loaded
  BY <1>1 DEF Loaded
<1>3. frames # <<>> /\ frames \in Seq(FrameType) /\ TypeOK
  BY <1>1, InnermostFrame DEF IInv, TypeOK
<1>4. DOMAIN frames' \subseteq DOMAIN frames /\ \A m \in DOMAIN frames' : frames'[m] = frames[m]
  <2>1. Len(frames) \in Nat \ {0} /\ DOMAIN frames = 1..Len(frames)
    BY <1>3
  <2>2. frames' = SubSeq(frames, 1, Len(frames) - 1)
    BY <1>1 DEF Front
  <2> QED BY <1>3, <2>1, <2>2
<1>5. \A m \in DOMAIN frames : frames[m].path \in Loaded
  <2>1. \A m \in DOMAIN frames : frames[m] \in FrameType
    BY <1>3, SeqElements
  <2> QED BY <2>1 DEF FrameType
<1>6. FramesCallable'
  BY <1>1, <1>2, <1>4, GivesGrows DEF FramesCallable, Order
<1>7. CallersReach'
  BY <1>1, <1>2, <1>4, <1>5, ReachGrows DEF CallersReach, Order
<1>8. CallableByItsAlias' /\ DependenciesBefore'
  BY <1>1, <1>2, ProgramStays
<1> QED BY <1>1, <1>2, <1>6, <1>7, <1>8 DEF Order, MainLoaded

LEMMA StepOrder == IInv /\ Order /\ [Next]_vars => Order'
<1> SUFFICES ASSUME IInv, Order, [Next]_vars PROVE Order'
  OBVIOUS
<1>1. CASE UNCHANGED vars
  <2>1. Loaded' = Loaded /\ \A p : ReachedFrom(p)' = ReachedFrom(p)
    BY <1>1 DEF vars, Loaded, ReachedFrom, ImportsOf
  <2>2. MainLoaded' /\ FramesCallable' /\ CallableByItsAlias'
    BY <1>1, <2>1 DEF vars, Order, MainLoaded, FramesCallable, Gives, CallableByItsAlias
  <2>3. CallersReach' /\ DependenciesBefore'
    BY <1>1, <2>1 DEF vars, Order, CallersReach, DependenciesBefore
  <2> QED BY <2>2, <2>3 DEF Order
<1> QED BY <1>1, LoadMainOrder, ImportOrder, PushOrder, ReturnOrder DEF Next

LEMMA OrderInvariance == Spec => [](IInv /\ Order)
<1>1. Init => IInv /\ Order
  BY InitIInv, InitOrder
<1>2. IInv /\ Order /\ [Next]_vars => (IInv /\ Order)'
  BY StepPreserves, StepOrder
<1> QED BY <1>1, <1>2, PTL DEF Spec

(* Every imported function is in the program under an alias that an import *)
(* of its file gives it, and those of the main file under none, whatever   *)
(* path of the recursion reached the file first.                           *)
THEOREM FunctionsCallable == Spec => []CallableByItsAlias
  BY OrderInvariance, PTL DEF Order

(* A declaration is pushed behind all that the imports above it brought    *)
(* in, but for files that import its own file back: the recursion stands   *)
(* at the import until the imported file has been pushed.                  *)
THEOREM ImportsPushedFirst == Spec => DependenciesFirst
<1> DEFINE Ordered ==
        \A k \in DOMAIN program' \ DOMAIN program :
          LET e == program'[k] IN
          \A i \in ImportIndices(tree, e.path) :
              LET c == ImportedBy(tree, e.path, i) IN
              i < e.idx /\ e.path \notin ReachedFrom(c) =>
                  \A j \in OwnIndices(tree, c) : <<c, j>> \in Emitted(program)
<1>1. ASSUME IInv, Order, [Next]_vars
      PROVE  Ordered
  <2>1. CASE program' = program
    BY <2>1
  <2>2. CASE Push
    <3> DEFINE e == Entry(Top, Current)
    <3>1. status = "running" /\ program' = Append(program, e)
      BY <2>2 DEF Push, InLoop
    <3>2. e.path = Top.path /\ e.idx = Top.next
      BY DEF Entry
    <3>3. \A k \in DOMAIN program' \ DOMAIN program : program'[k] = e
      <4>1. program \in Seq(EntryType)
        BY <1>1 DEF IInv, TypeOK
      <4> HIDE DEF e
      <4> QED BY <3>1, <4>1
    <3> HIDE DEF e
    <3> QED BY <1>1, <3>1, <3>2, <3>3, PushedAfterImports
  <2> QED BY <1>1, <2>1, <2>2 DEF Next, vars, LoadMain, Import, Return
<1>2. IInv /\ Order /\ [Next]_vars => [Ordered]_vars
  BY <1>1
<1> QED BY <1>2, OrderInvariance, PTL DEF Spec, DependenciesFirst
-------------------------------------------------------------------------------
(* The steps of load_file are steps of the closure: the first call begins  *)
(* it, an import that leads to a new path follows the frontier, the last   *)
(* return finishes it, and everything else leaves it as it is.             *)
Result == IF status = "done" THEN Emitted(program) ELSE {}

LEMMA LoadFileTakes ==
    ASSUME IInv, NEW P, NEW a, NEW B, LoadFile(P, a, B), UNCHANGED <<tree, program>>,
           status \in {"start", "running"}
    PROVE  /\ Result' = Result
           /\ \/ P \in Loaded /\ Loaded' = Loaded /\ status' = status
              \/ Closure!Take(P)
<1>1. loaded \in Seq(PathType) /\ tree' = tree
  BY DEF IInv, TypeOK
<1>2. CASE P \in ToSet(loaded)
  BY <1>2 DEF LoadFile, Loaded, Result
<1>3. CASE P \notin ToSet(loaded)
  <2>1. loaded' = Append(loaded, P) /\ status' = IF Readable(tree, P) THEN "running" ELSE "fatal"
    BY <1>3 DEF LoadFile
  <2>2. Loaded' = Loaded \cup {P}
    BY <1>1, <2>1, ToSetAppend DEF Loaded
  <2>3. Result' = Result
    BY <2>1 DEF Result
  <2>4. Closure!Take(P)
    BY <1>1, <1>3, <2>1, <2>2, <2>3 DEF Closure!Take, Loaded, Result
  <2> QED BY <2>3, <2>4
<1> QED BY <1>2, <1>3

LEMMA FrontierLoaded ==
    ASSUME IInv, status = "running", Len(frames) = 1, Top.next > Len(Source)
    PROVE  /\ Closure!Frontier \subseteq Loaded
           /\ Emitted(program) = UNION {{<<p, i>> : i \in OwnIndices(tree, p)} : p \in Loaded}
<1>1. \A p, i : Passed(Front(frames), p, i)
  <2>1. frames \in Seq(FrameType)
    BY DEF IInv, TypeOK
  <2>2. DOMAIN Front(frames) = {}
    BY <2>1 DEF Front
  <2> QED BY <2>2 DEF Passed
<1>2. \A p \in Loaded : \A i \in ImportIndices(tree, p) : ImportedBy(tree, p, i) \in Loaded
  BY <1>1, ReturnPasses DEF IInv, PassedImportsLoaded
<1>3. \A p \in Loaded : \A i \in OwnIndices(tree, p) : <<p, i>> \in Emitted(program)
  BY <1>1, ReturnPasses DEF IInv, PassedPushed
<1>4. Closure!Frontier \subseteq Loaded
  BY <1>2 DEF Closure!Frontier
<1>5. \A k \in DOMAIN program : program[k].path \in Loaded /\
                               program[k].idx \in OwnIndices(tree, program[k].path)
  <2>1. \A k \in DOMAIN program : program[k] \in EntryType
    BY SeqElements DEF IInv, TypeOK
  <2> QED BY <2>1 DEF IInv, EntriesOwn, EntryType
<1>6. Emitted(program) \subseteq UNION {{<<p, i>> : i \in OwnIndices(tree, p)} : p \in Loaded}
  BY <1>5 DEF Emitted
<1> QED BY <1>3, <1>4, <1>6

LEMMA StepImplements == IInv /\ [Next]_vars => [Closure!Next]_(Closure!vars)
<1> SUFFICES ASSUME IInv, [Next]_vars PROVE [Closure!Next]_(Closure!vars)
  OBVIOUS
<1>1. CASE LoadMain
  <2>1. Main \notin Loaded
    BY <1>1 DEF LoadMain, IInv, StartsEmpty, Loaded, ToSet
  <2>2. Closure!Take(Main)
    BY <1>1, <2>1, LoadFileTakes DEF LoadMain
  <2> QED BY <1>1, <2>2 DEF LoadMain, Closure!Next, Closure!Begin
<1>2. CASE Import
  <2> DEFINE P == ImportedBy(tree, Top.path, Top.next)
  <2>1. /\ status = "running" /\ Top.next <= Len(Source) /\ IsImport(Current)
        /\ LoadFile(P, Current.alias, Advanced) /\ UNCHANGED <<tree, program>>
    BY <1>2 DEF Import, InLoop
  <2>2. P \in Closure!Frontier
    <3>1. Top.path \in Loaded /\ tree \in Trees /\ Readable(tree, Top.path) /\ Top.next \in Nat \ {0}
      BY <2>1, InnermostFrame
    <3>2. Top.next \in ImportIndices(tree, Top.path)
      BY <2>1, <3>1, DeclsIndexed DEF ImportIndices, Source, Current
    <3> QED BY <3>1, <3>2 DEF Closure!Frontier
  <2>3. \/ Loaded' = Loaded /\ status' = status /\ Result' = Result
        \/ Closure!Take(P)
    BY <2>1, LoadFileTakes
  <2>4. CASE Closure!Take(P)
    BY <2>1, <2>2, <2>4 DEF Closure!Next, Closure!Follow
  <2>5. CASE Loaded' = Loaded /\ status' = status /\ Result' = Result
    BY <2>1, <2>5 DEF Closure!vars, Result
  <2> QED BY <2>3, <2>4, <2>5
<1>3. CASE Push
  <2>1. /\ status = "running" /\ status' = status /\ tree' = tree /\ Loaded' = Loaded
    BY <1>3 DEF Push, InLoop, Loaded
  <2> QED BY <2>1 DEF Closure!vars
<1>4. CASE Return
  <2>1. /\ status = "running" /\ Top.next > Len(Source) /\ Loaded' = Loaded /\ tree' = tree
        /\ status' = IF Len(frames) = 1 THEN "done" ELSE "running"
        /\ Emitted(program)' = Emitted(program)
    BY <1>4 DEF Return, Loaded, Emitted
  <2>2. CASE Len(frames) = 1
    <3>1. Closure!Finish
      BY <2>1, <2>2, FrontierLoaded DEF Closure!Finish
    <3> QED BY <3>1 DEF Closure!Next
  <2>3. CASE Len(frames) # 1
    BY <2>1, <2>3 DEF Closure!vars
  <2> QED BY <2>2, <2>3
<1>5. CASE UNCHANGED vars
  BY <1>5 DEF vars, Closure!vars, Loaded, Emitted
<1> QED BY <1>1, <1>2, <1>3, <1>4, <1>5 DEF Next

(* Depth first, with a set of loaded paths and an early return, load_file  *)
(* loads exactly the closure of the imports and pushes exactly its         *)
(* declarations, or stops at a file that cannot be loaded.                 *)
THEOREM ResolverImplementsClosure == Spec => ImplementsClosure
<1>1. Init => Closure!Init
  BY DEF Init, Closure!Init, Loaded, ToSet
<1>2. Spec => [][Closure!Next]_(Closure!vars)
  BY Invariance, StepImplements, PTL DEF Spec
<1> QED BY <1>1, <1>2, PTL DEF Spec, ImplementsClosure, Closure!Spec

-------------------------------------------------------------------------------
(***************************************************************************)
(* Files.  The set of loaded paths compares spellings; for plain paths     *)
(* that is as good as comparing files, because the walk along one leads to *)
(* a place that its spelling can be read off.                              *)
(***************************************************************************)

(* A set with zero, and with every successor, has every natural number.    *)
LEMMA Climb ==
    ASSUME NEW S, S \subseteq Nat, 0 \in S, \A n \in S : n + 1 \in S
    PROVE  S = Nat
<1> SUFFICES ASSUME Nat \ S # {} PROVE FALSE
  OBVIOUS
<1> DEFINE T == Nat \ S
<1>1. T \subseteq Nat /\ T # {}
  OBVIOUS
<1>2. \E x \in T : \A y \in T : ~(y < x)
  <2> HIDE DEF T
  <2>1. PICK x \in T : \A y \in T : ~(<<y, x>> \in OpToRel(<, Nat))
    BY <1>1, WFMin, NatLessThanWellFounded
  <2> QED BY <1>1, <2>1 DEF OpToRel
<1>3. PICK x \in T : \A y \in T : ~(y < x)
  BY <1>2
<1>4. x # 0 /\ x - 1 \in Nat /\ x - 1 < x /\ x = (x - 1) + 1
  BY <1>1, <1>3
<1>5. x - 1 \in S
  BY <1>3, <1>4
<1> QED BY <1>3, <1>4, <1>5

(* The walk that Locate is defined by, and that there is one.              *)
From(p) == IF p.abs THEN <<>> ELSE Cwd

Walks(w, p, l) ==
    w = [n \in 0..l |-> IF n = 0 THEN From(p) ELSE Enter(w[n - 1], p.segs[n])]

LEMMA WalkExists ==
    ASSUME NEW p \in PathType
    PROVE  \E w : Walks(w, p, Len(p.segs))
<1> DEFINE S == {l \in Nat : \E w : Walks(w, p, l)}
<1>1. 0 \in S
  <2> DEFINE w == [n \in 0..0 |-> From(p)]
  <2>1. w = [n \in 0..0 |-> IF n = 0 THEN From(p) ELSE Enter(w[n - 1], p.segs[n])]
    OBVIOUS
  <2> HIDE DEF w
  <2> QED BY <2>1 DEF Walks
<1>2. ASSUME NEW l \in S PROVE l + 1 \in S
  <2>1. PICK w : Walks(w, p, l)
    OBVIOUS
  <2> DEFINE v == [n \in 0..(l + 1) |-> IF n = l + 1 THEN Enter(w[l], p.segs[n]) ELSE w[n]]
             k == [n \in 0..(l + 1) |-> IF n = 0 THEN From(p) ELSE Enter(v[n - 1], p.segs[n])]
  <2>2. l \in Nat /\ \A n \in 0..l : w[n] = IF n = 0 THEN From(p) ELSE Enter(w[n - 1], p.segs[n])
    BY <2>1 DEF Walks
  <2>3. \A n \in 0..(l + 1) : v[n] = IF n = 0 THEN From(p) ELSE Enter(v[n - 1], p.segs[n])
    BY <2>2
  <2>4. DOMAIN v = 0..(l + 1) /\ v = [n \in DOMAIN v |-> v[n]]
    OBVIOUS
  <2> HIDE DEF v
  <2>5. v = k
    BY <2>3, <2>4
  <2>6. Walks(v, p, l + 1)
    BY <2>5 DEF Walks
  <2> QED BY <2>2, <2>6
<1>3. S \subseteq Nat
  OBVIOUS
<1>4. Len(p.segs) \in Nat
  BY DEF PathType
<1> HIDE DEF S
<1>5. Len(p.segs) \in S
  BY <1>1, <1>2, <1>3, <1>4, Climb
<1> QED BY <1>5 DEF S

LEMMA LocateWalks ==
    ASSUME NEW p \in PathType, Locate(p) # Nowhere
    PROVE  \E w : Walks(w, p, Len(p.segs)) /\ Locate(p) = w[Len(p.segs)]
<1> DEFINE c == CHOOSE w : w = [n \in 0..Len(p.segs) |->
                    IF n = 0 THEN (IF p.abs THEN <<>> ELSE Cwd) ELSE Enter(w[n - 1], p.segs[n])]
<1>1. \E w : w = [n \in 0..Len(p.segs) |->
                    IF n = 0 THEN (IF p.abs THEN <<>> ELSE Cwd) ELSE Enter(w[n - 1], p.segs[n])]
  BY WalkExists DEF Walks, From
<1>2. c = [n \in 0..Len(p.segs) |->
                    IF n = 0 THEN (IF p.abs THEN <<>> ELSE Cwd) ELSE Enter(c[n - 1], p.segs[n])]
  BY <1>1, Zenon
<1>3. Locate(p) = c[Len(p.segs)]
  BY DEF Locate
<1> HIDE DEF c
<1> QED BY <1>2, <1>3 DEF Walks, From

(* What a plain path spells out up to its n-th segment, as a place.        *)
Skipped(p) == IF p.abs THEN 0 ELSE 1
Spelled(p, n) == From(p) \o SubSeq(p.segs, Skipped(p) + 1, n)

LEMMA OneMore ==
    ASSUME NEW S, NEW a \in Seq(S), NEW s \in Seq(S), NEW k \in Nat \ {0}, NEW n \in Nat,
           k <= n + 1, n < Len(s)
    PROVE  Append(a \o SubSeq(s, k, n), s[n + 1]) = a \o SubSeq(s, k, n + 1)
<1> DEFINE b == SubSeq(s, k, n)
           c == SubSeq(s, k, n + 1)
<1>1. /\ b \in Seq(S) /\ c \in Seq(S) /\ s[n + 1] \in S
      /\ Len(b) \in Nat /\ Len(c) = Len(b) + 1 /\ Len(b) = n + 1 - k
      /\ \A i \in 1..Len(b) : b[i] = c[i]
      /\ c[Len(b) + 1] = s[n + 1]
  OBVIOUS
<1> HIDE DEF b, c
<1> DEFINE l == Append(a \o b, s[n + 1])
           r == a \o c
<1>2. l \in Seq(S) /\ r \in Seq(S) /\ Len(l) = Len(r)
  <2>0. Len(a) \in Nat
    OBVIOUS
  <2>1. a \o b \in Seq(S) /\ Len(a \o b) = Len(a) + Len(b)
    BY <1>1, ConcatProperties
  <2>2. a \o c \in Seq(S) /\ Len(a \o c) = Len(a) + Len(c)
    BY <1>1, ConcatProperties
  <2>3. l \in Seq(S) /\ Len(l) = Len(a \o b) + 1
    <3> DEFINE d == a \o b
    <3>1. d \in Seq(S)
      BY <2>1
    <3> HIDE DEF d
    <3>2. Append(d, s[n + 1]) \in Seq(S) /\ Len(Append(d, s[n + 1])) = Len(d) + 1
      BY <1>1, <3>1
    <3> QED BY <3>2 DEF d
  <2> QED BY <1>1, <2>0, <2>1, <2>2, <2>3
<1>3. \A i \in 1..Len(l) : l[i] = r[i]
  BY <1>1
<1> HIDE DEF l, r
<1>4. \A x, y \in Seq(S) : Len(x) = Len(y) /\ (\A i \in 1..Len(x) : x[i] = y[i]) => x = y
  OBVIOUS
<1>5. l = r
  BY <1>2, <1>3, <1>4
<1> QED BY <1>5 DEF l, r, b, c

LEMMA SpelledNext ==
    ASSUME NEW p \in PathType, NEW n \in Nat, Skipped(p) <= n, n < Len(p.segs)
    PROVE  Append(Spelled(p, n), p.segs[n + 1]) = Spelled(p, n + 1)
<1>1. From(p) \in Seq(Names)
  <2>1. <<>> \in Seq(Names)
    OBVIOUS
  <2> QED BY <2>1, CwdAssumption DEF From
<1>2. Skipped(p) + 1 \in Nat \ {0} /\ Skipped(p) + 1 <= n + 1
  BY DEF Skipped
<1>3. p.segs \in Seq(Names)
  BY DEF PathType
<1> QED BY <1>1, <1>2, <1>3, OneMore DEF Spelled

LEMMA PlainPlace ==
    ASSUME NEW p \in PathType, Plain(p), Locate(p) # Nowhere
    PROVE  Skipped(p) <= Len(p.segs) /\ Locate(p) = Spelled(p, Len(p.segs))
<1>1. PICK w : Walks(w, p, Len(p.segs)) /\ Locate(p) = w[Len(p.segs)]
  BY LocateWalks
<1> DEFINE L == Len(p.segs)
<1>2. L \in Nat /\ Skipped(p) \in {0, 1} /\ Skipped(p) <= L
  BY DEF PathType, Plain, Skipped
<1>3. \A n \in 0..L : w[n] = IF n = 0 THEN From(p) ELSE Enter(w[n - 1], p.segs[n])
  BY <1>1 DEF Walks
<1>4. w[Skipped(p)] \in {Nowhere, Spelled(p, Skipped(p))}
  <2>1. Spelled(p, Skipped(p)) = From(p)
    <3>1. From(p) \in Seq(Names) /\ p.segs \in Seq(Names)
      <4>1. <<>> \in Seq(Names)
        OBVIOUS
      <4> QED BY <4>1, CwdAssumption DEF PathType, From
    <3> QED BY <1>2, <3>1 DEF Spelled
  <2>2. CASE p.abs
    BY <1>2, <1>3, <2>1, <2>2 DEF Skipped
  <2>3. CASE ~p.abs
    <3>1. p.segs[1] = "." /\ w[1] = Enter(Cwd, p.segs[1])
      BY <1>2, <1>3, <2>3 DEF Plain, Skipped, From, PathType
    <3> QED BY <2>1, <2>3, <3>1 DEF Enter, Skipped, From
  <2> QED BY <2>2, <2>3
<1>5. ASSUME NEW n \in Nat, Skipped(p) <= n, n < L, w[n] \in {Nowhere, Spelled(p, n)}
      PROVE  w[n + 1] \in {Nowhere, Spelled(p, n + 1)}
  <2>1. w[n + 1] = Enter(w[n], p.segs[n + 1])
    BY <1>2, <1>3, <1>5
  <2>2. Nowhere \notin Dirs
    BY CwdAssumption DEF Nowhere
  <2>3. p.segs[n + 1] \notin {".", ".."}
    <3>1. CASE p.abs
      <4>1. p.segs[n + 1] \in ToSet(p.segs)
        BY <1>2, <1>5 DEF ToSet, PathType
      <4> QED BY <3>1, <4>1 DEF Plain
    <3>2. CASE ~p.abs
      <4>1. p.segs[n + 1] = Tail(p.segs)[n] /\ n \in DOMAIN Tail(p.segs)
        BY <1>2, <1>5, <3>2 DEF PathType, Skipped
      <4> QED BY <3>2, <4>1 DEF Plain, ToSet
    <3> QED BY <3>1, <3>2
  <2>4. w[n + 1] \in {Nowhere, Append(Spelled(p, n), p.segs[n + 1])}
    BY <1>5, <2>1, <2>2, <2>3 DEF Enter
  <2> QED BY <1>5, <2>4, SpelledNext
<1> DEFINE S == {m \in Nat : Skipped(p) + m <= L =>
                    w[Skipped(p) + m] \in {Nowhere, Spelled(p, Skipped(p) + m)}}
<1>6. 0 \in S
  BY <1>2, <1>4
<1>7. ASSUME NEW m \in S PROVE m + 1 \in S
  <2> SUFFICES ASSUME Skipped(p) + (m + 1) <= L
      PROVE w[Skipped(p) + (m + 1)] \in {Nowhere, Spelled(p, Skipped(p) + (m + 1))}
    OBVIOUS
  <2> DEFINE n == Skipped(p) + m
  <2>1. n \in Nat /\ Skipped(p) <= n /\ n < L /\ n + 1 = Skipped(p) + (m + 1)
    BY <1>2
  <2>2. w[n] \in {Nowhere, Spelled(p, n)}
    BY <2>1
  <2> HIDE DEF n
  <2>3. w[n + 1] \in {Nowhere, Spelled(p, n + 1)}
    BY <1>5, <2>1, <2>2
  <2> QED BY <2>1, <2>3
<1>8. S \subseteq Nat
  OBVIOUS
<1> HIDE DEF S
<1>9. L - Skipped(p) \in S
  <2>1. S = Nat
    BY <1>6, <1>7, <1>8, Climb
  <2>2. L - Skipped(p) \in Nat
    BY <1>2
  <2> QED BY <2>1, <2>2
<1>10. Skipped(p) + (L - Skipped(p)) = L
  BY <1>2
<1>11. w[L] \in {Nowhere, Spelled(p, L)}
  BY <1>2, <1>9, <1>10 DEF S
<1> QED BY <1>1, <1>2, <1>11

(* Plain paths to one file are spelled alike.                              *)
LEMMA PlainInjective ==
    ASSUME NEW p \in PathType, NEW q \in PathType, Plain(p), Plain(q),
           Locate(p) = Locate(q), Locate(p) # Nowhere
    PROVE  p = q
<1> DEFINE Rest(r) == SubSeq(r.segs, Skipped(r) + 1, Len(r.segs))
<1>1. From(p) \o Rest(p) = From(q) \o Rest(q)
  BY PlainPlace DEF Spelled
<1>2. \A r \in PathType : Plain(r) /\ Locate(r) # Nowhere =>
          /\ Rest(r) \in Seq(Names) /\ Len(Rest(r)) = Len(r.segs) - Skipped(r)
          /\ Len(r.segs) \in Nat
          /\ \A i \in 1..Len(Rest(r)) : Rest(r)[i] = r.segs[i + Skipped(r)]
          /\ ~r.abs => r.segs # <<>> /\ r.segs[1] = "."
  <2> SUFFICES ASSUME NEW r \in PathType, Plain(r), Locate(r) # Nowhere
               PROVE  /\ Rest(r) \in Seq(Names) /\ Len(Rest(r)) = Len(r.segs) - Skipped(r)
                      /\ Len(r.segs) \in Nat
                      /\ \A i \in 1..Len(Rest(r)) : Rest(r)[i] = r.segs[i + Skipped(r)]
                      /\ ~r.abs => r.segs # <<>> /\ r.segs[1] = "."
    OBVIOUS
  <2>1. r.segs \in Seq(Names) /\ Skipped(r) <= Len(r.segs) /\ Skipped(r) \in {0, 1}
    BY PlainPlace DEF PathType, Skipped
  <2>2. ~r.abs => r.segs # <<>> /\ r.segs[1] = "."
    BY <2>1 DEF Plain
  <2>3. ASSUME NEW t \in Seq(Names), NEW k \in {0, 1}, k <= Len(t)
        PROVE  /\ SubSeq(t, k + 1, Len(t)) \in Seq(Names) /\ Len(SubSeq(t, k + 1, Len(t))) = Len(t) - k
               /\ Len(t) \in Nat
               /\ \A i \in 1..(Len(t) - k) : SubSeq(t, k + 1, Len(t))[i] = t[i + k]
    BY <2>3
  <2> QED BY <2>1, <2>2, <2>3
<1>3. Cwd \in Seq(Names) /\ \A s \in Seq(Names) : <<>> \o s = s
  <2>1. \A s \in Seq(Names) : <<>> \o s = s
    OBVIOUS
  <2> QED BY <2>1, CwdAssumption
<1>4. \A r, s \in PathType : r.abs /\ Plain(r) /\ ~s.abs /\ Plain(s) /\ Locate(s) # Nowhere /\ Locate(r) # Nowhere
          => From(r) \o Rest(r) # From(s) \o Rest(s)
  <2> SUFFICES ASSUME NEW r \in PathType, NEW s \in PathType, r.abs, Plain(r), ~s.abs, Plain(s),
                      Locate(s) # Nowhere, Locate(r) # Nowhere, r.segs = Cwd \o Rest(s)
               PROVE  FALSE
    <3>1. ASSUME NEW r \in PathType, r.abs PROVE From(r) \o Rest(r) = r.segs
      BY <1>3, <3>1 DEF From, Skipped, PathType
    <3> QED BY <3>1 DEF From
  <2>1. Rest(s) \in Seq(Names)
    BY <1>2
  <2>2. r.segs = Cwd \o Rest(s) /\ ~IsPrefix(Cwd, r.segs)
    BY DEF Plain
  <2> HIDE DEF Rest
  <2>3. Len(Cwd) <= Len(Cwd \o Rest(s)) /\ Cwd = SubSeq(Cwd \o Rest(s), 1, Len(Cwd))
    BY <1>3, <2>1
  <2> QED BY <2>2, <2>3 DEF IsPrefix
<1>5. p.abs = q.abs
  BY <1>1, <1>4 DEF PathType
<1>6. Rest(p) = Rest(q) /\ Skipped(p) = Skipped(q)
  <2>1. Rest(p) \in Seq(Names) /\ Rest(q) \in Seq(Names) /\ From(p) = From(q) /\ From(p) \in Seq(Names)
    <3>1. <<>> \in Seq(Names)
      OBVIOUS
    <3> QED BY <1>2, <1>3, <1>5, <3>1 DEF From
  <2>2. \A a, b, c \in Seq(Names) : a \o b = a \o c => b = c
    <3> SUFFICES ASSUME NEW a \in Seq(Names), NEW b \in Seq(Names), NEW c \in Seq(Names), a \o b = a \o c
                 PROVE  b = c
      OBVIOUS
    <3>1. Len(b) = Len(c)
      <4>1. Len(a \o b) = Len(a) + Len(b) /\ Len(a \o c) = Len(a) + Len(c)
        OBVIOUS
      <4> QED BY <4>1
    <3>2. ASSUME NEW i \in 1..Len(b) PROVE b[i] = c[i]
      <4>1. (a \o b)[Len(a) + i] = b[i] /\ (a \o c)[Len(a) + i] = c[i]
        BY <3>1
      <4> QED BY <4>1
    <3>3. b = [i \in 1..Len(b) |-> b[i]] /\ c = [i \in 1..Len(c) |-> c[i]]
      OBVIOUS
    <3> QED BY <3>1, <3>2, <3>3
  <2> HIDE DEF Rest
  <2>3. Rest(p) = Rest(q)
    BY <1>1, <2>1, <2>2
  <2> QED BY <1>5, <2>3 DEF Skipped
<1>7. p.segs = q.segs
  <2>1. Skipped(p) \in {0, 1} /\ (Skipped(p) = 1 <=> ~p.abs)
    BY DEF Skipped
  <2>2. Len(p.segs) = Len(q.segs)
    BY <1>2, <1>6, <2>1
  <2>3. ASSUME NEW i \in 1..Len(p.segs) PROVE p.segs[i] = q.segs[i]
    <3>1. CASE i <= Skipped(p)
      BY <1>2, <1>5, <2>1, <3>1
    <3>2. CASE i > Skipped(p)
      <4>1. i - Skipped(p) \in 1..Len(Rest(p)) /\ (i - Skipped(p)) + Skipped(p) = i
        BY <1>2, <2>1, <3>2
      <4> HIDE DEF Rest
      <4> QED BY <1>2, <1>6, <4>1
    <3> QED BY <2>1, <3>1, <3>2
  <2> QED BY <2>2, <2>3 DEF PathType
<1> QED BY <1>5, <1>7 DEF PathType

(* What is in the program was read.                                        *)
EntriesReadable == \A k \in DOMAIN program : Readable(tree, program[k].path)

LEMMA StepReadable == IInv /\ EntriesReadable /\ [Next]_vars => EntriesReadable'
<1> SUFFICES ASSUME IInv, EntriesReadable, [Next]_vars PROVE EntriesReadable'
  OBVIOUS
<1>1. tree' = tree
  BY DEF Next, vars, LoadMain, Import, Push, Return
<1>2. CASE program' = program
  BY <1>1, <1>2 DEF EntriesReadable, Readable
<1>3. CASE Push
  <2>1. Top.path \in Loaded /\ status # "fatal"
    BY <1>3, InnermostFrame DEF Push, InLoop
  <2>2. program \in Seq(EntryType) /\ Readable(tree, Top.path)
    BY <2>1 DEF IInv, TypeOK, LoadedReadable
  <2>3. \E e : e.path = Top.path /\ program' = Append(program, e)
    BY <1>3 DEF Push, Entry
  <2> QED BY <1>1, <2>2, <2>3 DEF EntriesReadable, Readable
<1> QED BY <1>2, <1>3 DEF Next, vars, LoadMain, Import, Return

(* Where imports have no dot segments and none leads back to the main      *)
(* file, no declaration of a file is in the program twice, whatever the    *)
(* paths by which the file is reached.                                     *)
THEOREM FilesOnce == Spec => []PlainFilesOnce
<1>1. Init => IInv /\ EntriesReadable
  BY InitIInv DEF Init, EntriesReadable
<1>2. IInv /\ EntriesReadable /\ [Next]_vars => (IInv /\ EntriesReadable)'
  BY StepPreserves, StepReadable
<1>3. IInv /\ EntriesReadable => PlainFilesOnce
  <2> SUFFICES ASSUME IInv, EntriesReadable,
                      \A p \in Loaded \ {Main} : Plain(p) /\ Locate(p) # Locate(Main),
                      NEW j \in DOMAIN program, NEW k \in DOMAIN program,
                      Locate(program[j].path) = Locate(program[k].path),
                      program[j].idx = program[k].idx
               PROVE  j = k
    BY DEF PlainFilesOnce, FileDeclarationsOnce
  <2> DEFINE p == program[j].path
             q == program[k].path
  <2>1. p \in Loaded /\ q \in Loaded /\ p \in PathType /\ q \in PathType
    <3>1. loaded \in Seq(PathType) /\ program[j] \in EntryType /\ program[k] \in EntryType
      BY DEF IInv, TypeOK
    <3>2. p \in Loaded /\ q \in Loaded
      BY <3>1 DEF EntryType
    <3> QED BY <3>1, <3>2, SeqElements DEF Loaded, ToSet
  <2>2. Locate(p) # Nowhere
    BY FilesAssumption DEF IInv, TypeOK, EntriesReadable, Readable
  <2>3. p = q
    BY <2>1, <2>2, PlainInjective
  <2> QED BY <2>3 DEF IInv, EachDeclarationOnce
<1> QED BY <1>1, <1>2, <1>3, PTL DEF Spec
===============================================================================
