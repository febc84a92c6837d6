----------------------------- MODULE DriverProofs -----------------------------
(***************************************************************************)
(* A run that exits 0 has left the executable of what it read, for any     *)
(* number of runs, any command lines and any sources.                      *)
(***************************************************************************)
EXTENDS Driver, FiniteSetTheorems, TLAPS

(***************************************************************************)
(* Where a run is says whether it has read its sources, and a stream that  *)
(* is open on a name finds generated C there.                              *)
(***************************************************************************)
Before == {"options", "resolve"}
After  == {"open", "write", "close", "cc", "link", "cleanup"}

Shape ==
    /\ job \in [Runs -> Jobs]
    /\ pc \in [Runs -> Before \cup After \cup {"exited"}]
    /\ source \in [Runs -> Programs \cup {None}]
    /\ offset \in [Runs -> Nat]
    /\ linked \in [Runs -> BOOLEAN]
    /\ input = [p \in Runs |-> input[p]]
    /\ code = [p \in Runs |-> code[p]]

Placed ==
    /\ \A n \in DOMAIN fs : fs[n].kind = "source" => fs[n].prog \in Programs
    /\ \A p \in Runs :
        /\ pc[p] \in Before => source[p] = None
        /\ pc[p] \in After \/ Built(p) => source[p] \in Programs
        /\ pc[p] # "exited" => code[p] = None
        /\ pc[p] \notin {"options", "exited"} => job[p].args = "ok"
        /\ pc[p] \in {"cc", "link", "cleanup"} => ~job[p].emit_c_only
        /\ linked[p] => c_path(p) \in DOMAIN fs /\ fs[c_path(p)].kind = "c"

(***************************************************************************)
(* No run has read anything but prog for the names of p.  Unlike           *)
(* Undisturbed, this can only become false: a run reads once.              *)
(***************************************************************************)
OnlyFor(p, prog) ==
    \A q \in Runs :
        \/ Written(q) \cap Written(p) = {}
        \/ output(q) = output(p) /\ source[q] \in {None, prog}

(* What runs that compile prog can make of a generated file, at any point. *)
PartOf(blocks, prog) ==
    /\ blocks = [k \in 1..Len(blocks) |-> blocks[k]]
    /\ Len(blocks) \in Nat
    /\ \A k \in 1..Len(blocks) : blocks[k] \in {<<prog.id, k>>, Hole}

(* The generated file, what the C compiler read of it, and the executable. *)
FileFrom(p, prog) ==
    c_path(p) \in DOMAIN fs /\ fs[c_path(p)].kind = "c" => PartOf(fs[c_path(p)].blocks, prog)

InputFrom(p, prog) == pc[p] = "link" => PartOf(input[p], prog)

ExecutableFrom(p, prog) ==
    pc[p] = "cleanup" \/ Built(p) =>
        output(p) \in DOMAIN fs /\ fs[output(p)] = Executable(Whole(prog))

Provenance ==
    \A p \in Runs : \A prog \in Programs :
        OnlyFor(p, prog) => FileFrom(p, prog) /\ InputFrom(p, prog) /\ ExecutableFrom(p, prog)

IInv == Shape /\ Placed /\ Provenance
-------------------------------------------------------------------------------
(* The generated file never has the name of the executable.                *)
LEMMA Names ==
    ASSUME job \in [Runs -> Jobs], NEW p \in Runs
    PROVE  output(p) # c_path(p)
  <1>1. job[p] \in Jobs
    OBVIOUS
  <1>2. output(p) \in Seq(STRING)
    <2>1. \A name \in Seq(STRING) : Len(name) > 1 => SubSeq(name, 1, Len(name) - 1) \in Seq(STRING)
      OBVIOUS
    <2>2. \A name \in Seq(STRING) : rl_strip_ext(name) \in Seq(STRING)
      BY <2>1 DEF rl_strip_ext, Front
    <2> QED
      BY <1>1, <2>2, JobsAssumption DEF output
  <1>3. Len(output(p) \o <<"gen", "c">>) = Len(output(p)) + 2 /\ Len(output(p)) \in Nat
    BY <1>2
  <1> QED
    BY <1>3 DEF c_path

(* Two runs with a name in common are two runs with the same names.        *)
LEMMA SameNames ==
    ASSUME job \in [Runs -> Jobs], NEW p \in Runs, NEW q \in Runs, NEW prog, OnlyFor(p, prog)
    PROVE  /\ c_path(q) # output(p) /\ output(q) # c_path(p)
           /\ c_path(q) = c_path(p) \/ output(q) = output(p) =>
                /\ output(q) = output(p) /\ c_path(q) = c_path(p)
                /\ source[q] \in {None, prog}
                /\ OnlyFor(q, prog)
  <1>1. output(p) # c_path(p)
    BY Names
  <1>2. output(q) = output(p) => c_path(q) = c_path(p)
    BY DEF c_path
  <1>3. \/ Written(q) \cap Written(p) = {}
        \/ output(q) = output(p) /\ source[q] \in {None, prog}
    BY DEF OnlyFor
  <1>4. c_path(q) # output(p) /\ output(q) # c_path(p)
    BY <1>1, <1>2, <1>3 DEF Written
  <1>5. c_path(q) = c_path(p) \/ output(q) = output(p) =>
            output(q) = output(p) /\ source[q] \in {None, prog}
    BY <1>3 DEF Written
  <1>6. output(q) = output(p) => OnlyFor(q, prog)
    BY <1>2 DEF OnlyFor, Written
  <1> QED
    BY <1>2, <1>4, <1>5, <1>6

(* None is not a program, and a program's id is its own.                   *)
LEMMA ProgramFacts ==
    /\ None \notin Programs
    /\ \A prog \in Programs : prog.blocks \in Nat \ {0}
    /\ \A a, b \in Programs : a.id = b.id => a = b
  BY SourcesAssumption DEF Programs

(* Writing a file.                                                         *)
LEMMA PutFacts ==
    ASSUME NEW name, NEW content, fs' = WithFile(name, content)
    PROVE  /\ name \in DOMAIN fs' /\ fs'[name] = content
           /\ \A n : n # name => (n \in DOMAIN fs' <=> n \in DOMAIN fs)
           /\ \A n : n # name /\ n \in DOMAIN fs => fs'[n] = fs[n]
  BY DEF WithFile

(* Removing a file.                                                        *)
LEMMA RemoveFacts ==
    ASSUME NEW name, fs' = WithoutFile(name)
    PROVE  /\ name \notin DOMAIN fs'
           /\ \A n : n # name => (n \in DOMAIN fs' <=> n \in DOMAIN fs)
           /\ \A n : n # name /\ n \in DOMAIN fs => fs'[n] = fs[n]
  BY DEF WithoutFile

(* The empty file is a part of any program's C.                            *)
LEMMA NothingIsPart ==
    ASSUME NEW prog
    PROVE  PartOf(<<>>, prog)
  BY DEF PartOf

(* One more block, wherever it lands, leaves a part.                       *)
LEMMA BlockIsPart ==
    ASSUME NEW prog, NEW blocks, PartOf(blocks, prog), NEW k \in Nat \ {0}
    PROVE  PartOf(PutBlock(blocks, k, <<prog.id, k>>), prog)
  <1> DEFINE n == IF Len(blocks) < k THEN k ELSE Len(blocks)
             f == PutBlock(blocks, k, <<prog.id, k>>)
             S == {f[i] : i \in 1..n}
  <1>1. Len(blocks) \in Nat /\ n \in Nat
    BY DEF PartOf
  <1>2. DOMAIN f = 1..n
    BY DEF PutBlock
  <1>3. f = [i \in 1..n |-> f[i]]
    BY DEF PutBlock
  <1>4. f \in [1..n -> S]
    BY <1>3
  <1>5. Len(f) = n
    <2> HIDE DEF f, n, S
    <2> QED
      BY <1>1, <1>4
  <1>6. \A i \in 1..n : f[i] \in {<<prog.id, i>>, Hole}
    <2> TAKE i \in 1..n
    <2>1. CASE i = k
      BY <2>1 DEF PutBlock
    <2>2. CASE i # k /\ i <= Len(blocks)
      <3>1. f[i] = blocks[i]
        BY <2>2 DEF PutBlock
      <3>2. i \in 1..Len(blocks)
        BY <1>1, <2>2
      <3> QED
        BY <3>1, <3>2 DEF PartOf
    <2>3. CASE i # k /\ ~(i <= Len(blocks))
      BY <2>3 DEF PutBlock
    <2> QED
      BY <2>1, <2>2, <2>3
  <1> HIDE DEF f, n
  <1> QED
    BY <1>1, <1>3, <1>5, <1>6 DEF PartOf, f

(***************************************************************************)
(* What C accepts of a part of one program is the whole of it: with blocks *)
(* missing at the end it has no main, and a gap is not C.                  *)
(***************************************************************************)
LEMMA AcceptedIsWhole ==
    ASSUME NEW prog \in Programs, NEW blocks, PartOf(blocks, prog), MayCompile(blocks)
    PROVE  blocks = Whole(prog)
  <1>1. CASE \E other \in Programs : blocks = Whole(other)
    <2>1. PICK other \in Programs : blocks = Whole(other)
      BY <1>1
    <2>2. other.blocks \in Nat \ {0}
      BY ProgramFacts
    <2>3. DOMAIN blocks = 1..other.blocks /\ blocks[1] = <<other.id, 1>>
      BY <2>1, <2>2 DEF Whole
    <2>4. DOMAIN blocks = 1..Len(blocks)
      BY DEF PartOf
    <2>5. 1 \in 1..Len(blocks)
      BY <2>2, <2>3, <2>4
    <2>6. blocks[1] \in {<<prog.id, 1>>, <<None, 0>>}
      BY <2>5 DEF PartOf, Hole
    <2>7. other.id = prog.id
      BY <2>3, <2>6
    <2> QED
      BY <2>1, <2>7, ProgramFacts
  <1>2. CASE ~\E other \in Programs : blocks = Whole(other)
    <2>1. Hole \notin ToSet(blocks) /\ Cardinality({b[1] : b \in ToSet(blocks)}) > 1
      BY <1>2 DEF MayCompile
    <2>2. DOMAIN blocks = 1..Len(blocks)
      BY DEF PartOf
    <2>3. \A b \in ToSet(blocks) : b[1] = prog.id
      BY <2>1, <2>2 DEF PartOf, ToSet
    <2>4. {b[1] : b \in ToSet(blocks)} \in {{}, {prog.id}}
      BY <2>3
    <2>5. Cardinality({b[1] : b \in ToSet(blocks)}) \in {0, 1}
      BY <2>4, FS_EmptySet, FS_Singleton
    <2> QED
      BY <2>1, <2>5
  <1> QED
    BY <1>1, <1>2
-------------------------------------------------------------------------------
(***************************************************************************)
(* A step leaves command lines alone, and reads for one run that has not   *)
(* read before, if at all: so OnlyFor can only have been true before.      *)
(***************************************************************************)
LEMMA Earlier ==
    ASSUME job' = job,
           \A q \in Runs : source'[q] = source[q] \/ source[q] = None,
           NEW p \in Runs, NEW prog, OnlyFor(p, prog)'
    PROVE  OnlyFor(p, prog)
  BY DEF OnlyFor, Written, output, c_path, rl_strip_ext

(***************************************************************************)
(* What a step of q leaves to be shown: that it keeps the shape and what   *)
(* is placed, and Provenance for runs with q's names when it writes them.  *)
(***************************************************************************)
LEMMA StepFrame ==
    ASSUME IInv, NEW q \in Runs, job' = job, Shape', Placed',
           \A r \in Runs : source'[r] = source[r] \/ source[r] = None,
           \A r \in Runs \ {q} : pc'[r] = pc[r] /\ input'[r] = input[r] /\ code'[r] = code[r],
           \A n : n \notin Written(q) =>
               (n \in DOMAIN fs' <=> n \in DOMAIN fs) /\ (n \in DOMAIN fs => fs'[n] = fs[n]),
           \A prog \in Programs : OnlyFor(q, prog) =>
               /\ FileFrom(q, prog)' /\ InputFrom(q, prog)' /\ ExecutableFrom(q, prog)'
               /\ \A r \in Runs \ {q} :
                      output(r) = output(q) /\ ExecutableFrom(r, prog) => ExecutableFrom(r, prog)'
    PROVE  IInv'
  <1> SUFFICES ASSUME NEW p \in Runs, NEW prog \in Programs, OnlyFor(p, prog)'
               PROVE  FileFrom(p, prog)' /\ InputFrom(p, prog)' /\ ExecutableFrom(p, prog)'
    BY DEF IInv, Provenance
  <1>1. OnlyFor(p, prog)
    BY Earlier
  <1>2. FileFrom(p, prog) /\ InputFrom(p, prog) /\ ExecutableFrom(p, prog)
    BY <1>1 DEF IInv, Provenance
  <1>3. job \in [Runs -> Jobs]
    BY DEF IInv, Shape
  <1>4. \A r \in Runs : output(r)' = output(r) /\ c_path(r)' = c_path(r)
    BY DEF output, c_path, rl_strip_ext
  <1>5. CASE output(q) = output(p)
    <2>1. OnlyFor(q, prog) /\ c_path(q) = c_path(p)
      BY <1>1, <1>3, <1>5, SameNames
    <2>2. FileFrom(p, prog)'
      BY <1>4, <2>1 DEF FileFrom
    <2>3. InputFrom(p, prog)'
      BY <1>2, <2>1 DEF InputFrom
    <2>4. ExecutableFrom(p, prog)'
      BY <1>2, <1>5, <2>1
    <2> QED
      BY <2>2, <2>3, <2>4
  <1>6. CASE output(q) # output(p)
    <2>1. p # q /\ output(p) \notin Written(q) /\ c_path(p) \notin Written(q)
      BY <1>1, <1>3, <1>6, SameNames DEF Written
    <2>2. FileFrom(p, prog)'
      BY <1>2, <1>4, <2>1 DEF FileFrom
    <2>3. InputFrom(p, prog)'
      BY <1>2, <2>1 DEF InputFrom
    <2>4. ExecutableFrom(p, prog)'
      BY <1>2, <1>4, <2>1 DEF ExecutableFrom, Built
    <2> QED
      BY <2>2, <2>3, <2>4
  <1> QED
    BY <1>5, <1>6

(* The same for a step that touches no file.                               *)
LEMMA QuietFrame ==
    ASSUME IInv, NEW q \in Runs, job' = job, fs' = fs, Shape', Placed',
           \A r \in Runs : source'[r] = source[r] \/ source[r] = None,
           \A r \in Runs \ {q} : pc'[r] = pc[r] /\ input'[r] = input[r] /\ code'[r] = code[r],
           ~(pc'[q] = "cleanup" \/ Built(q)'),
           \A prog \in Programs : OnlyFor(q, prog) => InputFrom(q, prog)'
    PROVE  IInv'
  <1>1. \A r \in Runs : output(r)' = output(r) /\ c_path(r)' = c_path(r)
    BY DEF output, c_path, rl_strip_ext
  <1>2. ASSUME NEW prog \in Programs, OnlyFor(q, prog)
        PROVE  /\ FileFrom(q, prog)' /\ InputFrom(q, prog)' /\ ExecutableFrom(q, prog)'
               /\ \A r \in Runs \ {q} :
                      output(r) = output(q) /\ ExecutableFrom(r, prog) => ExecutableFrom(r, prog)'
    <2>1. FileFrom(q, prog)'
      BY <1>1, <1>2 DEF FileFrom, IInv, Provenance
    <2>2. ExecutableFrom(q, prog)'
      BY DEF ExecutableFrom
    <2>3. \A r \in Runs \ {q} : ExecutableFrom(r, prog) => ExecutableFrom(r, prog)'
      BY <1>1 DEF ExecutableFrom, Built
    <2> QED
      BY <1>2, <2>1, <2>2, <2>3
  <1> QED
    BY <1>2, StepFrame
-------------------------------------------------------------------------------
LEMMA InitEstablishes == Init => IInv
  <1> SUFFICES ASSUME Init PROVE IInv
    OBVIOUS
  <1>1. Shape
    BY DEF Init, Shape, Before
  <1>2. \A p \in Runs : pc[p] = "options" /\ ~Built(p)
    BY NoneAssumption DEF Init, Built
  <1>3. Placed
    BY <1>2 DEF Init, Placed, Before, After, Source, Programs
  <1>4. Provenance
    BY <1>2 DEF Init, Provenance, FileFrom, InputFrom, ExecutableFrom, Source
  <1> QED
    BY <1>1, <1>3, <1>4 DEF IInv

(* The steps that touch no file: five handlers and a kill.                 *)
LEMMA OptionsKeep ==
    ASSUME IInv, NEW q \in Runs, ParseOptions(q)
    PROVE  IInv'
  <1>1. Shape'
    BY DEF ParseOptions, Exit, Goto, IInv, Shape, Before, After
  <1>2. \A r \in Runs : c_path(r)' = c_path(r)
    BY DEF ParseOptions, output, c_path, rl_strip_ext
  <1>3. ~(pc'[q] = "cleanup" \/ Built(q)')
    BY NoneAssumption DEF ParseOptions, Exit, Goto, IInv, Shape, Placed, Built
  <1>4. Placed'
    BY <1>2, <1>3 DEF ParseOptions, Exit, Goto, IInv, Shape, Placed, Before, After, Built
  <1>5. pc'[q] # "link"
    BY DEF ParseOptions, Exit, Goto, IInv, Shape
  <1>6. /\ job' = job /\ fs' = fs /\ source' = source
        /\ \A r \in Runs \ {q} : pc'[r] = pc[r] /\ input'[r] = input[r] /\ code'[r] = code[r]
    BY DEF ParseOptions, Exit, Goto, IInv, Shape
  <1> QED
    BY <1>1, <1>3, <1>4, <1>5, <1>6, QuietFrame DEF InputFrom

LEMMA ResolveKeeps ==
    ASSUME IInv, NEW q \in Runs, ResolveAndGenerate(q)
    PROVE  IInv'
  <1>1. source[q] = None /\ (source'[q] \in Programs \/ source' = source)
    BY DEF ResolveAndGenerate, Readable, IInv, Shape, Placed, Before
  <1>2. Shape'
    BY <1>1 DEF ResolveAndGenerate, Exit, Goto, IInv, Shape, Before, After
  <1>3. \A r \in Runs : c_path(r)' = c_path(r)
    BY DEF ResolveAndGenerate, output, c_path, rl_strip_ext
  <1>4. ~(pc'[q] = "cleanup" \/ Built(q)')
    BY NoneAssumption DEF ResolveAndGenerate, Exit, Goto, IInv, Shape, Placed, Built
  <1>5. Placed'
    <2>1. \/ /\ pc' = [pc EXCEPT ![q] = "open"] /\ code' = code /\ source'[q] \in Programs
             /\ \A r \in Runs \ {q} : source'[r] = source[r]
          \/ pc' = [pc EXCEPT ![q] = "exited"] /\ source' = source
             /\ \A r \in Runs \ {q} : code'[r] = code[r]
      BY DEF ResolveAndGenerate, Readable, Exit, Goto, IInv, Shape, Placed
    <2>2. fs' = fs /\ job' = job /\ linked' = linked /\ pc[q] = "resolve"
      BY DEF ResolveAndGenerate
    <2>3. \A r \in Runs : pc'[r] = IF r = q THEN pc'[q] ELSE pc[r]
      BY <2>1 DEF IInv, Shape
    <2>4. pc'[q] \in {"open", "exited"}
      BY <2>1 DEF IInv, Shape
    <2>5. \A n \in DOMAIN fs' : fs'[n].kind = "source" => fs'[n].prog \in Programs
      BY <2>2 DEF IInv, Placed
    <2>6. ASSUME NEW r \in Runs \ {q}
          PROVE  /\ pc'[r] = pc[r] /\ source'[r] = source[r] /\ code'[r] = code[r]
                 /\ Built(r)' <=> Built(r)
      BY <2>1, <2>2, <2>3 DEF Built
    <2>7. pc'[q] = "open" => code'[q] = code[q] /\ source'[q] \in Programs
      BY <2>1 DEF IInv, Shape
    <2>8. job[q].args = "ok" \/ pc'[q] = "exited"
      BY <2>2 DEF IInv, Placed
    <2> QED
      BY <1>3, <1>4, <2>2, <2>3, <2>4, <2>5, <2>6, <2>7, <2>8 DEF IInv, Placed, Before, After
  <1>6. pc'[q] # "link"
    BY DEF ResolveAndGenerate, Exit, Goto, IInv, Shape
  <1>7. /\ job' = job /\ fs' = fs
        /\ \A r \in Runs : source'[r] = source[r] \/ source[r] = None
        /\ \A r \in Runs \ {q} : pc'[r] = pc[r] /\ input'[r] = input[r] /\ code'[r] = code[r]
    BY <1>1 DEF ResolveAndGenerate, Exit, Goto, IInv, Shape
  <1> QED
    BY <1>2, <1>4, <1>5, <1>6, <1>7, QuietFrame DEF InputFrom

LEMMA CloseKeeps ==
    ASSUME IInv, NEW q \in Runs, CloseGenerated(q)
    PROVE  IInv'
  <1>1. Shape'
    BY DEF CloseGenerated, AfterClose, Exit, Goto, IInv, Shape, Before, After
  <1>2. \A r \in Runs : c_path(r)' = c_path(r)
    BY DEF CloseGenerated, output, c_path, rl_strip_ext
  <1>3. ~(pc'[q] = "cleanup" \/ Built(q)')
    BY NoneAssumption DEF CloseGenerated, AfterClose, Exit, Goto, IInv, Shape, Placed, Built
  <1>4. Placed'
    BY <1>2, <1>3
    DEF CloseGenerated, AfterClose, Exit, Goto, IInv, Shape, Placed, Before, After, Built
  <1>5. pc'[q] # "link"
    BY DEF CloseGenerated, AfterClose, Exit, Goto, IInv, Shape
  <1>6. /\ job' = job /\ fs' = fs /\ source' = source
        /\ \A r \in Runs \ {q} : pc'[r] = pc[r] /\ input'[r] = input[r] /\ code'[r] = code[r]
    BY DEF CloseGenerated, AfterClose, Exit, Goto, IInv, Shape
  <1> QED
    BY <1>1, <1>3, <1>4, <1>5, <1>6, QuietFrame DEF InputFrom

LEMMA ReadKeeps ==
    ASSUME IInv, NEW q \in Runs, CompilerReads(q)
    PROVE  IInv'
  <1>1. Shape'
    BY DEF CompilerReads, Exit, Goto, IInv, Shape, Before, After
  <1>2. \A r \in Runs : c_path(r)' = c_path(r)
    BY DEF CompilerReads, output, c_path, rl_strip_ext
  <1>3. ~(pc'[q] = "cleanup" \/ Built(q)')
    BY NoneAssumption DEF CompilerReads, Exit, Goto, IInv, Shape, Placed, Built
  <1>4. Placed'
    BY <1>2, <1>3 DEF CompilerReads, Exit, Goto, IInv, Shape, Placed, Before, After, Built
  <1>5. ASSUME NEW prog \in Programs, OnlyFor(q, prog)
        PROVE  InputFrom(q, prog)'
    BY <1>5 DEF CompilerReads, Generated, Exit, Goto, IInv, Shape, Provenance, FileFrom, InputFrom
  <1>6. /\ job' = job /\ fs' = fs /\ source' = source
        /\ \A r \in Runs \ {q} : pc'[r] = pc[r] /\ input'[r] = input[r] /\ code'[r] = code[r]
    BY DEF CompilerReads, Exit, Goto, IInv, Shape
  <1> QED
    BY <1>1, <1>3, <1>4, <1>5, <1>6, QuietFrame

LEMMA KillKeeps ==
    ASSUME IInv, NEW q \in Runs, Kill(q)
    PROVE  IInv'
  <1>1. Shape'
    BY DEF Kill, Exit, IInv, Shape, Before, After
  <1>2. \A r \in Runs : c_path(r)' = c_path(r)
    BY DEF Kill, output, c_path, rl_strip_ext
  <1>3. ~(pc'[q] = "cleanup" \/ Built(q)')
    BY DEF Kill, Exit, Killed, IInv, Shape, Built
  <1>4. Placed'
    BY <1>2, <1>3 DEF Kill, Exit, IInv, Shape, Placed, Before, After, Built
  <1>5. pc'[q] # "link"
    BY DEF Kill, Exit, IInv, Shape
  <1>6. /\ job' = job /\ fs' = fs /\ source' = source
        /\ \A r \in Runs \ {q} : pc'[r] = pc[r] /\ input'[r] = input[r] /\ code'[r] = code[r]
    BY DEF Kill, Exit, IInv, Shape
  <1> QED
    BY <1>1, <1>3, <1>4, <1>5, <1>6, QuietFrame DEF InputFrom
-------------------------------------------------------------------------------
(***************************************************************************)
(* fopen: the generated file is empty, for every run that uses its name,   *)
(* and the executable next to it is untouched.                             *)
(***************************************************************************)
LEMMA OpenKeeps ==
    ASSUME IInv, NEW q \in Runs, OpenGenerated(q)
    PROVE  IInv'
  <1>1. Shape'
    BY DEF OpenGenerated, Exit, Goto, IInv, Shape, Before, After
  <1>2. \A r \in Runs : c_path(r)' = c_path(r) /\ output(r)' = output(r)
    BY DEF OpenGenerated, output, c_path, rl_strip_ext
  <1>3. ~(pc'[q] = "cleanup" \/ Built(q)')
    BY NoneAssumption DEF OpenGenerated, Exit, Goto, IInv, Shape, Placed, Built
  <1>4. /\ job' = job /\ source' = source /\ pc'[q] # "link"
        /\ \A r \in Runs \ {q} : pc'[r] = pc[r] /\ input'[r] = input[r] /\ code'[r] = code[r]
    BY DEF OpenGenerated, Exit, Goto, IInv, Shape
  <1>5. CASE fs' = fs
    <2>1. Placed'
      BY <1>2, <1>3, <1>5 DEF OpenGenerated, WithFile, CText, Exit, Goto, IInv, Shape, Placed, Before, After, Built
    <2> QED
      BY <1>1, <1>3, <1>4, <1>5, <2>1, QuietFrame DEF InputFrom
  <1>6. CASE /\ fs' = WithFile(c_path(q), CText(<<>>))
             /\ pc' = [pc EXCEPT ![q] = "write"] /\ code' = code
             /\ linked' = [linked EXCEPT ![q] = TRUE]
    <2>1. /\ c_path(q) \in DOMAIN fs' /\ fs'[c_path(q)] = CText(<<>>)
          /\ \A n : n # c_path(q) => (n \in DOMAIN fs' <=> n \in DOMAIN fs)
          /\ \A n : n # c_path(q) /\ n \in DOMAIN fs => fs'[n] = fs[n]
      BY <1>6, PutFacts
    <2>2. CText(<<>>).kind = "c" /\ CText(<<>>).blocks = <<>>
      BY DEF CText
    <2>3. \A n \in DOMAIN fs' : fs'[n].kind = "source" => fs'[n].prog \in Programs
      BY <2>1, <2>2 DEF IInv, Placed
    <2>4. \A r \in Runs : linked'[r] => c_path(r) \in DOMAIN fs' /\ fs'[c_path(r)].kind = "c"
      BY <1>6, <2>1, <2>2 DEF IInv, Placed, Shape
    <2>5. pc[q] = "open"
      BY DEF OpenGenerated
    <2>6. Placed'
      BY <1>2, <1>3, <1>4, <1>6, <2>3, <2>4, <2>5 DEF IInv, Shape, Placed, Before, After, Built
    <2>7. ASSUME NEW prog \in Programs, OnlyFor(q, prog)
          PROVE  /\ FileFrom(q, prog)' /\ InputFrom(q, prog)' /\ ExecutableFrom(q, prog)'
                 /\ \A r \in Runs \ {q} :
                        output(r) = output(q) /\ ExecutableFrom(r, prog) => ExecutableFrom(r, prog)'
      <3>1. FileFrom(q, prog)' /\ InputFrom(q, prog)' /\ ExecutableFrom(q, prog)'
        BY <1>2, <1>3, <1>4, <2>1, <2>2, NothingIsPart DEF FileFrom, InputFrom, ExecutableFrom
      <3>2. output(q) # c_path(q)
        BY Names DEF IInv, Shape
      <3>3. \A r \in Runs \ {q} :
                output(r) = output(q) /\ ExecutableFrom(r, prog) => ExecutableFrom(r, prog)'
        BY <1>2, <1>4, <2>1, <3>2 DEF ExecutableFrom, Built
      <3> QED
        BY <3>1, <3>3
    <2>8. \A n : n \notin Written(q) =>
              (n \in DOMAIN fs' <=> n \in DOMAIN fs) /\ (n \in DOMAIN fs => fs'[n] = fs[n])
      BY <2>1 DEF Written
    <2> QED
      BY <1>1, <1>4, <2>6, <2>7, <2>8, StepFrame
  <1> QED
    BY <1>5, <1>6 DEF OpenGenerated, Goto

(***************************************************************************)
(* fwrite: the block is one of the program that every run which uses the   *)
(* name compiles, and the file it goes to is still generated C.            *)
(***************************************************************************)
LEMMA WriteKeeps ==
    ASSUME IInv, NEW q \in Runs, WriteBlock(q)
    PROVE  IInv'
  <1> DEFINE old == fs[c_path(q)].blocks
             k == offset[q] + 1
             new == CText(PutBlock(old, k, <<source[q].id, k>>))
  <1>1. Shape'
    BY DEF WriteBlock, Exit, Goto, IInv, Shape, Before, After
  <1>2. \A r \in Runs : c_path(r)' = c_path(r) /\ output(r)' = output(r)
    BY DEF WriteBlock, output, c_path, rl_strip_ext
  <1>3. ~(pc'[q] = "cleanup" \/ Built(q)')
    BY NoneAssumption DEF WriteBlock, Exit, Goto, IInv, Shape, Placed, Built
  <1>4. /\ job' = job /\ source' = source /\ pc'[q] # "link" /\ code' = code /\ linked' = linked
        /\ \A r \in Runs \ {q} : pc'[r] = pc[r] /\ input'[r] = input[r]
        /\ pc[q] = "write" /\ pc'[q] \in {"write", "close"}
    BY DEF WriteBlock, Goto, IInv, Shape
  <1>5. CASE fs' = fs
    <2>1. Placed'
      BY <1>2, <1>3, <1>4, <1>5 DEF IInv, Shape, Placed, Before, After, Built
    <2> QED
      BY <1>1, <1>3, <1>4, <1>5, <2>1, QuietFrame DEF InputFrom
  <1>6. CASE linked[q] /\ fs' = WithFile(c_path(q), new)
    <2>1. /\ c_path(q) \in DOMAIN fs' /\ fs'[c_path(q)] = new
          /\ \A n : n # c_path(q) => (n \in DOMAIN fs' <=> n \in DOMAIN fs)
          /\ \A n : n # c_path(q) /\ n \in DOMAIN fs => fs'[n] = fs[n]
      BY <1>6, PutFacts
    <2>2. new.kind = "c" /\ new.blocks = PutBlock(old, k, <<source[q].id, k>>)
      BY DEF CText
    <2> HIDE DEF new, old, k
    <2>3. \A n \in DOMAIN fs' : fs'[n].kind = "source" => fs'[n].prog \in Programs
      BY <2>1, <2>2 DEF IInv, Placed
    <2>4. \A r \in Runs : linked'[r] => c_path(r) \in DOMAIN fs' /\ fs'[c_path(r)].kind = "c"
      BY <1>4, <2>1, <2>2 DEF IInv, Placed, Shape
    <2>5. Placed'
      BY <1>2, <1>3, <1>4, <2>3, <2>4 DEF IInv, Shape, Placed, Before, After, Built
    <2>6. ASSUME NEW prog \in Programs, OnlyFor(q, prog)
          PROVE  /\ FileFrom(q, prog)' /\ InputFrom(q, prog)' /\ ExecutableFrom(q, prog)'
                 /\ \A r \in Runs \ {q} :
                        output(r) = output(q) /\ ExecutableFrom(r, prog) => ExecutableFrom(r, prog)'
      <3>1. source[q] = prog
        BY <1>4, <2>6, ProgramFacts DEF OnlyFor, Written, IInv, Placed, After
      <3>2. PartOf(old, prog)
        BY <1>6, <2>6 DEF IInv, Placed, Provenance, FileFrom, old
      <3>3. k \in Nat \ {0}
        BY DEF k, IInv, Shape
      <3>4. PartOf(new.blocks, prog)
        BY <2>2, <3>1, <3>2, <3>3, BlockIsPart
      <3>5. FileFrom(q, prog)' /\ InputFrom(q, prog)' /\ ExecutableFrom(q, prog)'
        BY <1>2, <1>3, <1>4, <2>1, <3>4 DEF FileFrom, InputFrom, ExecutableFrom
      <3>6. output(q) # c_path(q)
        BY Names DEF IInv, Shape
      <3>7. \A r \in Runs \ {q} :
                output(r) = output(q) /\ ExecutableFrom(r, prog) => ExecutableFrom(r, prog)'
        BY <1>2, <1>4, <2>1, <3>6 DEF ExecutableFrom, Built
      <3> QED
        BY <3>5, <3>7
    <2>7. \A n : n \notin Written(q) =>
              (n \in DOMAIN fs' <=> n \in DOMAIN fs) /\ (n \in DOMAIN fs => fs'[n] = fs[n])
      BY <2>1 DEF Written
    <2> QED
      BY <1>1, <1>4, <2>5, <2>6, <2>7, StepFrame
  <1> QED
    BY <1>5, <1>6 DEF WriteBlock

(***************************************************************************)
(* The C compiler's verdict: the executable it writes is that of the whole *)
(* program, for every run that puts one there.                             *)
(***************************************************************************)
LEMMA EndKeeps ==
    ASSUME IInv, NEW q \in Runs, CompilerEnds(q)
    PROVE  IInv'
  <1>1. Shape'
    BY DEF CompilerEnds, Unlinked, Exit, Goto, IInv, Shape, Before, After
  <1>2. \A r \in Runs : c_path(r)' = c_path(r) /\ output(r)' = output(r)
    BY DEF CompilerEnds, output, c_path, rl_strip_ext
  <1>3. /\ job' = job /\ source' = source /\ pc'[q] # "link" /\ pc[q] = "link" /\ ~Built(q)'
        /\ \A r \in Runs \ {q} : pc'[r] = pc[r] /\ input'[r] = input[r] /\ code'[r] = code[r]
    BY NoneAssumption DEF CompilerEnds, Exit, Goto, IInv, Shape, Placed, Built
  <1>4. CASE fs' = fs /\ linked' = linked /\ pc' = [pc EXCEPT ![q] = "exited"]
    <2>1. pc'[q] = "exited"
      BY <1>4 DEF IInv, Shape
    <2>2. Placed'
      BY <1>2, <1>3, <1>4, <2>1 DEF IInv, Shape, Placed, Before, After, Built
    <2> QED
      BY <1>1, <1>3, <1>4, <2>1, <2>2, QuietFrame DEF InputFrom
  <1>5. CASE /\ MayCompile(input[q]) /\ fs' = WithFile(output(q), Executable(input[q]))
             /\ linked' = Unlinked(output(q))
             /\ pc' = [pc EXCEPT ![q] = "cleanup"] /\ code' = code
    <2>1. /\ output(q) \in DOMAIN fs' /\ fs'[output(q)] = Executable(input[q])
          /\ \A n : n # output(q) => (n \in DOMAIN fs' <=> n \in DOMAIN fs)
          /\ \A n : n # output(q) /\ n \in DOMAIN fs => fs'[n] = fs[n]
      BY <1>5, PutFacts
    <2>2. Executable(input[q]).kind = "exe"
      BY DEF Executable
    <2>3. \A n \in DOMAIN fs' : fs'[n].kind = "source" => fs'[n].prog \in Programs
      BY <2>1, <2>2 DEF IInv, Placed
    <2>4. \A r \in Runs : linked'[r] => c_path(r) \in DOMAIN fs' /\ fs'[c_path(r)].kind = "c"
      BY <1>5, <2>1, <2>2 DEF IInv, Placed, Unlinked
    <2>5. Placed'
      BY <1>2, <1>3, <1>5, <2>3, <2>4 DEF IInv, Shape, Placed, Before, After, Built
    <2>6. ASSUME NEW prog \in Programs, OnlyFor(q, prog)
          PROVE  /\ FileFrom(q, prog)' /\ InputFrom(q, prog)' /\ ExecutableFrom(q, prog)'
                 /\ \A r \in Runs \ {q} :
                        output(r) = output(q) /\ ExecutableFrom(r, prog) => ExecutableFrom(r, prog)'
      <3>1. PartOf(input[q], prog)
        BY <1>3, <2>6 DEF IInv, Provenance, InputFrom
      <3>2. fs'[output(q)] = Executable(Whole(prog))
        BY <1>5, <2>1, <3>1, AcceptedIsWhole
      <3>3. output(q) # c_path(q)
        BY Names DEF IInv, Shape
      <3>4. FileFrom(q, prog)
        BY <2>6 DEF IInv, Provenance
      <3>5. FileFrom(q, prog)' /\ InputFrom(q, prog)' /\ ExecutableFrom(q, prog)'
        BY <1>2, <1>3, <2>1, <3>2, <3>3, <3>4 DEF FileFrom, InputFrom, ExecutableFrom
      <3>6. \A r \in Runs \ {q} : output(r) = output(q) => ExecutableFrom(r, prog)'
        BY <1>2, <2>1, <3>2 DEF ExecutableFrom
      <3> QED
        BY <3>5, <3>6
    <2>7. \A n : n \notin Written(q) =>
              (n \in DOMAIN fs' <=> n \in DOMAIN fs) /\ (n \in DOMAIN fs => fs'[n] = fs[n])
      BY <2>1 DEF Written
    <2> QED
      BY <1>1, <1>3, <2>5, <2>6, <2>7, StepFrame
  <1> QED
    BY <1>4, <1>5 DEF CompilerEnds, Exit, Goto

(* remove: what disappears is the generated file, not the executable.      *)
LEMMA CleanUpKeeps ==
    ASSUME IInv, NEW q \in Runs, CleanUp(q)
    PROVE  IInv'
  <1>1. Shape'
    BY DEF CleanUp, Unlinked, Exit, IInv, Shape, Before, After
  <1>2. \A r \in Runs : c_path(r)' = c_path(r) /\ output(r)' = output(r)
    BY DEF CleanUp, output, c_path, rl_strip_ext
  <1>3. /\ job' = job /\ source' = source /\ pc[q] = "cleanup" /\ pc'[q] = "exited"
        /\ \A r \in Runs \ {q} : pc'[r] = pc[r] /\ input'[r] = input[r] /\ code'[r] = code[r]
    BY DEF CleanUp, Exit, IInv, Shape
  <1>4. /\ \A n : n # c_path(q) => (n \in DOMAIN fs' <=> n \in DOMAIN fs)
        /\ \A n : n # c_path(q) /\ n \in DOMAIN fs => fs'[n] = fs[n]
        /\ c_path(q) \in DOMAIN fs' => fs' = fs
    BY RemoveFacts DEF CleanUp
  <1>5. \A r \in Runs : linked'[r] => linked[r] /\ (fs' = fs \/ c_path(r) # c_path(q))
    BY DEF CleanUp, Unlinked
  <1>6. \A n \in DOMAIN fs' : n \in DOMAIN fs /\ fs'[n] = fs[n]
    BY <1>4
  <1>7. \A r \in Runs : linked'[r] => c_path(r) \in DOMAIN fs' /\ fs'[c_path(r)].kind = "c"
    BY <1>4, <1>5 DEF IInv, Placed
  <1>8. Placed'
    BY <1>2, <1>3, <1>6, <1>7 DEF IInv, Shape, Placed, Before, After, Built
  <1>9. ASSUME NEW prog \in Programs, OnlyFor(q, prog)
        PROVE  /\ FileFrom(q, prog)' /\ InputFrom(q, prog)' /\ ExecutableFrom(q, prog)'
               /\ \A r \in Runs \ {q} :
                      output(r) = output(q) /\ ExecutableFrom(r, prog) => ExecutableFrom(r, prog)'
    <2>1. FileFrom(q, prog) /\ ExecutableFrom(q, prog)
      BY <1>9 DEF IInv, Provenance
    <2>2. output(q) # c_path(q)
      BY Names DEF IInv, Shape
    <2>3. FileFrom(q, prog)' /\ InputFrom(q, prog)' /\ ExecutableFrom(q, prog)'
      BY <1>2, <1>3, <1>4, <1>6, <2>1, <2>2 DEF FileFrom, InputFrom, ExecutableFrom
    <2>4. \A r \in Runs \ {q} :
              output(r) = output(q) /\ ExecutableFrom(r, prog) => ExecutableFrom(r, prog)'
      BY <1>2, <1>3, <1>4, <2>2 DEF ExecutableFrom, Built
    <2> QED
      BY <2>3, <2>4
  <1>10. \A n : n \notin Written(q) =>
             (n \in DOMAIN fs' <=> n \in DOMAIN fs) /\ (n \in DOMAIN fs => fs'[n] = fs[n])
    BY <1>4 DEF Written
  <1> QED
    BY <1>1, <1>3, <1>8, <1>9, <1>10, StepFrame
-------------------------------------------------------------------------------
LEMMA StepKeeps == IInv /\ [Next]_vars => IInv'
  <1> SUFFICES ASSUME IInv, [Next]_vars PROVE IInv'
    OBVIOUS
  <1>1. CASE UNCHANGED vars
    BY <1>1 DEF vars, IInv, Shape, Placed, Provenance, OnlyFor, FileFrom, InputFrom, ExecutableFrom,
        Built, Written, output, c_path, rl_strip_ext
  <1>2. ASSUME NEW q \in Runs, Step(q) \/ Kill(q)
        PROVE  IInv'
    BY <1>2, OptionsKeep, ResolveKeeps, OpenKeeps, WriteKeeps, CloseKeeps, ReadKeeps, EndKeeps,
        CleanUpKeeps, KillKeeps DEF Step
  <1> QED
    BY <1>1, <1>2 DEF Next

(* A run that has built and was not disturbed is one of OnlyFor.           *)
LEMMA InvariantSuffices == IInv => SuccessMeansBuilt
  <1> SUFFICES ASSUME IInv, NEW p \in Runs, Built(p), Undisturbed(p)
               PROVE  output(p) \in DOMAIN fs /\ fs[output(p)] = Executable(Whole(source[p]))
    BY DEF SuccessMeansBuilt
  <1>1. source[p] \in Programs
    BY DEF IInv, Placed
  <1>2. OnlyFor(p, source[p])
    BY DEF Undisturbed, OnlyFor
  <1> QED
    BY <1>1, <1>2 DEF IInv, Provenance, ExecutableFrom

(***************************************************************************)
(* main() returns 0 only when the executable of the program it read is in  *)
(* place, whatever other runs do in the directory, which of them are       *)
(* killed and which writes fail, unless they build something else there.   *)
(***************************************************************************)
THEOREM ExitZeroMeansBuilt == Spec => []SuccessMeansBuilt
  <1>1. Spec => []IInv
    BY InitEstablishes, StepKeeps, PTL DEF Spec
  <1> QED
    BY <1>1, InvariantSuffices, PTL
-------------------------------------------------------------------------------
(***************************************************************************)
(* The files beside the executable.  A file that holds C holds nothing     *)
(* else, a source is where it was, and a run whose names are its own finds *)
(* in the generated file what it wrote.                                    *)
(***************************************************************************)
PlainC == \A n \in DOMAIN fs : fs[n].kind = "c" => fs[n] = CText(fs[n].blocks)

SourcesPlaced ==
    /\ \A n \in DOMAIN fs : fs[n].kind = "source" => n \in DOMAIN Sources
    /\ \A p \in Runs : source[p] # None => job[p].input \in DOMAIN Sources

(* The generated file of p holds blocks.                                   *)
Holds(p, blocks) == c_path(p) \in DOMAIN fs /\ fs[c_path(p)] = CText(blocks)

OwnFile(p) ==
    /\ pc[p] = "link" => Holds(p, input[p])
    /\ pc[p] = "cleanup" => Holds(p, Whole(source[p]))
    /\ Built(p) => \/ Holds(p, Whole(source[p])) /\ (job[p].keep_intermediate \/ Faults)
                   \/ c_path(p) \notin DOMAIN fs /\ ~job[p].keep_intermediate

OwnFiles == \A p \in Runs : Alone(p) => OwnFile(p)

FInv == PlainC /\ SourcesPlaced /\ OwnFiles /\ SourcesSurvive

(* What any step of q may do to the files, and to what other runs know.    *)
Touches(q) ==
    /\ job' = job
    /\ \A r \in Runs \ {q} : pc'[r] = pc[r] /\ source'[r] = source[r] /\ input'[r] = input[r] /\ code'[r] = code[r]
    /\ \A n : n \notin Written(q) =>
           (n \in DOMAIN fs' <=> n \in DOMAIN fs) /\ (n \in DOMAIN fs => fs'[n] = fs[n])
    /\ \A n \in DOMAIN fs' :
           \/ n \in DOMAIN fs /\ fs'[n] = fs[n]
           \/ \E blocks : fs'[n] \in {CText(blocks), Executable(blocks)}
    /\ fs' = fs \/ source[q] \in Programs
    /\ source'[q] = source[q] \/ Readable(q)

LEMMA QuietTouches ==
    ASSUME Shape, NEW q \in Runs,
           \/ ParseOptions(q) \/ ResolveAndGenerate(q) \/ CloseGenerated(q)
           \/ CompilerReads(q) \/ Kill(q)
    PROVE  Touches(q)
  BY DEF Touches, Shape, ParseOptions, ResolveAndGenerate, CloseGenerated, AfterClose,
         CompilerReads, Kill, Exit, Goto

LEMMA StepTouches ==
    ASSUME Shape, Placed, NEW q \in Runs, Step(q) \/ Kill(q)
    PROVE  Touches(q)
  <1>1. CASE OpenGenerated(q) \/ WriteBlock(q) \/ CompilerEnds(q) \/ CleanUp(q)
    <2>1. source[q] \in Programs
      BY <1>1 DEF Placed, After, OpenGenerated, WriteBlock, CompilerEnds, CleanUp
    <2>2. /\ job' = job /\ source' = source /\ input' = input
          /\ \A r \in Runs \ {q} : pc'[r] = pc[r] /\ code'[r] = code[r]
      BY <1>1 DEF OpenGenerated, WriteBlock, CompilerEnds, CleanUp, Exit, Goto, Shape
    <2>3. \/ fs' = fs
          \/ \E n \in Written(q) : \E blocks : fs' = WithFile(n, CText(blocks)) \/ fs' = WithFile(n, Executable(blocks))
          \/ \E n \in Written(q) : fs' = WithoutFile(n)
      BY <1>1 DEF OpenGenerated, WriteBlock, CompilerEnds, CleanUp, Written
    <2>4. CASE fs' = fs
      BY <2>1, <2>2, <2>4 DEF Touches
    <2>5. ASSUME NEW n \in Written(q), NEW blocks, NEW content,
                 content \in {CText(blocks), Executable(blocks)}, fs' = WithFile(n, content)
          PROVE  Touches(q)
      <3>1. /\ n \in DOMAIN fs' /\ fs'[n] = content
            /\ \A m : m # n => (m \in DOMAIN fs' <=> m \in DOMAIN fs)
            /\ \A m : m # n /\ m \in DOMAIN fs => fs'[m] = fs[m]
        BY <2>5, PutFacts
      <3> QED
        BY <2>1, <2>2, <2>5, <3>1 DEF Touches
    <2>6. ASSUME NEW n \in Written(q), fs' = WithoutFile(n)
          PROVE  Touches(q)
      <3>1. /\ n \notin DOMAIN fs'
            /\ \A m : m # n => (m \in DOMAIN fs' <=> m \in DOMAIN fs)
            /\ \A m : m # n /\ m \in DOMAIN fs => fs'[m] = fs[m]
        BY <2>6, RemoveFacts
      <3> QED
        BY <2>1, <2>2, <3>1 DEF Touches
    <2> QED
      BY <2>3, <2>4, <2>5, <2>6
  <1> QED
    BY <1>1, QuietTouches DEF Step

(* What is left of a source's name, or ends in .gen.c, is not a source's.  *)
LEMMA NamesFree ==
    ASSUME Shape, SourcesPlaced, Named, NEW q \in Runs, source[q] # None,
           job[q].output \notin DOMAIN Sources
    PROVE  Written(q) \cap DOMAIN Sources = {}
  <1>1. /\ job[q].input \in Seq(STRING) /\ (job[q].output = None \/ job[q].output \in Seq(STRING))
        /\ job[q].input \in DOMAIN Sources
    BY JobsAssumption DEF Shape, SourcesPlaced
  <1> DEFINE in == job[q].input
  <1>2. Len(in) > 1 /\ Last(Front(in)) # "rtl"
    BY <1>1 DEF Named
  <1>3. Front(in) \in Seq(STRING)
    <2>1. Len(in) \in Nat /\ SubSeq(in, 1, Len(in) - 1) \in Seq(STRING)
      BY <1>1, <1>2
    <2> QED
      BY <2>1 DEF Front
  <1>4. output(q) \in Seq(STRING) /\ output(q) \notin DOMAIN Sources
    <2>1. rl_strip_ext(in) = Front(in)
      BY <1>2 DEF rl_strip_ext
    <2>2. Front(in) \notin DOMAIN Sources
      BY <1>2 DEF Named
    <2> QED
      BY <1>1, <1>3, <2>1, <2>2 DEF output
  <1>5. c_path(q) \notin DOMAIN Sources
    <2>1. Last(c_path(q)) = "c"
      <3> DEFINE o == output(q)
      <3>1. o \in Seq(STRING)
        BY <1>4
      <3> HIDE DEF o
      <3>2. LET c == o \o <<"gen", "c">> IN c[Len(c)] = "c"
        BY <3>1
      <3> QED
        BY <3>2 DEF c_path, o, Last
    <2> QED
      BY <2>1 DEF Named
  <1> QED
    BY <1>4, <1>5 DEF Written

(* The names of a run depend on its command line only.                     *)
LEMMA NamesStay ==
    ASSUME job' = job
    PROVE  \A r \in Runs : /\ output(r)' = output(r) /\ c_path(r)' = c_path(r)
                           /\ Written(r)' = Written(r) /\ (Alone(r)' <=> Alone(r))
  BY DEF Alone, Written, output, c_path, rl_strip_ext

LEMMA InitFiles == Init => FInv
  <1> SUFFICES ASSUME Init PROVE FInv
    OBVIOUS
  <1>1. \A p \in Runs : pc[p] = "options" /\ ~Built(p) /\ source[p] = None
    BY NoneAssumption DEF Init, Built
  <1>2. \A n \in DOMAIN fs : n \in DOMAIN Sources /\ fs[n].kind = "source" /\ fs[n] = Source(Sources[n])
    BY DEF Init, Source
  <1>3. DOMAIN fs = DOMAIN Sources
    BY DEF Init
  <1> QED
    BY <1>1, <1>2, <1>3 DEF FInv, PlainC, SourcesPlaced, OwnFiles, OwnFile, SourcesSurvive

(* Sources are read, not written; what is written is plain.                *)
LEMMA TouchesSources ==
    ASSUME Shape, PlainC, SourcesPlaced, SourcesSurvive, NEW q \in Runs, Touches(q)
    PROVE  PlainC' /\ SourcesPlaced' /\ SourcesSurvive'
  <1>1. \A n \in DOMAIN fs' :
           \/ n \in DOMAIN fs /\ fs'[n] = fs[n]
           \/ \E blocks : fs'[n] \in {CText(blocks), Executable(blocks)}
    BY DEF Touches
  <1>2. PlainC'
    BY <1>1 DEF PlainC, CText, Executable
  <1>3. SourcesPlaced'
    <2>1. \A n \in DOMAIN fs' : fs'[n].kind = "source" => n \in DOMAIN Sources
      BY <1>1 DEF SourcesPlaced, CText, Executable
    <2>2. source'[q] # None => job[q].input \in DOMAIN Sources
      BY DEF Touches, SourcesPlaced, Readable
    <2> QED
      BY <2>1, <2>2 DEF Touches, SourcesPlaced
  <1>4. SourcesSurvive'
    <2> SUFFICES ASSUME Named, \A p \in Runs : job[p].output \notin DOMAIN Sources,
                        NEW n \in DOMAIN Sources
                 PROVE  n \in DOMAIN fs' /\ fs'[n] = Source(Sources[n])
      BY DEF SourcesSurvive, Touches
    <2>1. n \in DOMAIN fs /\ fs[n] = Source(Sources[n])
      BY DEF SourcesSurvive
    <2>2. CASE fs' = fs
      BY <2>1, <2>2
    <2>3. CASE source[q] \in Programs
      <3>1. n \notin Written(q)
        BY <2>3, NamesFree, ProgramFacts
      <3> QED
        BY <2>1, <3>1 DEF Touches
    <2> QED
      BY <2>2, <2>3 DEF Touches
  <1> QED
    BY <1>2, <1>3, <1>4

(* A run whose names are its own is told nothing by the steps of others.   *)
LEMMA OthersTouch ==
    ASSUME NEW q \in Runs, Touches(q), NEW p \in Runs \ {q}, Alone(p), OwnFile(p)
    PROVE  OwnFile(p)'
  <1>1. c_path(p) \notin Written(q) /\ c_path(p)' = c_path(p)
    BY NamesStay DEF Touches, Alone, Written
  <1> QED
    BY <1>1 DEF Touches, OwnFile, Holds, Built

(* And its own steps find what they left.                                  *)
LEMMA OwnStep ==
    ASSUME IInv, FInv, NEW p \in Runs, Alone(p), Step(p) \/ Kill(p)
    PROVE  OwnFile(p)'
  <1>1. /\ Touches(p) /\ OwnFile(p) /\ Shape /\ Placed /\ PlainC /\ c_path(p)' = c_path(p)
        /\ p \in Runs
    BY StepTouches, NamesStay DEF IInv, FInv, OwnFiles, Touches
  <1>2. CASE ParseOptions(p) \/ ResolveAndGenerate(p) \/ OpenGenerated(p) \/ WriteBlock(p) \/ CloseGenerated(p) \/ Kill(p)
    <2>1. pc'[p] \notin {"link", "cleanup"}
      BY <1>1, <1>2 DEF ParseOptions, ResolveAndGenerate, OpenGenerated, WriteBlock, CloseGenerated,
         AfterClose, Kill, Exit, Goto, Shape
    <2>2. ~Built(p)'
      BY <1>1, <1>2, NoneAssumption
         DEF ParseOptions, ResolveAndGenerate, OpenGenerated, WriteBlock, CloseGenerated,
             AfterClose, Kill, Killed, Exit, Goto, Shape, Placed, Built
    <2> QED
      BY <2>1, <2>2 DEF OwnFile
  <1>3. CASE CompilerReads(p)
    <2>1. fs' = fs /\ pc'[p] # "cleanup" /\ ~Built(p)'
      BY <1>1, <1>3, NoneAssumption DEF CompilerReads, Exit, Goto, Shape, Placed, Built
    <2>2. pc'[p] = "link" => Generated(p) /\ input'[p] = fs[c_path(p)].blocks
      BY <1>1, <1>3 DEF CompilerReads, Exit, Goto, Shape
    <2> QED
      BY <1>1, <2>1, <2>2 DEF OwnFile, Holds, Generated, PlainC
  <1>4. CASE CompilerEnds(p)
    <2>1. source' = source /\ pc'[p] # "link" /\ ~Built(p)' /\ Holds(p, input[p]) /\ source[p] \in Programs
      BY <1>1, <1>4, NoneAssumption DEF CompilerEnds, Exit, Goto, Shape, Placed, After, Built, OwnFile
    <2>2. pc'[p] = "cleanup" => MayCompile(input[p]) /\ fs' = WithFile(output(p), Executable(input[p]))
      BY <1>1, <1>4 DEF CompilerEnds, Exit, Goto, Shape
    <2>3. OnlyFor(p, source[p])
      BY DEF Alone, OnlyFor
    <2>4. PartOf(input[p], source[p])
      BY <1>4, <2>1, <2>3 DEF CompilerEnds, IInv, Provenance, InputFrom
    <2>5. pc'[p] = "cleanup" => input[p] = Whole(source[p])
      BY <2>1, <2>2, <2>4, AcceptedIsWhole
    <2>6. output(p) # c_path(p)
      BY <1>1, Names DEF Shape
    <2>7. pc'[p] = "cleanup" => c_path(p) \in DOMAIN fs' /\ fs'[c_path(p)] = fs[c_path(p)]
      BY <2>1, <2>2, <2>6, PutFacts DEF Holds
    <2> QED
      BY <1>1, <2>1, <2>5, <2>7 DEF OwnFile, Holds
  <1>5. CASE CleanUp(p)
    <2>1. source' = source /\ job' = job /\ pc'[p] = "exited" /\ Holds(p, Whole(source[p]))
      BY <1>1, <1>5 DEF CleanUp, Exit, Shape, OwnFile
    <2>2. CASE fs' = fs /\ (job[p].keep_intermediate \/ Faults)
      BY <1>1, <2>1, <2>2 DEF OwnFile, Holds
    <2>3. CASE fs' = WithoutFile(c_path(p)) /\ ~job[p].keep_intermediate
      <3>1. c_path(p) \notin DOMAIN fs'
        BY <2>3 DEF WithoutFile
      <3> QED
        BY <1>1, <2>1, <2>3, <3>1 DEF OwnFile
    <2> QED
      BY <1>5, <2>2, <2>3 DEF CleanUp
  <1> QED
    BY <1>2, <1>3, <1>4, <1>5 DEF Step

LEMMA StepFiles == IInv /\ FInv /\ [Next]_vars => FInv'
  <1> SUFFICES ASSUME IInv, FInv, [Next]_vars PROVE FInv'
    OBVIOUS
  <1>1. CASE UNCHANGED vars
    <2>1. \A r \in Runs : c_path(r)' = c_path(r) /\ (Alone(r)' <=> Alone(r))
      BY <1>1, NamesStay DEF vars
    <2> QED
      BY <1>1, <2>1 DEF vars, FInv, PlainC, SourcesPlaced, OwnFiles, OwnFile, Holds, Built, SourcesSurvive
  <1>2. ASSUME NEW q \in Runs, Step(q) \/ Kill(q)
        PROVE  FInv'
    <2>1. Touches(q)
      BY <1>2, StepTouches DEF IInv
    <2>2. PlainC' /\ SourcesPlaced' /\ SourcesSurvive'
      BY <2>1, TouchesSources DEF IInv, FInv
    <2>3. ASSUME NEW p \in Runs, Alone(p)' PROVE OwnFile(p)'
      <3>1. Alone(p)
        BY <2>1, <2>3, NamesStay DEF Touches
      <3> QED
        BY <1>2, <2>1, <3>1, OthersTouch, OwnStep DEF FInv, OwnFiles
    <2> QED
      BY <2>2, <2>3 DEF FInv, OwnFiles
  <1> QED
    BY <1>1, <1>2 DEF Next

LEMMA FilesInvariant == Spec => [](IInv /\ FInv)
  <1>1. Init => IInv /\ FInv
    BY InitEstablishes, InitFiles
  <1>2. IInv /\ FInv /\ [Next]_vars => (IInv /\ FInv)'
    BY StepKeeps, StepFiles
  <1> QED
    BY <1>1, <1>2, PTL DEF Spec

(* After a build whose names no other run uses, the generated C is there   *)
(* if --keep asked for it; it is there without --keep only where remove()  *)
(* may fail; and where it is there, it is all there.                       *)
THEOREM KeepMeansKept == Spec => []KeptOnRequest
  <1>1. FInv => KeptOnRequest
    BY DEF FInv, OwnFiles, OwnFile, Holds, KeptOnRequest
  <1> QED
    BY <1>1, FilesInvariant, PTL

(* No number of runs, in any order, writes to a source or removes one, if  *)
(* none names a source as its output and the sources are named as usual.   *)
THEOREM SourcesAreSafe == Spec => []SourcesSurvive
  BY FilesInvariant, PTL DEF FInv
===============================================================================
