-------------------------------- MODULE Driver --------------------------------
(***************************************************************************)
(* src/main.c: what a run of rootc does to the files around it, when other *)
(* runs share the directory, a disk fills up, or a run is killed.          *)
(*                                                                         *)
(* A run reads its sources, writes <output>.gen.c, has the C compiler read *)
(* that file and write <output>, and removes <output>.gen.c.  Nothing      *)
(* locks any of these names, so the steps of two runs interleave freely.   *)
(***************************************************************************)
EXTENDS Naturals, Sequences, SequencesExt, FiniteSets

CONSTANTS
    Runs,       \* the processes
    Jobs,       \* the command lines a run may be given
    Sources,    \* the source files at the start: a function from names to programs
    Faults,     \* whether writes, fopen, remove and the C compiler may fail on their own
    None        \* no -o, nothing read, no exit status yet

(***************************************************************************)
(* A name is the sequence of its '.'-separated parts: app.rtl is           *)
(* <<"app", "rtl">>.  A program has an id, the number of blocks its C text *)
(* is written in, whether the compiler front end accepts it, and whether   *)
(* the C compiler accepts what the front end makes of it.                  *)
(***************************************************************************)
ASSUME SourcesAssumption ==
    \A n \in DOMAIN Sources :
        /\ Sources[n].blocks \in Nat \ {0} /\ {Sources[n].parses, Sources[n].compiles} \subseteq BOOLEAN
        /\ Sources[n] # None
        /\ \A m \in DOMAIN Sources : Sources[m].id = Sources[n].id => Sources[m] = Sources[n]

ASSUME JobsAssumption ==
    \A j \in Jobs : j.input \in Seq(STRING) /\ (j.output = None \/ j.output \in Seq(STRING))

ASSUME NoneAssumption == None # 0

VARIABLES
    fs,         \* the directory: a function from the names that exist to contents
    job,        \* argv of each run
    pc,         \* where in main() each run is
    source,     \* c_source: the program the run generated C for, or None
    offset,     \* the blocks written through cf
    linked,     \* whether the file that cf is open on still has its name
    input,      \* what the C compiler of the run has read, or None
    code        \* the exit status, or None

vars == <<fs, job, pc, source, offset, linked, input, code>>

Source(prog) == [kind |-> "source", prog |-> prog]
CText(blocks) == [kind |-> "c", blocks |-> blocks]
Executable(blocks) == [kind |-> "exe", blocks |-> blocks]

(* The whole C text of a program.  Its last block holds C's main.          *)
Whole(prog) == [k \in 1..prog.blocks |-> <<prog.id, k>>]
Hole == <<None, 0>>

WithFile(name, content) == [n \in DOMAIN fs \cup {name} |-> IF n = name THEN content ELSE fs[n]]
WithoutFile(name) == [n \in DOMAIN fs \ {name} |-> fs[n]]

(* Mutant: the extension is kept.                                          *)
rl_strip_ext_not(name) == name

(* rl_strip_ext: everything before the last '.', or all when there is none *)
rl_strip_ext(name) == IF Len(name) > 1 THEN Front(name) ELSE name

output(p) == IF job[p].output = None THEN rl_strip_ext(job[p].input) ELSE job[p].output
c_path(p) == output(p) \o <<"gen", "c">>

(* Streams open on a file that loses its name, which the linker's output   *)
(* and remove() make it do, write where nobody looks.                      *)
Unlinked(name) == [q \in Runs |-> linked[q] /\ c_path(q) # name]

(* The status the shell reports of a run ended by SIGKILL.                 *)
Killed == 137

Goto(p, label) == pc' = [pc EXCEPT ![p] = label]

Exit(p, status) ==
    /\ pc' = [pc EXCEPT ![p] = "exited"]
    /\ code' = [code EXCEPT ![p] = status]

Init ==
    /\ fs = [n \in DOMAIN Sources |-> Source(Sources[n])]
    /\ job \in [Runs -> Jobs]
    /\ pc = [p \in Runs |-> "options"]
    /\ source = [p \in Runs |-> None]
    /\ offset = [p \in Runs |-> 0]
    /\ linked = [p \in Runs |-> FALSE]
    /\ input = [p \in Runs |-> None]
    /\ code = [p \in Runs |-> None]

(***************************************************************************)
(* The option loop: -h exits 0, an unknown option or a missing input exits *)
(* 2, before anything is read or written.                                  *)
(***************************************************************************)
ParseOptions(p) ==
    /\ pc[p] = "options"
    /\ \/ job[p].args = "help" /\ Exit(p, 0)
       \/ job[p].args \in {"unknown_option", "no_input"} /\ Exit(p, 2)
       \/ job[p].args = "ok" /\ Goto(p, "resolve") /\ UNCHANGED code
    /\ UNCHANGED <<fs, job, source, offset, linked, input>>

(* rl_resolve_program and rl_generate_c, or rl_fatal.                      *)
Readable(p) ==
    /\ job[p].input \in DOMAIN fs
    /\ fs[job[p].input].kind = "source"
    /\ fs[job[p].input].prog.parses

ResolveAndGenerate(p) ==
    /\ pc[p] = "resolve"
    /\ \/ /\ Readable(p)
          /\ source' = [source EXCEPT ![p] = fs[job[p].input].prog]
          /\ Goto(p, "open")
          /\ UNCHANGED code
       \/ /\ ~Readable(p)
          /\ Exit(p, 65)
          /\ UNCHANGED source
    /\ UNCHANGED <<fs, job, offset, linked, input>>

(* fopen(c_path, "wb") creates the file or cuts it to nothing.             *)
OpenGenerated(p) ==
    /\ pc[p] = "open"
    /\ \/ /\ fs' = WithFile(c_path(p), CText(<<>>))
          /\ linked' = [linked EXCEPT ![p] = TRUE]
          /\ Goto(p, "write")
          /\ UNCHANGED code
       \/ /\ Faults
          /\ Exit(p, 65)
          /\ UNCHANGED <<fs, linked>>
    /\ UNCHANGED <<job, source, offset, input>>

(***************************************************************************)
(* fwrite and fclose reach the file one block at a time, each at the       *)
(* stream's own offset: where the file has been cut shorter meanwhile, the *)
(* gap reads as zeros; where it has been removed, the blocks go to a file  *)
(* that no longer has a name.  Neither result is looked at: when a block   *)
(* cannot be written the rest is dropped and main goes on.                 *)
(***************************************************************************)
PutBlock(blocks, k, block) ==
    [i \in 1..(IF Len(blocks) < k THEN k ELSE Len(blocks)) |->
        IF i = k THEN block ELSE IF i <= Len(blocks) THEN blocks[i] ELSE Hole]

WriteBlock(p) ==
    /\ pc[p] = "write"
    /\ offset[p] < source[p].blocks
    /\ \/ /\ offset' = [offset EXCEPT ![p] = @ + 1]
          /\ fs' = IF linked[p]
                   THEN WithFile(c_path(p), CText(PutBlock(fs[c_path(p)].blocks, offset[p] + 1,
                                                        <<source[p].id, offset[p] + 1>>)))
                   ELSE fs
          /\ UNCHANGED pc
       \/ /\ Faults
          /\ Goto(p, "close")
          /\ UNCHANGED <<fs, offset>>
    /\ UNCHANGED <<job, source, linked, input, code>>

(* After fclose: --emit-c reports the file and stops here.                 *)
AfterClose(p) ==
    IF job[p].emit_c_only THEN Exit(p, 0) ELSE Goto(p, "cc") /\ UNCHANGED code

CloseGenerated(p) ==
    /\ \/ pc[p] = "close"
       \/ pc[p] = "write" /\ offset[p] = source[p].blocks
    /\ AfterClose(p)
    /\ UNCHANGED <<fs, job, source, offset, linked, input>>

(* run_or_die: the C compiler opens and reads the generated file ...       *)
Generated(p) == c_path(p) \in DOMAIN fs /\ fs[c_path(p)].kind = "c"

CompilerReads(p) ==
    /\ pc[p] = "cc"
    /\ \/ /\ Generated(p)
          /\ input' = [input EXCEPT ![p] = fs[c_path(p)].blocks]
          /\ Goto(p, "link")
          /\ UNCHANGED code
       \/ /\ ~Generated(p) \/ Faults
          /\ Exit(p, 1)
          /\ UNCHANGED input
    /\ UNCHANGED <<fs, job, source, offset, linked>>

(***************************************************************************)
(* ... and accepts or rejects it.  A text without the block that holds     *)
(* main, or with a gap, does not link; one whose blocks come from several  *)
(* programs may or may not.                                                *)
(***************************************************************************)
Programs == {Sources[n] : n \in DOMAIN Sources}
HasMain(blocks) == \E prog \in Programs : \E k \in DOMAIN blocks : blocks[k] = <<prog.id, prog.blocks>>
MayCompile(blocks) ==
    IF \E prog \in Programs : blocks = Whole(prog)
    THEN \E prog \in Programs : blocks = Whole(prog) /\ prog.compiles
    ELSE HasMain(blocks) /\ Hole \notin ToSet(blocks) /\ Cardinality({b[1] : b \in ToSet(blocks)}) > 1
MustCompile(blocks) == \E prog \in Programs : blocks = Whole(prog) /\ prog.compiles

(* Mutant: the status of system() is not looked at.                        *)
CompilerEndsAnyhow(p) ==
    /\ pc[p] = "link"
    /\ \/ /\ MayCompile(input[p])
          /\ fs' = WithFile(output(p), Executable(input[p]))
          /\ linked' = Unlinked(output(p))
       \/ /\ ~MustCompile(input[p]) \/ Faults
          /\ UNCHANGED <<fs, linked>>
    /\ Goto(p, "cleanup")
    /\ UNCHANGED <<job, source, offset, input, code>>

CompilerEnds(p) ==
    /\ pc[p] = "link"
    /\ \/ /\ MayCompile(input[p])
          /\ fs' = WithFile(output(p), Executable(input[p]))
          /\ linked' = Unlinked(output(p))
          /\ Goto(p, "cleanup")
          /\ UNCHANGED code
       \/ /\ ~MustCompile(input[p]) \/ Faults
          /\ Exit(p, 1)
          /\ UNCHANGED <<fs, linked>>
    /\ UNCHANGED <<job, source, offset, input>>

(* Mutant: the generated file is removed whether or not --keep was given.  *)
CleanUpAlways(p) ==
    /\ pc[p] = "cleanup"
    /\ Exit(p, 0)
    /\ fs' = WithoutFile(c_path(p))
    /\ linked' = Unlinked(c_path(p))
    /\ UNCHANGED <<job, source, offset, input>>

(* remove(c_path) unless --keep.  Its result is not looked at: a run whose *)
(* remove fails leaves the file and exits 0 like any other.                *)
CleanUp(p) ==
    /\ pc[p] = "cleanup"
    /\ Exit(p, 0)
    /\ \/ /\ job[p].keep_intermediate \/ Faults
          /\ UNCHANGED <<fs, linked>>
       \/ /\ ~job[p].keep_intermediate
          /\ fs' = WithoutFile(c_path(p))
          /\ linked' = Unlinked(c_path(p))
    /\ UNCHANGED <<job, source, offset, input>>

Step(p) ==
    \/ ParseOptions(p)
    \/ ResolveAndGenerate(p)
    \/ OpenGenerated(p)
    \/ WriteBlock(p)
    \/ CloseGenerated(p)
    \/ CompilerReads(p)
    \/ CompilerEnds(p)
    \/ CleanUp(p)

(* A signal ends a run between any two of its steps.                       *)
Kill(p) ==
    /\ pc[p] # "exited"
    /\ Exit(p, Killed)
    /\ UNCHANGED <<fs, job, source, offset, linked, input>>

Next == \E p \in Runs : Step(p) \/ Kill(p)

Spec == Init /\ [][Next]_vars
-------------------------------------------------------------------------------
Built(p)  == code[p] = 0 /\ job[p].args = "ok" /\ ~job[p].emit_c_only

(* The names a run writes to once it is past its sources.                  *)
Written(p) == {output(p), c_path(p)}

(* Nobody else writes to the names of p, unless for the same program.      *)
Undisturbed(p) ==
    \A q \in Runs \ {p} :
        \/ Written(q) \cap Written(p) = {}
        \/ output(q) = output(p) /\ source[p] = source[q]

Alone(p) == \A q \in Runs \ {p} : Written(q) \cap Written(p) = {}

(* A run that exits 0 has left an executable of the program it read, even  *)
(* if blocks of its generated C were lost, and even if runs that compile   *)
(* the same program to the same place cut, rewrite or remove the generated *)
(* C under it: run_or_die makes the C compiler's verdict the run's own.    *)
SuccessMeansBuilt ==
    \A p \in Runs :
        Built(p) /\ Undisturbed(p) =>
            output(p) \in DOMAIN fs /\ fs[output(p)] = Executable(Whole(source[p]))

(* README: "--keep keep the generated .gen.c next to the executable".      *)
(* After a successful build by a run that shares its names with no other,  *)
(* the generated C is there with --keep, all of it.  Without --keep it is  *)
(* there only if removing it failed, and then it is all there as well: a   *)
(* part of the text is never left behind an exit status of 0.              *)
KeptOnRequest ==
    \A p \in Runs :
        Built(p) /\ Alone(p) =>
            /\ job[p].keep_intermediate => c_path(p) \in DOMAIN fs
            /\ c_path(p) \in DOMAIN fs =>
                /\ job[p].keep_intermediate \/ Faults
                /\ fs[c_path(p)] = CText(Whole(source[p]))

(* The sources carry ROOTLANG_SRC_EXT, and carry it once.                  *)
Named == \A n \in DOMAIN Sources : Len(n) > 1 /\ Last(n) = "rtl" /\ Last(Front(n)) # "rtl"

(* Source files so named survive every run that does not name one as its   *)
(* output: what is left of a source's name, and every name that ends in    *)
(* .gen.c, is free to be written to.                                       *)
SourcesSurvive ==
    Named /\ (\A p \in Runs : job[p].output \notin DOMAIN Sources) =>
        \A n \in DOMAIN Sources : n \in DOMAIN fs /\ fs[n] = Source(Sources[n])
===============================================================================
