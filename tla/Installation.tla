----------------------------- MODULE Installation -----------------------------
(***************************************************************************)
(* install.sh, uninstall.sh, the Makefile, and the compilers they put on a *)
(* machine.  Each script is a list of commands, run one at a time; it can  *)
(* be killed, or fail and so end by "set -e", at any of them, and be run   *)
(* again.  Between scripts the tree is updated or edited and built.        *)
(*                                                                         *)
(* Two things must not part: the compiler and the library that it finds,   *)
(* which HomeLookup says.  A file is known by the version of the tree it   *)
(* was made from.                                                          *)
(***************************************************************************)
EXTENDS HomeLookup, FiniteSets

CONSTANTS
    TREE,       \* the directory of the source tree
    Objects,    \* the build/*.o
    MaxEdits,   \* bound: how often the tree changes
    MaxScripts  \* bound: how many scripts are started

VARIABLES
    tree,       \* the versions of the .c files (and of runtime/ and stdlib/), and of the headers
    objects,    \* the versions each object file was compiled from, Torn, or None
    newer,      \* whether bin/rootc is newer than all of them
    script,     \* the script that runs, or ran last, and the tree it began with
    todo,       \* the commands it has left
    ended,      \* whether it ran to its end
    started     \* how many were started

vars == <<disk, tree, objects, newer, script, todo, ended, started>>

Dir  == [is |-> "dir"]
Torn == [is |-> "torn"]
Script   == [is |-> "file"]
Made(v)  == [is |-> "file", c |-> v]
Binary(linked) == [is |-> "file", of |-> linked]

RTLC    == Prefix \o <<"bin", "rtlc">>
ROOTC   == Prefix \o <<"bin", "rootc">>
LOCAL_BIN == TREE \o <<"bin", "rootc">>
PROFILE == <<"etc", "profile.d", "root_lang.sh">>

LibraryOf(home) ==
    {home \o <<"runtime", "rootrt.c">>, home \o <<"runtime", "rootrt.h">>, home \o <<"stdlib", "root.rtl">>}
LibraryDirs(home) == {home, home \o <<"runtime">>, home \o <<"stdlib">>}
(* A runtime directory that none of the scripts knows of.                  *)
Elsewhere == <<"opt", "root_lang", "runtime">>

Binaries == {RTLC, ROOTC, LOCAL_BIN}

(* The source tree is nowhere that something is installed, nor where an    *)
(* installed compiler looks for a library beside its own: it is not their  *)
(* directory or the one above, and not in a runtime directory of those.    *)
ASSUME InstallationAssumption ==
    /\ TREE \in Seq(STRING)
    /\ \A p \in {LIBDIR, RTLC, ROOTC, PROFILE} : ~IsPrefix(p, TREE)
    /\ \A home \in {Prefix, Front(RTLC)} : TREE # home /\ ~IsPrefix(home \o <<"runtime">>, TREE)
    /\ MaxEdits \in Nat /\ MaxScripts \in Nat

ASSUME NoneAssumption == None # Dir

Paths == LibraryOf(TREE) \cup LibraryDirs(TREE) \cup LibraryOf(LIBDIR) \cup LibraryDirs(LIBDIR)
            \cup Binaries \cup {PROFILE, Elsewhere}

Init ==
    /\ tree = [c |-> 0, h |-> 0]
    /\ \E there \in {Dir, None} :
          disk = [p \in Paths |-> IF p \in LibraryOf(TREE) THEN Made(0)
                                 ELSE IF p \in LibraryDirs(TREE) THEN Dir
                                 ELSE IF p = Elsewhere THEN there ELSE None]
    /\ objects = [o \in Objects |-> None]
    /\ newer = FALSE
    /\ script = [name |-> None, tree |-> tree]
    /\ todo = <<>>
    /\ ended = FALSE
    /\ started = 0

(* Commands.                                                               *)
Clean           == [do |-> "clean"]
Compile         == [do |-> "compile"]
Link            == [do |-> "link"]
MakeDir(p)      == [do |-> "mkdir", to |-> p]
Copy(p, q)      == [do |-> "cp", from |-> p, to |-> q]
Register        == [do |-> "tee", to |-> PROFILE]
Delete(p)       == [do |-> "rm", to |-> p]
DeleteAll(p)    == [do |-> "rm -rf", to |-> p]

(* "all" of the Makefile: objects that are older than their .c file, then  *)
(* the executable.                                                         *)
make == <<Compile, Link>>

CopyLibrary ==
    LET runtime(f) == Copy(TREE \o <<"runtime", f>>, LIBDIR \o <<"runtime", f>>) IN
    <<runtime("rootrt.c"), runtime("rootrt.h")>>
CopyStdlib == <<Copy(TREE \o <<"stdlib", "root.rtl">>, LIBDIR \o <<"stdlib", "root.rtl">>)>>

(* Mutant: old objects are kept.                                           *)
install_sh_unclean ==
    make \o <<Copy(LOCAL_BIN, RTLC), MakeDir(LIBDIR \o <<"runtime">>), MakeDir(LIBDIR \o <<"stdlib">>)>>
        \o CopyLibrary \o CopyStdlib \o <<Register>>

install_sh ==
    <<Clean>> \o make
        \o <<Copy(LOCAL_BIN, RTLC), MakeDir(LIBDIR \o <<"runtime">>), MakeDir(LIBDIR \o <<"stdlib">>)>>
        \o CopyLibrary \o CopyStdlib \o <<Register>>

make_install ==
    make \o <<Copy(LOCAL_BIN, ROOTC), MakeDir(LIBDIR \o <<"runtime">>)>> \o CopyLibrary
        \o <<MakeDir(LIBDIR \o <<"stdlib">>)>> \o CopyStdlib

uninstall_sh   == <<Delete(RTLC), DeleteAll(LIBDIR), Delete(PROFILE)>>
make_uninstall == <<Delete(ROOTC), DeleteAll(LIBDIR)>>

Scripts ==
    {[name |-> "make", does |-> make],
     [name |-> "install.sh", does |-> install_sh], [name |-> "make install", does |-> make_install],
     [name |-> "uninstall.sh", does |-> uninstall_sh],
     [name |-> "make uninstall", does |-> make_uninstall]}

Idle == todo = <<>>

(* A new release, which changes everything, or an edit of a header only.   *)
Update ==
    /\ Idle
    /\ tree.c + tree.h < MaxEdits
    /\ \/ /\ tree' = [c |-> tree.c + 1, h |-> tree.h]
          /\ disk' = [p \in Paths |-> IF p \in LibraryOf(TREE) THEN Made(tree'.c) ELSE disk[p]]
       \/ /\ tree' = [tree EXCEPT !.h = @ + 1]
          /\ UNCHANGED disk
    /\ UNCHANGED <<objects, newer, script, todo, ended, started>>

Start ==
    /\ Idle
    /\ started < MaxScripts
    /\ \E s \in Scripts :
          /\ script' = [name |-> s.name, tree |-> tree]
          /\ todo' = s.does
    /\ ended' = FALSE
    /\ started' = started + 1
    /\ UNCHANGED <<disk, tree, objects, newer>>

Put(p, content) == [disk EXCEPT ![p] = content]
PutDir(p) == [q \in Paths |-> IF IsPrefix(q, p) /\ disk[q] = None THEN Dir ELSE disk[q]]
Without(p) == [q \in Paths |-> IF IsPrefix(p, q) THEN None ELSE disk[q]]

Doing(what) == ~Idle /\ Head(todo).do = what
Done ==
    /\ todo' = Tail(todo)
    /\ ended' = (Tail(todo) = <<>>)
    /\ UNCHANGED <<tree, script, started>>

MakeClean ==
    /\ Doing("clean")
    /\ objects' = [o \in Objects |-> None]
    /\ newer' = FALSE
    /\ disk' = Put(LOCAL_BIN, None)
    /\ Done

(* The rule of build/%.o names the .c file only; a torn object is newer    *)
(* than that.                                                              *)
OutOfDate(o) == objects[o] = None \/ (objects[o] # Torn /\ objects[o].c # tree.c)

CompileSources ==
    /\ Doing("compile")
    /\ objects' = [o \in Objects |-> IF OutOfDate(o) THEN tree ELSE objects[o]]
    /\ newer' = (newer /\ objects' = objects)
    /\ UNCHANGED disk
    /\ Done

LinkObjects ==
    /\ Doing("link")
    /\ newer \/ \A o \in Objects : objects[o] # Torn
    /\ disk' = IF newer THEN disk ELSE Put(LOCAL_BIN, Binary(objects))
    /\ newer' = TRUE
    /\ UNCHANGED objects
    /\ Done

RunMkdir ==
    /\ Doing("mkdir")
    /\ disk' = PutDir(Head(todo).to)
    /\ UNCHANGED <<objects, newer>>
    /\ Done

RunCopy ==
    /\ Doing("cp")
    /\ disk' = Put(Head(todo).to, disk[Head(todo).from])
    /\ UNCHANGED <<objects, newer>>
    /\ Done

RunTee ==
    /\ Doing("tee")
    /\ disk' = Put(PROFILE, Script)
    /\ UNCHANGED <<objects, newer>>
    /\ Done

RunRemove ==
    /\ Doing("rm") \/ Doing("rm -rf")
    /\ disk' = Without(Head(todo).to)
    /\ UNCHANGED <<objects, newer>>
    /\ Done

(***************************************************************************)
(* The script ends at a command, which did nothing, left a file half       *)
(* written, or part of its files compiled or deleted.  So does a link that *)
(* finds a torn object.                                                    *)
(***************************************************************************)
CutNothing == UNCHANGED <<disk, objects, newer>>

CutCompile ==
    /\ Doing("compile")
    /\ \E whole, torn \in SUBSET {o \in Objects : OutOfDate(o)} :
          objects' = [o \in Objects |-> IF o \in torn THEN Torn ELSE IF o \in whole THEN tree ELSE objects[o]]
    /\ newer' = (newer /\ objects' = objects)
    /\ UNCHANGED disk

CutLink ==
    /\ Doing("link") /\ ~newer
    /\ disk' = Put(LOCAL_BIN, Torn)
    /\ newer' = TRUE
    /\ UNCHANGED objects

CutWrite ==
    /\ Doing("cp") \/ Doing("tee")
    /\ disk' = Put(Head(todo).to, Torn)
    /\ UNCHANGED <<objects, newer>>

CutDelete ==
    /\ Doing("rm -rf")
    /\ \E gone \in SUBSET {q \in Paths : IsPrefix(Head(todo).to, q) /\ disk[q] # None} :
          /\ \A p \in gone, q \in Paths : IsPrefix(p, q) /\ disk[q] # None => q \in gone
          /\ disk' = [q \in Paths |-> IF q \in gone THEN None ELSE disk[q]]
    /\ UNCHANGED <<objects, newer>>

Cut ==
    /\ ~Idle
    /\ CutNothing \/ CutCompile \/ CutLink \/ CutWrite \/ CutDelete
    /\ todo' = <<>>
    /\ ended' = FALSE
    /\ UNCHANGED <<tree, script, started>>

Next ==
    \/ Update \/ Start
    \/ MakeClean \/ CompileSources \/ LinkObjects
    \/ RunMkdir \/ RunCopy \/ RunTee \/ RunRemove
    \/ Cut

Spec == Init /\ [][Next]_vars
-------------------------------------------------------------------------------
(* What a new login shell has in ROOTLANG_HOME, and a shell that never     *)
(* read the profile.                                                       *)
NewTerminals == {None, IF disk[PROFILE] = Script THEN LIBDIR ELSE None}

(* A compiler all of which was made from these versions, called with this *)
(* environment, compiles and links against a library of its own version.   *)
Works(env, self, versions) ==
    /\ disk[self] = Binary([o \in Objects |-> versions])
    /\ \A p \in LibraryOf(rl_find_home(env, self)) : p \in Paths /\ disk[p] = Made(versions.c)

(* README: "It builds the compiler, installs it as rtlc, and sets up the   *)
(* runtime and standard library so they can be found from anywhere."       *)
(* Whatever was on the machine before, a half installation, a half build   *)
(* or another version included, a finished install.sh leaves a compiler of *)
(* the tree as it is with a library to match, in every terminal.  A        *)
(* finished make install does the same for rootc, if no header was edited  *)
(* since the objects were compiled and no build was cut while linking.     *)
FinishedInstallWorks ==
    Idle /\ ended =>
        /\ script.name = "install.sh" => \A env \in NewTerminals : Works(env, RTLC, script.tree)
        /\ /\ script.name = "make install"
           /\ disk[LOCAL_BIN] # Torn
           /\ \A o \in Objects : objects[o].h = script.tree.h
           => \A env \in NewTerminals : Works(env, ROOTC, script.tree)

(* README: "If you would rather not install anything, just build the       *)
(* compiler."  Without ROOTLANG_HOME, a compiler built in the tree finds   *)
(* the library of the tree, whatever an installation of another version    *)
(* next to it is, or is in the middle of.                                  *)
LocalBuildWorks ==
    \A h \in 0..MaxEdits :
        LET v == [c |-> tree.c, h |-> h] IN
        disk[LOCAL_BIN] = Binary([o \in Objects |-> v]) => Works(None, LOCAL_BIN, v)

(* common.c:168-171: the places around the executable, and the well-known  *)
(* ones.  common.c:175: "A candidate is accepted only if it actually       *)
(* contains a runtime directory."  Without ROOTLANG_HOME, a place without  *)
(* one is taken only if no place has one, and it is the default.           *)
Places(self) ==
    LET bindir == Front(self) IN
    {bindir, Front(bindir), Front(bindir) \o <<"lib", "root_lang">>,
     LIBDIR, <<"usr", "lib", "root_lang">>, <<"opt", "root_lang">>}

HomeHasRuntime ==
    \A self \in Binaries :
        LET home == rl_find_home(None, self) IN
        \/ dir_has_runtime(home)
        \/ home = LIBDIR /\ \A p \in Places(self) : ~dir_has_runtime(p)
===============================================================================
