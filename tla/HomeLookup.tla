------------------------------ MODULE HomeLookup ------------------------------
(***************************************************************************)
(* src/common.c: where the compiler looks for runtime/ and stdlib/.  A     *)
(* path is the sequence of its names from the root of the file system.     *)
(***************************************************************************)
EXTENDS Naturals, Sequences, SequencesExt

CONSTANTS None      \* an unset or empty variable, a file that is not there

VARIABLES disk      \* what each path of the machine holds, None for nothing

Prefix == <<"usr", "local">>
LIBDIR == Prefix \o <<"lib", "root_lang">>

(* access(home/runtime, F_OK): it exists, whatever it is and holds.        *)
dir_has_runtime(home) ==
    home \o <<"runtime">> \in DOMAIN disk /\ disk[home \o <<"runtime">>] # None

Fallbacks == <<LIBDIR, <<"usr", "lib", "root_lang">>, <<"opt", "root_lang">>>>

(* Mutant: the well-known places come before the executable's.             *)
CandidatesDefaultsFirst(self) ==
    LET bindir == Front(self)  parent == Front(bindir) IN
    Fallbacks \o <<bindir, parent, parent \o <<"lib", "root_lang">>>>

(* Mutant: the search ends one short of the last place.                    *)
CandidatesShort(self) ==
    LET bindir == Front(self)  parent == Front(bindir) IN
    <<bindir, parent, parent \o <<"lib", "root_lang">>>> \o Front(Fallbacks)

(* The directory of the executable, its parent, lib/root_lang in that, and *)
(* the well-known places.                                                  *)
Candidates(self) ==
    LET bindir == Front(self)  parent == Front(bindir) IN
    <<bindir, parent, parent \o <<"lib", "root_lang">>>> \o Fallbacks

(* env is the value of ROOTLANG_HOME, self what /proc/self/exe points to.  *)
rl_find_home(env, self) ==
    LET found == SelectInSeq(Candidates(self), dir_has_runtime) IN
    IF env # None THEN env
    ELSE IF found = 0 THEN LIBDIR
    ELSE Candidates(self)[found]
===============================================================================
