--------------------------------- MODULE Rope ---------------------------------
(***************************************************************************)
(* The string buffer of src/common.c that all of the generated C and the   *)
(* command line are built in: a heap block, how much of it is used, and    *)
(* how large the code believes it to be.                                   *)
(*                                                                         *)
(* rope_push, rope_pushc and rope_printf differ in where the characters    *)
(* come from and not in what they do to the rope: reserve room for them    *)
(* and a terminator, double the capacity until it fits, move the block,    *)
(* store.  The reservation is a loop, so it is a step of its own.          *)
(***************************************************************************)
EXTENDS Naturals, Sequences

CONSTANTS
    Chars,      \* the characters of texts
    NUL,        \* the terminator
    Junk,       \* what realloc leaves beyond the old block
    InitCap,    \* the 256 of rope_init
    Texts,      \* the strings pushed
    MaxLen      \* a bound on the length of a rope, for model checking

ASSUME InitCapAssumption == InitCap \in Nat \ {0}
ASSUME TextsAssumption == Texts \subseteq Seq(Chars)
ASSUME MarksAssumption == NUL \notin Chars /\ Junk \notin Chars /\ Junk # NUL
ASSUME MaxLenAssumption == MaxLen \in Nat

VARIABLES
    data,       \* r->data, as the sequence of the bytes of the block
    block,      \* the size the allocator gave it
    len,        \* r->len
    cap,        \* r->cap
    pending,    \* the string being pushed
    pc          \* "none", "idle", "reserve", "store", "exit"

ropeVars == <<data, block, len, cap, pending, pc>>

RopeInit ==
    /\ data = <<>> /\ block = 0
    /\ len = 0 /\ cap = 0
    /\ pending = <<>>
    /\ pc = "none"

(* Mutant: the block is allocated by the first push.                       *)
rope_init_empty ==
    /\ pc = "none"
    /\ cap' = 0 /\ len' = 0
    /\ data' = <<>> /\ block' = 0
    /\ pc' = "idle"
    /\ UNCHANGED pending

(* rl_alloc is calloc: the first block is all zeros.                       *)
rope_init ==
    /\ pc = "none"
    /\ cap' = InitCap /\ len' = 0
    /\ data' = [i \in 1..InitCap |-> NUL] /\ block' = InitCap
    /\ pc' = "idle"
    /\ UNCHANGED pending

rope_free ==
    /\ pc = "idle"
    /\ data' = <<>> /\ block' = 0
    /\ len' = 0 /\ cap' = 0
    /\ pc' = "none"
    /\ UNCHANGED pending

(* A call of rope_pushn, rope_push, rope_pushc or rope_printf.             *)
Push(t) ==
    /\ pc = "idle"
    /\ len + Len(t) <= MaxLen
    /\ pending' = t
    /\ pc' = "reserve"
    /\ UNCHANGED <<data, block, len, cap>>

(* Where the text will end.                                                *)
End == len + Len(pending)

(* Mutant: no room for the terminator.                                     *)
NeededWithoutTerminator == End

Needed == End + 1

(* while (r->len + extra + 1 > r->cap) r->cap *= 2;                        *)
Double ==
    /\ pc = "reserve"
    /\ Needed > cap
    /\ cap' = cap * 2
    /\ UNCHANGED <<data, block, len, pending, pc>>

(* Mutant: rl_realloc is called without the new capacity.                  *)
ReallocNot ==
    /\ pc = "reserve"
    /\ Needed <= cap
    /\ pc' = "store"
    /\ UNCHANGED <<data, block, len, cap, pending>>

(* Mutant: a fresh block in place of the old one.                          *)
ReallocFresh ==
    /\ pc = "reserve"
    /\ Needed <= cap
    /\ pc' = "store"
    /\ block' = cap
    /\ data' = IF cap = block THEN data ELSE [i \in 1..cap |-> NUL]
    /\ UNCHANGED <<len, cap, pending>>

(* rl_realloc, when the capacity has changed, or nothing.                  *)
Realloc ==
    /\ pc = "reserve"
    /\ Needed <= cap
    /\ pc' = "store"
    /\ block' = cap
    /\ data' = [i \in 1..cap |-> IF i <= block THEN data[i] ELSE Junk]
    /\ UNCHANGED <<len, cap, pending>>

(* rl_realloc returns no block: exit(70).                                  *)
OutOfMemory ==
    /\ pc = "reserve"
    /\ Needed <= cap
    /\ block # cap
    /\ pc' = "exit"
    /\ UNCHANGED <<data, block, len, cap, pending>>

(***************************************************************************)
(* The characters go behind the old text and the terminator behind them,   *)
(* wherever that is: a store past the block makes data longer than block.  *)
(***************************************************************************)
Larger(m, n) == IF m < n THEN n ELSE m

(* Mutant: the terminator is left to the caller.                           *)
StoreUnterminated ==
    /\ pc = "store"
    /\ data' = [i \in 1..Larger(Len(data), End) |->
                   IF i \in (len + 1)..End THEN pending[i - len] ELSE data[i]]
    /\ len' = End
    /\ pending' = <<>>
    /\ pc' = "idle"
    /\ UNCHANGED <<block, cap>>

Store ==
    /\ pc = "store"
    /\ data' = [i \in 1..Larger(Len(data), End + 1) |->
                   IF i \in (len + 1)..End THEN pending[i - len]
                   ELSE IF i = End + 1 THEN NUL ELSE data[i]]
    /\ len' = End
    /\ pending' = <<>>
    /\ pc' = "idle"
    /\ UNCHANGED <<block, cap>>

RopeNext ==
    \/ rope_init \/ rope_free
    \/ \E t \in Texts : Push(t)
    \/ Double \/ Realloc \/ OutOfMemory \/ Store

(* The process runs on inside a push; whether it pushes again is its own.  *)
RopeSpec     == RopeInit /\ [][RopeNext]_ropeVars
RopeFairSpec == RopeSpec /\ WF_ropeVars(Double \/ Realloc \/ OutOfMemory \/ Store)
-------------------------------------------------------------------------------
Live == pc \in {"idle", "reserve", "store"}

(* The block holds bytes, and its size is known to the rope between pushes *)
RopeTypeOK ==
    /\ data \in Seq(Chars \cup {NUL, Junk})
    /\ block \in Nat /\ len \in Nat /\ cap \in Nat
    /\ pending \in Seq(Chars)
    /\ pc \in {"none", "idle", "reserve", "store", "exit"}
    /\ pc \in {"idle", "store"} => cap = block

(* No store goes past the block the allocator gave, terminator included.   *)
InBounds == Len(data) = block

(* Between pushes data is a C string of exactly len characters: codegen    *)
(* and main read it with rl_strdup, %s and system, which go by the         *)
(* terminator, and the rope itself goes by len.                            *)
Terminated ==
    Live =>
        /\ len < Len(data)
        /\ data[len + 1] = NUL
        /\ \A i \in 1..len : data[i] \in Chars

(* The doubling loop ends, and with it every push.                         *)
PushEnds == pc = "reserve" ~> pc \in {"idle", "exit"}

(* Rope keeps the text of all pushes, in order and whole.                  *)
Content == INSTANCE Text
    WITH text  <- IF Live THEN SubSeq(data, 1, len) ELSE <<>>,
         state <- IF Live THEN "live" ELSE pc

ImplementsText == Content!Spec
===============================================================================
