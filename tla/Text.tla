--------------------------------- MODULE Text ---------------------------------
(***************************************************************************)
(* What a Rope is for: a text that grows by whole appended strings, until  *)
(* it is freed or the process runs out of memory.                          *)
(***************************************************************************)
EXTENDS Sequences

CONSTANT Texts      \* the strings appended

VARIABLES text,     \* the text so far
          state     \* "none" before rope_init and after rope_free, "live", "exit"

vars == <<text, state>>

Init == text = <<>> /\ state = "none"

Create == state = "none" /\ state' = "live" /\ text' = <<>>

Extend(t) == state = "live" /\ text' = text \o t /\ state' = state

Discard == state = "live" /\ state' = "none" /\ text' = <<>>

Exhaust == state # "exit" /\ state' = "exit" /\ text' = <<>>

Next == Create \/ (\E t \in Texts : Extend(t)) \/ Discard \/ Exhaust

Spec == Init /\ [][Next]_vars
===============================================================================
