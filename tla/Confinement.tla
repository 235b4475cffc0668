----------------------------- MODULE Confinement -----------------------------
(***************************************************************************)
(* What rewriting the compartment's libraries is for, with tables, pages   *)
(* and capabilities abstracted away: of the symbols that the libraries use *)
(* some grant the executive state.  That set only shrinks until the        *)
(* compartment runs, is empty from then on until main has the compartment  *)
(* behind it, and is anything while main puts things back; these phases    *)
(* come once and in this order, and the program may end in any of them.    *)
(***************************************************************************)
CONSTANT Symbols

VARIABLES
  phase,          \* "patching", "running", "reverting" or "ended"
  executive       \* the symbols that grant the executive state

Init == phase = "patching" /\ executive \subseteq Symbols

Patch == /\ phase = "patching"
         /\ executive' \subseteq executive
         /\ UNCHANGED phase
Run ==
  /\ phase = "patching" /\ executive = {}
  /\ phase' = "running" /\ executive' = {}

Revert ==
  /\ phase \in {"running", "reverting"}
  /\ phase' = "reverting" /\ executive' \subseteq Symbols

End == phase' = "ended" /\ UNCHANGED executive

Next == Patch \/ Run \/ Revert \/ End

Spec == Init /\ [][Next]_<<phase, executive>>
=============================================================================
