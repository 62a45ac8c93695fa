--------------------------- MODULE MCFinalSystem ---------------------------
(* An instance of FinalSystem for TLC: no sampling, a few presses.          *)
EXTENDS FinalSystem, TLC

MCDelay == [s \in Slots |-> CASE s = Ign2Slot -> 1 [] s = Ign3Slot -> 2 [] OTHER -> 0]
MCBudget == [c \in DirectBytes \cup {ign_normal} |-> MaxPresses]
=============================================================================
