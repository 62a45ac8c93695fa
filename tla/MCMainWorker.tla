---------------------------- MODULE MCMainWorker ----------------------------
(* Instances of MainWorker for TLC: the delays of a small ti_list in ticks  *)
(* and the command bytes each run lets arrive.                              *)
EXTENDS MainWorker, TLC

\* Sensors are due every tick, the valve opens 1 tick after lighting and the
\* burn lasts 2 ticks: the order of the code's 1 ms, 250 ms and 3 s.
MCDelay == [s \in Slots |-> CASE s = Ign2Slot -> 1 [] s = Ign3Slot -> 2 [] OTHER -> 0]

\* Two firings and direct commands that undo or repeat their effects.
KnownBudget ==
    ign_normal :> 2 @@ unset_valve :> 1 @@ unset_ignition :> 1

\* Byte 9 is no command of the protocol: with these bytes ValveOpensOnSchedule
\* fails, which is why its theorem assumes that only known bytes arrive.
UnknownBudget == ign_normal :> 2 @@ 9 :> 2 @@ unset_valve :> 1

\* The sensors are the subject; a byte 9 makes check_ti_list run between.
QuietBudget == byte_0 :> 1 @@ byte_1 :> 1 @@ 9 :> 1
=============================================================================
