-------------------------- MODULE IgnitionSequence --------------------------
(***************************************************************************)
(* What the timed ignition of final/main_worker.cpp promises, without its  *)
(* queue, its list of timed items or its clock: lighting the igniter arms  *)
(* the opening of the valve, the opening arms the cutoff, and the cutoff   *)
(* closes the valve and drops the igniter.  Firing again while a burn is   *)
(* under way arms a second opening beside the first cutoff.  The operator  *)
(* drives either pin at any time, which disarms nothing.                   *)
(***************************************************************************)
VARIABLES
    armed,      \* the valve is to be opened
    burning,    \* the cutoff is to come
    valve, ign  \* the pins

svars == <<armed, burning, valve, ign>>

Levels == {"LOW", "HIGH"}

Init == armed = FALSE /\ burning = FALSE /\ valve = "LOW" /\ ign = "LOW"

Light ==
    /\ ign' = "HIGH" /\ armed' = TRUE
    /\ UNCHANGED <<burning, valve>>

Open ==
    /\ armed
    /\ armed' = FALSE /\ burning' = TRUE /\ valve' = "HIGH"
    /\ UNCHANGED ign

Cutoff ==
    /\ burning
    /\ burning' = FALSE /\ valve' = "LOW" /\ ign' = "LOW"
    /\ UNCHANGED armed

DriveValve == valve' \in Levels /\ UNCHANGED <<armed, burning, ign>>
DriveIgniter == ign' \in Levels /\ UNCHANGED <<armed, burning, valve>>

Next == Light \/ Open \/ Cutoff \/ DriveValve \/ DriveIgniter

Safety == Init /\ [][Next]_svars

\* An armed step of the sequence is taken in the end.
Spec == Safety /\ WF_svars(Open) /\ WF_svars(Cutoff)
=============================================================================
