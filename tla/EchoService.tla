---------------------------- MODULE EchoService ----------------------------
(***************************************************************************)
(* What the echo server promises: the characters it takes come back in     *)
(* lower case, in order and once each, or are lost with a connection.      *)
(***************************************************************************)
EXTENDS Integers, Sequences

CONSTANT Chars    \* the ASCII codes that peers may send

VARIABLES
    owed,      \* what was taken and not given back yet, oldest first
    returned   \* what was given back so far

Lower(c) == IF c \in 65 .. 90 THEN c + 32 ELSE c

Init == owed = <<>> /\ returned = <<>>

Take(c) == owed' = Append(owed, Lower(c)) /\ UNCHANGED returned

Return ==
    /\ owed # <<>>
    /\ returned' = Append(returned, Head(owed))
    /\ owed' = Tail(owed)

Lose == owed # <<>> /\ owed' = Tail(owed) /\ UNCHANGED returned

Next == (\E c \in Chars : Take(c)) \/ Return \/ Lose

Spec == Init /\ [][Next]_<<owed, returned>>
=============================================================================
