----------------------------- MODULE ByteStream -----------------------------
(***************************************************************************)
(* What a circular buffer between the worker and the network thread        *)
(* promises the peers, however slowly they read: bytes of the recorded     *)
(* stream arrive in the order of their places, no place twice, none before *)
(* it was recorded.  A place that is no longer kept is filled by a newer   *)
(* byte that is.  Places may be missing: nothing is queued without a peer, *)
(* and a failed write gives its stretch up.                                *)
(***************************************************************************)
EXTENDS Integers

CONSTANT Capacity   \* the number of bytes kept

VARIABLES
    produced,  \* bytes recorded so far: positions 0 .. produced - 1
    last       \* the byte received last: its place and the position it was recorded at

svars == <<produced, last>>

Init == produced = 0 /\ last = [at |-> -1, val |-> -1]

Kept == {p \in 0 .. produced - 1 : p >= produced - Capacity}

Produce ==
    /\ produced' = produced + 1
    /\ UNCHANGED last

Receive ==
    /\ \E at \in 0 .. produced - 1, val \in Kept :
          /\ at > last.at
          /\ IF at \in Kept THEN val = at ELSE val > at
          /\ last' = [at |-> at, val |-> val]
    /\ UNCHANGED produced

Next == Produce \/ Receive

Spec == Init /\ [][Next]_svars
=============================================================================
