----------------------------- MODULE Timestamps -----------------------------
(***************************************************************************)
(* The server's clock (util/timestamps.cpp): microseconds of the wall      *)
(* clock since base_time, as an unsigned integer, which wraps around.  The *)
(* wall clock ticks and, being the wall clock, may be set.                 *)
(***************************************************************************)
EXTENDS Integers

CONSTANTS
    Width,      \* timestamp_t has this many values (2^64 in the code)
    BootTime,   \* the wall clock when main calls set_base_time
    Jumps,      \* by how much the wall clock may be set forward or back
    MaxWall,    \* bound: the wall clock's last value
    MaxJumps    \* bound: how often it is set

ASSUME ClockAssumption ==
    /\ Width \in Nat \ {0} /\ BootTime \in Nat /\ MaxWall \in Nat /\ MaxWall < Width
    /\ BootTime <= MaxWall /\ Jumps \subseteq Int /\ MaxJumps \in Nat

VARIABLES
    wall,        \* gettimeofday
    base_time,
    jumps        \* how often the wall clock has been set

\* Unsigned arithmetic.
Wrapped(x) == x % Width
Difference(a, b) == Wrapped(a - b)

get_time == Wrapped(wall - base_time)

\* set_base_time stores get_time, which base_time still being 0 is the wall clock.
ClockInit == wall = BootTime /\ base_time = Wrapped(BootTime) /\ jumps = 0

ClockTicks == wall < MaxWall /\ wall' = wall + 1 /\ UNCHANGED <<base_time, jumps>>

\* settimeofday, or a time server that steps the clock by d.
ClockJumps(d) ==
    /\ jumps < MaxJumps /\ jumps' = jumps + 1
    /\ wall + d \in 0 .. MaxWall /\ wall' = wall + d
    /\ UNCHANGED base_time

\* The wall clock is behind the base time: get_time has wrapped around.
BehindBase == wall < base_time
=============================================================================
