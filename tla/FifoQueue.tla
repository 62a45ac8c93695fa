----------------------------- MODULE FifoQueue -----------------------------
(***************************************************************************)
(* What server/safe_queue.hpp promises the threads that share one: every   *)
(* item that is enqueued is taken at most once, in the order of arrival,   *)
(* and a poll answers the null item only if the queue is empty.            *)
(***************************************************************************)
EXTENDS Sequences

CONSTANTS Items, Null

VARIABLES
    queue,   \* items not taken yet, oldest first
    taken,   \* every item taken so far, in the order it was taken
    answer   \* the last answer: an item, or Null of a poll

fvars == <<queue, taken, answer>>

Init == queue = <<>> /\ taken = <<>> /\ answer = Null

Put ==
    /\ \E x \in Items : queue' = Append(queue, x)
    /\ UNCHANGED <<taken, answer>>

Take ==
    /\ queue # <<>>
    /\ queue' = Tail(queue)
    /\ taken' = Append(taken, Head(queue))
    /\ answer' = Head(queue)

FindEmpty ==
    /\ queue = <<>>
    /\ answer' = Null
    /\ UNCHANGED <<queue, taken>>

Next == Put \/ Take \/ FindEmpty

Spec == Init /\ [][Next]_fvars
=============================================================================
