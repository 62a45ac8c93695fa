----------------------------- MODULE SafeQueue -----------------------------
(***************************************************************************)
(* server/safe_queue.hpp, the queue between the worker and the network     *)
(* thread, at the grain of its critical sections: the mutex, the           *)
(* std::queue it guards and the condition variable.  front() and pop() are *)
(* steps of their own: only the mutex keeps two threads from taking the    *)
(* same item.                                                              *)
(*                                                                         *)
(* Any thread may call enqueue, poll or dequeue.  The two threads of the   *)
(* program call enqueue and poll; nothing in it calls dequeue, which is    *)
(* modelled because the class offers it.                                   *)
(*                                                                         *)
(* A definition named <D>_<Bug> is D with that bug; no behaviour of this    *)
(* module uses it.                                                         *)
(***************************************************************************)
EXTENDS Integers, Sequences, FiniteSets

CONSTANTS
    Threads,
    NoThread,  \* the owner of a free mutex
    Null,      \* null_item
    MaxItems   \* bound: calls of enqueue in a behaviour

Items == 1 .. MaxItems   \* the i-th item that a thread enqueues

ASSUME QueueAssumption ==
    Threads # {} /\ NoThread \notin Threads /\ MaxItems \in Nat /\ Null \notin Items

VARIABLES
    q,       \* the std::queue
    owner,   \* the mutex: its owner or NoThread
    pc,      \* where each thread is in a call
    val,     \* the item a thread enqueues or takes
    called,  \* items handed to enqueue so far
    taken,   \* history: items popped, in order
    answer   \* history: the last item popped, or Null of a poll

vars == <<q, owner, pc, val, called, taken, answer>>

\* Outside the mutex: "idle", the three calls that want it, "waiting" in
\* c.wait, and "woken" out of it and wanting the mutex back.
Entering == {"enqueue", "poll", "dequeue", "woken"}
Inside   == {"push", "notify", "look", "test", "front", "pop", "leave"}

Init ==
    /\ q = <<>> /\ owner = NoThread
    /\ pc = [t \in Threads |-> "idle"]
    /\ val = [t \in Threads |-> Null]
    /\ called = 0 /\ taken = <<>> /\ answer = Null

Goto(t, to) == pc' = [pc EXCEPT ![t] = to]

CallEnqueue_LosesArgument(t) ==
    /\ pc[t] = "idle" /\ called < MaxItems
    /\ called' = called + 1
    /\ Goto(t, "enqueue")
    /\ UNCHANGED <<q, owner, val, taken, answer>>

CallEnqueue(t) ==
    /\ pc[t] = "idle" /\ called < MaxItems
    /\ called' = called + 1
    /\ val' = [val EXCEPT ![t] = called']
    /\ Goto(t, "enqueue")
    /\ UNCHANGED <<q, owner, taken, answer>>

CallPoll(t) ==
    /\ pc[t] = "idle"
    /\ Goto(t, "poll")
    /\ UNCHANGED <<q, owner, val, called, taken, answer>>

CallDequeue(t) ==
    /\ pc[t] = "idle"
    /\ Goto(t, "dequeue")
    /\ UNCHANGED <<q, owner, val, called, taken, answer>>

\* What a thread that has just got the mutex does first.
Body(call) == CASE call = "enqueue" -> "push"
                [] call = "poll"    -> "look"
                [] OTHER            -> "test"

Lock_WithoutMutex(t) ==
    /\ pc[t] \in Entering
    /\ owner' = t
    /\ Goto(t, Body(pc[t]))
    /\ UNCHANGED <<q, val, called, taken, answer>>

Lock(t) ==
    /\ owner = NoThread /\ pc[t] \in Entering
    /\ owner' = t
    /\ Goto(t, Body(pc[t]))
    /\ UNCHANGED <<q, val, called, taken, answer>>

Push_OnTop(t) ==
    /\ pc[t] = "push"
    /\ q' = <<val[t]>> \o q
    /\ Goto(t, "notify")
    /\ UNCHANGED <<owner, val, called, taken, answer>>

Push(t) ==
    /\ pc[t] = "push"
    /\ q' = Append(q, val[t])
    /\ Goto(t, "notify")
    /\ UNCHANGED <<owner, val, called, taken, answer>>

Notify_Nobody(t) ==
    /\ pc[t] = "notify"
    /\ Goto(t, "leave")
    /\ UNCHANGED <<q, owner, val, called, taken, answer>>

\* notify_one wakes one of the waiting threads, if there is one.
Notify(t) ==
    /\ pc[t] = "notify"
    /\ LET waiting == {u \in Threads : pc[u] = "waiting"}
       IN IF waiting = {}
          THEN Goto(t, "leave")
          ELSE \E u \in waiting : pc' = [pc EXCEPT ![t] = "leave", ![u] = "woken"]
    /\ UNCHANGED <<q, owner, val, called, taken, answer>>

\* poll: the null item at once, or the front item.
Look(t) ==
    /\ pc[t] = "look"
    /\ Goto(t, IF q = <<>> THEN "leave" ELSE "front")
    /\ answer' = IF q = <<>> THEN Null ELSE answer
    /\ UNCHANGED <<q, owner, val, called, taken>>

\* dequeue: while the queue is empty, give the mutex back and wait.
Test(t) ==
    /\ pc[t] = "test"
    /\ Goto(t, IF q = <<>> THEN "waiting" ELSE "front")
    /\ owner' = IF q = <<>> THEN NoThread ELSE owner
    /\ UNCHANGED <<q, val, called, taken, answer>>

SpuriousWakeup(t) ==
    /\ pc[t] = "waiting"
    /\ Goto(t, "woken")
    /\ UNCHANGED <<q, owner, val, called, taken, answer>>

Front(t) ==
    /\ pc[t] = "front"
    /\ val' = [val EXCEPT ![t] = Head(q)]
    /\ Goto(t, "pop")
    /\ UNCHANGED <<q, owner, called, taken, answer>>

Pop(t) ==
    /\ pc[t] = "pop"
    /\ q' = Tail(q)
    /\ taken' = Append(taken, val[t])
    /\ answer' = val[t]
    /\ Goto(t, "leave")
    /\ UNCHANGED <<owner, val, called>>

\* The lock object goes out of scope and the call returns.
Leave(t) ==
    /\ pc[t] = "leave"
    /\ owner' = NoThread
    /\ val' = [val EXCEPT ![t] = Null]
    /\ Goto(t, "idle")
    /\ UNCHANGED <<q, called, taken, answer>>

Call(t) == CallEnqueue(t) \/ CallPoll(t) \/ CallDequeue(t)

\* The steps of a call once it has begun; waking up without a notify is not
\* among them, it may happen or not.
Run(t) ==
    \/ Lock(t) \/ Push(t) \/ Notify(t) \/ Look(t) \/ Test(t)
    \/ Front(t) \/ Pop(t) \/ Leave(t)

Next == \E t \in Threads : Call(t) \/ Run(t) \/ SpuriousWakeup(t)

\* A thread in a call goes on.  The mutex is not assumed to be fair.
Spec == Init /\ [][Next]_vars /\ \A t \in Threads : WF_vars(Run(t))

-----------------------------------------------------------------------------
TypeOK ==
    /\ q \in Seq(Items)
    /\ owner \in Threads \cup {NoThread}
    /\ pc \in [Threads -> {"idle", "waiting"} \cup Entering \cup Inside]
    /\ val \in [Threads -> Items \cup {Null}]
    /\ called \in 0 .. MaxItems
    /\ taken \in Seq(Items)
    /\ answer \in Items \cup {Null}

\* Only the owner of the mutex is inside a critical section, and what it has
\* read with front() is still the front when it pops.
OwnerInside ==
    \A t \in Threads :
        /\ pc[t] \in Inside <=> owner = t
        /\ pc[t] \in {"front", "pop"} => q # <<>>
        /\ pc[t] = "pop" => val[t] = Head(q)
        /\ pc[t] \in {"enqueue", "push"} => val[t] \in Items

\* The queue implements FifoQueue: push, the pop and a poll's look at an empty
\* queue are its three steps.
Fifo == INSTANCE FifoQueue WITH queue <- q

ImplementsFifo == Fifo!Spec

\* No wakeup is lost: while an item is queued, a thread waiting for one does
\* not wait forever, unless another thread takes the item.
NoLostWakeup ==
    \A t \in Threads : (pc[t] = "waiting" /\ q # <<>>) ~> (pc[t] # "waiting" \/ q = <<>>)
=============================================================================
