--------------------------- MODULE SafeQueueProofs ---------------------------
(* Theorems about SafeQueue, for any set of threads and any number of items: *)
(* the mutex protects the queue, and the queue implements FifoQueue.         *)
EXTENDS SafeQueue, TLAPS

USE QueueAssumption

Inv == TypeOK /\ OwnerInside

\* What an item handed to a queue, or taken from it, leaves well typed.
LEMMA SeqFacts ==
    ASSUME NEW S, NEW s \in Seq(S)
    PROVE  /\ \A x \in S : Append(s, x) \in Seq(S) /\ Append(s, x) # <<>>
           /\ \A x \in S : s # <<>> => Head(Append(s, x)) = Head(s)
           /\ s # <<>> => Tail(s) \in Seq(S) /\ Head(s) \in S
OBVIOUS

\* Before any call nobody is inside.
LEMMA InvInit == Init => Inv
BY DEF Init, Inv, TypeOK, OwnerInside, Inside

\* Entering takes the free mutex, leaving and waiting give it back, and only the
\* owner touches the std::queue.
LEMMA InvStep == Inv /\ [Next]_vars => Inv'
<1> SUFFICES ASSUME TypeOK, OwnerInside, [Next]_vars PROVE TypeOK' /\ OwnerInside'
    BY DEF Inv
<1> USE DEF TypeOK, OwnerInside, Entering, Inside, Goto
<1>1. ASSUME NEW t \in Threads, CallEnqueue(t) PROVE TypeOK' /\ OwnerInside'
  <2>1. called' \in 0 .. MaxItems /\ called' \in Items
    BY <1>1 DEF CallEnqueue, Items
  <2>2. TypeOK'
    BY <1>1, <2>1 DEF CallEnqueue
  <2>3. val'[t] = called' /\ \A u \in Threads \ {t} : val'[u] = val[u] /\ pc'[u] = pc[u]
    BY <1>1 DEF CallEnqueue
  <2>4. pc'[t] = "enqueue" /\ pc[t] = "idle" /\ UNCHANGED <<q, owner>>
    BY <1>1 DEF CallEnqueue
  <2>5. OwnerInside'
    BY <2>1, <2>3, <2>4
  <2> QED BY <2>2, <2>5
<1>2. ASSUME NEW t \in Threads, CallPoll(t) PROVE TypeOK' /\ OwnerInside'
  BY <1>2 DEF CallPoll
<1>3. ASSUME NEW t \in Threads, CallDequeue(t) PROVE TypeOK' /\ OwnerInside'
  BY <1>3 DEF CallDequeue
<1>4. ASSUME NEW t \in Threads, Lock(t) PROVE TypeOK' /\ OwnerInside'
  <2>1. /\ Body(pc[t]) \in {"push", "look", "test"}
        /\ Body(pc[t]) = "push" => pc[t] = "enqueue"
    BY DEF Body
  <2>2. /\ pc'[t] = Body(pc[t]) /\ owner' = t /\ owner = NoThread
        /\ pc' \in [Threads -> {"idle", "waiting"} \cup Entering \cup Inside]
        /\ \A u \in Threads \ {t} : pc'[u] = pc[u]
        /\ UNCHANGED <<q, val, called, taken, answer>>
    BY <1>4, <2>1 DEF Lock
  <2>3. OwnerInside'
    BY <2>1, <2>2
  <2> QED BY <2>2, <2>3
<1>5. ASSUME NEW t \in Threads, Push(t) PROVE TypeOK' /\ OwnerInside'
  BY <1>5 DEF Push
<1>6. ASSUME NEW t \in Threads, Notify(t) PROVE TypeOK' /\ OwnerInside'
  <2>1. pc[t] = "notify" /\ UNCHANGED <<q, owner, val, called, taken, answer>>
    BY <1>6 DEF Notify
  <2>2. \/ pc' = [pc EXCEPT ![t] = "leave"]
        \/ \E u \in Threads : pc[u] = "waiting" /\ pc' = [pc EXCEPT ![t] = "leave", ![u] = "woken"]
    BY <1>6 DEF Notify
  <2>3. CASE pc' = [pc EXCEPT ![t] = "leave"]
    BY <2>1, <2>3
  <2>4. ASSUME NEW u \in Threads, pc[u] = "waiting",
               pc' = [pc EXCEPT ![t] = "leave", ![u] = "woken"]
        PROVE  TypeOK' /\ OwnerInside'
    <3>1. /\ pc'[t] = "leave" /\ pc'[u] = "woken" /\ t # u
          /\ \A v \in Threads \ {t, u} : pc'[v] = pc[v]
          /\ pc' \in [Threads -> {"idle", "waiting"} \cup Entering \cup Inside]
      BY <2>1, <2>4
    <3>2. TypeOK'
      BY <2>1, <3>1
    <3>3. OwnerInside'
      BY <2>1, <2>4, <3>1
    <3> QED BY <3>2, <3>3
  <2> QED BY <2>2, <2>3, <2>4
<1>7. ASSUME NEW t \in Threads, Look(t) PROVE TypeOK' /\ OwnerInside'
  BY <1>7 DEF Look
<1>8. ASSUME NEW t \in Threads, Test(t) PROVE TypeOK' /\ OwnerInside'
  BY <1>8 DEF Test
<1>9. ASSUME NEW t \in Threads, SpuriousWakeup(t) PROVE TypeOK' /\ OwnerInside'
  BY <1>9 DEF SpuriousWakeup
<1>10. ASSUME NEW t \in Threads, Front(t) PROVE TypeOK' /\ OwnerInside'
  BY <1>10, SeqFacts DEF Front
<1>11. ASSUME NEW t \in Threads, Pop(t) PROVE TypeOK' /\ OwnerInside'
  BY <1>11, SeqFacts DEF Pop
<1>12. ASSUME NEW t \in Threads, Leave(t) PROVE TypeOK' /\ OwnerInside'
  BY <1>12 DEF Leave
<1>13. CASE UNCHANGED vars
  BY <1>13 DEF vars
<1> QED
  BY <1>1, <1>2, <1>3, <1>4, <1>5, <1>6, <1>7, <1>8, <1>9, <1>10, <1>11, <1>12, <1>13
     DEF Next, Call, Run

\* The mutex protects the queue for any number of threads: only its owner is
\* inside a critical section, and the item it read is still the front when it
\* pops.
THEOREM MutexProtects == Spec => [](TypeOK /\ OwnerInside)
<1>1. Spec => []Inv
  BY InvInit, InvStep, PTL DEF Spec
<1> QED BY <1>1, PTL DEF Inv

\* In particular what is in the queue, in a thread's hand or taken is always an
\* item that was put: no front() or pop() meets an empty queue.
THEOREM QueueTypeCorrect == Spec => []TypeOK
BY MutexProtects, PTL

\* safe_queue is a FIFO queue for any number of threads: it loses no item,
\* hands none out twice, keeps the order, and answers the null item only when
\* it is empty.
THEOREM QueueIsFifo == Spec => ImplementsFifo
<1>1. Init => Fifo!Init
  BY DEF Init, Fifo!Init
<1>2. Inv /\ [Next]_vars => [Fifo!Next]_(Fifo!fvars)
  <2> SUFFICES ASSUME TypeOK, OwnerInside, [Next]_vars PROVE [Fifo!Next]_(Fifo!fvars)
      BY DEF Inv
  <2>1. ASSUME NEW t \in Threads, Push(t) PROVE Fifo!Put
    <3>1. val[t] \in Items
      BY <2>1 DEF Push, OwnerInside
    <3> QED BY <2>1, <3>1 DEF Push, Fifo!Put
  <2>2. ASSUME NEW t \in Threads, Look(t) PROVE [Fifo!Next]_(Fifo!fvars)
    BY <2>2 DEF Look, Fifo!Next, Fifo!FindEmpty, Fifo!fvars
  <2>3. ASSUME NEW t \in Threads, Pop(t) PROVE Fifo!Take
    BY <2>3 DEF Pop, Fifo!Take, OwnerInside
  <2>4. CASE UNCHANGED <<q, taken, answer>>
    BY <2>4 DEF Fifo!fvars
  <2> QED
    BY <2>1, <2>2, <2>3, <2>4 DEF Next, Call, Run, CallEnqueue, CallPoll, CallDequeue, Lock,
       Notify, Test, SpuriousWakeup, Front, Leave, vars, Fifo!Next
<1> QED BY <1>1, <1>2, MutexProtects, PTL DEF Inv, Spec, ImplementsFifo, Fifo!Spec
=============================================================================
