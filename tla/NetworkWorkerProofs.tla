------------------------ MODULE NetworkWorkerProofs ------------------------
(***************************************************************************)
(* Proofs about NetworkWorker, for every timeout, either first value of    *)
(* the uninitialised flags, every set of failing calls and every number of *)
(* bytes, announcements and sessions.  The parts of the invariant NetInv    *)
(* hold on their own beside the types; what becomes of the queue in a step *)
(* is said once, by QueueMoves, for the three of them that are about it.   *)
(***************************************************************************)
EXTENDS NetworkWorker, TLAPS, FiniteSetTheorems

Items == [type : Types, session : Nat]

-----------------------------------------------------------------------------
(* Types.                                                                  *)

FlagsOK == connected \in BOOLEAN /\ open \in BOOLEAN /\ has_acked \in BOOLEAN /\ full \in BOOLEAN

ThreadOK ==
    /\ timeout \in Timeouts
    /\ silent \in 0 .. timeout + 1
    /\ pc \in {"loop", "accept", "write"}
    /\ process \in {"running", "exited", "killed"}
    /\ turns \in 0 .. TurnsPerTick

PeerOK ==
    /\ conn \in {"none", "up", "fin", "rst", "dead"}
    /\ inbound \in Seq(Nat) /\ nextByte \in 0 .. MaxBytes
    /\ queued \in Seq(Nat) /\ waited \in 0 .. 2

QueueOK == qn \in Seq(Items)

\* The bounds of TypeOK on what is counted, but for stale.
CountsOK ==
    /\ decided \in 0 .. MaxSessions + 1 /\ sends \in 0 .. MaxSends
    /\ session \in 0 .. MaxSessions /\ stale \in Nat

Typed == FlagsOK /\ ThreadOK /\ PeerOK /\ QueueOK /\ CountsOK

LEMMA TypedInit == Init => Typed
<1> SUFFICES ASSUME Init PROVE Typed
  OBVIOUS
<1> USE NetworkAssumption
<1>1. FlagsOK
  BY Zenon DEF Init, FlagsOK
<1>2. ThreadOK
  <2>1. timeout \in Timeouts /\ timeout \in Nat /\ silent = timeout /\ turns = 0
    BY DEF Init
  <2> QED BY <2>1 DEF Init, ThreadOK, TurnsPerTick
<1>3. PeerOK
  BY DEF Init, PeerOK
<1>4. QueueOK
  <2>1. [type |-> "nq_recv", session |-> 0] \in Items
    BY DEF Items, Types
  <2>2. qn = <<[type |-> "nq_recv", session |-> 0]>>
    BY DEF Init
  <2> QED BY <2>1, <2>2 DEF QueueOK
<1>5. CountsOK
  <2>1. decided = 0 /\ sends = 0 /\ session = 0 /\ stale = 0
    BY DEF Init
  <2> QED BY <2>1 DEF CountsOK
<1> QED BY <1>1, <1>2, <1>3, <1>4, <1>5 DEF Typed

LEMMA FlagsStep == Typed /\ [Next]_vars => FlagsOK'
<1> SUFFICES ASSUME Typed, [Next]_vars PROVE FlagsOK'
  OBVIOUS
<1> USE DEF Typed, FlagsOK
<1>1. CASE NetThread
  BY <1>1, Zenon DEF NetThread, Listen, ListenFails, AcceptFails, Accepted, TimesOut, QueueAck,
     QueueRecv, HandleAck, RecvPollFails, RecvNothing, RecvByte, RecvError, RecvEnd, SendData,
     SendBlocks, Unblock, SendKills, SendDropped, Fail, threadVars, peerVars
<1>2. CASE Accept
  BY <1>2 DEF Accept, Accepted
<1>3. CASE WorkerDecides \/ WorkerEnqueues \/ PeerSends \/ PeerCloses \/ PeerStalls \/ Tick
  BY <1>3, Zenon DEF WorkerDecides, WorkerEnqueues, PeerSends, PeerCloses, PeerStalls, Tick,
     threadVars, peerVars
<1>4. CASE UNCHANGED vars
  BY <1>4, Zenon DEF vars, threadVars, peerVars
<1> QED BY <1>1, <1>2, <1>3, <1>4 DEF Next

LEMMA ThreadStep == Typed /\ [Next]_vars => ThreadOK'
<1> SUFFICES ASSUME Typed, [Next]_vars PROVE ThreadOK'
  OBVIOUS
<1> USE NetworkAssumption DEF Typed, ThreadOK
<1>1. CASE NetThread
  BY <1>1 DEF NetThread, Listen, ListenFails, AcceptFails, Accepted, TimesOut, QueueAck,
     QueueRecv, HandleAck, RecvPollFails, RecvNothing, RecvByte, RecvError, RecvEnd, SendData,
     SendBlocks, Unblock, SendKills, SendDropped, Fail, threadVars, peerVars, Handle, Empty, Turn,
     TurnsPerTick
<1>2. CASE Accept
  BY <1>2 DEF Accept, Accepted
<1>3. CASE WorkerDecides \/ WorkerEnqueues \/ PeerSends \/ PeerCloses \/ PeerStalls \/ Tick
  BY <1>3 DEF WorkerDecides, WorkerEnqueues, PeerSends, PeerCloses, PeerStalls, Tick, threadVars,
     peerVars, TurnsPerTick
<1>4. CASE UNCHANGED vars
  BY <1>4 DEF vars, threadVars, peerVars
<1> QED BY <1>1, <1>2, <1>3, <1>4 DEF Next

LEMMA PeerStep == Typed /\ [Next]_vars => PeerOK'
<1> SUFFICES ASSUME Typed, [Next]_vars PROVE PeerOK'
  OBVIOUS
<1> USE NetworkAssumption DEF Typed, PeerOK
<1>1. CASE RecvByte
  BY <1>1 DEF RecvByte, Handle
<1>2. CASE NetThread /\ ~RecvByte
  <2>1. CASE Listen \/ ListenFails \/ AcceptFails \/ QueueAck \/ QueueRecv \/ HandleAck
               \/ RecvPollFails \/ RecvNothing
    BY <2>1 DEF Listen, ListenFails, AcceptFails, QueueAck, QueueRecv, HandleAck, RecvPollFails,
       RecvNothing, peerVars, historyVars
  <2>2. CASE TimesOut \/ RecvEnd
    <3>1. /\ conn' = "none" /\ inbound' = <<>> /\ waited' = 0
          /\ UNCHANGED <<nextByte, queued>>
      BY <2>2 DEF TimesOut, RecvEnd, Fail
    <3> QED BY <3>1
  <2>4. CASE RecvError
    BY <2>4 DEF RecvError, historyVars
  <2>3. CASE SendData \/ SendBlocks \/ Unblock \/ SendKills \/ SendDropped
    BY <2>3 DEF SendData, SendBlocks, Unblock, SendKills, SendDropped, peerVars, historyVars
  <2> QED BY <1>2, <2>1, <2>2, <2>3, <2>4 DEF NetThread
<1>3. CASE Accept
  BY <1>3 DEF Accept, Accepted
<1>4. CASE PeerSends
  BY <1>4 DEF PeerSends, historyVars
<1>5. CASE WorkerDecides \/ WorkerEnqueues \/ PeerCloses \/ PeerStalls \/ Tick
  BY <1>5 DEF WorkerDecides, WorkerEnqueues, PeerCloses, PeerStalls, Tick, peerVars, historyVars
<1>6. CASE UNCHANGED vars
  BY <1>6 DEF vars, peerVars, historyVars
<1> QED BY <1>1, <1>2, <1>3, <1>4, <1>5, <1>6 DEF Next

LEMMA CountsStep == Typed /\ [Next]_vars => CountsOK'
<1> SUFFICES ASSUME Typed, [Next]_vars PROVE CountsOK'
  OBVIOUS
<1> USE NetworkAssumption DEF Typed, CountsOK
<1>1. CASE NetThread
  BY <1>1 DEF NetThread, Listen, ListenFails, AcceptFails, Accepted, TimesOut, QueueAck,
     QueueRecv, HandleAck, RecvPollFails, RecvNothing, RecvByte, RecvError, RecvEnd, SendData,
     SendBlocks, Unblock, SendKills, SendDropped, NoteStale, Fail, threadVars, peerVars,
     workerVars, historyVars
<1>2. CASE Accept
  BY <1>2 DEF Accept, Accepted, workerVars
<1>3. CASE WorkerDecides \/ WorkerEnqueues \/ PeerSends \/ PeerCloses \/ PeerStalls \/ Tick
  BY <1>3 DEF WorkerDecides, WorkerEnqueues, PeerSends, PeerCloses, PeerStalls, Tick, workerVars,
     historyVars
<1>4. CASE UNCHANGED vars
  BY <1>4 DEF vars, workerVars, historyVars
<1> QED BY <1>1, <1>2, <1>3, <1>4 DEF Next

-----------------------------------------------------------------------------
(* What becomes of the queue.                                              *)

\* An item is taken or put, or the queue left alone.
QueueKept == qn' = qn
ItemTaken == pc = "loop" /\ pc' # "accept" /\ qn # <<>> /\ qn' = Tail(qn)

\* What the thread itself queues: a read or an ack, to an empty queue or after accept.
OwnItemPut ==
    /\ pc = "accept" \/ (pc = "loop" /\ qn = <<>>)
    /\ pc' = "loop"
    /\ \E type \in Types \ {"nq_send"} : qn' = Append(qn, Item(type))

\* Every step does one of these, or is the worker thread's WorkerEnqueues.
LEMMA QueueMoves == [Next]_vars => QueueKept \/ ItemTaken \/ OwnItemPut \/ WorkerEnqueues
<1> SUFFICES ASSUME [Next]_vars, ~WorkerEnqueues PROVE QueueKept \/ ItemTaken \/ OwnItemPut
  OBVIOUS
<1>1. CASE Listen \/ ListenFails \/ TimesOut \/ Unblock
  BY <1>1 DEF Listen, ListenFails, TimesOut, Unblock, QueueKept
<1>2. CASE QueueAck \/ QueueRecv
  BY <1>2 DEF QueueAck, QueueRecv, Empty, Turn, OwnItemPut, Types, threadVars
<1>3. CASE AcceptFails \/ Accept
  BY <1>3 DEF AcceptFails, Accept, Accepted, OwnItemPut, Types
<1>4. CASE HandleAck \/ RecvPollFails \/ RecvNothing \/ RecvByte \/ RecvError \/ RecvEnd
  BY <1>4 DEF HandleAck, RecvPollFails, RecvNothing, RecvByte, RecvError, RecvEnd, Handle, Turn,
     ItemTaken, threadVars
<1>5. CASE SendData \/ SendBlocks \/ SendKills \/ SendDropped
  BY <1>5 DEF SendData, SendBlocks, SendKills, SendDropped, Handle, Turn, ItemTaken, threadVars
<1>6. CASE WorkerDecides \/ PeerSends \/ PeerCloses \/ PeerStalls \/ Tick \/ UNCHANGED vars
  BY <1>6 DEF WorkerDecides, PeerSends, PeerCloses, PeerStalls, Tick, vars, QueueKept
<1> QED BY <1>1, <1>2, <1>3, <1>4, <1>5, <1>6 DEF Next, NetThread

\* The thread comes to wait for a peer only from an empty queue.
LEMMA ListensWhenEmpty ==
    [Next]_vars /\ pc' = "accept" => pc = "accept" \/ (qn = <<>> /\ ~connected' /\ Listen)
<1> SUFFICES ASSUME [Next]_vars, pc' = "accept", pc # "accept"
             PROVE  qn = <<>> /\ ~connected' /\ Listen
  OBVIOUS
<1>1. CASE Listen
  BY <1>1 DEF Listen, Empty
<1>2. CASE NetThread /\ ~Listen
  BY <1>2 DEF NetThread, ListenFails, AcceptFails, Accepted, TimesOut, QueueAck, QueueRecv,
     HandleAck, RecvPollFails, RecvNothing, RecvByte, RecvError, RecvEnd, SendData, SendBlocks,
     Unblock, SendKills, SendDropped, Fail, threadVars
<1>3. CASE ~NetThread
  BY <1>3 DEF Next, Accept, Accepted, WorkerDecides, WorkerEnqueues, PeerSends, PeerCloses,
     PeerStalls, Tick, vars, threadVars
<1> QED BY <1>1, <1>2, <1>3

LEMMA QueueStep == Typed /\ [Next]_vars => QueueOK'
<1> SUFFICES ASSUME Typed, [Next]_vars PROVE QueueOK'
  OBVIOUS
<1> USE DEF Typed, QueueOK
<1>1. CASE QueueKept
  BY <1>1 DEF QueueKept
<1>2. CASE ItemTaken
  BY <1>2 DEF ItemTaken
<1>3. CASE OwnItemPut
  <2>1. \A type \in Types : Item(type) \in Items
    BY DEF CountsOK, Items, Item
  <2> QED BY <1>3, <2>1 DEF OwnItemPut
<1>4. CASE WorkerEnqueues
  <2>1. [type |-> "nq_send", session |-> decided - 1] \in Items
    BY <1>4, NetworkAssumption DEF WorkerEnqueues, CountsOK, Items, Types
  <2> QED BY <1>4, <2>1 DEF WorkerEnqueues
<1> QED BY <1>1, <1>2, <1>3, <1>4, QueueMoves

LEMMA TypedStep == Typed /\ [Next]_vars => Typed'
BY FlagsStep, ThreadStep, PeerStep, CountsStep, QueueStep DEF Typed

LEMMA TypedAlways == Spec => []Typed
BY TypedInit, TypedStep, PTL DEF Spec

-----------------------------------------------------------------------------
(* One read queued.                                                        *)

\* The thread waits for a peer only after it has emptied its queue, so no read
\* is queued beside the one that follows accept.
ReadInv ==
    /\ \A i, j \in DOMAIN qn : qn[i].type # "nq_send" /\ qn[j].type # "nq_send" => i = j
    /\ pc = "accept" => \A i \in DOMAIN qn : qn[i].type = "nq_send"

LEMMA ReadInit == Init => ReadInv
BY DEF Init, ReadInv

LEMMA ReadStep == Typed /\ ReadInv /\ [Next]_vars => ReadInv'
<1> SUFFICES ASSUME Typed, ReadInv, [Next]_vars PROVE ReadInv'
  OBVIOUS
<1> USE DEF ReadInv
<1>0. qn \in Seq(Items)
  BY DEF Typed, QueueOK
<1>1. CASE QueueKept
  BY <1>1, ListensWhenEmpty DEF QueueKept
<1>2. CASE ItemTaken
  BY <1>0, <1>2 DEF ItemTaken
<1>3. CASE OwnItemPut
  BY <1>0, <1>3 DEF OwnItemPut, Item
<1>4. CASE WorkerEnqueues
  BY <1>0, <1>4 DEF WorkerEnqueues, threadVars
<1> QED BY <1>1, <1>2, <1>3, <1>4, QueueMoves

-----------------------------------------------------------------------------
(* One stale announcement.                                                 *)

Old(i) == qn[i].type = "nq_send" /\ qn[i].session < session

\* The worker thread has an announcement of an earlier session in hand.
OldInHand == 0 < decided /\ decided <= session

NoneAhead == (\A i \in DOMAIN qn : qn[i].session <= session) /\ decided <= session + 1

OneOld == \A i, j \in DOMAIN qn : Old(i) /\ Old(j) => i = j

\* What is old is written, queued or in hand, but only in one of these places.
OldOnce ==
    /\ stale <= 1
    /\ OldInHand => stale = 0
    /\ (\E i \in DOMAIN qn : Old(i)) => stale = 0 /\ ~OldInHand

\* While the thread waits for a peer, connected is not set, so that nothing but
\* the announcement that the worker thread had in hand can come to be queued.
WaitsWithOne ==
    pc = "accept" =>
        /\ ~connected
        /\ Len(qn) <= 1
        /\ qn # <<>> => decided = 0

StaleInv == NoneAhead /\ OneOld /\ OldOnce /\ WaitsWithOne

LEMMA StaleInit == Init => StaleInv
BY DEF Init, StaleInv, NoneAhead, OneOld, OldOnce, WaitsWithOne, Old, OldInHand

\* Writing an announcement counts it if it is old.
CountsOld == stale' = stale \/ (stale' = stale + 1 /\ Old(1))

\* The session and what the worker thread has in hand are no concern of theirs.
LEMMA Taking ==
    ASSUME ItemTaken, [Next]_vars
    PROVE  CountsOld /\ UNCHANGED <<session, decided>>
<1>1. Head(qn) = qn[1]
  BY DEF ItemTaken
<1>2. CASE NetThread
  BY <1>1, <1>2 DEF NetThread, ListenFails, AcceptFails, Accepted, TimesOut, QueueAck, QueueRecv,
     Listen, HandleAck, RecvPollFails, RecvNothing, RecvByte, RecvError, RecvEnd, SendData,
     SendBlocks, Unblock, SendKills, SendDropped, Handle, NoteStale, CountsOld, Old, workerVars,
     historyVars
<1>3. CASE ~NetThread
  BY <1>3 DEF Next, Accept, Accepted, WorkerDecides, WorkerEnqueues, PeerSends, PeerCloses,
     PeerStalls, Tick, vars, historyVars, ItemTaken
<1> QED BY <1>2, <1>3

\* Steps that leave the queue alone, but Accept: the session stays, and the
\* worker thread comes to have at most an announcement of this session in hand.
LEMMA Keeping ==
    ASSUME QueueKept, [Next]_vars, Typed
    PROVE  /\ UNCHANGED <<session, stale>>
           /\ decided' = decided \/ (decided' = session + 1 /\ connected)
<1>1. CASE NetThread
  BY <1>1 DEF NetThread, ListenFails, AcceptFails, Accepted, TimesOut, QueueAck, QueueRecv,
     Listen, HandleAck, RecvPollFails, RecvNothing, RecvByte, RecvError, RecvEnd, SendData,
     SendBlocks, Unblock, SendKills, SendDropped, NoteStale, Handle, QueueKept, workerVars,
     historyVars, Typed, QueueOK
<1>2. CASE ~NetThread
  BY <1>2 DEF Next, Accept, Accepted, WorkerDecides, WorkerEnqueues, PeerSends, PeerCloses,
     PeerStalls, Tick, vars, historyVars, workerVars, QueueKept, Typed, QueueOK
<1> QED BY <1>1, <1>2

\* What the thread queues is of the session it has then or had before.
LEMMA Putting ==
    ASSUME OwnItemPut, ~WorkerEnqueues, [Next]_vars
    PROVE  /\ decided' = decided
           /\ \/ pc = "accept" /\ session' = session + 1 /\ stale' = 0
              \/ UNCHANGED <<session, stale>>
<1>1. CASE NetThread
  BY <1>1 DEF NetThread, ListenFails, AcceptFails, Accepted, TimesOut, QueueAck, QueueRecv,
     Listen, HandleAck, RecvPollFails, RecvNothing, RecvByte, RecvError, RecvEnd, SendData,
     SendBlocks, Unblock, SendKills, SendDropped, NoteStale, Handle, OwnItemPut, workerVars,
     historyVars
<1>2. CASE ~NetThread
  BY <1>2 DEF Next, Accept, Accepted, WorkerDecides, PeerSends, PeerCloses, PeerStalls, Tick,
     vars, historyVars, workerVars, OwnItemPut
<1> QED BY <1>1, <1>2

\* While the thread waits for a peer, connected stays unset.
LEMMA StaysUnset ==
    ASSUME [Next]_vars, pc = "accept", pc' = "accept"
    PROVE  connected' = connected
<1>1. CASE NetThread
  BY <1>1 DEF NetThread, ListenFails, AcceptFails, Accepted, TimesOut, QueueAck, QueueRecv,
     Listen, HandleAck, RecvPollFails, RecvNothing, RecvByte, RecvError, RecvEnd, SendData,
     SendBlocks, Unblock, SendKills, SendDropped, Handle, Empty, Turn
<1>2. CASE ~NetThread
  BY <1>2 DEF Next, Accept, Accepted, WorkerDecides, WorkerEnqueues, PeerSends, PeerCloses,
     PeerStalls, Tick, vars, threadVars
<1> QED BY <1>1, <1>2

LEMMA StaleStep == Typed /\ StaleInv /\ [Next]_vars => StaleInv'
<1> SUFFICES ASSUME Typed, StaleInv, [Next]_vars PROVE StaleInv'
  OBVIOUS
<1>0. /\ qn \in Seq(Items) /\ session \in Nat /\ decided \in Nat /\ stale \in Nat
      /\ \A i \in DOMAIN qn : qn[i].session \in Nat
  <2>1. qn \in Seq(Items)
    BY DEF Typed, QueueOK
  <2>2. \A i \in DOMAIN qn : qn[i].session \in Nat
    <3>1. \A i \in DOMAIN qn : qn[i] \in Items
      BY <2>1
    <3> QED BY <3>1 DEF Items
  <2> QED BY <2>1, <2>2, NetworkAssumption DEF Typed, CountsOK
<1>1. CASE QueueKept
  <2>1. NoneAhead' /\ OneOld' /\ OldOnce'
    BY <1>0, <1>1, Keeping DEF StaleInv, NoneAhead, OneOld, OldOnce, Old, OldInHand, QueueKept
  <2>2. WaitsWithOne'
    BY <1>0, <1>1, Keeping, ListensWhenEmpty, StaysUnset DEF StaleInv, WaitsWithOne, QueueKept
  <2> QED BY <2>1, <2>2 DEF StaleInv
<1>2. CASE ItemTaken
  <2>1. CountsOld /\ UNCHANGED <<session, decided>>
    BY <1>2, Taking
  <2>2. /\ DOMAIN qn' = 1 .. Len(qn) - 1 /\ DOMAIN qn = 1 .. Len(qn) /\ Len(qn) \in Nat \ {0}
        /\ \A i \in DOMAIN qn' : qn'[i] = qn[i + 1] /\ i + 1 \in DOMAIN qn
    BY <1>0, <1>2 DEF ItemTaken
  <2>3. NoneAhead'
    BY <2>1, <2>2, <1>0 DEF StaleInv, NoneAhead
  <2>4. OneOld'
    BY <2>1, <2>2, <1>0 DEF StaleInv, OneOld, Old
  <2>5. OldOnce'
    BY <2>1, <2>2, <1>0 DEF StaleInv, OneOld, OldOnce, Old, OldInHand, CountsOld
  <2>6. WaitsWithOne'
    BY <1>2 DEF ItemTaken, WaitsWithOne
  <2> QED BY <2>3, <2>4, <2>5, <2>6 DEF StaleInv
<1>3. CASE OwnItemPut /\ ~WorkerEnqueues
  <2>1. PICK type \in Types \ {"nq_send"} : qn' = Append(qn, Item(type))
    BY <1>3 DEF OwnItemPut
  <2>2. /\ DOMAIN qn' = 1 .. Len(qn) + 1 /\ DOMAIN qn = 1 .. Len(qn) /\ Len(qn) \in Nat
        /\ \A i \in DOMAIN qn : qn'[i] = qn[i]
        /\ qn'[Len(qn) + 1].session = session /\ qn'[Len(qn) + 1].type # "nq_send"
    BY <1>0, <2>1 DEF Item
  <2>3. CASE UNCHANGED <<session, stale>>
    BY <1>0, <1>3, <2>2, <2>3, Putting
       DEF StaleInv, NoneAhead, OneOld, OldOnce, Old, OldInHand, WaitsWithOne, OwnItemPut
  <2>4. CASE pc = "accept" /\ session' = session + 1 /\ stale' = 0
    <3>1. Len(qn) <= 1 /\ (Len(qn) = 1 => decided = 0) /\ decided' = decided
      BY <1>0, <1>3, <2>4, Putting DEF StaleInv, WaitsWithOne
    <3>2. \A i \in DOMAIN qn' : Old(i)' => i = 1 /\ 1 \in DOMAIN qn
      BY <1>0, <2>2, <2>4, <3>1 DEF Old
    <3>3. NoneAhead' /\ OneOld'
      BY <1>0, <2>2, <2>4, <3>1, <3>2 DEF StaleInv, NoneAhead, OneOld
    <3>4. OldOnce'
      BY <1>0, <2>2, <2>4, <3>1, <3>2 DEF OldOnce, OldInHand
    <3>5. WaitsWithOne'
      BY <1>3 DEF OwnItemPut, WaitsWithOne
    <3> QED BY <3>3, <3>4, <3>5 DEF StaleInv
  <2> QED BY <1>3, <2>3, <2>4, Putting
<1>4. CASE WorkerEnqueues
  BY <1>0, <1>4
     DEF WorkerEnqueues, StaleInv, NoneAhead, OneOld, OldOnce, Old, OldInHand, WaitsWithOne,
           threadVars, historyVars
<1> QED BY <1>1, <1>2, <1>3, <1>4, QueueMoves

-----------------------------------------------------------------------------
(* Bytes in order.                                                         *)

Increasing(s) == \A i, j \in DOMAIN s : i < j => s[i] < s[j]

BytesInv ==
    /\ Increasing(queued) /\ Increasing(inbound)
    /\ \A i \in DOMAIN queued, j \in DOMAIN inbound : queued[i] < inbound[j]
    /\ \A i \in DOMAIN queued : queued[i] < nextByte
    /\ \A j \in DOMAIN inbound : inbound[j] < nextByte

LEMMA BytesInit == Init => BytesInv
BY DEF Init, BytesInv, Increasing

\* Bytes arrive in the kernel, are read, or are gone with the connection.
LEMMA ByteMoves ==
    [Next]_vars => \/ UNCHANGED <<queued, inbound, nextByte>>
                   \/ UNCHANGED <<queued, nextByte>> /\ inbound' = <<>>
                   \/ RecvByte
                   \/ PeerSends
<1> SUFFICES ASSUME [Next]_vars, ~RecvByte, ~PeerSends
             PROVE  UNCHANGED <<queued, nextByte>> /\ (UNCHANGED inbound \/ inbound' = <<>>)
  OBVIOUS
<1>1. CASE NetThread
  BY <1>1 DEF NetThread, ListenFails, AcceptFails, TimesOut, QueueAck, QueueRecv, Listen,
     HandleAck, RecvPollFails, RecvNothing, RecvError, RecvEnd, SendData, SendBlocks, Unblock,
     SendKills, SendDropped, Fail, peerVars, historyVars
<1>2. CASE ~NetThread
  BY <1>2 DEF Next, Accept, WorkerDecides, WorkerEnqueues, PeerCloses, PeerStalls, Tick, vars,
     peerVars, historyVars
<1> QED BY <1>1, <1>2

LEMMA BytesStep == Typed /\ BytesInv /\ [Next]_vars => BytesInv'
<1> SUFFICES ASSUME Typed, BytesInv, [Next]_vars PROVE BytesInv'
  OBVIOUS
<1>0. inbound \in Seq(Nat) /\ queued \in Seq(Nat) /\ nextByte \in Nat
  BY NetworkAssumption DEF Typed, PeerOK
<1>1. CASE UNCHANGED <<queued, inbound, nextByte>>
  BY <1>1 DEF BytesInv, Increasing
<1>2. CASE UNCHANGED <<queued, nextByte>> /\ inbound' = <<>>
  BY <1>2 DEF BytesInv, Increasing
<1>3. CASE RecvByte
  <2>1. inbound # <<>> /\ inbound' = Tail(inbound) /\ nextByte' = nextByte
        /\ queued' = Append(queued, inbound[1])
    BY <1>3 DEF RecvByte
  <2>2. /\ DOMAIN inbound' = 1 .. Len(inbound) - 1 /\ DOMAIN inbound = 1 .. Len(inbound)
        /\ Len(inbound) \in Nat \ {0}
        /\ \A i \in DOMAIN inbound' : inbound'[i] = inbound[i + 1]
    BY <1>0, <2>1
  <2>3. /\ DOMAIN queued' = 1 .. Len(queued) + 1 /\ DOMAIN queued = 1 .. Len(queued)
        /\ Len(queued) \in Nat
        /\ \A i \in DOMAIN queued : queued'[i] = queued[i]
        /\ queued'[Len(queued) + 1] = inbound[1]
    BY <1>0, <2>1
  <2> DEFINE n == Len(queued) + 1
  <2>4. \A i \in DOMAIN queued' : i = n \/ (i \in DOMAIN queued /\ i < n)
    BY <2>3
  <2>5. Increasing(queued')
    <3> SUFFICES ASSUME NEW i \in DOMAIN queued', NEW j \in DOMAIN queued', i < j
                 PROVE  queued'[i] < queued'[j]
      BY DEF Increasing
    <3>1. i \in DOMAIN queued
      BY <2>3, <2>4
    <3>2. CASE j = n
      BY <3>1, <3>2, <2>2, <2>3 DEF BytesInv
    <3>3. CASE j # n
      BY <3>1, <3>3, <2>3, <2>4 DEF BytesInv, Increasing
    <3> QED BY <3>2, <3>3
  <2>6. Increasing(inbound')
    <3> SUFFICES ASSUME NEW i \in DOMAIN inbound', NEW j \in DOMAIN inbound', i < j
                 PROVE  inbound'[i] < inbound'[j]
      BY DEF Increasing
    <3>1. i + 1 \in DOMAIN inbound /\ j + 1 \in DOMAIN inbound /\ i + 1 < j + 1
      BY <2>2
    <3> QED BY <3>1, <2>2 DEF BytesInv, Increasing
  <2>7. \A i \in DOMAIN queued', j \in DOMAIN inbound' : queued'[i] < inbound'[j]
    <3> SUFFICES ASSUME NEW i \in DOMAIN queued', NEW j \in DOMAIN inbound'
                 PROVE  queued'[i] < inbound'[j]
      OBVIOUS
    <3>1. j + 1 \in DOMAIN inbound /\ 1 \in DOMAIN inbound /\ 1 < j + 1
      BY <2>2
    <3>2. CASE i = n
      BY <3>1, <3>2, <2>2, <2>3 DEF BytesInv, Increasing
    <3>3. CASE i # n
      BY <3>1, <3>3, <2>2, <2>3, <2>4 DEF BytesInv
    <3> QED BY <3>2, <3>3
  <2>8. \A i \in DOMAIN queued' : queued'[i] < nextByte'
    BY <2>1, <2>2, <2>3, <2>4 DEF BytesInv
  <2>9. \A j \in DOMAIN inbound' : inbound'[j] < nextByte'
    BY <2>1, <2>2 DEF BytesInv
  <2> QED BY <2>5, <2>6, <2>7, <2>8, <2>9 DEF BytesInv, Increasing
<1>4. CASE PeerSends
  <2>1. /\ queued' = queued /\ nextByte' = nextByte + 1
        /\ inbound' = Append(inbound, nextByte)
    BY <1>4 DEF PeerSends, historyVars
  <2>2. PICK n \in Nat : n = Len(inbound) /\ DOMAIN inbound = 1 .. n
    BY <1>0
  <2>3. /\ DOMAIN inbound' = 1 .. n + 1 /\ inbound'[n + 1] = nextByte
        /\ \A i \in 1 .. n : inbound'[i] = inbound[i]
    BY <1>0, <2>1, <2>2
  <2>4. /\ \A i \in DOMAIN inbound : inbound[i] \in Nat /\ inbound[i] < nextByte
        /\ \A i \in DOMAIN queued : queued[i] \in Nat /\ queued[i] < nextByte
    BY <1>0 DEF BytesInv
  <2>5. \A j \in DOMAIN inbound' : j = n + 1 \/ (j \in DOMAIN inbound /\ j < n + 1)
    BY <2>2, <2>3
  <2>6. Increasing(inbound')
    <3> SUFFICES ASSUME NEW i \in DOMAIN inbound', NEW j \in DOMAIN inbound', i < j
                 PROVE  inbound'[i] < inbound'[j]
      BY DEF Increasing
    <3>1. i \in DOMAIN inbound /\ inbound'[i] = inbound[i]
      BY <2>2, <2>3
    <3>2. CASE j = n + 1
      BY <2>3, <2>4, <3>1, <3>2
    <3>3. CASE j \in DOMAIN inbound
      BY <2>2, <2>3, <3>1, <3>3 DEF BytesInv, Increasing
    <3> QED BY <2>5, <3>2, <3>3
  <2>7. \A j \in DOMAIN inbound' : inbound'[j] < nextByte'
    BY <1>0, <2>1, <2>2, <2>3, <2>4, <2>5
  <2>8. \A i \in DOMAIN queued', j \in DOMAIN inbound' : queued'[i] < inbound'[j]
    BY <2>1, <2>2, <2>3, <2>4, <2>5 DEF BytesInv
  <2>9. Increasing(queued') /\ \A i \in DOMAIN queued' : queued'[i] < nextByte'
    BY <1>0, <2>1, <2>4 DEF BytesInv, Increasing
  <2> QED BY <2>6, <2>7, <2>8, <2>9 DEF BytesInv
<1> QED BY <1>1, <1>2, <1>3, <1>4, ByteMoves

-----------------------------------------------------------------------------
(* An announcement that is anywhere has been counted.                      *)

Sent == decided > 0 \/ stale > 0 \/ \E i \in DOMAIN qn : qn[i].type = "nq_send"

SentInv == Sent => sends > 0

LEMMA SentStep == Typed /\ SentInv /\ [Next]_vars => SentInv'
<1> SUFFICES ASSUME Typed, SentInv, [Next]_vars PROVE SentInv'
  OBVIOUS
<1>0. qn \in Seq(Items) /\ sends \in Nat /\ decided \in Nat /\ stale \in Nat
  BY NetworkAssumption DEF Typed, QueueOK, CountsOK
<1>1. UNCHANGED <<sends, decided>> \/ WorkerDecides \/ WorkerEnqueues
  BY DEF Next, NetThread, Accept, Listen, ListenFails, AcceptFails, TimesOut, QueueAck, QueueRecv,
     HandleAck, RecvPollFails, RecvNothing, RecvByte, RecvError, RecvEnd, SendData, SendBlocks,
     Unblock, SendKills, SendDropped, PeerSends, PeerCloses, PeerStalls, Tick, vars, workerVars
<1>2. CASE WorkerDecides
  BY <1>0, <1>2 DEF WorkerDecides, SentInv
<1>3. CASE WorkerEnqueues
  BY <1>0, <1>3 DEF WorkerEnqueues, SentInv, Sent
<1>4. CASE QueueKept /\ UNCHANGED <<sends, decided>>
  BY <1>0, <1>4, Keeping DEF QueueKept, SentInv, Sent
<1>5. CASE ItemTaken /\ UNCHANGED <<sends, decided>>
  <2>1. \A i \in DOMAIN qn' : i + 1 \in DOMAIN qn /\ qn'[i] = qn[i + 1]
    BY <1>0, <1>5 DEF ItemTaken
  <2>2. 1 \in DOMAIN qn
    BY <1>0, <1>5 DEF ItemTaken
  <2>3. stale' = stale \/ qn[1].type = "nq_send"
    BY <1>5, Taking DEF CountsOld, Old
  <2> QED BY <1>0, <1>5, <2>1, <2>2, <2>3 DEF SentInv, Sent
<1>6. CASE OwnItemPut /\ ~WorkerEnqueues /\ UNCHANGED <<sends, decided>>
  <2>1. PICK type \in Types \ {"nq_send"} : qn' = Append(qn, Item(type))
    BY <1>6 DEF OwnItemPut
  <2>2. \A i \in DOMAIN qn' : qn'[i].type = "nq_send" => i \in DOMAIN qn /\ qn'[i] = qn[i]
    BY <1>0, <2>1 DEF Item
  <2> QED BY <1>0, <1>6, <2>2, Putting DEF SentInv, Sent
<1> QED BY <1>1, <1>2, <1>3, <1>4, <1>5, <1>6, QueueMoves

-----------------------------------------------------------------------------
(* The theorems.                                                           *)

NetInv == Typed /\ ReadInv /\ StaleInv /\ BytesInv /\ SentInv

LEMMA NetInvariant == Spec => []NetInv
<1>1. Init => NetInv
  <2>1. Init => SentInv
    BY DEF Init, SentInv, Sent
  <2> QED BY <2>1, TypedInit, ReadInit, StaleInit, BytesInit DEF NetInv
<1>2. NetInv /\ [Next]_vars => NetInv'
  BY TypedStep, ReadStep, StaleStep, BytesStep, SentStep DEF NetInv
<1> QED BY <1>1, <1>2, PTL DEF Spec

\* TypeOK for every value of the constants.  Its bound on stale announcements
\* is why NetInv is needed: there are no more than were sent.
THEOREM NetTypeCorrect == Spec => []TypeOK
<1>1. NetInv => TypeOK
  <2> SUFFICES ASSUME NetInv PROVE TypeOK
    OBVIOUS
  <2>1. stale \in 0 .. MaxSends
    BY NetworkAssumption DEF NetInv, Typed, CountsOK, StaleInv, OldOnce, SentInv, Sent
  <2>2. FlagsOK /\ ThreadOK /\ PeerOK /\ qn \in Seq(Items) /\ CountsOK
    BY DEF NetInv, Typed, QueueOK
  <2> QED BY <2>1, <2>2, Zenon DEF TypeOK, FlagsOK, ThreadOK, PeerOK, CountsOK, Items
<1> QED BY <1>1, NetInvariant, PTL

\* OneReadQueued for every value of the constants: a read or ack in the queue is
\* the only one, since the thread queues one where it has none.
THEOREM ReadsDoNotCrowd == Spec => []OneReadQueued
<1>1. NetInv => OneReadQueued
  <2> SUFFICES ASSUME NetInv PROVE OneReadQueued
    OBVIOUS
  <2> DEFINE reads == {i \in DOMAIN qn : qn[i].type # "nq_send"}
  <2>1. \A i, j \in reads : i = j
    BY DEF NetInv, ReadInv
  <2>2. CASE reads = {}
    BY <2>2, FS_EmptySet DEF OneReadQueued
  <2>3. CASE reads # {}
    <3>1. PICK i : reads = {i}
      BY <2>1, <2>3
    <3>2. Cardinality(reads) = 1
      <4>1. Cardinality({i}) = 1
        BY FS_Singleton
      <4> QED BY <3>1, <4>1
    <3> QED BY <3>2 DEF OneReadQueued
  <2> QED BY <2>2, <2>3
<1> QED BY <1>1, NetInvariant, PTL

\* OneStaleSend for every value of the constants: a connection is opened from an
\* emptied queue, so only what the worker thread had in hand is left over.
THEOREM AtMostOneStale == Spec => []OneStaleSend
<1>1. NetInv => OneStaleSend
  BY DEF NetInv, StaleInv, OldOnce, OneStaleSend
<1> QED BY <1>1, NetInvariant, PTL

\* BytesInOrder for every value of the constants.
THEOREM BytesKeepOrder == Spec => []BytesInOrder
<1>1. NetInv => BytesInOrder
  <2> SUFFICES ASSUME NetInv PROVE BytesInOrder
    OBVIOUS
  <2> DEFINE all == queued \o inbound
             n   == Len(queued)
  <2>1. inbound \in Seq(Nat) /\ queued \in Seq(Nat)
    BY DEF NetInv, Typed, PeerOK
  <2>2. /\ n \in Nat /\ DOMAIN queued = 1 .. n /\ DOMAIN inbound = 1 .. Len(inbound)
        /\ \A i \in DOMAIN all : i \in Nat \ {0}
        /\ \A i \in DOMAIN all : IF i <= n THEN i \in DOMAIN queued /\ all[i] = queued[i]
                                           ELSE i - n \in DOMAIN inbound /\ all[i] = inbound[i - n]
    BY <2>1
  <2>3. SUFFICES ASSUME NEW i \in DOMAIN all, NEW j \in DOMAIN all, i < j PROVE all[i] < all[j]
    BY DEF BytesInOrder
  <2> HIDE DEF all, n
  <2>4. i \in Nat /\ j \in Nat
    BY <2>2
  <2>5. CASE j <= n
    BY <2>2, <2>3, <2>4, <2>5 DEF NetInv, BytesInv, Increasing
  <2>6. CASE i <= n /\ ~(j <= n)
    BY <2>2, <2>4, <2>6 DEF NetInv, BytesInv
  <2>7. CASE ~(i <= n)
    BY <2>2, <2>3, <2>4, <2>7 DEF NetInv, BytesInv, Increasing
  <2> QED BY <2>2, <2>4, <2>5, <2>6, <2>7
<1> QED BY <1>1, NetInvariant, PTL

-----------------------------------------------------------------------------
(* Reads are prompt.                                                       *)

\* Announcements that the worker thread can still come to queue.
Pending  == MaxSends - sends + (IF decided > 0 THEN 1 ELSE 0)
AllSends == \A i \in DOMAIN qn : qn[i].type = "nq_send"

\* The queue holds no more than the announcements made, and one item of the
\* thread's own.
RoomInv ==
    /\ Len(qn) + Pending <= MaxSends + 1
    /\ AllSends => Len(qn) + Pending <= MaxSends

\* A byte only waits where there is a connection to read it from, and without a
\* timeout no ack takes the place of a read.
LinkInv ==
    /\ open => connected
    /\ conn # "none" => open
    /\ inbound # <<>> => open
    /\ waited > 0 => inbound # <<>>
    /\ timeout = 0 => \A i \in DOMAIN qn : qn[i].type # "nq_send_ack"

\* The read that is queued, or will be when the queue is empty, comes up within
\* the turns that are left before the next tick.
ReadDue ==
    \/ \E i \in DOMAIN qn : qn[i].type = "nq_recv" /\ turns + i <= MaxSends + 2
    \/ AllSends /\ turns + Len(qn) + Pending <= MaxSends

PromptInv ==
    timeout = 0 /\ process = "running" =>
        waited <= 1 /\ (waited = 1 /\ pc = "loop" => ReadDue)

\* The counts of the announcements only change when the worker thread decides on
\* one or queues it.
LEMMA PendingMoves ==
    ASSUME Typed, [Next]_vars
    PROVE  /\ Pending \in Nat /\ Pending' \in Int
           /\ \/ UNCHANGED <<sends, decided>> /\ Pending' = Pending
              \/ WorkerDecides /\ Pending' = Pending /\ UNCHANGED <<qn, turns>>
              \/ WorkerEnqueues /\ Pending' = Pending - 1 /\ UNCHANGED turns
<1>1. UNCHANGED <<sends, decided>> \/ WorkerDecides \/ WorkerEnqueues
  BY DEF Next, NetThread, Accept, Listen, ListenFails, AcceptFails, TimesOut, QueueAck, QueueRecv,
     HandleAck, RecvPollFails, RecvNothing, RecvByte, RecvError, RecvEnd, SendData, SendBlocks,
     Unblock, SendKills, SendDropped, PeerSends, PeerCloses, PeerStalls, Tick, vars, workerVars
<1>2. sends \in Nat /\ sends <= MaxSends /\ decided \in Nat /\ MaxSends \in Nat
  BY NetworkAssumption DEF Typed, CountsOK
<1>3. Pending \in Nat
  BY <1>2 DEF Pending
<1>4. CASE UNCHANGED <<sends, decided>>
  BY <1>3, <1>4 DEF Pending
<1>5. CASE WorkerDecides
  <2>1. /\ decided = 0 /\ decided' > 0 /\ sends' = sends + 1 /\ UNCHANGED <<qn, turns>>
    BY <1>5, NetworkAssumption DEF WorkerDecides, Typed, CountsOK
  <2>2. Pending' = Pending
    BY <1>2, <2>1 DEF Pending
  <2> QED BY <1>3, <1>5, <2>1, <2>2
<1>6. CASE WorkerEnqueues
  <2>1. decided > 0 /\ decided' = 0 /\ sends' = sends /\ UNCHANGED turns
    BY <1>6 DEF WorkerEnqueues
  <2>2. Pending' = Pending - 1
    BY <1>2, <2>1 DEF Pending
  <2> QED BY <1>3, <1>6, <2>1, <2>2
<1> QED BY <1>1, <1>4, <1>5, <1>6

\* What becomes of the items when one is taken, and when one is put.
LEMMA Shorter ==
    ASSUME NEW s \in Seq(Items), s # <<>>
    PROVE  /\ Tail(s) \in Seq(Items) /\ Len(s) \in Nat /\ Len(s) > 0 /\ Len(Tail(s)) = Len(s) - 1
           /\ DOMAIN Tail(s) = 1 .. Len(s) - 1 /\ DOMAIN s = 1 .. Len(s) /\ Head(s) = s[1]
           /\ \A i \in DOMAIN Tail(s) : i + 1 \in DOMAIN s /\ Tail(s)[i] = s[i + 1]
           /\ \A i \in DOMAIN s : i # 1 => i - 1 \in DOMAIN Tail(s) /\ Tail(s)[i - 1] = s[i]
OBVIOUS

LEMMA Longer ==
    ASSUME NEW s \in Seq(Items), NEW x \in Items
    PROVE  /\ Append(s, x) \in Seq(Items) /\ Len(s) \in Nat /\ Len(Append(s, x)) = Len(s) + 1
           /\ DOMAIN Append(s, x) = 1 .. Len(s) + 1 /\ DOMAIN s = 1 .. Len(s)
           /\ \A i \in DOMAIN s : i \in DOMAIN Append(s, x) /\ Append(s, x)[i] = s[i]
           /\ Append(s, x)[Len(s) + 1] = x
OBVIOUS

\* What the queue is and what is put into it.
LEMMA ItemFacts ==
    ASSUME Typed
    PROVE  /\ qn \in Seq(Items) /\ \A type \in Types : Item(type) \in Items
           /\ WorkerEnqueues => [type |-> "nq_send", session |-> decided - 1] \in Items
<1>1. decided \in Nat /\ session \in Nat
  BY NetworkAssumption DEF Typed, CountsOK
<1> QED BY <1>1 DEF Typed, QueueOK, Items, Item, Types, WorkerEnqueues

LEMMA RoomInit == Init => RoomInv
<1> SUFFICES ASSUME Init PROVE RoomInv
    OBVIOUS
<1>1. Len(qn) = 1 /\ DOMAIN qn = {1} /\ qn[1].type = "nq_recv" /\ Pending = MaxSends
  BY NetworkAssumption DEF Init, Pending
<1> QED BY <1>1, NetworkAssumption DEF RoomInv, AllSends

LEMMA RoomStep == Typed /\ ReadInv /\ RoomInv /\ [Next]_vars => RoomInv'
<1> SUFFICES ASSUME Typed, ReadInv, RoomInv, [Next]_vars PROVE RoomInv'
    OBVIOUS
<1> DEFINE l == Len(qn)
<1>0. /\ qn \in Seq(Items) /\ l \in Nat /\ Pending \in Nat /\ MaxSends \in Nat
      /\ l + Pending <= MaxSends + 1 /\ (AllSends => l + Pending <= MaxSends)
  BY ItemFacts, PendingMoves, NetworkAssumption DEF RoomInv
<1>1. CASE WorkerEnqueues
  <2> DEFINE x == [type |-> "nq_send", session |-> decided - 1]
  <2>1. qn' = Append(qn, x) /\ x \in Items /\ Pending' = Pending - 1
    BY <1>1, ItemFacts, PendingMoves DEF WorkerEnqueues, WorkerDecides
  <2>2. Len(qn') = l + 1 /\ (AllSends' => AllSends)
    BY <1>0, <2>1, Longer DEF AllSends
  <2> QED BY <1>0, <2>1, <2>2 DEF RoomInv
<1>2. ASSUME ~WorkerEnqueues PROVE RoomInv'
  <2>1. Pending' = Pending
    BY <1>2, PendingMoves
  <2>2. CASE QueueKept
    BY <1>0, <2>1, <2>2 DEF QueueKept, RoomInv, AllSends
  <2>3. CASE ItemTaken
    <3>1. Len(qn') = l - 1
      BY <1>0, <2>3, Shorter DEF ItemTaken
    <3> QED BY <1>0, <2>1, <3>1 DEF RoomInv
  <2>4. CASE OwnItemPut
    <3>1. PICK type \in Types \ {"nq_send"} : qn' = Append(qn, Item(type))
      BY <2>4 DEF OwnItemPut
    <3>2. Item(type) \in Items /\ Item(type).type = type
      BY ItemFacts DEF Item
    <3>3. Len(qn') = l + 1 /\ qn'[l + 1].type = type /\ l + 1 \in DOMAIN qn'
      BY <1>0, <3>1, <3>2, Longer
    <3>4. ~AllSends'
      BY <3>1, <3>3 DEF AllSends
    <3>5. AllSends
      BY <2>4 DEF OwnItemPut, ReadInv, AllSends
    <3> QED BY <1>0, <2>1, <3>3, <3>4, <3>5 DEF RoomInv
  <2> QED BY <1>2, <2>2, <2>3, <2>4, QueueMoves
<1> QED BY <1>1, <1>2

LEMMA LinkInit == Init => LinkInv
BY DEF Init, LinkInv

\* No step gives bytes without a connection, or leaves one without its flag.
LEMMA LinkStep == Typed /\ StaleInv /\ LinkInv /\ [Next]_vars => LinkInv'
<1> SUFFICES ASSUME Typed, StaleInv, LinkInv, [Next]_vars PROVE LinkInv'
    OBVIOUS
<1> DEFINE Linked  == (open => connected) /\ (conn # "none" => open) /\ (inbound # <<>> => open)
           Waiting == waited > 0 => inbound # <<>>
           NoAcks  == timeout = 0 => \A i \in DOMAIN qn : qn[i].type # "nq_send_ack"
<1>0. /\ Linked /\ Waiting /\ NoAcks /\ (pc = "accept" => ~connected)
      /\ waited \in Nat /\ inbound \in Seq(Nat)
  BY DEF LinkInv, StaleInv, WaitsWithOne, Typed, PeerOK
<1>1. Linked' /\ Waiting'
  <2>1. CASE TimesOut \/ RecvEnd
    BY <2>1 DEF TimesOut, RecvEnd, Fail
  <2>2. CASE Accept \/ AcceptFails
    BY <1>0, <2>2 DEF Accept, AcceptFails, Accepted, peerVars, historyVars
  <2>3. CASE RecvByte
    BY <1>0, <2>3 DEF RecvByte
  <2>4. CASE Unblock
    BY <1>0, <2>4 DEF Unblock, peerVars
  <2>5. CASE PeerSends \/ PeerCloses \/ PeerStalls
    BY <1>0, <2>5 DEF PeerSends, PeerCloses, PeerStalls, threadVars, historyVars
  <2>6. CASE Tick
    BY <1>0, <2>6 DEF Tick, peerVars
  <2>7. CASE SendData \/ SendBlocks \/ RecvError
    BY <1>0, <2>7 DEF SendData, SendBlocks, RecvError, threadVars, peerVars, historyVars
  <2>8. CASE Listen \/ ListenFails \/ QueueAck \/ QueueRecv \/ HandleAck \/ RecvPollFails
             \/ RecvNothing \/ SendKills \/ SendDropped \/ WorkerDecides \/ WorkerEnqueues
             \/ UNCHANGED vars
    BY <1>0, <2>8 DEF Listen, ListenFails, QueueAck, QueueRecv, HandleAck, RecvPollFails,
       RecvNothing, SendKills, SendDropped, WorkerDecides, WorkerEnqueues, vars, threadVars,
       peerVars, historyVars
  <2> HIDE DEF Linked, Waiting
  <2> QED BY <2>1, <2>2, <2>3, <2>4, <2>5, <2>6, <2>7, <2>8 DEF Next, NetThread
<1>2. NoAcks'
  <2> SUFFICES ASSUME timeout' = 0 PROVE \A i \in DOMAIN qn' : qn'[i].type # "nq_send_ack"
      OBVIOUS
  <2>1. timeout' = timeout /\ ~QueueAck
    BY DEF Next, NetThread, Accept, Listen, ListenFails, AcceptFails, TimesOut, QueueAck,
       QueueRecv, HandleAck, RecvPollFails, RecvNothing, RecvByte, RecvError, RecvEnd, SendData,
       SendBlocks, Unblock, SendKills, SendDropped, PeerSends, PeerCloses, PeerStalls, Tick,
       WorkerDecides, WorkerEnqueues, vars, AckDue
  <2>2. \A i \in DOMAIN qn : qn[i].type # "nq_send_ack"
    BY <1>0, <2>1
  <2>3. /\ qn \in Seq(Items)
        /\ \A x \in Items : qn' = Append(qn, x) /\ x.type # "nq_send_ack" =>
               \A i \in DOMAIN qn' : qn'[i].type # "nq_send_ack"
    BY <2>2, ItemFacts
  <2>4. CASE WorkerEnqueues
    BY <2>3, <2>4, ItemFacts DEF WorkerEnqueues
  <2>5. CASE QueueKept
    BY <2>2, <2>5 DEF QueueKept
  <2>6. CASE ItemTaken
    BY <2>2, <2>3, <2>6, Shorter DEF ItemTaken
  <2>7. CASE OwnItemPut
    <3>1. QueueRecv \/ Accept \/ AcceptFails \/ qn' = qn \/ WorkerEnqueues \/ ItemTaken
      BY <2>1, <2>7 DEF Next, NetThread, Listen, ListenFails, TimesOut,
         HandleAck, RecvPollFails, RecvNothing, RecvByte, RecvError, RecvEnd, SendData,
         SendBlocks, Unblock, SendKills, SendDropped, PeerSends, PeerCloses, PeerStalls, Tick,
         WorkerDecides, vars, Handle, Turn, ItemTaken, threadVars
    <3>2. CASE QueueRecv \/ Accept \/ AcceptFails
      <4>1. qn' = Append(qn, Item("nq_recv")) /\ Item("nq_recv") \in Items
        BY <3>2, ItemFacts DEF QueueRecv, Accept, AcceptFails, Accepted, Types
      <4> QED BY <2>3, <4>1 DEF Item
    <3> QED BY <2>2, <2>4, <2>6, <3>1, <3>2
  <2> QED BY <2>4, <2>5, <2>6, <2>7, QueueMoves
<1> QED BY <1>1, <1>2 DEF LinkInv

\* Without a timeout, while a byte waits that is not read in this step, the
\* thread can only go through the announcements ahead of the read, or queue it.
AnnouncementTaken == Turn /\ qn # <<>> /\ Head(qn).type = "nq_send" /\ qn' = Tail(qn)
ReadPut           == Turn /\ qn = <<>> /\ qn' = Append(qn, Item("nq_recv"))

LEMMA WaitMoves ==
    ASSUME Typed, StaleInv, LinkInv, [Next]_vars, timeout = 0, waited > 0, pc = "loop",
           process' = "running", pc' = "loop", waited' # 0, ~Tick
    PROVE  /\ waited' = waited
           /\ \/ UNCHANGED <<qn, turns, sends, decided>>
              \/ WorkerDecides \/ WorkerEnqueues
              \/ AnnouncementTaken /\ UNCHANGED <<sends, decided>>
              \/ ReadPut /\ UNCHANGED <<sends, decided>>
<1>0. /\ connected /\ open /\ inbound # <<>> /\ ~TimedOut /\ ~AckDue
      /\ \A i \in DOMAIN qn : qn[i].type # "nq_send_ack"
  BY DEF LinkInv, TimedOut, AckDue
<1>1. ~(Listen \/ ListenFails \/ TimesOut \/ QueueAck)
  BY <1>0 DEF Listen, ListenFails, TimesOut, QueueAck
<1>2. ~(Accept \/ AcceptFails \/ Unblock)
  BY DEF Accept, AcceptFails, Accepted, Unblock
<1>3. ~(RecvNothing \/ RecvByte \/ RecvError \/ RecvEnd \/ SendDropped)
  BY <1>0 DEF RecvNothing, RecvByte, RecvError, RecvEnd, SendDropped
<1>4. ~(RecvPollFails \/ SendKills)
  BY DEF RecvPollFails, SendKills
<1>5. ~SendBlocks
  BY DEF SendBlocks
<1>6. ~HandleAck
  <2>1. qn # <<>> => 1 \in DOMAIN qn /\ Head(qn) = qn[1]
    BY Shorter, ItemFacts
  <2> QED BY <1>0, <2>1 DEF HandleAck, Handle
<1>7. SendData => AnnouncementTaken /\ UNCHANGED <<sends, decided, waited>>
  BY DEF SendData, Handle, AnnouncementTaken, workerVars
<1>8. QueueRecv => ReadPut /\ UNCHANGED <<sends, decided, waited>>
  BY DEF QueueRecv, Empty, ReadPut, workerVars, historyVars
<1>9. PeerSends \/ PeerCloses \/ PeerStalls \/ UNCHANGED vars =>
          UNCHANGED <<qn, turns, sends, decided, waited>>
  BY DEF PeerSends, PeerCloses, PeerStalls, vars, workerVars, historyVars
<1>10. WorkerDecides \/ WorkerEnqueues => UNCHANGED waited
  BY DEF WorkerDecides, WorkerEnqueues, historyVars
<1> QED BY <1>1, <1>2, <1>3, <1>4, <1>5, <1>6, <1>7, <1>8, <1>9, <1>10 DEF Next, NetThread

\* The turns that are left are enough, whatever the thread does with one.
LEMMA ReadStaysDue ==
    ASSUME Typed, StaleInv, LinkInv, ReadDue, [Next]_vars, timeout = 0, waited > 0, pc = "loop",
           process' = "running", pc' = "loop", waited' # 0, ~Tick
    PROVE  ReadDue'
<1> DEFINE l == Len(qn)
<1>0. /\ qn \in Seq(Items) /\ l \in Nat /\ Pending \in Nat /\ MaxSends \in Nat /\ turns \in Nat
      /\ turns <= TurnsPerTick /\ TurnsPerTick = MaxSends + 3 /\ DOMAIN qn = 1 .. l
  BY ItemFacts, PendingMoves, NetworkAssumption DEF Typed, ThreadOK, TurnsPerTick
<1>1. turns < TurnsPerTick
  BY <1>0 DEF ReadDue
<1>2. Turn => turns' = turns + 1
  BY <1>1 DEF Turn
<1>3. UNCHANGED <<sends, decided>> => Pending' = Pending
  BY DEF Pending
<1>4. CASE UNCHANGED <<qn, turns, sends, decided>>
  BY <1>3, <1>4 DEF ReadDue, AllSends
<1>5. CASE WorkerDecides
  <2>1. UNCHANGED <<qn, turns>> /\ (Pending' = Pending \/ Pending' = Pending - 1)
    BY <1>5, PendingMoves DEF WorkerDecides
  <2> QED BY <1>0, <2>1 DEF ReadDue, AllSends
<1>6. CASE WorkerEnqueues
  <2> DEFINE x == [type |-> "nq_send", session |-> decided - 1]
  <2>1. qn' = Append(qn, x) /\ x \in Items /\ turns' = turns /\ Pending' = Pending - 1
    <3>1. ~WorkerDecides /\ ~UNCHANGED decided
      BY <1>6 DEF WorkerDecides, WorkerEnqueues, Typed, CountsOK
    <3> QED BY <1>6, <3>1, ItemFacts, PendingMoves DEF WorkerEnqueues
  <2>2. /\ Len(qn') = l + 1 /\ DOMAIN qn' = 1 .. l + 1
        /\ \A i \in DOMAIN qn : i \in DOMAIN qn' /\ qn'[i] = qn[i]
        /\ qn'[l + 1] = x
    BY <1>0, <2>1, Longer
  <2>3. CASE \E i \in DOMAIN qn : qn[i].type = "nq_recv" /\ turns + i <= MaxSends + 2
    BY <2>1, <2>2, <2>3 DEF ReadDue
  <2>4. CASE AllSends /\ turns + Len(qn) + Pending <= MaxSends
    <3>1. AllSends'
      <4> SUFFICES ASSUME NEW i \in DOMAIN qn' PROVE qn'[i].type = "nq_send"
          BY DEF AllSends
      <4>1. i \in DOMAIN qn \/ i = l + 1
        BY <1>0, <2>2
      <4> QED BY <2>2, <2>4, <4>1 DEF AllSends
    <3>2. turns' + Len(qn') + Pending' <= MaxSends
      BY <1>0, <2>1, <2>2, <2>4
    <3> QED BY <3>1, <3>2 DEF ReadDue
  <2> QED BY <2>3, <2>4 DEF ReadDue
<1>7. CASE AnnouncementTaken /\ UNCHANGED <<sends, decided>>
  <2>1. /\ turns' = turns + 1 /\ Pending' = Pending /\ qn' = Tail(qn)
        /\ qn # <<>> /\ Head(qn).type = "nq_send"
    BY <1>2, <1>3, <1>7 DEF AnnouncementTaken
  <2>2. /\ Len(qn') = l - 1 /\ l > 0 /\ qn[1].type = "nq_send"
        /\ \A i \in DOMAIN qn' : i + 1 \in DOMAIN qn /\ qn'[i] = qn[i + 1]
        /\ \A i \in DOMAIN qn : i # 1 => i - 1 \in DOMAIN qn' /\ qn'[i - 1] = qn[i]
    BY <1>0, <2>1, Shorter
  <2>3. CASE \E i \in DOMAIN qn : qn[i].type = "nq_recv" /\ turns + i <= MaxSends + 2
    <3>1. PICK i \in DOMAIN qn : qn[i].type = "nq_recv" /\ turns + i <= MaxSends + 2
      BY <2>3
    <3>2. i # 1 /\ i - 1 \in DOMAIN qn' /\ qn'[i - 1].type = "nq_recv"
      BY <2>2, <3>1
    <3>3. turns' + (i - 1) <= MaxSends + 2
      BY <1>0, <2>1, <3>1
    <3> QED BY <3>2, <3>3 DEF ReadDue
  <2>4. CASE AllSends /\ turns + Len(qn) + Pending <= MaxSends
    <3>1. AllSends'
      BY <2>2, <2>4 DEF AllSends
    <3>2. turns' + Len(qn') + Pending' <= MaxSends
      BY <1>0, <2>1, <2>2, <2>4
    <3> QED BY <3>1, <3>2 DEF ReadDue
  <2> QED BY <2>3, <2>4 DEF ReadDue
<1>8. CASE ReadPut /\ UNCHANGED <<sends, decided>>
  <2>1. turns' = turns + 1 /\ qn = <<>> /\ qn' = Append(qn, Item("nq_recv"))
    BY <1>2, <1>8 DEF ReadPut
  <2>2. DOMAIN qn' = {1} /\ qn'[1].type = "nq_recv"
    BY <2>1 DEF Item
  <2>3. l = 0 /\ turns + Pending <= MaxSends
    BY <1>0, <2>1 DEF ReadDue
  <2>4. turns' + 1 <= MaxSends + 2
    BY <1>0, <2>1, <2>3
  <2> QED BY <2>2, <2>4 DEF ReadDue
<1> QED BY <1>4, <1>5, <1>6, <1>7, <1>8, WaitMoves

\* A tick finds the queue with room for the turns to come.
LEMMA DueAfterTick ==
    ASSUME Typed, RoomInv, LinkInv, [Next]_vars, Tick, timeout = 0
    PROVE  ReadDue'
<1> DEFINE l == Len(qn)
<1>0. /\ qn \in Seq(Items) /\ l \in Nat /\ Pending \in Nat /\ MaxSends \in Nat
      /\ DOMAIN qn = 1 .. l
  BY ItemFacts, PendingMoves, NetworkAssumption
<1>1. turns' = 0 /\ UNCHANGED <<qn, sends, decided>>
  BY DEF Tick, workerVars
<1>2. CASE AllSends
  <2>1. Pending' = Pending /\ AllSends'
    BY <1>1, <1>2 DEF Pending, AllSends
  <2>2. turns' + Len(qn') + Pending' <= MaxSends
    BY <1>0, <1>1, <1>2, <2>1 DEF RoomInv
  <2> QED BY <2>1, <2>2 DEF ReadDue
<1>3. CASE ~AllSends
  <2>1. PICK i \in DOMAIN qn : qn[i].type # "nq_send"
    BY <1>3 DEF AllSends
  <2>2. qn[i].type = "nq_recv"
    <3>1. qn[i] \in Items
      BY <1>0
    <3> QED BY <2>1, <3>1 DEF Items, Types, LinkInv
  <2>3. turns' + i <= MaxSends + 2
    BY <1>0, <1>1 DEF RoomInv
  <2> QED BY <1>1, <2>2, <2>3 DEF ReadDue
<1> QED BY <1>2, <1>3

LEMMA PromptInit == Init => PromptInv
BY DEF Init, PromptInv

LEMMA PromptStep ==
    Typed /\ StaleInv /\ RoomInv /\ LinkInv /\ PromptInv /\ [Next]_vars => PromptInv'
<1> SUFFICES ASSUME Typed, StaleInv, RoomInv, LinkInv, PromptInv, [Next]_vars,
                    timeout' = 0, process' = "running"
             PROVE  waited' <= 1 /\ (waited' = 1 /\ pc' = "loop" => ReadDue')
    BY DEF PromptInv
<1>0. /\ timeout = 0 /\ process = "running"
      /\ waited \in Nat /\ waited' \in Nat
  <2>1. Typed'
    BY TypedStep
  <2>2. timeout' = timeout
    BY DEF Next, NetThread, Accept, Listen, ListenFails, AcceptFails, TimesOut, QueueAck,
       QueueRecv, HandleAck, RecvPollFails, RecvNothing, RecvByte, RecvError, RecvEnd, SendData,
       SendBlocks, Unblock, SendKills, SendDropped, PeerSends, PeerCloses, PeerStalls, Tick,
       WorkerDecides, WorkerEnqueues, vars
  <2>3. process = "running"
    BY DEF Next, NetThread, Accept, Accepted, Listen, ListenFails, AcceptFails, TimesOut, QueueAck,
       QueueRecv, HandleAck, RecvPollFails, RecvNothing, RecvByte, RecvError, RecvEnd, SendData,
       SendBlocks, Unblock, SendKills, SendDropped, PeerSends, PeerCloses, PeerStalls, Tick,
       WorkerDecides, WorkerEnqueues, vars, Handle, Empty, Turn, threadVars
  <2> QED BY <2>1, <2>2, <2>3 DEF Typed, PeerOK
<1>1. waited <= 1 /\ (waited = 1 /\ pc = "loop" => ReadDue)
  BY <1>0 DEF PromptInv
<1>2. CASE Tick
  <2>1. waited = 1 /\ pc = "loop" => FALSE
    BY <1>1, <1>2, PendingMoves, ItemFacts, NetworkAssumption
       DEF Tick, ReadDue, TurnsPerTick, Typed, ThreadOK
  <2>2. waited' = waited \/ (waited' = waited + 1 /\ pc = "loop")
    BY <1>2 DEF Tick
  <2> QED BY <1>0, <1>1, <1>2, <2>1, <2>2, DueAfterTick
<1>3. CASE ~Tick
  <2>1. CASE waited = 0 \/ pc # "loop"
    <3>1. pc = "accept" => waited = 0
      BY <1>0 DEF LinkInv, StaleInv, WaitsWithOne
    <3>2. waited' = waited \/ waited' = 0
      BY <1>3 DEF Next, NetThread, Accept, Listen, ListenFails, AcceptFails, TimesOut, QueueAck,
         QueueRecv, HandleAck, RecvPollFails, RecvNothing, RecvByte, RecvError, RecvEnd, SendData,
         SendBlocks, Unblock, SendKills, SendDropped, PeerSends, PeerCloses, PeerStalls, Fail,
         WorkerDecides, WorkerEnqueues, vars, historyVars
    <3>3. pc = "write" => pc' = "write" \/ waited' = 0
      BY <1>3 DEF Next, NetThread, Accept, Accepted, Listen, ListenFails, AcceptFails, TimesOut,
         QueueAck, QueueRecv, HandleAck, RecvPollFails, RecvNothing, RecvByte, RecvError, RecvEnd,
         SendData, SendBlocks, Unblock, SendKills, SendDropped, PeerSends, PeerCloses, PeerStalls,
         WorkerDecides, WorkerEnqueues, vars, Handle, Empty, Turn, threadVars
    <3>4. pc \in {"loop", "accept", "write"}
      BY DEF Typed, ThreadOK
    <3> QED BY <1>0, <1>1, <2>1, <3>1, <3>2, <3>3, <3>4
  <2>2. CASE waited = 1 /\ pc = "loop"
    <3>1. waited' <= 1
      BY <1>0, <1>3, <2>2
         DEF Next, NetThread, Accept, Listen, ListenFails, AcceptFails, TimesOut, QueueAck,
         QueueRecv, HandleAck, RecvPollFails, RecvNothing, RecvByte, RecvError, RecvEnd, SendData,
         SendBlocks, Unblock, SendKills, SendDropped, PeerSends, PeerCloses, PeerStalls, Fail,
         WorkerDecides, WorkerEnqueues, vars, historyVars
    <3>2. waited' = 1 /\ pc' = "loop" => ReadDue'
      BY <1>0, <1>1, <1>3, <2>2, ReadStaysDue
    <3> QED BY <3>1, <3>2
  <2> QED BY <1>0, <1>1, <2>1, <2>2
<1> QED BY <1>2, <1>3

\* BytesReadPromptly for every value of the constants: without a timeout the read
\* that follows a byte is queued behind the announcements made so far, and these
\* are as many as a tick has turns for.
THEOREM ReadsArePrompt == Spec => []BytesReadPromptly
<1>1. Init => RoomInv /\ LinkInv /\ PromptInv
  BY RoomInit, LinkInit, PromptInit
<1>2. NetInv /\ RoomInv /\ LinkInv /\ PromptInv /\ [Next]_vars =>
          (RoomInv /\ LinkInv /\ PromptInv)'
  BY RoomStep, LinkStep, PromptStep DEF NetInv
<1>3. PromptInv => BytesReadPromptly
  BY DEF PromptInv, BytesReadPromptly
<1> QED BY <1>1, <1>2, <1>3, NetInvariant, PTL DEF Spec
=============================================================================
