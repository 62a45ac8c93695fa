--------------------------- MODULE NetworkWorker ---------------------------
(***************************************************************************)
(* The network thread of the server (server/network_worker.cpp with the    *)
(* handlers of final/main_network_worker.cpp and the listener of           *)
(* util/listener.cpp) between the queues and one peer at a time.  It polls *)
(* the network queue qn; an empty queue makes it reconnect if need be,     *)
(* look at the timeout and queue the next read.                            *)
(*                                                                         *)
(* The peer and the kernel's end of the connection are external.  Bytes    *)
(* are numbered in the order the peer sends them, over all connections;    *)
(* bytes 0 and 1 stand for the characters '0' and '1'.                     *)
(*                                                                         *)
(* A definition named <D>_<Bug> is D with that bug; no behaviour of this    *)
(* module uses it.                                                         *)
(*                                                                         *)
(* pf is not initialised either, but until the first open_connection       *)
(* connfd is -1, so that whatever poll answers about a garbage pf.fd no    *)
(* byte is read.                                                           *)
(***************************************************************************)
EXTENDS Integers, Sequences, FiniteSetsExt

CONSTANTS
    Timeouts,      \* the timeouts in ticks; 0 (every program here) is none
    Initially,     \* the values the uninitialised members may start with
    Faults,        \* the system calls that may fail: "poll", "accept", "socket"
    MaxBytes,      \* bound: bytes the peers send
    MaxSends,      \* bound: announcements of the worker thread
    MaxSessions    \* bound: connections accepted

ASSUME NetworkAssumption ==
    /\ Timeouts \subseteq Nat /\ MaxBytes \in Nat /\ MaxSends \in Nat /\ MaxSessions \in Nat
    /\ Initially \subseteq BOOLEAN /\ Faults \subseteq {"poll", "accept", "socket"}

VARIABLES
    timeout,    \* the member that the constructor sets
    qn,         \* safe_queue of network items, oldest first
    connected,  \* the flag the worker thread reads too
    open,       \* connfd is a socket (and not -1)
    has_acked,
    silent,     \* now - last_recv, saturated at timeout + 1
    pc,         \* "loop", "accept" (blocked in accept) or "write" (in write)
    process,    \* "running", "exited" (by exit) or "killed" (by SIGPIPE)
    conn,       \* the kernel's end: "none", "up", "fin", "rst" or "dead"
    inbound,    \* bytes received by the kernel and not read yet
    full,       \* the peer does not read: a write would block
    nextByte,   \* bytes sent by the peers so far
    decided,    \* the worker thread read connected and is about to announce
    sends,      \* announcements of the worker thread so far
    queued,     \* history: the bytes handed to the worker, in order
    session,    \* history: connections accepted so far
    stale,      \* history: announcements of earlier sessions written in this one
    waited,     \* history: ticks for which a byte has waited, the thread not being blocked
    turns       \* loop turns since the last tick, saturated

threadVars == <<connected, open, has_acked, silent, pc, process>>
peerVars   == <<conn, inbound, full, nextByte>>
workerVars == <<decided, sends>>
historyVars == <<queued, session, stale, waited>>
vars == <<timeout, qn, threadVars, peerVars, workerVars, historyVars, turns>>

\* Every item remembers the session it was queued in, which only matters for
\* announcements.
Item(type) == [type |-> type, session |-> session]

\* A loop turn is far shorter than a tick: between two ticks the thread, unless
\* it is blocked, empties its queue and goes once around it.
TurnsPerTick == MaxSends + 3

Init ==
    /\ timeout \in Timeouts
    /\ qn = <<[type |-> "nq_recv", session |-> 0]>>
    /\ connected \in Initially /\ open = FALSE /\ has_acked \in Initially
    /\ silent = timeout /\ pc = "loop" /\ process = "running"
    /\ conn = "none" /\ inbound = <<>> /\ full = FALSE /\ nextByte = 0
    /\ decided = 0 /\ sends = 0
    /\ queued = <<>> /\ session = 0 /\ stale = 0 /\ waited = 0
    /\ turns = 0

-----------------------------------------------------------------------------
(* worker_method: one loop turn polls an item and processes it.            *)
Turn ==
    /\ process = "running" /\ pc = "loop"
    /\ turns' = IF turns < TurnsPerTick THEN turns + 1 ELSE turns

Handle(type) ==
    /\ Turn
    /\ qn # <<>> /\ Head(qn).type = type
    /\ qn' = Tail(qn)

\* The queue is polled empty: process_nqi gets a nq_none item.
Empty == Turn /\ qn = <<>>

Fail_StaysConnected ==
    /\ open' = FALSE
    /\ conn' = "none" /\ inbound' = <<>> /\ waited' = 0 /\ full' = FALSE
    /\ UNCHANGED connected

\* fail_connection; what the kernel had received is gone with the socket.
Fail ==
    /\ connected' = FALSE /\ open' = FALSE
    /\ conn' = "none" /\ inbound' = <<>> /\ waited' = 0 /\ full' = FALSE

Listen_BeforeEmptying ==
    /\ Turn /\ ~connected
    /\ pc' = "accept"
    /\ UNCHANGED <<timeout, qn, connected, open, has_acked, silent, process, peerVars, workerVars,
                   historyVars>>

\* open_connection with no peer: wait_for_connection listens.
Listen ==
    /\ Empty /\ ~connected
    /\ pc' = "accept"
    /\ UNCHANGED <<timeout, qn, connected, open, has_acked, silent, process, peerVars, workerVars,
                   historyVars>>

\* open_listen fails.
ListenFails ==
    /\ "socket" \in Faults
    /\ Empty /\ ~connected
    /\ process' = "exited"
    /\ UNCHANGED <<timeout, qn, connected, open, has_acked, silent, pc, peerVars, workerVars,
                   historyVars>>

Accepted_QueuesTwoReads ==
    /\ process = "running" /\ pc = "accept"
    /\ pc' = "loop"
    /\ connected' = TRUE /\ has_acked' = FALSE /\ silent' = 0
    /\ qn' = qn \o <<Item("nq_recv"), Item("nq_recv")>>

\* accept returns: the rest of open_connection and of the nq_none case.
Accepted ==
    /\ process = "running" /\ pc = "accept"
    /\ pc' = "loop"
    /\ connected' = TRUE /\ has_acked' = FALSE /\ silent' = 0
    /\ qn' = Append(qn, Item("nq_recv"))

Accept ==
    /\ session < MaxSessions
    /\ Accepted
    /\ open' = TRUE /\ conn' = "up" /\ inbound' = <<>> /\ full' = FALSE
    /\ session' = session + 1 /\ stale' = 0
    /\ UNCHANGED <<timeout, process, nextByte, workerVars, queued, waited, turns>>

\* accept fails; the code says so and goes on all the same.
AcceptFails ==
    /\ "accept" \in Faults
    /\ Accepted
    /\ UNCHANGED <<timeout, open, process, peerVars, workerVars, historyVars, turns>>

AckDue_WithoutTimeout == ~has_acked /\ silent > timeout \div 2

TimedOut == timeout > 0 /\ silent > timeout
AckDue   == timeout > 0 /\ ~has_acked /\ silent > timeout \div 2

TimesOut_AfterAck ==
    /\ Empty /\ connected /\ TimedOut /\ ~AckDue
    /\ Fail
    /\ UNCHANGED <<timeout, qn, has_acked, silent, pc, process, nextByte, workerVars, queued,
                   session, stale>>

TimesOut ==
    /\ Empty /\ connected /\ TimedOut
    /\ Fail
    /\ UNCHANGED <<timeout, qn, has_acked, silent, pc, process, nextByte, workerVars, queued,
                   session, stale>>

QueueAck ==
    /\ Empty /\ connected /\ ~TimedOut /\ AckDue
    /\ qn' = Append(qn, Item("nq_send_ack"))
    /\ UNCHANGED <<timeout, threadVars, peerVars, workerVars, historyVars>>

QueueRecv_KeepsType ==
    /\ Empty /\ connected /\ ~TimedOut /\ ~AckDue
    /\ qn' = Append(qn, Item("nq_none"))
    /\ UNCHANGED <<timeout, threadVars, peerVars, workerVars, historyVars>>

QueueRecv ==
    /\ Empty /\ connected /\ ~TimedOut /\ ~AckDue
    /\ qn' = Append(qn, Item("nq_recv"))
    /\ UNCHANGED <<timeout, threadVars, peerVars, workerVars, historyVars>>

\* nq_send_ack: nothing is sent.
HandleAck ==
    /\ Handle("nq_send_ack")
    /\ UNCHANGED <<timeout, threadVars, peerVars, workerVars, historyVars>>

-----------------------------------------------------------------------------
(* nq_recv: do_recv asks poll before it reads one byte.                     *)
RecvPollFails ==
    /\ "poll" \in Faults
    /\ Handle("nq_recv")
    /\ process' = "exited"
    /\ UNCHANGED <<timeout, connected, open, has_acked, silent, pc, peerVars, workerVars,
                   historyVars>>

RecvNothing ==
    /\ Handle("nq_recv")
    /\ ~open \/ (conn = "up" /\ inbound = <<>>)
    /\ UNCHANGED <<timeout, threadVars, peerVars, workerVars, historyVars>>

RecvByte_Peeks ==
    /\ Handle("nq_recv")
    /\ open /\ inbound # <<>>
    /\ queued' = Append(queued, Head(inbound))
    /\ silent' = 0 /\ has_acked' = FALSE /\ waited' = 0
    /\ UNCHANGED <<timeout, connected, open, pc, process, conn, inbound, full, nextByte, workerVars,
                   session, stale>>

RecvByte ==
    /\ Handle("nq_recv")
    /\ open /\ inbound # <<>>
    /\ inbound' = Tail(inbound)
    /\ queued' = Append(queued, Head(inbound))
    /\ silent' = 0 /\ has_acked' = FALSE /\ waited' = 0
    /\ UNCHANGED <<timeout, connected, open, pc, process, conn, full, nextByte, workerVars,
                   session, stale>>

\* read returns -1 once after a reset, and nothing is done about it.
RecvError ==
    /\ Handle("nq_recv")
    /\ open /\ inbound = <<>> /\ conn = "rst"
    /\ conn' = "dead"
    /\ UNCHANGED <<timeout, threadVars, inbound, full, nextByte, workerVars, historyVars>>

RecvEnd ==
    /\ Handle("nq_recv")
    /\ open /\ inbound = <<>> /\ conn \in {"fin", "dead"}
    /\ Fail
    /\ UNCHANGED <<timeout, has_acked, silent, pc, process, nextByte, workerVars, queued,
                   session, stale>>

-----------------------------------------------------------------------------
(* nq_send.  "!pf.revents & POLLOUT" is never true, so the thread goes on   *)
(* to write the header and the data whether the socket can take them or     *)
(* not.                                                                     *)
NoteStale == stale' = IF Head(qn).session < session THEN stale + 1 ELSE stale

\* A write to a peer that has closed is answered by a reset; one after a reset
\* raises SIGPIPE, which nothing in the program ignores.
SendData ==
    /\ Handle("nq_send")
    /\ open /\ conn \in {"up", "fin"} /\ ~full
    /\ conn' = IF conn = "fin" THEN "rst" ELSE conn
    /\ NoteStale
    /\ UNCHANGED <<timeout, threadVars, inbound, full, nextByte, workerVars, queued, session,
                   waited>>

SendBlocks ==
    /\ Handle("nq_send")
    /\ open /\ conn = "up" /\ full
    /\ pc' = "write"
    /\ NoteStale
    /\ UNCHANGED <<timeout, connected, open, has_acked, silent, process, peerVars, workerVars, queued,
                   session, waited>>

Unblock ==
    /\ process = "running" /\ pc = "write"
    /\ ~full
    /\ IF conn = "up" THEN process' = process ELSE process' = "killed"
    /\ pc' = "loop" /\ waited' = 0
    /\ UNCHANGED <<timeout, qn, connected, open, has_acked, silent, peerVars, workerVars, queued, session,
                   stale, turns>>

SendKills ==
    /\ Handle("nq_send")
    /\ open /\ conn \in {"fin", "rst", "dead"}
    /\ process' = "killed"
    /\ UNCHANGED <<timeout, connected, open, has_acked, silent, pc, peerVars, workerVars,
                   historyVars>>

\* Without a connection write answers EBADF and the data is dropped.
SendDropped ==
    /\ Handle("nq_send")
    /\ ~open
    /\ UNCHANGED <<timeout, threadVars, peerVars, workerVars, historyVars>>

NetThread ==
    \/ Listen \/ ListenFails \/ AcceptFails \/ TimesOut \/ QueueAck \/ QueueRecv \/ HandleAck
    \/ RecvPollFails \/ RecvNothing \/ RecvByte \/ RecvError \/ RecvEnd
    \/ SendData \/ SendBlocks \/ Unblock \/ SendKills \/ SendDropped

-----------------------------------------------------------------------------
(* The worker thread, the peer and time.                                   *)

\* main_worker.cpp:401: a send is announced if connected is set ...
WorkerDecides ==
    /\ process = "running" /\ connected /\ decided = 0 /\ sends < MaxSends
    /\ decided' = session + 1 /\ sends' = sends + 1
    /\ UNCHANGED <<timeout, qn, threadVars, peerVars, historyVars, turns>>

\* ... and enqueued a moment later.
WorkerEnqueues ==
    /\ process = "running" /\ decided > 0
    /\ qn' = Append(qn, [type |-> "nq_send", session |-> decided - 1])
    /\ decided' = 0
    /\ UNCHANGED <<timeout, threadVars, peerVars, sends, historyVars, turns>>

PeerSends ==
    /\ conn = "up" /\ nextByte < MaxBytes
    /\ inbound' = Append(inbound, nextByte)
    /\ nextByte' = nextByte + 1
    /\ UNCHANGED <<timeout, qn, threadVars, conn, full, workerVars, historyVars, turns>>

PeerCloses ==
    /\ conn = "up"
    /\ conn' \in {"fin", "rst"}
    /\ full' = FALSE
    /\ UNCHANGED <<timeout, qn, threadVars, inbound, nextByte, workerVars, historyVars, turns>>

PeerStalls ==
    /\ conn = "up"
    /\ full' = ~full
    /\ UNCHANGED <<timeout, qn, threadVars, conn, inbound, nextByte, workerVars, historyVars,
                   turns>>

Tick ==
    /\ process = "running"
    /\ pc = "loop" => turns = TurnsPerTick
    /\ silent' = IF silent > timeout THEN silent ELSE silent + 1
    /\ waited' = IF pc = "loop" /\ inbound # <<>> /\ waited < 2 THEN waited + 1 ELSE waited
    /\ turns' = 0
    /\ UNCHANGED <<timeout, qn, connected, open, has_acked, pc, process, peerVars, workerVars, queued,
                   session, stale>>

Next ==
    \/ NetThread \/ Accept \/ WorkerDecides \/ WorkerEnqueues
    \/ PeerSends \/ PeerCloses \/ PeerStalls \/ Tick

\* The threads keep running and time keeps passing; nobody is forced to connect.
Spec ==
    /\ Init /\ [][Next]_vars
    /\ WF_vars(NetThread) /\ WF_vars(WorkerEnqueues) /\ WF_vars(Tick)

-----------------------------------------------------------------------------
(* Properties                                                              *)
Types == {"nq_recv", "nq_send", "nq_send_ack"}

TypeOK ==
    /\ timeout \in Timeouts
    /\ qn \in Seq([type : Types, session : Nat])
    /\ connected \in BOOLEAN /\ open \in BOOLEAN /\ has_acked \in BOOLEAN
    /\ silent \in 0 .. timeout + 1
    /\ pc \in {"loop", "accept", "write"}
    /\ process \in {"running", "exited", "killed"}
    /\ conn \in {"none", "up", "fin", "rst", "dead"}
    /\ inbound \in Seq(Nat) /\ full \in BOOLEAN /\ nextByte \in 0 .. MaxBytes
    /\ decided \in 0 .. MaxSessions + 1 /\ sends \in 0 .. MaxSends
    /\ queued \in Seq(Nat) /\ session \in 0 .. MaxSessions
    /\ stale \in 0 .. MaxSends /\ waited \in 0 .. 2 /\ turns \in 0 .. TurnsPerTick

\* The worker thread is handed the peers' bytes in the order they were sent,
\* none twice, and what the thread still has to read comes after them.
BytesInOrder ==
    LET all == queued \o inbound
    IN \A i, j \in DOMAIN all : i < j => all[i] < all[j]

\* A connection is only ever opened when every announcement queued for the last
\* one has been disposed of; the one the worker thread had in hand is all that
\* a new peer can receive of the session before it.
OneStaleSend == stale <= 1

\* At most one read is queued at a time, so that reading never crowds out the
\* announcements.
OneReadQueued == Cardinality({i \in DOMAIN qn : qn[i].type # "nq_send"}) <= 1

\* While the thread is not blocked, a byte is read before it has waited for two
\* ticks ("Just always be reading because otherwise we're screwed").  With a
\* timeout it does not hold: has_acked is never set, so that from half the
\* timeout on the thread queues acks in the place of reads.
BytesReadPromptly == process = "running" /\ timeout = 0 => waited <= 1

\* From a connection that was lost the thread comes to listen for the next peer
\* (the doc of fail_connection: "returns the network worker to a state of
\* waiting for a connection"), unless the process has ended; and with a timeout
\* even where connected is set without a socket, after a failed accept or because
\* it started so.  Without a timeout it then never listens.
Listening == pc = "accept" \/ open \/ process # "running"

LossLeadsToListening == (~open /\ (~connected \/ timeout > 0)) ~> Listening

\* A peer that is silent for longer than the timeout is disconnected, unless it
\* speaks again or the thread is blocked in a write to it (network_worker.hpp:
\* "should treat the peer as disconnected").
SilentPeerDropped ==
    (connected /\ TimedOut)
        ~> (~connected \/ ~TimedOut \/ pc = "write" \/ process # "running")

\* The thread never waits in write ("Cannot write. Will block.").
NeverBlocksInWrite == pc # "write"
=============================================================================
