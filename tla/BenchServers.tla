---------------------------- MODULE BenchServers ----------------------------
(***************************************************************************)
(* The two small servers that are built on the network thread and the      *)
(* queues of the test stand: the echo server (echo_server/) and the        *)
(* counter server (counter/).  Each subclasses network_worker and puts a   *)
(* worker thread of its own on the other side of the queues.  Neither asks *)
(* whether a peer is connected before it queues what is to be sent.        *)
(*                                                                         *)
(* Both use a timeout of 0, so the timeout and ack actions of              *)
(* NetworkWorker cannot occur and time is left out.  A record of the       *)
(* counter is 16 bytes; stretches are counted in records.                  *)
(*                                                                         *)
(* A definition named <D>_<Bug> is D with that bug; no behaviour of this    *)
(* module uses it.                                                         *)
(***************************************************************************)
EXTENDS NetworkWorker

CONSTANTS
    Programs,         \* subset of {"echo", "counter"}
    Chars,            \* the ASCII codes that peers may send
    COUNT_PER_SEND,   \* 100 in the code
    MaxRecords        \* bound: records the counter takes

ASSUME BenchAssumption ==
    /\ Programs \subseteq {"echo", "counter"}
    /\ Chars \subseteq Nat
    /\ COUNT_PER_SEND \in Nat /\ MaxRecords \in Nat

VARIABLES
    program,    \* the server that runs; never changes
    text,       \* text[b] is the b-th character that peers send; never changes
    qw,         \* safe_queue of work items, oldest first
    sending,    \* the flag of worker_method
    written,    \* counter: records added to the buffer (bytes_written / 16)
    lastSend,   \* counter: last_send / 16
    handled,    \* history: end of the last stretch that the network thread took
    returned    \* history: characters the echo server wrote back, all sessions

ownVars   == <<qw, sending, written, lastSend>>
fixedVars == <<program, text>>
pastVars  == <<handled, returned>>
benchVars == <<fixedVars, ownVars, pastVars>>
allVars   == <<vars, benchVars>>

byte_0 == 48
byte_1 == 49

\* 'A' .. 'Z' become 'a' .. 'z'.
LowerCase(c) == IF c >= 65 /\ c <= 90 THEN c + 32 ELSE c

BenchInit ==
    /\ Init
    /\ program \in Programs
    /\ text \in [0 .. MaxBytes - 1 -> Chars]
    /\ qw = <<>> /\ sending = FALSE
    /\ written = 0 /\ lastSend = 0 /\ handled = 0
    /\ returned = <<>>

-----------------------------------------------------------------------------
(* The network thread.                                                     *)

CommandFor_NoneStops(c) == CASE c = byte_0 -> "wq_start"
                             [] c = byte_1 -> "wq_stop"
                             [] OTHER      -> "wq_stop"

\* The item that a received character is handed to the worker as: the echo
\* server leaves it as it is, the counter server reads commands from it.
CommandFor(c) == CASE c = byte_0 -> "wq_start"
                   [] c = byte_1 -> "wq_stop"
                   [] OTHER      -> "wq_none"

WorkItemFor(c) ==
    IF program = "echo" THEN [action |-> "wq_process", data |-> c]
                        ELSE [action |-> CommandFor(c), data |-> c]

Receive ==
    /\ RecvByte
    /\ qw' = Append(qw, WorkItemFor(text[Head(inbound)]))
    /\ UNCHANGED <<fixedVars, sending, written, lastSend, pastVars>>

\* The announced stretch is behind the network thread, whatever came of it.
Dispose == handled' = IF program = "counter" THEN Head(qn).offset + Head(qn).nbytes ELSE handled

\* nq_send: the header, and the character or the stretch.  A write that blocks
\* counts as written: it is, unless the peer goes and the process with it.
WriteOut ==
    /\ SendData \/ SendBlocks
    /\ Dispose
    /\ returned' = IF program = "echo" THEN Append(returned, Head(qn).data) ELSE returned
    /\ UNCHANGED <<fixedVars, ownVars>>

WriteFails ==
    /\ SendKills \/ SendDropped
    /\ Dispose
    /\ UNCHANGED <<fixedVars, ownVars, returned>>

\* Connecting, the reads that bring nothing, and the end of a blocked write
\* are network_worker's own.
Inherited ==
    /\ \/ Listen \/ ListenFails \/ AcceptFails \/ QueueRecv
       \/ RecvPollFails \/ RecvNothing \/ RecvError \/ RecvEnd \/ Unblock
    /\ UNCHANGED benchVars

BenchNetThread == Receive \/ WriteOut \/ WriteFails \/ Inherited

-----------------------------------------------------------------------------
(* The worker threads.  One loop turn is one step: only this thread takes   *)
(* from qw, and the item it queues is all that others see of the turn.      *)
WorkerTurn ==
    /\ process = "running"
    /\ UNCHANGED <<timeout, threadVars, peerVars, workerVars, historyVars, turns, fixedVars,
                   pastVars>>

Poll(p, actions) == program = p /\ qw # <<>> /\ Head(qw).action \in actions /\ qw' = Tail(qw)

Echo_AsReceived ==
    /\ WorkerTurn /\ Poll("echo", {"wq_process"})
    /\ qn' = Append(qn, [type |-> "nq_send", session |-> session, data |-> Head(qw).data])
    /\ sending' = FALSE
    /\ UNCHANGED <<written, lastSend>>

\* echo: the character goes back in lower case; the case falls through to
\* wq_stop, whose flag nothing reads.
Echo ==
    /\ WorkerTurn /\ Poll("echo", {"wq_process"})
    /\ qn' = Append(qn, [type |-> "nq_send", session |-> session,
                           data |-> LowerCase(Head(qw).data)])
    /\ sending' = FALSE
    /\ UNCHANGED <<written, lastSend>>

StartStop ==
    /\ WorkerTurn /\ Poll("counter", {"wq_start", "wq_stop"})
    /\ sending' = (Head(qw).action = "wq_start")
    /\ UNCHANGED <<qn, written, lastSend>>

\* A wq_none item, from the queue or because it is empty.
NothingToDo ==
    \/ program = "counter" /\ qw = <<>> /\ qw' = qw
    \/ Poll("counter", {"wq_none"})

\* The item is dropped when there is nothing to count (or the bound is reached).
Idle ==
    /\ WorkerTurn /\ NothingToDo
    /\ ~sending \/ written = MaxRecords
    /\ qw # <<>>
    /\ UNCHANGED <<qn, sending, written, lastSend>>

Count_FromTheEnd ==
    /\ WorkerTurn /\ NothingToDo
    /\ sending /\ written < MaxRecords
    /\ written' = written + 1
    /\ IF written' > lastSend + COUNT_PER_SEND
       THEN /\ qn' = Append(qn, [type |-> "nq_send", session |-> session,
                                 nbytes |-> written' - lastSend, offset |-> written'])
            /\ lastSend' = written'
       ELSE UNCHANGED <<qn, lastSend>>
    /\ UNCHANGED sending

\* A record is taken, and what was taken since the last announcement announced
\* when it is more than COUNT_PER_SEND records.
Count ==
    /\ WorkerTurn /\ NothingToDo
    /\ sending /\ written < MaxRecords
    /\ written' = written + 1
    /\ IF written' > lastSend + COUNT_PER_SEND
       THEN /\ qn' = Append(qn, [type |-> "nq_send", session |-> session,
                                 nbytes |-> written' - lastSend, offset |-> lastSend])
            /\ lastSend' = written'
       ELSE UNCHANGED <<qn, lastSend>>
    /\ UNCHANGED sending

BenchWorker == Echo \/ StartStop \/ Idle \/ Count

-----------------------------------------------------------------------------
BenchPeer == (Accept \/ PeerSends \/ PeerCloses \/ PeerStalls) /\ UNCHANGED benchVars

BenchNext == BenchNetThread \/ BenchWorker \/ BenchPeer

\* Both threads keep running; nobody is forced to connect, send or read.
BenchSpec ==
    /\ BenchInit /\ [][BenchNext]_allVars
    /\ WF_allVars(BenchNetThread) /\ WF_allVars(BenchWorker)

-----------------------------------------------------------------------------
(* Properties                                                              *)

\* What queue q holds to be sent, oldest first (SelectSeq written out: the
\* provers know nothing of that operator).
SendsOf(q) ==
    LET upTo[i \in 0 .. Len(q)] ==
            IF i = 0 THEN <<>>
            ELSE IF q[i].type = "nq_send" THEN Append(upTo[i - 1], q[i]) ELSE upTo[i - 1]
    IN upTo[Len(q)]

Sends == SendsOf(qn)

Datas(s) == [i \in DOMAIN s |-> s[i].data]

\* What the echo server has read and not written back: answers in qn come
\* before characters in qw.
Owed ==
    IF program = "echo"
    THEN Datas(Sends) \o [i \in DOMAIN qw |-> LowerCase(qw[i].data)]
    ELSE <<>>

\* The two threads and the two queues between them are an echo service: what
\* comes back is what was read, in lower case, in order and once each.
Service == INSTANCE EchoService WITH owed <- Owed

ImplementsEcho == Service!Spec

\* The counter's announcements follow one another without a gap, from the one
\* the network thread took last to the last one queued, each of COUNT_PER_SEND
\* + 1 records, all of them written; what is not announced yet is at most
\* COUNT_PER_SEND records.  Stopping and starting loses none (counter_worker.cpp:68
\* "this carries a risk of missing some data. Fine on single worker thread").
AnnouncementsTile ==
    LET length == COUNT_PER_SEND + 1
    IN program = "counter" =>
        /\ \A i \in DOMAIN Sends :
              /\ Sends[i].nbytes = length
              /\ Sends[i].offset = handled + (i - 1) * length
        /\ lastSend = handled + Len(Sends) * length
        /\ written - lastSend \in 0 .. COUNT_PER_SEND

\* Whether the commands handed to the counter so far leave it sending.
Orders == SelectSeq(queued, LAMBDA b : text[b] \in {byte_0, byte_1})
Ordered == Orders # <<>> /\ text[Orders[Len(Orders)]] = byte_0

\* Every character read takes effect: the counter comes to send or not as the
\* last command says, and the echo server comes to owe nothing, unless its
\* network thread is held in accept or write, more arrives, or the process ends.
TookEffect ==
    \/ process # "running"
    \/ program = "counter" /\ sending = Ordered
    \/ program = "echo" /\ (Owed = <<>> \/ pc # "loop")

BytesTakeEffect ==
    \A n \in 1 .. MaxBytes : Len(queued) = n ~> (Len(queued) > n \/ TookEffect)
=============================================================================
