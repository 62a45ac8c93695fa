--------------------------- MODULE CircularBuffer ---------------------------
(***************************************************************************)
(* The ring buffer of one sensor (util/circular_buffer.cpp) between the    *)
(* two threads that share it without a lock: the worker thread adds        *)
(* records and announces what it added, the network thread writes the      *)
(* announced stretches to the socket.  Nothing holds the worker thread     *)
(* back: it overwrites what a slow or blocked reader has not sent.         *)
(*                                                                         *)
(* A cell holds the position in the stream of the byte stored there, so a  *)
(* byte that was overwritten before it was sent shows as a wrong position. *)
(* memcpy stores one byte per step and advances bytes_written when the     *)
(* stretch is complete; write() takes one byte per step, and may fail,     *)
(* block for good or return early.                                         *)
(*                                                                         *)
(* A definition named <D>_<Bug> is D with that bug; no behaviour of this    *)
(* module uses it.                                                         *)
(***************************************************************************)
EXTENDS Integers, Sequences

CONSTANTS
    Size,        \* nbytes: the capacity in bytes (2 << 18 in the code)
    RecordSize,  \* sizeof(adc_reading)
    MaxWritten   \* bound: bytes added in a behaviour

ASSUME SizeAssumption ==
    Size \in Nat \ {0} /\ RecordSize \in Nat \ {0} /\ MaxWritten \in Nat

Empty == -1   \* what an array fresh from new char[] holds: no byte of the stream

VARIABLES
    data,          \* the array: position stored in each cell
    bytes_written, \* the atomic counter both threads read
    left,          \* add_data: bytes of the record still to add (0: no call)
    toAdd,         \* add_data: length of the stretch up to the end of the array
    copied,        \* add_data: bytes of that stretch memcpy has stored
    lastSend,      \* nbytes_last_send: end of the last announcement
    nqi,           \* the announcement decided on and not yet queued; n = 0: none
    sends,         \* the announcements in qn: [n, offset]
    connected,     \* the flag of the network thread that the worker thread reads
    open,          \* connfd is a socket (and not -1)
    pc,            \* network thread: "loop", "accept" (blocked in accept), "killed"
    job,           \* write_data's n and offset; n = 0: returned, offset says how far
    toSend,        \* write_data: length of the stretch to write (0: not in write)
    sent,          \* bytes of that stretch that write has taken
    last           \* history: the byte the peers received last, [at, val]

addVars    == <<data, bytes_written, left, toAdd, copied>>
workerVars == <<addVars, lastSend, nqi>>
linkVars   == <<connected, open, pc>>
writeVars  == <<job, toSend, sent, last>>
vars == <<addVars, lastSend, nqi, sends, linkVars, writeVars>>

Least(a, b) == IF a < b THEN a ELSE b

None == [n |-> 0, offset |-> 0]

\* connected is not initialised (NetworkWorker); connfd is -1.
Init ==
    /\ data = [c \in 0 .. Size - 1 |-> Empty]
    /\ bytes_written = 0 /\ lastSend = 0 /\ nqi = None
    /\ left = 0 /\ toAdd = 0 /\ copied = 0
    /\ sends = <<>>
    /\ connected \in BOOLEAN /\ open = FALSE /\ pc = "loop"
    /\ job = None /\ toSend = 0 /\ sent = 0
    /\ last = [at |-> -1, val |-> -1]

-----------------------------------------------------------------------------
(* The worker thread.                                                      *)

StretchAt_NoMinimum(bw, n) == Size - (bw % Size)

\* The stretch from bw to the end of the array, at most n bytes.
StretchAt(bw, n) == Least(Size - (bw % Size), n)

\* add_data is called with a record, wherever the reader is.
AddData ==
    /\ pc # "killed" /\ left = 0 /\ nqi.n = 0
    /\ bytes_written + RecordSize <= MaxWritten
    /\ left' = RecordSize
    /\ toAdd' = StretchAt(bytes_written, RecordSize)
    /\ copied' = 0
    /\ UNCHANGED <<data, bytes_written, lastSend, nqi, sends, linkVars, writeVars>>

CopyByte_SamePointer ==
    /\ pc # "killed" /\ copied < toAdd
    /\ data' = [data EXCEPT ![(bytes_written % Size) + copied] =
                                bytes_written + copied - (RecordSize - left)]
    /\ copied' = copied + 1
    /\ UNCHANGED <<bytes_written, left, toAdd, lastSend, nqi, sends, linkVars, writeVars>>

CopyByte ==
    /\ pc # "killed" /\ copied < toAdd
    /\ data' = [data EXCEPT ![(bytes_written % Size) + copied] = bytes_written + copied]
    /\ copied' = copied + 1
    /\ UNCHANGED <<bytes_written, left, toAdd, lastSend, nqi, sends, linkVars, writeVars>>

\* The stretch is stored: publish it and go on with the rest of the record.
Publish ==
    /\ pc # "killed" /\ left > 0 /\ copied = toAdd
    /\ bytes_written' = bytes_written + toAdd
    /\ left' = left - toAdd
    /\ toAdd' = StretchAt(bytes_written', left')
    /\ copied' = 0
    /\ UNCHANGED <<data, lastSend, nqi, sends, linkVars, writeVars>>

\* The worker announces everything added since its last announcement; without
\* a peer it passes that over, and no later announcement makes up for it.
Announce ==
    /\ pc # "killed" /\ left = 0 /\ nqi.n = 0 /\ bytes_written > lastSend
    /\ lastSend' = bytes_written
    /\ IF connected
       THEN nqi' = [n |-> bytes_written - lastSend, offset |-> lastSend]
       ELSE UNCHANGED nqi
    /\ UNCHANGED <<addVars, sends, linkVars, writeVars>>

\* The network thread may have lost its peer in between.
Enqueue ==
    /\ pc # "killed" /\ nqi.n > 0
    /\ sends' = Append(sends, nqi)
    /\ nqi' = None
    /\ UNCHANGED <<addVars, lastSend, linkVars, writeVars>>

Writer == AddData \/ CopyByte \/ Publish \/ Announce \/ Enqueue

-----------------------------------------------------------------------------
(* The network thread, between two writes and in one.                      *)

TakeSend ==
    /\ pc = "loop" /\ job.n = 0 /\ sends # <<>>
    /\ job' = Head(sends)
    /\ sends' = Tail(sends)
    /\ UNCHANGED <<workerVars, linkVars, toSend, sent, last>>

\* fail_connection, after a read that finds the end or at a timeout.
Lose ==
    /\ pc = "loop" /\ job.n = 0 /\ connected
    /\ connected' = FALSE /\ open' = FALSE
    /\ UNCHANGED <<workerVars, sends, pc, writeVars>>

\* open_connection, once the queue is empty.
Listen ==
    /\ pc = "loop" /\ job.n = 0 /\ ~connected /\ sends = <<>>
    /\ pc' = "accept"
    /\ UNCHANGED <<workerVars, sends, connected, open, writeVars>>

\* accept returns, with a socket or with -1, which is taken for one.
Accept ==
    /\ pc = "accept"
    /\ pc' = "loop" /\ connected' = TRUE /\ open' \in BOOLEAN
    /\ UNCHANGED <<workerVars, sends, writeVars>>

\* write_data looks at bytes_written, which at most makes it print that bytes
\* are already overwritten, computes the stretch and calls write.
StartWrite ==
    /\ pc = "loop" /\ job.n > 0 /\ toSend = 0
    /\ toSend' = StretchAt(job.offset, job.n)
    /\ UNCHANGED <<workerVars, sends, linkVars, job, sent, last>>

\* The kernel takes a byte of the stretch as it is at that moment.
TakeByte ==
    /\ pc = "loop" /\ open /\ sent < toSend
    /\ sent' = sent + 1
    /\ last' = [at |-> job.offset + sent, val |-> data[(job.offset % Size) + sent]]
    /\ UNCHANGED <<workerVars, sends, linkVars, job, toSend>>

WriteReturns_SameOffset ==
    /\ pc = "loop" /\ sent > 0
    /\ job' = [job EXCEPT !.n = @ - sent]
    /\ toSend' = 0 /\ sent' = 0
    /\ UNCHANGED <<workerVars, sends, linkVars, last>>

\* write() returns what it took; the recursion does the rest.
WriteReturns ==
    /\ pc = "loop" /\ sent > 0
    /\ job' = [n |-> job.n - sent, offset |-> job.offset + sent]
    /\ toSend' = 0 /\ sent' = 0
    /\ UNCHANGED <<workerVars, sends, linkVars, last>>

WriteError_Retries ==
    /\ pc = "loop" /\ toSend > 0 /\ sent = 0
    /\ toSend' = 0
    /\ UNCHANGED <<workerVars, sends, linkVars, job, sent, last>>

\* write() fails: write_data returns and the rest of the stretch is given up.
WriteError ==
    /\ pc = "loop" /\ toSend > 0 /\ sent = 0
    /\ job' = [n |-> 0, offset |-> job.offset + job.n]
    /\ toSend' = 0
    /\ UNCHANGED <<workerVars, sends, linkVars, sent, last>>

\* A write to a connection that was reset raises SIGPIPE: the program ends.
WriteKills ==
    /\ pc = "loop" /\ open /\ toSend > 0 /\ sent = 0
    /\ pc' = "killed"
    /\ UNCHANGED <<workerVars, sends, connected, open, writeVars>>

NetThread ==
    \/ TakeSend \/ Lose \/ Listen \/ Accept
    \/ StartWrite \/ TakeByte \/ WriteReturns \/ WriteError \/ WriteKills

Next == Writer \/ NetThread

\* What the network thread does by itself.  That the socket takes a byte, that a
\* write fails or that a peer connects is up to others.
OwnSteps ==
    \/ TakeSend \/ StartWrite
    \/ ~open /\ WriteError
    \/ sent = toSend /\ WriteReturns

Spec == Init /\ [][Next]_vars /\ WF_vars(Writer) /\ WF_vars(OwnSteps)

-----------------------------------------------------------------------------
(* Properties                                                              *)

TypeOK ==
    /\ data \in [0 .. Size - 1 -> Nat \cup {Empty}]
    /\ bytes_written \in Nat /\ lastSend \in Nat
    /\ left \in 0 .. RecordSize /\ toAdd \in 0 .. RecordSize /\ copied \in 0 .. toAdd
    /\ nqi \in [n : Nat, offset : Nat]
    /\ sends \in Seq([n : Nat \ {0}, offset : Nat])
    /\ connected \in BOOLEAN /\ open \in BOOLEAN /\ pc \in {"loop", "accept", "killed"}
    /\ job \in [n : Nat, offset : Nat] /\ toSend \in 0 .. Size /\ sent \in 0 .. toSend
    /\ last \in [at : Nat \cup {-1}, val : Nat \cup {Empty}]

\* What has been stored: bytes_written and the part of a stretch that memcpy
\* has stored already.
Stored == bytes_written + copied

\* The array always holds the last Size bytes stored, each in its own cell,
\* records straddling the end of the array included (add_data's recursion); and
\* every variable has its type.
HoldsTheLatest ==
    /\ TypeOK
    /\ \A p \in 0 .. Stored - 1 : p >= Stored - Size => data[p % Size] = p

\* However far the worker thread runs ahead of a slow or blocked write, a byte
\* the peer receives is either the one announced or, when the worker thread is
\* more than a lap ahead, the one stored whole laps later in its cell: never an
\* older byte, one not stored yet, or one of another cell.
StreamIntact ==
    /\ last.val # last.at => last.val > last.at /\ last.at + Size < Stored
    /\ (last.val - last.at) % Size = 0
    /\ last.val < Stored

\* The peers' stream is a stream in the sense of ByteStream.
Stream == INSTANCE ByteStream WITH Capacity <- Size, produced <- Stored

ImplementsStream == Stream!Spec

Queued(k) == \E i \in DOMAIN sends : sends[i].offset < k /\ k <= sends[i].offset + sends[i].n

\* The network thread waits for others: for a peer, or for the socket to take
\* bytes; or the program was killed.
Held == pc # "loop" \/ sent < toSend

\* Every queued announcement is written or given up to its end, over short and
\* failing writes and lost connections, unless the thread is held for good
\* (write_data's recursion, the queue behind it).
AnnouncedIsSent ==
    \A k \in 1 .. MaxWritten : (Queued(k) ~> job.offset >= k) \/ <>[]Held
=============================================================================
