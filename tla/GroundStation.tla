--------------------------- MODULE GroundStation ---------------------------
(***************************************************************************)
(* The ground station's side of the connection: Networker of               *)
(* mk1_gui/networking.py and GUIBackend of mk1_gui/gui_final.py.  Three    *)
(* threads share it without a lock.  The GUI thread connects, sends and    *)
(* disconnects; the thread NWThread receives messages; the backend's       *)
(* thread takes them from nw_queue.                                        *)
(*                                                                         *)
(* Granularity.  A statement that another thread can see is a step.  A     *)
(* message is a header of HeaderSize units and, of a record, PayloadSize   *)
(* more; the socket hands out any part of what was sent.  What a header    *)
(* says that is read at the wrong place is arbitrary.                      *)
(*                                                                         *)
(* A definition named <D>_<Bug> is D with that bug; no behaviour of this    *)
(* module uses it.                                                         *)
(***************************************************************************)
EXTENDS Integers, Sequences

CONSTANTS
    HeaderSize,     \* units of a header (header_size)
    PayloadSize,    \* units of a record (payload_bytes)
    Garbled,        \* bound: what a header that is misread may say
    MaxMessages,    \* bound: messages the server sends
    MaxConnects     \* bound: connections made

\* A header alone, which the backend takes for an ack, or one with a record; the
\* server of final/ sends only the latter.
Kinds        == {"ack", "data"}
HeaderTypes  == Kinds \cup {"text", "other"}
Header       == [type : HeaderTypes, nbytes : Nat]

ASSUME SizesAssumption ==
    /\ HeaderSize \in Nat \ {0} /\ PayloadSize \in Nat \ {0}
    /\ Garbled \subseteq Header
    /\ MaxMessages \in Nat /\ MaxConnects \in Nat

VARIABLES
    gui,        \* where the GUI thread is in connect or disconnect
    after,      \* where it goes on when a disconnect is done
    connected,  \* Networker.connected
    conn_event, \* Networker.conn_event is set
    sock,       \* the socket: see SockStates
    connects,   \* connections made so far
    peer,       \* the server's end: see PeerStates
    kinds,      \* kinds of the messages sent so far, by number
    stream,     \* units sent on this connection and not yet read
    nw,         \* where NWThread is
    want,       \* units that _recv still wants
    outb,       \* units that _recv has read
    header,     \* what the last header said: type and size in units
    nw_queue,   \* messages handed to the backend
    periodic,   \* where the backend's thread is
    framing,    \* history: see Framings
    lastHanded  \* history: number of the message handed on last

guiVars  == <<gui, after, connected, conn_event, sock, connects>>
peerVars == <<peer, kinds, stream>>
nwVars   == <<nw, want, outb, header>>
vars == <<guiVars, peerVars, nwVars, nw_queue, periodic, framing, lastHanded>>

NoHeader     == [type |-> "other", nbytes |-> 0]
SockStates   == {"fresh", "open", "closed"}
PeerStates   == {"up", "reset", "closed"}

\* Whether NWThread is, on this connection, where a message begins when it begins
\* to read one: it is from the start ("kept"), until it gives up a read midway
\* ("cut"); or it came to the connection in the middle of a read ("carried").
Framings     == {"kept", "cut", "carried"}

Unit         == [msg : 1 .. MaxMessages, part : 1 .. HeaderSize + PayloadSize]
Message      == [type : HeaderTypes, nbytes : Nat, message : Seq(Unit)]

Size(kind)   == IF kind = "data" THEN PayloadSize ELSE 0
Parts(n, i, j) == [k \in 1 .. j - i + 1 |-> [msg |-> n, part |-> i + k - 1]]
HeaderOf(n)  == Parts(n, 1, HeaderSize)
PayloadOf(n) == Parts(n, HeaderSize + 1, HeaderSize + Size(kinds[n]))

Init ==
    /\ gui = "idle" /\ after = "idle"
    /\ connected = FALSE /\ conn_event = FALSE /\ sock = "fresh" /\ connects = 0
    /\ peer = "closed" /\ kinds = <<>> /\ stream = <<>>
    /\ nw = "wait" /\ want = 0 /\ outb = <<>> /\ header = NoHeader
    /\ nw_queue = <<>> /\ periodic = "sleeping"
    /\ framing = "kept" /\ lastHanded = 0

-----------------------------------------------------------------------------
(* The GUI thread.                                                         *)

\* The other threads, the connection and the histories are as they were.
OthersKeep == UNCHANGED <<peerVars, nwVars, nw_queue, periodic, framing, lastHanded>>

\* Called by the Disconnect button, by a send that failed, and by connect when
\* the address or the port has changed.
Disconnect(next) ==
    /\ gui = "idle" /\ connected
    /\ conn_event' = FALSE
    /\ gui' = "flag" /\ after' = next
    /\ UNCHANGED <<connected, sock, connects>> /\ OthersKeep

ClearConnected ==
    /\ gui = "flag"
    /\ connected' = FALSE
    /\ gui' = "close"
    /\ UNCHANGED <<after, conn_event, sock, connects>> /\ OthersKeep

CloseSocket ==
    /\ gui = "close"
    /\ sock' = "closed" /\ stream' = <<>> /\ peer' = "closed"
    /\ gui' = "remake"
    /\ UNCHANGED <<after, connected, conn_event, connects, kinds, nwVars, nw_queue, periodic,
                   framing, lastHanded>>

RemakeSocket ==
    /\ gui = "remake"
    /\ sock' = "fresh"
    /\ gui' = after
    /\ UNCHANGED <<after, connected, conn_event, connects>> /\ OthersKeep

\* The Connect button; connect returns at once if connected is still set.
Connect ==
    /\ gui = "idle" /\ ~connected
    /\ connects < MaxConnects
    /\ gui' = "connecting"
    /\ UNCHANGED <<after, connected, conn_event, sock, connects>> /\ OthersKeep

\* NWThread has read a part of a message and not all of it.
MidMessage == (nw = "payload" /\ want > 0) \/ (nw = "header" /\ outb # <<>>)

\* A read that NWThread has begun on the old socket goes on with the new one,
\* which knows nothing of it.
ConnectSucceeds ==
    /\ gui = "connecting" /\ connects < MaxConnects
    /\ sock' = "open" /\ peer' = "up" /\ stream' = <<>>
    /\ connects' = connects + 1
    /\ framing' = IF MidMessage \/ (framing # "kept" /\ nw = "payload")
                  THEN "carried" ELSE "kept"
    /\ gui' = "set_connected"
    /\ UNCHANGED <<after, connected, conn_event, kinds, nwVars, nw_queue, periodic, lastHanded>>

\* connect tries again when it timed out, and gives up on an error.
ConnectFails ==
    /\ gui = "connecting"
    /\ gui' = "idle"
    /\ UNCHANGED <<after, connected, conn_event, sock, connects>> /\ OthersKeep

SetConnected ==
    /\ gui = "set_connected"
    /\ connected' = TRUE
    /\ gui' = "set_event"
    /\ UNCHANGED <<after, conn_event, sock, connects>> /\ OthersKeep

SetEvent_Never ==
    /\ gui = "set_event"
    /\ gui' = "idle"
    /\ UNCHANGED <<after, connected, conn_event, sock, connects>> /\ OthersKeep

SetEvent ==
    /\ gui = "set_event"
    /\ conn_event' = TRUE
    /\ gui' = "idle"
    /\ UNCHANGED <<after, connected, sock, connects>> /\ OthersKeep

GuiContinues ==
    ClearConnected \/ CloseSocket \/ RemakeSocket \/ SetConnected \/ SetEvent

-----------------------------------------------------------------------------
(* NWThread.                                                               *)
Wait ==
    /\ nw = "wait" /\ conn_event
    /\ nw' = "check"
    /\ UNCHANGED <<guiVars, peerVars, want, outb, header, nw_queue, periodic, framing, lastHanded>>

\* read_message raises an exception if connected has gone since, and nothing
\* in run catches it.
Check ==
    /\ nw = "check"
    /\ IF connected
       THEN nw' = "header" /\ want' = HeaderSize /\ outb' = <<>>
       ELSE nw' = "dead" /\ UNCHANGED <<want, outb>>
    /\ UNCHANGED <<guiVars, peerVars, header, nw_queue, periodic, framing, lastHanded>>

Reading == nw \in {"header", "payload"} /\ want > 0

Take(n, rest) ==
    /\ Reading /\ sock = "open"
    /\ n <= Len(stream)
    /\ outb' = outb \o SubSeq(stream, 1, n)
    /\ want' = want - n
    /\ stream' = rest
    /\ UNCHANGED <<guiVars, peer, kinds, nw, header, nw_queue, periodic, framing, lastHanded>>

Receive_Again(n)     == n \in 1 .. want /\ Take(n, SubSeq(stream, n, Len(stream)))
Receive_Overdraws(n) == Take(n, SubSeq(stream, n + 1, Len(stream)))

\* recv returns n units.  When the server has closed its end and everything
\* is read, it returns none, and the loop asks again without a change.
Receive(n) == n \in 1 .. want /\ Take(n, SubSeq(stream, n + 1, Len(stream)))

HandOn(m) ==
    /\ nw_queue' = Append(nw_queue, m)
    /\ nw' = "wait" /\ want' = 0 /\ outb' = <<>> /\ header' = NoHeader

\* recv raises: nothing came for 50 ms, or the socket is closed or new.  What
\* _recv had read is thrown away, and it returns no bytes: of a header, nothing
\* is handed on; of a payload, a message without its bytes is.
ReceiveFails ==
    /\ Reading
    /\ sock = "open" => peer # "closed" \/ stream # <<>>
    /\ peer' = IF sock = "open" /\ peer = "reset" THEN "closed" ELSE peer
    /\ IF nw = "header"
       THEN nw' = "wait" /\ want' = 0 /\ outb' = <<>> /\ UNCHANGED <<header, nw_queue>>
       ELSE HandOn([type |-> header.type, nbytes |-> header.nbytes, message |-> <<>>])
    /\ framing' = IF MidMessage THEN "cut" ELSE framing
    /\ UNCHANGED <<guiVars, kinds, stream, periodic, lastHanded>>

\* decode_header: what the bytes read say, which is anything at all unless
\* they are the header of a message.
Decoded ==
    LET own == {n \in DOMAIN kinds : outb = HeaderOf(n)}
    IN IF own # {}
       THEN {[type |-> kinds[n], nbytes |-> Size(kinds[n])] : n \in own}
       ELSE Garbled

\* The number of the message that the units belong to.
NumberOf(units) == units[1].msg

DecodeHeader ==
    /\ nw = "header" /\ want = 0
    /\ \E h \in Decoded :
          \/ /\ h.nbytes > 0
             /\ nw' = "payload" /\ want' = h.nbytes /\ outb' = <<>> /\ header' = h
             /\ UNCHANGED <<nw_queue, lastHanded>>
          \/ /\ h.nbytes = 0
             /\ HandOn([type |-> h.type, nbytes |-> 0, message |-> <<>>])
             /\ lastHanded' = NumberOf(outb)
    /\ UNCHANGED <<guiVars, peerVars, periodic, framing>>

PayloadDone_KeepsState ==
    /\ nw = "payload" /\ want = 0
    /\ nw_queue' = Append(nw_queue,
                          [type |-> header.type, nbytes |-> header.nbytes, message |-> outb])
    /\ lastHanded' = NumberOf(outb)
    /\ UNCHANGED <<guiVars, nwVars, peerVars, periodic, framing>>

PayloadDone ==
    /\ nw = "payload" /\ want = 0
    /\ HandOn([type |-> header.type, nbytes |-> header.nbytes, message |-> outb])
    /\ lastHanded' = NumberOf(outb)
    /\ UNCHANGED <<guiVars, peerVars, periodic, framing>>

NWThread ==
    \/ Wait \/ Check \/ DecodeHeader \/ PayloadDone \/ ReceiveFails
    \/ \E n \in 1 .. Len(stream) : Receive(n)

-----------------------------------------------------------------------------
(* The backend's thread.                                                   *)

\* It looks at the queue only while connected.
Drain ==
    /\ periodic = "sleeping" /\ connected
    /\ periodic' = "draining"
    /\ UNCHANGED <<guiVars, peerVars, nwVars, nw_queue, framing, lastHanded>>

Drained ==
    /\ periodic = "draining" /\ nw_queue = <<>>
    /\ periodic' = "sleeping"
    /\ UNCHANGED <<guiVars, peerVars, nwVars, nw_queue, framing, lastHanded>>

\* What handling message m leaves the thread as.  read_payload raises at its
\* first record: the assertion of payload_from_bytes fails on a message
\* without its bytes, and append, a list's, takes one argument and not two.
\* A text without bytes cannot be decoded, and others need not be UTF-8.
Handled(m) ==
    CASE m.nbytes % PayloadSize # 0              -> {"sleeping"}
      [] m.type = "text" /\ m.nbytes = 0         -> {"dead"}
      [] m.type = "text"                         -> {"draining", "dead"}
      [] m.type = "data" /\ m.nbytes > 0         -> {"dead"}
      [] OTHER                                   -> {"draining"}

ProcessMessage_Peeks ==
    /\ periodic = "draining" /\ nw_queue # <<>>
    /\ periodic' \in Handled(Head(nw_queue))
    /\ UNCHANGED <<guiVars, peerVars, nwVars, nw_queue, framing, lastHanded>>

ProcessMessage ==
    /\ periodic = "draining" /\ nw_queue # <<>>
    /\ nw_queue' = Tail(nw_queue)
    /\ periodic' \in Handled(Head(nw_queue))
    /\ UNCHANGED <<guiVars, peerVars, nwVars, framing, lastHanded>>

Backend == Drain \/ Drained \/ ProcessMessage

-----------------------------------------------------------------------------
(* The server and the network.                                             *)
ServerSends(kind) ==
    /\ sock = "open" /\ peer = "up"
    /\ Len(kinds) < MaxMessages
    /\ kinds' = Append(kinds, kind)
    /\ LET n == Len(kinds')
       IN stream' = stream \o Parts(n, 1, HeaderSize + Size(kind))
    /\ UNCHANGED <<guiVars, peer, nwVars, nw_queue, periodic, framing, lastHanded>>

\* The server closes its end, or the connection is reset and what was on the
\* way is lost.
ServerGoes ==
    /\ sock = "open" /\ peer = "up"
    /\ \/ peer' = "closed" /\ UNCHANGED stream
       \/ peer' = "reset" /\ stream' = <<>>
    /\ UNCHANGED <<guiVars, kinds, nwVars, nw_queue, periodic, framing, lastHanded>>

Next ==
    \/ \E next \in {"idle", "connecting"} : Disconnect(next)
    \/ GuiContinues
    \/ Connect \/ ConnectSucceeds \/ ConnectFails
    \/ NWThread \/ Backend
    \/ \E kind \in Kinds : ServerSends(kind)
    \/ ServerGoes

\* Each thread goes on with what it has begun, and what the server sent
\* arrives in the end, however often a read times out before.  No button is
\* pressed by necessity, and no connection attempt has to end.
Fairness ==
    /\ WF_vars(GuiContinues) /\ WF_vars(NWThread) /\ WF_vars(Backend)
    /\ SF_vars(\E n \in 1 .. Len(stream) : Receive(n))

Spec == Init /\ [][Next]_vars /\ Fairness

-----------------------------------------------------------------------------
(* Properties                                                              *)

\* Every variable has its type.
TypeOK ==
    /\ gui \in {"idle", "flag", "close", "remake", "connecting", "set_connected", "set_event"}
    /\ after \in {"idle", "connecting"}
    /\ connected \in BOOLEAN /\ conn_event \in BOOLEAN
    /\ sock \in SockStates /\ connects \in 0 .. MaxConnects
    /\ peer \in PeerStates /\ kinds \in Seq(Kinds) /\ stream \in Seq(Unit)
    /\ nw \in {"wait", "check", "header", "payload", "dead"}
    /\ want \in Nat /\ outb \in Seq(Unit) /\ header \in Header
    /\ nw_queue \in Seq(Message)
    /\ periodic \in {"sleeping", "draining", "dead"}
    /\ framing \in Framings /\ lastHanded \in 0 .. MaxMessages

\* The messages of the server as they should be handed on.
Genuine == {[type |-> kinds[n], nbytes |-> Size(kinds[n]), message |-> PayloadOf(n)] :
               n \in DOMAIN kinds}

HandsOn == Len(nw_queue') > Len(nw_queue)

\* What NWThread hands on is a message that the server sent, with its own bytes,
\* on every connection that it enters between two messages and on which it gives
\* up no read midway; so a lost connection is put right by the next only if the
\* read was given up before that was made.  A connection entered in the middle
\* of a read is misframed, and is left out as much as one with a read cut short.
FramesMatch == [][HandsOn /\ framing' = "kept" => nw_queue'[Len(nw_queue')] \in Genuine]_vars

\* What is handed on on such connections comes once and in the order of sending,
\* over all of them.
HandedInOrder == [][HandsOn /\ framing' = "kept" => lastHanded' > lastHanded]_vars

\* What has arrived on a connection is read in the end, or lost with the
\* connection; unless NWThread is dead.
ReadsEventually == (stream # <<>>) ~> (stream = <<>> \/ nw = "dead")

\* While the backend's thread lives and there is a connection, nw_queue does not
\* stay as long as it is: every message there is taken, whatever the one before
\* it was, and the thread dies, if it does, of a message that it has taken.  (More
\* than MaxMessages wait there only after a header was misread.)
MessagesProcessed ==
    \A k \in 1 .. MaxMessages :
        (Len(nw_queue) = k /\ periodic # "dead") ~> (Len(nw_queue) # k \/ ~connected)

\* NWThread never meets a connection that is gone ("Ensure we are connected")
\* and never dies of it.
ReceiverSurvives == nw # "dead"
=============================================================================
