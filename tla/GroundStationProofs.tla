------------------------ MODULE GroundStationProofs ------------------------
(* Theorems about GroundStation: what NWThread hands on, for all sizes of a  *)
(* header and a record, any number of messages and connections, and whatever *)
(* a misread header may say.                                                 *)
EXTENDS GroundStation, SequenceTheorems, TLAPS

USE SizesAssumption

-----------------------------------------------------------------------------
(* The inductive invariant.                                                *)

\* The units of a message of a kind.
Total(kind) == HeaderSize + Size(kind)

\* What _recv has read and what it still wants make what it was asked for.
ReadCount ==
    /\ nw = "header"  => Len(outb) + want = HeaderSize
    /\ nw = "payload" => Len(outb) + want = header.nbytes /\ header.nbytes > 0

\* Every unit read, or still to be read, belongs to a message that was sent.
UnitsSent ==
    /\ \A i \in DOMAIN outb : outb[i].msg \in DOMAIN kinds
    /\ \A i \in DOMAIN stream : stream[i].msg \in DOMAIN kinds

\* The messages are counted, and what was handed on last was sent.
Counted == Len(kinds) <= MaxMessages /\ lastHanded <= Len(kinds)

\* In the stream every message goes on to its end, unit by unit, and after its
\* end a later message begins.
FramedAt(ks, s, i) ==
    LET m    == s[i].msg
        left == Total(ks[m]) - s[i].part
    IN /\ s[i].part \in 1 .. Total(ks[m])
       /\ i + left <= Len(s)
       /\ \A d \in 0 .. left : s[i + d] = [msg |-> m, part |-> s[i].part + d]
       /\ i + left < Len(s) => s[i + left + 1].part = 1 /\ s[i + left + 1].msg > m

Framed == \A i \in DOMAIN stream : FramedAt(kinds, stream, i)

\* The server may still send on this connection.
Alive == sock = "open" /\ peer = "up"

\* A message begins where the stream goes on, one that was not handed on.
Boundary == stream # <<>> => stream[1].part = 1 /\ stream[1].msg > lastHanded

\* k units of message n, which was not handed on, have been read: the stream
\* goes on with the next one, or what it held is lost with the connection.
At(n, k) ==
    /\ n \in DOMAIN kinds /\ n > lastHanded /\ k <= Total(kinds[n])
    /\ stream # <<>> =>
          IF k < Total(kinds[n]) THEN stream[1] = [msg |-> n, part |-> k + 1]
                           ELSE stream[1].part = 1 /\ stream[1].msg > n
    /\ stream = <<>> /\ k < Total(kinds[n]) => ~Alive

\* A part of the header of message n has been read.
InHeader(n) ==
    At(n, Len(outb)) /\ \A i \in DOMAIN outb : outb[i] = [msg |-> n, part |-> i]

\* The header of message n has been read, and a part of its payload.
InPayload(n) ==
    /\ At(n, HeaderSize + Len(outb))
    /\ header = [type |-> kinds[n], nbytes |-> Size(kinds[n])]
    /\ \A i \in DOMAIN outb : outb[i] = [msg |-> n, part |-> HeaderSize + i]

\* Where NWThread is in the stream of a connection whose framing is kept.
InPlace ==
    /\ nw \in {"wait", "check"} \/ (nw = "header" /\ outb = <<>>) => Boundary
    /\ nw = "header" /\ outb # <<>> => \E n \in DOMAIN kinds : InHeader(n)
    /\ nw = "payload" => \E n \in DOMAIN kinds : InPayload(n)

TypeInv == TypeOK /\ ReadCount /\ UnitsSent /\ Counted
FrameInv == Framed /\ (framing = "kept" => InPlace)

-----------------------------------------------------------------------------
(* Sequences.                                                              *)

\* The first k elements of a sequence, and the others.
LEMMA Slices ==
    ASSUME NEW S, NEW s \in Seq(S), NEW k \in 1 .. Len(s)
    PROVE  /\ SubSeq(s, 1, k) \in Seq(S) /\ Len(SubSeq(s, 1, k)) = k
           /\ \A i \in 1 .. k : SubSeq(s, 1, k)[i] = s[i]
           /\ SubSeq(s, k + 1, Len(s)) \in Seq(S)
           /\ Len(SubSeq(s, k + 1, Len(s))) = Len(s) - k
           /\ \A i \in 1 .. Len(s) - k : SubSeq(s, k + 1, Len(s))[i] = s[k + i]
<1>1. /\ Len(s) \in Nat /\ s \in [1 .. Len(s) -> S]
  BY LenProperties
<1> DEFINE n == Len(s)
<1> HIDE DEF n
<1>2. n \in Nat /\ k \in 1 .. n /\ k + 1 \in Int /\ 1 \in Int
  BY <1>1 DEF n
<1>3. (\A i \in 1 .. k : s[i] \in S) /\ (\A i \in k + 1 .. n : s[i] \in S)
  BY <1>1, <1>2 DEF n
<1>4. /\ SubSeq(s, 1, k) \in Seq(S) /\ Len(SubSeq(s, 1, k)) = IF 1 <= k THEN k - 1 + 1 ELSE 0
      /\ \A i \in 1 .. k - 1 + 1 : SubSeq(s, 1, k)[i] = s[1 + i - 1]
  BY <1>2, <1>3, SubSeqProperties
<1>5. /\ SubSeq(s, k + 1, n) \in Seq(S)
      /\ Len(SubSeq(s, k + 1, n)) = IF k + 1 <= n THEN n - (k + 1) + 1 ELSE 0
      /\ \A i \in 1 .. n - (k + 1) + 1 : SubSeq(s, k + 1, n)[i] = s[k + 1 + i - 1]
  BY <1>2, <1>3, SubSeqProperties
<1>6. \A i \in Int : 1 + i - 1 = i /\ k + 1 + i - 1 = k + i
  BY <1>2
<1>7. k - 1 + 1 = k /\ n - (k + 1) + 1 = n - k /\ (k + 1 <= n \/ n - k = 0)
  BY <1>2
<1>8. Len(SubSeq(s, 1, k)) = k /\ Len(SubSeq(s, k + 1, n)) = n - k
  BY <1>2, <1>4, <1>5, <1>7
<1>9. \A i \in 1 .. k : SubSeq(s, 1, k)[i] = s[i]
  BY <1>2, <1>4, <1>6, <1>7
<1>10. \A i \in 1 .. n - k : SubSeq(s, k + 1, n)[i] = s[k + i]
  BY <1>2, <1>5, <1>6, <1>7
<1> QED BY <1>4, <1>5, <1>8, <1>9, <1>10 DEF n

\* The units of a message, from one to another.
LEMMA PartsFacts ==
    \A n \in 1 .. MaxMessages, i \in Nat, j \in Nat :
        i > 0 /\ i <= j + 1 /\ j <= HeaderSize + PayloadSize =>
            /\ Parts(n, i, j) \in Seq(Unit) /\ Len(Parts(n, i, j)) = j - i + 1
            /\ DOMAIN Parts(n, i, j) = 1 .. j - i + 1
            /\ \A k \in 1 .. j - i + 1 : Parts(n, i, j)[k] = [msg |-> n, part |-> i + k - 1]
<1> SUFFICES ASSUME NEW n \in 1 .. MaxMessages, NEW i \in Nat, NEW j \in Nat,
                    i > 0, i <= j + 1, j <= HeaderSize + PayloadSize
             PROVE  /\ Parts(n, i, j) \in Seq(Unit) /\ Len(Parts(n, i, j)) = j - i + 1
                    /\ DOMAIN Parts(n, i, j) = 1 .. j - i + 1
                    /\ \A k \in 1 .. j - i + 1 :
                          Parts(n, i, j)[k] = [msg |-> n, part |-> i + k - 1]
    OBVIOUS
<1> DEFINE r == j - i + 1
<1>1. r \in Nat /\ \A k \in 1 .. r : i + k - 1 \in 1 .. HeaderSize + PayloadSize
  OBVIOUS
<1>2. Parts(n, i, j) = [k \in 1 .. r |-> [msg |-> n, part |-> i + k - 1]]
  BY DEF Parts
<1> HIDE DEF r
<1>3. \A k \in 1 .. r : [msg |-> n, part |-> i + k - 1] \in Unit
  BY <1>1 DEF Unit
<1>4. Parts(n, i, j) \in [1 .. r -> Unit]
  BY <1>2, <1>3
<1>5. Parts(n, i, j) \in Seq(Unit)
  BY <1>1, <1>4
<1>6. Len(Parts(n, i, j)) = r /\ DOMAIN Parts(n, i, j) = 1 .. r
  BY <1>1, <1>2
<1> QED BY <1>2, <1>5, <1>6 DEF r

\* The units of a message, from its first.
LEMMA FirstParts ==
    \A n \in 1 .. MaxMessages, j \in Nat : j <= HeaderSize + PayloadSize =>
        /\ Parts(n, 1, j) \in Seq(Unit) /\ Len(Parts(n, 1, j)) = j
        /\ DOMAIN Parts(n, 1, j) = 1 .. j
        /\ \A k \in DOMAIN Parts(n, 1, j) : Parts(n, 1, j)[k] = [msg |-> n, part |-> k]
<1> SUFFICES ASSUME NEW n \in 1 .. MaxMessages, NEW j \in Nat, j <= HeaderSize + PayloadSize
             PROVE  /\ Parts(n, 1, j) \in Seq(Unit) /\ Len(Parts(n, 1, j)) = j
                    /\ DOMAIN Parts(n, 1, j) = 1 .. j
                    /\ \A k \in DOMAIN Parts(n, 1, j) :
                          Parts(n, 1, j)[k] = [msg |-> n, part |-> k]
    OBVIOUS
<1>1. 1 \in Nat /\ 1 > 0 /\ 1 <= j + 1 /\ n \in Nat /\ j - 1 + 1 = j
  OBVIOUS
<1>2. /\ Parts(n, 1, j) \in Seq(Unit) /\ Len(Parts(n, 1, j)) = j - 1 + 1
      /\ DOMAIN Parts(n, 1, j) = 1 .. j - 1 + 1
      /\ \A k \in 1 .. j - 1 + 1 : Parts(n, 1, j)[k] = [msg |-> n, part |-> 1 + k - 1]
  BY <1>1, PartsFacts
<1>3. \A k \in 1 .. j : 1 + k - 1 = k
  OBVIOUS
<1> QED BY <1>1, <1>2, <1>3

\* No units are a sequence of units.
LEMMA NoUnits == <<>> \in Seq(Unit) /\ DOMAIN <<>> = {} /\ Len(<<>>) = 0
OBVIOUS

\* A record has PayloadSize units, an ack none.
LEMMA SizeFacts ==
    \A kind \in Kinds : Size(kind) \in Nat /\ Size(kind) <= PayloadSize
BY DEF Size, Kinds

-----------------------------------------------------------------------------
(* Types.                                                                  *)

\* The ground station begins well typed.
LEMMA TypeInit == Init => TypeInv
<1> SUFFICES ASSUME Init PROVE TypeInv
    OBVIOUS
<1>1. NoHeader \in Header /\ <<>> \in Seq(Unit) /\ <<>> \in Seq(Kinds) /\ <<>> \in Seq(Message)
  BY DEF NoHeader, Header, HeaderTypes
<1>2. connected \in BOOLEAN /\ conn_event \in BOOLEAN
  BY Zenon DEF Init
<1>3. TypeOK
  BY <1>1, <1>2 DEF Framings, Init, TypeOK, SockStates, PeerStates
<1>4. DOMAIN outb = {} /\ DOMAIN stream = {} /\ Len(kinds) = 0
  BY DEF Init
<1> QED BY <1>3, <1>4 DEF Init, TypeInv, ReadCount, UnitsSent, Counted

\* A step of the GUI thread.
LEMMA TypeGui ==
    ASSUME TypeInv,
           \/ \E next \in {"idle", "connecting"} : Disconnect(next)
           \/ GuiContinues \/ Connect \/ ConnectSucceeds \/ ConnectFails
    PROVE  TypeInv'
<1>1. /\ UNCHANGED <<kinds, nw, want, outb, header, nw_queue, periodic, lastHanded>>
      /\ stream' \in {stream, <<>>} /\ peer' \in {peer, "up", "closed"}
      /\ sock' \in {sock, "open", "closed", "fresh"} /\ connects' \in {connects, connects + 1}
      /\ connects' = connects \/ connects < MaxConnects
  BY DEF Disconnect, GuiContinues, ClearConnected, CloseSocket, RemakeSocket, SetConnected,
         SetEvent, Connect, ConnectSucceeds, ConnectFails, OthersKeep, peerVars, nwVars
<1>2. /\ gui' \in {"idle", "flag", "close", "remake", "connecting", "set_connected", "set_event"}
      /\ after' \in {"idle", "connecting"}
  BY DEF Disconnect, GuiContinues, ClearConnected, CloseSocket, RemakeSocket, SetConnected,
         SetEvent, Connect, ConnectSucceeds, ConnectFails, TypeInv, TypeOK
<1>3. connected' \in BOOLEAN /\ conn_event' \in BOOLEAN
  BY Zenon DEF Disconnect, GuiContinues, ClearConnected, CloseSocket, RemakeSocket, SetConnected,
         SetEvent, Connect, ConnectSucceeds, ConnectFails, OthersKeep, TypeInv, TypeOK
<1>4. stream' \in Seq(Unit)
  BY <1>1, NoUnits DEF TypeInv, TypeOK
<1>5. connects' \in 0 .. MaxConnects
  <2>1. connects \in 0 .. MaxConnects /\ MaxConnects \in Nat
    BY DEF TypeInv, TypeOK
  <2> QED BY <1>1, <2>1
<1>6. framing' \in Framings
  <2>1. framing' \in {framing, "carried", "kept"}
    BY DEF Disconnect, GuiContinues, ClearConnected, CloseSocket, RemakeSocket, SetConnected,
           SetEvent, Connect, ConnectSucceeds, ConnectFails, OthersKeep
  <2> QED BY <2>1 DEF Framings, TypeInv, TypeOK
<1>7. TypeOK'
  BY <1>1, <1>2, <1>3, <1>4, <1>5, <1>6 DEF TypeInv, TypeOK, SockStates, PeerStates
<1>8. DOMAIN <<>> = {}
  OBVIOUS
<1> QED BY <1>1, <1>7, <1>8 DEF TypeInv, ReadCount, UnitsSent, Counted

\* A step of NWThread other than handing a message on.
LEMMA TypeRead ==
    ASSUME TypeInv,
           Wait \/ Check \/ \E n \in 1 .. Len(stream) : Receive(n)
    PROVE  TypeInv'
<1>1. CASE Wait
  BY <1>1 DEF Wait, TypeInv, TypeOK, ReadCount, UnitsSent, Counted, guiVars, peerVars
<1>2. CASE Check
  <2>1. /\ nw' \in {"header", "dead"}
        /\ nw' = "header" => want' = HeaderSize /\ outb' = <<>>
        /\ nw' = "dead" => UNCHANGED <<want, outb>>
        /\ UNCHANGED <<guiVars, peerVars, header, nw_queue, periodic, framing, lastHanded>>
    BY <1>2 DEF Check
  <2>2. outb' \in Seq(Unit) /\ want' \in Nat
    BY <2>1, NoUnits DEF TypeInv, TypeOK
  <2>5. TypeOK'
    BY <2>1, <2>2 DEF TypeInv, TypeOK, guiVars, peerVars
  <2>3. CASE nw' = "header"
    <3>1. want' = HeaderSize /\ Len(outb') = 0 /\ DOMAIN outb' = {}
      BY <2>1, <2>3
    <3> QED BY <2>1, <2>5, <2>3, <3>1 DEF TypeInv, ReadCount, UnitsSent, Counted, peerVars
  <2>4. CASE nw' = "dead"
    BY <2>1, <2>5, <2>4 DEF TypeInv, ReadCount, UnitsSent, Counted, peerVars
  <2> QED BY <2>1, <2>3, <2>4
<1>3. ASSUME NEW n \in 1 .. Len(stream), Receive(n) PROVE TypeInv'
  <2> DEFINE got == SubSeq(stream, 1, n)
             rest == SubSeq(stream, n + 1, Len(stream))
  <2>1. /\ outb' = outb \o got /\ want' = want - n /\ n <= want /\ stream' = rest
        /\ UNCHANGED <<guiVars, peer, kinds, nw, header, nw_queue, periodic, framing, lastHanded>>
    BY <1>3 DEF Receive, Take
  <2>2. stream \in Seq(Unit) /\ outb \in Seq(Unit) /\ want \in Nat
    BY DEF TypeInv, TypeOK
  <2>3. got \in Seq(Unit) /\ Len(got) = n /\ rest \in Seq(Unit)
    BY <2>2, Slices
  <2>4. n \in Nat /\ Len(outb) \in Nat
    BY <2>2, LenProperties
  <2> HIDE DEF got, rest
  <2>5. outb' \in Seq(Unit) /\ Len(outb') = Len(outb) + n
    BY <2>1, <2>2, <2>3, ConcatProperties
  <2>6. want' \in Nat /\ Len(outb') + want' = Len(outb) + want
    BY <2>1, <2>2, <2>4, <2>5
  <2>7. TypeOK'
    BY <2>1, <2>3, <2>5, <2>6 DEF TypeInv, TypeOK, guiVars
  <2>8. \A i \in DOMAIN outb' : outb'[i].msg \in DOMAIN kinds
    <3>1. \A i \in 1 .. Len(outb) + n :
              outb'[i] = IF i <= Len(outb) THEN outb[i] ELSE got[i - Len(outb)]
      BY <2>1, <2>2, <2>3, ConcatProperties
    <3>2. DOMAIN outb' = 1 .. Len(outb) + n /\ DOMAIN outb = 1 .. Len(outb)
      BY <2>2, <2>5, LenProperties
    <3>3. \A i \in 1 .. n : got[i] = stream[i] /\ i \in DOMAIN stream
      BY <2>2, Slices DEF got
    <3> SUFFICES ASSUME NEW i \in 1 .. Len(outb) + n PROVE outb'[i].msg \in DOMAIN kinds
        BY <3>2
    <3>4. CASE i <= Len(outb)
      BY <3>1, <3>2, <3>4, <2>4 DEF TypeInv, UnitsSent
    <3>5. CASE ~(i <= Len(outb))
      <4>1. i - Len(outb) \in 1 .. n
        BY <2>4, <3>5
      <4> QED BY <3>1, <3>3, <3>5, <4>1 DEF TypeInv, UnitsSent
    <3> QED BY <3>4, <3>5
  <2>9. \A i \in DOMAIN rest : rest[i].msg \in DOMAIN kinds
    <3>1. /\ DOMAIN rest = 1 .. Len(stream) - n /\ Len(stream) \in Nat
          /\ DOMAIN stream = 1 .. Len(stream)
      BY <2>2, <2>3, Slices, LenProperties DEF rest
    <3>2. \A i \in 1 .. Len(stream) - n : rest[i] = stream[n + i]
      BY <2>2, Slices DEF rest
    <3>3. \A i \in 1 .. Len(stream) - n : n + i \in DOMAIN stream
      BY <2>4, <3>1
    <3> QED BY <3>1, <3>2, <3>3 DEF TypeInv, UnitsSent
  <2>10. ReadCount' /\ UnitsSent' /\ Counted'
    BY <2>1, <2>6, <2>8, <2>9 DEF TypeInv, ReadCount, UnitsSent, Counted
  <2> QED BY <2>7, <2>10 DEF TypeInv
<1> QED BY <1>1, <1>2, <1>3

\* Handing a message on, whole or without its bytes.
LEMMA TypeHand ==
    ASSUME TypeInv, DecodeHeader \/ PayloadDone \/ ReceiveFails
    PROVE  TypeInv'
<1>1. \A m \in Message : HandOn(m) =>
          /\ nw_queue' \in Seq(Message) /\ nw' = "wait" /\ want' = 0 /\ outb' = <<>>
          /\ header' = NoHeader /\ header' \in Header
  <2>1. NoHeader \in Header
    BY DEF NoHeader, Header, HeaderTypes
  <2>2. \A m \in Message : Append(nw_queue, m) \in Seq(Message)
    BY AppendProperties DEF TypeInv, TypeOK
  <2> QED BY <2>1, <2>2 DEF HandOn
<1>2. \A h \in Header, s \in Seq(Unit) :
          [type |-> h.type, nbytes |-> h.nbytes, message |-> s] \in Message
  BY DEF Header, Message
<1>3. \A h \in Decoded : h \in Header
  <2>1. \A n \in DOMAIN kinds : kinds[n] \in Kinds
    BY DEF TypeInv, TypeOK
  <2>2. \A n \in DOMAIN kinds : [type |-> kinds[n], nbytes |-> Size(kinds[n])] \in Header
    BY <2>1, SizeFacts DEF Header, HeaderTypes
  <2> QED BY <2>2 DEF Decoded
<1>4. nw \in {"header", "payload"} /\ want = 0 => outb # <<>> /\ NumberOf(outb) \in DOMAIN kinds
  <2> SUFFICES ASSUME nw \in {"header", "payload"}, want = 0
               PROVE  outb # <<>> /\ NumberOf(outb) \in DOMAIN kinds
      OBVIOUS
  <2>1. Len(outb) > 0 /\ Len(outb) \in Nat /\ DOMAIN outb = 1 .. Len(outb)
    BY LenProperties DEF TypeInv, ReadCount, TypeOK, Header
  <2>2. 1 \in DOMAIN outb /\ outb # <<>>
    BY <2>1
  <2> QED BY <2>2 DEF TypeInv, UnitsSent, NumberOf
<1>5. DOMAIN kinds = 1 .. Len(kinds) /\ Len(kinds) \in Nat
  BY LenProperties DEF TypeInv, TypeOK
<1>6. CASE DecodeHeader
  <2>1. PICK h \in Decoded :
          \/ /\ h.nbytes > 0
             /\ nw' = "payload" /\ want' = h.nbytes /\ outb' = <<>> /\ header' = h
             /\ UNCHANGED <<nw_queue, lastHanded>>
          \/ /\ h.nbytes = 0
             /\ HandOn([type |-> h.type, nbytes |-> 0, message |-> <<>>])
             /\ lastHanded' = NumberOf(outb)
    BY <1>6 DEF DecodeHeader
  <2>2. UNCHANGED <<guiVars, peerVars, periodic, framing>> /\ nw = "header" /\ want = 0
    BY <1>6 DEF DecodeHeader
  <2>3. h \in Header /\ h.nbytes \in Nat
    BY <1>3, <2>1 DEF Header
  <2>4. CASE h.nbytes > 0 /\ nw' = "payload" /\ want' = h.nbytes /\ outb' = <<>> /\ header' = h
              /\ UNCHANGED <<nw_queue, lastHanded>>
    <3>1. TypeOK'
      BY <2>2, <2>3, <2>4 DEF TypeInv, TypeOK, guiVars, peerVars
    <3>2. Len(outb') = 0 /\ DOMAIN outb' = {}
      BY <2>4
    <3> QED BY <2>2, <2>3, <2>4, <3>1, <3>2
            DEF TypeInv, ReadCount, UnitsSent, Counted, peerVars
  <2>5. CASE h.nbytes = 0 /\ HandOn([type |-> h.type, nbytes |-> 0, message |-> <<>>])
              /\ lastHanded' = NumberOf(outb)
    <3>1. [type |-> h.type, nbytes |-> 0, message |-> <<>>] \in Message
      BY <1>2, <2>3, <2>5, NoUnits
    <3>2. /\ nw_queue' \in Seq(Message) /\ nw' = "wait" /\ want' = 0 /\ outb' = <<>>
          /\ header' \in Header
      BY <1>1, <2>5, <3>1
    <3>3. lastHanded' \in 1 .. Len(kinds) /\ Len(kinds) \in Nat /\ Len(kinds) <= MaxMessages
      BY <1>4, <1>5, <2>2, <2>5 DEF TypeInv, Counted
    <3>4. lastHanded' \in 0 .. MaxMessages
      BY <3>3
    <3>5. TypeOK'
      BY <2>2, <3>2, <3>4 DEF TypeInv, TypeOK, guiVars, peerVars
    <3>6. DOMAIN outb' = {}
      BY <3>2
    <3> QED BY <2>2, <3>2, <3>3, <3>5, <3>6
            DEF TypeInv, ReadCount, UnitsSent, Counted, peerVars
  <2> QED BY <2>1, <2>4, <2>5
<1>7. CASE PayloadDone
  <2>1. /\ HandOn([type |-> header.type, nbytes |-> header.nbytes, message |-> outb])
        /\ lastHanded' = NumberOf(outb) /\ nw = "payload" /\ want = 0
        /\ UNCHANGED <<guiVars, peerVars, periodic, framing>>
    BY <1>7 DEF PayloadDone
  <2>2. [type |-> header.type, nbytes |-> header.nbytes, message |-> outb] \in Message
    BY <1>2 DEF TypeInv, TypeOK
  <2>3. /\ nw_queue' \in Seq(Message) /\ nw' = "wait" /\ want' = 0 /\ outb' = <<>>
        /\ header' \in Header
    BY <1>1, <2>1, <2>2
  <2>4. lastHanded' \in 1 .. Len(kinds) /\ Len(kinds) \in Nat /\ Len(kinds) <= MaxMessages
    BY <1>4, <1>5, <2>1 DEF TypeInv, Counted
  <2>5. lastHanded' \in 0 .. MaxMessages
    BY <2>4
  <2>6. TypeOK'
    BY <2>1, <2>3, <2>5 DEF TypeInv, TypeOK, guiVars, peerVars
  <2>7. DOMAIN outb' = {}
    BY <2>3
  <2> QED BY <2>1, <2>3, <2>4, <2>6, <2>7
          DEF TypeInv, ReadCount, UnitsSent, Counted, peerVars
<1>8. CASE ReceiveFails
  <2>1. /\ UNCHANGED <<guiVars, kinds, stream, periodic, lastHanded>>
        /\ peer' \in {peer, "closed"} /\ nw \in {"header", "payload"}
    BY <1>8 DEF ReceiveFails, Reading
  <2>2. framing' \in Framings
    BY <1>8 DEF ReceiveFails, Framings, TypeInv, TypeOK
  <2>3. [type |-> header.type, nbytes |-> header.nbytes, message |-> <<>>] \in Message
    BY <1>2, NoUnits DEF TypeInv, TypeOK
  <2>4. /\ nw_queue' \in Seq(Message) /\ nw' = "wait" /\ want' = 0 /\ outb' = <<>>
        /\ header' \in Header
    BY <1>1, <1>8, <2>3 DEF ReceiveFails, TypeInv, TypeOK
  <2>5. TypeOK'
    BY <2>1, <2>2, <2>4 DEF TypeInv, TypeOK, guiVars, PeerStates
  <2>6. DOMAIN outb' = {}
    BY <2>4
  <2> QED BY <2>1, <2>4, <2>5, <2>6 DEF TypeInv, ReadCount, UnitsSent, Counted
<1> QED BY <1>6, <1>7, <1>8

\* A step of the backend's thread, of the server or of the network.
LEMMA TypeRest ==
    ASSUME TypeInv, Backend \/ (\E kind \in Kinds : ServerSends(kind)) \/ ServerGoes
    PROVE  TypeInv'
<1>1. CASE Backend
  <2>1. /\ UNCHANGED <<guiVars, peerVars, nwVars, framing, lastHanded>>
        /\ nw_queue' = nw_queue \/ (nw_queue # <<>> /\ nw_queue' = Tail(nw_queue))
    BY <1>1 DEF Backend, Drain, Drained, ProcessMessage
  <2>2. nw_queue' \in Seq(Message)
    <3>1. nw_queue \in Seq(Message)
      BY DEF TypeInv, TypeOK
    <3>2. nw_queue # <<>> => Tail(nw_queue) \in Seq(Message)
      BY <3>1, HeadTailProperties
    <3> QED BY <2>1, <3>1, <3>2
  <2>3. periodic' \in {"sleeping", "draining", "dead"}
    BY <1>1 DEF Backend, Drain, Drained, ProcessMessage, Handled
  <2>4. TypeOK'
    BY <2>1, <2>2, <2>3 DEF TypeInv, TypeOK, guiVars, peerVars, nwVars
  <2> QED BY <2>1, <2>4 DEF TypeInv, ReadCount, UnitsSent, Counted, peerVars, nwVars
<1>2. ASSUME NEW kind \in Kinds, ServerSends(kind) PROVE TypeInv'
  <2> DEFINE n == Len(kinds)
             new == Parts(n + 1, 1, HeaderSize + Size(kind))
  <2>1. /\ kinds' = Append(kinds, kind) /\ n < MaxMessages
        /\ stream' = stream \o Parts(Len(kinds'), 1, HeaderSize + Size(kind))
        /\ UNCHANGED <<guiVars, peer, nwVars, nw_queue, periodic, framing, lastHanded>>
    BY <1>2 DEF ServerSends
  <2>2. kinds \in Seq(Kinds) /\ n \in Nat /\ DOMAIN kinds = 1 .. n /\ stream \in Seq(Unit)
    BY LenProperties DEF TypeInv, TypeOK
  <2>3. kinds' \in Seq(Kinds) /\ Len(kinds') = n + 1
    BY <2>1, <2>2, AppendProperties
  <2>4. DOMAIN kinds' = 1 .. n + 1 /\ n + 1 \in DOMAIN kinds' /\ n + 1 <= MaxMessages
    BY <2>1, <2>2, <2>3, LenProperties
  <2>5. n + 1 \in 1 .. MaxMessages /\ HeaderSize + Size(kind) \in Nat
        /\ HeaderSize + Size(kind) <= HeaderSize + PayloadSize /\ 1 <= HeaderSize + Size(kind) + 1
    BY <2>2, <2>4, SizeFacts
  <2>6. /\ new \in Seq(Unit) /\ DOMAIN new = 1 .. HeaderSize + Size(kind)
        /\ \A k \in DOMAIN new : new[k] = [msg |-> n + 1, part |-> k]
    BY <2>5, FirstParts
  <2> HIDE DEF new
  <2>7. \A k \in DOMAIN new : new[k].msg \in DOMAIN kinds'
    BY <2>4, <2>6
  <2>8. stream' = stream \o new
    BY <2>1, <2>3 DEF new
  <2>9. stream' \in Seq(Unit)
    BY <2>2, <2>6, <2>8, ConcatProperties
  <2>10. DOMAIN kinds \subseteq DOMAIN kinds'
    BY <2>2, <2>4
  <2>11. \A i \in DOMAIN stream' : stream'[i].msg \in DOMAIN kinds'
    <3> DEFINE l == Len(stream)
               r == Len(new)
    <3>1. l \in Nat /\ r \in Nat /\ DOMAIN stream = 1 .. l /\ DOMAIN new = 1 .. r
      BY <2>2, <2>6, LenProperties
    <3>2. DOMAIN stream' = 1 .. l + r
      BY <2>2, <2>6, <2>8, <2>9, ConcatProperties, LenProperties
    <3>3. \A i \in 1 .. l + r : stream'[i] = IF i <= l THEN stream[i] ELSE new[i - l]
      BY <2>2, <2>6, <2>8, ConcatProperties
    <3> HIDE DEF l, r
    <3>4. \A i \in 1 .. l + r : i <= l => i \in 1 .. l
      BY <3>1
    <3>5. \A i \in 1 .. l + r : ~(i <= l) => i - l \in 1 .. r
      BY <3>1
    <3> SUFFICES ASSUME NEW i \in 1 .. l + r PROVE stream'[i].msg \in DOMAIN kinds'
        BY <3>2
    <3>6. CASE i <= l
      BY <2>10, <3>1, <3>3, <3>4, <3>6 DEF TypeInv, UnitsSent
    <3>7. CASE ~(i <= l)
      BY <2>7, <3>1, <3>3, <3>5, <3>7
    <3> QED BY <3>6, <3>7
  <2>12. \A i \in DOMAIN outb' : outb'[i].msg \in DOMAIN kinds'
    BY <2>1, <2>10 DEF TypeInv, UnitsSent, nwVars
  <2>13. TypeOK'
    BY <2>1, <2>3, <2>9 DEF TypeInv, TypeOK, guiVars, nwVars
  <2>14. Counted'
    BY <2>1, <2>2, <2>3, <2>4 DEF TypeInv, TypeOK, Counted
  <2> QED BY <2>1, <2>11, <2>12, <2>13, <2>14 DEF TypeInv, ReadCount, UnitsSent, nwVars
<1>3. CASE ServerGoes
  <2>1. /\ UNCHANGED <<guiVars, kinds, nwVars, nw_queue, periodic, framing, lastHanded>>
        /\ peer' \in {"closed", "reset"} /\ stream' \in {stream, <<>>}
    BY <1>3 DEF ServerGoes
  <2>2. stream' \in Seq(Unit) /\ (stream' # stream => DOMAIN stream' = {})
    BY <2>1, NoUnits DEF TypeInv, TypeOK
  <2>3. TypeOK'
    BY <2>1, <2>2 DEF TypeInv, TypeOK, guiVars, nwVars, PeerStates
  <2> QED BY <2>1, <2>2, <2>3 DEF TypeInv, ReadCount, UnitsSent, Counted, nwVars
<1> QED BY <1>1, <1>2, <1>3

\* Every step keeps the types.
LEMMA TypeStep == TypeInv /\ [Next]_vars => TypeInv'
<1> SUFFICES ASSUME TypeInv, [Next]_vars PROVE TypeInv'
    OBVIOUS
<1>1. CASE UNCHANGED vars
  BY <1>1 DEF vars, guiVars, peerVars, nwVars, TypeInv, TypeOK, ReadCount, UnitsSent, Counted
<1> QED BY <1>1, TypeGui, TypeRead, TypeHand, TypeRest DEF Next, NWThread

\* The ground station keeps its types: in particular a message that is handed
\* on has units to be counted by, whatever a misread header said.
THEOREM TypeCorrect == Spec => []TypeOK
<1>1. TypeInv => TypeOK
  BY DEF TypeInv
<1> QED BY <1>1, TypeInit, TypeStep, PTL DEF Spec

-----------------------------------------------------------------------------
(* The framing.                                                            *)

\* What the types say of the sequences, for the steps below.
LEMMA Shapes ==
    ASSUME TypeInv
    PROVE  /\ stream \in Seq(Unit) /\ outb \in Seq(Unit) /\ kinds \in Seq(Kinds)
           /\ Len(stream) \in Nat /\ DOMAIN stream = 1 .. Len(stream)
           /\ Len(outb) \in Nat /\ DOMAIN outb = 1 .. Len(outb)
           /\ Len(kinds) \in Nat /\ DOMAIN kinds = 1 .. Len(kinds) /\ Len(kinds) <= MaxMessages
           /\ \A n \in DOMAIN kinds : /\ kinds[n] \in Kinds /\ Size(kinds[n]) \in Nat
                                      /\ Size(kinds[n]) <= PayloadSize
                                      /\ Total(kinds[n]) \in Nat /\ Total(kinds[n]) >= HeaderSize
                                      /\ Total(kinds[n]) = HeaderSize + Size(kinds[n])
           /\ \A i \in DOMAIN stream : stream[i].msg \in DOMAIN kinds
<1>1. stream \in Seq(Unit) /\ outb \in Seq(Unit) /\ kinds \in Seq(Kinds)
  BY DEF TypeInv, TypeOK
<1>2. /\ Len(stream) \in Nat /\ DOMAIN stream = 1 .. Len(stream)
      /\ Len(outb) \in Nat /\ DOMAIN outb = 1 .. Len(outb)
      /\ Len(kinds) \in Nat /\ DOMAIN kinds = 1 .. Len(kinds)
  BY <1>1, LenProperties
<1>3. \A n \in DOMAIN kinds : kinds[n] \in Kinds
  BY <1>1
<1>4. \A n \in DOMAIN kinds : Size(kinds[n]) \in Nat /\ Size(kinds[n]) <= PayloadSize
  BY <1>3, SizeFacts
<1>5. \A n \in DOMAIN kinds : /\ Total(kinds[n]) \in Nat /\ Total(kinds[n]) >= HeaderSize
                              /\ Total(kinds[n]) = HeaderSize + Size(kinds[n])
  BY <1>4 DEF Total
<1> QED BY <1>1, <1>2, <1>3, <1>4, <1>5 DEF TypeInv, Counted, UnitsSent

\* The stream behind its first k units.
Rest(k) == SubSeq(stream, k + 1, Len(stream))

\* Reading k units from the start of a stream that goes on with unit j + 1 of
\* message m: these are the next ones of the message, and the stream goes on
\* behind them.
LEMMA TakeUnits ==
    ASSUME TypeInv, Framed, NEW m \in DOMAIN kinds, NEW j \in Nat, stream # <<>>,
           stream[1] = [msg |-> m, part |-> j + 1],
           NEW k \in 1 .. Len(stream), j + k <= Total(kinds[m])
    PROVE  /\ \A i \in 1 .. k : stream[i] = [msg |-> m, part |-> j + i]
           /\ Rest(k) # <<>> => IF j + k < Total(kinds[m])
                                THEN Rest(k)[1] = [msg |-> m, part |-> j + k + 1]
                                ELSE Rest(k)[1].part = 1 /\ Rest(k)[1].msg > m
           /\ Rest(k) = <<>> => j + k = Total(kinds[m])
<1> DEFINE l == Len(stream)
           rest == Rest(k)
           left == Total(kinds[m]) - (j + 1)
<1>1. /\ l \in Nat /\ DOMAIN stream = 1 .. l /\ stream \in Seq(Unit) /\ Total(kinds[m]) \in Nat
      /\ k \in Nat /\ k > 0 /\ k <= l /\ 1 \in DOMAIN stream
  BY Shapes
<1>2. /\ 1 + left <= l
      /\ \A d \in 0 .. left : stream[1 + d] = [msg |-> m, part |-> j + 1 + d]
      /\ 1 + left < l => stream[1 + left + 1].part = 1 /\ stream[1 + left + 1].msg > m
  <2>1. FramedAt(kinds, stream, 1)
    BY <1>1 DEF Framed
  <2>2. stream[1].msg = m /\ stream[1].part = j + 1
    OBVIOUS
  <2> QED BY <2>1, <2>2 DEF FramedAt
<1>3. Len(rest) = l - k /\ rest \in Seq(Unit) /\ \A i \in 1 .. l - k : rest[i] = stream[k + i]
  BY <1>1, Slices DEF Rest
<1>4. left \in Int /\ k <= left + 1 /\ left = Total(kinds[m]) - (j + 1)
  BY <1>1
<1> HIDE DEF l, left, rest
<1>5. \A i \in 1 .. k : stream[i] = [msg |-> m, part |-> j + i]
  <2> SUFFICES ASSUME NEW i \in 1 .. k PROVE stream[i] = [msg |-> m, part |-> j + i]
      OBVIOUS
  <2> DEFINE d == i - 1
  <2>1. d \in 0 .. left /\ 1 + d = i /\ j + 1 + d = j + i
    BY <1>1, <1>4
  <2> HIDE DEF d
  <2>2. stream[1 + d] = [msg |-> m, part |-> j + 1 + d]
    BY <1>2, <2>1
  <2> QED BY <2>1, <2>2
<1>6. ASSUME rest # <<>>
      PROVE  IF j + k < Total(kinds[m]) THEN rest[1] = [msg |-> m, part |-> j + k + 1]
                                  ELSE rest[1].part = 1 /\ rest[1].msg > m
  <2>1. Len(rest) > 0
    BY <1>1, <1>3, <1>6, EmptySeq, LenProperties
  <2>2. 1 \in 1 .. l - k /\ k < l
    BY <1>1, <1>3, <2>1
  <2>3. rest[1] = stream[k + 1]
    BY <1>3, <2>2
  <2>4. CASE j + k < Total(kinds[m])
    <3>1. k \in 0 .. left /\ 1 + k = k + 1 /\ j + 1 + k = j + k + 1
      BY <1>1, <1>4, <2>4
    <3>2. stream[1 + k] = [msg |-> m, part |-> j + 1 + k]
      BY <1>2, <3>1
    <3> QED BY <2>3, <2>4, <3>1, <3>2
  <2>5. CASE ~(j + k < Total(kinds[m]))
    <3>1. 1 + left = k
      BY <1>1, <1>4, <2>5
    <3> QED BY <1>2, <2>2, <2>3, <2>5, <3>1
  <2> QED BY <2>4, <2>5
<1>7. ASSUME rest = <<>> PROVE j + k = Total(kinds[m])
  <2>1. l - k = 0
    BY <1>3, <1>7, NoUnits
  <2>2. 1 + left <= l
    BY <1>2
  <2> QED BY <1>1, <1>4, <2>1, <2>2
<1> QED BY <1>5, <1>6, <1>7 DEF rest

\* What is left of a framed stream when its first units are read.
LEMMA FramedTake ==
    ASSUME TypeInv, Framed, NEW k \in 1 .. Len(stream),
           stream' = SubSeq(stream, k + 1, Len(stream)), kinds' = kinds
    PROVE  Framed'
<1> DEFINE l == Len(stream)
<1>1. /\ l \in Nat /\ DOMAIN stream = 1 .. l /\ stream \in Seq(Unit)
      /\ k \in Nat /\ k > 0 /\ k <= l
  BY Shapes
<1>2. /\ Len(stream') = l - k /\ stream' \in Seq(Unit)
      /\ \A i \in 1 .. l - k : stream'[i] = stream[k + i]
  BY <1>1, Slices
<1>3. DOMAIN stream' = 1 .. l - k
  BY <1>2, LenProperties
<1> HIDE DEF l
<1> SUFFICES ASSUME NEW i \in DOMAIN stream' PROVE FramedAt(kinds, stream', i)
    BY DEF Framed
<1> DEFINE m == stream[k + i].msg
           p == stream[k + i].part
           left == Total(kinds[m]) - p
<1>4. k + i \in DOMAIN stream /\ stream'[i] = stream[k + i] /\ i \in Nat /\ i > 0
  <2>1. i \in 1 .. l - k
    BY <1>3
  <2>2. k + i \in 1 .. l /\ i \in Nat /\ i > 0
    BY <1>1, <2>1
  <2> QED BY <1>1, <1>2, <2>1, <2>2
<1>5. /\ p \in 1 .. Total(kinds[m]) /\ k + i + left <= l
      /\ \A d \in 0 .. left : stream[k + i + d] = [msg |-> m, part |-> p + d]
      /\ k + i + left < l => stream[k + i + left + 1].part = 1 /\ stream[k + i + left + 1].msg > m
  BY <1>4 DEF Framed, FramedAt, l
<1>6. Total(kinds[m]) \in Nat
  BY <1>4, Shapes
<1>7. left \in Nat /\ p \in Nat
  BY <1>5, <1>6
<1>8. stream'[i].msg = m /\ stream'[i].part = p
  BY <1>4
<1> HIDE DEF m, p, left
<1>9. i + left <= l - k
  BY <1>1, <1>4, <1>5, <1>7
<1>10. \A d \in 0 .. left : stream'[i + d] = [msg |-> m, part |-> p + d]
  <2> SUFFICES ASSUME NEW d \in 0 .. left PROVE stream'[i + d] = [msg |-> m, part |-> p + d]
      OBVIOUS
  <2>1. i + d \in 1 .. l - k /\ k + (i + d) = k + i + d
    BY <1>1, <1>4, <1>7, <1>9
  <2> QED BY <1>2, <1>5, <2>1
<1>11. i + left < l - k => stream'[i + left + 1].part = 1 /\ stream'[i + left + 1].msg > m
  <2> SUFFICES ASSUME i + left < l - k
               PROVE  stream'[i + left + 1].part = 1 /\ stream'[i + left + 1].msg > m
      OBVIOUS
  <2>1. /\ i + left + 1 \in 1 .. l - k /\ k + (i + left + 1) = k + i + left + 1
        /\ k + i + left < l
    BY <1>1, <1>4, <1>7
  <2> QED BY <1>2, <1>5, <2>1
<1> QED BY <1>2, <1>5, <1>8, <1>9, <1>10, <1>11 DEF FramedAt, left

\* A message that is sent goes behind the others.
LEMMA FramedSend ==
    ASSUME TypeInv, Framed, NEW kind \in Kinds, ServerSends(kind)
    PROVE  /\ Framed'
           /\ stream # <<>> => stream' # <<>> /\ stream'[1] = stream[1]
           /\ stream = <<>> => /\ stream'[1].part = 1
                               /\ \A n \in DOMAIN kinds : stream'[1].msg > n
                               /\ stream'[1].msg > lastHanded
<1> DEFINE l == Len(stream)
           t == Total(kind)
           n == Len(kinds)
           new == Parts(n + 1, 1, t)
<1>1. /\ kinds' = Append(kinds, kind) /\ n < MaxMessages
      /\ stream' = stream \o Parts(Len(kinds'), 1, t)
    BY DEF ServerSends, Total
<1>2. /\ kinds \in Seq(Kinds) /\ n \in Nat /\ DOMAIN kinds = 1 .. n /\ stream \in Seq(Unit)
      /\ l \in Nat /\ DOMAIN stream = 1 .. l
    BY Shapes
<1>3. /\ kinds' \in Seq(Kinds) /\ Len(kinds') = n + 1 /\ kinds'[n + 1] = kind
      /\ \A i \in 1 .. n : kinds'[i] = kinds[i]
    BY <1>1, <1>2, AppendProperties
<1>4. t \in Nat /\ t > 0 /\ t <= HeaderSize + PayloadSize
  BY SizeFacts DEF Total
<1>5. n + 1 \in 1 .. MaxMessages
  BY <1>1, <1>2
<1> HIDE DEF t
<1>6. /\ new \in Seq(Unit) /\ Len(new) = t
      /\ \A k \in 1 .. t : new[k] = [msg |-> n + 1, part |-> k]
  BY <1>4, <1>5, FirstParts
<1>7. stream' = stream \o new
  BY <1>1, <1>3
<1> HIDE DEF new
<1>8. /\ Len(stream') = l + t /\ stream' \in Seq(Unit)
      /\ \A i \in 1 .. l + t : stream'[i] = IF i <= l THEN stream[i] ELSE new[i - l]
  BY <1>2, <1>6, <1>7, ConcatProperties
<1>9. DOMAIN stream' = 1 .. l + t
  BY <1>8, LenProperties
<1> HIDE DEF l, n
<1>10. \A i \in 1 .. l : stream'[i] = stream[i]
  <2>1. \A i \in 1 .. l : i \in 1 .. l + t /\ i <= l
    BY <1>2, <1>4
  <2> QED BY <1>8, <2>1
<1>11. \A k \in 1 .. t : stream'[l + k] = [msg |-> n + 1, part |-> k]
  <2> SUFFICES ASSUME NEW k \in 1 .. t PROVE stream'[l + k] = [msg |-> n + 1, part |-> k]
      OBVIOUS
  <2> DEFINE i == l + k
  <2>1. i \in 1 .. l + t /\ ~(i <= l) /\ i - l = k
    BY <1>2, <1>4
  <2> HIDE DEF i
  <2>2. stream'[i] = new[k]
    BY <1>8, <2>1
  <2> QED BY <1>6, <2>2 DEF i
<1>12. ASSUME NEW i \in 1 .. l PROVE FramedAt(kinds', stream', i)
  <2> DEFINE m == stream[i].msg
             p == stream[i].part
             left == Total(kinds[m]) - p
  <2>1. /\ p \in 1 .. Total(kinds[m]) /\ i + left <= l
        /\ \A d \in 0 .. left : stream[i + d] = [msg |-> m, part |-> p + d]
        /\ i + left < l => stream[i + left + 1].part = 1 /\ stream[i + left + 1].msg > m
    BY <1>2 DEF Framed, FramedAt, l
  <2>2. m \in 1 .. n /\ Total(kinds[m]) \in Nat
    BY <1>2, Shapes
  <2>3. left \in Nat /\ i \in Nat /\ i > 0
    BY <2>1, <2>2
  <2>4. stream'[i].msg = m /\ stream'[i].part = p /\ kinds'[m] = kinds[m]
    BY <1>3, <1>10, <2>2
  <2> HIDE DEF m, p, left
  <2>5. i + left <= l + t
    BY <1>2, <1>4, <2>1, <2>3
  <2>6. \A d \in 0 .. left : stream'[i + d] = [msg |-> m, part |-> p + d]
    <3>1. \A d \in 0 .. left : i + d \in 1 .. l
      BY <1>2, <2>1, <2>3
    <3> QED BY <1>10, <2>1, <3>1
  <2>7. i + left < l + t => stream'[i + left + 1].part = 1 /\ stream'[i + left + 1].msg > m
    <3>1. CASE i + left < l
      <4>1. i + left + 1 \in 1 .. l
        BY <1>2, <2>3, <3>1
      <4> QED BY <1>10, <2>1, <3>1, <4>1
    <3>2. CASE ~(i + left < l)
      <4>1. i + left + 1 = l + 1 /\ 1 \in 1 .. t
        BY <1>2, <1>4, <2>1, <2>3, <3>2
      <4>2. stream'[l + 1] = [msg |-> n + 1, part |-> 1]
        BY <1>11, <4>1
      <4>3. n + 1 > m
        BY <1>2, <2>2
      <4> QED BY <4>1, <4>2, <4>3
    <3> QED BY <3>1, <3>2
  <2> QED BY <1>8, <2>1, <2>4, <2>5, <2>6, <2>7 DEF FramedAt, left
<1>13. ASSUME NEW k \in 1 .. t PROVE FramedAt(kinds', stream', l + k)
  <2> DEFINE left == t - k
  <2>0. Total(kinds'[n + 1]) = t
    BY <1>3 DEF t
  <2>1. /\ stream'[l + k].msg = n + 1 /\ stream'[l + k].part = k
        /\ Total(kinds'[n + 1]) = t
    <3>1. stream'[l + k] = [msg |-> n + 1, part |-> k]
      BY <1>11
    <3> QED BY <2>0, <3>1
  <2>2. left \in Nat /\ k \in Nat /\ l + k + left = l + t
    BY <1>2, <1>4
  <2>3. \A d \in 0 .. left : stream'[l + k + d] = [msg |-> n + 1, part |-> k + d]
    <3>1. \A d \in 0 .. left : k + d \in 1 .. t /\ l + (k + d) = l + k + d
      BY <1>2, <1>4, <2>2
    <3> QED BY <1>11, <3>1
  <2>4. ~(l + k + left < l + t)
    BY <1>2, <1>4, <2>2
  <2> QED BY <1>8, <2>1, <2>2, <2>3, <2>4 DEF FramedAt
<1>14. Framed'
  <2> SUFFICES ASSUME NEW i \in 1 .. l + t PROVE FramedAt(kinds', stream', i)
      BY <1>9 DEF Framed
  <2>1. CASE i <= l
    <3>1. i \in 1 .. l
      BY <1>2, <2>1
    <3> QED BY <1>12, <3>1
  <2>2. CASE ~(i <= l)
    <3> DEFINE k == i - l
    <3>1. k \in 1 .. t /\ l + k = i
      BY <1>2, <1>4, <2>2
    <3> HIDE DEF k
    <3>2. FramedAt(kinds', stream', l + k)
      BY <1>13, <3>1
    <3> QED BY <3>1, <3>2
  <2> QED BY <2>1, <2>2
<1>15. ASSUME stream # <<>> PROVE stream' # <<>> /\ stream'[1] = stream[1]
  <2>1. l # 0
    BY <1>15, <1>2, EmptySeq DEF l
  <2>2. 1 \in 1 .. l /\ Len(stream') # 0
    BY <1>2, <1>4, <1>8, <2>1
  <2> QED BY <1>10, <2>2
<1>16. ASSUME stream = <<>>
       PROVE  /\ stream'[1].part = 1 /\ \A j \in DOMAIN kinds : stream'[1].msg > j
              /\ stream'[1].msg > lastHanded
  <2>1. l = 0 /\ 1 \in 1 .. t
    BY <1>4, <1>16 DEF l
  <2>2. stream'[0 + 1] = [msg |-> n + 1, part |-> 1]
    BY <1>11, <2>1
  <2>3. lastHanded <= n /\ lastHanded \in Nat
    BY <1>2 DEF TypeInv, TypeOK, Counted, n
  <2> QED BY <1>2, <2>2, <2>3
<1> QED BY <1>14, <1>15, <1>16

-----------------------------------------------------------------------------
(* Where NWThread is in the stream.                                        *)

\* A step that leaves what was read, and either leaves the stream too or loses
\* it with the connection.
LEMMA PlaceKeeps ==
    ASSUME UNCHANGED <<kinds, nw, outb, header, lastHanded>>,
           \/ stream' = stream /\ (Alive' => Alive)
           \/ stream' = <<>> /\ ~Alive'
    PROVE  InPlace => InPlace'
<1>1. \A n \in DOMAIN kinds, k \in Nat : At(n, k) => At(n, k)'
  BY DEF At
<1>2. ASSUME NEW n \in DOMAIN kinds PROVE InHeader(n) => InHeader(n)'
  BY DEF InHeader, At
<1>3. ASSUME NEW n \in DOMAIN kinds PROVE InPayload(n) => InPayload(n)'
  BY DEF InPayload, At
<1>4. Boundary => Boundary'
  BY DEF Boundary
<1> QED BY <1>2, <1>3, <1>4 DEF InPlace

\* Such a step also leaves the framing.
LEMMA FramedKeeps ==
    ASSUME Framed, kinds' = kinds, stream' \in {stream, <<>>}
    PROVE  Framed'
<1>1. DOMAIN <<>> = {}
  OBVIOUS
<1> QED BY <1>1 DEF Framed

\* A whole header that was read in place is that of one message.
LEMMA HeaderRead ==
    ASSUME TypeInv, InPlace, nw = "header", want = 0
    PROVE  \E n \in DOMAIN kinds :
              /\ InHeader(n) /\ NumberOf(outb) = n /\ Len(outb) = HeaderSize
              /\ Decoded = {[type |-> kinds[n], nbytes |-> Size(kinds[n])]}
<1>1. Len(outb) = HeaderSize /\ outb \in Seq(Unit) /\ DOMAIN outb = 1 .. HeaderSize
  BY Shapes DEF TypeInv, ReadCount
<1>2. outb # <<>> /\ 1 \in DOMAIN outb
  BY <1>1, NoUnits
<1>3. PICK n \in DOMAIN kinds : InHeader(n)
  BY <1>2 DEF InPlace
<1>4. \A i \in DOMAIN outb : outb[i] = [msg |-> n, part |-> i]
  BY <1>3 DEF InHeader
<1>5. \A j \in DOMAIN kinds :
          /\ HeaderOf(j) \in Seq(Unit) /\ Len(HeaderOf(j)) = HeaderSize
          /\ DOMAIN HeaderOf(j) = 1 .. HeaderSize
          /\ \A i \in 1 .. HeaderSize : HeaderOf(j)[i] = [msg |-> j, part |-> i]
  <2>1. \A j \in DOMAIN kinds : j \in 1 .. MaxMessages
    BY Shapes
  <2>2. HeaderSize \in Nat /\ HeaderSize <= HeaderSize + PayloadSize
    OBVIOUS
  <2> QED BY <2>1, <2>2, FirstParts DEF HeaderOf
<1>6. outb = HeaderOf(n)
  <2>1. \A i \in 1 .. Len(outb) : outb[i] = HeaderOf(n)[i]
    BY <1>1, <1>4, <1>5
  <2> QED BY <1>1, <1>5, <2>1, SeqEqual
<1>7. \A j \in DOMAIN kinds : outb = HeaderOf(j) => j = n
  <2> SUFFICES ASSUME NEW j \in DOMAIN kinds, outb = HeaderOf(j) PROVE j = n
      OBVIOUS
  <2>1. HeaderOf(j)[1] = [msg |-> j, part |-> 1] /\ outb[1] = [msg |-> n, part |-> 1]
    BY <1>1, <1>2, <1>4, <1>5
  <2>2. outb[1].msg = j /\ outb[1].msg = n
    BY <2>1
  <2> QED BY <2>2
<1>8. {j \in DOMAIN kinds : outb = HeaderOf(j)} = {n}
  BY <1>6, <1>7
<1>9. Decoded = {[type |-> kinds[j], nbytes |-> Size(kinds[j])] : j \in {n}}
  BY <1>8 DEF Decoded
<1>10. Decoded = {[type |-> kinds[n], nbytes |-> Size(kinds[n])]}
  BY <1>9
<1>11. NumberOf(outb) = n
  BY <1>2, <1>4 DEF NumberOf
<1> QED BY <1>1, <1>3, <1>10, <1>11

\* A whole payload that was read in place is that of one message.
LEMMA PayloadRead ==
    ASSUME TypeInv, InPlace, nw = "payload", want = 0
    PROVE  \E n \in DOMAIN kinds :
              /\ InPayload(n) /\ NumberOf(outb) = n /\ outb = PayloadOf(n)
              /\ At(n, Total(kinds[n]))
<1>1. PICK n \in DOMAIN kinds : InPayload(n)
  BY DEF InPlace
<1> DEFINE size == Size(kinds[n])
<1>2. /\ header.nbytes = size /\ At(n, HeaderSize + Len(outb))
      /\ \A i \in DOMAIN outb : outb[i] = [msg |-> n, part |-> HeaderSize + i]
  BY <1>1 DEF InPayload
<1>3. /\ Len(outb) = size /\ size > 0 /\ outb \in Seq(Unit) /\ DOMAIN outb = 1 .. size
      /\ size \in Nat /\ size <= PayloadSize
  BY <1>2, Shapes DEF TypeInv, ReadCount
<1>4. n \in 1 .. MaxMessages /\ n \in Nat
  BY Shapes
<1> HIDE DEF size
<1>5. /\ PayloadOf(n) \in Seq(Unit) /\ Len(PayloadOf(n)) = size
      /\ \A i \in 1 .. size : PayloadOf(n)[i] = [msg |-> n, part |-> HeaderSize + i]
  <2> DEFINE a == HeaderSize + 1
             b == HeaderSize + size
  <2>1. /\ a \in Nat /\ a > 0 /\ b \in Nat /\ a <= b + 1 /\ b <= HeaderSize + PayloadSize
        /\ b - a + 1 = size
    BY <1>3
  <2>2. \A i \in 1 .. size : a + i - 1 = HeaderSize + i
    BY <1>3
  <2>3. PayloadOf(n) = Parts(n, a, b)
    BY DEF PayloadOf, size
  <2> HIDE DEF a, b
  <2>4. /\ Parts(n, a, b) \in Seq(Unit) /\ Len(Parts(n, a, b)) = b - a + 1
        /\ \A k \in 1 .. b - a + 1 : Parts(n, a, b)[k] = [msg |-> n, part |-> a + k - 1]
    BY <1>4, <2>1, PartsFacts
  <2> QED BY <2>1, <2>2, <2>3, <2>4
<1>6. outb = PayloadOf(n)
  <2>1. \A i \in 1 .. Len(outb) : outb[i] = PayloadOf(n)[i]
    BY <1>2, <1>3, <1>5
  <2> QED BY <1>3, <1>5, <2>1, SeqEqual
<1>7. NumberOf(outb) = n
  BY <1>2, <1>3 DEF NumberOf
<1>8. HeaderSize + Len(outb) = Total(kinds[n])
  BY <1>3 DEF Total, size
<1> QED BY <1>1, <1>2, <1>6, <1>7, <1>8

\* recv returns units: they are the next ones of the message being read.
LEMMA ReceiveInPlace ==
    ASSUME TypeInv, FrameInv, NEW k \in 1 .. Len(stream), Receive(k)
    PROVE  FrameInv'
<1> DEFINE got == SubSeq(stream, 1, k)
           rest == Rest(k)
<1>0. PICK r \in Nat : r = Len(outb)
  BY Shapes
<1>1. /\ outb' = outb \o got /\ want' = want - k /\ k <= want /\ stream' = rest
      /\ nw \in {"header", "payload"}
      /\ UNCHANGED <<peer, sock, kinds, nw, header, framing, lastHanded>>
  BY DEF Receive, Take, Reading, guiVars, Rest
<1>2. /\ stream \in Seq(Unit) /\ outb \in Seq(Unit) /\ r \in Nat /\ DOMAIN outb = 1 .. r
      /\ k \in Nat /\ k > 0 /\ want \in Nat /\ stream # <<>>
  BY <1>0, Shapes, NoUnits DEF TypeInv, TypeOK
<1>3. got \in Seq(Unit) /\ Len(got) = k /\ \A i \in 1 .. k : got[i] = stream[i]
  BY <1>2, Slices
<1>4. Framed'
  BY <1>1, FramedTake DEF FrameInv, Rest
<1> HIDE DEF got, rest
<1>5. /\ outb' \in Seq(Unit) /\ Len(outb') = r + k
      /\ \A i \in 1 .. r + k : outb'[i] = IF i <= r THEN outb[i] ELSE got[i - r]
  BY <1>0, <1>1, <1>2, <1>3, ConcatProperties
<1>6. DOMAIN outb' = 1 .. r + k /\ outb' # <<>>
  <2>1. DOMAIN outb' = 1 .. r + k
    BY <1>5, LenProperties
  <2>2. r + k # 0
    BY <1>2
  <2> QED BY <1>5, <2>1, <2>2, NoUnits
<1> SUFFICES ASSUME framing = "kept" PROVE InPlace'
    BY <1>1, <1>4 DEF FrameInv
<1>7. InPlace
  BY DEF FrameInv
\* The units that follow j units of message m.
<1>8. ASSUME NEW m \in DOMAIN kinds, NEW j \in Nat, m > lastHanded, j + k <= Total(kinds[m]),
             stream[1] = [msg |-> m, part |-> j + 1]
      PROVE  At(m, j + k)' /\ \A i \in 1 .. k : got[i] = [msg |-> m, part |-> j + i]
  <2>1. /\ \A i \in 1 .. k : stream[i] = [msg |-> m, part |-> j + i]
        /\ rest # <<>> => IF j + k < Total(kinds[m])
                          THEN rest[1] = [msg |-> m, part |-> j + k + 1]
                          ELSE rest[1].part = 1 /\ rest[1].msg > m
        /\ rest = <<>> => j + k = Total(kinds[m])
    BY <1>2, <1>8, TakeUnits DEF FrameInv, rest
  <2>2. j + k \in Nat /\ Total(kinds[m]) \in Nat
    BY <1>2, Shapes
  <2>3. At(m, j + k)'
    BY <1>1, <1>8, <2>1, <2>2 DEF At
  <2> QED BY <1>3, <2>1, <2>3
\* What _recv holds, when it held r units behind the first o of the message.
<1>9. ASSUME NEW m \in DOMAIN kinds, NEW o \in Nat,
             \A i \in DOMAIN outb : outb[i] = [msg |-> m, part |-> o + i],
             \A i \in 1 .. k : got[i] = [msg |-> m, part |-> o + r + i]
      PROVE  \A i \in DOMAIN outb' : outb'[i] = [msg |-> m, part |-> o + i]
  <2> SUFFICES ASSUME NEW i \in 1 .. r + k PROVE outb'[i] = [msg |-> m, part |-> o + i]
      BY <1>6
  <2>1. CASE i <= r
    <3>1. i \in DOMAIN outb
      BY <1>2, <2>1
    <3> QED BY <1>5, <1>9, <2>1, <3>1
  <2>2. CASE ~(i <= r)
    <3> DEFINE d == i - r
    <3>1. d \in 1 .. k /\ o + r + d = o + i
      BY <1>2, <1>9, <2>2
    <3>2. outb'[i] = got[d]
      BY <1>5, <2>2
    <3> HIDE DEF d
    <3> QED BY <1>9, <3>1, <3>2
  <2> QED BY <2>1, <2>2
<1>10. CASE nw = "header"
  <2>1. r + want = HeaderSize /\ r + k <= HeaderSize /\ r < HeaderSize
    BY <1>0, <1>1, <1>2, <1>10 DEF TypeInv, ReadCount
  <2>2. \E m \in DOMAIN kinds :
           /\ m > lastHanded /\ stream[1] = [msg |-> m, part |-> r + 1]
           /\ \A i \in DOMAIN outb : outb[i] = [msg |-> m, part |-> i]
    <3>1. CASE outb = <<>>
      <4> DEFINE m == stream[1].msg
      <4>1. stream[1].part = 1 /\ m > lastHanded
        BY <1>2, <1>7, <1>10, <3>1 DEF InPlace, Boundary
      <4>2. 1 \in DOMAIN stream /\ m \in DOMAIN kinds /\ stream[1] \in Unit
        BY <1>2, Shapes
      <4>3. stream[1] = [msg |-> m, part |-> 1]
        BY <4>1, <4>2 DEF Unit
      <4>4. r = 0 /\ DOMAIN outb = {}
        BY <1>0, <3>1, NoUnits
      <4> QED BY <4>1, <4>2, <4>3, <4>4
    <3>2. CASE outb # <<>>
      <4>1. PICK m \in DOMAIN kinds : InHeader(m)
        BY <1>7, <1>10, <3>2 DEF InPlace
      <4>2. r < Total(kinds[m])
        BY <1>2, <2>1, Shapes
      <4> QED BY <1>0, <1>2, <4>1, <4>2 DEF InHeader, At
    <3> QED BY <3>1, <3>2
  <2>3. PICK m \in DOMAIN kinds :
           /\ m > lastHanded /\ stream[1] = [msg |-> m, part |-> r + 1]
           /\ \A i \in DOMAIN outb : outb[i] = [msg |-> m, part |-> i]
    BY <2>2
  <2>4. r + k <= Total(kinds[m])
    BY <1>2, <2>1, Shapes
  <2>5. At(m, r + k)' /\ \A i \in 1 .. k : got[i] = [msg |-> m, part |-> r + i]
    BY <1>2, <1>8, <2>3, <2>4
  <2>6. \A i \in DOMAIN outb' : outb'[i] = [msg |-> m, part |-> i]
    <3>1. /\ 0 \in Nat /\ \A i \in DOMAIN outb : outb[i] = [msg |-> m, part |-> 0 + i]
          /\ \A i \in 1 .. k : got[i] = [msg |-> m, part |-> 0 + r + i]
      BY <1>2, <2>3, <2>5
    <3>2. \A i \in DOMAIN outb' : outb'[i] = [msg |-> m, part |-> 0 + i]
      BY <1>9, <3>1
    <3> QED BY <1>6, <3>2
  <2>7. InHeader(m)'
    BY <1>5, <2>5, <2>6 DEF InHeader
  <2> QED BY <1>1, <1>6, <1>10, <2>7 DEF InPlace
<1>11. CASE nw = "payload"
  <2>1. PICK m \in DOMAIN kinds : InPayload(m)
    BY <1>7, <1>11 DEF InPlace
  <2>2. /\ At(m, HeaderSize + r) /\ header = [type |-> kinds[m], nbytes |-> Size(kinds[m])]
        /\ \A i \in DOMAIN outb : outb[i] = [msg |-> m, part |-> HeaderSize + i]
    BY <1>0, <2>1 DEF InPayload
  <2>3. r + want = Size(kinds[m])
    BY <1>0, <1>11, <2>2 DEF TypeInv, ReadCount
  <2>4. /\ HeaderSize + r + k <= Total(kinds[m]) /\ HeaderSize + r < Total(kinds[m])
        /\ HeaderSize + r \in Nat
    <3>1. PICK size \in Nat : size = Size(kinds[m]) /\ Total(kinds[m]) = HeaderSize + size
      BY Shapes
    <3>2. r + want = size /\ k <= want
      BY <1>1, <2>3, <3>1
    <3>3. r \in Nat /\ k \in Nat /\ k > 0 /\ want \in Nat /\ HeaderSize \in Nat
      BY <1>2
    <3> QED BY <3>1, <3>2, <3>3
  <2>5. m > lastHanded /\ stream[1] = [msg |-> m, part |-> HeaderSize + r + 1]
    BY <1>2, <2>2, <2>4 DEF At
  <2>6. /\ At(m, HeaderSize + r + k)'
        /\ \A i \in 1 .. k : got[i] = [msg |-> m, part |-> HeaderSize + r + i]
    BY <1>8, <2>4, <2>5
  <2>7. \A i \in DOMAIN outb' : outb'[i] = [msg |-> m, part |-> HeaderSize + i]
    BY <1>9, <2>2, <2>6
  <2>8. HeaderSize + r + k = HeaderSize + Len(outb')
    BY <1>2, <1>5
  <2>9. InPayload(m)'
    BY <1>1, <2>2, <2>6, <2>7, <2>8 DEF InPayload
  <2> QED BY <1>1, <1>11, <2>9 DEF InPlace
<1> QED BY <1>1, <1>10, <1>11

\* NWThread takes a header for the message it belongs to, and hands a message
\* on where the next one begins; a read given up before its first unit leaves
\* the stream where it was.
LEMMA DecodeInPlace ==
    ASSUME TypeInv, InPlace, DecodeHeader
    PROVE  InPlace'
<1>1. /\ nw = "header" /\ want = 0
      /\ UNCHANGED <<guiVars, peerVars, periodic, framing>>
  BY DEF DecodeHeader
<1>2. PICK n \in DOMAIN kinds :
          /\ InHeader(n) /\ NumberOf(outb) = n /\ Len(outb) = HeaderSize
          /\ Decoded = {[type |-> kinds[n], nbytes |-> Size(kinds[n])]}
  BY <1>1, HeaderRead
<1> DEFINE h == [type |-> kinds[n], nbytes |-> Size(kinds[n])]
<1>3. \/ /\ h.nbytes > 0
         /\ nw' = "payload" /\ want' = h.nbytes /\ outb' = <<>> /\ header' = h
         /\ UNCHANGED <<nw_queue, lastHanded>>
      \/ /\ h.nbytes = 0
         /\ HandOn([type |-> h.type, nbytes |-> 0, message |-> <<>>])
         /\ lastHanded' = n
  BY <1>2 DEF DecodeHeader
<1>4. At(n, HeaderSize)
  BY <1>2 DEF InHeader
<1>5. UNCHANGED <<sock, peer, kinds, stream>> /\ (Alive' <=> Alive)
  BY <1>1 DEF guiVars, peerVars, Alive
<1>6. CASE /\ h.nbytes > 0 /\ nw' = "payload" /\ outb' = <<>> /\ header' = h
           /\ lastHanded' = lastHanded
  <2>1. At(n, HeaderSize)'
    BY <1>4, <1>5, <1>6 DEF At
  <2>2. DOMAIN outb' = {} /\ HeaderSize + Len(outb') = HeaderSize
    BY <1>6, NoUnits
  <2>3. header' = [type |-> kinds'[n], nbytes |-> Size(kinds'[n])]
    BY <1>5, <1>6
  <2>4. InPayload(n)'
    BY <2>1, <2>2, <2>3 DEF InPayload
  <2> QED BY <1>5, <1>6, <2>4 DEF InPlace
<1>7. CASE h.nbytes = 0 /\ HandOn([type |-> h.type, nbytes |-> 0, message |-> <<>>])
           /\ lastHanded' = n
  <2>1. HeaderSize = Total(kinds[n])
    BY <1>7 DEF Total
  <2>2. Boundary'
    BY <1>4, <1>5, <1>7, <2>1 DEF At, Boundary
  <2> QED BY <1>7, <2>2 DEF InPlace, HandOn
<1> QED BY <1>3, <1>6, <1>7

\* After a payload the thread is at the end of its message.
LEMMA PayloadInPlace ==
    ASSUME TypeInv, InPlace, PayloadDone
    PROVE  InPlace'
<1>1. PICK n \in DOMAIN kinds : NumberOf(outb) = n /\ At(n, Total(kinds[n]))
  BY PayloadRead DEF PayloadDone
<1>2. /\ nw' = "wait" /\ lastHanded' = n /\ UNCHANGED <<sock, peer, kinds, stream>>
  BY <1>1 DEF PayloadDone, HandOn, guiVars, peerVars
<1>3. Total(kinds[n]) \in Nat
  BY Shapes
<1>4. Boundary'
  BY <1>1, <1>2, <1>3 DEF At, Boundary
<1> QED BY <1>2, <1>4 DEF InPlace

\* A read that fails before its first unit leaves the place as it is.
LEMMA FailInPlace ==
    ASSUME TypeInv, InPlace, ReceiveFails, framing' = "kept"
    PROVE  InPlace'
<1>1. nw = "header" /\ outb = <<>> /\ nw' = "wait" /\ UNCHANGED <<stream, lastHanded>>
  BY DEF ReceiveFails, MidMessage, Reading
<1>2. Boundary'
  BY <1>1 DEF InPlace, Boundary
<1> QED BY <1>1, <1>2 DEF InPlace

\* What is sent goes on where the stream ends.
LEMMA SendInPlace ==
    ASSUME TypeInv, Framed, InPlace, NEW kind \in Kinds, ServerSends(kind)
    PROVE  InPlace'
<1>1. /\ Alive /\ kinds' = Append(kinds, kind)
      /\ UNCHANGED <<sock, peer, nw, want, outb, header, lastHanded>>
  BY DEF ServerSends, Alive, guiVars, nwVars
<1>2. /\ stream # <<>> => stream' # <<>> /\ stream'[1] = stream[1]
      /\ stream = <<>> => /\ stream'[1].part = 1
                          /\ \A n \in DOMAIN kinds : stream'[1].msg > n
                          /\ stream'[1].msg > lastHanded
  BY FramedSend
<1>3. \A n \in DOMAIN kinds : n \in DOMAIN kinds' /\ kinds'[n] = kinds[n]
  <2>1. kinds \in Seq(Kinds)
    BY Shapes
  <2>2. \A n \in 1 .. Len(kinds) : kinds'[n] = kinds[n]
    BY <1>1, <2>1, AppendProperties
  <2>3. kinds' \in Seq(Kinds) /\ Len(kinds') = Len(kinds) + 1
    BY <1>1, <2>1, AppendProperties
  <2>4. DOMAIN kinds' = 1 .. Len(kinds) + 1 /\ DOMAIN kinds = 1 .. Len(kinds) /\ Len(kinds) \in Nat
    BY <2>1, <2>3, LenProperties
  <2> QED BY <2>2, <2>4
<1>4. ASSUME NEW n \in DOMAIN kinds, NEW k \in Nat, At(n, k) PROVE At(n, k)'
  <2>1. /\ n \in DOMAIN kinds' /\ n > lastHanded' /\ k <= Total(kinds'[n])
        /\ Total(kinds'[n]) = Total(kinds[n])
    BY <1>1, <1>3, <1>4 DEF At
  <2>2. CASE stream # <<>>
    BY <1>2, <1>4, <2>1, <2>2 DEF At
  <2>3. CASE stream = <<>>
    <3>1. ~(k < Total(kinds[n]))
      BY <1>1, <1>4, <2>3 DEF At
    <3> QED BY <1>2, <2>1, <2>3, <3>1 DEF At
  <2> QED BY <2>2, <2>3
<1>5. Boundary => Boundary'
  BY <1>1, <1>2 DEF Boundary
<1>6. PICK l \in Nat : l = Len(outb)
  BY Shapes
<1>7. l = Len(outb') /\ HeaderSize + l \in Nat
  BY <1>1, <1>6
<1>8. ASSUME NEW n \in DOMAIN kinds, InHeader(n) PROVE InHeader(n)'
  <2>1. At(n, l)'
    BY <1>4, <1>6, <1>8 DEF InHeader
  <2> QED BY <1>1, <1>7, <1>8, <2>1 DEF InHeader
<1>9. ASSUME NEW n \in DOMAIN kinds, InPayload(n) PROVE InPayload(n)'
  <2>1. At(n, HeaderSize + l)'
    BY <1>4, <1>6, <1>7, <1>9 DEF InPayload
  <2> QED BY <1>1, <1>3, <1>7, <1>9, <2>1 DEF InPayload
<1> QED BY <1>1, <1>3, <1>5, <1>8, <1>9 DEF InPlace

\* A new connection begins with an empty stream.
LEMMA ConnectInPlace ==
    ASSUME TypeInv, ConnectSucceeds, framing' = "kept", framing # "kept" \/ InPlace
    PROVE  InPlace'
<1>1. /\ stream' = <<>> /\ UNCHANGED <<kinds, nw, want, outb, header, lastHanded>>
      /\ ~MidMessage /\ (nw = "payload" => framing = "kept")
  BY DEF ConnectSucceeds, nwVars
<1>2. Boundary'
  BY <1>1 DEF Boundary
<1>3. nw = "header" => outb = <<>>
  BY <1>1 DEF MidMessage
<1>4. CASE nw = "payload"
  <2>1. want = 0 /\ InPlace
    BY <1>1, <1>4 DEF MidMessage, TypeInv, TypeOK
  <2>2. PICK n \in DOMAIN kinds : InPayload(n)
    BY <1>4, <2>1, PayloadRead
  <2>3. HeaderSize + Len(outb) = Total(kinds[n])
    <3>1. header.nbytes = Size(kinds[n])
      BY <2>2 DEF InPayload
    <3>2. Len(outb) = header.nbytes
      BY <1>4, <2>1, Shapes DEF TypeInv, ReadCount
    <3> QED BY <3>1, <3>2 DEF Total
  <2>4. InPayload(n)'
    BY <1>1, <2>2, <2>3 DEF InPayload, At
  <2> QED BY <1>1, <1>4, <2>4 DEF InPlace
<1> QED BY <1>1, <1>2, <1>3, <1>4 DEF InPlace

\* Every step keeps the framing and, unless it gives a read up midway or makes a
\* connection in the middle of one, NWThread's place in it.
LEMMA FrameStep == TypeInv /\ FrameInv /\ [Next]_vars => FrameInv'
<1> SUFFICES ASSUME TypeInv, FrameInv, [Next]_vars PROVE FrameInv'
    OBVIOUS
<1>0. Framed /\ (framing = "kept" => InPlace)
  BY DEF FrameInv
<1>1. ASSUME NEW k \in 1 .. Len(stream), Receive(k) PROVE FrameInv'
  BY <1>1, ReceiveInPlace
<1>2. ASSUME NEW kind \in Kinds, ServerSends(kind) PROVE FrameInv'
  <2>1. Framed'
    BY <1>0, <1>2, FramedSend
  <2>2. framing' = framing
    BY <1>2 DEF ServerSends
  <2> QED BY <1>0, <1>2, <2>1, <2>2, SendInPlace DEF FrameInv
<1>3. CASE ConnectSucceeds
  <2>1. Framed'
    BY <1>0, <1>3, FramedKeeps DEF ConnectSucceeds
  <2> QED BY <1>0, <1>3, <2>1, ConnectInPlace DEF FrameInv
<1>4. CASE DecodeHeader
  <2>1. UNCHANGED <<kinds, stream, framing>>
    BY <1>4 DEF DecodeHeader, peerVars
  <2>2. Framed'
    BY <1>0, <2>1, FramedKeeps
  <2> QED BY <1>0, <1>4, <2>1, <2>2, DecodeInPlace DEF FrameInv
<1>5. CASE PayloadDone
  <2>1. UNCHANGED <<kinds, stream, framing>>
    BY <1>5 DEF PayloadDone, peerVars
  <2>2. Framed'
    BY <1>0, <2>1, FramedKeeps
  <2> QED BY <1>0, <1>5, <2>1, <2>2, PayloadInPlace DEF FrameInv
<1>6. CASE ReceiveFails
  <2>1. UNCHANGED <<kinds, stream>> /\ (framing' = "kept" => framing = "kept")
    BY <1>6 DEF ReceiveFails
  <2>2. Framed'
    BY <1>0, <2>1, FramedKeeps
  <2> QED BY <1>0, <1>6, <2>1, <2>2, FailInPlace DEF FrameInv
<1>7. CASE Wait \/ Check
  <2>1. /\ UNCHANGED <<kinds, stream, framing, lastHanded>> /\ nw \in {"wait", "check"}
        /\ nw' \in {"check", "header", "dead"} /\ (nw' = "header" => outb' = <<>>)
    BY <1>7 DEF Wait, Check, peerVars
  <2>2. Framed'
    BY <1>0, <2>1, FramedKeeps
  <2>3. Boundary => Boundary'
    BY <2>1 DEF Boundary
  <2> QED BY <1>0, <2>1, <2>2, <2>3 DEF FrameInv, InPlace
<1>8. CASE \/ \E next \in {"idle", "connecting"} : Disconnect(next)
           \/ GuiContinues \/ Connect \/ ConnectFails \/ Backend \/ ServerGoes
           \/ UNCHANGED vars
  <2>1. /\ UNCHANGED <<kinds, nw, outb, header, lastHanded, framing>>
        /\ \/ stream' = stream /\ sock' \in {sock, "fresh"} /\ peer' = peer
           \/ stream' \in {stream, <<>>} /\ (sock' = "closed" \/ peer' \in {"closed", "reset"})
    BY <1>8 DEF Disconnect, GuiContinues, ClearConnected, CloseSocket, RemakeSocket, SetConnected,
           SetEvent, Connect, ConnectFails, OthersKeep, peerVars, nwVars, guiVars, Backend, Drain,
           Drained, ProcessMessage, ServerGoes, vars
  <2>2. \/ stream' = stream /\ (Alive' => Alive)
        \/ stream' = <<>> /\ ~Alive'
    BY <2>1 DEF Alive
  <2>3. Framed'
    BY <1>0, <2>1, FramedKeeps
  <2>4. InPlace => InPlace'
    BY <2>1, <2>2, PlaceKeeps
  <2> QED BY <1>0, <2>1, <2>3, <2>4 DEF FrameInv
<1> QED BY <1>1, <1>2, <1>3, <1>4, <1>5, <1>6, <1>7, <1>8 DEF Next, NWThread

\* The ground station begins at the beginning of the stream.
LEMMA FrameInit == Init => FrameInv
<1> SUFFICES ASSUME Init PROVE FrameInv
    OBVIOUS
<1>1. stream = <<>> /\ DOMAIN stream = {} /\ nw = "wait"
  BY DEF Init
<1> QED BY <1>1 DEF FrameInv, Framed, InPlace, Boundary

-----------------------------------------------------------------------------
(* What is handed on.                                                      *)

\* A step that hands a message on, with the framing kept, hands on a
\* message of the server, and a later one than before.
LEMMA HandedMessage ==
    ASSUME TypeInv, FrameInv, [Next]_vars, HandsOn, framing' = "kept"
    PROVE  nw_queue'[Len(nw_queue')] \in Genuine /\ lastHanded' > lastHanded
<1>1. nw_queue \in Seq(Message) /\ Len(nw_queue) \in Nat
  BY LenProperties DEF TypeInv, TypeOK
<1>2. ASSUME NEW m \in Message, nw_queue' = Append(nw_queue, m)
      PROVE  nw_queue'[Len(nw_queue')] = m
  <2>1. Len(nw_queue') = Len(nw_queue) + 1 /\ nw_queue'[Len(nw_queue) + 1] = m
    BY <1>1, <1>2, AppendProperties
  <2> QED BY <2>1
<1>3. \A n \in DOMAIN kinds, s \in Seq(Unit) :
          [type |-> kinds[n], nbytes |-> Size(kinds[n]), message |-> s] \in Message
  BY Shapes DEF Message, HeaderTypes
<1>4. CASE DecodeHeader
  <2>1. nw = "header" /\ want = 0 /\ InPlace
    BY <1>4 DEF DecodeHeader, FrameInv
  <2>2. PICK n \in DOMAIN kinds :
            /\ InHeader(n) /\ NumberOf(outb) = n
            /\ Decoded = {[type |-> kinds[n], nbytes |-> Size(kinds[n])]}
    BY <2>1, HeaderRead
  <2> DEFINE g == [type |-> kinds[n], nbytes |-> Size(kinds[n]), message |-> <<>>]
  <2>3. Size(kinds[n]) = 0 /\ nw_queue' = Append(nw_queue, g) /\ lastHanded' = n
    BY <1>1, <1>4, <2>2 DEF DecodeHeader, HandsOn, HandOn
  <2>4. PayloadOf(n) = <<>>
    <3>1. PayloadOf(n) = [k \in 1 .. HeaderSize + 0 - (HeaderSize + 1) + 1 |->
                            [msg |-> n, part |-> HeaderSize + 1 + k - 1]]
      BY <2>3 DEF PayloadOf, Parts
    <3>2. 1 .. HeaderSize + 0 - (HeaderSize + 1) + 1 = {}
      OBVIOUS
    <3> QED BY <3>1, <3>2
  <2>5. g \in Genuine /\ g \in Message
    BY <1>3, <2>4, NoUnits DEF Genuine
  <2>6. n > lastHanded
    BY <2>2 DEF InHeader, At
  <2> QED BY <1>2, <2>3, <2>5, <2>6
<1>5. CASE PayloadDone
  <2>1. nw = "payload" /\ want = 0 /\ InPlace
    BY <1>5 DEF PayloadDone, FrameInv
  <2>2. PICK n \in DOMAIN kinds : InPayload(n) /\ NumberOf(outb) = n /\ outb = PayloadOf(n)
    BY <2>1, PayloadRead
  <2> DEFINE g == [type |-> kinds[n], nbytes |-> Size(kinds[n]), message |-> PayloadOf(n)]
  <2>3. nw_queue' = Append(nw_queue, g) /\ lastHanded' = n
    BY <1>5, <2>2 DEF PayloadDone, HandOn, InPayload
  <2>4. g \in Genuine /\ g \in Message
    BY <1>3, <2>2, Shapes DEF Genuine
  <2>5. n > lastHanded
    BY <2>2 DEF InPayload, At
  <2> QED BY <1>2, <2>3, <2>4, <2>5
<1>6. ASSUME ~DecodeHeader, ~PayloadDone PROVE FALSE
  <2>1. CASE ReceiveFails
    <3>1. nw = "header" => nw_queue' = nw_queue
      BY <2>1 DEF ReceiveFails
    <3>2. nw # "header" => MidMessage
      BY <2>1 DEF ReceiveFails, Reading, MidMessage
    <3>3. MidMessage => framing' # "kept"
      BY <2>1, Zenon DEF ReceiveFails
    <3>4. nw_queue' # nw_queue
      BY <1>1 DEF HandsOn
    <3> QED BY <3>1, <3>2, <3>3, <3>4
  <2>2. CASE Backend
    <3>1. nw_queue' = nw_queue \/ (nw_queue # <<>> /\ nw_queue' = Tail(nw_queue))
      BY <2>2 DEF Backend, Drain, Drained, ProcessMessage
    <3>2. nw_queue # <<>> => Len(Tail(nw_queue)) = Len(nw_queue) - 1
      BY <1>1, HeadTailProperties
    <3> QED BY <1>1, <3>1, <3>2 DEF HandsOn
  <2>3. ASSUME nw_queue' = nw_queue PROVE FALSE
    BY <1>1, <2>3 DEF HandsOn
  <2> QED BY <1>6, <2>1, <2>2, <2>3
          DEF Next, NWThread, Disconnect, GuiContinues, ClearConnected, CloseSocket, RemakeSocket,
              SetConnected, SetEvent, Connect, ConnectSucceeds, ConnectFails, OthersKeep, Wait,
              Check, Receive, Take, ServerSends, ServerGoes, vars
<1> QED BY <1>4, <1>5, <1>6

\* Whatever a misread header says, and however the reads fall on the stream: on a
\* connection that NWThread entered between two messages and on which it has given
\* up no read midway, it hands on messages of the server, each with its own bytes.
\* Of a connection entered in the middle of a read the theorem says nothing.
THEOREM MessagesAreFramed == Spec => FramesMatch
<1>1. TypeInv /\ FrameInv /\ [Next]_vars =>
          (HandsOn /\ framing' = "kept" => nw_queue'[Len(nw_queue')] \in Genuine)
  BY HandedMessage
<1> QED
  BY <1>1, TypeInit, TypeStep, FrameInit, FrameStep, PTL DEF Spec, FramesMatch

\* ... each once, and in the order of sending, over all such connections.
THEOREM MessagesInOrder == Spec => HandedInOrder
<1>1. TypeInv /\ FrameInv /\ [Next]_vars =>
          (HandsOn /\ framing' = "kept" => lastHanded' > lastHanded)
  BY HandedMessage
<1> QED
  BY <1>1, TypeInit, TypeStep, FrameInit, FrameStep, PTL DEF Spec, HandedInOrder

=============================================================================
