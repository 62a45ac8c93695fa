------------------------ MODULE CircularBufferProofs ------------------------
(***************************************************************************)
(* Proofs about CircularBuffer, for every capacity and length of record    *)
(* and however far the worker thread runs ahead of the network thread.     *)
(***************************************************************************)
EXTENDS CircularBuffer, TLAPS

Values == Nat \cup {Empty}
Announcements == [n : Nat \ {0}, offset : Nat]
Spans == [n : Nat, offset : Nat]

-----------------------------------------------------------------------------
(* Arithmetic of the cells.                                                *)

\* A position is a number of rounds and a cell.
LEMMA Cells ==
    ASSUME NEW a \in Nat
    PROVE  /\ a % Size \in 0 .. Size - 1
           /\ a \div Size \in Int
           /\ a = Size * (a \div Size) + (a % Size)
<1> USE SizeAssumption
<1>1. a % Size \in 0 .. Size - 1
  OBVIOUS
<1>2. a - (a % Size) = Size * (a \div Size)
  BY SMTT(20)
<1>3. a \div Size \in Int
  OBVIOUS
<1> QED BY <1>1, <1>2, <1>3

\* Up to the end of the array, positions and cells go on together.
LEMMA CellsInARow ==
    ASSUME NEW b \in Nat, NEW k \in Nat, (b % Size) + k < Size
    PROVE  (b + k) % Size = (b % Size) + k
<1> USE SizeAssumption
<1> DEFINE q == b \div Size
           r == b % Size
<1>1. b = Size * q + r /\ q \in Int /\ r \in 0 .. Size - 1
  BY Cells
<1> HIDE DEF q, r
<1>2. b + k = Size * q + (r + k) /\ r + k \in Nat
  BY <1>1
<1>3. r + k \in 0 .. Size - 1
  BY <1>1, <1>2 DEF r
<1> DEFINE c == b + k
           t == r + k
<1>4. c \in Nat /\ t \in 0 .. Size - 1 /\ c = Size * q + t
  BY <1>1, <1>2, <1>3
<1>5. c % Size = t
  <2> HIDE DEF c, t
  <2> QED BY <1>1, <1>4
<1> QED BY <1>5 DEF r

\* Positions less than Size apart have different cells.
LEMMA CellsApart ==
    ASSUME NEW a \in Nat, NEW b \in Nat, a < b, b < a + Size
    PROVE  a % Size # b % Size
<1> SUFFICES ASSUME a % Size = b % Size PROVE FALSE
  OBVIOUS
<1> USE SizeAssumption
<1> DEFINE p == a \div Size
           q == b \div Size
           r == b % Size
<1>1. /\ a = Size * p + r /\ b = Size * q + r
      /\ p \in Int /\ q \in Int /\ r \in Int
  BY Cells
<1> HIDE DEF p, q, r
<1>2. Size * (q - p) = Size * q - Size * p
  BY <1>1
<1> DEFINE d == q - p
<1>3. d \in Int /\ 0 < Size * d /\ Size * d < Size
  BY <1>1, <1>2
<1> HIDE DEF d
<1> QED BY <1>3

\* A whole number of laps on, the cell is the same.
LEMMA LapsOn ==
    ASSUME NEW a \in Nat, NEW m \in Nat
    PROVE  (a + Size * m) % Size = a % Size /\ (Size * m) % Size = 0
<1> USE SizeAssumption
<1> DEFINE q == a \div Size
           r == a % Size
<1>1. a = Size * q + r /\ q \in Int /\ r \in 0 .. Size - 1
  BY Cells
<1> HIDE DEF q, r
<1> DEFINE u == q + m
           c == a + Size * m
           z == Size * m
<1>2. Size * (q + m) = Size * q + Size * m
  BY <1>1
<1>3. u \in Int /\ c \in Nat /\ c = Size * u + r /\ z \in Nat /\ z = Size * m + 0
  BY <1>1, <1>2
<1> HIDE DEF c, u, z
<1>4. c % Size = r /\ z % Size = 0
  BY <1>1, <1>3
<1> QED BY <1>4 DEF c, r, z

\* A position more than a lap back shares its cell with one of the last lap, a
\* whole number of laps on.
LEMMA OneLapHas ==
    ASSUME NEW a \in Nat, NEW s \in Nat, a < s - Size
    PROVE  \E p \in 0 .. s - 1 : /\ p >= s - Size /\ p > a
                                 /\ p % Size = a % Size /\ (p - a) % Size = 0
<1> USE SizeAssumption
<1> DEFINE b == (s - 1) - a
           d == b % Size
           m == b \div Size
<1>1. b \in Nat /\ b >= Size
  OBVIOUS
<1> HIDE DEF b
<1>2. d \in 0 .. Size - 1 /\ m \in Int /\ b = Size * m + d
  BY <1>1, Cells
<1> HIDE DEF d, m
<1>3. m \in Nat
  <2> SUFFICES ASSUME m < 0 PROVE FALSE
    BY <1>2
  <2>1. Size * m <= 0
    BY <1>2
  <2> QED BY <1>1, <1>2, <2>1
<1> DEFINE z == Size * m
           p == a + z
<1>4. z \in Nat /\ b = z + d
  BY <1>2, <1>3
<1> HIDE DEF z
<1>5. p \in 0 .. s - 1 /\ p >= s - Size /\ p > a /\ p - a = z
  BY <1>2, <1>4 DEF b
<1>6. p % Size = a % Size /\ z % Size = 0
  BY <1>3, LapsOn DEF z
<1> HIDE DEF p
<1> QED BY <1>5, <1>6

-----------------------------------------------------------------------------
(* The array.  Only the worker thread stores in it.                        *)

\* A stretch is part of what is left, ends with the array, and is not empty.
LEMMA StretchIs ==
    ASSUME NEW bw \in Nat, NEW n \in Nat
    PROVE  /\ StretchAt(bw, n) \in Nat /\ StretchAt(bw, n) <= n
           /\ (bw % Size) + StretchAt(bw, n) <= Size
           /\ n > 0 => StretchAt(bw, n) > 0
BY Cells, SizeAssumption DEF StretchAt, Least

\* TypeOK but for the lengths of the stretches and what was received.
Typed ==
    /\ data \in [0 .. Size - 1 -> Values]
    /\ bytes_written \in Nat /\ lastSend \in Nat
    /\ left \in 0 .. RecordSize /\ toAdd \in Nat /\ copied \in 0 .. toAdd
    /\ nqi \in Spans /\ sends \in Seq(Announcements)
    /\ connected \in BOOLEAN /\ open \in BOOLEAN /\ pc \in {"loop", "accept", "killed"}
    /\ job \in Spans /\ toSend \in Nat /\ sent \in 0 .. toSend

\* The stretch that is being added or written is the next one.
Stretches ==
    /\ toAdd = StretchAt(bytes_written, left)
    /\ toSend \in {0, StretchAt(job.offset, job.n)}

\* The array holds the last Size bytes stored.
Latest == \A p \in 0 .. Stored - 1 : p >= Stored - Size => data[p % Size] = p

ArrayInv == Typed /\ Stretches /\ Latest

\* The array begins with no byte of the stream.
LEMMA ArrayInit == Init => ArrayInv
<1> SUFFICES ASSUME Init PROVE ArrayInv
  OBVIOUS
<1> USE SizeAssumption DEF Init, None
<1>1. Typed
  <2>1. data \in [0 .. Size - 1 -> Values]
    BY DEF Values, Empty
  <2>2. nqi \in Spans /\ job \in Spans /\ sends \in Seq(Announcements)
    BY DEF Spans
  <2>3. connected \in BOOLEAN /\ open \in BOOLEAN /\ pc \in {"loop", "accept", "killed"}
    OBVIOUS
  <2> QED BY <2>1, <2>2, <2>3 DEF Typed
<1>2. Stretches
  BY StretchIs DEF Stretches
<1>3. Latest
  BY DEF Latest, Stored
<1> QED BY <1>1, <1>2, <1>3 DEF ArrayInv

\* A step that stores nothing and stays in its stretches keeps the array's part.
LEMMA ArrayKept ==
    ASSUME ArrayInv, UNCHANGED addVars
    PROVE  Latest' /\ toAdd' = StretchAt(bytes_written', left')
BY DEF ArrayInv, Latest, Stored, Stretches, addVars, StretchAt

\* Each step keeps the array, and the stretch in hand, as they should be.
LEMMA ArrayStep == ArrayInv /\ [Next]_vars => ArrayInv'
<1> SUFFICES ASSUME ArrayInv, [Next]_vars PROVE ArrayInv'
  OBVIOUS
<1>0. /\ Typed /\ Stretches /\ Latest
      /\ left \in Nat /\ RecordSize \in Nat
      /\ job.n \in Nat /\ job.offset \in Nat
      /\ toSend \in Nat /\ sent \in Nat /\ sent <= toSend
  BY SizeAssumption DEF ArrayInv, Typed, Spans
<1> USE DEF ArrayInv
<1>1. CASE AddData
  <2>1. StretchAt(bytes_written, RecordSize) \in Nat
    BY <1>0, StretchIs DEF Typed
  <2>2. copied = 0
    BY <1>0, <1>1, StretchIs DEF AddData, Typed, Stretches
  <2>3. Typed'
    BY <1>0, <1>1, <2>1 DEF AddData, Typed, linkVars, writeVars
  <2>4. Stretches'
    BY <1>0, <1>1 DEF AddData, Stretches, writeVars, StretchAt
  <2>5. Latest'
    BY <1>0, <1>1, <2>2 DEF AddData, Latest, Stored
  <2> QED BY <2>3, <2>4, <2>5
<1>2. CASE CopyByte
  <2> DEFINE cell == (bytes_written % Size) + copied
  <2>1. /\ bytes_written \in Nat /\ copied \in Nat /\ Stored \in Nat
        /\ cell < Size
    <3>1. bytes_written \in Nat /\ copied \in Nat /\ copied < toAdd /\ toAdd \in Nat
      BY <1>0, <1>2 DEF CopyByte, Typed
    <3>2. (bytes_written % Size) + toAdd <= Size
      BY <1>0, <3>1, StretchIs DEF Stretches
    <3>3. bytes_written % Size \in 0 .. Size - 1
      BY <3>1, Cells
    <3> QED BY <3>1, <3>2, <3>3, SizeAssumption DEF Stored
  <2>2. cell \in 0 .. Size - 1 /\ cell = Stored % Size
    BY <2>1, Cells, CellsInARow, SizeAssumption DEF Stored
  <2>3. data' = [data EXCEPT ![cell] = Stored] /\ Stored' = Stored + 1
    BY <1>2, <2>1 DEF CopyByte, Stored
  <2>4. Typed'
    BY <1>0, <1>2, <2>1, <2>2, <2>3 DEF CopyByte, Typed, Values, linkVars, writeVars
  <2>5. Stretches'
    BY <1>0, <1>2 DEF CopyByte, Stretches, writeVars, StretchAt
  <2>6. Latest'
    <3> SUFFICES ASSUME NEW p \in 0 .. Stored, p >= Stored + 1 - Size
                 PROVE  data'[p % Size] = p
      BY <2>1, <2>3, SizeAssumption DEF Latest
    <3>1. p % Size \in 0 .. Size - 1
      BY <2>1, Cells
    <3>2. CASE p = Stored
      BY <1>0, <2>2, <2>3, <3>2 DEF Typed
    <3>3. CASE p < Stored
      <4>1. p % Size # cell
        <5>1. p \in Nat /\ p < Stored /\ Stored < p + Size
          BY <2>1, <3>3, SizeAssumption
        <5> QED BY <2>1, <2>2, <5>1, CellsApart
      <4>2. data[p % Size] = p
        BY <1>0, <2>1, <3>3, SizeAssumption DEF Latest
      <4> QED BY <1>0, <2>2, <2>3, <3>1, <4>1, <4>2 DEF Typed
    <3> QED BY <2>1, <3>2, <3>3
  <2> QED BY <2>4, <2>5, <2>6
<1>3. CASE Publish
  <2>1. /\ toAdd \in Nat /\ toAdd = copied
        /\ bytes_written' \in Nat /\ left' \in 0 .. RecordSize
    <3>1. bytes_written \in Nat /\ toAdd = StretchAt(bytes_written, left)
      BY <1>0 DEF Typed, Stretches
    <3>2. toAdd \in Nat /\ toAdd <= left
      BY <1>0, <3>1, StretchIs
    <3>3. /\ toAdd = copied /\ bytes_written' = bytes_written + toAdd
          /\ left' = left - toAdd
      BY <1>3 DEF Publish
    <3>4. left \in Nat /\ RecordSize \in Nat /\ left <= RecordSize
      BY <1>0 DEF Typed
    <3> QED BY <3>1, <3>2, <3>3, <3>4
  <2>2. StretchAt(bytes_written', left') \in Nat
    BY <2>1, <1>0, StretchIs
  <2>3. Typed'
    BY <1>0, <1>3, <2>1, <2>2 DEF Publish, Typed, linkVars, writeVars
  <2>4. Stretches'
    BY <1>0, <1>3 DEF Publish, Stretches, writeVars, StretchAt
  <2>5. Latest'
    BY <1>0, <1>3, <2>1 DEF Publish, Latest, Stored, Typed
  <2> QED BY <2>3, <2>4, <2>5
<1>4. CASE Announce
  <2>1. nqi' \in Spans
    BY <1>0, <1>4 DEF Announce, Typed, Spans
  <2>2. Typed'
    BY <1>0, <1>4, <2>1 DEF Announce, Typed, addVars, linkVars, writeVars
  <2>3. Stretches' /\ Latest'
    BY <1>0, <1>4, ArrayKept DEF Announce, Stretches, writeVars, StretchAt
  <2> QED BY <2>2, <2>3
<1>5. CASE Enqueue
  <2>1. nqi \in Announcements
    BY <1>0, <1>5 DEF Enqueue, Typed, Spans, Announcements
  <2>2. Typed'
    BY <1>0, <1>5, <2>1 DEF Enqueue, Typed, None, Spans, addVars, linkVars, writeVars
  <2>3. Stretches' /\ Latest'
    BY <1>0, <1>5, ArrayKept DEF Enqueue, Stretches, writeVars, StretchAt
  <2> QED BY <2>2, <2>3
<1>6. CASE TakeSend
  <2>1. Head(sends) \in Spans /\ Tail(sends) \in Seq(Announcements)
    <3>1. sends \in Seq(Announcements) /\ sends # <<>>
      BY <1>0, <1>6 DEF TakeSend, Typed
    <3>2. Head(sends) \in Announcements
      BY <3>1
    <3>3. Head(sends) \in Spans
      BY <3>2 DEF Announcements, Spans
    <3> QED BY <3>1, <3>3
  <2>2. Typed'
    BY <1>0, <1>6, <2>1 DEF TakeSend, Typed, workerVars, addVars, linkVars
  <2>3. toSend = 0
    <3>1. StretchAt(job.offset, 0) = 0
      BY <1>0, StretchIs
    <3> QED BY <1>0, <1>6, <3>1 DEF TakeSend, Stretches
  <2>4. Stretches' /\ Latest'
    BY <1>0, <1>6, <2>3, ArrayKept DEF TakeSend, Stretches, workerVars
  <2> QED BY <2>2, <2>4
<1>7. CASE Lose \/ Listen \/ Accept \/ WriteKills
  <2>1. Typed'
    <3>1. UNCHANGED <<workerVars, sends, writeVars>>
      BY <1>7 DEF Lose, Listen, Accept, WriteKills
    <3>2. connected' \in BOOLEAN /\ open' \in BOOLEAN /\ pc' \in {"loop", "accept", "killed"}
      BY <1>0, <1>7 DEF Lose, Listen, Accept, WriteKills, Typed
    <3> QED BY <1>0, <3>1, <3>2 DEF Typed, workerVars, addVars, writeVars
  <2>2. Stretches' /\ Latest'
    <3>1. UNCHANGED <<addVars, job, toSend>>
      BY <1>7 DEF Lose, Listen, Accept, WriteKills, workerVars, writeVars
    <3> QED BY <1>0, <3>1, ArrayKept DEF Stretches, StretchAt
  <2> QED BY <2>1, <2>2
<1>8. CASE StartWrite
  <2>1. StretchAt(job.offset, job.n) \in Nat /\ sent = 0
    BY <1>0, <1>8, StretchIs DEF StartWrite
  <2>2. Typed'
    BY <1>0, <1>8, <2>1 DEF StartWrite, Typed, workerVars, addVars, linkVars
  <2>3. Stretches' /\ Latest'
    BY <1>0, <1>8, ArrayKept DEF StartWrite, Stretches, workerVars, StretchAt
  <2> QED BY <2>2, <2>3
<1>9. CASE TakeByte
  <2>1. sent' = sent + 1 /\ sent < toSend
    BY <1>9 DEF TakeByte
  <2>2. Typed'
    BY <1>0, <1>9, <2>1 DEF TakeByte, Typed, workerVars, addVars, linkVars
  <2>3. Stretches' /\ Latest'
    BY <1>0, <1>9, ArrayKept DEF TakeByte, Stretches, workerVars, StretchAt
  <2> QED BY <2>2, <2>3
<1>10. CASE WriteReturns
  <2>1. sent <= job.n
    <3>1. StretchAt(job.offset, job.n) <= job.n /\ StretchAt(job.offset, job.n) \in Nat
      BY <1>0, StretchIs
    <3> QED BY <1>0, <3>1 DEF Stretches
  <2>2. job' \in Spans /\ toSend' = 0 /\ sent' = 0
    BY <1>0, <1>10, <2>1 DEF WriteReturns, Spans
  <2>3. Typed'
    BY <1>0, <1>10, <2>2 DEF WriteReturns, Typed, workerVars, addVars, linkVars
  <2>4. Stretches' /\ Latest'
    BY <1>0, <1>10, <2>2, ArrayKept DEF WriteReturns, Stretches, workerVars
  <2> QED BY <2>3, <2>4
<1>11. CASE WriteError
  <2>1. job' \in Spans /\ toSend' = 0 /\ sent' = 0
    BY <1>0, <1>11 DEF WriteError, Spans
  <2>2. Typed'
    BY <1>0, <1>11, <2>1 DEF WriteError, Typed, workerVars, addVars, linkVars
  <2>3. Stretches' /\ Latest'
    BY <1>0, <1>11, <2>1, ArrayKept DEF WriteError, Stretches, workerVars
  <2> QED BY <2>2, <2>3
<1>12. CASE UNCHANGED vars
  BY <1>0, <1>12 DEF vars, addVars, linkVars, writeVars, Typed, Stretches, Latest, Stored, StretchAt
<1> QED BY <1>1, <1>2, <1>3, <1>4, <1>5, <1>6, <1>7, <1>8, <1>9, <1>10, <1>11, <1>12
        DEF Next, Writer, NetThread

-----------------------------------------------------------------------------
(* The announcements do not overlap, and go no further than what was added. *)

End(a) == a.offset + a.n

Ordered ==
    /\ End(job) <= lastSend /\ lastSend <= bytes_written
    /\ \A i \in DOMAIN sends : End(job) <= sends[i].offset /\ End(sends[i]) <= lastSend
    /\ \A i, j \in DOMAIN sends : i < j => End(sends[i]) <= sends[j].offset
    /\ nqi.n > 0 => /\ End(nqi) <= lastSend /\ End(job) <= nqi.offset
                    /\ \A i \in DOMAIN sends : End(sends[i]) <= nqi.offset

\* At first nothing is announced.
LEMMA OrderedInit == Init => Ordered
BY DEF Init, None, Ordered, End

\* Announcements stay in order from the worker's hand to the write.
LEMMA OrderedStep == ArrayInv /\ Ordered /\ [Next]_vars => Ordered'
<1> SUFFICES ASSUME ArrayInv, Ordered, [Next]_vars PROVE Ordered'
  OBVIOUS
<1>0. /\ bytes_written \in Nat /\ lastSend \in Nat /\ left \in Nat /\ toAdd \in Nat
      /\ job.n \in Nat /\ job.offset \in Nat /\ nqi.n \in Nat /\ nqi.offset \in Nat
      /\ sent \in Nat /\ sends \in Seq(Announcements)
      /\ \A i \in DOMAIN sends : sends[i].n \in Nat /\ sends[i].offset \in Nat
  <2>1. \A i \in DOMAIN sends : sends[i] \in Announcements
    BY DEF ArrayInv, Typed
  <2> QED BY <2>1, SizeAssumption DEF ArrayInv, Typed, Announcements, Spans
<1>1. CASE UNCHANGED <<job, lastSend, bytes_written, sends, nqi>>
  BY <1>1 DEF Ordered, End
<1>2. CASE Publish
  BY <1>0, <1>2 DEF Publish, Ordered, End, writeVars
<1>3. CASE Announce
  <2>1. /\ lastSend <= lastSend' /\ lastSend' = bytes_written
        /\ \/ UNCHANGED nqi /\ nqi.n = 0
           \/ nqi'.offset = lastSend /\ nqi'.n = bytes_written - lastSend
        /\ UNCHANGED <<job, bytes_written, sends>>
    BY <1>0, <1>3 DEF Announce, Ordered, addVars, writeVars
  <2> QED BY <1>0, <2>1 DEF Ordered, End
<1>4. CASE Enqueue
  <2>1. /\ sends' = Append(sends, nqi) /\ nqi'.n = 0 /\ nqi.n > 0
        /\ UNCHANGED <<job, lastSend, bytes_written>>
    BY <1>4 DEF Enqueue, None, addVars, writeVars
  <2> DEFINE k == Len(sends)
  <2>2. /\ k \in Nat /\ DOMAIN sends' = 1 .. k + 1 /\ DOMAIN sends = 1 .. k
        /\ sends'[k + 1] = nqi /\ \A i \in 1 .. k : sends'[i] = sends[i]
    BY <1>0, <2>1
  <2> HIDE DEF k
  <2>3. \A i \in DOMAIN sends' : i # k + 1 => i \in DOMAIN sends /\ sends'[i] = sends[i]
    BY <2>2
  <2>4. \A i \in DOMAIN sends' :
           End(job) <= sends'[i].offset /\ End(sends'[i]) <= lastSend
    BY <2>1, <2>2, <2>3 DEF Ordered
  <2>5. ASSUME NEW i \in DOMAIN sends', NEW j \in DOMAIN sends', i < j
        PROVE  End(sends'[i]) <= sends'[j].offset
    <3>1. i # k + 1
      BY <2>2, <2>5
    <3>2. CASE j = k + 1
      BY <2>1, <2>2, <2>3, <3>1, <3>2 DEF Ordered
    <3>3. CASE j # k + 1
      BY <2>3, <2>5, <3>1, <3>3 DEF Ordered
    <3> QED BY <3>2, <3>3
  <2>6. End(job)' = End(job)
    BY <2>1 DEF End
  <2> QED BY <2>1, <2>4, <2>5, <2>6 DEF Ordered, End
<1>5. CASE TakeSend
  <2>1. /\ job' = sends[1] /\ sends' = Tail(sends) /\ sends # <<>>
        /\ UNCHANGED <<lastSend, bytes_written, nqi>>
    BY <1>5 DEF TakeSend, workerVars, addVars
  <2> DEFINE k == Len(sends)
  <2>2. /\ DOMAIN sends' = 1 .. k - 1 /\ DOMAIN sends = 1 .. k /\ k \in Nat \ {0}
        /\ \A i \in DOMAIN sends' : sends'[i] = sends[i + 1]
    BY <1>0, <2>1
  <2> HIDE DEF k
  <2>3. 1 \in DOMAIN sends /\ \A i \in DOMAIN sends' : i + 1 \in DOMAIN sends /\ 1 < i + 1
    BY <2>2
  <2>4. End(job') <= lastSend
    BY <2>1, <2>3 DEF Ordered
  <2>5. \A i \in DOMAIN sends' :
           End(job') <= sends'[i].offset /\ End(sends'[i]) <= lastSend
    BY <2>1, <2>2, <2>3 DEF Ordered
  <2>6. \A i, j \in DOMAIN sends' : i < j => End(sends'[i]) <= sends'[j].offset
    BY <2>2, <2>3 DEF Ordered
  <2>7. nqi.n > 0 => /\ End(job') <= nqi.offset
                     /\ \A i \in DOMAIN sends' : End(sends'[i]) <= nqi.offset
    BY <2>1, <2>2, <2>3 DEF Ordered
  <2> QED BY <2>1, <2>4, <2>5, <2>6, <2>7 DEF Ordered, End
<1>6. CASE WriteReturns \/ WriteError
  <2>1. End(job') = End(job) /\ UNCHANGED <<sends, nqi, lastSend, bytes_written>>
    BY <1>0, <1>6 DEF WriteReturns, WriteError, End, workerVars, addVars
  <2> QED BY <2>1 DEF Ordered, End
<1> QED BY <1>1, <1>2, <1>3, <1>4, <1>5, <1>6
    DEF Next, Writer, NetThread, AddData, CopyByte, Lose, Listen, Accept, StartWrite, TakeByte,
        WriteKills, vars, workerVars, addVars, writeVars

-----------------------------------------------------------------------------
(* What the peers receive.                                                 *)

LastTyped == last \in [at : Nat \cup {-1}, val : Nat \cup {Empty}]

\* write goes on behind the byte it took last.
Behind == last.at < job.offset + sent

LastInv == LastTyped /\ Behind /\ StreamIntact

\* The byte that write takes: one that was added, as it is or as it was stored
\* whole laps later.
LEMMA Taken ==
    ASSUME ArrayInv, Ordered, TakeByte
    PROVE  \E at \in 0 .. Stored - 1, val \in 0 .. Stored - 1 :
              /\ last' = [at |-> at, val |-> val] /\ at = job.offset + sent
              /\ val >= Stored - Size
              /\ at >= Stored - Size => val = at
              /\ at < Stored - Size => val > at /\ (val - at) % Size = 0
<1> USE SizeAssumption
<1> DEFINE at == job.offset + sent
<1>1. /\ job.n \in Nat /\ job.offset \in Nat /\ sent \in Nat /\ sent < toSend
      /\ toSend = StretchAt(job.offset, job.n)
      /\ bytes_written \in Nat /\ copied \in Nat /\ lastSend \in Nat
  BY DEF TakeByte, ArrayInv, Typed, Stretches, Spans
<1>2. /\ toSend \in Nat /\ toSend <= job.n /\ (job.offset % Size) + toSend <= Size
      /\ job.offset % Size \in 0 .. Size - 1
  BY <1>1, StretchIs, Cells
<1>3. at \in Nat /\ at < Stored /\ Stored \in Nat
  BY <1>1, <1>2 DEF Ordered, End, Stored
<1>4. at % Size = (job.offset % Size) + sent
  BY <1>1, <1>2, CellsInARow
<1>5. last' = [at |-> at, val |-> data[at % Size]]
  BY <1>4 DEF TakeByte
<1> HIDE DEF at
<1>6. CASE at >= Stored - Size
  <2>1. data[at % Size] = at
    BY <1>3, <1>6 DEF ArrayInv, Latest
  <2> QED BY <1>3, <1>5, <1>6, <2>1 DEF at
<1>7. CASE at < Stored - Size
  <2>1. PICK p \in 0 .. Stored - 1 : /\ p >= Stored - Size /\ p > at
                                     /\ p % Size = at % Size /\ (p - at) % Size = 0
    BY <1>3, <1>7, OneLapHas
  <2>2. data[at % Size] = p
    BY <2>1 DEF ArrayInv, Latest
  <2>3. at \in 0 .. Stored - 1 /\ ~(at >= Stored - Size)
    BY <1>3, <1>7
  <2> QED BY <1>5, <2>1, <2>2, <2>3 DEF at
<1> QED BY <1>3, <1>6, <1>7

\* What is stored only grows, by one byte at a time.
LEMMA StoredGrows ==
    ASSUME ArrayInv, [Next]_vars
    PROVE  Stored \in Nat /\ Stored' = IF CopyByte THEN Stored + 1 ELSE Stored
<1>0. /\ bytes_written \in Nat /\ copied \in Nat /\ toAdd \in Nat /\ copied <= toAdd
      /\ toAdd = StretchAt(bytes_written, left)
  BY DEF ArrayInv, Typed, Stretches
<1>1. CASE AddData
  <2>1. copied = 0
    BY <1>0, <1>1, StretchIs DEF AddData
  <2>2. ~CopyByte
    BY <1>0, <1>1, <2>1, StretchIs DEF AddData, CopyByte
  <2> QED BY <1>0, <1>1, <2>1, <2>2 DEF AddData, Stored
<1>2. CASE CopyByte
  BY <1>0, <1>2 DEF CopyByte, Stored
<1>3. CASE Publish
  BY <1>0, <1>3 DEF Publish, CopyByte, Stored
<1>4. CASE ~CopyByte /\ UNCHANGED addVars
  BY <1>0, <1>4 DEF Stored, addVars
<1>5. CopyByte => copied' # copied
  BY <1>0 DEF CopyByte
<1> QED BY <1>0, <1>1, <1>2, <1>3, <1>4, <1>5
    DEF Next, Writer, NetThread, Announce, Enqueue, TakeSend, Lose, Listen, Accept, StartWrite,
        TakeByte, WriteReturns, WriteError, WriteKills, vars, workerVars, addVars

\* What a peer receives next is behind nothing it has, and in its cell's turn.
LEMMA LastStep == ArrayInv /\ Ordered /\ LastInv /\ [Next]_vars => LastInv'
<1> SUFFICES ASSUME ArrayInv, Ordered, LastInv, [Next]_vars PROVE LastInv'
  OBVIOUS
<1>0. /\ job.n \in Nat /\ job.offset \in Nat /\ sent \in Nat /\ toSend \in Nat /\ sent <= toSend
      /\ last.at \in Nat \cup {-1} /\ last.val \in Nat \cup {-1}
      /\ Size \in Nat
  BY SizeAssumption DEF ArrayInv, Typed, Spans, LastInv, LastTyped, Empty
<1>1. Stored \in Nat /\ Stored' \in Nat /\ Stored <= Stored'
  BY StoredGrows
<1>2. CASE TakeByte
  <2>1. PICK at \in 0 .. Stored - 1, val \in 0 .. Stored - 1 :
              /\ last' = [at |-> at, val |-> val] /\ at = job.offset + sent
              /\ val >= Stored - Size
              /\ at >= Stored - Size => val = at
              /\ at < Stored - Size => val > at /\ (val - at) % Size = 0
    BY <1>2, Taken
  <2>2. sent' = sent + 1 /\ job' = job
    BY <1>2 DEF TakeByte
  <2>3. LastTyped' /\ Behind'
    BY <1>0, <1>1, <2>1, <2>2 DEF LastTyped, Behind
  <2>4. (val - at) % Size = 0
    <3>1. 0 % Size = 0
      BY SizeAssumption
    <3> QED BY <1>0, <1>1, <2>1, <3>1
  <2>5. StreamIntact'
    BY <1>0, <1>1, <2>1, <2>4 DEF StreamIntact
  <2> QED BY <2>3, <2>5 DEF LastInv
<1>3. CASE last' = last
  <2>1. LastTyped' /\ StreamIntact'
    BY <1>0, <1>1, <1>3 DEF LastInv, LastTyped, StreamIntact
  <2>2. Behind'
    <3>1. CASE UNCHANGED <<job, sent>>
      BY <1>3, <3>1 DEF LastInv, Behind
    <3>2. CASE TakeSend
      <4>1. 1 \in DOMAIN sends /\ job' = sends[1]
        <5>1. sends \in Seq(Announcements) /\ sends # <<>>
          BY <3>2 DEF TakeSend, ArrayInv, Typed
        <5> QED BY <3>2, <5>1 DEF TakeSend
      <4>2. End(job) <= job'.offset /\ job.n = 0 /\ sent' = sent
        BY <3>2, <4>1 DEF TakeSend, Ordered
      <4>3. job'.offset \in Nat
        <5>1. sends[1] \in Announcements
          BY <4>1 DEF ArrayInv, Typed
        <5> QED BY <4>1, <5>1 DEF Announcements
      <4> QED BY <1>0, <1>3, <4>2, <4>3 DEF LastInv, Behind, End
    <3>3. CASE WriteReturns
      BY <1>0, <1>3, <3>3 DEF WriteReturns, LastInv, Behind
    <3>4. CASE WriteError
      BY <1>0, <1>3, <3>4 DEF WriteError, LastInv, Behind
    <3>5. CASE TakeByte
      BY <1>0, <3>5, <1>3 DEF TakeByte, LastInv, Behind
    <3> QED BY <3>1, <3>2, <3>3, <3>4, <3>5
        DEF Next, Writer, NetThread, AddData, CopyByte, Publish, Announce, Enqueue, Lose, Listen,
            Accept, StartWrite, WriteKills, vars, writeVars
  <2> QED BY <2>1, <2>2 DEF LastInv
<1> QED BY <1>2, <1>3
    DEF Next, Writer, NetThread, AddData, CopyByte, Publish, Announce, Enqueue, TakeSend, Lose,
        Listen, Accept, StartWrite, WriteReturns, WriteError, WriteKills, vars, writeVars

\* At first nothing was received.
LEMMA LastInit == Init => LastInv
<1> SUFFICES ASSUME Init PROVE LastInv
  OBVIOUS
<1>1. 0 % Size = 0
  BY SizeAssumption
<1> QED BY <1>1 DEF Init, None, LastInv, LastTyped, Behind, StreamIntact, Stored, Empty

BufferInv == ArrayInv /\ Ordered /\ LastInv

\* The inductive invariant holds in every reachable state.
LEMMA BufferInvariant == Spec => []BufferInv
<1>1. Init => BufferInv
  BY ArrayInit, OrderedInit, LastInit DEF BufferInv
<1>2. BufferInv /\ [Next]_vars => BufferInv'
  BY ArrayStep, OrderedStep, LastStep DEF BufferInv
<1> QED BY <1>1, <1>2, PTL DEF Spec

\* HoldsTheLatest for every capacity and length of record: whatever the reader
\* does, the array holds the last Size bytes, each in its own cell.
THEOREM HoldsLatest == Spec => []HoldsTheLatest
<1>1. BufferInv => HoldsTheLatest
  <2> SUFFICES ASSUME BufferInv PROVE HoldsTheLatest
    OBVIOUS
  <2>0. /\ bytes_written \in Nat /\ left \in Nat /\ left <= RecordSize /\ RecordSize \in Nat
        /\ job.n \in Nat /\ job.offset \in Nat
    BY SizeAssumption DEF BufferInv, ArrayInv, Typed, Spans
  <2>1. toAdd \in 0 .. RecordSize
    BY <2>0, StretchIs DEF BufferInv, ArrayInv, Stretches
  <2>2. toSend \in 0 .. Size
    <3>1. job.offset % Size \in 0 .. Size - 1
      BY <2>0, Cells
    <3>2. /\ StretchAt(job.offset, job.n) \in Nat
          /\ (job.offset % Size) + StretchAt(job.offset, job.n) <= Size
      BY <2>0, StretchIs
    <3>3. StretchAt(job.offset, job.n) \in 0 .. Size
      BY <3>1, <3>2, SizeAssumption
    <3> QED BY <3>3, SizeAssumption DEF BufferInv, ArrayInv, Stretches
  <2>3. TypeOK
    BY <2>1, <2>2
    DEF BufferInv, ArrayInv, Typed, LastInv, LastTyped, TypeOK, Values, Announcements, Spans
  <2> QED BY <2>3 DEF BufferInv, ArrayInv, Latest, HoldsTheLatest
<1> QED BY <1>1, BufferInvariant, PTL

\* StreamIntact for every capacity and length of record, with nothing assumed of
\* the reader's pace: a byte is received as it was announced unless the worker
\* thread is more than a lap ahead.
THEOREM StreamKept == Spec => []StreamIntact
<1>1. BufferInv => StreamIntact
  BY DEF BufferInv, LastInv
<1> QED BY <1>1, BufferInvariant, PTL

\* Every step is a step of ByteStream or leaves the stream alone.
LEMMA StreamStep ==
    ASSUME BufferInv, [Next]_vars
    PROVE  [Stream!Next]_(Stream!svars)
<1> USE DEF Stream!svars
<1>1. Stored \in Nat /\ Stored' = IF CopyByte THEN Stored + 1 ELSE Stored
  BY StoredGrows DEF BufferInv
<1>2. CASE CopyByte
  <2>1. last' = last
    BY <1>2 DEF CopyByte, writeVars
  <2> QED BY <1>1, <1>2, <2>1 DEF Stream!Next, Stream!Produce
<1>3. CASE TakeByte
  <2>1. PICK at \in 0 .. Stored - 1, val \in 0 .. Stored - 1 :
              /\ last' = [at |-> at, val |-> val] /\ at = job.offset + sent
              /\ val >= Stored - Size
              /\ at >= Stored - Size => val = at
              /\ at < Stored - Size => val > at /\ (val - at) % Size = 0
    BY <1>3, Taken DEF BufferInv
  <2>2. Stored' = Stored
    BY <1>3 DEF TakeByte, workerVars, addVars, Stored
  <2>3. at > last.at
    <3>1. last.at \in Nat \cup {-1} /\ last.at < at
      BY <2>1 DEF BufferInv, LastInv, LastTyped, Behind
    <3> QED BY <1>1, <2>1, <3>1
  <2>4. /\ val \in Stream!Kept
        /\ IF at \in Stream!Kept THEN val = at ELSE val > at
    BY <1>1, <2>1, SizeAssumption DEF Stream!Kept
  <2> QED BY <2>1, <2>2, <2>3, <2>4 DEF Stream!Next, Stream!Receive
<1>4. CASE ~CopyByte /\ last' = last
  BY <1>1, <1>4
<1> QED BY <1>2, <1>3, <1>4
    DEF Next, Writer, NetThread, AddData, Publish, Announce, Enqueue, TakeSend, Lose, Listen,
        Accept, StartWrite, WriteReturns, WriteError, WriteKills, vars, writeVars

\* The buffer implements ByteStream, with nothing assumed of the reader's pace:
\* places in order and once, none before it was recorded, a lost byte replaced
\* by a newer one only.
THEOREM BufferIsStream == Spec => ImplementsStream
<1>1. Init => Stream!Init
  BY DEF Init, Stream!Init, Stored
<1>2. BufferInv /\ [Next]_vars => [Stream!Next]_(Stream!svars)
  BY StreamStep
<1> QED BY <1>1, <1>2, BufferInvariant, PTL DEF Spec, ImplementsStream, Stream!Spec
=============================================================================
