-------------------------- MODULE MainWorkerProofs --------------------------
(* Theorems about MainWorker: the cutoff, the schedule of the ignition, and *)
(* the account of the records, for every number of sensors, every delay and *)
(* every budget of command bytes.                                           *)
EXTENDS MainWorker, SequenceTheorems, WellFoundedInduction, TLAPS

USE SensorsAssumption, DelayAssumption, BudgetAssumption, BoundAssumption

\* The two ignition items have slots of their own beside the sensors'.
LEMMA SlotFacts ==
    /\ Ign2Slot \in Slots /\ Ign3Slot \in Slots /\ Ign2Slot # Ign3Slot
    /\ Sensors \subseteq Slots /\ Ign2Slot \notin Sensors /\ Ign3Slot \notin Sensors
    /\ Slots \subseteq Nat /\ Sensors \subseteq Nat
BY DEF Ign2Slot, Ign3Slot, Slots, Sensors

\* A saturating clock stays a natural number and never falls behind a delay it passed.
LEMMA SaturateFacts ==
    ASSUME NEW x \in Nat, NEW limit \in Nat
    PROVE  /\ Saturate(x, limit) \in Nat
           /\ x > limit => Saturate(x, limit) > limit
BY DEF Saturate

\* worker_method enters its loop in a well-typed state.
LEMMA TypeInit == Init => TypeOK
<1> SUFFICES ASSUME Init PROVE TypeOK
    OBVIOUS
<1>1. QueueTypeOK
  BY DEF Init, QueueTypeOK
<1>2. IgnitionTypeOK
  <2>1. enabled = [s \in Slots |-> s \in Sensors]
    BY DEF Init
  <2>2. enabled \in [Slots -> BOOLEAN]
    BY <2>1
  <2> QED BY <2>2 DEF Init, IgnitionTypeOK, Levels, Drivers
<1>3. ClockTypeOK
  BY DEF Init, ClockTypeOK
<1>4. TelemetryTypeOK
  BY DEF Init, TelemetryTypeOK
<1>5. NetTypeOK
  BY DEF Init, NetTypeOK
<1> QED BY <1>1, <1>2, <1>3, <1>4, <1>5 DEF TypeOK

\* A part of the state that a step leaves alone stays well typed.
LEMMA UnchangedParts ==
    /\ QueueTypeOK /\ UNCHANGED <<qw, scan>> => QueueTypeOK'
    /\ IgnitionTypeOK /\ UNCHANGED ignitionVars => IgnitionTypeOK'
    /\ ClockTypeOK /\ UNCHANGED <<age, sinceVars>> => ClockTypeOK'
    /\ TelemetryTypeOK /\ UNCHANGED telemetryVars => TelemetryTypeOK'
    /\ NetTypeOK /\ UNCHANGED netVars => NetTypeOK'
<1>1. QueueTypeOK /\ UNCHANGED <<qw, scan>> => QueueTypeOK'
  BY DEF QueueTypeOK
<1>2. IgnitionTypeOK /\ UNCHANGED ignitionVars => IgnitionTypeOK'
  BY DEF IgnitionTypeOK, ignitionVars
<1>3. ClockTypeOK /\ UNCHANGED <<age, sinceVars>> => ClockTypeOK'
  BY DEF ClockTypeOK, sinceVars
<1>4. TelemetryTypeOK /\ UNCHANGED telemetryVars => TelemetryTypeOK'
  BY DEF TelemetryTypeOK, telemetryVars
<1>5. NetTypeOK /\ UNCHANGED netVars => NetTypeOK'
  BY DEF NetTypeOK, netVars
<1> QED BY <1>1, <1>2, <1>3, <1>4, <1>5

\* Polling an item takes a well-typed item off a well-typed queue.
LEMMA PollFacts ==
    ASSUME QueueTypeOK, NEW a, Poll(a)
    PROVE  /\ scan = {} /\ outbox = <<>>
           /\ Tail(qw) \in Seq(WorkItem)
           /\ Arg \in Nat /\ Head(qw).action = a
           /\ Len(qw) \in Nat \ {0} /\ Head(qw) = qw[1]
           /\ Len(Tail(qw)) = Len(qw) - 1
           /\ \A i \in 1 .. Len(Tail(qw)) : Tail(qw)[i] = qw[i + 1]
<1>1. Head(qw) \in WorkItem
  BY DEF QueueTypeOK, Poll
<1> QED BY <1>1 DEF QueueTypeOK, Poll, Idle, Arg, WorkItem

\* Setting an entry of an age function keeps it one.
LEMMA RestartFacts ==
    ASSUME ClockTypeOK, NEW s \in Slots, Restart(s)
    PROVE  age' \in [Slots -> Nat] /\ age'[s] = 0 /\ \A r \in Slots \ {s} : age'[r] = age[r]
BY DEF ClockTypeOK, Restart

\* A sample keeps the telemetry well typed: what it announces has been written
\* and is not empty.
LEMMA SampleTypes ==
    ASSUME TelemetryTypeOK, SentIsWritten, NEW s \in Sensors, Sample(s)
    PROVE  TelemetryTypeOK' /\ SentIsWritten'
<1>1. /\ written' = [written EXCEPT ![s] = @ + 1]
      /\ qn' = qn /\ taken' = taken
  BY DEF Sample
<1>2. /\ written' \in [Sensors -> Nat] /\ written'[s] = written[s] + 1
      /\ lastSent[s] \in Nat /\ lastSent[s] <= written[s] /\ written[s] \in Nat
      /\ \A r \in Sensors \ {s} : written'[r] = written[r]
  BY <1>1 DEF TelemetryTypeOK, SentIsWritten
<1> DEFINE nbytes == written'[s] - lastSent[s]
<1>3. nbytes \in Nat /\ nbytes > 0
  BY <1>2
<1> HIDE DEF nbytes
<1>4. CASE sendAge[s] > SendTime
  <2> DEFINE item == [sensor |-> s, nbytes |-> nbytes, offset |-> lastSent[s]]
  <2>1. /\ lastSent' = [lastSent EXCEPT ![s] = written'[s]]
        /\ sendAge' = [sendAge EXCEPT ![s] = 0]
        /\ \/ outbox' = outbox /\ lost' = [lost EXCEPT ![s] = @ + nbytes]
           \/ outbox' = <<item>> /\ lost' = lost
    BY <1>4 DEF Sample, nbytes
  <2>2. item \in SendItem
    BY <1>2, <1>3 DEF SendItem
  <2> HIDE DEF item
  <2>3. outbox' \in Seq(SendItem) /\ Len(outbox') <= 1
    <3>1. <<item>> \in Seq(SendItem) /\ Len(<<item>>) = 1
      BY <2>2
    <3>2. outbox \in Seq(SendItem) /\ Len(outbox) <= 1
      BY DEF TelemetryTypeOK
    <3>3. outbox' = outbox \/ outbox' = <<item>>
      BY <2>1
    <3>4. CASE outbox' = outbox
      BY <3>2, <3>4
    <3>5. CASE outbox' = <<item>>
      BY <3>1, <3>5
    <3> QED BY <3>3, <3>4, <3>5
  <2>7. lost' \in [Sensors -> Nat]
    <3>1. [lost EXCEPT ![s] = @ + nbytes] \in [Sensors -> Nat]
      BY <1>3 DEF TelemetryTypeOK
    <3> QED BY <2>1, <3>1 DEF TelemetryTypeOK
  <2>8. sendAge' \in [Sensors -> Nat]
    BY <2>1 DEF TelemetryTypeOK
  <2>9. lastSent' \in [Sensors -> Nat]
    BY <2>1, <1>2 DEF TelemetryTypeOK
  <2>5. SentIsWritten'
    BY <2>1, <1>2 DEF SentIsWritten, TelemetryTypeOK
  <2> QED BY <1>1, <1>2, <2>3, <2>5, <2>7, <2>8, <2>9 DEF TelemetryTypeOK
<1>5. CASE ~(sendAge[s] > SendTime)
  <2>1. UNCHANGED <<lastSent, sendAge, outbox, lost>>
    BY <1>5 DEF Sample
  <2>2. SentIsWritten'
    <3>1. ASSUME NEW r \in Sensors PROVE lastSent[r] <= written'[r]
      <4>1. lastSent[r] \in Nat /\ written[r] \in Nat /\ lastSent[r] <= written[r]
        BY DEF SentIsWritten, TelemetryTypeOK
      <4>2. written'[r] = written[r] \/ written'[r] = written[r] + 1
        BY <1>2
      <4> QED BY <4>1, <4>2
    <3> QED BY <2>1, <3>1 DEF SentIsWritten
  <2> QED BY <1>1, <1>2, <2>1, <2>2 DEF TelemetryTypeOK
<1> QED BY <1>4, <1>5

\* No step of the worker, the network thread or the clock spoils a type.
LEMMA TypeStep == TypeOK /\ SentIsWritten /\ [Next]_vars => TypeOK'
<1> SUFFICES ASSUME QueueTypeOK, IgnitionTypeOK, ClockTypeOK, TelemetryTypeOK, NetTypeOK,
                    SentIsWritten, [Next]_vars
             PROVE  /\ QueueTypeOK' /\ IgnitionTypeOK' /\ ClockTypeOK'
                    /\ TelemetryTypeOK' /\ NetTypeOK'
    BY DEF TypeOK
<1> USE UnchangedParts, SlotFacts
<1>1. CASE Requeue
  <2>1. [action |-> RequeuedAs(Arg), arg |-> Arg] \in WorkItem
    BY <1>1, PollFacts DEF Requeue, RequeuedAs, WorkItem, Actions
  <2>2. QueueTypeOK'
    BY <1>1, <2>1, PollFacts DEF Requeue, QueueTypeOK
  <2> QED BY <1>1, <2>2 DEF Requeue
<1>2. CASE WriteValve
  <2>1. QueueTypeOK'
    BY <1>2, PollFacts DEF WriteValve, QueueTypeOK
  <2>2. IgnitionTypeOK'
    BY <1>2 DEF WriteValve, IgnitionTypeOK, Levels, Drivers
  <2> QED BY <1>2, <2>1, <2>2 DEF WriteValve
<1>3. CASE WriteIgnition
  <2>1. QueueTypeOK'
    BY <1>3, PollFacts DEF WriteIgnition, QueueTypeOK
  <2>2. IgnitionTypeOK'
    BY <1>3 DEF WriteIgnition, IgnitionTypeOK, Levels, Drivers
  <2> QED BY <1>3, <2>1, <2>2 DEF WriteIgnition
<1>4. CASE StartStop
  <2>1. QueueTypeOK'
    BY <1>4, PollFacts DEF StartStop, QueueTypeOK
  <2>2. sending' \in BOOLEAN
    BY <1>4 DEF StartStop
  <2>3. IgnitionTypeOK'
    BY <1>4, <2>2 DEF StartStop, IgnitionTypeOK
  <2> QED BY <1>4, <2>1, <2>3 DEF StartStop
<1>5. CASE Ignite
  <2>1. QueueTypeOK'
    BY <1>5, PollFacts DEF Ignite, QueueTypeOK
  <2>2. IgnitionTypeOK'
    BY <1>5 DEF Ignite, Enable, IgnitionTypeOK, Levels, Drivers
  <2>3. ClockTypeOK'
    BY <1>5, RestartFacts DEF Ignite, ClockTypeOK
  <2> QED BY <1>5, <2>1, <2>2, <2>3 DEF Ignite
<1>6. ASSUME NEW s \in Sensors, Sample(s)
      PROVE  /\ QueueTypeOK' /\ IgnitionTypeOK' /\ ClockTypeOK' /\ TelemetryTypeOK' /\ NetTypeOK'
  <2>1. QueueTypeOK'
    BY <1>6, PollFacts DEF Sample, QueueTypeOK
  <2>2. ClockTypeOK'
    BY <1>6, RestartFacts DEF Sample, ClockTypeOK, sinceVars
  <2>3. TelemetryTypeOK'
    BY <1>6, SampleTypes
  <2> QED BY <1>6, <2>1, <2>2, <2>3 DEF Sample
<1>7. CASE TimedIgn2
  <2>1. QueueTypeOK'
    BY <1>7, PollFacts DEF TimedIgn2, QueueTypeOK
  <2>2. IgnitionTypeOK'
    BY <1>7 DEF TimedIgn2, IgnitionTypeOK, Levels, Drivers
  <2>3. ClockTypeOK'
    BY <1>7 DEF TimedIgn2, ClockTypeOK
  <2> QED BY <1>7, <2>1, <2>2, <2>3 DEF TimedIgn2
<1>8. CASE TimedIgn3
  <2>1. QueueTypeOK'
    BY <1>8, PollFacts DEF TimedIgn3, QueueTypeOK
  <2>2. IgnitionTypeOK'
    BY <1>8 DEF TimedIgn3, IgnitionTypeOK, Levels, Drivers
  <2>3. ClockTypeOK'
    BY <1>8, RestartFacts DEF TimedIgn3, ClockTypeOK, sinceVars
  <2> QED BY <1>8, <2>1, <2>2, <2>3 DEF TimedIgn3
<1>9. CASE Scan
  <2>1. QueueTypeOK'
    BY <1>9, PollFacts DEF Scan, QueueTypeOK
  <2> QED BY <1>9, <2>1 DEF Scan
<1>10. CASE SendEnqueue
  <2>1. Head(outbox) \in SendItem
    BY <1>10 DEF SendEnqueue, TelemetryTypeOK
  <2>2. Append(qn, Head(outbox)) \in Seq(SendItem)
    BY <2>1 DEF TelemetryTypeOK
  <2>3. qn' \in Seq(SendItem) /\ outbox' \in Seq(SendItem) /\ Len(outbox') = 0
    BY <1>10, <2>2 DEF SendEnqueue
  <2>4. TelemetryTypeOK'
    <3>1. UNCHANGED <<written, lastSent, sendAge, taken, lost>>
      BY <1>10 DEF SendEnqueue
    <3>2. /\ written \in [Sensors -> Nat] /\ lastSent \in [Sensors -> Nat]
          /\ sendAge \in [Sensors -> Nat]
          /\ taken \in [Sensors -> Nat] /\ lost \in [Sensors -> Nat]
      BY DEF TelemetryTypeOK
    <3>3. /\ written' \in [Sensors -> Nat] /\ lastSent' \in [Sensors -> Nat]
          /\ sendAge' \in [Sensors -> Nat]
          /\ taken' \in [Sensors -> Nat] /\ lost' \in [Sensors -> Nat]
      BY <3>1, <3>2
    <3>4. Len(outbox') <= 1
      BY <2>3
    <3> QED BY <2>3, <3>3, <3>4 DEF TelemetryTypeOK
  <2> QED BY <1>10, <2>4 DEF SendEnqueue
<1>11. ASSUME NEW s \in Slots, ScanEnqueue(s)
       PROVE  /\ QueueTypeOK' /\ IgnitionTypeOK' /\ ClockTypeOK' /\ TelemetryTypeOK' /\ NetTypeOK'
  <2>1. Timed(s) \in WorkItem
    BY DEF Timed, WorkItem, Actions
  <2>2. QueueTypeOK'
    BY <1>11, <2>1 DEF ScanEnqueue, QueueTypeOK
  <2> QED BY <1>11, <2>2 DEF ScanEnqueue
<1>12. ASSUME NEW c \in Bytes, Command(c)
       PROVE  /\ QueueTypeOK' /\ IgnitionTypeOK' /\ ClockTypeOK' /\ TelemetryTypeOK' /\ NetTypeOK'
  <2>1. Process(c) \in WorkItem
    BY DEF Process, WorkItem, Actions
  <2>2. QueueTypeOK'
    BY <1>12, <2>1 DEF Command, QueueTypeOK
  <2>3. NetTypeOK'
    BY <1>12 DEF Command, NetTypeOK
  <2> QED BY <1>12, <2>2, <2>3 DEF Command
<1>13. CASE NetTake
  <2>1. Head(qn) \in SendItem /\ Tail(qn) \in Seq(SendItem)
    BY <1>13 DEF NetTake, TelemetryTypeOK
  <2>2. Head(qn).sensor \in Sensors /\ Head(qn).nbytes \in Nat
    BY <2>1 DEF SendItem
  <2>3. taken' \in [Sensors -> Nat]
    <3> DEFINE k == Head(qn).sensor
               n == Head(qn).nbytes
    <3>1. k \in Sensors /\ n \in Nat /\ taken' = [taken EXCEPT ![k] = @ + n]
      BY <1>13, <2>2 DEF NetTake
    <3> HIDE DEF k, n
    <3>2. taken \in [Sensors -> Nat]
      BY DEF TelemetryTypeOK
    <3>3. taken[k] + n \in Nat
      BY <3>1, <3>2
    <3> QED BY <3>1, <3>2, <3>3
  <2>4. TelemetryTypeOK'
    BY <1>13, <2>1, <2>3 DEF NetTake, TelemetryTypeOK
  <2> QED BY <1>13, <2>4 DEF NetTake
<1>14. CASE NetConnection
  BY <1>14 DEF NetConnection, NetTypeOK
<1>15. CASE Tick
  <2>1. age' \in [Slots -> Nat] /\ sinceLit' \in Nat /\ sinceOpen' \in Nat
    BY <1>15, SaturateFacts DEF Tick, ClockTypeOK
  <2>2. sendAge' \in [Sensors -> Nat]
    BY <1>15, SaturateFacts DEF Tick, TelemetryTypeOK
  <2> QED BY <1>15, <2>1, <2>2 DEF Tick, ClockTypeOK, TelemetryTypeOK
<1>16. CASE UNCHANGED vars
  BY <1>16 DEF vars, ignitionVars, sinceVars, telemetryVars, netVars
<1> QED
  BY <1>1, <1>2, <1>3, <1>4, <1>5, <1>6, <1>7, <1>8, <1>9, <1>10, <1>11, <1>12, <1>13,
     <1>14, <1>15, <1>16 DEF Next, Worker

\* An announcement never covers more than was recorded: lastSent follows written.
LEMMA SentStep == TypeOK /\ SentIsWritten /\ [Next]_vars => SentIsWritten'
<1> SUFFICES ASSUME TelemetryTypeOK, SentIsWritten, [Next]_vars PROVE SentIsWritten'
    BY DEF TypeOK
<1>1. ASSUME NEW s \in Sensors, Sample(s) PROVE SentIsWritten'
  BY <1>1, SampleTypes
<1>2. CASE UNCHANGED <<written, lastSent>>
  BY <1>2 DEF SentIsWritten
<1> QED
  BY <1>1, <1>2 DEF Next, Worker, Requeue, WriteValve, WriteIgnition, StartStop, Ignite, TimedIgn2,
     TimedIgn3, Scan, SendEnqueue, ScanEnqueue, Command, NetTake, NetConnection, Tick, vars,
     telemetryVars

\* Every reachable state of the worker is well typed, for any constants.
THEOREM TypeCorrect == Spec => []TypeOK
<1>1. Init => SentIsWritten
  BY DEF Init, SentIsWritten
<1> QED BY <1>1, TypeInit, TypeStep, SentStep, PTL DEF Spec

-----------------------------------------------------------------------------
\* Opening the valve arms the cutoff, lighting the igniter arms the opening, and
\* only the item that ends the one or hands over to the other disarms them.
LEMMA CutoffStep ==
    TypeOK /\ SequenceOpenHasCutoff /\ IgniterHasCutoff /\ [Next]_vars
        => SequenceOpenHasCutoff' /\ IgniterHasCutoff'
<1> SUFFICES ASSUME IgnitionTypeOK, SequenceOpenHasCutoff, IgniterHasCutoff, [Next]_vars
             PROVE  SequenceOpenHasCutoff' /\ IgniterHasCutoff'
    BY DEF TypeOK
<1> USE SlotFacts DEF SequenceOpenHasCutoff, IgniterHasCutoff
<1>1. CASE WriteValve
  BY <1>1 DEF WriteValve
<1>2. CASE WriteIgnition
  BY <1>2 DEF WriteIgnition
<1>3. CASE Ignite
  BY <1>3 DEF Ignite, Enable, IgnitionTypeOK
<1>4. CASE TimedIgn2
  BY <1>4 DEF TimedIgn2, IgnitionTypeOK
<1>5. CASE TimedIgn3
  BY <1>5 DEF TimedIgn3, IgnitionTypeOK
<1>6. CASE UNCHANGED <<enabled, valve, ign, valveBy, ignBy>>
  BY <1>6
<1> QED
  BY <1>1, <1>2, <1>3, <1>4, <1>5, <1>6 DEF Next, Worker, Requeue, StartStop, Sample, Scan,
     SendEnqueue, ScanEnqueue, Command, NetTake, NetConnection, Tick, vars, ignitionVars

\* Whatever bytes arrive, the worker never leaves the valve open that the
\* sequence opened, nor the igniter lit that the sequence lit, with no armed
\* item to end it.
THEOREM CutoffArmed == Spec => [](SequenceOpenHasCutoff /\ IgniterHasCutoff)
<1>1. Init => SequenceOpenHasCutoff /\ IgniterHasCutoff
  BY DEF Init, SequenceOpenHasCutoff, IgniterHasCutoff
<1> QED BY <1>1, CutoffStep, TypeCorrect, PTL DEF Spec

\* In particular an igniter that the sequence lit is never left without an armed
\* item that leads to the cutoff.
THEOREM LitHasCutoff == Spec => []IgniterHasCutoff
BY CutoffArmed, PTL

-----------------------------------------------------------------------------
(* The schedule, when only bytes of the protocol arrive.                   *)

\* The parts of ScheduleInv that speak of the queue and the scan alone.
QueueInv == OnlyKnownItems /\ TimedAtMostOnce /\ FiringBehindTimed

\* Handling the head of the queue keeps them; what is pending afterwards was
\* pending before, and no longer includes a timed item that was handled.
LEMMA TailKeeps ==
    ASSUME QueueTypeOK, QueueInv, NEW a, Poll(a), qw' = Tail(qw), scan' = {}
    PROVE  /\ QueueInv'
           /\ \A s \in Slots : Pending(s)' => Pending(s)
           /\ \A s \in Slots : a = "wq_timed" /\ Arg = s => ~Pending(s)'
           /\ a = "ign1" => \A s \in Slots : ~Pending(s)'
<1>1. /\ scan = {} /\ Len(qw) \in Nat \ {0} /\ DOMAIN qw = 1 .. Len(qw)
      /\ DOMAIN qw' = 1 .. (Len(qw) - 1)
      /\ \A i \in DOMAIN qw' : qw'[i] = qw[i + 1] /\ i + 1 \in DOMAIN qw /\ i \in Nat
      /\ 1 \in DOMAIN qw /\ qw[1].action = a /\ qw[1].arg = Arg
  BY PollFacts DEF QueueTypeOK, Arg
<1>2. OnlyKnownItems'
  BY <1>1 DEF QueueInv, OnlyKnownItems
<1>3. TimedAtMostOnce'
  BY <1>1 DEF QueueInv, TimedAtMostOnce, IsTimed
<1>4. FiringBehindTimed'
  BY <1>1 DEF QueueInv, FiringBehindTimed, IsTimed
<1>5. \A s \in Slots : Pending(s)' => Pending(s)
  BY <1>1 DEF Pending, IsTimed
<1>6. \A s \in Slots : a = "wq_timed" /\ Arg = s => ~Pending(s)'
  BY <1>1 DEF QueueInv, TimedAtMostOnce, Pending, IsTimed
<1>7. a = "ign1" => \A s \in Slots : ~Pending(s)'
  BY <1>1 DEF QueueInv, FiringBehindTimed, Pending, IsTimed
<1> QED BY <1>2, <1>3, <1>4, <1>5, <1>6, <1>7 DEF QueueInv

\* Queueing an item that is neither timed nor unknown keeps them; a firing may
\* be queued when no scan is under way.
LEMMA AppendKeeps ==
    ASSUME QueueTypeOK, QueueInv, NEW x \in WorkItem, qw' = Append(qw, x), scan' = scan,
           x.action \notin {"wq_none", "wq_timed"},
           x.action = "wq_process" => x.arg \in KnownBytes,
           x.action = "ign1" => scan = {}
    PROVE  QueueInv' /\ \A s \in Slots : Pending(s)' => Pending(s)
<1>1. /\ Len(qw) \in Nat /\ DOMAIN qw = 1 .. Len(qw)
      /\ DOMAIN qw' = 1 .. (Len(qw) + 1)
      /\ \A i \in DOMAIN qw : qw'[i] = qw[i]
      /\ qw'[Len(qw) + 1] = x
      /\ \A i \in DOMAIN qw' : i \in DOMAIN qw \/ i = Len(qw) + 1
  BY DEF QueueTypeOK
<1>2. OnlyKnownItems'
  BY <1>1 DEF QueueInv, OnlyKnownItems
<1>3. TimedAtMostOnce'
  BY <1>1 DEF QueueInv, TimedAtMostOnce, IsTimed
<1>4. FiringBehindTimed'
  BY <1>1 DEF QueueInv, FiringBehindTimed, IsTimed
<1>5. \A s \in Slots : Pending(s)' => Pending(s)
  BY <1>1 DEF Pending, IsTimed
<1> QED BY <1>2, <1>3, <1>4, <1>5 DEF QueueInv

\* So does moving a due slot from the scan to the queue, which changes nothing
\* in what is pending.
LEMMA ScanEnqueueKeeps ==
    ASSUME QueueTypeOK, QueueInv, NEW r \in Slots, ScanEnqueue(r)
    PROVE  QueueInv' /\ \A s \in Slots : Pending(s)' => Pending(s)
<1>1. /\ Len(qw) \in Nat /\ DOMAIN qw = 1 .. Len(qw)
      /\ DOMAIN qw' = 1 .. (Len(qw) + 1)
      /\ \A i \in DOMAIN qw : qw'[i] = qw[i]
      /\ qw'[Len(qw) + 1].action = "wq_timed" /\ qw'[Len(qw) + 1].arg = r
      /\ \A i \in DOMAIN qw' : i \in DOMAIN qw \/ i = Len(qw) + 1
      /\ r \in scan /\ scan' = scan \ {r}
  BY DEF QueueTypeOK, ScanEnqueue, Timed
<1>2. OnlyKnownItems'
  BY <1>1 DEF QueueInv, OnlyKnownItems
<1>3. TimedAtMostOnce'
  BY <1>1 DEF QueueInv, TimedAtMostOnce, IsTimed
<1>4. FiringBehindTimed'
  BY <1>1 DEF QueueInv, FiringBehindTimed, IsTimed
<1>5. \A s \in Slots : Pending(s)' => Pending(s)
  BY <1>1 DEF Pending, IsTimed
<1> QED BY <1>2, <1>3, <1>4, <1>5 DEF QueueInv

\* So does putting a command back as the item that carries it out.
LEMMA RequeueKeeps ==
    ASSUME QueueTypeOK, QueueInv, Requeue
    PROVE  QueueInv' /\ \A s \in Slots : Pending(s)' => Pending(s)
<1>0. PICK n : n = Len(qw)
  OBVIOUS
<1>1. /\ scan = {} /\ scan' = {} /\ n \in Nat \ {0} /\ DOMAIN qw = 1 .. n
      /\ Tail(qw) \in Seq(WorkItem) /\ Len(Tail(qw)) = n - 1
      /\ \A i \in 1 .. (n - 1) : Tail(qw)[i] = qw[i + 1]
      /\ qw[1].action = "wq_process" /\ qw[1].arg = Arg
  BY <1>0, PollFacts DEF QueueTypeOK, Requeue, Arg
<1>2. Arg \in KnownBytes \ DirectBytes
  BY <1>1 DEF QueueInv, OnlyKnownItems, Requeue
<1>3. RequeuedAs(Arg) \in {"wq_start", "wq_stop", "ign1"}
  BY <1>2 DEF RequeuedAs, KnownBytes
<1>4. /\ DOMAIN qw' = 1 .. n
      /\ \A i \in DOMAIN qw' :
            /\ i \in Nat
            /\ \/ i + 1 \in DOMAIN qw /\ qw'[i] = qw[i + 1]
               \/ i = n /\ qw'[i].action \in {"wq_start", "wq_stop", "ign1"}
  <2> DEFINE x == [action |-> RequeuedAs(Arg), arg |-> Arg]
  <2>1. x.action \in {"wq_start", "wq_stop", "ign1"}
    BY <1>3
  <2> HIDE DEF x
  <2>2. qw' = Append(Tail(qw), x)
    BY DEF Requeue, x
  <2>3. DOMAIN qw' = 1 .. n /\ qw'[n] = x
    BY <1>1, <2>2
  <2>4. \A i \in 1 .. (n - 1) : qw'[i] = qw[i + 1]
    BY <1>1, <2>2
  <2> QED BY <1>1, <2>1, <2>3, <2>4
<1>5. OnlyKnownItems'
  BY <1>1, <1>4 DEF QueueInv, OnlyKnownItems
<1>6. TimedAtMostOnce'
  BY <1>1, <1>4 DEF QueueInv, TimedAtMostOnce, IsTimed
<1>7. FiringBehindTimed'
  <2>1. ASSUME NEW i \in DOMAIN qw', NEW j \in DOMAIN qw', i < j, qw'[i].action = "ign1"
        PROVE  qw'[j].action # "wq_timed"
    <3>1. CASE j = n /\ qw'[j].action \in {"wq_start", "wq_stop", "ign1"}
      BY <3>1
    <3>2. CASE j + 1 \in DOMAIN qw /\ qw'[j] = qw[j + 1]
      <4>1. i # n /\ i \in Nat /\ j \in Nat
        BY <1>1, <1>4, <2>1, <3>2
      <4>2. i + 1 \in DOMAIN qw /\ qw'[i] = qw[i + 1] /\ i + 1 < j + 1
        BY <1>4, <2>1, <4>1
      <4> QED BY <2>1, <3>2, <4>2 DEF QueueInv, FiringBehindTimed, IsTimed
    <3> QED BY <1>4, <3>1, <3>2
  <2> QED BY <1>1, <2>1 DEF FiringBehindTimed, IsTimed
<1>8. \A s \in Slots : Pending(s)' => Pending(s)
  BY <1>1, <1>4 DEF Pending, IsTimed
<1> QED BY <1>5, <1>6, <1>7, <1>8 DEF QueueInv

\* What is armed stays so when nothing more is pending and the ignition part
\* of the state is left alone.
LEMMA ArmedKeeps ==
    ASSUME PendingIsArmed, ArmedSinceLit,
           \A s \in Slots : Pending(s)' => Pending(s),
           UNCHANGED <<enabled, sinceLit>>, age'[Ign2Slot] = age[Ign2Slot]
    PROVE  PendingIsArmed' /\ ArmedSinceLit'
BY SlotFacts DEF PendingIsArmed, ArmedSinceLit

\* The schedule invariant is inductive while only bytes of the protocol arrive.
LEMMA ScheduleStep ==
    ASSUME Bytes \subseteq KnownBytes
    PROVE  TypeOK /\ ScheduleInv /\ [Next]_vars => ScheduleInv'
<1> SUFFICES ASSUME QueueTypeOK, IgnitionTypeOK, ClockTypeOK,
                    QueueInv, PendingIsArmed, ArmedSinceLit, [Next]_vars
             PROVE  QueueInv' /\ PendingIsArmed' /\ ArmedSinceLit'
    BY DEF TypeOK, ScheduleInv, QueueInv
<1> USE SlotFacts
<1>1. CASE Requeue
  BY <1>1, RequeueKeeps, ArmedKeeps DEF Requeue, ignitionVars, sinceVars
<1>2. CASE WriteValve
  <2>1. QueueInv' /\ \A s \in Slots : Pending(s)' => Pending(s)
    BY <1>2, TailKeeps, PollFacts DEF WriteValve
  <2> QED BY <1>2, <2>1, ArmedKeeps DEF WriteValve, sinceVars
<1>3. CASE WriteIgnition
  <2>1. QueueInv' /\ \A s \in Slots : Pending(s)' => Pending(s)
    BY <1>3, TailKeeps, PollFacts DEF WriteIgnition
  <2> QED BY <1>3, <2>1, ArmedKeeps DEF WriteIgnition, sinceVars
<1>4. CASE StartStop
  <2>1. QueueInv' /\ \A s \in Slots : Pending(s)' => Pending(s)
    BY <1>4, TailKeeps, PollFacts DEF StartStop
  <2> QED BY <1>4, <2>1, ArmedKeeps DEF StartStop, sinceVars
<1>5. CASE Ignite
  <2>1. QueueInv' /\ \A s \in Slots : ~Pending(s)'
    BY <1>5, TailKeeps, PollFacts DEF Ignite
  <2>2. sinceLit' = 0 /\ age'[Ign2Slot] = 0
    BY <1>5, RestartFacts DEF Ignite
  <2> QED BY <2>1, <2>2 DEF PendingIsArmed, ArmedSinceLit
<1>6. ASSUME NEW s \in Sensors, Sample(s)
      PROVE  QueueInv' /\ PendingIsArmed' /\ ArmedSinceLit'
  <2>1. QueueInv' /\ \A r \in Slots : Pending(r)' => Pending(r)
    BY <1>6, TailKeeps, PollFacts DEF Sample
  <2>2. age'[Ign2Slot] = age[Ign2Slot]
    BY <1>6, RestartFacts DEF Sample
  <2> QED BY <1>6, <2>1, <2>2, ArmedKeeps DEF Sample, ignitionVars, sinceVars
<1>7. CASE TimedIgn2
  <2>1. /\ QueueInv' /\ \A s \in Slots : Pending(s)' => Pending(s)
        /\ ~Pending(Ign2Slot)'
    BY <1>7, TailKeeps, PollFacts DEF TimedIgn2
  <2>2. ~enabled'[Ign2Slot] /\ enabled'[Ign3Slot]
    BY <1>7 DEF TimedIgn2, IgnitionTypeOK
  <2> QED BY <2>1, <2>2 DEF PendingIsArmed, ArmedSinceLit
<1>8. CASE TimedIgn3
  <2>1. /\ QueueInv' /\ \A s \in Slots : Pending(s)' => Pending(s)
        /\ ~Pending(Ign3Slot)'
    BY <1>8, TailKeeps, PollFacts DEF TimedIgn3
  <2>2. /\ enabled'[Ign2Slot] = enabled[Ign2Slot] /\ sinceLit' = sinceLit
        /\ age'[Ign2Slot] = age[Ign2Slot]
    BY <1>8, RestartFacts DEF TimedIgn3, IgnitionTypeOK, sinceVars
  <2> QED BY <2>1, <2>2 DEF PendingIsArmed, ArmedSinceLit
<1>9. CASE Scan
  <2>1. qw = <<>> /\ qw' = <<>>
    <3>1. ~Poll("wq_none")
      BY PollFacts DEF QueueInv, OnlyKnownItems, QueueTypeOK
    <3> QED BY <1>9, <3>1 DEF Scan
  <2>2. QueueInv'
    BY <2>1 DEF QueueInv, OnlyKnownItems, TimedAtMostOnce, FiringBehindTimed
  <2>3. UNCHANGED <<enabled, age, sinceLit>>
    BY <1>9 DEF Scan, ignitionVars, sinceVars
  <2>4. \A s \in Slots : Pending(s)' => enabled[s] /\ age[s] > Delay[s]
    BY <1>9, <2>1 DEF Scan, Pending, Due
  <2> QED BY <2>2, <2>3, <2>4 DEF PendingIsArmed, ArmedSinceLit
<1>10. CASE SendEnqueue
  <2>1. QueueInv' /\ \A s \in Slots : Pending(s)' => Pending(s)
    BY <1>10 DEF SendEnqueue, QueueInv, OnlyKnownItems, TimedAtMostOnce, FiringBehindTimed,
       Pending, IsTimed
  <2> QED BY <1>10, <2>1, ArmedKeeps DEF SendEnqueue, ignitionVars, sinceVars
<1>11. ASSUME NEW s \in Slots, ScanEnqueue(s)
       PROVE  QueueInv' /\ PendingIsArmed' /\ ArmedSinceLit'
  BY <1>11, ScanEnqueueKeeps, ArmedKeeps DEF ScanEnqueue, ignitionVars, sinceVars
<1>12. ASSUME NEW c \in Bytes, Command(c)
       PROVE  QueueInv' /\ PendingIsArmed' /\ ArmedSinceLit'
  <2>1. /\ Process(c) \in WorkItem /\ Process(c).action = "wq_process"
        /\ Process(c).arg \in KnownBytes
    BY DEF Process, WorkItem, Actions
  <2>2. QueueInv' /\ \A s \in Slots : Pending(s)' => Pending(s)
    BY <1>12, <2>1, AppendKeeps DEF Command
  <2> QED BY <1>12, <2>2, ArmedKeeps DEF Command, ignitionVars, sinceVars
<1>13. CASE NetTake \/ NetConnection \/ UNCHANGED vars
  <2>1. UNCHANGED <<qw, scan, enabled, age, sinceLit>>
    BY <1>13 DEF NetTake, NetConnection, vars, ignitionVars, sinceVars
  <2>2. QueueInv' /\ \A s \in Slots : Pending(s)' => Pending(s)
    BY <2>1 DEF QueueInv, OnlyKnownItems, TimedAtMostOnce, FiringBehindTimed, Pending, IsTimed
  <2> QED BY <2>1, <2>2, ArmedKeeps
<1>14. CASE Tick
  <2>1. /\ UNCHANGED <<qw, scan, enabled>>
        /\ age'[Ign2Slot] = Saturate(age[Ign2Slot], Delay[Ign2Slot])
        /\ sinceLit' = Saturate(sinceLit, Delay[Ign2Slot])
    BY <1>14 DEF Tick, ignitionVars
  <2>2. QueueInv' /\ \A s \in Slots : Pending(s)' => Pending(s)
    BY <2>1 DEF QueueInv, OnlyKnownItems, TimedAtMostOnce, FiringBehindTimed, Pending, IsTimed
  <2>3. sinceLit > Delay[Ign2Slot] => sinceLit' > Delay[Ign2Slot]
    BY <2>1 DEF Saturate
  <2> QED BY <2>1, <2>2, <2>3 DEF PendingIsArmed, ArmedSinceLit
<1> QED
  BY <1>1, <1>2, <1>3, <1>4, <1>5, <1>6, <1>7, <1>8, <1>9, <1>10, <1>11, <1>12, <1>13,
     <1>14 DEF Next, Worker

\* While only bytes of the protocol arrive, what is queued stays in the order
\* the schedule needs.
THEOREM ScheduleKept ==
    ASSUME Bytes \subseteq KnownBytes
    PROVE  Spec => []ScheduleInv
<1>1. Init => ScheduleInv
  BY SlotFacts DEF Init, ScheduleInv, OnlyKnownItems, TimedAtMostOnce, FiringBehindTimed,
     PendingIsArmed, ArmedSinceLit, Pending, IsTimed
<1> QED BY <1>1, ScheduleStep, TypeCorrect, PTL DEF Spec

\* A timed item that is handled was pending.
LEMMA HandledItem ==
    ASSUME QueueTypeOK, NEW s, Poll("wq_timed"), Arg = s
    PROVE  Pending(s)
BY PollFacts DEF QueueTypeOK, Pending, IsTimed, Arg

\* The handlers of the two ignition items find their item pending.
LEMMA HandledIsPending ==
    ASSUME TypeOK
    PROVE  (TimedIgn2 => Pending(Ign2Slot)) /\ (TimedIgn3 => Pending(Ign3Slot))
BY HandledItem DEF TypeOK, TimedIgn2, TimedIgn3

\* While only bytes of the protocol arrive, the sequence opens the valve only
\* after the igniter has been lit for longer than the delay of ign2.
THEOREM OpensOnSchedule ==
    ASSUME Bytes \subseteq KnownBytes
    PROVE  Spec => ValveOpensOnSchedule
<1>1. TypeOK /\ ScheduleInv => [TimedIgn2 => sinceLit > Delay[Ign2Slot]]_vars
  BY HandledIsPending DEF ScheduleInv, PendingIsArmed
<1> QED BY <1>1, ScheduleKept, TypeCorrect, PTL DEF ValveOpensOnSchedule

\* While only bytes of the protocol arrive, every step of the worker is a step
\* of the ignition sequence or leaves it alone.
THEOREM FollowsSequence ==
    ASSUME Bytes \subseteq KnownBytes
    PROVE  Spec => StepsOfSequence
<1>1. Init => Sequence!Init
  <2> SUFFICES ASSUME Init PROVE Sequence!Init
      OBVIOUS
  <2>1. enabled = [s \in Slots |-> s \in Sensors]
    BY DEF Init
  <2>2. enabled[Ign2Slot] = (Ign2Slot \in Sensors) /\ enabled[Ign3Slot] = (Ign3Slot \in Sensors)
    BY <2>1, SlotFacts
  <2>3. (Ign2Slot \in Sensors) = FALSE /\ (Ign3Slot \in Sensors) = FALSE
    BY SlotFacts
  <2>4. enabled[Ign2Slot] = FALSE /\ enabled[Ign3Slot] = FALSE
    BY <2>2, <2>3, Zenon
  <2>5. valve = "LOW" /\ ign = "LOW"
    BY DEF Init
  <2> QED BY <2>4, <2>5, Zenon DEF Sequence!Init
<1>2. TypeOK /\ ScheduleInv /\ [Next]_vars => [Sequence!Next]_(Sequence!svars)
  <2> SUFFICES ASSUME TypeOK, ScheduleInv, [Next]_vars
               PROVE  [Sequence!Next]_(Sequence!svars)
      OBVIOUS
  <2> USE SlotFacts
  <2>1. CASE WriteValve
    BY <2>1 DEF WriteValve, Sequence!Next, Sequence!DriveValve, Sequence!Levels
  <2>2. CASE WriteIgnition
    BY <2>2 DEF WriteIgnition, Sequence!Next, Sequence!DriveIgniter, Sequence!Levels
  <2>3. CASE Ignite
    BY <2>3 DEF Ignite, Enable, Sequence!Next, Sequence!Light, TypeOK, IgnitionTypeOK
  <2>4. CASE TimedIgn2
    <3>1. enabled[Ign2Slot]
      BY <2>4, HandledIsPending DEF ScheduleInv, PendingIsArmed
    <3> QED BY <2>4, <3>1 DEF TimedIgn2, Sequence!Next, Sequence!Open, TypeOK, IgnitionTypeOK
  <2>5. CASE TimedIgn3
    <3>1. enabled[Ign3Slot]
      BY <2>5, HandledIsPending DEF ScheduleInv, PendingIsArmed
    <3> QED BY <2>5, <3>1 DEF TimedIgn3, Sequence!Next, Sequence!Cutoff, TypeOK, IgnitionTypeOK
  <2>6. CASE UNCHANGED <<enabled, valve, ign>>
    BY <2>6 DEF Sequence!svars
  <2> QED
    BY <2>1, <2>2, <2>3, <2>4, <2>5, <2>6 DEF Next, Worker, Requeue, StartStop, Sample, Scan,
       SendEnqueue, ScanEnqueue, Command, NetTake, NetConnection, Tick, vars, ignitionVars
<1> QED BY <1>1, <1>2, ScheduleKept, TypeCorrect, PTL DEF Spec, StepsOfSequence, Sequence!Safety

-----------------------------------------------------------------------------
(* The length of a burn, when only bytes of the protocol arrive.           *)

\* A queued command to fire, before and after it is put back.
Fires(x) == x.action = "ign1" \/ (x.action = "wq_process" /\ x.arg = ign_normal)

NoneFires  == \A i \in DOMAIN qw : ~Fires(qw[i])
OneFires   == \A i, j \in DOMAIN qw : Fires(qw[i]) /\ Fires(qw[j]) => i = j

\* While there has been one firing at most, it is in one place: a queued
\* command, the armed opening of the valve, or the armed cutoff.
OneFiring ==
    /\ OneFires
    /\ Firings = 0 => NoneFires /\ ~enabled[Ign2Slot] /\ ~enabled[Ign3Slot]
    /\ enabled[Ign2Slot] \/ enabled[Ign3Slot] => NoneFires
    /\ ~(enabled[Ign2Slot] /\ enabled[Ign3Slot])

\* The cutoff's clock started when the valve was opened, and runs out before
\* the cutoff is queued.
CutoffClock ==
    /\ enabled[Ign3Slot] => age[Ign3Slot] = sinceOpen
    /\ Pending(Ign3Slot) => sinceOpen > Delay[Ign3Slot]

BurnInv == Firings \in Nat /\ (Firings <= 1 => OneFiring /\ CutoffClock)

\* What a queue holds that is left alone, handled, put back or appended to.
LEMMA FireMoves ==
    ASSUME QueueTypeOK
    PROVE  /\ qw' = qw \/ (qw # <<>> /\ qw' = Tail(qw)) =>
                (OneFires => OneFires') /\ (NoneFires => NoneFires')
           /\ OneFires /\ qw # <<>> /\ qw' = Tail(qw) /\ Fires(Head(qw)) => NoneFires'
           /\ \A x \in WorkItem : qw' = Append(qw, x) =>
                /\ ~Fires(x) => (OneFires => OneFires') /\ (NoneFires => NoneFires')
                /\ Fires(x) /\ NoneFires => OneFires'
           /\ \A x \in WorkItem : qw # <<>> /\ qw' = Append(Tail(qw), x) =>
                /\ (Fires(x) => Fires(Head(qw))) /\ OneFires => OneFires'
                /\ (Fires(x) => Fires(Head(qw))) /\ NoneFires => NoneFires'
<1> DEFINE n == Len(qw)
<1>1. n \in Nat /\ DOMAIN qw = 1 .. n
  BY DEF QueueTypeOK
<1>2. ASSUME qw # <<>>
      PROVE  /\ 1 \in DOMAIN qw /\ Head(qw) = qw[1] /\ n \in Nat \ {0}
             /\ DOMAIN Tail(qw) = 1 .. n - 1 /\ Tail(qw) \in Seq(WorkItem) /\ Len(Tail(qw)) = n - 1
             /\ \A i \in DOMAIN Tail(qw) : Tail(qw)[i] = qw[i + 1] /\ i + 1 \in DOMAIN qw
  BY <1>2 DEF QueueTypeOK
<1>3. ASSUME qw' = qw \/ (qw # <<>> /\ qw' = Tail(qw))
      PROVE  (OneFires => OneFires') /\ (NoneFires => NoneFires')
  <2>1. CASE qw' = qw
    BY <2>1 DEF OneFires, NoneFires
  <2>2. CASE qw # <<>> /\ qw' = Tail(qw)
    BY <1>1, <1>2, <2>2 DEF OneFires, NoneFires
  <2> QED BY <1>3, <2>1, <2>2
<1>4. ASSUME OneFires, qw # <<>>, qw' = Tail(qw), Fires(Head(qw))
      PROVE  NoneFires'
  <2> SUFFICES ASSUME NEW i \in DOMAIN Tail(qw), Fires(Tail(qw)[i]) PROVE FALSE
    BY <1>4 DEF NoneFires
  <2>1. /\ i + 1 \in DOMAIN qw /\ Fires(qw[i + 1]) /\ i + 1 # 1
        /\ 1 \in DOMAIN qw /\ Fires(qw[1])
    BY <1>2, <1>4
  <2> QED BY <1>4, <2>1 DEF OneFires
<1>5. ASSUME NEW x \in WorkItem, qw' = Append(qw, x)
      PROVE  /\ ~Fires(x) => (OneFires => OneFires') /\ (NoneFires => NoneFires')
             /\ Fires(x) /\ NoneFires => OneFires'
  <2>1. /\ DOMAIN qw' = 1 .. n + 1 /\ qw'[n + 1] = x
        /\ \A i \in DOMAIN qw : qw'[i] = qw[i]
        /\ \A i \in DOMAIN qw' : i \in DOMAIN qw \/ i = n + 1
    BY <1>1, <1>5 DEF QueueTypeOK
  <2> HIDE DEF n
  <2> QED BY <2>1 DEF OneFires, NoneFires
<1>6. ASSUME NEW x \in WorkItem, qw # <<>>, qw' = Append(Tail(qw), x), Fires(x) => Fires(Head(qw))
      PROVE  (OneFires => OneFires') /\ (NoneFires => NoneFires')
  <2>1. /\ DOMAIN qw' = 1 .. n /\ qw'[n] = x
        /\ \A i \in 1 .. n - 1 : qw'[i] = Tail(qw)[i]
    BY <1>2, <1>6
  <2>2. \A i \in 1 .. n - 1 : qw'[i] = qw[i + 1]
    BY <1>2, <1>6, <2>1
  <2>3. ASSUME NEW i \in DOMAIN qw'
        PROVE  \/ i + 1 \in DOMAIN qw /\ qw'[i] = qw[i + 1] /\ i \in Nat \ {0}
               \/ i = n /\ qw'[i] = x
    <3>1. n \in Nat \ {0} /\ i \in 1 .. n
      BY <1>2, <1>6, <2>1
    <3> HIDE DEF n
    <3>2. i = n \/ i \in 1 .. n - 1
      BY <3>1
    <3>3. i \in 1 .. n - 1 => i + 1 \in DOMAIN qw
      BY <1>1, <3>1
    <3> QED BY <2>1, <2>2, <3>1, <3>2, <3>3
  <2>4. 1 \in DOMAIN qw /\ Head(qw) = qw[1] /\ \A i \in DOMAIN qw : i \in Nat
    BY <1>1, <1>2, <1>6
  <2> HIDE DEF n
  <2>5. NoneFires => NoneFires'
    BY <1>6, <2>3, <2>4 DEF NoneFires
  <2>6. OneFires => OneFires'
    <3> SUFFICES ASSUME OneFires, NEW i \in DOMAIN qw', NEW j \in DOMAIN qw',
                        Fires(qw'[i]), Fires(qw'[j])
                 PROVE  i = j
      BY DEF OneFires
    <3>1. CASE i + 1 \in DOMAIN qw /\ qw'[i] = qw[i + 1] /\ i \in Nat \ {0}
      <4>1. Fires(qw[i + 1]) /\ i + 1 # 1
        BY <3>1
      <4>2. ~Fires(qw[1])
        BY <2>4, <3>1, <4>1 DEF OneFires
      <4>3. j + 1 \in DOMAIN qw /\ qw'[j] = qw[j + 1] /\ j \in Nat \ {0}
        BY <1>6, <2>3, <2>4, <4>2
      <4>4. i + 1 = j + 1
        BY <3>1, <4>1, <4>3 DEF OneFires
      <4> QED BY <3>1, <4>3, <4>4
    <3>2. CASE i = n /\ qw'[i] = x
      <4>1. Fires(qw[1])
        BY <1>6, <2>4, <3>2
      <4>2. ~(j + 1 \in DOMAIN qw /\ qw'[j] = qw[j + 1] /\ j \in Nat \ {0})
        <5> SUFFICES ASSUME j + 1 \in DOMAIN qw, qw'[j] = qw[j + 1], j \in Nat \ {0} PROVE FALSE
          OBVIOUS
        <5>1. Fires(qw[j + 1]) /\ j + 1 # 1
          OBVIOUS
        <5> QED BY <2>4, <4>1, <5>1 DEF OneFires
      <4> QED BY <2>3, <3>2, <4>2
    <3> QED BY <2>3, <3>1, <3>2
  <2> QED BY <2>5, <2>6
<1> QED BY <1>3, <1>4, <1>5, <1>6

\* Firings are counted as they arrive.
LEMMA FiringsMove ==
    ASSUME ign_normal \in Bytes, NetTypeOK
    PROVE  /\ Command(ign_normal) => Firings' = Firings + 1
           /\ \A c \in Bytes \ {ign_normal} : Command(c) => Firings' = Firings
           /\ UNCHANGED budget => Firings' = Firings
<1>1. Budget[ign_normal] \in Nat /\ budget[ign_normal] \in Nat
  BY DEF NetTypeOK
<1>2. ASSUME Command(ign_normal) PROVE Firings' = Firings + 1
  <2>1. budget'[ign_normal] = budget[ign_normal] - 1
    BY <1>2 DEF Command, NetTypeOK
  <2> QED BY <1>1, <2>1 DEF Firings
<1>3. ASSUME NEW c \in Bytes \ {ign_normal}, Command(c) PROVE Firings' = Firings
  <2>1. budget'[ign_normal] = budget[ign_normal]
    BY <1>3 DEF Command, NetTypeOK
  <2> QED BY <2>1 DEF Firings
<1> QED BY <1>2, <1>3 DEF Firings

\* Steps that leave the queue's firings and the ignition items alone.
LEMMA BurnKeeps ==
    ASSUME OneFiring, CutoffClock,
           OneFires => OneFires', NoneFires => NoneFires',
           \A s \in Slots : Pending(s)' => Pending(s),
           UNCHANGED <<enabled, sinceOpen, Firings>>, age'[Ign3Slot] = age[Ign3Slot]
    PROVE  OneFiring' /\ CutoffClock'
BY SlotFacts DEF OneFiring, CutoffClock

\* The burn's invariant is inductive beside the schedule's.
LEMMA BurnStep ==
    ASSUME Bytes \subseteq KnownBytes, ign_normal \in Bytes
    PROVE  TypeOK /\ ScheduleInv /\ BurnInv /\ [Next]_vars => BurnInv'
<1> SUFFICES ASSUME QueueTypeOK, IgnitionTypeOK, ClockTypeOK, NetTypeOK, QueueInv,
                    PendingIsArmed, Firings \in Nat, [Next]_vars,
                    Firings <= 1 => OneFiring /\ CutoffClock
             PROVE  Firings' \in Nat /\ (Firings' <= 1 => OneFiring' /\ CutoffClock')
    BY DEF TypeOK, ScheduleInv, QueueInv, BurnInv
<1> USE SlotFacts
<1>1. CASE Command(ign_normal)
  <2>1. Firings' = Firings + 1
    BY <1>1, FiringsMove
  <2> SUFFICES ASSUME Firings = 0 PROVE OneFiring' /\ CutoffClock'
    BY <2>1
  <2>2. NoneFires /\ ~enabled[Ign2Slot] /\ ~enabled[Ign3Slot] /\ CutoffClock
    BY DEF OneFiring
  <2>3. /\ qw' = Append(qw, Process(ign_normal)) /\ UNCHANGED <<scan, age, enabled, sinceOpen>>
        /\ Process(ign_normal) \in WorkItem /\ Process(ign_normal).action = "wq_process"
        /\ Process(ign_normal).arg \in KnownBytes
    BY <1>1 DEF Command, Process, WorkItem, Actions, ignitionVars, sinceVars
  <2>4. OneFires'
    BY <2>2, <2>3, FireMoves DEF OneFires, NoneFires, Fires
  <2>5. \A s \in Slots : Pending(s)' => Pending(s)
    BY <2>3, AppendKeeps
  <2> QED BY <2>1, <2>2, <2>3, <2>4, <2>5 DEF OneFiring, CutoffClock
<1> SUFFICES ASSUME ~Command(ign_normal), OneFiring, CutoffClock, Firings' = Firings
             PROVE  OneFiring' /\ CutoffClock'
  <2>1. ~Command(ign_normal) => Firings' = Firings
    BY FiringsMove DEF Next, Worker, Requeue, WriteValve, WriteIgnition, StartStop, Ignite, Sample,
       TimedIgn2, TimedIgn3, Scan, SendEnqueue, ScanEnqueue, NetTake, NetConnection, Tick, vars,
       netVars
  <2> QED BY <1>1, <2>1
<1>2. CASE Requeue
  <2> DEFINE x == [action |-> RequeuedAs(Arg), arg |-> Arg]
  <2>1. QueueInv' /\ \A s \in Slots : Pending(s)' => Pending(s)
    BY <1>2, RequeueKeeps
  <2>2. qw # <<>> /\ qw' = Append(Tail(qw), x) /\ Head(qw).action = "wq_process"
    BY <1>2 DEF Requeue, Poll
  <2>3. x \in WorkItem
    BY <1>2, PollFacts DEF Requeue, RequeuedAs, WorkItem, Actions
  <2>4. Fires(x) => Fires(Head(qw))
    BY <2>2 DEF Fires, RequeuedAs, Arg
  <2> HIDE DEF x
  <2>5. (OneFires => OneFires') /\ (NoneFires => NoneFires')
    BY <2>2, <2>3, <2>4, FireMoves
  <2> QED BY <1>2, <2>1, <2>5, BurnKeeps DEF Requeue, ignitionVars, sinceVars
<1>3. CASE WriteValve \/ WriteIgnition \/ StartStop
  <2>1. QueueInv' /\ \A s \in Slots : Pending(s)' => Pending(s)
    BY <1>3, TailKeeps, PollFacts DEF WriteValve, WriteIgnition, StartStop
  <2>2. qw # <<>> /\ qw' = Tail(qw) /\ UNCHANGED <<enabled, sinceOpen, age>>
    BY <1>3 DEF WriteValve, WriteIgnition, StartStop, Poll, sinceVars
  <2>3. (OneFires => OneFires') /\ (NoneFires => NoneFires')
    BY <2>2, FireMoves
  <2> QED BY <2>1, <2>2, <2>3, BurnKeeps
<1>4. CASE Ignite
  <2>1. \A s \in Slots : ~Pending(s)'
    BY <1>4, TailKeeps, PollFacts DEF Ignite
  <2>2. qw # <<>> /\ qw' = Tail(qw) /\ Fires(Head(qw)) /\ Head(qw) = qw[1] /\ 1 \in DOMAIN qw
    BY <1>4 DEF Ignite, Poll, Fires, QueueTypeOK
  <2>3. NoneFires' /\ OneFires' /\ ~NoneFires
    <3>1. NoneFires' /\ ~NoneFires
      BY <2>2, FireMoves DEF OneFiring, NoneFires
    <3> QED BY <3>1 DEF NoneFires, OneFires
  <2>4. ~enabled[Ign3Slot] /\ Firings # 0
    BY <2>3 DEF OneFiring
  <2>5. ~enabled'[Ign3Slot]
    BY <1>4, <2>4 DEF Ignite, Enable, IgnitionTypeOK
  <2> QED BY <2>1, <2>3, <2>4, <2>5 DEF OneFiring, CutoffClock
<1>5. ASSUME NEW s \in Sensors, Sample(s)
      PROVE  OneFiring' /\ CutoffClock'
  <2>1. \A r \in Slots : Pending(r)' => Pending(r)
    BY <1>5, TailKeeps, PollFacts DEF Sample
  <2>2. qw # <<>> /\ qw' = Tail(qw) /\ UNCHANGED <<enabled, sinceOpen>>
    BY <1>5 DEF Sample, Poll, ignitionVars, sinceVars
  <2>3. age'[Ign3Slot] = age[Ign3Slot]
    BY <1>5, RestartFacts DEF Sample
  <2>4. (OneFires => OneFires') /\ (NoneFires => NoneFires')
    BY <2>2, FireMoves
  <2> QED BY <2>1, <2>2, <2>3, <2>4, BurnKeeps
<1>6. CASE TimedIgn2
  <2>1. \A s \in Slots : Pending(s)' => Pending(s)
    BY <1>6, TailKeeps, PollFacts DEF TimedIgn2
  <2>2. qw # <<>> /\ qw' = Tail(qw)
    BY <1>6 DEF TimedIgn2, Poll
  <2>3. Pending(Ign2Slot)
    BY <1>6, HandledItem DEF TimedIgn2
  <2>4. enabled[Ign2Slot] /\ ~enabled[Ign3Slot] /\ NoneFires /\ Firings # 0
    BY <2>3 DEF PendingIsArmed, OneFiring
  <2>5. NoneFires' /\ OneFires'
    BY <2>2, <2>4, FireMoves DEF OneFiring
  <2>6. ~enabled'[Ign2Slot] /\ age'[Ign3Slot] = 0 /\ sinceOpen' = 0
    BY <1>6 DEF TimedIgn2, IgnitionTypeOK, ClockTypeOK
  <2>7. ~Pending(Ign3Slot)'
    BY <2>1, <2>4 DEF PendingIsArmed
  <2> QED BY <2>4, <2>5, <2>6, <2>7 DEF OneFiring, CutoffClock
<1>7. CASE TimedIgn3
  <2>1. ~Pending(Ign3Slot)'
    BY <1>7, TailKeeps, PollFacts DEF TimedIgn3
  <2>2. qw # <<>> /\ qw' = Tail(qw)
    BY <1>7 DEF TimedIgn3, Poll
  <2>3. Pending(Ign3Slot)
    BY <1>7, HandledItem DEF TimedIgn3
  <2>4. enabled[Ign3Slot] /\ NoneFires /\ Firings # 0
    BY <2>3 DEF PendingIsArmed, OneFiring
  <2>5. NoneFires' /\ OneFires'
    BY <2>2, <2>4, FireMoves DEF OneFiring
  <2>6. ~enabled'[Ign3Slot]
    BY <1>7 DEF TimedIgn3, IgnitionTypeOK
  <2> QED BY <2>1, <2>4, <2>5, <2>6 DEF OneFiring, CutoffClock
<1>8. CASE Scan
  <2>1. qw = <<>> /\ qw' = <<>>
    <3>1. ~Poll("wq_none")
      BY PollFacts DEF QueueInv, OnlyKnownItems, QueueTypeOK
    <3> QED BY <1>8, <3>1 DEF Scan
  <2>2. UNCHANGED <<enabled, age, sinceOpen>>
    BY <1>8 DEF Scan, ignitionVars, sinceVars
  <2>3. Pending(Ign3Slot)' => enabled[Ign3Slot] /\ age[Ign3Slot] > Delay[Ign3Slot]
    BY <1>8, <2>1 DEF Scan, Pending, Due
  <2>4. NoneFires' /\ OneFires'
    BY <2>1 DEF NoneFires, OneFires
  <2> QED BY <2>2, <2>3, <2>4 DEF OneFiring, CutoffClock
<1>9. ASSUME NEW s \in Slots, ScanEnqueue(s)
      PROVE  OneFiring' /\ CutoffClock'
  <2>1. \A r \in Slots : Pending(r)' => Pending(r)
    BY <1>9, ScanEnqueueKeeps
  <2>2. Timed(s) \in WorkItem /\ ~Fires(Timed(s))
    BY DEF Timed, WorkItem, Actions, Fires
  <2>3. (OneFires => OneFires') /\ (NoneFires => NoneFires')
    BY <1>9, <2>2, FireMoves DEF ScanEnqueue
  <2> QED BY <1>9, <2>1, <2>3, BurnKeeps DEF ScanEnqueue, ignitionVars, sinceVars
<1>10. ASSUME NEW c \in Bytes, Command(c)
       PROVE  OneFiring' /\ CutoffClock'
  <2>1. /\ Process(c) \in WorkItem /\ Process(c).action = "wq_process"
        /\ Process(c).arg \in KnownBytes /\ ~Fires(Process(c))
    BY <1>10 DEF Process, WorkItem, Actions, Fires
  <2>2. \A s \in Slots : Pending(s)' => Pending(s)
    BY <1>10, <2>1, AppendKeeps DEF Command
  <2>3. (OneFires => OneFires') /\ (NoneFires => NoneFires')
    BY <1>10, <2>1, FireMoves DEF Command
  <2> QED BY <1>10, <2>2, <2>3, BurnKeeps DEF Command, ignitionVars, sinceVars
<1>11. CASE SendEnqueue \/ NetTake \/ NetConnection \/ UNCHANGED vars
  <2>1. UNCHANGED <<qw, scan, enabled, age, sinceOpen>>
    BY <1>11 DEF SendEnqueue, NetTake, NetConnection, vars, ignitionVars, sinceVars
  <2>2. \A s \in Slots : Pending(s)' => Pending(s)
    BY <2>1 DEF Pending, IsTimed
  <2>3. (OneFires => OneFires') /\ (NoneFires => NoneFires')
    BY <2>1, FireMoves
  <2> QED BY <2>1, <2>2, <2>3, BurnKeeps
<1>12. CASE Tick
  <2>1. /\ UNCHANGED <<qw, scan, enabled>>
        /\ age'[Ign3Slot] = Saturate(age[Ign3Slot], Delay[Ign3Slot])
        /\ sinceOpen' = Saturate(sinceOpen, Delay[Ign3Slot])
    BY <1>12 DEF Tick, ignitionVars
  <2>2. \A s \in Slots : Pending(s)' => Pending(s)
    BY <2>1 DEF Pending, IsTimed
  <2>3. (OneFires => OneFires') /\ (NoneFires => NoneFires')
    BY <2>1, FireMoves
  <2>4. sinceOpen > Delay[Ign3Slot] => sinceOpen' > Delay[Ign3Slot]
    BY <2>1 DEF Saturate
  <2> QED BY <2>1, <2>2, <2>3, <2>4 DEF OneFiring, CutoffClock
<1> QED
  BY <1>2, <1>3, <1>4, <1>5, <1>6, <1>7, <1>8, <1>9, <1>10, <1>11, <1>12 DEF Next, Worker

\* While only bytes of the protocol arrive, a single firing burns for longer
\* than the delay of ign3, whatever else is commanded in the meantime.
THEOREM SingleBurnLasts ==
    ASSUME Bytes \subseteq KnownBytes, ign_normal \in Bytes
    PROVE  Spec => SingleBurnLastsItsTime
<1>1. Init => BurnInv
  <2> SUFFICES ASSUME Init PROVE BurnInv
    OBVIOUS
  <2>1. Firings = 0 /\ qw = <<>> /\ scan = {}
    BY DEF Init, Firings
  <2>2. ~enabled[Ign2Slot] /\ ~enabled[Ign3Slot]
    BY SlotFacts DEF Init
  <2> QED BY <2>1, <2>2 DEF BurnInv, OneFiring, OneFires, NoneFires, CutoffClock, Pending, IsTimed
<1>2. TypeOK /\ BurnInv => [TimedIgn3 /\ Firings = 1 => sinceOpen > Delay[Ign3Slot]]_vars
  BY HandledIsPending DEF BurnInv, CutoffClock
<1>3. Spec => []BurnInv
  BY <1>1, BurnStep, ScheduleKept, TypeCorrect, PTL DEF Spec
<1> QED BY <1>2, <1>3, TypeCorrect, PTL DEF SingleBurnLastsItsTime

-----------------------------------------------------------------------------
(* The announcements.                                                      *)

\* What the network thread will see is the queue with the announcement under
\* way, if there is one, behind it.
LEMMA AnnouncedFacts ==
    ASSUME TelemetryTypeOK
    PROVE  /\ Announced \in Seq(SendItem)
           /\ outbox = <<>> => Announced = qn
           /\ outbox # <<>> => Announced = Append(qn, Head(outbox)) /\ Len(outbox) = 1
<1>1. qn \in Seq(SendItem) /\ outbox \in Seq(SendItem) /\ Len(outbox) <= 1
  BY DEF TelemetryTypeOK
<1>2. Announced \in Seq(SendItem)
  BY <1>1, ConcatProperties DEF Announced
<1>3. CASE outbox = <<>>
  <2>1. qn \o <<>> = qn
    BY <1>1, ConcatEmptySeq
  <2> QED BY <1>2, <1>3, <2>1 DEF Announced
<1>4. CASE outbox # <<>>
  <2>1. Len(outbox) = 1 /\ Head(outbox) \in SendItem
    <3>1. Len(outbox) \in Nat \ {0}
      BY <1>1, <1>4, EmptySeq
    <3>2. Head(outbox) \in SendItem
      BY <1>1, <1>4, HeadTailProperties
    <3>3. \A n \in Nat \ {0} : n <= 1 => n = 1
      OBVIOUS
    <3> QED BY <1>1, <3>1, <3>2, <3>3
  <2>2. outbox = <<Head(outbox)>>
    BY <1>1, <2>1, SeqEqual
  <2>3. qn \o <<Head(outbox)>> = Append(qn, Head(outbox))
    BY <1>1, <2>1, AppendIsConcat
  <2> QED BY <1>2, <1>4, <2>1, <2>2, <2>3 DEF Announced
<1> QED BY <1>3, <1>4

\* A stretch is announced behind the others, or taken from the front, or passed
\* over, and else the announcements are as they were.
LEMMA AnnouncedMoves ==
    ASSUME TypeOK, SentIsWritten, [Next]_vars
    PROVE  \/ UNCHANGED <<Announced, lastSent, taken, lost>>
           \/ /\ Announced # <<>> /\ Announced' = Tail(Announced)
              /\ taken' = [taken EXCEPT ![Head(Announced).sensor] = @ + Head(Announced).nbytes]
              /\ UNCHANGED <<lastSent, lost>>
           \/ \E s \in Sensors, x \in SendItem :
                /\ x.sensor = s /\ x.nbytes > 0 /\ x.offset = lastSent[s]
                /\ Announced' = Append(Announced, x)
                /\ lastSent' = [lastSent EXCEPT ![s] = x.offset + x.nbytes]
                /\ UNCHANGED <<taken, lost>>
           \/ \E s \in Sensors, k \in Nat :
                /\ lastSent' = [lastSent EXCEPT ![s] = @ + k]
                /\ lost' = [lost EXCEPT ![s] = @ + k]
                /\ UNCHANGED <<Announced, taken>>
<1>1. TelemetryTypeOK /\ TelemetryTypeOK' /\ QueueTypeOK
  BY TypeStep DEF TypeOK
<1>2. CASE SendEnqueue
  <2>1. outbox # <<>> /\ outbox' = <<>> /\ qn' = Append(qn, Head(outbox))
        /\ UNCHANGED <<lastSent, taken, lost>>
    BY <1>2 DEF SendEnqueue
  <2>2. Announced' = qn'
    BY <1>1, <2>1 DEF Announced, TelemetryTypeOK
  <2> QED BY <1>1, <2>1, <2>2, AnnouncedFacts
<1>3. CASE NetTake
  <2>1. /\ qn # <<>> /\ qn' = Tail(qn) /\ UNCHANGED <<outbox, lastSent, lost>>
        /\ taken' = [taken EXCEPT ![Head(qn).sensor] = @ + Head(qn).nbytes]
    BY <1>3 DEF NetTake
  <2>2. qn \in Seq(SendItem) /\ outbox \in Seq(SendItem)
    BY <1>1 DEF TelemetryTypeOK
  <2>3. Announced # <<>> /\ Announced' = Tail(Announced) /\ Head(Announced) = Head(qn)
    <3>1. Tail(qn) \o outbox = Tail(qn \o outbox) /\ qn \o outbox # <<>>
      BY <2>1, <2>2
    <3>2. Head(qn \o outbox) = Head(qn)
      BY <2>1, <2>2
    <3> QED BY <2>1, <3>1, <3>2 DEF Announced
  <2> QED BY <2>1, <2>3
<1>4. ASSUME NEW s \in Sensors, Sample(s), ~UNCHANGED <<Announced, lastSent, taken, lost>>
      PROVE  \/ \E r \in Sensors, x \in SendItem :
                  /\ x.sensor = r /\ x.nbytes > 0 /\ x.offset = lastSent[r]
                  /\ Announced' = Append(Announced, x)
                  /\ lastSent' = [lastSent EXCEPT ![r] = x.offset + x.nbytes]
                  /\ UNCHANGED <<taken, lost>>
             \/ \E r \in Sensors, k \in Nat :
                  /\ lastSent' = [lastSent EXCEPT ![r] = @ + k]
                  /\ lost' = [lost EXCEPT ![r] = @ + k]
                  /\ UNCHANGED <<Announced, taken>>
  <2>1. outbox = <<>> /\ Announced = qn /\ qn' = qn /\ taken' = taken
    BY <1>1, <1>4, AnnouncedFacts DEF Sample, Poll, Idle
  <2>2. sendAge[s] > SendTime
    <3>1. ~(sendAge[s] > SendTime) => UNCHANGED <<lastSent, outbox, lost>>
      BY <1>4 DEF Sample
    <3> QED BY <1>4, <2>1, <3>1 DEF Announced
  <2>3. /\ written[s] \in Nat /\ written'[s] = written[s] + 1
        /\ lastSent[s] \in Nat /\ lastSent[s] <= written[s]
    BY <1>1, <1>4 DEF Sample, TelemetryTypeOK, SentIsWritten
  <2> DEFINE nbytes == written'[s] - lastSent[s]
             x == [sensor |-> s, nbytes |-> nbytes, offset |-> lastSent[s]]
  <2>4. nbytes \in Nat /\ nbytes > 0 /\ lastSent[s] + nbytes = written'[s]
    BY <2>3
  <2>5. x \in SendItem /\ x.sensor = s /\ x.nbytes > 0 /\ x.offset = lastSent[s]
        /\ x.offset + x.nbytes = written'[s]
    BY <2>3, <2>4 DEF SendItem
  <2>6. /\ lastSent' = [lastSent EXCEPT ![s] = written'[s]]
        /\ \/ outbox' = outbox /\ lost' = [lost EXCEPT ![s] = @ + nbytes]
           \/ outbox' = <<x>> /\ lost' = lost
    BY <1>4, <2>2 DEF Sample
  <2> HIDE DEF x
  <2>7. CASE outbox' = outbox /\ lost' = [lost EXCEPT ![s] = @ + nbytes]
    <3>1. UNCHANGED Announced
      BY <2>1, <2>7 DEF Announced
    <3>2. lastSent' = [lastSent EXCEPT ![s] = @ + nbytes]
      BY <2>4, <2>6
    <3> HIDE DEF nbytes
    <3> QED BY <2>1, <2>4, <2>7, <3>1, <3>2
  <2>8. CASE outbox' = <<x>> /\ lost' = lost
    <3>1. qn \o <<x>> = Append(qn, x)
      BY <1>1, <2>5 DEF TelemetryTypeOK
    <3>2. Announced' = Append(Announced, x)
      BY <2>1, <2>8, <3>1 DEF Announced
    <3>3. lastSent' = [lastSent EXCEPT ![s] = x.offset + x.nbytes]
      BY <2>5, <2>6
    <3> QED BY <2>1, <2>5, <2>8, <3>2, <3>3
  <2> QED BY <2>6, <2>7, <2>8
<1>5. CASE UNCHANGED <<qn, outbox, lastSent, taken, lost>>
  BY <1>5 DEF Announced
<1> QED
  BY <1>2, <1>3, <1>4, <1>5 DEF Next, Worker, Requeue, WriteValve, WriteIgnition, StartStop,
     Ignite, TimedIgn2, TimedIgn3, Scan, ScanEnqueue, Command, NetConnection, Tick, vars,
     telemetryVars

\* A new stretch begins where the sensor's last one ended, and none is empty.
LEMMA AnnouncedStep ==
    TypeOK /\ SentIsWritten /\ AnnouncedInOrder /\ [Next]_vars => AnnouncedInOrder'
<1> SUFFICES ASSUME TypeOK, SentIsWritten, AnnouncedInOrder, [Next]_vars
             PROVE  AnnouncedInOrder'
    OBVIOUS
<1>1. /\ Announced \in Seq(SendItem) /\ lastSent \in [Sensors -> Nat]
      /\ \A i \in DOMAIN Announced : Announced[i] \in SendItem
  BY AnnouncedFacts DEF TypeOK, TelemetryTypeOK
<1>2. \A x \in SendItem : x.sensor \in Sensors /\ x.nbytes \in Nat /\ x.offset \in Nat
  BY DEF SendItem
<1>3. CASE UNCHANGED <<Announced, lastSent>>
  BY <1>3 DEF AnnouncedInOrder
<1>4. CASE Announced # <<>> /\ Announced' = Tail(Announced) /\ UNCHANGED lastSent
  <2>1. /\ \A i \in DOMAIN Announced' :
              Announced'[i] = Announced[i + 1] /\ i + 1 \in DOMAIN Announced
        /\ \A i, j \in DOMAIN Announced' : i < j => i + 1 < j + 1
    BY <1>1, <1>4
  <2> QED BY <1>4, <2>1 DEF AnnouncedInOrder
<1>5. ASSUME NEW s \in Sensors, NEW x \in SendItem,
             x.sensor = s, x.nbytes > 0, x.offset = lastSent[s],
             Announced' = Append(Announced, x),
             lastSent' = [lastSent EXCEPT ![s] = x.offset + x.nbytes]
      PROVE  AnnouncedInOrder'
  <2>1. PICK n \in Nat : n = Len(Announced)
    BY <1>1
  <2>2. /\ DOMAIN Announced = 1 .. n /\ DOMAIN Announced' = 1 .. n + 1
        /\ \A i \in DOMAIN Announced : Announced'[i] = Announced[i]
        /\ Announced'[n + 1] = x
    BY <1>1, <1>5, <2>1
  <2>3. \A r \in Sensors : lastSent[r] <= lastSent'[r]
    BY <1>1, <1>2, <1>5
  <2>4. lastSent'[s] = x.offset + x.nbytes
    BY <1>1, <1>5
  <2>5. ASSUME NEW i \in DOMAIN Announced'
        PROVE  /\ Announced'[i].nbytes > 0
               /\ Announced'[i].offset + Announced'[i].nbytes <= lastSent'[Announced'[i].sensor]
    <3>1. CASE i = n + 1
      BY <1>2, <1>5, <2>2, <2>4, <3>1
    <3>2. CASE i \in DOMAIN Announced
      <4>1. /\ Announced[i].nbytes > 0
            /\ Announced[i].offset + Announced[i].nbytes <= lastSent[Announced[i].sensor]
        BY <3>2 DEF AnnouncedInOrder
      <4>2. lastSent[Announced[i].sensor] <= lastSent'[Announced[i].sensor]
            /\ Announced[i].sensor \in Sensors
        BY <1>1, <1>2, <2>3, <3>2
      <4>3. lastSent' \in [Sensors -> Nat]
        BY <1>1, <1>2, <1>5
      <4> QED BY <1>1, <1>2, <2>2, <3>2, <4>1, <4>2, <4>3
    <3> QED BY <2>2, <3>1, <3>2
  <2>6. ASSUME NEW i \in DOMAIN Announced', NEW j \in DOMAIN Announced', i < j,
               Announced'[i].sensor = Announced'[j].sensor
        PROVE  Announced'[i].offset + Announced'[i].nbytes <= Announced'[j].offset
    <3>1. i \in DOMAIN Announced /\ (j = n + 1 \/ j \in DOMAIN Announced)
      BY <2>2, <2>6
    <3>2. CASE j = n + 1
      <4>1. Announced[i].offset + Announced[i].nbytes <= lastSent[Announced[i].sensor]
        BY <3>1 DEF AnnouncedInOrder
      <4> QED BY <1>5, <2>2, <2>6, <3>1, <3>2, <4>1
    <3>3. CASE j \in DOMAIN Announced
      BY <2>2, <2>6, <3>1, <3>3 DEF AnnouncedInOrder
    <3> QED BY <3>1, <3>2, <3>3
  <2> QED BY <2>5, <2>6 DEF AnnouncedInOrder
<1>6. ASSUME NEW s \in Sensors, NEW k \in Nat, UNCHANGED Announced,
             lastSent' = [lastSent EXCEPT ![s] = @ + k]
      PROVE  AnnouncedInOrder'
  <2>1. lastSent' \in [Sensors -> Nat]
    BY TypeStep DEF TypeOK, TelemetryTypeOK
  <2>2. \A r \in Sensors : lastSent[r] <= lastSent'[r]
    BY <1>1, <1>6
  <2>3. ASSUME NEW i \in DOMAIN Announced
        PROVE  Announced[i].offset + Announced[i].nbytes <= lastSent'[Announced[i].sensor]
    <3>1. Announced[i].offset + Announced[i].nbytes <= lastSent[Announced[i].sensor]
      BY DEF AnnouncedInOrder
    <3>2. /\ Announced[i].sensor \in Sensors
          /\ Announced[i].offset \in Nat /\ Announced[i].nbytes \in Nat
      BY <1>1, <1>2
    <3>3. lastSent[Announced[i].sensor] <= lastSent'[Announced[i].sensor]
      BY <2>2, <3>2
    <3> QED BY <1>1, <2>1, <3>1, <3>2, <3>3
  <2> QED BY <1>6, <2>3 DEF AnnouncedInOrder
<1> QED BY <1>3, <1>4, <1>5, <1>6, AnnouncedMoves

\* For any number of sensors, what the worker announces of a buffer is never
\* empty, never overlaps and never runs ahead of lastSent, which in turn never
\* runs ahead of what was recorded.
THEOREM AnnouncesInOrder == Spec => [](AnnouncedInOrder /\ SentIsWritten)
<1>1. Init => AnnouncedInOrder /\ SentIsWritten
  BY DEF Init, AnnouncedInOrder, SentIsWritten, Announced
<1> QED BY <1>1, AnnouncedStep, SentStep, TypeCorrect, PTL DEF Spec

-----------------------------------------------------------------------------
(* The records.                                                            *)

\* g sums the records of s over the first announcements of q, up to the nth.
Sums(g, q, s, n) ==
    \A i \in 0 .. n : g[i] = IF i = 0 THEN 0 ELSE g[i - 1] + RecordsOf(s, q[i])

IsSum(g, q, s) == g \in [0 .. Len(q) -> Int] /\ Sums(g, q, s, Len(q))

\* A natural number with a property is preceded by a least one.
LEMMA LeastNat ==
    ASSUME NEW T \in SUBSET Nat, T # {}
    PROVE  \E x \in T : \A y \in T : ~(y < x)
<1>1. PICK x \in T : \A y \in T : ~(<<y, x>> \in OpToRel(<, Nat))
  BY NatLessThanWellFounded, WFMin
<1>2. \A y \in T : y < x => <<y, x>> \in OpToRel(<, Nat)
  BY DEF OpToRel
<1> QED BY <1>1, <1>2

\* Two sums over the same announcements agree.
LEMMA SumIsUnique ==
    ASSUME NEW n \in Nat, NEW q, NEW s, NEW f, NEW g, Sums(f, q, s, n), Sums(g, q, s, n)
    PROVE  f[n] = g[n]
<1> DEFINE T == {i \in 0 .. n : f[i] # g[i]}
<1>1. SUFFICES ASSUME T # {} PROVE FALSE
  OBVIOUS
<1>2. PICK x \in T : \A y \in T : ~(y < x)
  <2>1. T \in SUBSET Nat
    OBVIOUS
  <2> HIDE DEF T
  <2> QED BY <1>1, <2>1, LeastNat
<1>3. x \in 0 .. n /\ f[x] # g[x] /\ \A y \in 0 .. n : y < x => f[y] = g[y]
  BY <1>2
<1>4. CASE x = 0
  BY <1>3, <1>4 DEF Sums
<1>5. CASE x # 0
  <2>1. x - 1 \in 0 .. n /\ x - 1 < x
    BY <1>3, <1>5
  <2>2. f[x - 1] = g[x - 1]
    BY <1>3, <2>1
  <2>3. f[x] = f[x - 1] + RecordsOf(s, q[x]) /\ g[x] = g[x - 1] + RecordsOf(s, q[x])
    BY <1>3, <1>5 DEF Sums
  <2> QED BY <1>3, <2>2, <2>3
<1> QED BY <1>4, <1>5

\* What waits for the network thread is what a sum over the announcements says.
LEMMA SumIsWaiting ==
    ASSUME Announced \in Seq(SendItem), NEW s \in Sensors, NEW g, IsSum(g, Announced, s)
    PROVE  Waiting(s) = g[Len(Announced)]
<1>1. PICK n \in Nat : n = Len(Announced)
  OBVIOUS
<1> DEFINE f == CHOOSE f : f = [i \in 0 .. n |-> IF i = 0 THEN 0
                                 ELSE f[i - 1] + RecordsOf(s, Announced[i])]
<1>2. g = [i \in 0 .. n |-> IF i = 0 THEN 0 ELSE g[i - 1] + RecordsOf(s, Announced[i])]
  BY <1>1 DEF IsSum, Sums
<1>3. f = [i \in 0 .. n |-> IF i = 0 THEN 0 ELSE f[i - 1] + RecordsOf(s, Announced[i])]
  BY <1>2
<1>4. Waiting(s) = f[n]
  BY <1>1 DEF Waiting
<1> HIDE DEF f
<1>5. f[n] = g[n]
  <2>1. Sums(g, Announced, s, n)
    BY <1>1 DEF IsSum
  <2>2. Sums(f, Announced, s, n)
    BY <1>3 DEF Sums
  <2> QED BY <2>1, <2>2, SumIsUnique
<1> QED BY <1>1, <1>4, <1>5

\* One more announcement adds its records to the sum of its sensor.
LEMMA SumOfAppend ==
    ASSUME NEW q \in Seq(SendItem), NEW x \in SendItem, NEW s \in Sensors,
           NEW g, IsSum(g, q, s)
    PROVE  \E h : /\ IsSum(h, Append(q, x), s)
                  /\ h[Len(Append(q, x))] = g[Len(q)] + RecordsOf(s, x)
<1>1. PICK n \in Nat : n = Len(q)
  OBVIOUS
<1>2. /\ Len(Append(q, x)) = n + 1 /\ Append(q, x)[n + 1] = x
      /\ \A i \in 1 .. n : Append(q, x)[i] = q[i]
  BY <1>1
<1>3. RecordsOf(s, x) \in Int
  BY DEF RecordsOf, SendItem
<1>4. /\ g \in [0 .. n -> Int]
      /\ \A i \in 0 .. n : g[i] = IF i = 0 THEN 0 ELSE g[i - 1] + RecordsOf(s, q[i])
  BY <1>1 DEF IsSum, Sums
<1> DEFINE h == [i \in 0 .. n + 1 |-> IF i = n + 1 THEN g[n] + RecordsOf(s, x) ELSE g[i]]
<1>5. h \in [0 .. n + 1 -> Int] /\ h[n + 1] = g[n] + RecordsOf(s, x)
      /\ \A i \in 0 .. n : h[i] = g[i]
  BY <1>3, <1>4
<1> HIDE DEF h
<1>6. ASSUME NEW i \in 0 .. n + 1
      PROVE  h[i] = IF i = 0 THEN 0 ELSE h[i - 1] + RecordsOf(s, Append(q, x)[i])
  <2>1. CASE i = n + 1
    BY <1>2, <1>5, <2>1
  <2>2. CASE i = 0
    BY <1>4, <1>5, <2>2
  <2>3. CASE i \in 1 .. n
    <3>1. h[i] = g[i - 1] + RecordsOf(s, q[i])
      BY <1>4, <1>5, <2>3
    <3>2. h[i - 1] = g[i - 1] /\ Append(q, x)[i] = q[i]
      BY <1>2, <1>5, <2>3
    <3> QED BY <2>3, <3>1, <3>2
  <2>4. i = n + 1 \/ i = 0 \/ i \in 1 .. n
    OBVIOUS
  <2> QED BY <2>1, <2>2, <2>3, <2>4
<1>7. IsSum(h, Append(q, x), s)
  BY <1>2, <1>5, <1>6 DEF IsSum, Sums
<1> QED BY <1>1, <1>2, <1>5, <1>7

\* Taking the first announcement takes its records off.
LEMMA SumOfTail ==
    ASSUME NEW q \in Seq(SendItem), q # <<>>, NEW s \in Sensors, NEW g, IsSum(g, q, s)
    PROVE  \E h : /\ IsSum(h, Tail(q), s)
                  /\ h[Len(Tail(q))] = g[Len(q)] - RecordsOf(s, Head(q))
<1>1. PICK n \in Nat \ {0} : n = Len(q)
  BY EmptySeq
<1>2. /\ Len(Tail(q)) = n - 1 /\ Head(q) = q[1] /\ Head(q) \in SendItem
      /\ \A i \in 1 .. n - 1 : Tail(q)[i] = q[i + 1]
  BY <1>1, HeadTailProperties
<1>3. RecordsOf(s, Head(q)) \in Int
  BY <1>2 DEF RecordsOf, SendItem
<1>4. /\ g \in [0 .. n -> Int]
      /\ \A i \in 0 .. n : g[i] = IF i = 0 THEN 0 ELSE g[i - 1] + RecordsOf(s, q[i])
  BY <1>1 DEF IsSum, Sums
<1>5. g[1] = RecordsOf(s, Head(q))
  BY <1>2, <1>3, <1>4
<1> DEFINE h == [i \in 0 .. n - 1 |-> g[i + 1] - g[1]]
<1>6. h \in [0 .. n - 1 -> Int] /\ \A i \in 0 .. n - 1 : h[i] = g[i + 1] - g[1]
  BY <1>4
<1> HIDE DEF h
<1>7. ASSUME NEW i \in 0 .. n - 1
      PROVE  h[i] = IF i = 0 THEN 0 ELSE h[i - 1] + RecordsOf(s, Tail(q)[i])
  <2>1. CASE i = 0
    BY <1>4, <1>6, <2>1
  <2>2. CASE i \in 1 .. n - 1
    <3>1. g[i + 1] = g[i] + RecordsOf(s, q[i + 1]) /\ i \in 0 .. n /\ i + 1 \in 0 .. n
      BY <1>4, <2>2
    <3>2. h[i] = g[i + 1] - g[1] /\ h[i - 1] = g[i] - g[1] /\ Tail(q)[i] = q[i + 1]
      BY <1>2, <1>6, <2>2
    <3>3. q[i + 1] \in SendItem
      BY <1>1, <3>1, <2>2
    <3>4. RecordsOf(s, q[i + 1]) \in Int
      BY <3>3 DEF RecordsOf, SendItem
    <3>5. g[i] \in Int /\ g[i + 1] \in Int /\ g[1] \in Int
      BY <1>4, <3>1
    <3>6. \A a, b, c, d \in Int : a = b + d => a - c = (b - c) + d
      OBVIOUS
    <3>7. g[i + 1] - g[1] = (g[i] - g[1]) + RecordsOf(s, q[i + 1])
      BY <3>1, <3>4, <3>5, <3>6
    <3>8. i # 0
      BY <2>2
    <3> QED BY <3>2, <3>7, <3>8
  <2>3. i = 0 \/ i \in 1 .. n - 1
    OBVIOUS
  <2> QED BY <2>1, <2>2, <2>3
<1>8. IsSum(h, Tail(q), s)
  BY <1>2, <1>6, <1>7 DEF IsSum, Sums
<1>9. h[n - 1] = g[n] - RecordsOf(s, Head(q))
  BY <1>1, <1>5, <1>6
<1> QED BY <1>1, <1>2, <1>8, <1>9

\* Of each sensor, some sum over the announcements closes the account.
AccountInv ==
    \A s \in Sensors : \E g :
        /\ IsSum(g, Announced, s)
        /\ taken[s] + g[Len(Announced)] + lost[s] = lastSent[s]

\* A step moves records from one place of the account to another, or enters
\* the same records on both sides.
LEMMA AccountStep ==
    TypeOK /\ SentIsWritten /\ AccountInv /\ [Next]_vars => AccountInv'
<1> SUFFICES ASSUME TypeOK, SentIsWritten, AccountInv, [Next]_vars, NEW s \in Sensors
             PROVE  (\E g : /\ IsSum(g, Announced, s)
                            /\ taken[s] + g[Len(Announced)] + lost[s] = lastSent[s])'
    BY DEF AccountInv
<1>1. /\ Announced \in Seq(SendItem) /\ lastSent \in [Sensors -> Nat]
      /\ taken \in [Sensors -> Nat] /\ lost \in [Sensors -> Nat]
  BY AnnouncedFacts DEF TypeOK, TelemetryTypeOK
<1>2. \A x \in SendItem : x.sensor \in Sensors /\ x.nbytes \in Nat /\ x.offset \in Nat
  BY DEF SendItem
<1>3. PICK g : /\ IsSum(g, Announced, s)
               /\ taken[s] + g[Len(Announced)] + lost[s] = lastSent[s]
  BY DEF AccountInv
<1>4. PICK total \in Int : total = g[Len(Announced)]
  <2>1. PICK n \in Nat : n = Len(Announced)
    BY <1>1
  <2>2. n \in 0 .. n /\ g \in [0 .. n -> Int]
    BY <1>3, <2>1 DEF IsSum
  <2> QED BY <2>1, <2>2
<1>5. taken[s] + total + lost[s] = lastSent[s]
  BY <1>3, <1>4
<1>6. CASE UNCHANGED <<Announced, lastSent, taken, lost>>
  BY <1>3, <1>6
<1>7. CASE /\ Announced # <<>> /\ Announced' = Tail(Announced)
           /\ taken' = [taken EXCEPT ![Head(Announced).sensor] = @ + Head(Announced).nbytes]
           /\ UNCHANGED <<lastSent, lost>>
  <2>1. PICK h : /\ IsSum(h, Tail(Announced), s)
                 /\ h[Len(Tail(Announced))] = total - RecordsOf(s, Head(Announced))
    BY <1>1, <1>3, <1>4, <1>7, SumOfTail
  <2>2. Head(Announced) \in SendItem
    BY <1>1, <1>7, HeadTailProperties
  <2>3. /\ RecordsOf(s, Head(Announced)) \in Int
        /\ taken'[s] = taken[s] + RecordsOf(s, Head(Announced))
    BY <1>1, <1>2, <1>7, <2>2 DEF RecordsOf
  <2>4. taken'[s] + (total - RecordsOf(s, Head(Announced))) + lost'[s] = lastSent'[s]
    BY <1>1, <1>5, <1>7, <2>3
  <2> QED BY <1>7, <2>1, <2>4
<1>8. ASSUME NEW r \in Sensors, NEW x \in SendItem,
             x.sensor = r, x.nbytes > 0, x.offset = lastSent[r],
             Announced' = Append(Announced, x),
             lastSent' = [lastSent EXCEPT ![r] = x.offset + x.nbytes],
             UNCHANGED <<taken, lost>>
      PROVE  (\E h : /\ IsSum(h, Announced, s)
                     /\ taken[s] + h[Len(Announced)] + lost[s] = lastSent[s])'
  <2>1. PICK h : /\ IsSum(h, Append(Announced, x), s)
                 /\ h[Len(Append(Announced, x))] = total + RecordsOf(s, x)
    BY <1>1, <1>3, <1>4, SumOfAppend
  <2>2. RecordsOf(s, x) \in Int /\ lastSent'[s] = lastSent[s] + RecordsOf(s, x)
    BY <1>1, <1>2, <1>8 DEF RecordsOf
  <2>3. taken'[s] + (total + RecordsOf(s, x)) + lost'[s] = lastSent'[s]
    BY <1>1, <1>5, <1>8, <2>2
  <2> QED BY <1>8, <2>1, <2>3
<1>9. ASSUME NEW r \in Sensors, NEW k \in Nat,
             lastSent' = [lastSent EXCEPT ![r] = @ + k],
             lost' = [lost EXCEPT ![r] = @ + k],
             UNCHANGED <<Announced, taken>>
      PROVE  (\E h : /\ IsSum(h, Announced, s)
                     /\ taken[s] + h[Len(Announced)] + lost[s] = lastSent[s])'
  <2>1. taken'[s] + total + lost'[s] = lastSent'[s]
    BY <1>1, <1>5, <1>9
  <2> QED BY <1>3, <1>4, <1>9, <2>1
<1> QED BY <1>6, <1>7, <1>8, <1>9, AnnouncedMoves

\* Nothing has been announced, taken or passed over yet.
Fresh ==
    /\ qn = <<>> /\ outbox = <<>>
    /\ \A s \in Sensors : taken[s] = 0 /\ lost[s] = 0 /\ lastSent[s] = 0

\* The account is then closed.
LEMMA FreshAccount == Fresh => AccountInv /\ AnnouncedInOrder
<1> SUFFICES ASSUME Fresh PROVE AccountInv /\ AnnouncedInOrder
  OBVIOUS
<1> USE DEF Fresh
<1>1. Announced = <<>> /\ Len(<<>>) = 0 /\ DOMAIN <<>> = {}
  BY DEF Announced
<1>2. ASSUME NEW s \in Sensors
      PROVE  \E g : /\ IsSum(g, Announced, s)
                    /\ taken[s] + g[Len(Announced)] + lost[s] = lastSent[s]
  <2> DEFINE g == [i \in 0 .. 0 |-> 0]
  <2>1. IsSum(g, <<>>, s) /\ g[0] = 0
    BY <1>1 DEF IsSum, Sums
  <2> HIDE DEF g
  <2>2. taken[s] + g[Len(Announced)] + lost[s] = lastSent[s]
    BY <1>1, <2>1
  <2> QED BY <1>1, <2>1, <2>2
<1>3. AnnouncedInOrder
  BY <1>1 DEF AnnouncedInOrder
<1> QED BY <1>2, <1>3 DEF AccountInv

\* A closed account is what EveryRecordAccounted says of it.
LEMMA AccountCloses == TypeOK /\ SentIsWritten /\ AccountInv => EveryRecordAccounted
<1>1. TypeOK => Announced \in Seq(SendItem)
  BY AnnouncedFacts DEF TypeOK
<1> QED BY <1>1, SumIsWaiting DEF AccountInv, EveryRecordAccounted

\* For any number of sensors, records and peers coming and going, no record
\* vanishes between the buffers and the network thread or is counted twice.
THEOREM RecordsAccounted == Spec => []EveryRecordAccounted
<1>1. Init => AccountInv
  BY FreshAccount DEF Init, Fresh
<1> QED BY <1>1, AccountCloses, AccountStep, AnnouncesInOrder, TypeCorrect, PTL DEF Spec
=============================================================================
