----------------------------- MODULE MainWorker -----------------------------
(***************************************************************************)
(* The worker thread of the test-stand server (final/main_worker.cpp): it  *)
(* polls the work queue qw, carries out the operator's commands, runs the  *)
(* list of timed items (sensor sampling and the timed ignition sequence)   *)
(* and announces filled stretches of the sensor buffers on the network     *)
(* queue qn.                                                               *)
(*                                                                         *)
(* Time.  A timed item compares "now - scheduled" with its delay and the   *)
(* time since its last send with SEND_TIME.  The module keeps these two    *)
(* differences, saturated just past the value they are compared with, so   *)
(* that time passes forever in finitely many states.  get_time is taken to *)
(* be monotonic here.                                                      *)
(*                                                                         *)
(* Granularity.  Polling an item and handling it is one step: only this    *)
(* thread takes from qw.  Two handlers are split where another thread's    *)
(* step between two of their accesses matters: check_ti_list enqueues one  *)
(* due item per step, and a send is decided in one step (where connected   *)
(* is read) and enqueued in the next.                                      *)
(*                                                                         *)
(* A definition named <D>_<Bug> is D with that bug; no behaviour of this    *)
(* module uses it.                                                         *)
(***************************************************************************)
EXTENDS Integers, Sequences

CONSTANTS
    NumSensors,   \* sensors in ti_list (10 in the code: slots 0..9)
    Delay,        \* delay of each slot of ti_list, in ticks
    SendTime,     \* SEND_TIME in ticks
    Budget,       \* bound: how many times each command byte may arrive
    MaxSamples    \* bound: a sensor with this many records is not due again

Sensors  == 0 .. NumSensors - 1
Ign2Slot == NumSensors          \* ti_list[10], the item that opens the valve
Ign3Slot == NumSensors + 1      \* ti_list[11], the item that ends the burn
Slots    == 0 .. NumSensors + 1

\* Command bytes: send_code of queue_items.hpp and the two ASCII digits.
byte_0         == 48
byte_1         == 49
unset_valve    == 4
set_valve      == 5
unset_ignition == 6
set_ignition   == 7
ign_normal     == 8
DirectBytes    == {unset_valve, set_valve, unset_ignition, set_ignition}
KnownBytes     == DirectBytes \cup {byte_0, byte_1, ign_normal}

Bytes == DOMAIN Budget

ASSUME SensorsAssumption == NumSensors \in Nat \ {0}
ASSUME DelayAssumption   == Delay \in [Slots -> Nat] /\ SendTime \in Nat
ASSUME BudgetAssumption  == Bytes \subseteq Nat /\ Budget \in [Bytes -> Nat]
ASSUME BoundAssumption   == MaxSamples \in Nat

VARIABLES
    qw,         \* safe_queue of work items, oldest first
    scan,       \* due slots that check_ti_list has not enqueued yet
    enabled,    \* ti_list[s].enabled
    age,        \* now - ti_list[s].scheduled, saturated at Delay[s] + 1
    sending,    \* the local flag that wq_start and wq_stop set
    valve, ign, \* the MAIN_VALVE and IGN_START pins
    valveBy,    \* history: who last drove MAIN_VALVE HIGH
    ignBy,      \* history: who last drove IGN_START HIGH
    written,    \* records in the sensor's buffer: bytes_written / 16
    lastSent,   \* nbytes_last_send / 16
    sendAge,    \* now - last_send, saturated at SendTime + 1
    outbox,     \* the send that is decided and not yet in qn (0 or 1 item)
    qn,         \* safe_queue of announced stretches, oldest first
    taken,      \* history: records of each sensor the network thread took
    lost,       \* history: records passed over because no peer was connected
    sinceLit,   \* history: time since ign1 last lit the igniter, saturated
    sinceOpen,  \* history: time since the sequence last opened the valve
    connected,  \* nw_ref->connected, owned by the network thread
    budget      \* command bytes that may still arrive

ignitionVars  == <<enabled, sending, valve, ign, valveBy, ignBy>>
telemetryVars == <<written, lastSent, sendAge, outbox, qn, taken, lost>>
sinceVars     == <<sinceLit, sinceOpen>>
netVars       == <<connected, budget>>
vars == <<qw, scan, enabled, age, sending, valve, ign, valveBy, ignBy,
          written, lastSent, sendAge, outbox, qn, taken, lost, sinceLit, sinceOpen,
          connected, budget>>

Actions  == {"wq_process", "wq_start", "wq_stop", "wq_timed", "ign1", "wq_none"}
WorkItem == [action : Actions, arg : Nat]
SendItem == [sensor : Sensors, nbytes : Nat, offset : Nat]
Levels   == {"LOW", "HIGH"}
Drivers  == {"none", "operator", "sequence"}

Process(c) == [action |-> "wq_process", arg |-> c]
Timed(s)   == [action |-> "wq_timed", arg |-> s]

-----------------------------------------------------------------------------
(* The state in which worker_method enters its loop.  connected has no     *)
(* initialiser, so its first value is arbitrary.                           *)
Init ==
    /\ qw = <<>> /\ scan = {}
    /\ enabled = [s \in Slots |-> s \in Sensors]
    /\ age = [s \in Slots |-> 0]
    /\ sending = FALSE
    /\ valve = "LOW" /\ ign = "LOW" /\ valveBy = "none" /\ ignBy = "none"
    /\ written = [s \in Sensors |-> 0]
    /\ lastSent = [s \in Sensors |-> 0]
    /\ sendAge = [s \in Sensors |-> 0]
    /\ outbox = <<>> /\ qn = <<>>
    /\ taken = [s \in Sensors |-> 0]
    /\ lost = [s \in Sensors |-> 0]
    /\ sinceLit = 0 /\ sinceOpen = 0
    /\ connected \in BOOLEAN
    /\ budget = Budget

-----------------------------------------------------------------------------
(* The worker's loop.                                                      *)
Idle == scan = {} /\ outbox = <<>>

\* The worker polls the item at the head of qw, of kind a.
Poll(a) == Idle /\ qw # <<>> /\ Head(qw).action = a

Arg == Head(qw).arg

Enable(s)  == enabled' = [enabled EXCEPT ![s] = TRUE]
Restart(s) == age' = [age EXCEPT ![s] = 0]

RequeuedAs_Ign2(c) == CASE c = byte_0     -> "wq_start"
                        [] c = byte_1     -> "wq_stop"
                        [] c = ign_normal -> "ign2"
                        [] OTHER          -> "wq_none"

\* What a command byte that drives no pin is put back on the queue as.
RequeuedAs(c) == CASE c = byte_0     -> "wq_start"
                   [] c = byte_1     -> "wq_stop"
                   [] c = ign_normal -> "ign1"
                   [] OTHER          -> "wq_none"

Requeue ==
    /\ Poll("wq_process")
    /\ Arg \notin DirectBytes
    /\ qw' = Append(Tail(qw), [action |-> RequeuedAs(Arg), arg |-> Arg])
    /\ UNCHANGED <<scan, age, sinceVars, ignitionVars, telemetryVars, netVars>>

WriteValve ==
    /\ Poll("wq_process")
    /\ Arg \in {set_valve, unset_valve}
    /\ qw' = Tail(qw)
    /\ valve' = IF Arg = set_valve THEN "HIGH" ELSE "LOW"
    /\ valveBy' = IF Arg = set_valve THEN "operator" ELSE valveBy
    /\ UNCHANGED <<scan, age, sinceVars, enabled, sending, ign, ignBy, telemetryVars, netVars>>

WriteIgnition ==
    /\ Poll("wq_process")
    /\ Arg \in {set_ignition, unset_ignition}
    /\ qw' = Tail(qw)
    /\ ign' = IF Arg = set_ignition THEN "HIGH" ELSE "LOW"
    /\ ignBy' = IF Arg = set_ignition THEN "operator" ELSE ignBy
    /\ UNCHANGED <<scan, age, sinceVars, enabled, sending, valve, valveBy, telemetryVars, netVars>>

StartStop ==
    /\ Poll("wq_start") \/ Poll("wq_stop")
    /\ qw' = Tail(qw)
    /\ sending' = (Head(qw).action = "wq_start")
    /\ UNCHANGED <<scan, age, sinceVars, enabled, valve, ign, valveBy, ignBy, telemetryVars,
                   netVars>>

\* ign1: light the igniter and arm the valve-opening item.
Ignite ==
    /\ Poll("ign1")
    /\ qw' = Tail(qw)
    /\ ign' = "HIGH" /\ ignBy' = "sequence"
    /\ Enable(Ign2Slot)
    /\ Restart(Ign2Slot)
    /\ sinceLit' = 0
    /\ UNCHANGED <<scan, sinceOpen, sending, valve, valveBy, telemetryVars, netVars>>

Sample_MeasuresTooEarly(s) ==
    /\ Poll("wq_timed") /\ Arg = s
    /\ qw' = Tail(qw)
    /\ Restart(s)
    /\ written' = [written EXCEPT ![s] = @ + 1]
    /\ LET nbytes == written[s] - lastSent[s]
           drop   == ~connected /\ nbytes > 0
       IN IF sendAge[s] > SendTime
          THEN /\ lastSent' = [lastSent EXCEPT ![s] = written'[s]]
               /\ sendAge' = [sendAge EXCEPT ![s] = 0]
               /\ outbox' = IF drop THEN outbox
                            ELSE <<[sensor |-> s, nbytes |-> nbytes, offset |-> lastSent[s]]>>
               /\ lost' = IF drop THEN [lost EXCEPT ![s] = @ + nbytes] ELSE lost
          ELSE UNCHANGED <<lastSent, sendAge, outbox, lost>>
    /\ UNCHANGED <<scan, sinceVars, ignitionVars, qn, taken, netVars>>

\* A timed item of a sensor: take a record and, SEND_TIME after the last
\* send, announce what was recorded since; without a peer it is passed over.
Sample(s) ==
    /\ Poll("wq_timed") /\ Arg = s
    /\ qw' = Tail(qw)
    /\ Restart(s)
    /\ written' = [written EXCEPT ![s] = @ + 1]
    /\ LET nbytes == written'[s] - lastSent[s]
           drop   == ~connected /\ nbytes > 0
       IN IF sendAge[s] > SendTime
          THEN /\ lastSent' = [lastSent EXCEPT ![s] = written'[s]]
               /\ sendAge' = [sendAge EXCEPT ![s] = 0]
               /\ outbox' = IF drop THEN outbox
                            ELSE <<[sensor |-> s, nbytes |-> nbytes, offset |-> lastSent[s]]>>
               /\ lost' = IF drop THEN [lost EXCEPT ![s] = @ + nbytes] ELSE lost
          ELSE UNCHANGED <<lastSent, sendAge, outbox, lost>>
    /\ UNCHANGED <<scan, sinceVars, ignitionVars, qn, taken, netVars>>

SendEnqueue_InFront ==
    /\ outbox # <<>>
    /\ qn' = outbox \o qn
    /\ outbox' = <<>>
    /\ UNCHANGED <<qw, scan, age, sinceVars, ignitionVars, written, lastSent, sendAge, taken,
                   lost, netVars>>

SendEnqueue ==
    /\ outbox # <<>>
    /\ qn' = Append(qn, Head(outbox))
    /\ outbox' = <<>>
    /\ UNCHANGED <<qw, scan, age, sinceVars, ignitionVars, written, lastSent, sendAge, taken,
                   lost, netVars>>

\* The template ign3_ti is enabled in place of its copy in the list.
TimedIgn2_EnablesTemplate ==
    /\ Poll("wq_timed") /\ Arg = Ign2Slot
    /\ qw' = Tail(qw)
    /\ age' = [age EXCEPT ![Ign2Slot] = 0]
    /\ enabled' = [enabled EXCEPT ![Ign2Slot] = FALSE]
    /\ valve' = "HIGH" /\ valveBy' = "sequence"
    /\ sinceOpen' = 0
    /\ UNCHANGED <<scan, sinceLit, sending, ign, ignBy, telemetryVars, netVars>>

TimedIgn2_StaysArmed ==
    /\ Poll("wq_timed") /\ Arg = Ign2Slot
    /\ qw' = Tail(qw)
    /\ age' = [age EXCEPT ![Ign2Slot] = 0, ![Ign3Slot] = 0]
    /\ Enable(Ign3Slot)
    /\ valve' = "HIGH" /\ valveBy' = "sequence"
    /\ sinceOpen' = 0
    /\ UNCHANGED <<scan, sinceLit, sending, ign, ignBy, telemetryVars, netVars>>

TimedIgn2_KeepsCutoffClock ==
    /\ Poll("wq_timed") /\ Arg = Ign2Slot
    /\ qw' = Tail(qw)
    /\ Restart(Ign2Slot)
    /\ enabled' = [enabled EXCEPT ![Ign2Slot] = FALSE, ![Ign3Slot] = TRUE]
    /\ valve' = "HIGH" /\ valveBy' = "sequence"
    /\ sinceOpen' = 0
    /\ UNCHANGED <<scan, sinceLit, sending, ign, ignBy, telemetryVars, netVars>>

\* The timed item of ign2: open the valve and arm the cutoff.  Nothing checks
\* that the item is still enabled and due.
TimedIgn2 ==
    /\ Poll("wq_timed") /\ Arg = Ign2Slot
    /\ qw' = Tail(qw)
    /\ age' = [age EXCEPT ![Ign2Slot] = 0, ![Ign3Slot] = 0]
    /\ enabled' = [enabled EXCEPT ![Ign2Slot] = FALSE, ![Ign3Slot] = TRUE]
    /\ valve' = "HIGH" /\ valveBy' = "sequence"
    /\ sinceOpen' = 0
    /\ UNCHANGED <<scan, sinceLit, sending, ign, ignBy, telemetryVars, netVars>>

TimedIgn3_LeavesIgniter ==
    /\ Poll("wq_timed") /\ Arg = Ign3Slot
    /\ qw' = Tail(qw)
    /\ Restart(Ign3Slot)
    /\ enabled' = [enabled EXCEPT ![Ign3Slot] = FALSE]
    /\ valve' = "LOW"
    /\ UNCHANGED <<scan, sinceVars, sending, ign, valveBy, ignBy, telemetryVars, netVars>>

\* The timed item of ign3: the cutoff closes the valve and drops the igniter.
TimedIgn3 ==
    /\ Poll("wq_timed") /\ Arg = Ign3Slot
    /\ qw' = Tail(qw)
    /\ Restart(Ign3Slot)
    /\ enabled' = [enabled EXCEPT ![Ign3Slot] = FALSE]
    /\ valve' = "LOW" /\ ign' = "LOW"
    /\ UNCHANGED <<scan, sinceVars, sending, valveBy, ignBy, telemetryVars, netVars>>

Due_TooEarly(s) ==
    /\ enabled[s]
    /\ age[s] >= Delay[s]
    /\ s \in Sensors => written[s] < MaxSamples

\* check_ti_list's condition; the bound on records stops a sensor's item.
Due(s) ==
    /\ enabled[s]
    /\ age[s] > Delay[s]
    /\ s \in Sensors => written[s] < MaxSamples

\* An empty queue (poll answers null_wqi) and a wq_none item both run
\* check_ti_list, at one reading of the clock.
Scan ==
    /\ Idle
    /\ \/ qw = <<>> /\ qw' = qw
       \/ Poll("wq_none") /\ qw' = Tail(qw)
    /\ scan' = {s \in Slots : Due(s)}
    /\ UNCHANGED <<age, sinceVars, ignitionVars, telemetryVars, netVars>>

ScanEnqueue(s) ==
    /\ s \in scan
    /\ \A r \in scan : s <= r
    /\ qw' = Append(qw, Timed(s))
    /\ scan' = scan \ {s}
    /\ UNCHANGED <<age, sinceVars, ignitionVars, telemetryVars, netVars>>

Worker ==
    \/ Requeue \/ WriteValve \/ WriteIgnition \/ StartStop \/ Ignite
    \/ \E s \in Sensors : Sample(s)
    \/ TimedIgn2 \/ TimedIgn3
    \/ Scan \/ SendEnqueue
    \/ \E s \in Slots : ScanEnqueue(s)

-----------------------------------------------------------------------------
(* The rest of the program and the world.                                  *)

\* The network thread received command byte c and queued it.
Command(c) ==
    /\ budget[c] > 0
    /\ budget' = [budget EXCEPT ![c] = @ - 1]
    /\ qw' = Append(qw, Process(c))
    /\ UNCHANGED <<scan, age, sinceVars, ignitionVars, telemetryVars, connected>>

\* The network thread takes an announcement to send it.
NetTake ==
    /\ qn # <<>>
    /\ qn' = Tail(qn)
    /\ taken' = [taken EXCEPT ![Head(qn).sensor] = @ + Head(qn).nbytes]
    /\ UNCHANGED <<qw, scan, age, sinceVars, ignitionVars, written, lastSent, sendAge, outbox,
                   lost, netVars>>

\* The network thread gains or loses its peer.
NetConnection ==
    /\ connected' = ~connected
    /\ UNCHANGED <<qw, scan, age, sinceVars, ignitionVars, telemetryVars, budget>>

Saturate(x, limit) == IF x > limit THEN x ELSE x + 1

Tick ==
    /\ age' = [s \in Slots |-> Saturate(age[s], Delay[s])]
    /\ sendAge' = [s \in Sensors |-> Saturate(sendAge[s], SendTime)]
    /\ sinceLit' = Saturate(sinceLit, Delay[Ign2Slot])
    /\ sinceOpen' = Saturate(sinceOpen, Delay[Ign3Slot])
    /\ <<age, sendAge, sinceLit, sinceOpen>>' # <<age, sendAge, sinceLit, sinceOpen>>
    /\ UNCHANGED <<qw, scan, ignitionVars, written, lastSent, outbox, qn, taken, lost, netVars>>

Next == Worker \/ (\E c \in Bytes : Command(c)) \/ NetTake \/ NetConnection \/ Tick

\* The worker thread keeps running and time keeps passing.  Nothing forces a
\* command to arrive or a peer to connect.
Fairness == WF_vars(Worker) /\ WF_vars(Tick)

Spec == Init /\ [][Next]_vars /\ Fairness

-----------------------------------------------------------------------------
(* Properties                                                              *)

\* Every variable has its type: items carry known actions, ages and counters
\* are naturals, at most one send is under way.
QueueTypeOK == qw \in Seq(WorkItem) /\ scan \in SUBSET Slots

IgnitionTypeOK ==
    /\ enabled \in [Slots -> BOOLEAN]
    /\ sending \in BOOLEAN
    /\ valve \in Levels /\ ign \in Levels
    /\ valveBy \in Drivers /\ ignBy \in Drivers

ClockTypeOK == age \in [Slots -> Nat] /\ sinceLit \in Nat /\ sinceOpen \in Nat

TelemetryTypeOK ==
    /\ written \in [Sensors -> Nat]
    /\ lastSent \in [Sensors -> Nat]
    /\ sendAge \in [Sensors -> Nat]
    /\ outbox \in Seq(SendItem) /\ Len(outbox) <= 1
    /\ qn \in Seq(SendItem)
    /\ taken \in [Sensors -> Nat]
    /\ lost \in [Sensors -> Nat]

NetTypeOK == connected \in BOOLEAN /\ budget \in [Bytes -> Nat]

TypeOK == QueueTypeOK /\ IgnitionTypeOK /\ ClockTypeOK /\ TelemetryTypeOK /\ NetTypeOK

\* A valve that the ignition sequence opened (and nobody has closed) always
\* has its cutoff armed: whatever bytes arrive, main_worker.cpp never leaves
\* the valve open with ti_list[11] disabled.
SequenceOpenHasCutoff ==
    valve = "HIGH" /\ valveBy = "sequence" => enabled[Ign3Slot]

\* An igniter that the sequence lit always has an armed item that leads to
\* the cutoff: the valve-opening item or the cutoff itself.
IgniterHasCutoff ==
    ign = "HIGH" /\ ignBy = "sequence" => enabled[Ign2Slot] \/ enabled[Ign3Slot]

\* Item i of the queue is a timed one; the timed item of slot s is on its way.
IsTimed(i) == qw[i].action = "wq_timed"
Pending(s) == s \in scan \/ \E i \in DOMAIN qw : IsTimed(i) /\ qw[i].arg = s

\* The sequence opens the valve only IGN2_T after the igniter was last lit
\* (main_worker.hpp: "IGN2_T 250000 //250ms").
ValveOpensOnSchedule == [][TimedIgn2 => sinceLit > Delay[Ign2Slot]]_vars

\* Commands to fire that have arrived so far.
Firings == Budget[ign_normal] - budget[ign_normal]

\* A single firing burns for IGN3_T (main_worker.hpp: "IGN3_T 3000000 // 3000
\* ms"), whatever direct commands come between.  A second firing during a burn
\* is cut off by the first one's cutoff.
SingleBurnLastsItsTime ==
    [][TimedIgn3 /\ Firings = 1 => sinceOpen > Delay[Ign3Slot]]_vars

\* The timed item of a slot is never queued twice at once.
TimedAtMostOnce ==
    /\ \A i, j \in DOMAIN qw : IsTimed(i) /\ IsTimed(j) /\ qw[i].arg = qw[j].arg => i = j
    /\ \A i \in DOMAIN qw : IsTimed(i) => qw[i].arg \notin scan

\* Why the schedule holds while only bytes of the protocol arrive.  A scan then
\* starts on an empty queue only, so a firing is always behind the timed items
\* of the last scan, and each of these is still armed when it is handled.
OnlyKnownItems ==
    \A i \in DOMAIN qw :
        /\ qw[i].action # "wq_none"
        /\ qw[i].action = "wq_process" => qw[i].arg \in KnownBytes

FiringBehindTimed ==
    /\ \A i, j \in DOMAIN qw : i < j /\ qw[i].action = "ign1" => ~IsTimed(j)
    /\ scan # {} => \A i \in DOMAIN qw : qw[i].action # "ign1"

PendingIsArmed ==
    /\ Pending(Ign2Slot) => enabled[Ign2Slot] /\ sinceLit > Delay[Ign2Slot]
    /\ Pending(Ign3Slot) => enabled[Ign3Slot]

ArmedSinceLit == enabled[Ign2Slot] => age[Ign2Slot] = sinceLit

ScheduleInv ==
    /\ OnlyKnownItems /\ TimedAtMostOnce /\ FiringBehindTimed
    /\ PendingIsArmed /\ ArmedSinceLit

\* The worker implements the ignition sequence: the enabled flags of the two
\* ignition items are its armed and burning states.
Sequence == INSTANCE IgnitionSequence WITH
                armed <- enabled[Ign2Slot], burning <- enabled[Ign3Slot]

ImplementsSequence == Sequence!Spec
StepsOfSequence == Sequence!Safety

\* A valve the sequence opened is closed in the end (or the operator takes
\* it over), and an igniter it lit is dropped in the end.
OpenBySequence == valve = "HIGH" /\ valveBy = "sequence"
LitBySequence  == ign = "HIGH" /\ ignBy = "sequence"

BurnEnds == (OpenBySequence ~> ~OpenBySequence) /\ (LitBySequence ~> ~LitBySequence)

\* Announcements of one sensor, in the order the network thread will see
\* them: the queued ones, then the one under way.
Announced == qn \o outbox

\* The announced stretches of a sensor's buffer are not empty, follow one
\* another without overlap, and end at or before what was announced last.
AnnouncedInOrder ==
    /\ \A i \in DOMAIN Announced :
          /\ Announced[i].nbytes > 0
          /\ Announced[i].offset + Announced[i].nbytes <= lastSent[Announced[i].sensor]
    /\ \A i, j \in DOMAIN Announced :
          i < j /\ Announced[i].sensor = Announced[j].sensor
             => Announced[i].offset + Announced[i].nbytes <= Announced[j].offset

\* No sensor has announced more than it recorded.
SentIsWritten == \A s \in Sensors : lastSent[s] <= written[s]

\* Records of sensor s in the announcements waiting for the network thread.
RecordsOf(s, a) == IF a.sensor = s THEN a.nbytes ELSE 0

Waiting(s) ==
    LET upTo[i \in 0 .. Len(Announced)] ==
            IF i = 0 THEN 0 ELSE upTo[i - 1] + RecordsOf(s, Announced[i])
    IN upTo[Len(Announced)]

\* No record vanishes or is announced twice: what lastSent says was sent was
\* taken by the network thread, waits for it, or was passed over while no peer
\* was connected; and it was all written.
EveryRecordAccounted ==
    /\ \A s \in Sensors : taken[s] + Waiting(s) + lost[s] = lastSent[s]
    /\ SentIsWritten
=============================================================================
