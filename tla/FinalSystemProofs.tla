------------------------- MODULE FinalSystemProofs -------------------------
(* Theorems about FinalSystem: what its pins can be at the ends of the       *)
(* process, that the valve follows its buttons, and what of the worker holds *)
(* in every life, for every number of presses and starts and every delay.    *)
EXTENDS FinalSystem, MainWorkerProofs

USE SystemAssumption

-----------------------------------------------------------------------------
(* Types.                                                                  *)

\* The bytes of the buttons are commands that may arrive.
LEMMA ButtonBytes == \A b \in Buttons : ButtonByte(b) \in Bytes
BY DEF ButtonByte, Buttons, ValveButtons, IgnitionButtons, DirectBytes, unset_valve, set_valve,
   unset_ignition, set_ignition, ign_normal

\* Both halves of the state are well typed.
SystemInv == TypeOK /\ SentIsWritten /\ SystemTypeOK

\* The system begins well typed.
LEMMA SystemTypeInit == SystemInit => SystemInv
<1>1. Init => SentIsWritten
  BY DEF Init, SentIsWritten
<1>2. SystemInit => SystemTypeOK
  <2> SUFFICES ASSUME SystemInit PROVE SystemTypeOK
      OBVIOUS
  <2>1. writing \in BOOLEAN /\ dropped \in BOOLEAN /\ quiet \in BOOLEAN
    BY Zenon DEF SystemInit
  <2> QED BY <2>1 DEF SystemInit, SystemTypeOK, Phases, Pins
<1>3. SystemInit => Init
  BY DEF SystemInit
<1> QED BY <1>1, <1>2, <1>3, TypeInit DEF SystemInv

\* A new process begins in a well-typed state.
LEMMA StartTypes ==
    ASSUME TypeOK, Start
    PROVE  TypeOK' /\ SentIsWritten'
<1>1. QueueTypeOK'
  BY DEF Start, QueueTypeOK
<1>2. IgnitionTypeOK'
  <2>3. enabled' = [s \in Slots |-> s \in Sensors] /\ sending' = FALSE
    BY DEF Start
  <2>1. enabled' \in [Slots -> BOOLEAN]
    BY <2>3
  <2>4. sending' \in BOOLEAN
    BY <2>3, Zenon
  <2>2. UNCHANGED <<valve, ign, valveBy, ignBy>>
    BY DEF Start
  <2> QED BY <2>1, <2>2, <2>4 DEF IgnitionTypeOK, TypeOK
<1>3. ClockTypeOK'
  BY DEF Start, ClockTypeOK
<1>4. TelemetryTypeOK' /\ SentIsWritten'
  <2>1. /\ written' = [s \in Sensors |-> 0] /\ lastSent' = [s \in Sensors |-> 0]
        /\ taken' = [s \in Sensors |-> 0] /\ lost' = [s \in Sensors |-> 0]
        /\ sendAge' = [s \in Sensors |-> 0] /\ outbox' = <<>> /\ qn' = <<>>
    BY DEF Start
  <2> QED BY <2>1 DEF TelemetryTypeOK, SentIsWritten
<1>5. NetTypeOK'
  BY DEF Start, NetTypeOK, TypeOK
<1> QED BY <1>1, <1>2, <1>3, <1>4, <1>5 DEF TypeOK

\* initialize_pins leaves the types alone.
LEMMA InitializePinTypes ==
    ASSUME TypeOK, SentIsWritten, NEW p \in Pins, InitializePin(p)
    PROVE  TypeOK' /\ SentIsWritten'
<1>1. QueueTypeOK' /\ ClockTypeOK' /\ TelemetryTypeOK' /\ NetTypeOK'
  BY UnchangedParts DEF InitializePin, TypeOK
<1>2. IgnitionTypeOK'
  BY DEF InitializePin, IgnitionTypeOK, TypeOK, Levels
<1>3. SentIsWritten'
  BY DEF InitializePin, telemetryVars, SentIsWritten
<1> QED BY <1>1, <1>2, <1>3 DEF TypeOK

\* The byte that the network thread reads next is one that may arrive.
LEMMA DeliverByte ==
    ASSUME SystemTypeOK, Deliver
    PROVE  Head(wire) \in Bytes /\ Tail(wire) \in Seq(Bytes)
BY DEF SystemTypeOK, Deliver

\* A step of the system starts a process, clears a pin, or is a step of the
\* worker, its clock or its surroundings.
LEMMA StepKinds ==
    ASSUME SystemInv, [SystemNext]_systemVars
    PROVE  Start \/ (\E p \in Pins : InitializePin(p)) \/ [Next]_vars
<1>1. CASE Deliver
  BY <1>1, DeliverByte DEF SystemInv, Deliver, Next
<1>2. CASE WorkerStep \/ SystemTick \/ DropConnection
  BY <1>2 DEF WorkerStep, SystemTick, DropConnection, Next
<1>3. CASE \/ StartThreads \/ StartFails \/ Exit \/ Ends \/ Killed \/ NetWrites \/ WriteReturns
           \/ (\E b \in Buttons : Press(b)) \/ UNCHANGED systemVars
  BY <1>3 DEF StartThreads, StartFails, Exit, Ends, Killed, NetWrites, WriteReturns, Press,
     systemVars
<1> QED BY <1>1, <1>2, <1>3 DEF SystemNext

\* No step of the system spoils a type of the worker's.
LEMMA WorkerTypes ==
    ASSUME SystemInv, [SystemNext]_systemVars
    PROVE  TypeOK' /\ SentIsWritten'
<1>1. CASE Start
  BY <1>1, StartTypes DEF SystemInv
<1>2. ASSUME NEW p \in Pins, InitializePin(p) PROVE TypeOK' /\ SentIsWritten'
  BY <1>2, InitializePinTypes DEF SystemInv
<1>3. CASE [Next]_vars
  BY <1>3, TypeStep, SentStep DEF SystemInv
<1> QED BY <1>1, <1>2, <1>3, StepKinds

\* Nor one of the system's own.
LEMMA SystemTypeStep == SystemInv /\ [SystemNext]_systemVars => SystemInv'
<1> SUFFICES ASSUME SystemInv, [SystemNext]_systemVars PROVE SystemTypeOK'
    BY WorkerTypes DEF SystemInv
<1> USE DEF SystemInv, SystemTypeOK, Phases, Pins
<1>1. CASE Start
  <2>1. dropped' = FALSE /\ quiet' = quiet
    BY <1>1 DEF Start
  <2>2. dropped' \in BOOLEAN /\ quiet' \in BOOLEAN
    BY <2>1, Zenon
  <2> QED BY <1>1, <2>2 DEF Start
<1>2. ASSUME NEW p \in Pins, InitializePin(p) PROVE SystemTypeOK'
  BY <1>2 DEF InitializePin, panelVars
<1>3. CASE StartThreads \/ StartFails
  BY <1>3 DEF StartThreads, StartFails, panelVars
<1>4. CASE Ends \/ Killed
  BY <1>4 DEF Ends, Killed, panelVars
<1>5. CASE Exit
  <2>1. quiet' = NoPinPending
    BY <1>5 DEF Exit
  <2>2. NoPinPending \in BOOLEAN
    BY Zenon DEF NoPinPending
  <2>3. quiet' \in BOOLEAN
    BY <2>1, <2>2
  <2> QED BY <1>5, <2>3 DEF Exit, panelVars
<1>6. ASSUME NEW b \in Buttons, Press(b) PROVE SystemTypeOK'
  <2>1. Append(wire, ButtonByte(b)) \in Seq(Bytes)
    BY ButtonBytes
  <2> QED BY <1>6, <2>1 DEF Press, processVars
<1>7. CASE Deliver
  BY <1>7, DeliverByte DEF Deliver, processVars
<1>8. CASE DropConnection
  BY <1>8 DEF DropConnection, processVars
<1>9. CASE WorkerStep \/ SystemTick
  BY <1>9 DEF WorkerStep, SystemTick, processVars, panelVars
<1>10. CASE UNCHANGED systemVars
  BY <1>10 DEF systemVars, processVars, panelVars
<1>11. CASE NetWrites \/ WriteReturns
  <2>1. writing' \in BOOLEAN
    BY <1>11, Zenon DEF NetWrites, WriteReturns
  <2> QED BY <1>11, <2>1 DEF NetWrites, WriteReturns, panelVars
<1> QED
  BY <1>1, <1>2, <1>3, <1>4, <1>5, <1>6, <1>7, <1>8, <1>9, <1>10, <1>11 DEF SystemNext

\* Every reachable state of the system is well typed.
THEOREM SystemTypeCorrect == SystemSpec => [](TypeOK /\ SentIsWritten /\ SystemTypeOK)
BY SystemTypeInit, SystemTypeStep, PTL DEF SystemSpec, SystemInv

-----------------------------------------------------------------------------
(* A pin that is HIGH was commanded.                                       *)

\* A step of the worker takes items from its queue, and what it puts back or
\* arms was in an item or armed before.
LEMMA CommandWorker ==
    ASSUME TypeOK, CommandInv, process \in {"running", "exiting"}, Worker,
           UNCHANGED <<process, cleared, commanded>>
    PROVE  CommandInv'
<1> USE SlotFacts DEF CommandInv, HighIsCommanded
<1>1. /\ qw \in Seq(WorkItem) /\ enabled \in [Slots -> BOOLEAN]
      /\ QueueTypeOK
  BY DEF TypeOK, QueueTypeOK, IgnitionTypeOK
<1>2. CommandedItems' = CommandedItems
  BY DEF CommandedItems
<1>3. ASSUME NEW a, Poll(a)
      PROVE  /\ scan = {} /\ Tail(qw) \in Seq(CommandedItems)
             /\ Arg \in Nat /\ Head(qw) \in CommandedItems
             /\ Head(qw).action = a /\ Head(qw).arg = Arg
  BY <1>1, <1>3, PollFacts DEF Poll, Idle, Arg
<1>4. CASE Requeue
  <2> DEFINE x == [action |-> RequeuedAs(Arg), arg |-> Arg]
  <2>1. Arg \in commanded
    BY <1>3, <1>4 DEF Requeue, CommandedItems
  <2>2. x \in CommandedItems
    BY <2>1, <1>3, <1>4 DEF Requeue, CommandedItems, WorkItem, Actions, RequeuedAs
  <2>3. qw' \in Seq(CommandedItems)
    BY <2>2, <1>3, <1>4 DEF Requeue
  <2> QED BY <2>3, <1>2, <1>4 DEF Requeue, ignitionVars
<1>5. CASE WriteValve
  <2>1. Arg \in commanded
    BY <1>3, <1>5 DEF WriteValve, CommandedItems
  <2> QED BY <2>1, <1>2, <1>3, <1>5 DEF WriteValve
<1>6. CASE WriteIgnition
  <2>1. Arg \in commanded
    BY <1>3, <1>6 DEF WriteIgnition, CommandedItems
  <2> QED BY <2>1, <1>2, <1>3, <1>6 DEF WriteIgnition
<1>7. CASE StartStop
  BY <1>2, <1>3, <1>7 DEF StartStop
<1>8. CASE Ignite
  <2>1. ign_normal \in commanded
    BY <1>3, <1>8 DEF Ignite, CommandedItems
  <2> QED BY <2>1, <1>2, <1>3, <1>8 DEF Ignite
<1>9. ASSUME NEW s \in Sensors, Sample(s) PROVE CommandInv'
  BY <1>2, <1>3, <1>9 DEF Sample, ignitionVars
<1>10. CASE TimedIgn2
  <2>1. ign_normal \in commanded
    BY <1>3, <1>10 DEF TimedIgn2, CommandedItems
  <2> QED BY <2>1, <1>2, <1>3, <1>10 DEF TimedIgn2
<1>11. CASE TimedIgn3
  <2>1. enabled'[Ign2Slot] = enabled[Ign2Slot]
    BY <1>1, <1>11 DEF TimedIgn3
  <2> QED BY <2>1, <1>2, <1>3, <1>11 DEF TimedIgn3
<1>12. CASE Scan
  BY <1>2, <1>3, <1>12 DEF Scan, Due, ignitionVars
<1>13. CASE SendEnqueue
  BY <1>2, <1>13 DEF SendEnqueue, ignitionVars
<1>14. ASSUME NEW s \in Slots, ScanEnqueue(s) PROVE CommandInv'
  <2>1. Timed(s) \in CommandedItems
    BY <1>14 DEF ScanEnqueue, Timed, CommandedItems, WorkItem, Actions
  <2>2. qw' \in Seq(CommandedItems)
    BY <2>1, <1>14 DEF ScanEnqueue
  <2> QED BY <2>2, <1>2, <1>14 DEF ScanEnqueue, ignitionVars
<1> QED
  BY <1>4, <1>5, <1>6, <1>7, <1>8, <1>9, <1>10, <1>11, <1>12, <1>13, <1>14 DEF Worker

\* No step of the system drives or arms anything that was not commanded.
LEMMA CommandStep == SystemInv /\ CommandInv /\ [SystemNext]_systemVars => CommandInv'
<1> SUFFICES ASSUME TypeOK, SystemTypeOK, CommandInv, [SystemNext]_systemVars PROVE CommandInv'
    BY DEF SystemInv
<1> USE SlotFacts DEF CommandInv, HighIsCommanded
<1>1. CASE Start
  <2>1. enabled' = [s \in Slots |-> s \in Sensors] /\ scan' = {} /\ cleared' = {}
    BY <1>1 DEF Start
  <2>2. ~enabled'[Ign2Slot]
    BY <2>1
  <2>3. qw' = <<>> /\ process' = "starting"
    BY <1>1 DEF Start
  <2> QED BY <2>1, <2>2, <2>3
<1>2. ASSUME NEW p \in Pins, InitializePin(p) PROVE CommandInv'
  <2>1. UNCHANGED <<qw, scan, enabled, process, commanded>>
    BY <1>2 DEF InitializePin
  <2>2. CommandedItems' = CommandedItems
    BY <2>1 DEF CommandedItems
  <2> QED BY <1>2, <2>1, <2>2 DEF InitializePin, Pins
<1>3. CASE StartThreads
  <2>1. CommandedItems' = CommandedItems
    BY <1>3 DEF StartThreads, CommandedItems
  <2> QED BY <1>3, <2>1 DEF StartThreads, Pins, vars
<1>4. CASE StartFails \/ Exit \/ Ends \/ Killed
  <2>1. CommandedItems' = CommandedItems
    BY <1>4 DEF StartFails, Exit, Ends, Killed, CommandedItems
  <2> QED BY <1>4, <2>1 DEF StartFails, Exit, Ends, Killed, vars
<1>5. CASE Deliver
  <2> DEFINE c == Head(wire)
  <2>1. /\ c \in Bytes /\ commanded' = commanded \cup {c} /\ qw' = Append(qw, Process(c))
        /\ UNCHANGED <<scan, enabled, valve, ign, process, cleared>>
    BY <1>5, DeliverByte DEF Deliver, Command, ignitionVars, processVars
  <2>2. CommandedItems \subseteq CommandedItems'
    BY <2>1 DEF CommandedItems
  <2>3. Process(c) \in CommandedItems'
    BY <2>1, BudgetAssumption DEF CommandedItems, Process, WorkItem, Actions
  <2>4. qw' \in Seq(CommandedItems')
    BY <2>1, <2>2, <2>3
  <2> QED BY <2>1, <2>4
<1>6. CASE WorkerStep
  BY <1>6, CommandWorker DEF WorkerStep, processVars
<1>7. CASE \/ SystemTick \/ DropConnection \/ NetWrites \/ WriteReturns
           \/ (\E b \in Buttons : Press(b)) \/ UNCHANGED systemVars
  <2>1. UNCHANGED <<qw, scan, enabled, valve, ign, process, cleared, commanded>>
    BY <1>7 DEF SystemTick, Tick, DropConnection, NetConnection, NetWrites, WriteReturns, Press,
       systemVars, vars, processVars, ignitionVars
  <2>2. CommandedItems' = CommandedItems
    BY <2>1 DEF CommandedItems
  <2> QED BY <2>1, <2>2
<1> QED BY <1>1, <1>2, <1>3, <1>4, <1>5, <1>6, <1>7 DEF SystemNext

\* In a running process a pin is HIGH only after a command to this process,
\* whatever state a process that was killed left the pins in.
THEOREM PinsCommanded == SystemSpec => []HighIsCommanded
<1>1. SystemInit => CommandInv
  <2> SUFFICES ASSUME SystemInit PROVE CommandInv
      OBVIOUS
  <2>1. /\ qw = <<>> /\ scan = {} /\ enabled = [s \in Slots |-> s \in Sensors]
        /\ process = "off"
    BY DEF SystemInit, Init
  <2>2. ~enabled[Ign2Slot]
    BY <2>1, SlotFacts
  <2> QED BY <2>1, <2>2 DEF CommandInv, HighIsCommanded
<1>2. CommandInv => HighIsCommanded
  BY DEF CommandInv
<1> QED
  BY <1>1, <1>2, SystemTypeInit, SystemTypeStep, CommandStep, PTL DEF SystemSpec

-----------------------------------------------------------------------------
(* An exit with nothing pending leaves the pins LOW.                       *)

\* Beside the exit handlers, a worker with no pin item pending drives no pin
\* HIGH and queues no such item.
LEMMA QuietWorker ==
    ASSUME TypeOK, NoPinPending, Worker
    PROVE  /\ NoPinPending'
           /\ valve = "LOW" => valve' = "LOW"
           /\ ign = "LOW" => ign' = "LOW"
<1> USE SlotFacts DEF NoPinPending
<1>1. /\ qw \in Seq(WorkItem) /\ enabled \in [Slots -> BOOLEAN]
      /\ QueueTypeOK
  BY DEF TypeOK, QueueTypeOK, IgnitionTypeOK
<1>2. ASSUME NEW a, Poll(a)
      PROVE  /\ scan = {} /\ Tail(qw) \in Seq(QuietItems)
             /\ Arg \in Nat /\ Head(qw) \in QuietItems
             /\ Head(qw).action = a /\ Head(qw).arg = Arg
  BY <1>1, <1>2, PollFacts DEF Poll, Idle, Arg
<1>3. CASE Requeue
  <2> DEFINE x == [action |-> RequeuedAs(Arg), arg |-> Arg]
  <2>1. Arg # ign_normal
    BY <1>2, <1>3 DEF Requeue, QuietItems
  <2>2. x \in QuietItems
    BY <2>1, <1>2, <1>3 DEF Requeue, QuietItems, WorkItem, Actions, RequeuedAs
  <2>3. qw' \in Seq(QuietItems)
    BY <2>2, <1>2, <1>3 DEF Requeue
  <2> QED BY <2>3, <1>3 DEF Requeue, ignitionVars
<1>4. CASE WriteValve
  <2>1. Arg # set_valve
    BY <1>2, <1>4 DEF WriteValve, QuietItems
  <2> QED BY <2>1, <1>2, <1>4 DEF WriteValve
<1>5. CASE WriteIgnition
  <2>1. Arg # set_ignition
    BY <1>2, <1>5 DEF WriteIgnition, QuietItems
  <2> QED BY <2>1, <1>2, <1>5 DEF WriteIgnition
<1>6. CASE StartStop
  BY <1>2, <1>6 DEF StartStop
<1>7. ~Ignite
  BY <1>2 DEF Ignite, QuietItems
<1>8. ASSUME NEW s \in Sensors, Sample(s)
      PROVE  NoPinPending' /\ valve' = valve /\ ign' = ign
  BY <1>2, <1>8 DEF Sample, ignitionVars
<1>9. ~TimedIgn2
  BY <1>2 DEF TimedIgn2, QuietItems
<1>10. CASE TimedIgn3
  <2>1. enabled'[Ign2Slot] = enabled[Ign2Slot]
    BY <1>1, <1>10 DEF TimedIgn3
  <2> QED BY <2>1, <1>2, <1>10 DEF TimedIgn3
<1>11. CASE Scan
  BY <1>2, <1>11 DEF Scan, Due, ignitionVars
<1>12. CASE SendEnqueue
  BY <1>12 DEF SendEnqueue, ignitionVars
<1>13. ASSUME NEW s \in Slots, ScanEnqueue(s)
       PROVE  NoPinPending' /\ valve' = valve /\ ign' = ign
  <2>1. Timed(s) \in QuietItems
    BY <1>13 DEF ScanEnqueue, Timed, QuietItems, WorkItem, Actions
  <2>2. qw' \in Seq(QuietItems)
    BY <2>1, <1>13 DEF ScanEnqueue
  <2> QED BY <2>2, <1>13 DEF ScanEnqueue, ignitionVars
<1> QED
  BY <1>3, <1>4, <1>5, <1>6, <1>7, <1>8, <1>9, <1>10, <1>11, <1>12, <1>13 DEF Worker

\* No step of the system spoils a quiet end.
LEMMA QuietStep ==
    SystemInv /\ CommandInv /\ QuietInv /\ [SystemNext]_systemVars => QuietInv'
<1> SUFFICES ASSUME TypeOK, SystemTypeOK, CommandInv, QuietInv, [SystemNext]_systemVars
             PROVE  QuietInv'
    BY DEF SystemInv
<1> USE DEF QuietInv, QuietEndLeavesPinsLow
<1>1. CASE Start
  <2>1. process' = "starting"
    BY <1>1 DEF Start
  <2> QED BY <2>1
<1>2. ASSUME NEW p \in Pins, InitializePin(p) PROVE QuietInv'
  <2>1. UNCHANGED <<qw, scan, enabled, process, quiet>> /\ process \in {"starting", "exiting"}
    BY <1>2 DEF InitializePin
  <2>2. NoPinPending' = NoPinPending
    BY <2>1 DEF NoPinPending
  <2> QED BY <1>2, <2>1, <2>2 DEF InitializePin, Pins
<1>3. CASE StartThreads
  BY <1>3 DEF StartThreads
<1>4. CASE StartFails
  <2>1. /\ process = "starting" /\ process' = "off" /\ UNCHANGED <<valve, ign>>
        /\ quiet' => cleared = Pins
    BY <1>4 DEF StartFails, vars
  <2> QED BY <2>1 DEF CommandInv, Pins
<1>5. CASE Exit
  <2>1. process' = "exiting" /\ cleared' = {} /\ quiet' = NoPinPending
    BY <1>5 DEF Exit
  <2>2. NoPinPending' = NoPinPending
    BY <1>5 DEF Exit, vars, NoPinPending
  <2> QED BY <2>1, <2>2
<1>6. CASE Ends
  BY <1>6 DEF Ends, vars, Pins
<1>7. CASE Killed
  <2>1. process' = "off" /\ ~quiet'
    BY <1>7 DEF Killed
  <2> QED BY <2>1
<1>8. CASE \/ Deliver \/ DropConnection \/ NetWrites \/ WriteReturns
           \/ (\E b \in Buttons : Press(b))
  <2>1. process = "running" /\ process' = process
    BY <1>8 DEF Deliver, DropConnection, NetWrites, WriteReturns, Press, processVars
  <2> QED BY <2>1
<1>9. CASE WorkerStep
  <2>1. process \in {"running", "exiting"} /\ Worker /\ UNCHANGED <<process, cleared, quiet>>
    BY <1>9 DEF WorkerStep, processVars
  <2> QED BY <2>1, QuietWorker
<1>10. CASE SystemTick \/ UNCHANGED systemVars
  <2>1. UNCHANGED <<qw, scan, enabled, valve, ign, process, cleared, quiet>>
    BY <1>10 DEF SystemTick, Tick, systemVars, vars, processVars, ignitionVars
  <2>2. NoPinPending' = NoPinPending
    BY <2>1 DEF NoPinPending
  <2> QED BY <2>1, <2>2
<1> QED
  BY <1>1, <1>2, <1>3, <1>4, <1>5, <1>6, <1>7, <1>8, <1>9, <1>10 DEF SystemNext

\* A process that calls exit while no item that drives a pin is pending leaves
\* both pins LOW, although its worker runs on until the process is gone.
THEOREM QuietEnd == SystemSpec => []QuietEndLeavesPinsLow
<1>1. SystemInit => CommandInv /\ QuietInv
  <2> SUFFICES ASSUME SystemInit PROVE CommandInv /\ QuietInv
      OBVIOUS
  <2>1. /\ qw = <<>> /\ scan = {} /\ enabled = [s \in Slots |-> s \in Sensors]
        /\ process = "off" /\ valve = "LOW" /\ ign = "LOW"
    BY DEF SystemInit, Init
  <2>2. ~enabled[Ign2Slot]
    BY <2>1, SlotFacts
  <2>3. CommandInv
    BY <2>1, <2>2 DEF CommandInv, HighIsCommanded
  <2> QED BY <2>1, <2>3 DEF QuietInv, QuietEndLeavesPinsLow
<1>2. QuietInv => QuietEndLeavesPinsLow
  BY DEF QuietInv
<1> QED
  BY <1>1, <1>2, SystemTypeInit, SystemTypeStep, CommandStep, QuietStep, PTL DEF SystemSpec

-----------------------------------------------------------------------------
(* The valve follows its buttons.                                          *)

\* The members of M in a sequence: there are none, or the last of them is t.
NoneIn(s, M)    == \A i \in DOMAIN s : s[i] \notin M
LastIn(s, M, t) == \E i \in DOMAIN s : s[i] = t /\ \A j \in DOMAIN s : j > i => s[j] \notin M

\* What is left of them when the head is taken.
LEMMA MarkedTail ==
    ASSUME NEW S, NEW s \in Seq(S), s # <<>>, NEW M, NEW t
    PROVE  /\ NoneIn(s, M) => NoneIn(Tail(s), M) /\ Head(s) \notin M
           /\ LastIn(s, M, t) => \/ LastIn(Tail(s), M, t)
                                 \/ Head(s) = t /\ NoneIn(Tail(s), M)
<1> DEFINE n == Len(s)
           r == Tail(s)
<1>1. /\ n \in Nat \ {0} /\ DOMAIN s = 1 .. n /\ Head(s) = s[1] /\ 1 \in DOMAIN s
      /\ DOMAIN r = 1 .. n - 1
  BY EmptySeq, LenProperties, HeadTailProperties
<1>2. \A i \in DOMAIN r : r[i] = s[i + 1] /\ i + 1 \in DOMAIN s /\ i \in Nat
  BY <1>1, HeadTailProperties
<1>3. \A i \in DOMAIN s : i # 1 => i - 1 \in DOMAIN r /\ r[i - 1] = s[i] /\ i \in Nat
  <2> SUFFICES ASSUME NEW i \in DOMAIN s, i # 1
               PROVE  i - 1 \in DOMAIN r /\ r[i - 1] = s[i] /\ i \in Nat
    OBVIOUS
  <2> HIDE DEF n, r
  <2>1. i - 1 \in DOMAIN r /\ i \in Nat /\ (i - 1) + 1 = i
    BY <1>1
  <2> QED BY <1>2, <2>1
<1> HIDE DEF n, r
<1>4. NoneIn(s, M) => NoneIn(r, M) /\ Head(s) \notin M
  BY <1>1, <1>2 DEF NoneIn
<1>5. ASSUME LastIn(s, M, t) PROVE LastIn(r, M, t) \/ (Head(s) = t /\ NoneIn(r, M))
  <2>1. PICK i \in DOMAIN s : s[i] = t /\ \A j \in DOMAIN s : j > i => s[j] \notin M
    BY <1>5 DEF LastIn
  <2>2. CASE i = 1
    <3>1. \A j \in DOMAIN r : j + 1 \in DOMAIN s /\ j + 1 > i /\ r[j] = s[j + 1]
      BY <1>1, <1>2, <2>2
    <3> QED BY <1>1, <2>1, <2>2, <3>1 DEF NoneIn
  <2>3. CASE i # 1
    <3>1. i - 1 \in DOMAIN r /\ r[i - 1] = t /\ i \in Nat
      BY <1>3, <2>1, <2>3
    <3>2. \A j \in DOMAIN r : j > i - 1 => j + 1 \in DOMAIN s /\ j + 1 > i /\ r[j] = s[j + 1]
      BY <1>2, <3>1
    <3>3. \A j \in DOMAIN r : j > i - 1 => r[j] \notin M
      BY <2>1, <3>2
    <3> QED BY <3>1, <3>3 DEF LastIn
  <2> QED BY <2>2, <2>3
<1> QED BY <1>4, <1>5 DEF r

\* What becomes of them when an element is appended.
LEMMA MarkedAppend ==
    ASSUME NEW S, NEW s \in Seq(S), NEW x \in S, NEW M, NEW t
    PROVE  /\ x \notin M => /\ NoneIn(s, M) => NoneIn(Append(s, x), M)
                            /\ LastIn(s, M, t) => LastIn(Append(s, x), M, t)
           /\ LastIn(Append(s, x), M, x)
<1> DEFINE n == Len(s)
           r == Append(s, x)
<1>1. /\ n \in Nat /\ DOMAIN s = 1 .. n /\ DOMAIN r = 1 .. n + 1 /\ r[n + 1] = x
      /\ \A i \in DOMAIN s : r[i] = s[i]
  BY LenProperties, AppendProperties
<1> HIDE DEF n, r
<1>2. /\ n + 1 \in DOMAIN r
      /\ \A i \in DOMAIN r : i <= n + 1 /\ (i = n + 1 \/ i \in DOMAIN s)
      /\ \A i \in DOMAIN s : i \in DOMAIN r /\ i < n + 1 /\ i \in Nat
  BY <1>1
<1>3. x \notin M /\ NoneIn(s, M) => NoneIn(r, M)
  BY <1>1, <1>2 DEF NoneIn
<1>4. ASSUME x \notin M, LastIn(s, M, t) PROVE LastIn(r, M, t)
  <2>1. PICK i \in DOMAIN s : s[i] = t /\ \A j \in DOMAIN s : j > i => s[j] \notin M
    BY <1>4 DEF LastIn
  <2>2. i \in DOMAIN r /\ r[i] = t /\ \A j \in DOMAIN r : j > i => r[j] \notin M
    BY <1>1, <1>2, <1>4, <2>1
  <2> QED BY <2>2 DEF LastIn
<1>5. LastIn(r, M, x)
  <2>1. ~\E j \in DOMAIN r : j > n + 1
    BY <1>1, <1>2
  <2> QED BY <1>1, <1>2, <2>1 DEF LastIn
<1> QED BY <1>3, <1>4, <1>5 DEF r

\* Items that lead to no step of the ignition sequence.
PlainItems ==
    {x \in WorkItem :
        /\ x.action # "ign1"
        /\ x.action = "wq_process" => x.arg # ign_normal
        /\ x.action = "wq_timed" => x.arg \in Sensors}

\* No timed firing is under way.
Unarmed ==
    /\ qw \in Seq(PlainItems) /\ scan \subseteq Sensors
    /\ ~enabled[Ign2Slot] /\ ~enabled[Ign3Slot]

ValveBytes == {set_valve, unset_valve}
ValveItems == {Process(set_valve), Process(unset_valve)}

LastValveByte == ButtonByte(lastValve)

\* The last command to the valve is on the way, or queued, or carried out.
ValveFollows ==
    \/ LastIn(wire, ValveBytes, LastValveByte)
    \/ /\ NoneIn(wire, ValveBytes)
       /\ \/ LastIn(qw, ValveItems, Process(LastValveByte))
          \/ /\ NoneIn(qw, ValveItems)
             /\ valve = (IF lastValve = "Set Valve" THEN "HIGH" ELSE "LOW")

ValveInv ==
    /\ ign_normal \notin commanded => Unarmed
    /\ process = "starting" => lastValve = "none"
    /\ process = "running" /\ ~dropped /\ lastValve # "none" /\ ign_normal \notin commanded
            => ValveFollows

\* A valve item is the command of a valve byte, and of one only.
LEMMA ValveItemFacts ==
    /\ \A x \in WorkItem : x \in ValveItems <=> x.action = "wq_process" /\ x.arg \in ValveBytes
    /\ \A c : Process(c).arg = c /\ Process(c).action = "wq_process"
    /\ ButtonByte("Set Valve") = set_valve /\ ButtonByte("Unset Valve") = unset_valve
    /\ set_valve # unset_valve
<1>1. \A x \in WorkItem : x = [action |-> x.action, arg |-> x.arg]
  BY DEF WorkItem
<1>2. \A x \in WorkItem : x \in ValveItems <=> x.action = "wq_process" /\ x.arg \in ValveBytes
  BY <1>1 DEF ValveItems, ValveBytes, Process
<1> QED BY <1>2 DEF Process, ButtonByte, set_valve, unset_valve

\* Steps of the worker that leave the valve and its commands alone.
LEMMA FollowsKeeps ==
    ASSUME lastValve \in ValveButtons, ValveFollows, UNCHANGED <<wire, lastValve, valve>>,
           NoneIn(qw, ValveItems) => NoneIn(qw', ValveItems),
           \A t \in ValveItems : LastIn(qw, ValveItems, t) => LastIn(qw', ValveItems, t)
    PROVE  ValveFollows'
<1>1. Process(LastValveByte) \in ValveItems /\ LastValveByte' = LastValveByte
  BY ValveItemFacts DEF LastValveByte, ValveButtons, ValveItems
<1> QED BY <1>1 DEF ValveFollows

\* While no firing is under way, the worker starts none and drives the valve
\* only on a command to.
LEMMA ValveWorker ==
    ASSUME TypeOK, Unarmed, Worker, UNCHANGED <<wire, lastValve>>
    PROVE  Unarmed' /\ (ValveFollows /\ lastValve \in ValveButtons => ValveFollows')
<1> USE SlotFacts DEF Unarmed
<1>1. qw \in Seq(WorkItem) /\ enabled \in [Slots -> BOOLEAN] /\ QueueTypeOK
  BY DEF TypeOK, QueueTypeOK, IgnitionTypeOK
<1>2. ASSUME NEW a, Poll(a)
      PROVE  /\ scan = {} /\ Tail(qw) \in Seq(PlainItems) /\ qw # <<>>
             /\ Arg \in Nat /\ Head(qw) \in PlainItems /\ Head(qw) \in WorkItem
             /\ Tail(qw) \in Seq(WorkItem)
             /\ Head(qw).action = a /\ Head(qw).arg = Arg
  <2>1. qw # <<>> /\ Head(qw) \in PlainItems /\ Tail(qw) \in Seq(PlainItems)
    BY <1>2, HeadTailProperties DEF Poll
  <2> QED BY <1>1, <1>2, <2>1, PollFacts DEF Poll, Idle, Arg, PlainItems
<1>3. ASSUME NEW a, Poll(a), Head(qw) \notin ValveItems
      PROVE  /\ NoneIn(qw, ValveItems) => NoneIn(Tail(qw), ValveItems)
             /\ \A t \in ValveItems :
                    LastIn(qw, ValveItems, t) => LastIn(Tail(qw), ValveItems, t)
  BY <1>1, <1>2, <1>3, MarkedTail
<1>4. ASSUME NEW a, Poll(a), a # "wq_process" PROVE Head(qw) \notin ValveItems
  BY <1>2, <1>4, ValveItemFacts
<1>5. CASE Requeue
  <2> DEFINE x == [action |-> RequeuedAs(Arg), arg |-> Arg]
  <2>1. Arg # ign_normal /\ Poll("wq_process") /\ Arg \notin ValveBytes
    BY <1>2, <1>5 DEF Requeue, PlainItems, DirectBytes, ValveBytes
  <2>2. x \in PlainItems /\ x \in WorkItem /\ x.action # "wq_process"
    BY <2>1, <1>2 DEF PlainItems, WorkItem, Actions, RequeuedAs
  <2>3. x \notin ValveItems /\ Head(qw) \notin ValveItems
    BY <2>1, <2>2, <1>2, ValveItemFacts
  <2>4. qw' = Append(Tail(qw), x) /\ UNCHANGED <<scan, enabled, valve>>
    BY <1>5 DEF Requeue, ignitionVars
  <2> HIDE DEF x
  <2>5. qw' \in Seq(PlainItems)
    BY <2>1, <2>2, <2>4, <1>2, AppendProperties
  <2>6. /\ NoneIn(qw, ValveItems) => NoneIn(qw', ValveItems)
        /\ \A t \in ValveItems : LastIn(qw, ValveItems, t) => LastIn(qw', ValveItems, t)
    <3>1. /\ NoneIn(Tail(qw), ValveItems) => NoneIn(qw', ValveItems)
          /\ \A t \in ValveItems : LastIn(Tail(qw), ValveItems, t) => LastIn(qw', ValveItems, t)
      BY <1>2, <2>1, <2>2, <2>3, <2>4, MarkedAppend
    <3> QED BY <1>3, <2>1, <2>3, <3>1
  <2> QED BY <2>4, <2>5, <2>6, FollowsKeeps
<1>6. CASE WriteValve
  <2>1. Poll("wq_process") /\ Arg \in ValveBytes /\ qw' = Tail(qw) /\ UNCHANGED <<scan, enabled>>
    BY <1>6 DEF WriteValve, ValveBytes
  <2>2. Unarmed'
    BY <1>2, <2>1
  <2>3. ASSUME lastValve \in ValveButtons, ValveFollows PROVE ValveFollows'
    <3>1. Head(qw) \in ValveItems
      BY <1>2, <2>1, ValveItemFacts
    <3>2. ~NoneIn(qw, ValveItems)
      BY <1>1, <1>2, <2>1, <3>1, MarkedTail
    <3>3. CASE LastIn(wire, ValveBytes, LastValveByte)
      BY <3>3 DEF ValveFollows, LastValveByte
    <3>4. CASE NoneIn(wire, ValveBytes) /\ LastIn(qw, ValveItems, Process(LastValveByte))
      <4>1. \/ LastIn(qw', ValveItems, Process(LastValveByte))
            \/ Head(qw) = Process(LastValveByte) /\ NoneIn(qw', ValveItems)
        BY <1>1, <1>2, <2>1, <3>4, MarkedTail
      <4>2. Head(qw) = Process(LastValveByte) => Arg = LastValveByte
        BY <1>2, <2>1, ValveItemFacts
      <4>3. Arg = LastValveByte => valve' = (IF lastValve = "Set Valve" THEN "HIGH" ELSE "LOW")
        BY <1>6, <2>3, ValveItemFacts DEF WriteValve, LastValveByte, ValveButtons
      <4> QED BY <3>4, <4>1, <4>2, <4>3 DEF ValveFollows, LastValveByte
    <3> QED BY <2>3, <3>2, <3>3, <3>4 DEF ValveFollows
  <2> QED BY <2>2, <2>3
<1>7. CASE WriteIgnition
  <2>1. /\ Poll("wq_process") /\ Arg \in {set_ignition, unset_ignition}
        /\ qw' = Tail(qw) /\ UNCHANGED <<scan, enabled, valve>>
    BY <1>7 DEF WriteIgnition
  <2>2. Arg \notin ValveBytes
    BY <2>1 DEF ValveBytes, set_ignition, unset_ignition, set_valve, unset_valve
  <2>3. Head(qw) \notin ValveItems
    BY <1>2, <2>1, <2>2, ValveItemFacts
  <2> QED BY <1>2, <1>3, <2>1, <2>3, FollowsKeeps
<1>8. CASE StartStop
  <2>1. /\ Poll("wq_start") \/ Poll("wq_stop")
        /\ qw' = Tail(qw) /\ UNCHANGED <<scan, enabled, valve>>
    BY <1>8 DEF StartStop
  <2> QED BY <1>2, <1>3, <1>4, <2>1, FollowsKeeps
<1>9. ~Ignite
  BY <1>2 DEF Ignite, PlainItems
<1>10. ASSUME NEW s \in Sensors, Sample(s)
       PROVE  Unarmed' /\ (ValveFollows /\ lastValve \in ValveButtons => ValveFollows')
  <2>1. Poll("wq_timed") /\ qw' = Tail(qw) /\ UNCHANGED <<scan, enabled, valve>>
    BY <1>10 DEF Sample, ignitionVars
  <2> QED BY <1>2, <1>3, <1>4, <2>1, FollowsKeeps
<1>11. ~TimedIgn2 /\ ~TimedIgn3
  BY <1>2 DEF TimedIgn2, TimedIgn3, PlainItems
<1>12. CASE Scan
  <2>1. /\ (qw = <<>> /\ qw' = qw) \/ (Poll("wq_none") /\ qw' = Tail(qw))
        /\ UNCHANGED <<enabled, valve>> /\ scan' \subseteq Slots
        /\ \A s \in scan' : enabled[s]
    BY <1>12 DEF Scan, Due, ignitionVars
  <2>2. scan' \subseteq Sensors
    BY <2>1 DEF Slots, Sensors, Ign2Slot, Ign3Slot
  <2>3. CASE qw' = qw
    BY <2>1, <2>2, <2>3, FollowsKeeps
  <2>4. CASE Poll("wq_none") /\ qw' = Tail(qw)
    BY <1>2, <1>3, <1>4, <2>1, <2>2, <2>4, FollowsKeeps
  <2> QED BY <2>1, <2>3, <2>4
<1>13. CASE SendEnqueue
  BY <1>13, FollowsKeeps DEF SendEnqueue, ignitionVars
<1>14. ASSUME NEW s \in Slots, ScanEnqueue(s)
       PROVE  Unarmed' /\ (ValveFollows /\ lastValve \in ValveButtons => ValveFollows')
  <2>1. /\ s \in Sensors /\ qw' = Append(qw, Timed(s)) /\ scan' \subseteq scan
        /\ UNCHANGED <<enabled, valve>>
    BY <1>14 DEF ScanEnqueue, ignitionVars
  <2>2. Timed(s) \in PlainItems /\ Timed(s) \in WorkItem /\ Timed(s).action # "wq_process"
    BY <2>1 DEF Timed, PlainItems, WorkItem, Actions
  <2>3. Timed(s) \notin ValveItems
    BY <2>2, ValveItemFacts
  <2>4. qw' \in Seq(PlainItems)
    BY <2>1, <2>2, AppendProperties
  <2>5. /\ NoneIn(qw, ValveItems) => NoneIn(qw', ValveItems)
        /\ \A t \in ValveItems : LastIn(qw, ValveItems, t) => LastIn(qw', ValveItems, t)
    BY <1>1, <2>1, <2>2, <2>3, MarkedAppend
  <2> QED BY <2>1, <2>4, <2>5, FollowsKeeps
<1> QED
  BY <1>5, <1>6, <1>7, <1>8, <1>9, <1>10, <1>11, <1>12, <1>13, <1>14 DEF Worker

\* A byte read from the wire goes to the back of the queue.
LEMMA ValveDeliver ==
    ASSUME TypeOK, SystemTypeOK, Unarmed, Deliver, ign_normal \notin commanded'
    PROVE  Unarmed' /\ (ValveFollows /\ lastValve \in ValveButtons => ValveFollows')
<1> DEFINE c == Head(wire)
<1>1. /\ c \in Bytes /\ c \in Nat /\ c # ign_normal /\ qw' = Append(qw, Process(c))
      /\ wire # <<>> /\ wire' = Tail(wire) /\ wire \in Seq(Bytes)
      /\ UNCHANGED <<scan, enabled, valve, lastValve>>
  BY DeliverByte, BudgetAssumption DEF Deliver, Command, ignitionVars, processVars, SystemTypeOK
<1> HIDE DEF c
<1>2. Process(c) \in PlainItems /\ Process(c) \in WorkItem /\ qw \in Seq(WorkItem)
  BY <1>1 DEF PlainItems, Process, WorkItem, Actions, TypeOK, QueueTypeOK
<1>3. Unarmed'
  <2>1. qw' \in Seq(PlainItems)
    BY <1>1, <1>2, AppendProperties DEF Unarmed
  <2> QED BY <1>1, <2>1 DEF Unarmed
<1>4. ASSUME ValveFollows, lastValve \in ValveButtons PROVE ValveFollows'
  <2>1. Process(c) \in ValveItems <=> c \in ValveBytes
    BY <1>2, ValveItemFacts
  <2>2. LastValveByte \in ValveBytes /\ LastValveByte' = LastValveByte
    BY <1>1, <1>4, ValveItemFacts DEF LastValveByte, ValveButtons, ValveBytes
  <2>3. CASE LastIn(wire, ValveBytes, LastValveByte)
    <3>1. \/ LastIn(wire', ValveBytes, LastValveByte)
          \/ c = LastValveByte /\ NoneIn(wire', ValveBytes)
      BY <1>1, <2>3, MarkedTail DEF c
    <3>2. LastIn(qw', ValveItems, Process(c))
      BY <1>1, <1>2, MarkedAppend
    <3> QED BY <2>2, <3>1, <3>2 DEF ValveFollows
  <2>4. CASE NoneIn(wire, ValveBytes)
    <3>1. NoneIn(wire', ValveBytes) /\ c \notin ValveBytes
      BY <1>1, <2>4, MarkedTail DEF c
    <3>2. /\ NoneIn(qw, ValveItems) => NoneIn(qw', ValveItems)
          /\ LastIn(qw, ValveItems, Process(LastValveByte))
                => LastIn(qw', ValveItems, Process(LastValveByte))
      BY <1>1, <1>2, <2>1, <3>1, MarkedAppend
    <3>3. ~LastIn(wire, ValveBytes, LastValveByte)
      BY <2>2, <2>4 DEF NoneIn, LastIn
    <3> QED BY <1>1, <1>4, <2>2, <3>1, <3>2, <3>3 DEF ValveFollows
  <2> QED BY <1>4, <2>3, <2>4 DEF ValveFollows
<1> QED BY <1>3, <1>4

\* A press puts its byte behind the others.
LEMMA ValvePress ==
    ASSUME SystemTypeOK, NEW b \in Buttons, Press(b)
    PROVE  /\ b \in ValveButtons => ValveFollows'
           /\ b \notin ValveButtons /\ ValveFollows /\ lastValve \in ValveButtons => ValveFollows'
<1>1. /\ wire' = Append(wire, ButtonByte(b)) /\ wire \in Seq(Bytes) /\ ButtonByte(b) \in Bytes
      /\ UNCHANGED <<qw, valve>> /\ lastValve' = IF b \in ValveButtons THEN b ELSE lastValve
  BY ButtonBytes DEF Press, vars, SystemTypeOK
<1>2. CASE b \in ValveButtons
  <2>1. LastIn(wire', ValveBytes, ButtonByte(b)) /\ LastValveByte' = ButtonByte(b)
    BY <1>1, <1>2, MarkedAppend DEF LastValveByte
  <2> QED BY <1>2, <2>1 DEF ValveFollows
<1>3. ASSUME b \notin ValveButtons, ValveFollows, lastValve \in ValveButtons
      PROVE  ValveFollows'
  <2>1. ButtonByte(b) \notin ValveBytes
    <3>1. b \in {"IGNITE", "UNIGNITE", "ignite"}
      BY <1>3 DEF Buttons, ValveButtons, IgnitionButtons
    <3>2. CASE b = "IGNITE"
      <4>1. ButtonByte("IGNITE") = 6
        BY DEF ButtonByte
      <4> QED BY <3>2, <4>1 DEF ValveBytes, set_valve, unset_valve
    <3>3. CASE b = "UNIGNITE"
      <4>1. ButtonByte("UNIGNITE") = 7
        BY DEF ButtonByte
      <4> QED BY <3>3, <4>1 DEF ValveBytes, set_valve, unset_valve
    <3>4. CASE b = "ignite"
      <4>1. ButtonByte("ignite") = 8
        BY DEF ButtonByte
      <4> QED BY <3>4, <4>1 DEF ValveBytes, set_valve, unset_valve
    <3> QED BY <3>1, <3>2, <3>3, <3>4
  <2>2. LastValveByte' = LastValveByte
    BY <1>1, <1>3 DEF LastValveByte
  <2>3. /\ NoneIn(wire, ValveBytes) => NoneIn(wire', ValveBytes)
        /\ LastIn(wire, ValveBytes, LastValveByte) => LastIn(wire', ValveBytes, LastValveByte)
    BY <1>1, <2>1, MarkedAppend
  <2> QED BY <1>1, <1>3, <2>2, <2>3 DEF ValveFollows
<1> QED BY <1>2, <1>3

\* No step of the system loses a valve command that counts.
LEMMA ValveStep == SystemInv /\ ValveInv /\ [SystemNext]_systemVars => ValveInv'
<1> SUFFICES ASSUME TypeOK, SystemTypeOK, ValveInv, [SystemNext]_systemVars PROVE ValveInv'
    BY DEF SystemInv
<1>0. lastValve # "none" => lastValve \in ValveButtons
  BY DEF SystemTypeOK
<1>1. CASE Start
  <2>1. /\ enabled' = [s \in Slots |-> s \in Sensors] /\ scan' = {} /\ qw' = <<>>
        /\ process' = "starting" /\ lastValve' = "none"
    BY <1>1 DEF Start
  <2>2. ~enabled'[Ign2Slot] /\ ~enabled'[Ign3Slot]
    BY <2>1, SlotFacts
  <2>3. qw' \in Seq(PlainItems)
    BY <2>1
  <2> QED BY <2>1, <2>2, <2>3 DEF ValveInv, Unarmed
<1>2. ASSUME NEW p \in Pins, InitializePin(p) PROVE ValveInv'
  <2>1. /\ UNCHANGED <<qw, scan, enabled, process, commanded, lastValve>>
        /\ process \in {"starting", "exiting"}
    BY <1>2 DEF InitializePin, panelVars
  <2> QED BY <2>1 DEF ValveInv, Unarmed
<1>3. CASE StartThreads
  <2>1. UNCHANGED <<qw, scan, enabled, commanded, lastValve>> /\ process = "starting"
        /\ process' = "running"
    BY <1>3 DEF StartThreads, panelVars, vars
  <2> QED BY <2>1 DEF ValveInv, Unarmed
<1>4. CASE StartFails \/ Exit \/ Ends \/ Killed
  <2>1. UNCHANGED <<qw, scan, enabled, commanded>> /\ process' \in {"off", "exiting"}
    BY <1>4 DEF StartFails, Exit, Ends, Killed, vars
  <2> QED BY <2>1 DEF ValveInv, Unarmed
<1>5. ASSUME NEW b \in Buttons, Press(b) PROVE ValveInv'
  <2>1. /\ UNCHANGED <<qw, scan, enabled, commanded, process, dropped>> /\ process = "running"
        /\ lastValve' = IF b \in ValveButtons THEN b ELSE lastValve
    BY <1>5 DEF Press, vars, processVars
  <2> QED BY <1>0, <1>5, <2>1, ValvePress DEF ValveInv, Unarmed
<1>6. CASE Deliver
  <2>1. /\ UNCHANGED <<process, dropped, lastValve>> /\ process = "running"
        /\ commanded \subseteq commanded'
    BY <1>6 DEF Deliver, processVars
  <2> QED BY <1>0, <1>6, <2>1, ValveDeliver DEF ValveInv
<1>7. CASE DropConnection
  <2>1. /\ UNCHANGED <<qw, scan, enabled, valve, commanded, process, lastValve>>
        /\ wire' = <<>> /\ dropped' = (dropped \/ wire # <<>>) /\ process = "running"
    BY <1>7 DEF DropConnection, NetConnection, processVars, ignitionVars
  <2>2. wire = <<>> /\ ValveFollows => ValveFollows'
    BY <2>1 DEF ValveFollows, LastValveByte
  <2> QED BY <2>1, <2>2 DEF ValveInv, Unarmed
<1>8. CASE WorkerStep
  <2>1. /\ Worker /\ UNCHANGED <<process, dropped, lastValve, wire, commanded>>
        /\ process \in {"running", "exiting"}
    BY <1>8 DEF WorkerStep, processVars, panelVars
  <2> QED BY <1>0, <2>1, ValveWorker DEF ValveInv
<1>9. CASE SystemTick \/ NetWrites \/ WriteReturns \/ UNCHANGED systemVars
  <2>1. UNCHANGED <<qw, scan, enabled, valve, process, dropped, lastValve, wire, commanded>>
    BY <1>9 DEF SystemTick, Tick, NetWrites, WriteReturns, systemVars, vars, processVars,
       panelVars, ignitionVars
  <2>2. ValveFollows => ValveFollows'
    BY <2>1 DEF ValveFollows, LastValveByte
  <2> QED BY <2>1, <2>2 DEF ValveInv, Unarmed
<1> QED BY <1>1, <1>2, <1>3, <1>4, <1>5, <1>6, <1>7, <1>8, <1>9 DEF SystemNext

\* For any number of presses and any delays: once all presses have been carried
\* out, none was lost and nothing was fired, the valve is as the last of its two
\* buttons says.
THEOREM ValveFollowsItsButtons == SystemSpec => []ValveFollowsButtons
<1>1. SystemInit => ValveInv
  <2> SUFFICES ASSUME SystemInit PROVE ValveInv
      OBVIOUS
  <2>1. /\ qw = <<>> /\ scan = {} /\ enabled = [s \in Slots |-> s \in Sensors]
        /\ process = "off"
    BY DEF SystemInit, Init
  <2>2. ~enabled[Ign2Slot] /\ ~enabled[Ign3Slot]
    BY <2>1, SlotFacts
  <2>3. qw \in Seq(PlainItems)
    BY <2>1
  <2> QED BY <2>1, <2>2, <2>3 DEF ValveInv, Unarmed
<1>2. ValveInv => ValveFollowsButtons
  <2> SUFFICES ASSUME ValveInv, process = "running" /\ Settled /\ ~dropped,
                      lastValve # "none" /\ ign_normal \notin commanded
               PROVE  valve = (IF lastValve = "Set Valve" THEN "HIGH" ELSE "LOW")
    BY DEF ValveFollowsButtons
  <2>1. ValveFollows
    BY DEF ValveInv
  <2>2. DOMAIN wire = {} /\ DOMAIN qw = {}
    BY DEF Settled
  <2> QED BY <2>1, <2>2 DEF ValveFollows, LastIn
<1> QED
  BY <1>1, <1>2, SystemTypeInit, SystemTypeStep, ValveStep, PTL DEF SystemSpec

-----------------------------------------------------------------------------
(* The worker's guarantees in every life of the process.                   *)

CutoffInLife ==
    process \in {"running", "exiting"} => SequenceOpenHasCutoff /\ IgniterHasCutoff

\* The threads start with the pins LOW, and from then on the worker keeps the
\* cutoff armed; clearing a pin disarms nothing.
LEMMA CutoffInLifeStep ==
    SystemInv /\ CommandInv /\ CutoffInLife /\ [SystemNext]_systemVars => CutoffInLife'
<1> SUFFICES ASSUME SystemInv, CommandInv, CutoffInLife, [SystemNext]_systemVars,
                    process' \in {"running", "exiting"}
             PROVE  SequenceOpenHasCutoff' /\ IgniterHasCutoff'
  BY DEF CutoffInLife
<1>1. ~Start
  BY DEF Start
<1>2. ASSUME NEW p \in Pins, InitializePin(p)
      PROVE  SequenceOpenHasCutoff' /\ IgniterHasCutoff'
  <2>1. /\ process' = process /\ UNCHANGED <<enabled, valveBy, ignBy>>
        /\ valve' \in {valve, "LOW"} /\ ign' \in {ign, "LOW"}
    BY <1>2 DEF InitializePin
  <2> QED BY <2>1 DEF CutoffInLife, SequenceOpenHasCutoff, IgniterHasCutoff
<1>3. CASE StartThreads
  <2>1. valve' = "LOW" /\ ign' = "LOW"
    BY <1>3 DEF StartThreads, CommandInv, Pins, vars, ignitionVars
  <2> QED BY <2>1 DEF SequenceOpenHasCutoff, IgniterHasCutoff
<1>4. CASE ~StartThreads /\ [Next]_vars
  <2>1. process \in {"running", "exiting"}
    BY <1>1, <1>4 DEF SystemNext, StartFails, Exit, Ends, Killed, InitializePin, Press, Deliver,
       NetWrites, WriteReturns, DropConnection, WorkerStep, SystemTick, systemVars, processVars
  <2> QED BY <1>4, <2>1, CutoffStep DEF CutoffInLife, SystemInv
<1> QED BY <1>1, <1>2, <1>3, <1>4, StepKinds

\* In every life of the process, also after one that was killed in the middle of
\* a burn, a valve that the sequence opened has its cutoff armed, and a lit
\* igniter an item that leads to it.
THEOREM CutoffArmedInEveryLife == SystemSpec => []CutoffInLife
<1>1. SystemInit => CutoffInLife /\ CommandInv
  <2> SUFFICES ASSUME SystemInit PROVE CutoffInLife /\ CommandInv
    OBVIOUS
  <2>1. /\ qw = <<>> /\ scan = {} /\ enabled = [s \in Slots |-> s \in Sensors]
        /\ process = "off"
    BY DEF SystemInit, Init
  <2>2. ~enabled[Ign2Slot]
    BY <2>1, SlotFacts
  <2> QED BY <2>1, <2>2 DEF CommandInv, HighIsCommanded, CutoffInLife
<1> QED
  BY <1>1, SystemTypeInit, SystemTypeStep, CommandStep, CutoffInLifeStep, PTL DEF SystemSpec

\* A new process has nothing queued, and clearing pins queues nothing.
LEMMA ScheduleInLifeStep ==
    ASSUME Bytes \subseteq KnownBytes
    PROVE  SystemInv /\ ScheduleInv /\ [SystemNext]_systemVars => ScheduleInv'
<1> SUFFICES ASSUME SystemInv, ScheduleInv, [SystemNext]_systemVars PROVE ScheduleInv'
  OBVIOUS
<1>1. CASE Start
  <2>1. enabled' = [s \in Slots |-> s \in Sensors] /\ qw' = <<>> /\ scan' = {}
    BY <1>1 DEF Start
  <2>2. ~enabled'[Ign2Slot]
    BY <2>1, SlotFacts
  <2>3. DOMAIN qw' = {}
    BY <2>1
  <2> QED BY <2>1, <2>2, <2>3 DEF ScheduleInv, OnlyKnownItems, TimedAtMostOnce,
     FiringBehindTimed, PendingIsArmed, ArmedSinceLit, Pending, IsTimed
<1>2. CASE \E p \in Pins : InitializePin(p)
  <2>1. UNCHANGED <<qw, scan, age, enabled, sinceLit>>
    BY <1>2 DEF InitializePin, sinceVars
  <2> QED BY <2>1 DEF ScheduleInv, OnlyKnownItems, TimedAtMostOnce, FiringBehindTimed,
     PendingIsArmed, ArmedSinceLit, Pending, IsTimed
<1>3. CASE [Next]_vars
  BY <1>3, ScheduleStep DEF SystemInv
<1> QED BY <1>1, <1>2, <1>3, StepKinds

\* While only bytes of the protocol arrive, no life of the process opens the
\* valve ahead of the schedule, whatever the life before it left queued or lit.
THEOREM OpensOnScheduleInEveryLife ==
    ASSUME Bytes \subseteq KnownBytes
    PROVE  SystemSpec => ValveOpensOnSchedule
<1>1. SystemInit => ScheduleInv
  BY SlotFacts DEF SystemInit, Init, ScheduleInv, OnlyKnownItems, TimedAtMostOnce,
     FiringBehindTimed, PendingIsArmed, ArmedSinceLit, Pending, IsTimed
<1>2. SystemInv /\ ScheduleInv => [TimedIgn2 => sinceLit > Delay[Ign2Slot]]_vars
  BY HandledIsPending DEF ScheduleInv, PendingIsArmed, SystemInv
<1> QED
  BY <1>1, <1>2, SystemTypeInit, SystemTypeStep, ScheduleInLifeStep, PTL
  DEF SystemSpec, ValveOpensOnSchedule

\* A new process has no firing queued and nothing armed.
LEMMA BurnInLifeStep ==
    ASSUME Bytes \subseteq KnownBytes
    PROVE  SystemInv /\ ScheduleInv /\ BurnInv /\ [SystemNext]_systemVars => BurnInv'
<1> SUFFICES ASSUME SystemInv, ScheduleInv, BurnInv, [SystemNext]_systemVars PROVE BurnInv'
  OBVIOUS
<1>1. CASE Start
  <2>1. /\ enabled' = [s \in Slots |-> s \in Sensors] /\ qw' = <<>> /\ scan' = {}
        /\ budget' = budget
    BY <1>1 DEF Start
  <2>2. ~enabled'[Ign2Slot] /\ ~enabled'[Ign3Slot]
    BY <2>1, SlotFacts
  <2>3. DOMAIN qw' = {}
    BY <2>1
  <2>4. Firings' = Firings
    BY <2>1 DEF Firings
  <2>5. OneFires' /\ NoneFires' /\ ~Pending(Ign3Slot)'
    BY <2>1, <2>3 DEF OneFires, NoneFires, Pending
  <2> QED BY <2>2, <2>4, <2>5 DEF BurnInv, OneFiring, CutoffClock
<1>2. CASE \E p \in Pins : InitializePin(p)
  <2>1. UNCHANGED <<qw, scan, age, enabled, sinceOpen, budget>>
    BY <1>2 DEF InitializePin, sinceVars, netVars
  <2> QED BY <2>1 DEF BurnInv, OneFiring, CutoffClock, OneFires, NoneFires, Pending, IsTimed,
     Firings
<1>3. CASE [Next]_vars
  BY <1>3, BurnStep, SystemAssumption DEF SystemInv
<1> QED BY <1>1, <1>2, <1>3, StepKinds

\* While only bytes of the protocol arrive, the cutoff of the one firing there
\* has been, in whichever life, comes at IGN3_T at the earliest, whatever was
\* started or killed before.
THEOREM SingleBurnLastsInEveryLife ==
    ASSUME Bytes \subseteq KnownBytes
    PROVE  SystemSpec => SingleBurnLastsItsTime
<1>1. SystemInit => ScheduleInv /\ BurnInv
  <2> SUFFICES ASSUME SystemInit PROVE ScheduleInv /\ BurnInv
    OBVIOUS
  <2>1. /\ enabled = [s \in Slots |-> s \in Sensors] /\ qw = <<>> /\ scan = {}
        /\ budget = Budget
    BY DEF SystemInit, Init
  <2>2. ~enabled[Ign2Slot] /\ ~enabled[Ign3Slot]
    BY <2>1, SlotFacts
  <2>3. DOMAIN qw = {}
    BY <2>1
  <2>4. ScheduleInv
    BY <2>1, <2>2, <2>3 DEF ScheduleInv, OnlyKnownItems, TimedAtMostOnce, FiringBehindTimed,
       PendingIsArmed, ArmedSinceLit, Pending
  <2>5. Firings = 0
    <3>1. Budget[ign_normal] \in Nat
      BY SystemAssumption, BudgetAssumption
    <3>2. Budget[ign_normal] - Budget[ign_normal] = 0
      BY <3>1
    <3> QED BY <2>1, <3>2 DEF Firings
  <2>6. OneFires /\ NoneFires /\ ~Pending(Ign3Slot)
    BY <2>1, <2>3 DEF OneFires, NoneFires, Pending
  <2> QED BY <2>2, <2>4, <2>5, <2>6 DEF BurnInv, OneFiring, CutoffClock
<1>2. SystemInv /\ BurnInv
        => [TimedIgn3 /\ Firings = 1 => sinceOpen > Delay[Ign3Slot]]_vars
  BY HandledIsPending DEF BurnInv, CutoffClock, SystemInv
<1> QED
  BY <1>1, <1>2, SystemTypeInit, SystemTypeStep, ScheduleInLifeStep, BurnInLifeStep, PTL
  DEF SystemSpec, SingleBurnLastsItsTime

\* A new process opens a new account, and clearing pins enters nothing.
LEMMA AccountInLifeStep ==
    SystemInv /\ AccountInv /\ AnnouncedInOrder /\ [SystemNext]_systemVars
        => AccountInv' /\ AnnouncedInOrder'
<1> SUFFICES ASSUME SystemInv, AccountInv, AnnouncedInOrder, [SystemNext]_systemVars
             PROVE  AccountInv' /\ AnnouncedInOrder'
  OBVIOUS
<1>1. CASE Start
  <2>1. /\ written' = [s \in Sensors |-> 0] /\ lastSent' = [s \in Sensors |-> 0]
        /\ taken' = [s \in Sensors |-> 0] /\ lost' = [s \in Sensors |-> 0]
        /\ outbox' = <<>> /\ qn' = <<>>
    BY <1>1 DEF Start
  <2>2. Fresh'
    BY <2>1 DEF Fresh
  <2> QED BY <2>2, FreshAccount, PTL
<1>2. CASE \E p \in Pins : InitializePin(p)
  <2>1. UNCHANGED <<qn, outbox, lastSent, taken, lost>>
    BY <1>2 DEF InitializePin, telemetryVars
  <2> QED BY <2>1 DEF AccountInv, AnnouncedInOrder, Announced
<1>3. CASE [Next]_vars
  BY <1>3, AccountStep, AnnouncedStep DEF SystemInv
<1> QED BY <1>1, <1>2, <1>3, StepKinds

\* In every life of the process the announcements follow one another, and each
\* record is accounted for once; none is carried over from a life before.
THEOREM AccountedInEveryLife == SystemSpec => [](AnnouncedInOrder /\ EveryRecordAccounted)
<1>1. SystemInit => AccountInv /\ AnnouncedInOrder
  BY FreshAccount DEF SystemInit, Init, Fresh
<1>2. SystemInv /\ AccountInv => EveryRecordAccounted
  BY AccountCloses DEF SystemInv
<1> QED
  BY <1>1, <1>2, SystemTypeInit, SystemTypeStep, AccountInLifeStep, PTL DEF SystemSpec
=============================================================================
