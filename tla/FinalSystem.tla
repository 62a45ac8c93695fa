---------------------------- MODULE FinalSystem ----------------------------
(***************************************************************************)
(* The program of final/main.cpp around its worker thread: start-up, the   *)
(* ends of the process, and the ground station's buttons in front of it.   *)
(*                                                                         *)
(* Start-up runs initialize_pins, then starts the threads.  exit, called   *)
(* on the network thread, runs initialize_pins again (main.cpp registers   *)
(* it with atexit) while the worker thread goes on; a signal, which        *)
(* nothing in the program handles, ends it at once and leaves the pins as  *)
(* they are.  The program can then be started again.                       *)
(*                                                                         *)
(* A press sends one byte down the connection, the network thread queues   *)
(* it as a wq_process item, and the worker drives a pin.  A connection     *)
(* that drops takes the bytes on the way with it, and while the network     *)
(* thread is in a write, which a peer that does not read may hold for good, *)
(* it reads nothing.                                                       *)
(*                                                                         *)
(* A definition named <D>_<Bug> is D with that bug; no behaviour of this    *)
(* module uses it.                                                         *)
(***************************************************************************)
EXTENDS MainWorker

CONSTANTS
    MaxPresses,   \* bound: button presses in a behaviour
    MaxStarts     \* bound: starts of the program in a behaviour

VARIABLES
    process,   \* where the process is: see Phases
    writing,   \* the network thread is in a write
    cleared,   \* pins that initialize_pins has written in this call, of Pins
    starts,    \* how often the program was started
    wire,      \* bytes the panel sent and the server has not read
    lastValve, \* history: the valve button pressed last in this life
    lastIgn,   \* history: the ignition button pressed last in this life
    dropped,   \* history: bytes were lost with a connection of this life
    commanded, \* history: command bytes that this life received
    quiet,     \* history: the process ended by exit with no pin item pending
    presses

processVars == <<process, writing, cleared, starts, quiet>>
panelVars   == <<wire, lastValve, lastIgn, dropped, presses>>
systemVars  == <<vars, processVars, panelVars, commanded>>

Phases == {"off", "starting", "running", "exiting"}
Pins   == {"MAIN_VALVE", "IGN_START"}

ValveButtons    == {"Set Valve", "Unset Valve"}
IgnitionButtons == {"IGNITE", "UNIGNITE"}
Buttons         == ValveButtons \cup IgnitionButtons \cup {"ignite"}

ButtonByte_ValveSwapped(b) == CASE b = "Set Valve"   -> 4
                                [] b = "Unset Valve" -> 5
                                [] b = "IGNITE"      -> 6
                                [] b = "UNIGNITE"    -> 7
                                [] b = "ignite"      -> 8

ButtonByte_AsText(b) == CASE b = "Set Valve"   -> 53
                          [] b = "Unset Valve" -> 52
                          [] b = "IGNITE"      -> 54
                          [] b = "UNIGNITE"    -> 55
                          [] b = "ignite"      -> 56

\* The byte each button sends, of server_info.py: SET_VALVE, UNSET_VALVE,
\* SET_IGNITION and UNSET_IGNITION; and NORM_IGNITE, which the backend's
\* ignite sends.
ButtonByte(b) == CASE b = "Set Valve"   -> 5
                   [] b = "Unset Valve" -> 4
                   [] b = "IGNITE"      -> 6
                   [] b = "UNIGNITE"    -> 7
                   [] b = "ignite"      -> 8

ASSUME SystemAssumption ==
    /\ MaxPresses \in Nat /\ MaxStarts \in Nat
    /\ DirectBytes \cup {ign_normal} \subseteq Bytes

SystemInit ==
    /\ Init
    /\ process = "off" /\ writing = FALSE /\ cleared = {} /\ starts = 0 /\ quiet = TRUE
    /\ wire = <<>> /\ lastValve = "none" /\ lastIgn = "none"
    /\ dropped = FALSE /\ presses = 0 /\ commanded = {}

-----------------------------------------------------------------------------
(* The process.                                                            *)

\* main begins: the new process has empty queues and knows no peer; the pins
\* are as the last process left them.
Start ==
    /\ process = "off" /\ starts < MaxStarts
    /\ process' = "starting" /\ cleared' = {} /\ starts' = starts + 1
    /\ qw' = <<>> /\ scan' = {} /\ outbox' = <<>> /\ qn' = <<>>
    /\ enabled' = [s \in Slots |-> s \in Sensors]
    /\ age' = [s \in Slots |-> 0]
    /\ sending' = FALSE
    /\ written' = [s \in Sensors |-> 0] /\ lastSent' = written'
    /\ taken' = written' /\ lost' = written' /\ sendAge' = written'
    /\ sinceLit' = 0 /\ sinceOpen' = 0
    /\ connected' \in BOOLEAN
    /\ wire' = <<>> /\ lastValve' = "none" /\ lastIgn' = "none"
    /\ dropped' = FALSE /\ commanded' = {}
    /\ UNCHANGED <<valve, ign, valveBy, ignBy, budget, presses, writing, quiet>>

InitializePin_SkipsIgniter(p) ==
    /\ process \in {"starting", "exiting"}
    /\ p \notin cleared
    /\ p = "IGN_START" => "MAIN_VALVE" \in cleared
    /\ cleared' = cleared \cup {p}
    /\ valve' = IF p = "MAIN_VALVE" THEN "LOW" ELSE valve
    /\ UNCHANGED <<qw, scan, age, sinceVars, enabled, sending, ign, valveBy, ignBy, telemetryVars,
                   netVars, process, writing, starts, quiet, panelVars, commanded>>

InitializePin_KeepsValve(p) ==
    /\ process \in {"starting", "exiting"}
    /\ p \notin cleared
    /\ p = "IGN_START" => "MAIN_VALVE" \in cleared
    /\ cleared' = cleared \cup {p}
    /\ ign' = IF p = "IGN_START" THEN "LOW" ELSE ign
    /\ UNCHANGED <<qw, scan, age, sinceVars, enabled, sending, valve, valveBy, ignBy,
                   telemetryVars, netVars, process, writing, starts, quiet, panelVars, commanded>>

\* initialize_pins, in its order: the valve, then the igniter.
InitializePin(p) ==
    /\ process \in {"starting", "exiting"}
    /\ p \notin cleared
    /\ p = "IGN_START" => "MAIN_VALVE" \in cleared
    /\ cleared' = cleared \cup {p}
    /\ valve' = IF p = "MAIN_VALVE" THEN "LOW" ELSE valve
    /\ ign' = IF p = "IGN_START" THEN "LOW" ELSE ign
    /\ UNCHANGED <<qw, scan, age, sinceVars, enabled, sending, valveBy, ignBy, telemetryVars,
                   netVars, process, writing, starts, quiet, panelVars, commanded>>

\* The rest of start-up is done and the threads run.
StartThreads ==
    /\ process = "starting" /\ cleared = Pins
    /\ process' = "running" /\ quiet' = FALSE
    /\ UNCHANGED <<vars, writing, cleared, starts, panelVars, commanded>>

\* main returns: the arguments or bcm2835_init before initialize_pins, SPI or
\* atexit after it.
StartFails ==
    /\ process = "starting" /\ cleared \in {{}, Pins}
    /\ process' = "off" /\ quiet' = (cleared = Pins)
    /\ UNCHANGED <<vars, writing, cleared, starts, panelVars, commanded>>

\* Work items that, when handled, neither drive a pin HIGH nor lead to one that
\* does.
QuietItems ==
    {x \in WorkItem :
        /\ x.action # "ign1"
        /\ x.action = "wq_process" => x.arg \notin {set_valve, set_ignition, ign_normal}
        /\ x.action = "wq_timed" => x.arg # Ign2Slot}

NoPinPending == qw \in Seq(QuietItems) /\ ~enabled[Ign2Slot] /\ Ign2Slot \notin scan

\* The network thread calls exit: poll failed, or the port cannot be opened.
Exit ==
    /\ process = "running" /\ ~writing
    /\ process' = "exiting" /\ cleared' = {}
    /\ quiet' = NoPinPending
    /\ UNCHANGED <<vars, writing, starts, panelVars, commanded>>

\* The exit handlers are done and the process, with its worker, is gone.
Ends ==
    /\ process = "exiting" /\ cleared = Pins
    /\ process' = "off"
    /\ UNCHANGED <<vars, writing, cleared, starts, quiet, panelVars, commanded>>

\* A signal ends the process: SIGPIPE from a write, or the operator's.
Killed ==
    /\ process \in {"starting", "running", "exiting"}
    /\ process' = "off" /\ writing' = FALSE /\ quiet' = FALSE
    /\ UNCHANGED <<vars, cleared, starts, panelVars, commanded>>

-----------------------------------------------------------------------------
(* The panel and the connection, while the network thread runs.            *)
Press(b) ==
    /\ process = "running" /\ presses < MaxPresses
    /\ presses' = presses + 1
    /\ wire' = Append(wire, ButtonByte(b))
    /\ lastValve' = IF b \in ValveButtons THEN b ELSE lastValve
    /\ lastIgn' = IF b \in IgnitionButtons THEN b ELSE lastIgn
    /\ UNCHANGED <<vars, dropped, processVars, commanded>>

\* It begins to write to the peer (what it writes is not followed here) ...
NetWrites ==
    /\ process = "running" /\ connected /\ ~writing
    /\ writing' = TRUE
    /\ UNCHANGED <<vars, process, cleared, starts, quiet, panelVars, commanded>>

\* ... and write returns, if the peer reads, goes or is lost.
WriteReturns ==
    /\ process = "running" /\ writing
    /\ writing' = FALSE
    /\ UNCHANGED <<vars, process, cleared, starts, quiet, panelVars, commanded>>


\* The network thread reads a byte and queues it for the worker.
Deliver ==
    /\ process = "running" /\ ~writing /\ wire # <<>>
    /\ Command(Head(wire))
    /\ commanded' = commanded \cup {Head(wire)}
    /\ wire' = Tail(wire)
    /\ UNCHANGED <<lastValve, lastIgn, dropped, presses, processVars>>

\* The connection drops: what was on the way never arrives.
DropConnection ==
    /\ process = "running" /\ ~writing
    /\ NetConnection
    /\ wire' = <<>>
    /\ dropped' = (dropped \/ wire # <<>>)
    /\ UNCHANGED <<lastValve, lastIgn, presses, processVars, commanded>>

\* The worker thread runs until the process is gone, exit or not.
WorkerStep ==
    /\ process \in {"running", "exiting"}
    /\ Worker
    /\ UNCHANGED <<processVars, panelVars, commanded>>

SystemTick == Tick /\ UNCHANGED <<processVars, panelVars, commanded>>

SystemNext ==
    \/ Start \/ StartThreads \/ StartFails \/ Exit \/ Ends \/ Killed
    \/ \E p \in Pins : InitializePin(p)
    \/ \E b \in Buttons : Press(b)
    \/ NetWrites \/ WriteReturns \/ Deliver \/ DropConnection
    \/ WorkerStep \/ SystemTick

\* The threads are not starved.  Between writes the network thread comes to read,
\* however many there are: its read is an item of its queue like each of them.
\* That a write returns is not assumed.
SystemSpec ==
    /\ SystemInit /\ [][SystemNext]_systemVars
    /\ WF_systemVars(WorkerStep) /\ SF_systemVars(Deliver)
    /\ \A p \in Pins : WF_systemVars(InitializePin(p))
    /\ WF_systemVars(Ends)

-----------------------------------------------------------------------------
(* Properties                                                              *)

\* The process is in a known phase, and its histories have their types.
SystemTypeOK ==
    /\ process \in Phases /\ writing \in BOOLEAN /\ cleared \in SUBSET Pins
    /\ starts \in 0 .. MaxStarts /\ presses \in 0 .. MaxPresses
    /\ wire \in Seq(Bytes) /\ commanded \in SUBSET Bytes
    /\ lastValve \in ValveButtons \cup {"none"}
    /\ lastIgn \in IgnitionButtons \cup {"none"}
    /\ dropped \in BOOLEAN /\ quiet \in BOOLEAN

\* Every press has been carried out, or lost with its connection.
Settled == wire = <<>> /\ qw = <<>>

\* With all presses carried out, none lost and no timed firing, the valve is as
\* the last of the two valve buttons says, whatever was pressed between.
ValveFollowsButtons ==
    process = "running" /\ Settled /\ ~dropped /\ lastValve # "none" /\ ign_normal \notin commanded
        => valve = (IF lastValve = "Set Valve" THEN "HIGH" ELSE "LOW")

\* The igniter is as the last of the buttons IGNITE and UNIGNITE says, which
\* is what their labels promise (gui_final.py) and their constants are named
\* for (server_info.py).
IgniterFollowsButtons ==
    process = "running" /\ Settled /\ ~dropped /\ lastIgn # "none" /\ ign_normal \notin commanded
        => ign = (IF lastIgn = "IGNITE" THEN "HIGH" ELSE "LOW")


\* A process that left by exit with nothing pending that drives a pin (or whose
\* start-up failed) has left both pins LOW, although the worker runs on beside
\* the exit handlers.
QuietEndLeavesPinsLow == process = "off" /\ quiet => valve = "LOW" /\ ign = "LOW"

\* A pin is HIGH in a running process only because this very process received a
\* command to: nothing that a process which died left behind drives one.
HighIsCommanded ==
    process \in {"running", "exiting"} =>
        /\ valve = "HIGH" => commanded \cap {set_valve, ign_normal} # {}
        /\ ign = "HIGH" => commanded \cap {set_ignition, ign_normal} # {}

\* Why HighIsCommanded holds: items that lead to a HIGH pin were commanded, and
\* start-up has cleared the pins before anything runs.
CommandedItems ==
    {x \in WorkItem :
        /\ x.action = "wq_process" => x.arg \in commanded
        /\ x.action = "ign1" => ign_normal \in commanded
        /\ x.action = "wq_timed" /\ x.arg = Ign2Slot => ign_normal \in commanded}

CommandInv ==
    /\ qw \in Seq(CommandedItems)
    /\ enabled[Ign2Slot] \/ Ign2Slot \in scan => ign_normal \in commanded
    /\ HighIsCommanded
    /\ process = "starting" =>
          /\ "MAIN_VALVE" \in cleared => valve = "LOW"
          /\ "IGN_START" \in cleared => ign = "LOW"

\* Why QuietEndLeavesPinsLow holds: beside the exit handlers the worker only
\* handles items that drive no pin HIGH.
QuietInv ==
    /\ QuietEndLeavesPinsLow
    /\ process = "exiting" /\ quiet =>
          /\ NoPinPending
          /\ "MAIN_VALVE" \in cleared => valve = "LOW"
          /\ "IGN_START" \in cleared => ign = "LOW"
=============================================================================
