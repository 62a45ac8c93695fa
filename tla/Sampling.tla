------------------------------ MODULE Sampling ------------------------------
(***************************************************************************)
(* When the timed items of final/main_worker.cpp run, by a clock that may  *)
(* be set, and what the sampling ones among them read.  MainWorker has the *)
(* whole worker thread under a clock that only runs forward; this module   *)
(* has the clock's arithmetic and the ADCs, and of the worker              *)
(* check_ti_list, the wq_timed items, and the bytes outside the protocol,  *)
(* which make it run check_ti_list on a queue that is not empty.           *)
(*                                                                         *)
(* A definition named <D>_<Bug> is D with that bug; no behaviour of this    *)
(* module uses it.                                                         *)
(***************************************************************************)
EXTENDS Timestamps, AdcBlock, Sequences

CONSTANTS
    Sensors,    \* the sampled slots of ti_list
    Input,      \* ti_list[s].ai
    Delay,      \* delay of each slot, in ticks
    Codes,      \* results that the converters may give
    MaxBurns,   \* bound: how often the valve is opened
    MaxUnknown  \* bound: bytes outside the protocol that arrive

Cutoff == "ign3"
Slots  == Sensors \cup {Cutoff}

\* A timed item of qw is named by its slot; the others are a byte outside the
\* protocol (a wq_process item) and the wq_none item it is turned into.
Items == Slots \cup {"unknown", "wq_none"}

\* Where main_worker finds each sensor.
At(pin, channel) == [pin |-> pin, single_channel |-> 1, channel |-> channel]

SensorInput ==
    [lc_main |-> At(LC_ADC, 0), lc1 |-> At(LC_ADC, 1), lc2 |-> At(LC_ADC, 2),
     lc3 |-> At(LC_ADC, 3), pt_inje |-> At(PT_ADC, 1), pt_comb |-> At(PT_ADC, 2),
     pt_feed |-> At(PT_ADC, 0), tc1 |-> At(TC_ADC, 4), tc2 |-> At(TC_ADC, 5),
     tc3 |-> At(TC_ADC, 6)]

ASSUME NoInputIsShared ==
    \A s, r \in DOMAIN SensorInput : SensorInput[s] = SensorInput[r] => s = r

ASSUME SamplingAssumption ==
    /\ Sensors \cap {Cutoff, "unknown", "wq_none"} = {} /\ Input \in [Sensors -> Inputs]
    /\ Delay \in [Slots -> Nat] /\ Codes \subseteq Results
    /\ MaxBurns \in Nat /\ MaxUnknown \in Nat

VARIABLES
    qw,          \* the queued work items, oldest first
    scan,        \* due slots that check_ti_list has not enqueued yet
    rested,      \* check_ti_list found nothing due since the last tick
    enabled,     \* ti_list[s].enabled
    scheduled,   \* ti_list[s].scheduled
    record,      \* adcd but for its time: the last record added, and the sensor it is from
    burns,       \* how often the valve was opened
    unknown,     \* bytes outside the protocol so far
    since,       \* history: ticks since the slot was restarted
    forward,     \* history: by how much the clock was set forward since then
    back,        \* history: by how much it was set back since then
    strayed,     \* history: whether the clock was behind base_time then or since
    stale        \* history: slots with an item queued before their last restart

clockVars == <<wall, base_time, jumps>>
adcVars   == <<chipSelect, level, converted, reading>>
pastVars  == <<since, forward, back, strayed>>
queueVars == <<qw, scan>>
vars == <<clockVars, adcVars, queueVars, rested, enabled, scheduled, record, burns, unknown,
          pastVars, stale>>

Queued(s) == \E i \in DOMAIN qw : qw[i] = s

Init ==
    /\ ClockInit /\ AdcInit
    /\ qw = <<>> /\ scan = {} /\ rested = FALSE
    /\ enabled = [s \in Slots |-> s \in Sensors]
    /\ scheduled = [s \in Slots |-> get_time]
    /\ record = [sensor |-> Cutoff, dat |-> 0] /\ burns = 0 /\ unknown = 0
    /\ since = [s \in Slots |-> 0] /\ forward = [s \in Slots |-> 0]
    /\ back = [s \in Slots |-> 0] /\ strayed = [s \in Slots |-> FALSE]
    /\ stale = {}

-----------------------------------------------------------------------------
Due_WithoutOrder(s) == enabled[s] /\ Difference(get_time, scheduled[s]) > Delay[s]

\* check_ti_list's condition.
Due(s) ==
    /\ enabled[s]
    /\ get_time > scheduled[s]
    /\ Difference(get_time, scheduled[s]) > Delay[s]

\* An idle turn finds the queue empty; a wq_none item at its head may have
\* others behind it.
Idle ==
    /\ scan = {}
    /\ \/ qw = <<>> /\ qw' = qw
       \/ qw # <<>> /\ Head(qw) = "wq_none" /\ qw' = Tail(qw)

\* ti_count is one short, and the last slot never looked at.
Scan_MissesLast ==
    /\ Idle
    /\ scan' = {s \in Sensors : Due(s)}
    /\ rested' = (scan' = {} /\ qw' = <<>>)
    /\ UNCHANGED <<clockVars, adcVars, enabled, scheduled, record, burns, unknown, pastVars, stale>>

\* check_ti_list finds the due items, at one reading of the clock, whether they
\* are queued already or not.
Scan ==
    /\ Idle
    /\ scan' = {s \in Slots : Due(s)}
    /\ rested' = (scan' = {} /\ qw' = <<>>)
    /\ UNCHANGED <<clockVars, adcVars, enabled, scheduled, record, burns, unknown, pastVars, stale>>

\* It queues them; nothing here depends on their order.
ScanEnqueue(s) ==
    /\ s \in scan
    /\ scan' = scan \ {s}
    /\ qw' = Append(qw, s)
    /\ UNCHANGED <<clockVars, adcVars, rested, enabled, scheduled, record, burns, unknown, pastVars,
                   stale>>

\* The network thread queues a byte outside the protocol, at any moment.
UnknownArrives ==
    /\ unknown < MaxUnknown
    /\ unknown' = unknown + 1
    /\ qw' = Append(qw, "unknown")
    /\ rested' = FALSE
    /\ UNCHANGED <<clockVars, adcVars, scan, enabled, scheduled, record, burns, pastVars, stale>>

\* The worker thread queues a wq_none item for it.
HandleUnknown ==
    /\ scan = {} /\ qw # <<>> /\ Head(qw) = "unknown"
    /\ qw' = Append(Tail(qw), "wq_none")
    /\ UNCHANGED <<clockVars, adcVars, scan, rested, enabled, scheduled, record, burns, unknown,
                   pastVars, stale>>

\* Slot s is scheduled from now on; an item of it that is still queued is not
\* taken back.
Restart(s) ==
    /\ scheduled' = [scheduled EXCEPT ![s] = get_time]
    /\ since' = [since EXCEPT ![s] = 0]
    /\ forward' = [forward EXCEPT ![s] = 0]
    /\ back' = [back EXCEPT ![s] = 0]
    /\ strayed' = [strayed EXCEPT ![s] = BehindBase]
    /\ stale' = IF Queued(s)' THEN stale \cup {s} ELSE stale \ {s}

Handle(s) ==
    /\ scan = {} /\ qw # <<>> /\ Head(qw) = s
    /\ qw' = Tail(qw) /\ UNCHANGED scan
    /\ Restart(s)

\* A sensor's item: read the ADC and store a record.
Sample(s, code, noise) ==
    /\ Handle(s)
    /\ ReadItem(Input[s], code, noise)
    /\ record' = [sensor |-> s, dat |-> reading']
    /\ UNCHANGED <<clockVars, rested, enabled, burns, unknown>>

\* The cutoff's item: close the valve.
CutOff ==
    /\ Handle(Cutoff)
    /\ enabled' = [enabled EXCEPT ![Cutoff] = FALSE]
    /\ UNCHANGED <<clockVars, adcVars, rested, record, burns, unknown>>

\* The item that opens the valve enables the cutoff anew; it comes from an
\* earlier firing, at any turn of the loop, in the middle of a burn too.
Open ==
    /\ scan = {} /\ burns < MaxBurns
    /\ UNCHANGED queueVars
    /\ burns' = burns + 1
    /\ enabled' = [enabled EXCEPT ![Cutoff] = TRUE]
    /\ Restart(Cutoff)
    /\ rested' = FALSE
    /\ UNCHANGED <<clockVars, adcVars, record, unknown>>

\* A loop turn is far shorter than a tick: between two ticks the worker comes
\* to find nothing due.
Tick ==
    /\ rested /\ rested' = FALSE
    /\ ClockTicks
    /\ since' = [s \in Slots |-> since[s] + 1]
    /\ UNCHANGED <<adcVars, queueVars, enabled, scheduled, record, burns, unknown, forward, back,
                   strayed, stale>>

\* Somebody sets the clock, at any moment.
Jump(d) ==
    /\ ClockJumps(d)
    /\ rested' = FALSE
    /\ forward' = IF d > 0 THEN [s \in Slots |-> forward[s] + d] ELSE forward
    /\ back' = IF d < 0 THEN [s \in Slots |-> back[s] - d] ELSE back
    /\ strayed' = [s \in Slots |-> strayed[s] \/ BehindBase']
    /\ UNCHANGED <<adcVars, queueVars, enabled, scheduled, record, burns, unknown, since, stale>>

Next ==
    \/ Scan \/ (\E s \in Slots : ScanEnqueue(s)) \/ CutOff \/ Open \/ Tick
    \/ UnknownArrives \/ HandleUnknown
    \/ \E s \in Sensors, code \in Codes, noise \in TwoBits : Sample(s, code, noise)
    \/ \E d \in Jumps : Jump(d)

Spec == Init /\ [][Next]_vars

-----------------------------------------------------------------------------
(* Properties                                                              *)

\* A timed item never runs before its delay has passed, but for what the clock
\* was set forward meanwhile: the burn lasts IGN3_T (main_worker.hpp: "IGN3_T
\* 3000000 // 3000 ms").  It says nothing of an item whose slot was restarted
\* after it was queued (queued twice by way of unknown bytes, or a cutoff that was
\* due when the valve was opened again), nor of a clock behind base_time.
NeverEarly ==
    [][\A s \in Slots :
          Handle(s) /\ s \notin stale /\ ~strayed[s] => since[s] + forward[s] > Delay[s]]_vars

\* An enabled item never waits for more than its delay and a tick, but for what
\* the clock was set back meanwhile.  It says nothing of a clock behind base_time.
NeverLate ==
    \A s \in Slots : enabled[s] /\ ~strayed[s] => since[s] <= Delay[s] + back[s] + 1

\* Every record holds what the converter made of its own sensor's input, which
\* was the only one to answer.
ReadingIsSensors ==
    record.sensor \in Sensors =>
        /\ converted.inputs = {Input[record.sensor]}
        /\ record.dat = converted.code
=============================================================================
