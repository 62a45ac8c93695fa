-------------------------- MODULE SamplingProofs --------------------------
(***************************************************************************)
(* Proofs about Sampling, for every set of sensors, every delay, every     *)
(* width of the clock and every way to set it.                             *)
(***************************************************************************)
EXTENDS Sampling, TLAPS

-----------------------------------------------------------------------------
(* The inductive invariant.                                                *)

\* The clock is between its bounds, and base_time is what main stored.
ClockOK == wall \in 0 .. MaxWall /\ base_time = BootTime

ItemsOK ==
    /\ qw \in Seq(Items) /\ scan \in SUBSET Slots /\ rested \in BOOLEAN
    /\ enabled \in [Slots -> BOOLEAN] /\ scheduled \in [Slots -> 0 .. Width - 1]
    /\ record \in [sensor : Slots, dat : Int]

PastOK ==
    /\ since \in [Slots -> Nat] /\ forward \in [Slots -> Nat] /\ back \in [Slots -> Nat]
    /\ strayed \in [Slots -> BOOLEAN]

\* Between two transfers every chip select is high.
AdcIdle == level = [p \in Pins |-> "HIGH"]

\* How far the clock has come since slot s was restarted.
Passed(s) == since[s] + forward[s] - back[s]

\* Unless the clock was behind base_time, the slot's schedule tells how far.
ScheduleTells ==
    \A s \in Slots : ~strayed[s] => wall >= base_time /\ scheduled[s] + Passed(s) = wall - base_time

\* The delay of a queued item has passed, unless its slot was restarted since,
\* and the delay of what check_ti_list is about to queue.
OnTheirWay ==
    /\ \A i \in DOMAIN qw :
          qw[i] \in Slots /\ qw[i] \notin stale /\ ~strayed[qw[i]]
             => since[qw[i]] + forward[qw[i]] > Delay[qw[i]]
    /\ \A s \in scan : ~strayed[s] => since[s] + forward[s] > Delay[s]

\* When the worker rests, nothing is on its way and nothing is overdue.
RestsInTime ==
    rested =>
        /\ qw = <<>> /\ scan = {}
        /\ \A s \in Slots : enabled[s] /\ ~strayed[s] => Passed(s) <= Delay[s]

TimeInv == ClockOK /\ ItemsOK /\ PastOK /\ ScheduleTells /\ OnTheirWay /\ RestsInTime

-----------------------------------------------------------------------------
(* What the converters answer and read_item makes of it.                   *)

\* read_item's shifts, mask and swap give back the twelve bits of the result,
\* whatever the other bits of the answer are.
LEMMA DecodesExactly ==
    ASSUME NEW code \in Results, NEW noise \in TwoBits
    PROVE  Decoded(HighByte(code, noise), LowByte(code, noise)) = code
<1> DEFINE top  == code \div 256
           mid  == (code \div 64) % 4
           low  == code % 64
           high == HighByte(code, noise)
           last == LowByte(code, noise)
<1>1. /\ top \in 0 .. 15 /\ mid \in 0 .. 3 /\ low \in 0 .. 63
      /\ code \div 64 = 4 * top + mid
      /\ code = 256 * top + 64 * mid + low
  BY DEF Results
<1>2. (high \div 4) % 16 = top /\ high % 4 = mid
  BY <1>1 DEF HighByte, TwoBits
<1>3. last \div 4 = low
  BY <1>1 DEF LowByte, TwoBits
<1> DEFINE second == low + 64 * mid
<1>4. Decoded(high, last) = Swapped(top + 256 * second)
  BY <1>2, <1>3 DEF Decoded
<1>5. second \in 0 .. 255 /\ code = 256 * top + second
  BY <1>1
<1>6. Swapped(top + 256 * second) = 256 * top + second
  <2> HIDE DEF top, second
  <2>1. (top + 256 * second) % 256 = top /\ (top + 256 * second) \div 256 = second
    BY <1>1, <1>5
  <2> QED BY <2>1 DEF Swapped
<1> HIDE DEF top, second, high, last
<1> QED BY <1>4, <1>5, <1>6 DEF high, last

\* The command byte names the input it was made from.
LEMMA CommandNamesInput ==
    ASSUME NEW input \in Inputs
    PROVE  Addressed(input.pin, CommandByte(input)) = input
<1>1. /\ input.single_channel \in 0 .. 1 /\ input.channel \in 0 .. 7
      /\ input = [pin |-> input.pin, single_channel |-> input.single_channel,
                  channel |-> input.channel]
  BY DEF Inputs
<1>2. (CommandByte(input) \div 8) % 2 = input.single_channel /\ CommandByte(input) % 8 = input.channel
  BY <1>1 DEF CommandByte
<1> QED BY <1>1, <1>2 DEF Addressed

\* While every pin that the bus does not drive is high, a transfer selects
\* exactly the converter it is meant for.
LEMMA OneSelected ==
    ASSUME AdcIdle, NEW pin \in Pins,
           NEW during,
           during = IF Manual(pin) THEN [level EXCEPT ![pin] = "LOW"] ELSE level
    PROVE  Selected(SelectFor(pin), during) = {pin}
<1> USE DEF AdcIdle, Pins, Selected, SelectFor, Manual, ADC_0_CS, ADC_1_CS, ADC_2_CS, SPI_CS_0,
            SPI_CS_1
<1>1. CASE pin = ADC_0_CS
  BY <1>1
<1>2. CASE pin = ADC_1_CS
  BY <1>2
<1>3. CASE pin = ADC_2_CS
  BY <1>3
<1> QED BY <1>1, <1>2, <1>3

\* A transfer leaves the chip selects as it found them, is answered by the one
\* input that was asked, and read_item returns what that input gave.
LEMMA ReadsOneInput ==
    ASSUME AdcIdle, NEW input \in Inputs, NEW code \in Results, NEW noise \in TwoBits,
           ReadItem(input, code, noise)
    PROVE  AdcIdle' /\ converted'.inputs = {input} /\ converted'.code = code /\ reading' = code
<1> DEFINE during == IF Manual(input.pin) THEN [level EXCEPT ![input.pin] = "LOW"] ELSE level
<1>1. input.pin \in Pins
  BY DEF Inputs
<1>2. chipSelect' = SelectFor(input.pin)
  BY DEF ReadItem
<1>3. Selected(chipSelect', during) = {input.pin}
  BY <1>1, <1>2, OneSelected
<1>4. converted' = [inputs |-> {Addressed(p, CommandByte(input)) : p \in {input.pin}}, code |-> code]
  <2> DEFINE selected == Selected(chipSelect', during)
  <2>1. converted' = [inputs |-> {Addressed(p, CommandByte(input)) : p \in selected}, code |-> code]
    BY DEF ReadItem
  <2>2. selected = {input.pin}
    BY <1>3
  <2> HIDE DEF selected
  <2> QED BY <2>1, <2>2
<1>5. converted'.inputs = {input} /\ converted'.code = code
  <2>1. {Addressed(p, CommandByte(input)) : p \in {input.pin}} = {input}
    BY CommandNamesInput
  <2> QED BY <1>4, <2>1
<1>6. reading' = code
  <2>1. reading' = Decoded(HighByte(code, noise), LowByte(code, noise))
    BY DEF ReadItem
  <2> QED BY <2>1, DecodesExactly
<1>7. AdcIdle'
  BY <1>1 DEF ReadItem, AdcIdle, Pins
<1> QED BY <1>5, <1>6, <1>7

-----------------------------------------------------------------------------
(* The clock.                                                              *)

\* Unsigned arithmetic on what does not wrap.
LEMMA WrapsNothing ==
    ASSUME NEW n \in 0 .. Width - 1
    PROVE  Wrapped(n) = n
BY ClockAssumption DEF Wrapped

\* Whatever is wrapped is a timestamp.
LEMMA WrappedRange ==
    ASSUME NEW n \in Int
    PROVE  Wrapped(n) \in 0 .. Width - 1
BY ClockAssumption DEF Wrapped

\* get_time is the time since main set base_time, unless the clock is behind it.
LEMMA TimeSinceBase ==
    ASSUME ClockOK
    PROVE  get_time \in 0 .. Width - 1 /\ (~BehindBase => get_time = wall - base_time)
<1> USE ClockAssumption DEF ClockOK, BehindBase, get_time
<1>1. get_time \in 0 .. Width - 1
  BY WrappedRange
<1>2. ASSUME ~BehindBase PROVE wall - base_time \in 0 .. Width - 1
  BY <1>2
<1> QED BY <1>1, <1>2, WrapsNothing

\* check_ti_list's condition, for a slot whose schedule can be trusted.
LEMMA DueWhenPassed ==
    ASSUME ClockOK, ItemsOK, PastOK, ScheduleTells, NEW s \in Slots, ~strayed[s]
    PROVE  Due(s) <=> enabled[s] /\ Passed(s) > Delay[s]
<1> DEFINE t == get_time
<1>1. scheduled[s] \in 0 .. Width - 1 /\ Passed(s) \in Int
  BY DEF ItemsOK, PastOK, Passed
<1>2. t \in 0 .. Width - 1 /\ t = scheduled[s] + Passed(s)
  <2>1. ~BehindBase /\ scheduled[s] + Passed(s) = wall - base_time
    BY ClockAssumption DEF ScheduleTells, BehindBase, ClockOK
  <2> QED BY <2>1, TimeSinceBase
<1>3. ASSUME t > scheduled[s] PROVE Difference(t, scheduled[s]) = Passed(s)
  <2> HIDE DEF t
  <2>1. t - scheduled[s] \in 0 .. Width - 1
    BY <1>1, <1>2, <1>3, ClockAssumption
  <2> QED BY <1>1, <1>2, <2>1, WrapsNothing DEF Difference
<1>4. Delay[s] \in Nat
  BY SamplingAssumption
<1> HIDE DEF t
<1> QED BY <1>1, <1>2, <1>3, <1>4 DEF Due, t

-----------------------------------------------------------------------------
(* The invariant holds at start-up and is kept by each step.               *)

LEMMA TimeInit == Init => TimeInv /\ AdcIdle
<1> SUFFICES ASSUME Init PROVE TimeInv /\ AdcIdle
  OBVIOUS
<1> USE DEF Init
<1>1. ClockOK
  <2>1. BootTime \in 0 .. Width - 1
    BY ClockAssumption
  <2>2. wall = BootTime /\ base_time = BootTime
    BY <2>1, WrapsNothing DEF ClockInit
  <2> QED BY <2>2, ClockAssumption DEF ClockOK
<1>2. wall = BootTime /\ base_time = BootTime /\ get_time = 0
  <2>1. wall = BootTime /\ base_time = BootTime
    BY <1>1 DEF ClockInit, ClockOK
  <2>2. wall - base_time = 0 /\ ~BehindBase
    BY <2>1, ClockAssumption DEF BehindBase
  <2> QED BY <1>1, <2>1, <2>2, TimeSinceBase
<1>3. ItemsOK
  <2>1. get_time \in 0 .. Width - 1
    BY <1>1, TimeSinceBase
  <2>2. scheduled \in [Slots -> 0 .. Width - 1] /\ enabled \in [Slots -> BOOLEAN]
    BY <2>1
  <2>3. record \in [sensor : Slots, dat : Int]
    BY DEF Slots
  <2>4. qw = <<>> /\ scan = {} /\ rested = FALSE
    OBVIOUS
  <2> HIDE DEF Init
  <2>5. qw \in Seq(Items)
    BY <2>4
  <2>6. scan \in SUBSET Slots /\ rested \in BOOLEAN
    BY <2>4
  <2> QED BY <2>2, <2>3, <2>5, <2>6 DEF ItemsOK
<1>4. PastOK
  BY DEF PastOK
<1>5. ScheduleTells
  BY <1>2, ClockAssumption DEF ScheduleTells, Passed
<1>6. OnTheirWay /\ RestsInTime
  BY DEF OnTheirWay, RestsInTime
<1>7. AdcIdle
  BY DEF AdcInit, AdcIdle
<1> QED BY <1>1, <1>3, <1>4, <1>5, <1>6, <1>7 DEF TimeInv

\* A restarted slot is scheduled at the present time.
LEMMA RestartKeeps ==
    ASSUME ClockOK, ItemsOK, PastOK, ScheduleTells, NEW s \in Slots, Restart(s),
           UNCHANGED clockVars
    PROVE  /\ scheduled' \in [Slots -> 0 .. Width - 1]
           /\ PastOK' /\ ScheduleTells'
           /\ \A r \in Slots \ {s} :
                 /\ since'[r] = since[r] /\ forward'[r] = forward[r] /\ back'[r] = back[r]
                 /\ strayed'[r] = strayed[r]
           /\ since'[s] = 0 /\ forward'[s] = 0 /\ back'[s] = 0
<1>1. get_time \in 0 .. Width - 1 /\ (~BehindBase => get_time = wall - base_time)
  BY TimeSinceBase
<1>2. BehindBase \in BOOLEAN
  BY DEF BehindBase
<1>3. scheduled' \in [Slots -> 0 .. Width - 1]
  <2>1. scheduled' = [scheduled EXCEPT ![s] = get_time]
    BY DEF Restart
  <2> QED BY <1>1, <2>1 DEF ItemsOK
<1>4. PastOK'
  BY <1>2 DEF PastOK, Restart
<1>5. /\ \A r \in Slots \ {s} :
            /\ since'[r] = since[r] /\ forward'[r] = forward[r] /\ back'[r] = back[r]
            /\ strayed'[r] = strayed[r] /\ scheduled'[r] = scheduled[r]
      /\ since'[s] = 0 /\ forward'[s] = 0 /\ back'[s] = 0 /\ scheduled'[s] = get_time
      /\ strayed'[s] = BehindBase
  BY DEF PastOK, ItemsOK, Restart
<1>6. ScheduleTells'
  <2> SUFFICES ASSUME NEW r \in Slots, ~strayed'[r]
               PROVE  wall >= base_time /\ scheduled'[r] + Passed(r)' = wall - base_time
    BY DEF ScheduleTells, clockVars
  <2>1. CASE r = s
    <3>1. ~BehindBase
      BY <1>5, <2>1
    <3>2. wall \in Int /\ base_time \in Int /\ wall >= base_time
      BY <3>1, ClockAssumption DEF BehindBase, ClockOK
    <3>3. Passed(r)' = 0
      BY <1>5, <2>1 DEF Passed
    <3> QED BY <1>1, <1>5, <2>1, <3>1, <3>2, <3>3
  <2>2. CASE r # s
    BY <1>5, <2>2 DEF ScheduleTells, Passed
  <2> QED BY <2>1, <2>2
<1> QED BY <1>3, <1>4, <1>5, <1>6

\* Handling the head of the queue: what is left of it in the queue is stale.
LEMMA HandleKeeps ==
    ASSUME TimeInv, NEW s \in Slots, Handle(s), UNCHANGED <<clockVars, rested>>,
           record' \in [sensor : Slots, dat : Int],
           enabled' \in [Slots -> BOOLEAN], \A r \in Slots \ {s} : enabled'[r] = enabled[r]
    PROVE  TimeInv'
<1> USE DEF TimeInv
<1>1. /\ qw # <<>> /\ Head(qw) = s /\ qw' = Tail(qw) /\ scan = {} /\ scan' = {} /\ Restart(s)
  BY DEF Handle
<1>2. qw \in Seq(Items)
  BY DEF ItemsOK
<1>3. /\ scheduled' \in [Slots -> 0 .. Width - 1] /\ PastOK' /\ ScheduleTells'
      /\ \A r \in Slots \ {s} : /\ since'[r] = since[r] /\ forward'[r] = forward[r]
                                /\ back'[r] = back[r] /\ strayed'[r] = strayed[r]
  BY <1>1, RestartKeeps
<1>4. \A i \in DOMAIN qw' : i + 1 \in DOMAIN qw /\ qw'[i] = qw[i + 1]
  BY <1>1, <1>2
<1>5. ClockOK'
  BY DEF ClockOK, clockVars
<1>6. ItemsOK'
  <2>1. qw' \in Seq(Items)
    BY <1>1, <1>2
  <2> QED BY <1>1, <1>3, <2>1 DEF ItemsOK
<1>7. OnTheirWay'
  <2> SUFFICES ASSUME NEW i \in DOMAIN qw', qw'[i] \in Slots, qw'[i] \notin stale',
                      ~strayed'[qw'[i]]
               PROVE  since'[qw'[i]] + forward'[qw'[i]] > Delay[qw'[i]]
    BY <1>1 DEF OnTheirWay
  <2>1. qw'[i] # s /\ qw'[i] \notin stale
    BY <1>1 DEF Restart, Queued
  <2> QED BY <1>3, <1>4, <2>1 DEF OnTheirWay
<1>8. RestsInTime'
  <2>1. rested' = FALSE
    BY <1>1 DEF RestsInTime, ItemsOK
  <2> QED BY <2>1 DEF RestsInTime
<1> QED BY <1>3, <1>5, <1>6, <1>7, <1>8

\* check_ti_list finds exactly what is due: what it takes has passed its delay,
\* and if it takes nothing, nothing is overdue.
LEMMA ScanKeeps == ASSUME TimeInv, Scan PROVE TimeInv'
<1> USE DEF TimeInv
<1>1. /\ scan' = {s \in Slots : Due(s)} /\ rested' = (scan' = {} /\ qw' = <<>>)
      /\ UNCHANGED <<clockVars, enabled, scheduled, record, pastVars, stale>>
  BY DEF Scan
<1>2. ClockOK' /\ PastOK' /\ ScheduleTells'
  BY <1>1 DEF ClockOK, PastOK, ScheduleTells, Passed, clockVars, pastVars
<1>3. qw' \in Seq(Items) /\ \A i \in DOMAIN qw' : \E j \in DOMAIN qw : qw'[i] = qw[j]
  <2>1. qw \in Seq(Items)
    BY DEF ItemsOK
  <2>2. CASE qw' = qw
    BY <2>1, <2>2
  <2>3. CASE qw # <<>> /\ qw' = Tail(qw)
    <3>1. qw' \in Seq(Items) /\ \A i \in DOMAIN qw' : i + 1 \in DOMAIN qw /\ qw'[i] = qw[i + 1]
      BY <2>1, <2>3
    <3> QED BY <3>1
  <2> QED BY <2>2, <2>3 DEF Scan, Idle
<1>4. ItemsOK'
  <2>1. scan' \in SUBSET Slots
    BY <1>1
  <2>2. rested' \in BOOLEAN
    BY <1>1
  <2> QED BY <1>1, <1>3, <2>1, <2>2 DEF ItemsOK
<1>5. OnTheirWay'
  <2>1. ASSUME NEW s \in scan', ~strayed[s] PROVE since[s] + forward[s] > Delay[s]
    <3>1. s \in Slots /\ Due(s)
      BY <1>1
    <3>2. Passed(s) > Delay[s]
      BY <2>1, <3>1, DueWhenPassed
    <3>3. since[s] \in Nat /\ forward[s] \in Nat /\ back[s] \in Nat /\ Delay[s] \in Nat
      BY <3>1, SamplingAssumption DEF PastOK
    <3> QED BY <3>2, <3>3 DEF Passed
  <2>2. since' = since /\ forward' = forward /\ strayed' = strayed /\ stale' = stale
    BY <1>1 DEF pastVars
  <2> QED BY <1>3, <2>1, <2>2 DEF OnTheirWay
<1>6. RestsInTime'
  <2> SUFFICES ASSUME scan' = {}, qw' = <<>>, NEW s \in Slots, enabled[s], ~strayed[s]
               PROVE  Passed(s) <= Delay[s]
    BY <1>1 DEF RestsInTime, Passed, pastVars
  <2>1. ~Due(s)
    BY <1>1
  <2>2. ~(Passed(s) > Delay[s])
    BY <2>1, DueWhenPassed
  <2>3. Passed(s) \in Int /\ Delay[s] \in Nat
    BY SamplingAssumption DEF PastOK, Passed
  <2> QED BY <2>2, <2>3
<1> QED BY <1>2, <1>4, <1>5, <1>6

\* Queueing what was found.
LEMMA ScanEnqueueKeeps == ASSUME TimeInv, NEW s \in Slots, ScanEnqueue(s) PROVE TimeInv'
<1> USE DEF TimeInv
<1>1. /\ s \in scan /\ scan' = scan \ {s} /\ qw' = Append(qw, s) /\ qw \in Seq(Items)
      /\ s \in Items
      /\ UNCHANGED <<clockVars, rested, enabled, scheduled, record, pastVars, stale>>
  BY DEF ScanEnqueue, ItemsOK, Items
<1>2. ClockOK' /\ PastOK' /\ ScheduleTells'
  BY <1>1 DEF ClockOK, PastOK, ScheduleTells, Passed, clockVars, pastVars
<1>3. ItemsOK'
  <2>1. qw' \in Seq(Items) /\ scan' \in SUBSET Slots
    BY <1>1 DEF ItemsOK
  <2> QED BY <1>1, <2>1 DEF ItemsOK
<1>4. OnTheirWay'
  <2>1. \A i \in DOMAIN qw' :
           \/ i \in DOMAIN qw /\ qw'[i] = qw[i]
           \/ qw'[i] = s
    BY <1>1
  <2>2. since' = since /\ forward' = forward /\ strayed' = strayed /\ stale' = stale
    BY <1>1 DEF pastVars
  <2> QED BY <1>1, <2>1, <2>2 DEF OnTheirWay
<1>5. RestsInTime'
  BY <1>1 DEF RestsInTime
<1> QED BY <1>2, <1>3, <1>4, <1>5

\* A byte outside the protocol, and the item it is turned into, restart nothing.
LEMMA UnknownKeeps ==
    ASSUME TimeInv, UnknownArrives \/ HandleUnknown
    PROVE  TimeInv'
<1> USE DEF TimeInv
<1>1. /\ UNCHANGED <<clockVars, scan, enabled, scheduled, record, pastVars, stale>>
      /\ qw \in Seq(Items)
  BY DEF UnknownArrives, HandleUnknown, ItemsOK
<1>2. rested' = FALSE
  <2>1. CASE UnknownArrives
    BY <2>1 DEF UnknownArrives
  <2>2. CASE HandleUnknown
    <3>1. ~rested /\ rested' = rested
      BY <2>2 DEF HandleUnknown, RestsInTime
    <3>2. rested \in BOOLEAN
      BY DEF ItemsOK
    <3> QED BY <3>1, <3>2
  <2> QED BY <2>1, <2>2
<1>3. ClockOK' /\ PastOK' /\ ScheduleTells'
  BY <1>1 DEF ClockOK, PastOK, ScheduleTells, Passed, clockVars, pastVars
<1>4. PICK t \in Seq(Items), x \in {"unknown", "wq_none"} :
         /\ qw' = Append(t, x)
         /\ \A i \in DOMAIN t : \E j \in DOMAIN qw : t[i] = qw[j]
  <2>1. CASE UnknownArrives
    BY <1>1, <2>1 DEF UnknownArrives
  <2>2. CASE HandleUnknown
    <3>1. /\ Tail(qw) \in Seq(Items)
          /\ \A i \in DOMAIN Tail(qw) : i + 1 \in DOMAIN qw /\ Tail(qw)[i] = qw[i + 1]
      BY <1>1, <2>2 DEF HandleUnknown
    <3> QED BY <2>2, <3>1 DEF HandleUnknown
  <2> QED BY <2>1, <2>2
<1>5. x \in Items /\ x \notin Slots
  BY SamplingAssumption DEF Items, Slots, Cutoff
<1>6. ItemsOK'
  <2>1. qw' \in Seq(Items)
    BY <1>4, <1>5
  <2> QED BY <1>1, <1>2, <2>1 DEF ItemsOK
<1>7. OnTheirWay'
  <2>1. \A i \in DOMAIN qw' : (i \in DOMAIN t /\ qw'[i] = t[i]) \/ qw'[i] = x
    BY <1>4
  <2>2. \A i \in DOMAIN qw' : qw'[i] \in Slots => \E j \in DOMAIN qw : qw'[i] = qw[j]
    BY <1>4, <1>5, <2>1
  <2> QED BY <1>1, <2>2 DEF OnTheirWay, pastVars
<1>8. RestsInTime'
  BY <1>2 DEF RestsInTime
<1> QED BY <1>3, <1>6, <1>7, <1>8

\* Opening the valve restarts the cutoff; an item of it that is queued is stale.
LEMMA OpenKeeps == ASSUME TimeInv, Open PROVE TimeInv'
<1> USE DEF TimeInv
<1>1. /\ scan = {} /\ enabled' = [enabled EXCEPT ![Cutoff] = TRUE]
      /\ rested' = FALSE /\ Restart(Cutoff)
      /\ UNCHANGED <<clockVars, qw, scan, record>>
  BY DEF Open, queueVars
<1>2. Cutoff \in Slots
  BY DEF Slots
<1>3. /\ scheduled' \in [Slots -> 0 .. Width - 1] /\ PastOK' /\ ScheduleTells'
      /\ \A r \in Slots \ {Cutoff} : /\ since'[r] = since[r] /\ forward'[r] = forward[r]
                                     /\ back'[r] = back[r] /\ strayed'[r] = strayed[r]
  BY <1>1, <1>2, RestartKeeps
<1>4. ClockOK'
  BY <1>1 DEF ClockOK, clockVars
<1>5. ItemsOK'
  <2>1. enabled' \in [Slots -> BOOLEAN]
    BY <1>1 DEF ItemsOK
  <2> QED BY <1>1, <1>3, <2>1 DEF ItemsOK
<1>6. OnTheirWay'
  <2> SUFFICES ASSUME NEW i \in DOMAIN qw, qw[i] \in Slots, qw[i] \notin stale',
                      ~strayed'[qw[i]]
               PROVE  since'[qw[i]] + forward'[qw[i]] > Delay[qw[i]]
    BY <1>1 DEF OnTheirWay
  <2>1. qw[i] # Cutoff /\ qw[i] \notin stale
    BY <1>1 DEF Restart, Queued
  <2> QED BY <1>3, <2>1 DEF OnTheirWay
<1>7. RestsInTime'
  BY <1>1 DEF RestsInTime
<1> QED BY <1>3, <1>4, <1>5, <1>6, <1>7

\* A tick brings every schedule one further into the past.
LEMMA TickKeeps == ASSUME TimeInv, Tick PROVE TimeInv'
<1> USE DEF TimeInv
<1>1. /\ rested /\ rested' = FALSE /\ ClockTicks
      /\ since' = [s \in Slots |-> since[s] + 1]
      /\ UNCHANGED <<queueVars, enabled, scheduled, record, forward, back, strayed, stale>>
  BY DEF Tick
<1>2. wall' = wall + 1 /\ wall < MaxWall /\ base_time' = base_time
  BY <1>1 DEF ClockTicks
<1>3. ClockOK'
  BY <1>2, ClockAssumption DEF ClockOK
<1>4. PastOK'
  BY <1>1 DEF PastOK
<1>5. ScheduleTells'
  <2> SUFFICES ASSUME NEW s \in Slots, ~strayed'[s]
               PROVE  wall' >= base_time' /\ scheduled'[s] + Passed(s)' = wall' - base_time'
    BY DEF ScheduleTells
  <2>1. wall >= base_time /\ scheduled[s] + Passed(s) = wall - base_time
    BY <1>1 DEF ScheduleTells
  <2>2. Passed(s)' = Passed(s) + 1 /\ Passed(s) \in Int
    BY <1>1 DEF Passed, PastOK
  <2>3. wall \in Int /\ base_time \in Int /\ scheduled[s] \in Int
    BY ClockAssumption DEF ClockOK, ItemsOK
  <2> QED BY <1>1, <1>2, <2>1, <2>2, <2>3
<1>6. ItemsOK'
  BY <1>1 DEF ItemsOK, queueVars
<1>7. OnTheirWay' /\ RestsInTime'
  <2>1. qw' = <<>> /\ scan' = {}
    BY <1>1 DEF RestsInTime, queueVars
  <2> QED BY <1>1, <2>1 DEF OnTheirWay, RestsInTime
<1> QED BY <1>3, <1>4, <1>5, <1>6, <1>7

\* Setting the clock is what forward and back record, unless it strays.
LEMMA JumpKeeps == ASSUME TimeInv, NEW d \in Jumps, Jump(d) PROVE TimeInv'
<1> USE DEF TimeInv
<1>1. /\ ClockJumps(d) /\ rested' = FALSE
      /\ forward' = IF d > 0 THEN [s \in Slots |-> forward[s] + d] ELSE forward
      /\ back' = IF d < 0 THEN [s \in Slots |-> back[s] - d] ELSE back
      /\ strayed' = [s \in Slots |-> strayed[s] \/ BehindBase']
      /\ UNCHANGED <<queueVars, enabled, scheduled, record, since, stale>>
  BY DEF Jump
<1>2. wall' = wall + d /\ wall' \in 0 .. MaxWall /\ base_time' = base_time /\ d \in Int
  BY <1>1, ClockAssumption DEF ClockJumps
<1>3. ClockOK'
  BY <1>2 DEF ClockOK
<1>4. /\ forward' \in [Slots -> Nat] /\ back' \in [Slots -> Nat]
      /\ \A s \in Slots : forward'[s] >= forward[s] /\ forward'[s] - back'[s] = forward[s] - back[s] + d
  <2>1. forward \in [Slots -> Nat] /\ back \in [Slots -> Nat]
    BY DEF PastOK
  <2>2. CASE d > 0
    BY <1>1, <1>2, <2>1, <2>2
  <2>3. CASE d < 0
    BY <1>1, <1>2, <2>1, <2>3
  <2>4. CASE d = 0
    BY <1>1, <1>2, <2>1, <2>4
  <2> QED BY <1>2, <2>2, <2>3, <2>4
<1>5. PastOK'
  <2>1. BehindBase' \in BOOLEAN
    BY DEF BehindBase
  <2>2. strayed' \in [Slots -> BOOLEAN]
    BY <1>1, <2>1 DEF PastOK
  <2> QED BY <1>1, <1>4, <2>2 DEF PastOK
<1>6. \A s \in Slots : ~strayed'[s] => ~strayed[s] /\ ~BehindBase'
  BY <1>1
<1>7. ScheduleTells'
  <2> SUFFICES ASSUME NEW s \in Slots, ~strayed'[s]
               PROVE  wall' >= base_time' /\ scheduled'[s] + Passed(s)' = wall' - base_time'
    BY DEF ScheduleTells
  <2>1. wall >= base_time /\ scheduled[s] + Passed(s) = wall - base_time /\ ~BehindBase'
    BY <1>6 DEF ScheduleTells
  <2>2. Passed(s)' = Passed(s) + d /\ Passed(s) \in Int
    BY <1>1, <1>2, <1>4 DEF Passed, PastOK
  <2>3. wall \in Int /\ base_time \in Int /\ scheduled[s] \in Int
    BY ClockAssumption DEF ClockOK, ItemsOK
  <2> QED BY <1>1, <1>2, <2>1, <2>2, <2>3 DEF BehindBase
<1>8. ItemsOK'
  BY <1>1 DEF ItemsOK, queueVars
<1>9. OnTheirWay'
  <2>1. qw' = qw /\ scan' = scan /\ since' = since /\ stale' = stale
    BY <1>1 DEF queueVars
  <2>2. \A s \in Slots : ~strayed[s] /\ since[s] + forward[s] > Delay[s]
                            => since[s] + forward'[s] > Delay[s]
    BY <1>4, SamplingAssumption DEF PastOK
  <2>3. \A s \in scan : s \in Slots
    BY DEF ItemsOK
  <2> QED BY <1>6, <2>1, <2>2, <2>3 DEF OnTheirWay
<1>10. RestsInTime'
  BY <1>1 DEF RestsInTime
<1> QED BY <1>3, <1>5, <1>7, <1>8, <1>9, <1>10

\* A sample hands the sensor's own input to read_item.
LEMMA SampleReads ==
    ASSUME AdcIdle, NEW s \in Sensors, NEW code \in Codes, NEW noise \in TwoBits,
           Sample(s, code, noise)
    PROVE  /\ AdcIdle' /\ converted'.inputs = {Input[s]} /\ converted'.code = reading'
           /\ reading' \in Int /\ record' = [sensor |-> s, dat |-> reading']
<1>1. Input[s] \in Inputs /\ code \in Results
  BY SamplingAssumption
<1>2. ReadItem(Input[s], code, noise) /\ record' = [sensor |-> s, dat |-> reading']
  BY DEF Sample
<1>3. AdcIdle' /\ converted'.inputs = {Input[s]} /\ converted'.code = code /\ reading' = code
  BY <1>1, <1>2, ReadsOneInput
<1>4. code \in Int
  BY <1>1 DEF Results
<1> QED BY <1>2, <1>3, <1>4

\* The invariant is kept by every step.
LEMMA TimeStep == TimeInv /\ AdcIdle /\ [Next]_vars => TimeInv' /\ AdcIdle'
<1> SUFFICES ASSUME TimeInv, AdcIdle, [Next]_vars PROVE TimeInv' /\ AdcIdle'
  OBVIOUS
<1>1. CASE Scan
  BY <1>1, ScanKeeps DEF Scan, AdcIdle, adcVars
<1>2. ASSUME NEW s \in Slots, ScanEnqueue(s) PROVE TimeInv' /\ AdcIdle'
  BY <1>2, ScanEnqueueKeeps DEF ScanEnqueue, AdcIdle, adcVars
<1>3. CASE CutOff
  <2>1. Cutoff \in Slots /\ enabled' \in [Slots -> BOOLEAN] /\ record' \in [sensor : Slots, dat : Int]
        /\ \A r \in Slots \ {Cutoff} : enabled'[r] = enabled[r]
    BY <1>3 DEF CutOff, Slots, TimeInv, ItemsOK
  <2>2. TimeInv'
    BY <1>3, <2>1, HandleKeeps DEF CutOff
  <2> QED BY <1>3, <2>2 DEF CutOff, AdcIdle, adcVars
<1>4. CASE Open
  BY <1>4, OpenKeeps DEF Open, AdcIdle, adcVars
<1>5. CASE Tick
  BY <1>5, TickKeeps DEF Tick, AdcIdle, adcVars
<1>6. ASSUME NEW s \in Sensors, NEW code \in Codes, NEW noise \in TwoBits, Sample(s, code, noise)
      PROVE  TimeInv' /\ AdcIdle'
  <2>1. AdcIdle' /\ reading' \in Int /\ record' = [sensor |-> s, dat |-> reading']
    BY <1>6, SampleReads
  <2>3. s \in Slots
    BY DEF Slots
  <2>4. record' \in [sensor : Slots, dat : Int]
    BY <2>1, <2>3
  <2>5. enabled' = enabled /\ enabled \in [Slots -> BOOLEAN]
    BY <1>6 DEF Sample, TimeInv, ItemsOK
  <2>6. TimeInv'
    BY <1>6, <2>3, <2>4, <2>5, HandleKeeps DEF Sample
  <2> QED BY <2>1, <2>6
<1>7. ASSUME NEW d \in Jumps, Jump(d) PROVE TimeInv' /\ AdcIdle'
  BY <1>7, JumpKeeps DEF Jump, AdcIdle, adcVars
<1>8. CASE UNCHANGED vars
  <2> USE <1>8 DEF vars, clockVars, queueVars, pastVars, adcVars
  <2>1. ClockOK' /\ ItemsOK' /\ PastOK' /\ AdcIdle'
    BY DEF TimeInv, ClockOK, ItemsOK, PastOK, AdcIdle
  <2>2. ScheduleTells' /\ OnTheirWay' /\ RestsInTime'
    BY DEF TimeInv, ScheduleTells, OnTheirWay, RestsInTime, Passed
  <2> QED BY <2>1, <2>2 DEF TimeInv
<1>9. CASE UnknownArrives \/ HandleUnknown
  BY <1>9, UnknownKeeps DEF UnknownArrives, HandleUnknown, AdcIdle, adcVars
<1> QED BY <1>1, <1>2, <1>3, <1>4, <1>5, <1>6, <1>7, <1>8, <1>9 DEF Next

\* The inductive invariant holds in every reachable state.
THEOREM TimeCorrect == Spec => [](TimeInv /\ AdcIdle)
BY TimeInit, TimeStep, PTL DEF Spec

-----------------------------------------------------------------------------
(* What it is for.                                                         *)

\* However the clock is set, short of behind base_time, an item whose slot was
\* not restarted since it was queued is handled only after its delay: neither
\* sensor nor cutoff comes early, which is what makes a burn last IGN3_T.
THEOREM NothingEarly == Spec => NeverEarly
<1>1. TimeInv /\ [Next]_vars
         => [\A s \in Slots : Handle(s) /\ s \notin stale /\ ~strayed[s]
                               => since[s] + forward[s] > Delay[s]]_vars
  <2> SUFFICES ASSUME TimeInv, NEW s \in Slots, Handle(s), s \notin stale, ~strayed[s]
               PROVE  since[s] + forward[s] > Delay[s]
    OBVIOUS
  <2>1. qw \in Seq(Items) /\ qw # <<>> /\ Head(qw) = s
    BY DEF TimeInv, ItemsOK, Handle
  <2>2. 1 \in DOMAIN qw /\ qw[1] = s
    BY <2>1
  <2> QED BY <2>2 DEF TimeInv, OnTheirWay
<1> QED BY <1>1, TimeCorrect, PTL DEF Spec, NeverEarly

\* While only bytes of the protocol arrive, check_ti_list runs on an empty queue
\* only: no slot is queued twice, and only the cutoff can be restarted while it
\* is queued, by opening the valve in the middle of a burn.
QueuedOnce ==
    /\ unknown = 0
    /\ \A i \in DOMAIN qw : qw[i] \in Slots \ scan
    /\ \A i, j \in DOMAIN qw : qw[i] = qw[j] => i = j
    /\ stale \subseteq {Cutoff}

\* Without unknown bytes no sensor's item is queued twice, nor before a restart.
LEMMA QueuedOnceStep ==
    ASSUME MaxUnknown = 0, TimeInv, QueuedOnce, [Next]_vars
    PROVE  QueuedOnce'
<1>0. qw \in Seq(Items) /\ scan \in SUBSET Slots /\ "wq_none" \notin Slots /\ "unknown" \notin Slots
  BY SamplingAssumption DEF TimeInv, ItemsOK, Slots, Cutoff
<1>1. ASSUME NEW s \in Slots, Handle(s), unknown' = unknown PROVE QueuedOnce'
  <2>1. qw # <<>> /\ Head(qw) = s /\ qw' = Tail(qw) /\ scan' = scan /\ Restart(s)
    BY <1>1 DEF Handle
  <2>2. \A i \in DOMAIN qw' :
           /\ i \in Nat \ {0} /\ i + 1 \in DOMAIN qw /\ qw'[i] = qw[i + 1]
           /\ 1 \in DOMAIN qw /\ qw[1] = s
    BY <1>0, <2>1
  <2>3. \A i \in DOMAIN qw' : qw'[i] # s
    <3> SUFFICES ASSUME NEW i \in DOMAIN qw', qw'[i] = s PROVE FALSE
      OBVIOUS
    <3>1. i + 1 = 1
      BY <2>2 DEF QueuedOnce
    <3> QED BY <2>2, <3>1
  <2>4. stale' = stale \ {s}
    BY <2>1, <2>3 DEF Restart, Queued
  <2>5. \A i, j \in DOMAIN qw' : qw'[i] = qw'[j] => i = j
    <3> SUFFICES ASSUME NEW i \in DOMAIN qw', NEW j \in DOMAIN qw', qw'[i] = qw'[j] PROVE i = j
      OBVIOUS
    <3>1. i + 1 = j + 1
      BY <2>2 DEF QueuedOnce
    <3> QED BY <2>2, <3>1
  <2> QED BY <1>1, <2>1, <2>2, <2>4, <2>5 DEF QueuedOnce
<1>2. CASE Scan
  <2>1. qw = <<>> /\ qw' = <<>>
    <3>1. CASE qw # <<>> /\ Head(qw) = "wq_none"
      <4>1. 1 \in DOMAIN qw /\ qw[1] = "wq_none"
        BY <1>0, <3>1
      <4> QED BY <1>0, <4>1 DEF QueuedOnce
    <3> QED BY <1>2, <3>1 DEF Scan, Idle
  <2> QED BY <1>2, <2>1 DEF Scan, QueuedOnce
<1>3. ASSUME NEW s \in Slots, ScanEnqueue(s) PROVE QueuedOnce'
  <2>1. /\ s \in scan /\ scan' = scan \ {s} /\ qw' = Append(qw, s)
        /\ unknown' = unknown /\ stale' = stale
    BY <1>3 DEF ScanEnqueue
  <2>2. \A i \in DOMAIN qw' :
           \/ i \in DOMAIN qw /\ qw'[i] = qw[i]
           \/ i = Len(qw) + 1 /\ qw'[i] = s
    BY <1>0, <2>1
  <2> QED BY <1>0, <2>1, <2>2 DEF QueuedOnce
<1>4. CASE Open
  <2>1. UNCHANGED <<qw, scan, unknown>> /\ stale' \subseteq stale \cup {Cutoff}
    BY <1>4 DEF Open, Restart, queueVars
  <2> QED BY <2>1 DEF QueuedOnce
<1>5. CASE UNCHANGED <<qw, scan, unknown, stale>>
  BY <1>5 DEF QueuedOnce
<1>6. CASE HandleUnknown
  <2>1. 1 \in DOMAIN qw /\ qw[1] = "unknown"
    BY <1>0, <1>6 DEF HandleUnknown
  <2> QED BY <1>0, <2>1 DEF QueuedOnce
<1>7. ~UnknownArrives
  BY DEF UnknownArrives, QueuedOnce
<1>8. CASE CutOff
  BY <1>1, <1>8 DEF CutOff, Slots
<1>9. ASSUME NEW s \in Sensors, NEW code \in Codes, NEW noise \in TwoBits, Sample(s, code, noise)
      PROVE  QueuedOnce'
  BY <1>1, <1>9 DEF Sample, Slots
<1> QED BY <1>2, <1>3, <1>4, <1>5, <1>6, <1>7, <1>8, <1>9
        DEF Next, Tick, Jump, vars, queueVars

\* While only bytes of the protocol arrive, no sensor is read before its delay
\* has passed, but for what the clock was set forward meanwhile and short of a
\* clock behind base_time: the exception of NeverEarly is the cutoff's alone.
THEOREM SensorsNotEarly ==
    ASSUME MaxUnknown = 0
    PROVE  Spec => [][\A s \in Sensors :
                         Handle(s) /\ ~strayed[s] => since[s] + forward[s] > Delay[s]]_vars
<1>1. Init => QueuedOnce
  BY DEF Init, QueuedOnce
<1>2. TimeInv /\ QueuedOnce /\ [Next]_vars => QueuedOnce'
  BY QueuedOnceStep
<1>3. QueuedOnce /\ [\A s \in Slots : Handle(s) /\ s \notin stale /\ ~strayed[s]
                                        => since[s] + forward[s] > Delay[s]]_vars
         => [\A s \in Sensors :
                Handle(s) /\ ~strayed[s] => since[s] + forward[s] > Delay[s]]_vars
  <2>1. QueuedOnce => \A s \in Sensors : s \in Slots /\ s \notin stale
    BY SamplingAssumption DEF QueuedOnce, Slots
  <2> QED BY <2>1
<1> QED BY <1>1, <1>2, <1>3, TimeCorrect, NothingEarly, PTL DEF Spec, NeverEarly

\* However the clock is set, no enabled item waits longer than its delay and a
\* tick: the cutoff comes.
THEOREM NothingLate == Spec => []NeverLate
<1>1. Init => NeverLate
  BY SamplingAssumption DEF Init, NeverLate
<1>2. TimeInv /\ NeverLate /\ [Next]_vars => NeverLate'
  <2> SUFFICES ASSUME TimeInv, NeverLate, [Next]_vars, NEW s \in Slots, enabled'[s], ~strayed'[s]
               PROVE  since'[s] <= Delay[s] + back'[s] + 1
    BY DEF NeverLate
  <2> USE DEF TimeInv
  <2>1. since[s] \in Nat /\ forward[s] \in Nat /\ back[s] \in Nat /\ Delay[s] \in Nat
    BY SamplingAssumption DEF PastOK
  <2>2. CASE UNCHANGED <<since, back, strayed, enabled>>
    BY <2>2 DEF NeverLate
  <2>3. ASSUME NEW r \in Slots, Restart(r), UNCHANGED clockVars,
               \A q \in Slots \ {r} : enabled'[q] = enabled[q]
        PROVE  since'[s] <= Delay[s] + back'[s] + 1
    <3>1. CASE s = r
      <4>1. since'[s] = 0 /\ back'[s] = 0
        BY <2>3, <3>1, RestartKeeps
      <4> QED BY <2>1, <4>1
    <3>2. CASE s # r
      <4>1. since'[s] = since[s] /\ back'[s] = back[s] /\ strayed'[s] = strayed[s] /\ enabled'[s] = enabled[s]
        BY <2>3, <3>2, RestartKeeps
      <4> QED BY <4>1 DEF NeverLate
    <3> QED BY <3>1, <3>2
  <2>4. CASE Tick
    <3>1. rested /\ since'[s] = since[s] + 1 /\ back' = back /\ ~strayed[s] /\ enabled[s]
      BY <2>4 DEF Tick
    <3>2. Passed(s) <= Delay[s]
      BY <3>1 DEF RestsInTime
    <3> QED BY <2>1, <3>1, <3>2 DEF Passed
  <2>5. ASSUME NEW d \in Jumps, Jump(d) PROVE since'[s] <= Delay[s] + back'[s] + 1
    <3>1. since'[s] = since[s] /\ ~strayed[s] /\ enabled[s]
      BY <2>5 DEF Jump
    <3>2. back'[s] \in Nat /\ back'[s] >= back[s]
      BY <2>1, <2>5, ClockAssumption DEF Jump, PastOK
    <3>3. since[s] <= Delay[s] + back[s] + 1
      BY <3>1 DEF NeverLate
    <3> QED BY <2>1, <3>1, <3>2, <3>3
  <2>6. CASE Open
    BY <2>3, <2>6 DEF Open, Slots, ItemsOK
  <2>7. CASE CutOff
    BY <2>3, <2>7 DEF CutOff, Handle, Slots, ItemsOK
  <2>8. ASSUME NEW r \in Sensors, NEW code \in Codes, NEW noise \in TwoBits, Sample(r, code, noise)
        PROVE  since'[s] <= Delay[s] + back'[s] + 1
    BY <2>3, <2>8 DEF Sample, Handle, Slots
  <2>9. CASE Scan \/ UnknownArrives \/ HandleUnknown
    BY <2>2, <2>9 DEF Scan, UnknownArrives, HandleUnknown, pastVars
  <2>10. ASSUME NEW r \in Slots, ScanEnqueue(r) PROVE since'[s] <= Delay[s] + back'[s] + 1
    BY <2>2, <2>10 DEF ScanEnqueue, pastVars
  <2>11. CASE UNCHANGED vars
    BY <2>2, <2>11 DEF vars, pastVars
  <2> QED BY <2>4, <2>5, <2>6, <2>7, <2>8, <2>9, <2>10, <2>11 DEF Next
<1> QED BY <1>1, <1>2, TimeCorrect, PTL DEF Spec

\* Every record is of its own sensor's input, and holds what it gave.
THEOREM ReadsItsSensor == Spec => []ReadingIsSensors
<1>1. Init => ReadingIsSensors
  BY SamplingAssumption DEF Init, ReadingIsSensors
<1>2. TimeInv /\ AdcIdle /\ ReadingIsSensors /\ [Next]_vars => ReadingIsSensors'
  <2> SUFFICES ASSUME AdcIdle, ReadingIsSensors, [Next]_vars PROVE ReadingIsSensors'
    OBVIOUS
  <2>1. CASE UNCHANGED <<record, converted>>
    BY <2>1 DEF ReadingIsSensors
  <2>2. ASSUME NEW s \in Sensors, NEW code \in Codes, NEW noise \in TwoBits, Sample(s, code, noise)
        PROVE  ReadingIsSensors'
    <3>1. /\ converted'.inputs = {Input[s]} /\ converted'.code = reading'
          /\ record' = [sensor |-> s, dat |-> reading']
      BY <2>2, SampleReads
    <3> QED BY <3>1 DEF ReadingIsSensors
  <2>3. CASE Scan \/ CutOff \/ Open \/ Tick \/ UnknownArrives \/ HandleUnknown
    BY <2>1, <2>3 DEF Scan, CutOff, Open, Tick, UnknownArrives, HandleUnknown, adcVars
  <2>4. ASSUME NEW s \in Slots, ScanEnqueue(s) PROVE ReadingIsSensors'
    BY <2>1, <2>4 DEF ScanEnqueue, adcVars
  <2>5. ASSUME NEW d \in Jumps, Jump(d) PROVE ReadingIsSensors'
    BY <2>1, <2>5 DEF Jump, adcVars
  <2>6. CASE UNCHANGED vars
    BY <2>1, <2>6 DEF vars, adcVars
  <2> QED BY <2>2, <2>3, <2>4, <2>5, <2>6 DEF Next
<1> QED BY <1>1, <1>2, TimeCorrect, PTL DEF Spec
=============================================================================
