----------------------------- MODULE MCSampling -----------------------------
(* An instance of Sampling for TLC: a sensor on a converter that the bus    *)
(* selects, and one on the converter that main registers, selects by hand   *)
(* and uses for no sensor yet.                                              *)
EXTENDS Sampling, TLC

MCSensors == {"lc_main", "spare"}

MCInput == "lc_main" :> SensorInput.lc_main
              @@ "spare" :> [pin |-> ADC_2_CS, single_channel |-> 0, channel |-> 7]

\* A fast and a slow sensor, and a burn longer than both.
MCDelay == "lc_main" :> 0 @@ "spare" :> 1 @@ Cutoff :> 2

\* Results whose bytes end and begin in set and in clear bits.
MCCodes == {1, 2080}

\* Set forward by more than a delay, or back by more than the time since boot.
MCJumps == {-3, 2}
=============================================================================
