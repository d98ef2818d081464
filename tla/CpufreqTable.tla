---------------------------- MODULE CpufreqTable ----------------------------
(***************************************************************************)
(* The CPU's frequencies, and how the cpufreq core and driver of the       *)
(* kernel, which the governors of modules/overclock call, choose one.      *)
(***************************************************************************)
EXTENDS Integers, FiniteSets

CONSTANT Table  \* the frequencies of the CPU

ASSUME TableAssumption == IsFiniteSet(Table) /\ Table \subseteq Nat \ {0}

Highest(S) == CHOOSE f \in S : \A g \in S : g <= f
Lowest(S) == CHOOSE f \in S : \A g \in S : f <= g

(***************************************************************************)
(* cpufreq_frequency_table_target over the frequencies S: the highest that *)
(* is at most f ("H"), or the lowest that is at least f ("L"); with none   *)
(* of those, the nearest on the other side.                                *)
(***************************************************************************)
Pick(S, f, relation) ==
  LET below == {g \in S : g <= f}
      above == {g \in S : f <= g}
  IN  IF relation = "H"
      THEN IF below # {} THEN Highest(below) ELSE Lowest(above)
      ELSE IF above # {} THEN Lowest(above) ELSE Highest(below)

(* __cpufreq_driver_target: the driver rounds to a frequency it has.       *)
DriverFreq(f, relation) == Pick(Table, f, relation)
=============================================================================
