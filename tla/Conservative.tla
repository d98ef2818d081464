---------------------------- MODULE Conservative ----------------------------
(***************************************************************************)
(* The "conservative" CPU frequency governor, modules/overclock/           *)
(* cpufreq_conservative.c, on the single CPU of the device.                *)
(*                                                                         *)
(* A work item samples the load under timer_mutex, moves requested_freq by *)
(* a step, asks the driver for it and queues itself again.  The cpufreq    *)
(* core, one event at a time, starts and stops the governor, and changes   *)
(* the policy's limits before it tells the governor so (LIMITS).  The      *)
(* work reads the limits several times while they may change.              *)
(***************************************************************************)
EXTENDS CpufreqTable

CONSTANTS
  Policies,         \* the <<min, max>> pairs the policy may be given
  FreqStep,         \* freq_step at first, 5 percent in the code
  Steps,            \* what is written to freq_step
  UpThresholds, DownThresholds, Rates,  \* to the other settings
  MinRate,          \* min_sampling_rate once it is known
  Loads,            \* the load a sample may find, in percent
  Word              \* 2^32: the values of an unsigned int

ASSUME ConservativeAssumption ==
  /\ Policies # {} /\ Policies \subseteq Table \X Table
  /\ \A p \in Policies : p[1] <= p[2]
  /\ FreqStep \in 0 .. 100 /\ Steps \subseteq Nat
  /\ UpThresholds \subseteq Nat /\ DownThresholds \subseteq Nat
  /\ Rates \subseteq Nat /\ MinRate \in Nat \ {0}
  /\ Loads \subseteq 0 .. 100
  /\ Word \in Nat /\ \A f, g \in Table : f + g < Word /\ f + 5 < Word

VARIABLES
  cur, pmin, pmax,  \* the policy: current frequency and limits
  enable, requested_freq,
  freq_step, up_threshold, down_threshold, sampling_rate,
  files,            \* the settings' files exist
  started,          \* the core has started the governor
  event,            \* where the core's call of the governor is
  work,             \* where the work item is
  load              \* what a sample would find

policy == <<cur, pmin, pmax>>
tuners == <<freq_step, up_threshold, down_threshold, sampling_rate>>
vars == <<policy, enable, requested_freq, tuners, files, started, event, work, load>>

\* The work holds timer_mutex from its sample until it is queued again.
Sampling == work \in {"up", "down", "set_up", "set_down", "queue"}
StepTarget(step, max) == (step * max) \div 100
FreqTarget == StepTarget(freq_step, pmax)

-----------------------------------------------------------------------------
\* The module is loaded and another governor runs.
Init ==
  /\ \E p \in Policies : pmin = p[1] /\ pmax = p[2]
  /\ cur \in Table /\ pmin <= cur /\ cur <= pmax
  /\ enable = FALSE /\ requested_freq = 0
  /\ freq_step = FreqStep /\ up_threshold = 80 /\ down_threshold = 20
  /\ sampling_rate = 0
  /\ files = FALSE /\ started = FALSE /\ event = "none"
  /\ work = "idle" /\ load \in Loads

\* dbs_cpufreq_notifier, called by the driver for a new frequency: a request
\* that left the limits becomes that frequency.
NotifiedNever(new) == requested_freq
Notified(new) ==
  IF requested_freq > pmax \/ requested_freq < pmin THEN new ELSE requested_freq

\* __cpufreq_driver_target, which notifies of a frequency that is new.
DriverTarget(f, relation) ==
  LET new == DriverFreq(f, relation)
  IN  /\ cur' = new
      /\ requested_freq' = IF enable /\ new # cur THEN Notified(new) ELSE requested_freq

-----------------------------------------------------------------------------
(* do_dbs_timer and dbs_check_cpu *)

workFrame == UNCHANGED <<pmin, pmax, enable, tuners, files, started, event, load>>

\* The delayed work is due: kconservative computes its next delay.
Due == /\ work = "queued" /\ work' = "due"
       /\ workFrame /\ UNCHANGED <<cur, requested_freq>>

High == load > up_threshold
Low == ~High /\ load < down_threshold - 10

\* Under timer_mutex: the load, and requested_freq plus or minus a step.
Sample ==
  /\ work = "due"
  /\ work' = IF freq_step # 0 /\ High /\ requested_freq # pmax THEN "up"
             ELSE IF freq_step # 0 /\ Low THEN "down"
             ELSE "queue"
  /\ requested_freq' =
       CASE work' = "up"    -> (requested_freq + (IF FreqTarget = 0 THEN 5 ELSE FreqTarget)) % Word
         [] work' = "down"  -> (requested_freq - FreqTarget) % Word
         [] work' = "queue" -> requested_freq
  /\ workFrame /\ UNCHANGED cur

ClampUp ==
  /\ work = "up" /\ work' = "set_up"
  /\ requested_freq' = IF requested_freq > pmax THEN pmax ELSE requested_freq
  /\ workFrame /\ UNCHANGED cur

ClampDown ==
  /\ work = "down" /\ work' = IF cur = pmin THEN "queue" ELSE "set_down"
  /\ requested_freq' = IF requested_freq < pmin THEN pmin ELSE requested_freq
  /\ workFrame /\ UNCHANGED cur

Set == /\ work \in {"set_up", "set_down"} /\ work' = "queue"
       /\ DriverTarget(requested_freq, "H")
       /\ workFrame

Queue == /\ work = "queue" /\ work' = "queued"
         /\ workFrame /\ UNCHANGED <<cur, requested_freq>>

-----------------------------------------------------------------------------
(* The core, and cpufreq_governor_dbs. *)

\* Another governor runs.
OtherGovernor ==
  /\ ~started /\ event = "none"
  /\ cur' \in Table /\ pmin <= cur' /\ cur' <= pmax
  /\ UNCHANGED <<pmin, pmax, enable, requested_freq, tuners, files, started, event, work, load>>

\* New limits for the policy; the governor is told by the next event.
SetPolicy ==
  /\ event = "none"
  /\ \E p \in Policies : pmin' = p[1] /\ pmax' = p[2]
  /\ event' = IF started THEN "limits" ELSE "none"
  /\ IF started THEN cur' = cur ELSE cur' \in Table /\ pmin' <= cur' /\ cur' <= pmax'
  /\ UNCHANGED <<enable, requested_freq, tuners, files, started, work, load>>

\* START, under dbs_mutex: the files may fail to be made.
GovStart ==
  /\ ~started /\ event = "none"
  /\ files' \in BOOLEAN
  /\ event' = IF files' THEN "start" ELSE "none"
  /\ UNCHANGED <<policy, enable, requested_freq, tuners, started, work, load>>

GovStartRates ==
  /\ event = "start" /\ event' = "timer"
  /\ requested_freq' = cur
  /\ sampling_rate' \in {r \in {MinRate} \cup Rates : r >= MinRate}
  /\ UNCHANGED <<policy, enable, freq_step, up_threshold, down_threshold, files, started, work,
                 load>>

\* dbs_timer_init; the core then sends LIMITS.
GovStartTimer ==
  /\ event = "timer" /\ event' = "limits"
  /\ enable' = TRUE /\ work' = "queued" /\ started' = TRUE
  /\ UNCHANGED <<policy, requested_freq, tuners, files, load>>

LimitsAtOnce == TRUE
LimitsMay == ~Sampling

\* LIMITS, under timer_mutex.
GovLimits ==
  /\ event = "limits" /\ event' = "none"
  /\ LimitsMay
  /\ IF pmax < cur THEN DriverTarget(pmax, "H")
     ELSE IF pmin > cur THEN DriverTarget(pmin, "L")
     ELSE UNCHANGED <<cur, requested_freq>>
  /\ UNCHANGED <<pmin, pmax, enable, tuners, files, started, work, load>>

GovStop ==
  /\ started /\ event = "none" /\ event' = "stop"
  /\ enable' = FALSE
  /\ UNCHANGED <<policy, requested_freq, tuners, files, started, work, load>>

CancelAtOnce == TRUE
CancelMay == work \in {"idle", "queued"}

\* cancel_delayed_work_sync waits for work that runs and takes it off the queue.
GovStopCancel ==
  /\ event = "stop" /\ event' = "remove"
  /\ CancelMay
  /\ work' = IF work = "queued" THEN "idle" ELSE work
  /\ UNCHANGED <<policy, enable, requested_freq, tuners, files, started, load>>

GovStopRemove ==
  /\ event = "remove" /\ event' = "none"
  /\ files' = FALSE /\ started' = FALSE
  /\ UNCHANGED <<policy, enable, requested_freq, tuners, work, load>>

-----------------------------------------------------------------------------
(* The settings: written under dbs_mutex, which START holds until it knows *)
(* the sampling rates.                                                     *)

Writable == files /\ event # "start"
storeFrame == UNCHANGED <<policy, enable, requested_freq, files, started, event, work, load>>

Capped(input) == IF input > 100 THEN 100 ELSE input

StoreFreqStep == \E input \in Steps :
  /\ Writable
  /\ freq_step' = Capped(input)
  /\ storeFrame /\ UNCHANGED <<up_threshold, down_threshold, sampling_rate>>

StoreUpThreshold == \E input \in UpThresholds :
  /\ Writable
  /\ input <= 100 /\ input > down_threshold
  /\ up_threshold' = input
  /\ storeFrame /\ UNCHANGED <<freq_step, down_threshold, sampling_rate>>

DownThresholdUnchecked(input) == input <= 100 /\ input < up_threshold
DownThresholdMay(input) == input >= 11 /\ input <= 100 /\ input < up_threshold

StoreDownThreshold == \E input \in DownThresholds :
  /\ Writable
  /\ DownThresholdMay(input)
  /\ down_threshold' = input
  /\ storeFrame /\ UNCHANGED <<freq_step, up_threshold, sampling_rate>>

RateUnchecked(input) == input
RateFor(input) == IF input < MinRate THEN MinRate ELSE input

StoreSamplingRate == \E input \in Rates :
  /\ Writable
  /\ sampling_rate' = RateFor(input)
  /\ storeFrame /\ UNCHANGED <<freq_step, up_threshold, down_threshold>>

\* The system's load changes at any time.
LoadChanges == /\ load' \in Loads
               /\ UNCHANGED <<policy, enable, requested_freq, tuners, files, started, event, work>>

-----------------------------------------------------------------------------
Work == Due \/ Sample \/ ClampUp \/ ClampDown \/ Set \/ Queue
Governor == GovStartRates \/ GovStartTimer \/ GovLimits \/ GovStopCancel \/ GovStopRemove
Store == StoreFreqStep \/ StoreUpThreshold \/ StoreDownThreshold \/ StoreSamplingRate

Next == Work \/ Governor \/ GovStart \/ GovStop \/ OtherGovernor \/ SetPolicy \/ Store
        \/ LoadChanges

Spec == Init /\ [][Next]_vars

(***************************************************************************)
(* The timer goes off and the work queue's thread runs; a handler that has *)
(* begun goes on.  LIMITS and STOP wait for timer_mutex and for the work,  *)
(* which give way between any two samples.                                 *)
(***************************************************************************)
FairSpec == Spec /\ WF_vars(Work) /\ WF_vars(GovStartRates \/ GovStartTimer \/ GovStopRemove)
                 /\ SF_vars(GovLimits) /\ SF_vars(GovStopCancel)

-----------------------------------------------------------------------------
\* Every variable has its type; while the work may be queued, its delay is not
\* computed from a rate of zero (lines 486-488 divide by it).
TypeOK ==
  /\ cur \in Table /\ <<pmin, pmax>> \in Policies
  /\ enable \in BOOLEAN /\ files \in BOOLEAN /\ started \in BOOLEAN
  /\ requested_freq \in 0 .. Word - 1
  /\ freq_step \in 0 .. 100 /\ up_threshold \in 0 .. 100 /\ down_threshold \in 11 .. 100
  /\ sampling_rate \in Nat
  /\ event = "timer" \/ enable => sampling_rate >= MinRate
  /\ event \in {"none", "start", "timer", "limits", "stop", "remove"}
  /\ work \in {"idle", "queued", "due", "up", "down", "set_up", "set_down", "queue"}
  /\ load \in Loads

\* Once the governor has been told of the limits, the frequency is within
\* them, whatever the work had read of the old ones (lines 437-450, 611-621).
WithinLimits == started /\ event = "none" => pmin <= cur /\ cur <= pmax

\* A sample of high load never lowers the frequency and one of low load never
\* raises it, unless new limits force it to (lines 432-476).
Raises == work = "set_up" /\ work' = "queue" => cur' >= cur \/ cur > pmax
Lowers == work = "set_down" /\ work' = "queue" => cur' <= cur \/ cur < pmin
MovesWithLoad == [][Raises /\ Lowers]_vars

\* No work is left when STOP has ended (lines 510-514).
StoppedForGood == event = "remove" \/ ~(started \/ event \in {"start", "timer"}) => work = "idle"

\* Load that stays high ends at the maximum frequency, although one step may
\* be smaller than the distance between two frequencies (lines 432-453).
Enabled == started /\ event \in {"none", "limits"} /\ freq_step # 0
HighLoadReachesMax ==
  \A p \in Policies : <>[](Enabled /\ High /\ pmax = p[2]) => <>[](cur = p[2])

\* An idle system ends at the minimum frequency, however down_threshold is
\* set (line 262: "cannot be lower than 11 otherwise freq will not fall").
IdleReachesMin ==
  \A p \in Policies : <>[](Enabled /\ load = 0 /\ pmin = p[1]) => <>[](cur = p[1])
=============================================================================
