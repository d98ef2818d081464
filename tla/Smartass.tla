------------------------------ MODULE Smartass ------------------------------
(***************************************************************************)
(* The "smartass" CPU frequency governor, modules/overclock/               *)
(* cpufreq_smartass.c, on the single CPU of the device.                    *)
(*                                                                         *)
(* The hook of the idle thread arms a timer; the timer measures the load   *)
(* and queues one work item on one of two workqueues; the work moves the   *)
(* frequency.  The cpufreq core starts and stops the governor and changes  *)
(* the policy's limits; early suspend caps the speed.  Nothing is locked:  *)
(* the core's call, the suspend handler and the two workers preempt each   *)
(* other.  The timer runs between any two of their steps, the idle thread  *)
(* only when they sleep.                                                   *)
(***************************************************************************)
EXTENDS CpufreqTable

CONSTANTS
  Policies,   \* the <<min, max>> pairs the policy may be given
  Defaults,   \* the settings the module starts with
  Inputs,     \* for each setting that is written, the values
  Loads,      \* the load of the CPU, in percent
  Modes,      \* what may happen is a matter of the mode:
  Liberties,  \* "overlap": the callers preempt each other; "asleep": settings
              \* are written while suspended; "sysfs": files are not created
  Overlap,    \* bound on the callers under way with "overlap"
  MaxStarts,  \* bound on active_count, which grows with "sysfs"
  Word        \* 2^32: the values of an unsigned int

Settings == {"up_min_freq", "sleep_max_freq", "sleep_wakeup_freq", "awake_min_freq",
             "ramp_up_step", "max_ramp_down", "max_cpu_load", "min_cpu_load"}
Workers == {"up", "down"}

ASSUME SmartassAssumption ==
  /\ Policies # {} /\ Policies \subseteq Table \X Table
  /\ \A p \in Policies : p[1] <= p[2]
  /\ Word \in Nat /\ \A f \in Table : f < Word
  /\ Defaults \in [Settings -> 0 .. Word - 1] /\ DOMAIN Inputs \subseteq Settings
  /\ \A s \in DOMAIN Inputs : Inputs[s] \subseteq 0 .. Word - 1
  /\ Defaults.max_cpu_load \in 1 .. 100 /\ Defaults.min_cpu_load \in 1 .. 99
  /\ Loads # {} /\ Loads \subseteq 0 .. 100
  /\ Modes \subseteq DOMAIN Liberties
  /\ \A m \in Modes : Liberties[m] \subseteq {"overlap", "asleep", "sysfs"}
  /\ MaxStarts \in Nat /\ Overlap \in Nat

VARIABLES
  cur, pmin, pmax,                \* the policy: current frequency and limits
  enable, min_speed, max_speed,   \* this_smartass
  suspended, tuned,               \* tuned: the settings
  timer,                          \* pending
  load,                           \* what the timer would measure
  cur_cpu_load, force_ramp_up,
  mask, pending, run,             \* work_cpumask; where the work item is queued;
                                  \* the frequency each worker is about to set, or 0
  active_count, pm_idle, pm_idle_old,
  event, arg,                     \* the core's call, and its view of suspended
  handler,                        \* the suspend handler
  mode

policy == <<cur, pmin, pmax>>
speeds == <<min_speed, max_speed>>
works == <<cur_cpu_load, force_ramp_up, mask, pending, run>>
hooks == <<active_count, pm_idle, pm_idle_old>>
core == <<event, arg>>
vars == <<policy, enable, speeds, suspended, tuned, timer, load, works, hooks, core, handler, mode>>

May(liberty) == liberty \in Liberties[mode]
UnderWay == {w \in Workers : run[w] # 0} \cup ({event, handler} \ {"none"})
MayBegin == Cardinality(UnderWay) < IF May("overlap") THEN Overlap ELSE 1

Init ==
  /\ \E p \in Policies : pmin = p[1] /\ pmax = p[2]
  /\ cur \in {f \in Table : pmin <= f /\ f <= pmax}
  /\ enable = FALSE /\ min_speed = Defaults.awake_min_freq
  /\ max_speed = Defaults.sleep_wakeup_freq
  /\ suspended = FALSE /\ tuned = Defaults
  /\ timer = FALSE /\ load \in Loads /\ cur_cpu_load = 0 /\ force_ramp_up = FALSE
  /\ mask = FALSE /\ pending = "no" /\ run = [w \in Workers |-> 0]
  /\ active_count = 0 /\ pm_idle = "platform" /\ pm_idle_old = "null"
  /\ event = "none" /\ arg = FALSE /\ handler = "none"
  /\ mode \in Modes

-----------------------------------------------------------------------------
(* smartass_update_min_max and validate_freq *)

SleepMax == IF pmax > tuned.sleep_max_freq
            THEN IF tuned.sleep_max_freq > pmin THEN tuned.sleep_max_freq ELSE pmin
            ELSE pmax

AwakeMin == IF pmin < tuned.awake_min_freq
            THEN IF tuned.awake_min_freq < pmax THEN tuned.awake_min_freq ELSE pmax
            ELSE pmin

UpdateMinMaxAwake(suspend) ==
  UNCHANGED min_speed /\ max_speed' = IF suspend THEN max_speed ELSE pmax
UpdateMinMax(suspend) ==
  /\ min_speed' = IF suspend THEN pmin ELSE AwakeMin
  /\ max_speed' = IF suspend THEN SleepMax ELSE pmax

AnyFreq(f) == f
ValidFreq(f) == IF f > max_speed THEN max_speed ELSE IF f < min_speed THEN min_speed ELSE f

-----------------------------------------------------------------------------
(* The timer and the idle thread *)

Demand == load' \in Loads /\ load' # load
          /\ UNCHANGED <<policy, enable, speeds, suspended, tuned, timer, works, hooks, core,
                         handler, mode>>

\* Nothing was measured: no time passed, or less than a millisecond.
TimerEarly ==
  /\ timer /\ timer' = FALSE
  /\ UNCHANGED <<policy, enable, speeds, suspended, tuned, load, works, hooks, core, handler, mode>>

\* queue_work does nothing with an item that is queued already.
QueueWork(w) == mask' = TRUE /\ pending' = IF pending = "no" THEN w ELSE pending

High == load > tuned.max_cpu_load
NoIdleCycles == load = 100

\* cpufreq_smartass_timer; how many tasks run, and whether the frequency is
\* old enough to be lowered, is open.
TimerMeasures ==
  /\ timer
  /\ cur_cpu_load' = load
  /\ \/ /\ High \/ NoIdleCycles
        /\ timer' = FALSE
        /\ \/ cur # pmax /\ force_ramp_up' = TRUE /\ QueueWork("up")
           \/ UNCHANGED <<force_ramp_up, mask, pending>>
     \/ /\ ~High
        /\ timer' \in {FALSE, cur < max_speed}
        /\ \/ cur # pmin /\ QueueWork("down")
           \/ UNCHANGED <<mask, pending>>
        /\ UNCHANGED force_ramp_up
  /\ UNCHANGED <<policy, enable, speeds, suspended, tuned, load, run, hooks, core, handler, mode>>

\* cpufreq_idle: the timer is pending afterwards.
Idle ==
  /\ pm_idle = "smartass" /\ enable
  /\ ~timer /\ timer' = TRUE
  /\ UNCHANGED <<policy, enable, speeds, suspended, tuned, load, works, hooks, core, handler, mode>>

-----------------------------------------------------------------------------
(* cpufreq_smartass_freq_change_time_work *)

LowSwapped == cur_cpu_load > tuned.min_cpu_load
Low == cur_cpu_load < tuned.min_cpu_load

RampDown ==
  LET new == (cur * (cur_cpu_load + 100 - tuned.max_cpu_load)) \div 100
      least == (cur - tuned.max_ramp_down) % Word
  IN  IF tuned.max_ramp_down # 0 /\ new < least THEN least ELSE new

NewFreq(force) ==
  IF force \/ cur_cpu_load > tuned.max_cpu_load
  THEN IF force /\ tuned.up_min_freq # 0 THEN tuned.up_min_freq
       ELSE IF tuned.ramp_up_step # 0 THEN (cur + tuned.ramp_up_step) % Word
       ELSE max_speed
  ELSE IF Low THEN RampDown
  ELSE cur

\* Up to the call of the driver.  A worker that finds the mask cleared by the
\* other one does nothing.
WorkBegins(w) ==
  /\ pending = w /\ run[w] = 0 /\ MayBegin
  /\ pending' = "no"
  /\ IF mask
     THEN /\ \E many \in BOOLEAN :
               run' = [run EXCEPT ![w] = ValidFreq(NewFreq(force_ramp_up /\ many))]
          /\ force_ramp_up' = FALSE
     ELSE UNCHANGED <<run, force_ramp_up>>
  /\ UNCHANGED <<policy, enable, speeds, suspended, tuned, timer, load, cur_cpu_load, mask, hooks,
                 core, handler, mode>>

WorkSets(w) ==
  /\ run[w] # 0
  /\ cur' = DriverFreq(run[w], "L")
  /\ run' = [run EXCEPT ![w] = 0] /\ mask' = FALSE
  /\ UNCHANGED <<pmin, pmax, enable, speeds, suspended, tuned, timer, load, cur_cpu_load,
                 force_ramp_up, pending, hooks, core, handler, mode>>

-----------------------------------------------------------------------------
(* The core, and cpufreq_governor_smartass *)

OtherGovernor ==
  /\ ~enable /\ MayBegin /\ event = "none"
  /\ cur' \in {f \in Table : pmin <= f /\ f <= pmax}
  /\ UNCHANGED <<pmin, pmax, enable, speeds, suspended, tuned, timer, load, works, hooks, core,
                 handler, mode>>

\* The core changes the limits and calls the governor with LIMITS.
SetPolicy ==
  /\ MayBegin /\ event = "none"
  /\ \E p \in Policies : pmin' = p[1] /\ pmax' = p[2]
  /\ IF enable THEN cur' = cur /\ event' = "limits"
     ELSE cur' \in {f \in Table : pmin' <= f /\ f <= pmax'} /\ event' = "none"
  /\ UNCHANGED <<enable, speeds, suspended, tuned, timer, load, works, hooks, arg, handler, mode>>

\* START, which goes on with LIMITS.
GovStart ==
  /\ ~enable /\ MayBegin /\ event = "none" /\ active_count < MaxStarts
  /\ active_count' = active_count + 1
  /\ IF active_count' <= 1
     THEN pm_idle_old' = pm_idle /\ pm_idle' = "smartass"
     ELSE UNCHANGED <<pm_idle, pm_idle_old>>
  /\ enable' = TRUE /\ event' = "limits"
  /\ UNCHANGED <<policy, speeds, suspended, tuned, timer, load, works, arg, handler, mode>>

\* START without its files: the count stays raised.
GovStartFails ==
  /\ May("sysfs") /\ ~enable /\ MayBegin /\ event = "none" /\ active_count = 0
  /\ active_count' = 1
  /\ UNCHANGED <<policy, enable, speeds, suspended, tuned, timer, load, works, pm_idle,
                 pm_idle_old, core, handler, mode>>

LimitsArgument ==
  /\ event = "limits" /\ event' = "update" /\ arg' = suspended
  /\ UNCHANGED <<policy, enable, speeds, suspended, tuned, timer, load, works, hooks, handler, mode>>

LimitsUpdate ==
  /\ event = "update" /\ event' = "target"
  /\ UpdateMinMax(arg) /\ arg' = FALSE
  /\ UNCHANGED <<policy, enable, suspended, tuned, timer, load, works, hooks, handler, mode>>

LimitsTarget ==
  /\ event = "target" /\ event' = "none"
  /\ cur' = IF cur # max_speed THEN DriverFreq(max_speed, "H") ELSE cur
  /\ UNCHANGED <<pmin, pmax, enable, speeds, suspended, tuned, timer, load, works, hooks, arg,
                 handler, mode>>

TimerKept == timer
TimerDeleted == FALSE

\* STOP: what is queued is left to run.
GovStop ==
  /\ enable /\ MayBegin /\ event = "none"
  /\ timer' = TimerDeleted /\ enable' = FALSE
  /\ active_count' = active_count - 1
  /\ event' = IF active_count' > 1 THEN "none" ELSE "remove"
  /\ UNCHANGED <<policy, speeds, suspended, tuned, load, works, pm_idle, pm_idle_old, arg,
                 handler, mode>>

HookKept == pm_idle
HookRestored == pm_idle_old

\* STOP removes the files, sleeping, before it restores the idle function.
GovStopRemoves ==
  /\ event = "remove" /\ event' = "none"
  /\ pm_idle' = HookRestored
  /\ UNCHANGED <<policy, enable, speeds, suspended, tuned, timer, load, works, active_count,
                 pm_idle_old, arg, handler, mode>>

\* A store function: what is out of range is ignored.
InRange(s, input) ==
  /\ s = "max_cpu_load" => input \in 1 .. 100
  /\ s = "min_cpu_load" => input \in 1 .. 99

Store(s) == \E input \in Inputs[s] :
  /\ enable /\ (suspended => May("asleep"))
  /\ tuned' = IF InRange(s, input) THEN [tuned EXCEPT ![s] = input] ELSE tuned
  /\ UNCHANGED <<policy, enable, speeds, suspended, timer, load, works, hooks, core, handler, mode>>

-----------------------------------------------------------------------------
(* smartass_early_suspend and smartass_late_resume *)

EarlySuspend ==
  /\ ~suspended /\ handler = "none" /\ MayBegin
  /\ suspended' = TRUE /\ handler' = "decide"
  /\ UNCHANGED <<policy, enable, speeds, tuned, timer, load, works, hooks, core, mode>>

LateResume ==
  /\ suspended /\ handler = "none" /\ MayBegin
  /\ suspended' = FALSE /\ handler' = "decide"
  /\ UNCHANGED <<policy, enable, speeds, tuned, timer, load, works, hooks, core, mode>>

HandlerUpdate ==
  /\ handler = "decide"
  /\ IF ~enable \/ tuned.sleep_max_freq = 0
     THEN handler' = "none" /\ UNCHANGED speeds
     ELSE handler' = "apply" /\ UpdateMinMax(suspended)
  /\ UNCHANGED <<policy, enable, suspended, tuned, timer, load, works, hooks, core, mode>>

HandlerTarget ==
  /\ handler = "apply" /\ handler' = "none"
  /\ cur' = IF ~suspended THEN DriverFreq(ValidFreq(tuned.sleep_wakeup_freq), "H")
            ELSE IF cur > max_speed THEN DriverFreq(max_speed, "H")
            ELSE cur
  /\ UNCHANGED <<pmin, pmax, enable, speeds, suspended, tuned, timer, load, works, hooks, core, mode>>

-----------------------------------------------------------------------------
Measuring == Demand \/ TimerEarly \/ TimerMeasures \/ Idle
Working == \E w \in Workers : WorkBegins(w) \/ WorkSets(w)
CoreStep == GovStopRemoves \/ LimitsArgument \/ LimitsUpdate \/ LimitsTarget
HandlerStep == HandlerUpdate \/ HandlerTarget
Calls == OtherGovernor \/ SetPolicy \/ GovStart \/ GovStartFails \/ GovStop
         \/ EarlySuspend \/ LateResume \/ \E s \in DOMAIN Inputs : Store(s)

Next == Measuring \/ Working \/ CoreStep \/ HandlerStep \/ Calls

Spec == Init /\ [][Next]_vars

\* Calls come to their end, queued work is run, a timer armed again and again
\* measures at last, and a CPU that is not always busy is idle again and again.
Fairness ==
  /\ WF_vars(CoreStep) /\ WF_vars(HandlerStep)
  /\ \A w \in Workers : SF_vars(WorkBegins(w)) /\ WF_vars(WorkSets(w))
  /\ SF_vars(TimerMeasures /\ (~High /\ cur # pmin => pending' # "no"))
  /\ WF_vars(load < 100 /\ Idle)

FairSpec == Spec /\ Fairness

-----------------------------------------------------------------------------

(* Once STOP has deleted the timer nothing arms it again: the idle thread  *)
(* may call the hook while STOP removes the files, but finds it disabled.  *)
(* The idle function never calls itself, and unless START failed it is the *)
(* governor's while the governor runs and the platform's own after STOP.   *)
StopsClean ==
  /\ ~enable => ~timer
  /\ pm_idle_old # "smartass"
  /\ ~May("sysfs") /\ event = "none" => pm_idle = IF enable THEN "smartass" ELSE "platform"

(* Suspending, resuming and new limits, in whatever order as long as they  *)
(* do not overlap: the speed is capped while suspended and only then, and  *)
(* the frequency keeps to the speeds, up to the driver's rounding.         *)
CappedWhileSuspended ==
  Liberties[mode] = {} /\ event = "none" /\ handler = "none" /\ enable =>
    /\ max_speed = IF suspended THEN SleepMax ELSE pmax
    /\ DriverFreq(min_speed, "H") <= cur /\ cur <= DriverFreq(max_speed, "L")

(* A CPU left with nothing to do comes down to the lowest speed and stays  *)
(* there, unless max_ramp_down holds it up.                                *)
Undisturbed == enable /\ event = "none" /\ handler = "none" /\ pm_idle = "smartass"
               /\ load = 0 /\ tuned.max_ramp_down = 0 /\ tuned.min_cpu_load > 0
IdleComesDown == <>[]Undisturbed => <>[](cur <= DriverFreq(min_speed, "L"))
=============================================================================
