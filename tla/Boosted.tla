------------------------------ MODULE Boosted ------------------------------
(***************************************************************************)
(* The "boosted" CPU frequency governor, modules/overclock/                *)
(* cpufreq_boosted.c, on the single CPU of the device.                     *)
(*                                                                         *)
(* A sampling timer decides to ramp up or down and queues one work item on *)
(* one of two workqueues; the work picks and sets the new frequency and    *)
(* arms the timer again; the idle loop arms it when nobody did.  The       *)
(* governor callback (START, LIMITS, STOP), the suspend handlers and the   *)
(* sysfs writers change what the others read, with no lock between them.   *)
(*                                                                         *)
(* The kernel is preemptible: a thread may be interrupted between any two  *)
(* of its steps below.  The timer runs in interrupt context, as one step.  *)
(* Nothing but the timer runs while the CPU is idle.                       *)
(***************************************************************************)
EXTENDS CpufreqTable

CONSTANTS
  Policies,     \* the <<min, max>> pairs the policy may be given
  AwakeIdeals,  \* values of awake_ideal_freq, the default first written
  SleepIdeals,  \* values of sleep_ideal_freq
  WakeupFreq,   \* sleep_wakeup_freq
  RampUp,       \* ramp_up_step
  RampDown,     \* ramp_down_step
  Loads,        \* what a sample may find
  RunQueue,     \* whether nr_running() > 1, seen by the work
  Ops           \* which of the optional events below happen

Events == {"stop", "limits", "suspend", "store", "idle", "sysfs_fail", "other",
           "late"}

ASSUME BoostedAssumption ==
  /\ Policies # {}
  /\ \A p \in Policies :
       /\ p \in Nat \X Nat
       /\ p[1] <= p[2]
       /\ \E f \in Table : p[1] <= f /\ f <= p[2]
  /\ AwakeIdeals \subseteq Nat /\ SleepIdeals \subseteq Nat
  /\ WakeupFreq \in Nat /\ RampUp \in Nat /\ RampDown \in Nat
  /\ Loads \subseteq {"noidle", "high", "mid", "low"}
  /\ RunQueue \subseteq BOOLEAN
  /\ Ops \subseteq Events

Workers == {"up", "down"}
Threads == Workers \cup {"gov", "susp", "store"}

VARIABLES
  cur, pmin, pmax,   \* the policy: current frequency and limits
  awake, sleep,      \* awake_ideal_freq, sleep_ideal_freq
  suspended,
  enable, ideal,     \* boosted_info: enable, ideal_speed
  ramp_dir, old_freq,
  idle_exit,         \* idle_exit_time is not zero
  timer,             \* timer_pending
  mask,              \* work_cpumask has this CPU
  pending,           \* the queue freq_scale_work is pending on, or "none"
  last,              \* the queue it was last put on
  flush_left,        \* runs on queue last that flush_work still waits for
  flush_on,
  active_count,
  pm_idle, pm_idle_old,
  started,           \* the core has started the governor and not stopped it
  idle,              \* the CPU is inside pm_idle_old
  pc, loc,           \* where each thread is, and the value it holds
  outdated,          \* history: ideal was written from inputs already changed
  waits              \* threads the pending timer does not expire before

freq == <<cur, pmin, pmax>>
tunables == <<awake, sleep, suspended>>
work == <<ramp_dir, old_freq, mask, pending, last>>
flush == <<flush_left, flush_on>>
hooks == <<active_count, pm_idle, pm_idle_old>>
tick == <<timer, idle_exit>>
target == <<ideal, outdated>>
vars == <<freq, tunables, work, flush, hooks, tick, target, enable, started,
          idle, pc, loc, waits>>

-----------------------------------------------------------------------------
(* boosted_update_min_max: the ideal frequency, held within the policy.    *)
IdealWithin(lo, hi) ==
  IF suspended
  THEN IF hi > sleep THEN IF sleep > lo THEN sleep ELSE lo ELSE hi
  ELSE IF lo < awake THEN IF awake < hi THEN awake ELSE hi ELSE lo

Ideal == IdealWithin(pmin, pmax)

(* validate_freq *)
Validate(f, lo, hi) == IF f > hi THEN hi ELSE IF f < lo THEN lo ELSE f

(* The frequencies of the table within the limits. *)
Within(lo, hi) == {f \in Table : lo <= f /\ f <= hi}

(* target_freq up to the driver call: the frequency to set, 0 for none.    *)
(* When the table has no other frequency on the preferred side of the      *)
(* request, the other side is tried.                                       *)
RetryNever(new, old, relation) == FALSE
Retry(new, old, relation) ==
  \/ new > old /\ relation = "H"
  \/ new < old /\ relation = "L"

Opposite(relation) == IF relation = "H" THEN "L" ELSE "H"

TargetFreq(wanted, old, relation, lo, hi) ==
  LET new    == Validate(wanted, lo, hi)
      first  == Pick(Within(lo, hi), new, relation)
      second == Pick(Within(lo, hi), new, Opposite(relation))
      chosen == IF first = old /\ Retry(new, old, relation)
                THEN second ELSE first
  IN  IF wanted = old \/ new = old \/ chosen = old THEN 0 ELSE chosen

-----------------------------------------------------------------------------
(* init: the module is loaded and another governor runs.                   *)
Init ==
  /\ cur \in Table
  /\ \E p \in Policies : pmin = p[1] /\ pmax = p[2] /\ cur \in p[1] .. p[2]
  /\ awake \in AwakeIdeals /\ sleep \in SleepIdeals
  /\ suspended = FALSE
  /\ enable = FALSE /\ ideal = 0 /\ outdated = FALSE
  /\ ramp_dir = 0 /\ old_freq = 0 /\ mask = FALSE
  /\ pending = "none" /\ last = "none"
  /\ flush_left = 0 /\ flush_on = "none"
  /\ active_count = 0 /\ pm_idle = "default" /\ pm_idle_old = "null"
  /\ timer = FALSE /\ idle_exit = FALSE
  /\ started = FALSE
  /\ idle = FALSE
  /\ pc = [t \in Threads |-> "rest"]
  /\ loc = [t \in Threads |-> 0]
  /\ waits = {}

(***************************************************************************)
(* A thread sleeps at rest, in the driver or in flush_work.  The worker of *)
(* up_wq is a real-time thread: on the one CPU the other threads and the   *)
(* idle loop run only while it sleeps.                                     *)
(***************************************************************************)
Asleep(t) ==
  \/ pc[t] = "rest" /\ pending # t
  \/ pc[t] = "target"
  \/ pc[t] = "flush" /\ flush_left > 0

At(t, l) ==
  /\ pc[t] = l
  /\ ~idle
  /\ t # "up" => Asleep("up")

(***************************************************************************)
(* A sampling period is two jiffies, 15 ms: unless "late" is among Ops, a  *)
(* handler that runs, or work that is pending, when the timer is armed has *)
(* ended when it expires.                                                  *)
(***************************************************************************)
Outlasted(places) ==
  IF "late" \in Ops THEN {}
  ELSE {t \in Threads : places[t] # "rest" \/ pending = t}

Goto(t, l) ==
  /\ pc' = [pc EXCEPT ![t] = l]
  /\ waits' = IF l = "rest" THEN waits \ {t} ELSE waits

(* mod_timer, as the last thing thread t does before l.                    *)
ModTimer(t, l) ==
  /\ timer' = TRUE
  /\ pc' = [pc EXCEPT ![t] = l]
  /\ waits' = Outlasted(pc')

Keep(t, v) == loc' = [loc EXCEPT ![t] = v]
Step(t, l) == Goto(t, l) /\ UNCHANGED <<loc, idle>>
Done(t) == Goto(t, "rest") /\ Keep(t, 0) /\ UNCHANGED idle

-----------------------------------------------------------------------------
(***************************************************************************)
(* cpufreq_boosted_timer.  A sample finds no idle cycle at all, a load     *)
(* above max_cpu_load, one below min_cpu_load, or neither; long says       *)
(* whether the frequency was kept for the up (or down) rate.  A sample of  *)
(* less than 1 ms arms the timer again and changes nothing.                *)
(***************************************************************************)
Decision(load, long) ==
  IF load \in {"noidle", "high"}
  THEN IF cur < pmax /\ (cur < ideal \/ load = "noidle" \/ long) THEN 1 ELSE 0
  ELSE IF load = "low" /\ cur > pmin /\ (cur > ideal \/ long) THEN -1 ELSE 0

QueueOf(dir) == IF dir = 1 THEN "up" ELSE "down"

(* queue_work: nothing happens if the item is pending, on whichever queue. *)
QueueWork(q) ==
  IF pending = "none" THEN pending' = q /\ last' = q
                      ELSE UNCHANGED <<pending, last>>

(* reset_timer from the timer itself, unless the work will do it.          *)
RearmAfter(dir) == dir = 0 /\ cur < pmax

Timer(load, long) ==
  LET dir == Decision(load, long) IN
  /\ timer /\ idle_exit /\ waits = {}
  /\ old_freq' = cur
  /\ ramp_dir' = dir
  /\ IF dir = 0 THEN UNCHANGED <<mask, pending, last>>
                ELSE mask' = TRUE /\ QueueWork(QueueOf(dir))
  /\ timer' = RearmAfter(dir)
  /\ waits' = IF RearmAfter(dir) THEN Outlasted(pc) ELSE {}
  /\ UNCHANGED <<freq, tunables, flush, hooks, idle_exit, target, enable,
                 started, idle, pc, loc>>

(* With idle_exit_time zero the timer returns and nothing arms it again.   *)
TimerStopped ==
  /\ timer /\ ~idle_exit /\ waits = {}
  /\ timer' = FALSE
  /\ UNCHANGED <<freq, tunables, work, flush, hooks, idle_exit, target,
                 enable, started, idle, pc, loc, waits>>

(***************************************************************************)
(* cpufreq_idle, split where the CPU sleeps in pm_idle_old.                *)
(***************************************************************************)

IdleEnter ==
  /\ "idle" \in Ops
  /\ ~idle /\ \A t \in Threads : Asleep(t)
  /\ pm_idle = "boosted" /\ enable
  /\ idle' = TRUE
  /\ timer' = (timer /\ cur # pmin)
  /\ UNCHANGED <<freq, tunables, work, flush, hooks, idle_exit, target,
                 enable, started, pc, loc, waits>>

IdleExit ==
  /\ idle
  /\ idle' = FALSE
  /\ timer' = TRUE
  /\ idle_exit' = (idle_exit \/ ~timer)
  /\ waits' = IF timer THEN waits ELSE Outlasted(pc)
  /\ UNCHANGED <<freq, tunables, work, flush, hooks, target, enable, started,
                 pc, loc>>

-----------------------------------------------------------------------------
(***************************************************************************)
(* The work, cpufreq_boosted_freq_change_time_work, on either queue.  A    *)
(* worker clears the pending mark before it runs the item, so the item can *)
(* be queued again, on the other queue too, while it runs.                 *)
(***************************************************************************)
WorkTake(q) ==
  /\ At(q, "rest") /\ pending = q
  /\ pending' = "none"
  /\ Step(q, "mask")
  /\ UNCHANGED <<freq, tunables, ramp_dir, old_freq, mask, last, flush, hooks,
                 tick, target, enable, started>>

(* The end of a run, which flush_work may be waiting for.                  *)
EndRun(q) ==
  /\ flush_left' = IF flush_on = q /\ flush_left > 0
                   THEN flush_left - 1 ELSE flush_left
  /\ UNCHANGED flush_on

WorkMask(q) ==
  /\ At(q, "mask")
  /\ mask' = FALSE
  /\ IF mask THEN Step(q, "dir") /\ UNCHANGED flush
             ELSE Done(q) /\ EndRun(q)
  /\ UNCHANGED <<freq, tunables, ramp_dir, old_freq, pending, last, hooks,
                 tick, target, enable, started>>

WorkDir(q) ==
  /\ At(q, "dir")
  /\ Keep(q, ramp_dir) /\ Goto(q, "decide") /\ UNCHANGED idle
  /\ UNCHANGED <<freq, tunables, work, flush, hooks, tick, target, enable,
                 started>>

(* What the ramp asks for: a frequency and the side to round it to.  With  *)
(* ramp_down_step zero the load, any load, decides.                        *)
Wanted(dir, busy) ==
  IF old_freq # cur THEN {<<old_freq, "L">>}
  ELSE IF dir > 0 /\ busy
  THEN IF old_freq < ideal THEN {<<ideal, "L">>}
       ELSE IF RampUp > 0 THEN {<<old_freq + RampUp, "H">>}
       ELSE {<<pmax, "H">>}
  ELSE IF dir < 0
  THEN IF old_freq > ideal THEN {<<ideal, "H">>}
       ELSE IF RampDown > 0 THEN {<<old_freq - RampDown, "L">>}
       ELSE {<<f, "L">> : f \in 0 .. old_freq}
  ELSE {<<old_freq, "L">>}

WorkDecide(q, busy) ==
  /\ At(q, "decide")
  /\ ramp_dir' = 0
  /\ \E w \in Wanted(loc[q], busy) :
       LET f == TargetFreq(w[1], old_freq, w[2], pmin, pmax) IN
       /\ Keep(q, f)
       /\ Goto(q, IF f = 0 THEN "rearm" ELSE "target")
  /\ UNCHANGED <<freq, tunables, old_freq, mask, pending, last, flush, hooks,
                 tick, target, enable, started, idle>>

WorkTarget(q) ==
  /\ At(q, "target")
  /\ cur' = DriverFreq(loc[q], "L")
  /\ Step(q, "rearm")
  /\ UNCHANGED <<pmin, pmax, tunables, work, flush, hooks, tick, target,
                 enable, started>>

(* A maxed out CPU needs no timer.  reset_timer takes the sample first and *)
(* arms the timer second.                                                  *)
WorkRearm(q) ==
  /\ At(q, "rearm")
  /\ IF loc[q] < pmax
     THEN /\ idle_exit' = TRUE
          /\ Step(q, "arm")
          /\ UNCHANGED flush
     ELSE /\ UNCHANGED idle_exit
          /\ IF timer THEN Step(q, "del") /\ UNCHANGED flush
                      ELSE Done(q) /\ EndRun(q)
  /\ UNCHANGED <<freq, tunables, work, hooks, timer, target, enable, started>>

WorkFinish(q) ==
  /\ \/ At(q, "arm") /\ ModTimer(q, "rest")
     \/ At(q, "del") /\ timer' = FALSE /\ Goto(q, "rest")
  /\ Keep(q, 0) /\ EndRun(q)
  /\ UNCHANGED idle
  /\ UNCHANGED <<freq, tunables, work, hooks, idle_exit, target, enable,
                 started>>

-----------------------------------------------------------------------------
(* The three callers of boosted_update_min_max store what they computed.   *)
SetIdeal(t, l) ==
  /\ ideal' = loc[t]
  /\ outdated' = (loc[t] # Ideal)
  /\ Goto(t, l)

(* CPUFREQ_GOV_START                                                       *)
GovStart ==
  /\ At("gov", "rest") /\ ~started
  /\ enable' = TRUE
  /\ Keep("gov", Ideal) /\ Goto("gov", "start_ideal")
  /\ UNCHANGED <<freq, tunables, work, flush, hooks, tick, target, started,
                 idle>>

GovStartIdeal ==
  /\ At("gov", "start_ideal")
  /\ SetIdeal("gov", "start_hook") /\ Keep("gov", 0)
  /\ UNCHANGED <<freq, tunables, work, flush, hooks, tick, enable, started,
                 idle>>

(* The first user registers the sysfs group and the idle hook.  If the     *)
(* group cannot be created the callback returns with the rest as it is.    *)
GovStartHook ==
  /\ At("gov", "start_hook")
  /\ active_count' = active_count + 1
  /\ \/ /\ active_count = 0
        /\ pm_idle' = "boosted" /\ pm_idle_old' = pm_idle
        /\ Step("gov", "start_check")
     \/ /\ active_count > 0
        /\ UNCHANGED <<pm_idle, pm_idle_old>>
        /\ Step("gov", "start_check")
     \/ /\ "sysfs_fail" \in Ops
        /\ active_count = 0
        /\ UNCHANGED <<pm_idle, pm_idle_old>>
        /\ Done("gov")
  /\ UNCHANGED <<freq, tunables, work, flush, tick, target, enable, started>>

(* Arm the timer below the maximum, unless it is pending.                  *)
GovCheck(l, armed, next) ==
  /\ At("gov", l)
  /\ IF cur < pmax /\ ~timer
     THEN idle_exit' = TRUE /\ Step("gov", armed)
     ELSE UNCHANGED idle_exit /\ Step("gov", next)
  /\ UNCHANGED <<freq, tunables, work, flush, hooks, timer, target, enable>>

GovArm(l, next) ==
  /\ At("gov", l)
  /\ ModTimer("gov", next)
  /\ UNCHANGED <<loc, idle>>
  /\ UNCHANGED <<freq, tunables, work, flush, hooks, idle_exit, target,
                 enable, started>>

(* The core follows START with LIMITS.                                     *)
GovStartCheck ==
  /\ GovCheck("start_check", "start_arm", "limits")
  /\ started' = TRUE

GovStartArm == GovArm("start_arm", "limits")

(* CPUFREQ_GOV_LIMITS, after the core has given the policy new limits.     *)
GovLimits(p) ==
  /\ \/ At("gov", "limits")
     \/ "limits" \in Ops /\ At("gov", "rest") /\ started
  /\ pmin' = p[1] /\ pmax' = p[2]
  /\ Keep("gov", IdealWithin(p[1], p[2])) /\ Goto("gov", "ideal")
  /\ UNCHANGED <<cur, tunables, work, flush, hooks, tick, target, enable,
                 started, idle>>

GovIdeal ==
  /\ At("gov", "ideal")
  /\ SetIdeal("gov", "clamp") /\ Keep("gov", 0)
  /\ UNCHANGED <<freq, tunables, work, flush, hooks, tick, enable, started,
                 idle>>

GovClamp ==
  /\ At("gov", "clamp")
  /\ IF cur > pmax
     THEN Keep("gov", DriverFreq(pmax, "H")) /\ Goto("gov", "target")
     ELSE IF cur < pmin
     THEN Keep("gov", DriverFreq(pmin, "L")) /\ Goto("gov", "target")
     ELSE Goto("gov", "check") /\ UNCHANGED loc
  /\ UNCHANGED <<freq, tunables, work, flush, hooks, tick, target, enable,
                 started, idle>>

GovTarget ==
  /\ At("gov", "target")
  /\ cur' = loc["gov"]
  /\ Keep("gov", 0) /\ Goto("gov", "check")
  /\ UNCHANGED <<pmin, pmax, tunables, work, flush, hooks, tick, target,
                 enable, started, idle>>

GovLimitsCheck ==
  /\ GovCheck("check", "arm", "rest")
  /\ UNCHANGED started

GovLimitsArm == GovArm("arm", "rest")

(* CPUFREQ_GOV_STOP                                                        *)
GovStop ==
  /\ "stop" \in Ops
  /\ At("gov", "rest") /\ started
  /\ enable' = FALSE
  /\ Step("gov", "stop")
  /\ UNCHANGED <<freq, tunables, work, flush, hooks, tick, target, started>>

(* del_timer, then flush_work: it waits for the run that is pending, or    *)
(* for the one in progress, on the queue the item was last put on.         *)
GovStopTimer ==
  /\ At("gov", "stop")
  /\ timer' = FALSE
  /\ flush_on' = last
  /\ flush_left' =
       Cardinality({q \in Workers : q = last /\ pc[q] # "rest"})
       + (IF pending = "none" THEN 0 ELSE 1)
  /\ Step("gov", "flush")
  /\ UNCHANGED <<freq, tunables, work, hooks, idle_exit, target, enable,
                 started>>

ForgetSampleNot == UNCHANGED idle_exit
ForgetSample == idle_exit' = FALSE

GovStopFlush ==
  /\ At("gov", "flush") /\ flush_left = 0
  /\ ForgetSample
  /\ flush_on' = "none" /\ UNCHANGED flush_left
  /\ Step("gov", "unhook")
  /\ UNCHANGED <<freq, tunables, work, hooks, timer, target, enable, started>>

(* Removing the sysfs group waits for the handlers that are running.       *)
GovStopUnhook ==
  /\ At("gov", "unhook")
  /\ active_count <= 2 => pc["store"] = "rest"
  /\ active_count' = active_count - 1
  /\ pm_idle' = IF active_count <= 2 THEN pm_idle_old ELSE pm_idle
  /\ started' = FALSE
  /\ Step("gov", "rest")
  /\ UNCHANGED <<freq, tunables, work, flush, pm_idle_old, tick, target,
                 enable>>

(* While this governor is stopped another one sets the frequency.          *)
OtherGovernor(f) ==
  /\ "other" \in Ops
  /\ At("gov", "rest") /\ ~started
  /\ cur' = f
  /\ UNCHANGED <<pmin, pmax, tunables, work, flush, hooks, tick, target,
                 enable, started, idle, pc, loc, waits>>

-----------------------------------------------------------------------------
(* boosted_early_suspend and boosted_late_resume.                          *)
EarlySuspend ==
  /\ "suspend" \in Ops
  /\ At("susp", "rest")
  /\ ~suspended /\ sleep # 0
  /\ suspended' = TRUE
  /\ Step("susp", "calc")
  /\ UNCHANGED <<freq, awake, sleep, work, flush, hooks, tick, target, enable,
                 started>>

LateResume ==
  /\ At("susp", "rest")
  /\ suspended
  /\ suspended' = FALSE
  /\ Step("susp", "calc")
  /\ UNCHANGED <<freq, awake, sleep, work, flush, hooks, tick, target, enable,
                 started>>

(* boosted_suspend and boosted_update_min_max_allcpus: nothing to do for a *)
(* governor that is not enabled.                                           *)
CalcIdeal(t) ==
  /\ At(t, "calc")
  /\ IF enable
     THEN Keep(t, Ideal) /\ Goto(t, "ideal") /\ UNCHANGED idle
     ELSE Done(t)
  /\ UNCHANGED <<freq, tunables, work, flush, hooks, tick, target, enable,
                 started>>

(* On resume the frequency becomes sleep_wakeup_freq; on suspend it stays. *)
SuspIdeal ==
  /\ At("susp", "ideal")
  /\ SetIdeal("susp", IF suspended THEN "reset" ELSE "target")
  /\ Keep("susp", IF suspended THEN 0 ELSE Validate(WakeupFreq, pmin, pmax))
  /\ UNCHANGED <<freq, tunables, work, flush, hooks, tick, enable, started,
                 idle>>

SuspTarget ==
  /\ At("susp", "target")
  /\ cur' = DriverFreq(loc["susp"], "L")
  /\ Keep("susp", 0) /\ Goto("susp", "reset")
  /\ UNCHANGED <<pmin, pmax, tunables, work, flush, hooks, tick, target,
                 enable, started, idle>>

SuspReset ==
  /\ At("susp", "reset")
  /\ idle_exit' = TRUE
  /\ Step("susp", "arm")
  /\ UNCHANGED <<freq, tunables, work, flush, hooks, timer, target, enable,
                 started>>

SuspArm ==
  /\ At("susp", "arm")
  /\ ModTimer("susp", "rest")
  /\ UNCHANGED <<loc, idle>>
  /\ UNCHANGED <<freq, tunables, work, flush, hooks, idle_exit, target,
                 enable, started>>

-----------------------------------------------------------------------------
(* sysfs writes, while the group is there.                                 *)
StoreAwake(v) ==
  /\ "store" \in Ops
  /\ At("store", "rest") /\ pm_idle = "boosted"
  /\ awake' = v
  /\ IF suspended THEN Done("store") ELSE Step("store", "calc")
  /\ UNCHANGED <<freq, sleep, suspended, work, flush, hooks, tick, target,
                 enable, started>>

AppliesSleepNever == FALSE
AppliesSleep == suspended

StoreSleep(v) ==
  /\ "store" \in Ops
  /\ At("store", "rest") /\ pm_idle = "boosted"
  /\ sleep' = v
  /\ IF AppliesSleep THEN Step("store", "calc") ELSE Done("store")
  /\ UNCHANGED <<freq, awake, suspended, work, flush, hooks, tick, target,
                 enable, started>>

StoreIdeal ==
  /\ At("store", "ideal")
  /\ SetIdeal("store", "rest") /\ Keep("store", 0)
  /\ UNCHANGED <<freq, tunables, work, flush, hooks, tick, enable, started,
                 idle>>

-----------------------------------------------------------------------------
WorkStep(q) ==
  \/ WorkTake(q) \/ WorkMask(q) \/ WorkDir(q)
  \/ \E busy \in RunQueue : WorkDecide(q, busy)
  \/ WorkTarget(q) \/ WorkRearm(q) \/ WorkFinish(q)

GovStep ==
  \/ GovStartIdeal \/ GovStartHook \/ GovStartCheck \/ GovStartArm
  \/ GovIdeal \/ GovClamp \/ GovTarget \/ GovLimitsCheck \/ GovLimitsArm
  \/ GovStopTimer \/ GovStopFlush \/ GovStopUnhook

SuspStep == CalcIdeal("susp") \/ SuspIdeal \/ SuspTarget \/ SuspReset \/ SuspArm

StoreStep == CalcIdeal("store") \/ StoreIdeal

TimerStep ==
  \/ \E load \in Loads, long \in BOOLEAN : Timer(load, long)
  \/ TimerStopped

Next ==
  \/ TimerStep
  \/ IdleEnter
  \/ IdleExit
  \/ \E q \in Workers : WorkStep(q)
  \/ GovStart
  \/ \E p \in Policies : GovLimits(p)
  \/ GovStop
  \/ GovStep
  \/ \E f \in Table : OtherGovernor(f)
  \/ EarlySuspend
  \/ LateResume
  \/ SuspStep
  \/ \E v \in AwakeIdeals : StoreAwake(v)
  \/ \E v \in SleepIdeals : StoreSleep(v)
  \/ StoreStep

Spec == Init /\ [][Next]_vars

(* Threads that can run get to run, a pending timer expires, and an idle   *)
(* CPU is woken up.  Nothing makes the core, the suspend handlers or user  *)
(* space begin anything.                                                   *)
FairSpec ==
  /\ Spec
  /\ WF_vars(TimerStep) /\ WF_vars(IdleExit)
  /\ \A q \in Workers : WF_vars(WorkStep(q))
  /\ WF_vars(GovStep) /\ WF_vars(\E p \in Policies : GovLimits(p) /\ pc["gov"] = "limits")
  /\ WF_vars(SuspStep) /\ WF_vars(StoreStep)

-----------------------------------------------------------------------------
(* Nothing of the governor is running or about to run.                     *)
Quiet ==
  /\ \A t \in Threads : pc[t] = "rest"
  /\ pending = "none"
  /\ ~idle

Distance(a, b) == IF a < b THEN b - a ELSE a - b

(* ideal is the frequency within the policy that is nearest to f.          *)
IdealNear(f) ==
  /\ pmin <= ideal /\ ideal <= pmax
  /\ \A g \in pmin .. pmax : Distance(f, ideal) <= Distance(f, g)

(* The ideal frequency to use: "practically when sleep_ideal_freq==0 the   *)
(* awake_ideal_freq is used also when suspended" (line 61).                *)
WantedIdeal == IF suspended /\ sleep # 0 THEN sleep ELSE awake

(* The ideal frequency follows the tunables, the limits and the suspended  *)
(* state, whatever calls led here and whenever the governor was started    *)
(* and stopped, unless the last write was already out of date when it was  *)
(* made.  A sleep_ideal_freq set to 0 while suspended is left out: see     *)
(* ZeroIsAwake.                                                            *)
IdealFollows ==
  Quiet /\ enable /\ ~outdated /\ (suspended => sleep # 0) => IdealNear(WantedIdeal)

(* The comment on sleep_ideal_freq, of the zero that is stored while       *)
(* suspended is set: the code goes on with the minimum of the policy.      *)
ZeroIsAwake ==
  Quiet /\ enable /\ ~outdated /\ suspended /\ sleep = 0 => IdealNear(WantedIdeal)

(* A governor that was stopped does not come back: no work, and no timer   *)
(* that would do more than expire.                                         *)
StoppedForGood ==
  ~started /\ pc["gov"] = "rest" =>
    /\ pending = "none"
    /\ \A q \in Workers : pc[q] = "rest"
    /\ ~(timer /\ idle_exit)

(* "If we got here we tried to change to a validated new_freq which is     *)
(* different from old_freq, so there is no reason for us to remain at same *)
(* frequency" (lines 264-266): the work goes on without a driver call only *)
(* when somebody else has changed the frequency, or the request comes to   *)
(* the current one.  True of limits that are frequencies of the table; of  *)
(* others it is not: with 6 and 10 in the table and a maximum of 7, what a *)
(* ramp up from 6 asks for becomes 7, and both sides of 7 yield 6.         *)
RampsMove ==
  [][\A q \in Workers :
       pc[q] = "decide" /\ pc'[q] = "rearm" =>
         \/ old_freq # cur
         \/ \E busy \in RunQueue : \E w \in Wanted(loc[q], busy) :
              old_freq \in {w[1], Validate(w[1], pmin, pmax)}]_vars

(* Under full load a sampling governor drives the frequency to the maximum *)
(* of the policy, unless it is stopped on the way.  What earlier samples   *)
(* with little load have decided, queued on the other workqueue or left in *)
(* ramp_dir, is in nobody's way for ever.                                  *)
FullLoadAtLast == <>[][~ \E long \in BOOLEAN : Timer("low", long)]_vars

ReachesMax ==
  FullLoadAtLast =>
    (started /\ pc["gov"] = "rest" /\ timer /\ idle_exit
       ~> cur >= pmax \/ ~enable)

=============================================================================
