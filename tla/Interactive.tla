---------------------------- MODULE Interactive ----------------------------
(***************************************************************************)
(* The "interactive" CPU frequency governor, modules/overclock/            *)
(* cpufreq_interactive.c, on the single CPU of the device.                 *)
(*                                                                         *)
(* The idle hook arms a timer; the timer asks for the highest frequency    *)
(* when the CPU has not been idle since, else for the lowest; one work     *)
(* item on two workqueues answers either request.  What was asked, the     *)
(* variable target_freq, and the mask of the work are shared by them       *)
(* without a lock.  The timer and the idle hook run to their end; the      *)
(* workers and the core's calls may be preempted at every step.            *)
(***************************************************************************)
EXTENDS CpufreqTable

CONSTANTS
  Policies,   \* the <<min, max>> pairs the policy may be given
  Modes,      \* what may happen: nothing more ("calm"), work that takes
              \* longer than the timer and limits that change under it
              \* ("overlap"), files that are not created ("failing")
  MaxStarts   \* bound on active_count, which grows when START fails

Workers == {"up", "down"}

ASSUME InteractiveAssumption ==
  /\ Policies # {} /\ Policies \subseteq Table \X Table
  /\ \A p \in Policies : p[1] <= p[2]
  /\ Modes \subseteq {"calm", "overlap", "failing"} /\ MaxStarts \in Nat

VARIABLES
  cur, pmin, pmax,            \* the policy: current frequency and limits
  load,                       \* of the CPU: "none", "some" or "full"
  timer, slept,               \* pending; idle since the idle time was noted
  busy,                       \* not always idle since freq_change_time
  target_freq, mask,          \* work_cpumask
  pending, run,               \* where the item is queued; each worker's place
  active_count, pm_idle, pm_idle_old,
  running, event,             \* whose governor it is; the core's call
  mode

policy == <<cur, pmin, pmax>>
works == <<target_freq, mask, pending, run, busy>>
times == <<load, timer, slept>>
hooks == <<active_count, pm_idle, pm_idle_old>>
core == <<running, event, mode>>
interactiveVars == <<policy, times, works, hooks, core>>

InteractiveInit ==
  /\ \E p \in Policies : pmin = p[1] /\ pmax = p[2]
  /\ cur \in {f \in Table : pmin <= f /\ f <= pmax}
  /\ load = "none" /\ timer = FALSE /\ slept = FALSE /\ busy = TRUE
  /\ target_freq = 0 /\ mask = FALSE
  /\ pending = "no" /\ run = [w \in Workers |-> "idle"]
  /\ active_count = 0 /\ pm_idle = "platform" /\ pm_idle_old = "null"
  /\ running = FALSE /\ event = "none" /\ mode \in Modes

Quiet == pending = "no" /\ \A w \in Workers : run[w] = "idle"
Waits == mode = "overlap" \/ Quiet

-----------------------------------------------------------------------------
(* Load, timer and idle thread *)

Demand ==
  /\ load' \in {"none", "some", "full"} \ {load}
  /\ busy' = (busy \/ load' # "none")
  /\ UNCHANGED <<policy, timer, slept, target_freq, mask, pending, run, hooks, core>>

\* queue_work does nothing with an item that is queued already.
Request(freq, w) ==
  /\ target_freq' = freq /\ mask' = TRUE
  /\ pending' = IF pending = "no" THEN w ELSE pending
  /\ UNCHANGED <<run, busy>>

\* No idle cycle, and somebody runs.
TimerUp ==
  /\ timer /\ Waits /\ ~slept /\ load # "none"
  /\ timer' = FALSE
  /\ IF cur = pmax THEN UNCHANGED works
     ELSE \/ Request(pmax, "up")
          \/ load = "some" /\ UNCHANGED works
  /\ UNCHANGED <<policy, load, slept, hooks, core>>

\* There were idle cycles: the timer is armed again if anybody runs, since
\* the CPU may be busy from now on, and never idle.
RearmsNot(tasks) == FALSE
Rearms(tasks) == tasks

\* Old: the frequency has been kept for min_sample_time.
TimerDown(old) ==
  /\ timer /\ Waits /\ (slept \/ load = "none")
  /\ \E tasks \in BOOLEAN :
       /\ load = "full" => tasks
       /\ timer' = Rearms(tasks)
       /\ slept' = (slept /\ ~timer')
  /\ IF cur # pmin /\ old THEN Request(pmin, "down") ELSE UNCHANGED works
  /\ UNCHANGED <<policy, load, hooks, core>>

\* The CPU is idle, and the idle thread calls pm_idle: cpufreq_idle calls
\* the function before it and arms a timer that is not pending.
Idle ==
  /\ load # "full"
  /\ IF pm_idle = "interactive" /\ ~timer THEN timer' = TRUE /\ slept' = FALSE
                                          ELSE timer' = timer /\ slept' = TRUE
  /\ UNCHANGED <<policy, load, works, hooks, core>>

-----------------------------------------------------------------------------
(* cpufreq_interactive_freq_change_time_work, on either workqueue *)

Goto(w, place) == run' = [run EXCEPT ![w] = place]

\* The loop over a copy of the mask, which may be empty.
WorkBegins(w) ==
  /\ pending = w /\ run[w] = "idle" /\ pending' = "no"
  /\ Goto(w, IF mask THEN "compare" ELSE "idle")
  /\ UNCHANGED <<policy, times, target_freq, mask, busy, hooks, core>>

\* Only the work itself runs: the request is dropped, once the mask is clear.
Drops == load # "full"
Compare(w) ==
  /\ run[w] = "compare"
  /\ \/ target_freq = pmax /\ Goto(w, "highest")
     \/ target_freq = pmax /\ Drops /\ Goto(w, "clear")
     \/ target_freq # pmax /\ Goto(w, "calculate")
  /\ UNCHANGED <<policy, times, target_freq, mask, pending, busy, hooks, core>>

SetHighest(w) ==
  /\ run[w] = "highest" /\ Goto(w, "clear")
  /\ cur' = DriverFreq(target_freq, "H") /\ busy' = (load # "none")
  /\ UNCHANGED <<pmin, pmax, times, target_freq, mask, pending, hooks, core>>

\* cpufreq_interactive_calc_freq: the load since the last change, which is
\* small when the CPU has just become busy.
Measured == IF busy THEN {0, 50, 100} ELSE {0}
calc_freqOfIdle(cpu_load) == (cur * (100 - cpu_load)) \div 100
calc_freq(cpu_load) == (cur * cpu_load) \div 100

Calculate(w) ==
  /\ run[w] = "calculate" /\ Goto(w, "lowest")
  /\ \E cpu_load \in Measured : target_freq' = calc_freq(cpu_load)
  /\ UNCHANGED <<policy, times, mask, pending, busy, hooks, core>>

SetLowest(w) ==
  /\ run[w] = "lowest" /\ Goto(w, "clear")
  /\ cur' = DriverFreq(target_freq, "L") /\ busy' = (load # "none")
  /\ UNCHANGED <<pmin, pmax, times, target_freq, mask, pending, hooks, core>>

ClearMask(w) ==
  /\ run[w] = "clear" /\ Goto(w, "idle") /\ mask' = FALSE
  /\ UNCHANGED <<policy, times, target_freq, pending, busy, hooks, core>>

WorkGoes(w) == Compare(w) \/ SetHighest(w) \/ Calculate(w) \/ SetLowest(w) \/ ClearMask(w)

-----------------------------------------------------------------------------
(* The cpufreq core: one call at a time *)

\* When START fails the core goes back to the governor before, without STOP.
GovStart ==
  /\ event = "none" /\ ~running /\ active_count < MaxStarts
  /\ active_count' = active_count + 1
  /\ IF active_count' > 1 THEN running' = TRUE /\ UNCHANGED event
     ELSE event' = "create" /\ UNCHANGED running
  /\ UNCHANGED <<policy, times, works, pm_idle, pm_idle_old, mode>>

FilesFail ==
  /\ event = "create" /\ mode = "failing" /\ event' = "none"
  /\ UNCHANGED <<policy, times, works, hooks, running, mode>>

\* Nothing waits in here, and so the idle thread does not run between.
GovStartHooks ==
  /\ event = "create" /\ event' = "none" /\ running' = TRUE
  /\ pm_idle_old' = pm_idle /\ pm_idle' = "interactive"
  /\ UNCHANGED <<policy, times, works, active_count, mode>>

StillUsedByNone(count) == count >= 0
StillUsed(count) == count > 1

GovStop ==
  /\ event = "none" /\ running /\ running' = FALSE
  /\ active_count' = active_count - 1
  /\ event' = IF StillUsed(active_count') THEN "none" ELSE "unhook"
  /\ UNCHANGED <<policy, times, works, pm_idle, pm_idle_old, mode>>

\* After the files; the timer may fire between this and the next.
GovStopUnhooks ==
  /\ event = "unhook" /\ event' = "delete" /\ pm_idle' = pm_idle_old
  /\ UNCHANGED <<policy, times, works, active_count, pm_idle_old, running, mode>>

GovStopDeletes ==
  /\ event = "delete" /\ event' = "none" /\ timer' = FALSE
  /\ UNCHANGED <<policy, load, slept, works, hooks, running, mode>>

\* The policy changes, and the governor in charge is told.
SetPolicy ==
  /\ event = "none" /\ Waits
  /\ \E p \in Policies : pmin' = p[1] /\ pmax' = p[2]
  /\ IF running THEN event' = "limits" /\ UNCHANGED cur
     ELSE UNCHANGED event /\ cur' \in {f \in Table : pmin' <= f /\ f <= pmax'}
  /\ UNCHANGED <<times, works, hooks, running, mode>>

GovLimits ==
  /\ event = "limits" /\ event' = "none"
  /\ cur' = IF pmax < cur THEN DriverFreq(pmax, "H")
            ELSE IF pmin > cur THEN DriverFreq(pmin, "L") ELSE cur
  /\ UNCHANGED <<pmin, pmax, times, works, hooks, running, mode>>

-----------------------------------------------------------------------------
Worker == \E w \in Workers : WorkBegins(w) \/ WorkGoes(w)
CoreStep == FilesFail \/ GovStartHooks \/ GovStopUnhooks \/ GovStopDeletes \/ GovLimits
Timer == TimerUp \/ \E old \in BOOLEAN : TimerDown(old)

InteractiveNext == Demand \/ Timer \/ Idle \/ Worker \/ GovStart \/ GovStop \/ SetPolicy \/ CoreStep

InteractiveSpec == InteractiveInit /\ [][InteractiveNext]_interactiveVars

\* Calls and work come to their end, a timer fires, an idle CPU is idle again
\* and again, and a frequency is old at last.
InteractiveFairness ==
  /\ WF_interactiveVars(CoreStep)
  /\ \A w \in Workers : SF_interactiveVars(WorkBegins(w)) /\ WF_interactiveVars(WorkGoes(w))
  /\ WF_interactiveVars(Timer) /\ SF_interactiveVars(TimerDown(TRUE))
  /\ WF_interactiveVars(load = "none" /\ Idle)

InteractiveFairSpec == InteractiveSpec /\ InteractiveFairness

-----------------------------------------------------------------------------
(* Between the core's calls, and unless the files could not be created,    *)
(* the idle function is the governor's while it runs and the platform's    *)
(* after STOP, and after STOP no timer is armed, wherever it fired during  *)
(* the call; the idle function never calls itself.                         *)
StopsClean ==
  /\ pm_idle_old # "interactive"
  /\ event = "none" /\ mode # "failing" =>
       /\ pm_idle = IF running THEN "interactive" ELSE "platform"
       /\ ~running => ~timer

(* "So setup another timer to fire to check cpu utlization" (line 113): a  *)
(* CPU that is busy from any moment on gets the highest frequency, if a    *)
(* timer was armed then and work ends before the next timer.               *)
BusyGetsHighest ==
  (timer /\ running /\ load = "full" /\ mode = "calm")
    ~> (cur = pmax \/ load # "full" \/ ~running)

(* A CPU left idle comes down to the lowest frequency, whatever requests   *)
(* and work were under way, and however they overlapped.                   *)
IdleComesDown ==
  <>[](running /\ pm_idle = "interactive" /\ load = "none" /\ event = "none") => <>[](cur <= pmin)
=============================================================================
