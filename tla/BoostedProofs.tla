--------------------------- MODULE BoostedProofs ---------------------------
(***************************************************************************)
(* Proofs about the boosted governor of Boosted, for every frequency       *)
(* table, every policy and every setting of the tunables.                  *)
(***************************************************************************)
EXTENDS Boosted, CpufreqTableProofs, FiniteSetTheorems

(* "We should not get here", target_freq says of a valid request that      *)
(* leaves the frequency where it is.  It does not, when the limits of the  *)
(* policy are frequencies of the table: a valid request that differs from  *)
(* the current frequency yields another frequency, within the limits.      *)
THEOREM ValidRequestsMove ==
  ASSUME NEW wanted \in Int, NEW old \in Int, NEW relation \in {"H", "L"},
         NEW lo \in Table, NEW hi \in Table, lo <= hi,
         wanted # old, Validate(wanted, lo, hi) # old
  PROVE  LET f == TargetFreq(wanted, old, relation, lo, hi) IN
         /\ f \in Within(lo, hi)
         /\ f # old
<1> DEFINE new == Validate(wanted, lo, hi)
           S == Within(lo, hi)
           first == Pick(S, new, relation)
           second == Pick(S, new, Opposite(relation))
<1>1. /\ Table \in SUBSET Nat
      /\ 0 \notin Table
      /\ lo \in Nat /\ hi \in Nat
  BY TableAssumption
<1>2. /\ S \in SUBSET Nat
      /\ \A g \in S : lo <= g /\ g <= hi
      /\ lo \in S /\ hi \in S /\ 0 \notin S
  <2>1. S = {f \in Table : lo <= f /\ f <= hi}
    BY DEF Within
  <2>2. lo <= lo /\ hi <= hi
    BY <1>1
  <2> HIDE DEF S
  <2>3. S \subseteq Table /\ lo \in S /\ hi \in S
    BY <2>1, <2>2
  <2>4. \A g \in S : lo <= g /\ g <= hi
    BY <2>1
  <2> QED  BY <1>1, <2>3, <2>4
<1>3. new \in Int /\ lo <= new /\ new <= hi
  BY <1>1 DEF Validate
<1>3a. new \in Nat /\ S # {}
  BY <1>1, <1>2, <1>3
<1>4. Opposite(relation) \in {"H", "L"}
  BY DEF Opposite
<1> HIDE DEF new, S
<1>5. /\ first \in S
      /\ relation = "H" => first <= new
      /\ relation = "L" => new <= first
  BY <1>1, <1>2, <1>3, <1>3a, PickProperties
<1>6. /\ second \in S
      /\ relation = "L" => second <= new
      /\ relation = "H" => new <= second
  <2>1. /\ second \in S
        /\ Opposite(relation) = "H" => second <= new
        /\ Opposite(relation) = "L" => new <= second
    BY <1>1, <1>2, <1>3, <1>3a, <1>4, PickProperties
  <2> QED  BY <2>1 DEF Opposite
<1> HIDE DEF first, second
<1>7. new # old
  BY DEF new
<1>8. TargetFreq(wanted, old, relation, lo, hi) =
        LET chosen == IF first = old /\ Retry(new, old, relation)
                      THEN second ELSE first
        IN  IF chosen = old THEN 0 ELSE chosen
  BY <1>7 DEF TargetFreq, new, S, first, second
<1>9. CASE first # old
  BY <1>2, <1>5, <1>8, <1>9 DEF S
<1>10. CASE first = old
  <2>1. Retry(new, old, relation)
    <3>1. first \in Int
      BY <1>2, <1>5
    <3> QED  BY <1>3, <1>5, <1>7, <1>10, <3>1 DEF Retry
  <2>2. second # old
    <3>1. second \in Int
      BY <1>2, <1>6
    <3> QED  BY <1>3, <1>6, <1>7, <2>1, <3>1 DEF Retry
  <2> QED  BY <1>6, <1>8, <1>10, <2>1, <2>2 DEF S
<1> QED  BY <1>9, <1>10

-----------------------------------------------------------------------------
(* The limits are those of one of the policies, which the core checks.     *)
PolicyOK == \E p \in Policies : pmin = p[1] /\ pmax = p[2]

(* Where a thread can be, and where it holds a frequency in loc.           *)
Places ==
  {"rest", "mask", "dir", "decide", "target", "rearm", "arm", "del",
   "start_ideal", "start_hook", "start_check", "start_arm", "limits",
   "ideal", "clamp", "check", "stop", "flush", "unhook", "calc", "reset"}
Holding == {"start_ideal", "ideal", "target"}

FreqTypes == cur \in Nat /\ PolicyOK /\ ideal \in Nat /\ outdated \in BOOLEAN
TunableTypes ==
  awake \in Nat /\ sleep \in Nat /\ suspended \in BOOLEAN /\ enable \in BOOLEAN
WorkTypes ==
  /\ ramp_dir \in {-1, 0, 1} /\ old_freq \in Nat /\ mask \in BOOLEAN
  /\ pending \in Workers \cup {"none"} /\ last \in Workers \cup {"none"}
  /\ flush_left \in Nat /\ flush_on \in Workers \cup {"none"}
HookTypes ==
  /\ active_count \in Int
  /\ pm_idle \in {"null", "default", "boosted"}
  /\ pm_idle_old \in {"null", "default", "boosted"}
TickTypes ==
  /\ timer \in BOOLEAN /\ idle_exit \in BOOLEAN
  /\ started \in BOOLEAN /\ idle \in BOOLEAN
  /\ waits \subseteq Threads
ThreadTypes ==
  /\ pc \in [Threads -> Places]
  /\ loc \in [Threads -> Int]
  /\ \A t \in Threads : pc[t] \in Holding => loc[t] \in Nat

TypeOK ==
  FreqTypes /\ TunableTypes /\ WorkTypes /\ HookTypes /\ TickTypes /\ ThreadTypes

-----------------------------------------------------------------------------
(* A policy is an interval of natural numbers with a frequency in it.      *)
LEMMA PolicyTypes ==
  ASSUME PolicyOK
  PROVE  /\ pmin \in Nat /\ pmax \in Nat /\ pmin <= pmax
         /\ Within(pmin, pmax) \in SUBSET Nat /\ Within(pmin, pmax) # {}
         /\ Table \in SUBSET Nat /\ Table # {}
<1>1. PICK p \in Policies : pmin = p[1] /\ pmax = p[2]
  BY DEF PolicyOK
<1>2. /\ p \in Nat \X Nat
      /\ p[1] <= p[2]
      /\ \E f \in Table : p[1] <= f /\ f <= p[2]
  BY BoostedAssumption
<1>3. pmin \in Nat /\ pmax \in Nat /\ pmin <= pmax
  BY <1>1, <1>2
<1>4. \E f \in Table : pmin <= f /\ f <= pmax
  BY <1>1, <1>2
<1>5. Table \in SUBSET Nat
  BY TableAssumption
<1> QED  BY <1>3, <1>4, <1>5 DEF Within

(* boosted_update_min_max computes a frequency within the limits.          *)
LEMMA IdealTypes ==
  ASSUME TunableTypes, NEW lo \in Nat, NEW hi \in Nat, lo <= hi
  PROVE  IdealWithin(lo, hi) \in Nat
BY DEF TunableTypes, IdealWithin

(* The driver sets frequencies of the table.                               *)
LEMMA DriverTypes ==
  ASSUME PolicyOK, NEW f \in Nat, NEW relation \in {"H", "L"}
  PROVE  DriverFreq(f, relation) \in Nat
<1>1. Table \in SUBSET Nat /\ Table # {}
  BY PolicyTypes
<1>2. Pick(Table, f, relation) \in Table
  BY <1>1, PickProperties
<1> QED  BY <1>1, <1>2 DEF DriverFreq

(* target_freq asks the driver for a frequency, or for nothing.            *)
LEMMA TargetTypes ==
  ASSUME PolicyOK, NEW wanted \in Int, NEW old \in Nat,
         NEW relation \in {"H", "L"}
  PROVE  TargetFreq(wanted, old, relation, pmin, pmax) \in Nat
<1> DEFINE new == Validate(wanted, pmin, pmax)
           S == Within(pmin, pmax)
           first == Pick(S, new, relation)
           second == Pick(S, new, Opposite(relation))
<1>1. S \in SUBSET Nat /\ S # {}
  BY PolicyTypes
<1>2. new \in Nat
  BY PolicyTypes DEF Validate
<1>3. Opposite(relation) \in {"H", "L"}
  BY DEF Opposite
<1> HIDE DEF new, S
<1>4. first \in Nat /\ second \in Nat
  BY <1>1, <1>2, <1>3, PickProperties
<1> HIDE DEF first, second
<1>5. TargetFreq(wanted, old, relation, pmin, pmax) \in {0, first, second}
  BY DEF TargetFreq, new, S, first, second
<1> QED  BY <1>4, <1>5

(* What the work asks for: a number and the side to round it to.           *)
LEMMA WantedTypes ==
  ASSUME FreqTypes, WorkTypes, NEW dir \in Int, NEW busy, NEW w \in Wanted(dir, busy)
  PROVE  w[1] \in Int /\ w[2] \in {"H", "L"}
<1>1. /\ ideal \in Int /\ old_freq \in Nat /\ pmax \in Int
      /\ RampUp \in Nat /\ RampDown \in Nat
  BY PolicyTypes, BoostedAssumption DEF FreqTypes, WorkTypes
<1>2. \/ w = <<old_freq, "L">> \/ w = <<ideal, "L">>
      \/ w = <<old_freq + RampUp, "H">> \/ w = <<pmax, "H">>
      \/ w = <<ideal, "H">> \/ w = <<old_freq - RampDown, "L">>
      \/ \E f \in 0 .. old_freq : w = <<f, "L">>
  BY DEF Wanted
<1> QED  BY <1>1, <1>2

(* A thread goes on to place l and keeps the number it holds.              *)
LEMMA StepTypes ==
  ASSUME ThreadTypes, TickTypes, NEW t \in Threads,
         NEW l \in Places, l \notin Holding,
         loc' = loc, Goto(t, l) \/ ModTimer(t, l)
  PROVE  ThreadTypes' /\ waits' \subseteq Threads
<1>1. pc' = [pc EXCEPT ![t] = l]
  BY DEF Goto, ModTimer
<1>2. pc' \in [Threads -> Places] /\ loc' \in [Threads -> Int]
  BY <1>1 DEF ThreadTypes
<1>3. ASSUME NEW u \in Threads, pc'[u] \in Holding  PROVE loc'[u] \in Nat
  BY <1>1, <1>3 DEF ThreadTypes
<1>4. waits' \subseteq Threads
  BY DEF Goto, ModTimer, Outlasted, TickTypes
<1> QED  BY <1>2, <1>3, <1>4 DEF ThreadTypes

(* A thread goes on to place l with a new number.                          *)
LEMMA TakeTypes ==
  ASSUME ThreadTypes, TickTypes, NEW t \in Threads,
         NEW l \in Places, NEW v \in Int, l \in Holding => v \in Nat,
         Keep(t, v), Goto(t, l) \/ ModTimer(t, l)
  PROVE  ThreadTypes' /\ waits' \subseteq Threads
<1>1. pc' = [pc EXCEPT ![t] = l] /\ loc' = [loc EXCEPT ![t] = v]
  BY DEF Goto, ModTimer, Keep
<1>2. pc' \in [Threads -> Places] /\ loc' \in [Threads -> Int]
  BY <1>1 DEF ThreadTypes
<1>3. ASSUME NEW u \in Threads, pc'[u] \in Holding  PROVE loc'[u] \in Nat
  BY <1>1, <1>3 DEF ThreadTypes
<1>4. waits' \subseteq Threads
  BY DEF Goto, ModTimer, Outlasted, TickTypes
<1> QED  BY <1>2, <1>3, <1>4 DEF ThreadTypes

(* The program starts in these types: another governor runs.               *)
LEMMA InitTypes == Init => TypeOK
<1> SUFFICES ASSUME Init  PROVE TypeOK
  OBVIOUS
<1>1. FreqTypes
  BY TableAssumption DEF Init, FreqTypes, PolicyOK
<1>2. TunableTypes
  BY BoostedAssumption DEF Init, TunableTypes
<1>3. WorkTypes
  BY DEF Init, WorkTypes
<1>4. HookTypes
  BY DEF Init, HookTypes
<1>5. TickTypes
  BY DEF Init, TickTypes
<1>6. ThreadTypes
  <2>1. /\ pc = [t \in Threads |-> "rest"]
        /\ loc = [t \in Threads |-> 0]
    BY DEF Init
  <2>2. pc \in [Threads -> Places] /\ loc \in [Threads -> Int]
    BY <2>1 DEF Places
  <2>3. \A t \in Threads : pc[t] \notin Holding
    BY <2>1 DEF Holding
  <2> QED  BY <2>2, <2>3 DEF ThreadTypes
<1> QED  BY <1>1, <1>2, <1>3, <1>4, <1>5, <1>6 DEF TypeOK

(* A sampling period: the timer and the idle loop.                         *)
LEMMA TickTypesKept ==
  ASSUME TypeOK, TimerStep \/ IdleEnter \/ IdleExit
  PROVE  TypeOK'
<1> USE DEF TypeOK, freq, tunables, work, flush, hooks, tick, target, Holding,
            Places
<1>1. ASSUME NEW load \in Loads, NEW long \in BOOLEAN, Timer(load, long)
      PROVE  TypeOK'
  <2>1. FreqTypes'
    BY <1>1 DEF Timer, FreqTypes, PolicyOK
  <2>2. TunableTypes'
    BY <1>1 DEF Timer, TunableTypes
  <2>3. WorkTypes'
    BY <1>1 DEF Timer, WorkTypes, Decision, QueueWork, QueueOf, Workers, FreqTypes
  <2>4. HookTypes'
    BY <1>1 DEF Timer, HookTypes
  <2>5. ThreadTypes'
    BY <1>1 DEF Timer, ThreadTypes
  <2>6. TickTypes'
    BY <1>1 DEF Timer, TickTypes, RearmAfter, Outlasted
  <2> QED  BY <2>1, <2>2, <2>3, <2>4, <2>5, <2>6
<1>2. CASE TimerStopped
  <2>1. FreqTypes'
    BY <1>2 DEF TimerStopped, FreqTypes, PolicyOK
  <2>2. TunableTypes'
    BY <1>2 DEF TimerStopped, TunableTypes
  <2>3. WorkTypes'
    BY <1>2 DEF TimerStopped, WorkTypes
  <2>4. HookTypes'
    BY <1>2 DEF TimerStopped, HookTypes
  <2>5. ThreadTypes'
    BY <1>2 DEF TimerStopped, ThreadTypes
  <2>6. TickTypes'
    BY <1>2 DEF TimerStopped, TickTypes
  <2> QED  BY <2>1, <2>2, <2>3, <2>4, <2>5, <2>6
<1>3. CASE IdleEnter
  <2>1. FreqTypes'
    BY <1>3 DEF IdleEnter, FreqTypes, PolicyOK
  <2>2. TunableTypes'
    BY <1>3 DEF IdleEnter, TunableTypes
  <2>3. WorkTypes'
    BY <1>3 DEF IdleEnter, WorkTypes
  <2>4. HookTypes'
    BY <1>3 DEF IdleEnter, HookTypes
  <2>5. ThreadTypes'
    BY <1>3 DEF IdleEnter, ThreadTypes
  <2>6. TickTypes'
    BY <1>3 DEF IdleEnter, TickTypes
  <2> QED  BY <2>1, <2>2, <2>3, <2>4, <2>5, <2>6
<1>4. CASE IdleExit
  <2>1. FreqTypes'
    BY <1>4 DEF IdleExit, FreqTypes, PolicyOK
  <2>2. TunableTypes'
    BY <1>4 DEF IdleExit, TunableTypes
  <2>3. WorkTypes'
    BY <1>4 DEF IdleExit, WorkTypes
  <2>4. HookTypes'
    BY <1>4 DEF IdleExit, HookTypes
  <2>5. ThreadTypes'
    BY <1>4 DEF IdleExit, ThreadTypes
  <2>6. TickTypes'
    BY <1>4 DEF IdleExit, TickTypes, Outlasted
  <2> QED  BY <2>1, <2>2, <2>3, <2>4, <2>5, <2>6
<1> QED  BY <1>1, <1>2, <1>3, <1>4 DEF TimerStep

(* The work, on either queue.                                              *)
LEMMA WorkTypesKept ==
  ASSUME TypeOK, NEW q \in Workers, WorkStep(q)
  PROVE  TypeOK'
<1> USE DEF TypeOK, freq, tunables, work, flush, hooks, tick, target, Holding,
            Places
<1>0. q \in Threads
  BY DEF Threads
<1>1. CASE WorkTake(q)
  <2>1. ThreadTypes' /\ waits' \subseteq Threads
    BY <1>0, <1>1, StepTypes DEF WorkTake, Step
  <2>2. FreqTypes'
    BY <1>1 DEF WorkTake, FreqTypes, PolicyOK
  <2>3. TunableTypes'
    BY <1>1 DEF WorkTake, TunableTypes
  <2>4. WorkTypes'
    BY <1>1 DEF WorkTake, WorkTypes
  <2>5. HookTypes'
    BY <1>1 DEF WorkTake, HookTypes
  <2>6. TickTypes'
    BY <1>1, <2>1 DEF WorkTake, TickTypes, Step
  <2> QED  BY <2>1, <2>2, <2>3, <2>4, <2>5, <2>6
<1>2. CASE WorkMask(q)
  <2>1. flush_left' \in Nat /\ flush_on' = flush_on
    BY <1>2 DEF WorkMask, EndRun, WorkTypes
  <2>2. ThreadTypes' /\ waits' \subseteq Threads
    BY <1>0, <1>2, <2>1, StepTypes, TakeTypes DEF WorkMask, Step, Done
  <2>3. FreqTypes'
    BY <1>2 DEF WorkMask, FreqTypes, PolicyOK
  <2>4. TunableTypes'
    BY <1>2 DEF WorkMask, TunableTypes
  <2>5. WorkTypes'
    BY <1>0, <1>2, <2>1 DEF WorkMask, WorkTypes
  <2>6. HookTypes'
    BY <1>2 DEF WorkMask, HookTypes
  <2>7. TickTypes'
    BY <1>2, <2>2 DEF WorkMask, TickTypes, Step, Done
  <2> QED  BY <2>2, <2>3, <2>4, <2>5, <2>6, <2>7
<1>3. CASE WorkDir(q)
  <2>1. ThreadTypes' /\ waits' \subseteq Threads
    BY <1>0, <1>3, TakeTypes DEF WorkDir, WorkTypes
  <2>2. FreqTypes'
    BY <1>3 DEF WorkDir, FreqTypes, PolicyOK
  <2>3. TunableTypes'
    BY <1>3 DEF WorkDir, TunableTypes
  <2>4. WorkTypes'
    BY <1>3 DEF WorkDir, WorkTypes
  <2>5. HookTypes'
    BY <1>3 DEF WorkDir, HookTypes
  <2>6. TickTypes'
    BY <1>3, <2>1 DEF WorkDir, TickTypes
  <2> QED  BY <2>1, <2>2, <2>3, <2>4, <2>5, <2>6
<1>4. ASSUME NEW busy \in RunQueue, WorkDecide(q, busy)
      PROVE  TypeOK'
  <2> DEFINE f(w) == TargetFreq(w[1], old_freq, w[2], pmin, pmax)
  <2>1. PICK w \in Wanted(loc[q], busy) :
          Keep(q, f(w)) /\ Goto(q, IF f(w) = 0 THEN "rearm" ELSE "target")
    BY <1>4 DEF WorkDecide
  <2>2. w[1] \in Int /\ w[2] \in {"H", "L"} /\ old_freq \in Nat
    BY <1>0, WantedTypes DEF ThreadTypes, WorkTypes
  <2>3. f(w) \in Nat
    BY <2>2, TargetTypes DEF FreqTypes
  <2> HIDE DEF f
  <2>4. ThreadTypes' /\ waits' \subseteq Threads
    BY <1>0, <1>4, <2>1, <2>3, TakeTypes DEF WorkDecide
  <2>5. FreqTypes'
    BY <1>4 DEF WorkDecide, FreqTypes, PolicyOK
  <2>6. TunableTypes'
    BY <1>4 DEF WorkDecide, TunableTypes
  <2>7. WorkTypes'
    BY <1>4 DEF WorkDecide, WorkTypes
  <2>8. HookTypes'
    BY <1>4 DEF WorkDecide, HookTypes
  <2>9. TickTypes'
    BY <1>4, <2>4 DEF WorkDecide, TickTypes
  <2> QED  BY <2>4, <2>5, <2>6, <2>7, <2>8, <2>9
<1>5. CASE WorkTarget(q)
  <2>1. loc[q] \in Nat
    BY <1>0, <1>5 DEF WorkTarget, At, ThreadTypes
  <2>2. cur' \in Nat
    BY <1>5, <2>1, DriverTypes DEF WorkTarget, FreqTypes
  <2>3. ThreadTypes' /\ waits' \subseteq Threads
    BY <1>0, <1>5, <2>2, StepTypes DEF WorkTarget, Step
  <2>4. FreqTypes'
    BY <1>0, <1>5, <2>2 DEF WorkTarget, FreqTypes, PolicyOK
  <2>5. TunableTypes'
    BY <1>5 DEF WorkTarget, TunableTypes
  <2>6. WorkTypes'
    BY <1>5 DEF WorkTarget, WorkTypes
  <2>7. HookTypes'
    BY <1>5 DEF WorkTarget, HookTypes
  <2>8. TickTypes'
    BY <1>5, <2>3 DEF WorkTarget, TickTypes, Step
  <2> QED  BY <2>3, <2>4, <2>5, <2>6, <2>7, <2>8
<1>6. CASE WorkRearm(q)
  <2>1. flush_left' \in Nat /\ flush_on' = flush_on
    BY <1>6 DEF WorkRearm, EndRun, WorkTypes
  <2>2. ThreadTypes' /\ waits' \subseteq Threads
    BY <1>0, <1>6, <2>1, StepTypes, TakeTypes DEF WorkRearm, Step, Done
  <2>3. FreqTypes'
    BY <1>6 DEF WorkRearm, FreqTypes, PolicyOK
  <2>4. TunableTypes'
    BY <1>6 DEF WorkRearm, TunableTypes
  <2>5. WorkTypes'
    BY <1>0, <1>6, <2>1 DEF WorkRearm, WorkTypes
  <2>6. HookTypes'
    BY <1>6 DEF WorkRearm, HookTypes
  <2>7. TickTypes'
    BY <1>6, <2>2 DEF WorkRearm, TickTypes, Step, Done
  <2> QED  BY <2>2, <2>3, <2>4, <2>5, <2>6, <2>7
<1>7. CASE WorkFinish(q)
  <2>1. ThreadTypes' /\ waits' \subseteq Threads
    BY <1>0, <1>7, TakeTypes DEF WorkFinish
  <2>2. FreqTypes'
    BY <1>7 DEF WorkFinish, FreqTypes, PolicyOK
  <2>3. TunableTypes'
    BY <1>7 DEF WorkFinish, TunableTypes
  <2>4. WorkTypes'
    BY <1>0, <1>7 DEF WorkFinish, WorkTypes, EndRun
  <2>5. HookTypes'
    BY <1>7 DEF WorkFinish, HookTypes
  <2>6. TickTypes'
    BY <1>7, <2>1 DEF WorkFinish, TickTypes, ModTimer
  <2> QED  BY <2>1, <2>2, <2>3, <2>4, <2>5, <2>6
<1> QED  BY <1>1, <1>2, <1>3, <1>4, <1>5, <1>6, <1>7 DEF WorkStep

(* flush_work waits for at most one run in progress: the one on the queue  *)
(* the work item was last put on.                                          *)
LEMMA FlushCount ==
  Cardinality({q \in Workers : q = last /\ pc[q] # "rest"}) =
    IF last \in Workers /\ pc[last] # "rest" THEN 1 ELSE 0
<1> DEFINE R == {q \in Workers : q = last /\ pc[q] # "rest"}
<1>1. CASE last \in Workers /\ pc[last] # "rest"
  <2>1. R = {last}
    BY <1>1
  <2> QED  BY <1>1, <2>1, FS_Singleton
<1>2. CASE ~(last \in Workers /\ pc[last] # "rest")
  <2>1. R = {}
    BY <1>2
  <2> QED  BY <1>2, <2>1, FS_EmptySet
<1> QED  BY <1>1, <1>2

(* CPUFREQ_GOV_START.                                                      *)
LEMMA StartTypesKept ==
  ASSUME TypeOK, GovStart \/ GovStartIdeal \/ GovStartHook \/ GovStartCheck \/ GovStartArm
  PROVE  TypeOK'
<1> USE DEF TypeOK, freq, tunables, work, flush, hooks, tick, target, Holding,
            Places
<1>0. "gov" \in Threads /\ "susp" \in Threads /\ "store" \in Threads
  BY DEF Threads
<1>1. CASE GovStart
  <2>1. pmin \in Nat /\ pmax \in Nat /\ pmin <= pmax
    BY PolicyTypes DEF FreqTypes
  <2>2. Ideal \in Nat
    BY <2>1, IdealTypes DEF Ideal
  <2>3. ThreadTypes' /\ waits' \subseteq Threads
    BY <1>0, <1>1, <2>2, TakeTypes DEF GovStart
  <2>4. FreqTypes'
    BY <1>1 DEF GovStart, FreqTypes, PolicyOK
  <2>5. TunableTypes'
    BY <1>1 DEF GovStart, TunableTypes
  <2>6. WorkTypes'
    BY <1>1 DEF GovStart, WorkTypes
  <2>7. HookTypes'
    BY <1>1 DEF GovStart, HookTypes
  <2>8. TickTypes'
    BY <1>1, <2>3 DEF GovStart, TickTypes
  <2> QED  BY <2>3, <2>4, <2>5, <2>6, <2>7, <2>8
<1>2. CASE GovStartIdeal
  <2>1. loc["gov"] \in Nat
    BY <1>0, <1>2 DEF GovStartIdeal, At, ThreadTypes
  <2>2. ideal' \in Nat /\ outdated' \in BOOLEAN /\ Goto("gov", "start_hook")
    BY <1>2, <2>1 DEF GovStartIdeal, SetIdeal
  <2>3. ThreadTypes' /\ waits' \subseteq Threads
    BY <1>0, <1>2, <2>2, TakeTypes DEF GovStartIdeal
  <2>4. FreqTypes'
    BY <1>0, <1>2, <2>2 DEF GovStartIdeal, FreqTypes, PolicyOK
  <2>5. TunableTypes'
    BY <1>2 DEF GovStartIdeal, TunableTypes
  <2>6. WorkTypes'
    BY <1>2 DEF GovStartIdeal, WorkTypes
  <2>7. HookTypes'
    BY <1>2 DEF GovStartIdeal, HookTypes
  <2>8. TickTypes'
    BY <1>2, <2>3 DEF GovStartIdeal, TickTypes
  <2> QED  BY <2>3, <2>4, <2>5, <2>6, <2>7, <2>8
<1>3. CASE GovStartHook
  <2>1. ThreadTypes' /\ waits' \subseteq Threads
    BY <1>0, <1>3, StepTypes, TakeTypes DEF GovStartHook, Step, Done
  <2>2. FreqTypes'
    BY <1>3 DEF GovStartHook, FreqTypes, PolicyOK
  <2>3. TunableTypes'
    BY <1>3 DEF GovStartHook, TunableTypes
  <2>4. WorkTypes'
    BY <1>3 DEF GovStartHook, WorkTypes
  <2>5. HookTypes'
    BY <1>3 DEF GovStartHook, HookTypes
  <2>6. TickTypes'
    BY <1>3, <2>1 DEF GovStartHook, TickTypes, Step, Done
  <2> QED  BY <2>1, <2>2, <2>3, <2>4, <2>5, <2>6
<1>4. CASE GovStartCheck
  <2>1. ThreadTypes' /\ waits' \subseteq Threads
    BY <1>0, <1>4, StepTypes DEF GovStartCheck, GovCheck, Step
  <2>2. FreqTypes'
    BY <1>4 DEF GovStartCheck, GovCheck, FreqTypes, PolicyOK
  <2>3. TunableTypes'
    BY <1>4 DEF GovStartCheck, GovCheck, TunableTypes
  <2>4. WorkTypes'
    BY <1>4 DEF GovStartCheck, GovCheck, WorkTypes
  <2>5. HookTypes'
    BY <1>4 DEF GovStartCheck, GovCheck, HookTypes
  <2>6. TickTypes'
    BY <1>4, <2>1 DEF GovStartCheck, GovCheck, TickTypes, Step
  <2> QED  BY <2>1, <2>2, <2>3, <2>4, <2>5, <2>6
<1>5. CASE GovStartArm
  <2>1. ThreadTypes' /\ waits' \subseteq Threads
    BY <1>0, <1>5, StepTypes DEF GovStartArm, GovArm, Step
  <2>2. FreqTypes'
    BY <1>5 DEF GovStartArm, GovArm, FreqTypes, PolicyOK
  <2>3. TunableTypes'
    BY <1>5 DEF GovStartArm, GovArm, TunableTypes
  <2>4. WorkTypes'
    BY <1>5 DEF GovStartArm, GovArm, WorkTypes
  <2>5. HookTypes'
    BY <1>5 DEF GovStartArm, GovArm, HookTypes
  <2>6. TickTypes'
    BY <1>5, <2>1 DEF GovStartArm, GovArm, TickTypes, ModTimer
  <2> QED  BY <2>1, <2>2, <2>3, <2>4, <2>5, <2>6
<1> QED  BY <1>1, <1>2, <1>3, <1>4, <1>5

(* CPUFREQ_GOV_LIMITS.                                                     *)
LEMMA LimitsTypesKept ==
  ASSUME TypeOK, GovIdeal \/ GovClamp \/ GovTarget \/ GovLimitsCheck \/ GovLimitsArm
  PROVE  TypeOK'
<1> USE DEF TypeOK, freq, tunables, work, flush, hooks, tick, target, Holding,
            Places
<1>0. "gov" \in Threads /\ "susp" \in Threads /\ "store" \in Threads
  BY DEF Threads
<1>1. CASE GovIdeal
  <2>1. loc["gov"] \in Nat
    BY <1>0, <1>1 DEF GovIdeal, At, ThreadTypes
  <2>2. ideal' \in Nat /\ outdated' \in BOOLEAN /\ Goto("gov", "clamp")
    BY <1>1, <2>1 DEF GovIdeal, SetIdeal
  <2>3. ThreadTypes' /\ waits' \subseteq Threads
    BY <1>0, <1>1, <2>2, TakeTypes DEF GovIdeal
  <2>4. FreqTypes'
    BY <1>0, <1>1, <2>2 DEF GovIdeal, FreqTypes, PolicyOK
  <2>5. TunableTypes'
    BY <1>1 DEF GovIdeal, TunableTypes
  <2>6. WorkTypes'
    BY <1>1 DEF GovIdeal, WorkTypes
  <2>7. HookTypes'
    BY <1>1 DEF GovIdeal, HookTypes
  <2>8. TickTypes'
    BY <1>1, <2>3 DEF GovIdeal, TickTypes
  <2> QED  BY <2>3, <2>4, <2>5, <2>6, <2>7, <2>8
<1>2. CASE GovClamp
  <2>1. DriverFreq(pmax, "H") \in Nat /\ DriverFreq(pmin, "L") \in Nat
    BY PolicyTypes, DriverTypes DEF FreqTypes
  <2>2. ThreadTypes' /\ waits' \subseteq Threads
    BY <1>0, <1>2, <2>1, StepTypes, TakeTypes DEF GovClamp, Step, Done
  <2>3. FreqTypes'
    BY <1>2 DEF GovClamp, FreqTypes, PolicyOK
  <2>4. TunableTypes'
    BY <1>2 DEF GovClamp, TunableTypes
  <2>5. WorkTypes'
    BY <1>2 DEF GovClamp, WorkTypes
  <2>6. HookTypes'
    BY <1>2 DEF GovClamp, HookTypes
  <2>7. TickTypes'
    BY <1>2, <2>2 DEF GovClamp, TickTypes, Step, Done
  <2> QED  BY <2>2, <2>3, <2>4, <2>5, <2>6, <2>7
<1>3. CASE GovTarget
  <2>1. loc["gov"] \in Nat
    BY <1>0, <1>3 DEF GovTarget, At, ThreadTypes
  <2>2. ThreadTypes' /\ waits' \subseteq Threads
    BY <1>0, <1>3, <2>1, TakeTypes DEF GovTarget
  <2>3. FreqTypes'
    BY <1>0, <1>3, <2>1 DEF GovTarget, FreqTypes, PolicyOK
  <2>4. TunableTypes'
    BY <1>3 DEF GovTarget, TunableTypes
  <2>5. WorkTypes'
    BY <1>3 DEF GovTarget, WorkTypes
  <2>6. HookTypes'
    BY <1>3 DEF GovTarget, HookTypes
  <2>7. TickTypes'
    BY <1>3, <2>2 DEF GovTarget, TickTypes
  <2> QED  BY <2>2, <2>3, <2>4, <2>5, <2>6, <2>7
<1>4. CASE GovLimitsCheck
  <2>1. ThreadTypes' /\ waits' \subseteq Threads
    BY <1>0, <1>4, StepTypes DEF GovLimitsCheck, GovCheck, Step
  <2>2. FreqTypes'
    BY <1>4 DEF GovLimitsCheck, GovCheck, FreqTypes, PolicyOK
  <2>3. TunableTypes'
    BY <1>4 DEF GovLimitsCheck, GovCheck, TunableTypes
  <2>4. WorkTypes'
    BY <1>4 DEF GovLimitsCheck, GovCheck, WorkTypes
  <2>5. HookTypes'
    BY <1>4 DEF GovLimitsCheck, GovCheck, HookTypes
  <2>6. TickTypes'
    BY <1>4, <2>1 DEF GovLimitsCheck, GovCheck, TickTypes, Step
  <2> QED  BY <2>1, <2>2, <2>3, <2>4, <2>5, <2>6
<1>5. CASE GovLimitsArm
  <2>1. ThreadTypes' /\ waits' \subseteq Threads
    BY <1>0, <1>5, StepTypes DEF GovLimitsArm, GovArm, Step
  <2>2. FreqTypes'
    BY <1>5 DEF GovLimitsArm, GovArm, FreqTypes, PolicyOK
  <2>3. TunableTypes'
    BY <1>5 DEF GovLimitsArm, GovArm, TunableTypes
  <2>4. WorkTypes'
    BY <1>5 DEF GovLimitsArm, GovArm, WorkTypes
  <2>5. HookTypes'
    BY <1>5 DEF GovLimitsArm, GovArm, HookTypes
  <2>6. TickTypes'
    BY <1>5, <2>1 DEF GovLimitsArm, GovArm, TickTypes, ModTimer
  <2> QED  BY <2>1, <2>2, <2>3, <2>4, <2>5, <2>6
<1> QED  BY <1>1, <1>2, <1>3, <1>4, <1>5

(* The core gives the policy new limits.                                   *)
LEMMA NewLimitsTypes ==
  ASSUME TypeOK, NEW p \in Policies, GovLimits(p)
  PROVE  TypeOK'
<1> USE DEF TypeOK, freq, tunables, work, flush, hooks, tick, target, Holding,
            Places
<1>0. "gov" \in Threads
  BY DEF Threads
<1>1. p[1] \in Nat /\ p[2] \in Nat /\ p[1] <= p[2]
  BY BoostedAssumption
<1>2. IdealWithin(p[1], p[2]) \in Nat
  BY <1>1, IdealTypes
<1>3. ThreadTypes' /\ waits' \subseteq Threads
  BY <1>0, <1>2, TakeTypes DEF GovLimits
<1>4. PolicyOK'
  BY DEF GovLimits, PolicyOK
<1>5. FreqTypes'
  BY <1>4 DEF GovLimits, FreqTypes
<1>6. TunableTypes'
  BY DEF GovLimits, TunableTypes
<1>7. WorkTypes'
  BY DEF GovLimits, WorkTypes
<1>8. HookTypes'
  BY DEF GovLimits, HookTypes
<1>9. TickTypes'
  BY <1>3 DEF GovLimits, TickTypes
<1> QED  BY <1>3, <1>5, <1>6, <1>7, <1>8, <1>9

(* CPUFREQ_GOV_STOP, and what another governor does.                       *)
LEMMA StopTypesKept ==
  ASSUME TypeOK, GovStop \/ GovStopTimer \/ GovStopFlush \/ GovStopUnhook
         \/ \E f \in Table : OtherGovernor(f)
  PROVE  TypeOK'
<1> USE DEF TypeOK, freq, tunables, work, flush, hooks, tick, target, Holding,
            Places
<1>0. "gov" \in Threads /\ "susp" \in Threads /\ "store" \in Threads
  BY DEF Threads
<1>1. CASE GovStop
  <2>1. ThreadTypes' /\ waits' \subseteq Threads
    BY <1>0, <1>1, StepTypes DEF GovStop, Step
  <2>2. FreqTypes'
    BY <1>1 DEF GovStop, FreqTypes, PolicyOK
  <2>3. TunableTypes'
    BY <1>1 DEF GovStop, TunableTypes
  <2>4. WorkTypes'
    BY <1>1 DEF GovStop, WorkTypes
  <2>5. HookTypes'
    BY <1>1 DEF GovStop, HookTypes
  <2>6. TickTypes'
    BY <1>1, <2>1 DEF GovStop, TickTypes, Step
  <2> QED  BY <2>1, <2>2, <2>3, <2>4, <2>5, <2>6
<1>2. CASE GovStopTimer
  <2>1. Cardinality({q \in Workers : q = last /\ pc[q] # "rest"}) \in Nat
    BY FlushCount
  <2>2. flush_left' \in Nat
    BY <1>2, <2>1 DEF GovStopTimer
  <2>3. ThreadTypes' /\ waits' \subseteq Threads
    BY <1>0, <1>2, <2>2, StepTypes DEF GovStopTimer, Step
  <2>4. FreqTypes'
    BY <1>2 DEF GovStopTimer, FreqTypes, PolicyOK
  <2>5. TunableTypes'
    BY <1>2 DEF GovStopTimer, TunableTypes
  <2>6. WorkTypes'
    BY <1>0, <1>2, <2>2 DEF GovStopTimer, WorkTypes
  <2>7. HookTypes'
    BY <1>2 DEF GovStopTimer, HookTypes
  <2>8. TickTypes'
    BY <1>2, <2>3 DEF GovStopTimer, TickTypes, Step
  <2> QED  BY <2>3, <2>4, <2>5, <2>6, <2>7, <2>8
<1>3. CASE GovStopFlush
  <2>1. ThreadTypes' /\ waits' \subseteq Threads
    BY <1>0, <1>3, StepTypes DEF GovStopFlush, ForgetSample, Step
  <2>2. FreqTypes'
    BY <1>3 DEF GovStopFlush, ForgetSample, FreqTypes, PolicyOK
  <2>3. TunableTypes'
    BY <1>3 DEF GovStopFlush, ForgetSample, TunableTypes
  <2>4. WorkTypes'
    BY <1>3 DEF GovStopFlush, ForgetSample, WorkTypes
  <2>5. HookTypes'
    BY <1>3 DEF GovStopFlush, ForgetSample, HookTypes
  <2>6. TickTypes'
    BY <1>3, <2>1 DEF GovStopFlush, ForgetSample, TickTypes, Step
  <2> QED  BY <2>1, <2>2, <2>3, <2>4, <2>5, <2>6
<1>4. CASE GovStopUnhook
  <2>1. ThreadTypes' /\ waits' \subseteq Threads
    BY <1>0, <1>4, StepTypes DEF GovStopUnhook, Step
  <2>2. FreqTypes'
    BY <1>4 DEF GovStopUnhook, FreqTypes, PolicyOK
  <2>3. TunableTypes'
    BY <1>4 DEF GovStopUnhook, TunableTypes
  <2>4. WorkTypes'
    BY <1>4 DEF GovStopUnhook, WorkTypes
  <2>5. HookTypes'
    BY <1>4 DEF GovStopUnhook, HookTypes
  <2>6. TickTypes'
    BY <1>4, <2>1 DEF GovStopUnhook, TickTypes, Step
  <2> QED  BY <2>1, <2>2, <2>3, <2>4, <2>5, <2>6
<1>5. ASSUME NEW f \in Table, OtherGovernor(f)
      PROVE  TypeOK'
  <2>1. f \in Nat
    BY TableAssumption
  <2>2. FreqTypes'
    BY <1>0, <1>5, <2>1 DEF OtherGovernor, FreqTypes, PolicyOK
  <2>3. TunableTypes'
    BY <1>5 DEF OtherGovernor, TunableTypes
  <2>4. WorkTypes'
    BY <1>5 DEF OtherGovernor, WorkTypes
  <2>5. HookTypes'
    BY <1>5 DEF OtherGovernor, HookTypes
  <2>6. ThreadTypes'
    BY <1>5 DEF OtherGovernor, ThreadTypes
  <2>7. TickTypes'
    BY <1>5 DEF OtherGovernor, TickTypes
  <2> QED  BY <2>2, <2>3, <2>4, <2>5, <2>6, <2>7
<1> QED  BY <1>1, <1>2, <1>3, <1>4, <1>5

(* The suspend and resume handlers.                                        *)
LEMMA SuspendTypesKept ==
  ASSUME TypeOK, EarlySuspend \/ LateResume \/ SuspStep
  PROVE  TypeOK'
<1> USE DEF TypeOK, freq, tunables, work, flush, hooks, tick, target, Holding,
            Places
<1>0. "gov" \in Threads /\ "susp" \in Threads /\ "store" \in Threads
  BY DEF Threads
<1>1. CASE EarlySuspend
  <2>1. ThreadTypes' /\ waits' \subseteq Threads
    BY <1>0, <1>1, StepTypes DEF EarlySuspend, Step
  <2>2. FreqTypes'
    BY <1>1 DEF EarlySuspend, FreqTypes, PolicyOK
  <2>3. TunableTypes'
    BY <1>1 DEF EarlySuspend, TunableTypes
  <2>4. WorkTypes'
    BY <1>1 DEF EarlySuspend, WorkTypes
  <2>5. HookTypes'
    BY <1>1 DEF EarlySuspend, HookTypes
  <2>6. TickTypes'
    BY <1>1, <2>1 DEF EarlySuspend, TickTypes, Step
  <2> QED  BY <2>1, <2>2, <2>3, <2>4, <2>5, <2>6
<1>2. CASE LateResume
  <2>1. ThreadTypes' /\ waits' \subseteq Threads
    BY <1>0, <1>2, StepTypes DEF LateResume, Step
  <2>2. FreqTypes'
    BY <1>2 DEF LateResume, FreqTypes, PolicyOK
  <2>3. TunableTypes'
    BY <1>2 DEF LateResume, TunableTypes
  <2>4. WorkTypes'
    BY <1>2 DEF LateResume, WorkTypes
  <2>5. HookTypes'
    BY <1>2 DEF LateResume, HookTypes
  <2>6. TickTypes'
    BY <1>2, <2>1 DEF LateResume, TickTypes, Step
  <2> QED  BY <2>1, <2>2, <2>3, <2>4, <2>5, <2>6
<1>3. CASE CalcIdeal("susp")
  <2>1. pmin \in Nat /\ pmax \in Nat /\ pmin <= pmax
    BY PolicyTypes DEF FreqTypes
  <2>2. Ideal \in Nat
    BY <2>1, IdealTypes DEF Ideal
  <2>3. ThreadTypes' /\ waits' \subseteq Threads
    BY <1>0, <1>3, <2>2, TakeTypes DEF CalcIdeal, Done
  <2>4. FreqTypes'
    BY <1>3 DEF CalcIdeal, FreqTypes, PolicyOK
  <2>5. TunableTypes'
    BY <1>3 DEF CalcIdeal, TunableTypes
  <2>6. WorkTypes'
    BY <1>3 DEF CalcIdeal, WorkTypes
  <2>7. HookTypes'
    BY <1>3 DEF CalcIdeal, HookTypes
  <2>8. TickTypes'
    BY <1>3, <2>3 DEF CalcIdeal, TickTypes, Done
  <2> QED  BY <2>3, <2>4, <2>5, <2>6, <2>7, <2>8
<1>4. CASE SuspIdeal
  <2>1. loc["susp"] \in Nat
    BY <1>0, <1>4 DEF SuspIdeal, At, ThreadTypes
  <2>2. ideal' \in Nat /\ outdated' \in BOOLEAN
    BY <1>4, <2>1 DEF SuspIdeal, SetIdeal
  <2>3. Validate(WakeupFreq, pmin, pmax) \in Nat
    BY PolicyTypes, BoostedAssumption DEF Validate, FreqTypes
  <2>4. ThreadTypes' /\ waits' \subseteq Threads
    BY <1>0, <1>4, <2>2, <2>3, TakeTypes DEF SuspIdeal, SetIdeal
  <2>5. FreqTypes'
    BY <1>0, <1>4, <2>2, <2>3 DEF SuspIdeal, FreqTypes, PolicyOK
  <2>6. TunableTypes'
    BY <1>4 DEF SuspIdeal, TunableTypes
  <2>7. WorkTypes'
    BY <1>4 DEF SuspIdeal, WorkTypes
  <2>8. HookTypes'
    BY <1>4 DEF SuspIdeal, HookTypes
  <2>9. TickTypes'
    BY <1>4, <2>4 DEF SuspIdeal, TickTypes
  <2> QED  BY <2>4, <2>5, <2>6, <2>7, <2>8, <2>9
<1>5. CASE SuspTarget
  <2>1. loc["susp"] \in Nat
    BY <1>0, <1>5 DEF SuspTarget, At, ThreadTypes
  <2>2. cur' \in Nat
    BY <1>5, <2>1, DriverTypes DEF SuspTarget, FreqTypes
  <2>3. ThreadTypes' /\ waits' \subseteq Threads
    BY <1>0, <1>5, <2>2, TakeTypes DEF SuspTarget
  <2>4. FreqTypes'
    BY <1>0, <1>5, <2>2 DEF SuspTarget, FreqTypes, PolicyOK
  <2>5. TunableTypes'
    BY <1>5 DEF SuspTarget, TunableTypes
  <2>6. WorkTypes'
    BY <1>5 DEF SuspTarget, WorkTypes
  <2>7. HookTypes'
    BY <1>5 DEF SuspTarget, HookTypes
  <2>8. TickTypes'
    BY <1>5, <2>3 DEF SuspTarget, TickTypes
  <2> QED  BY <2>3, <2>4, <2>5, <2>6, <2>7, <2>8
<1>6. CASE SuspReset
  <2>1. ThreadTypes' /\ waits' \subseteq Threads
    BY <1>0, <1>6, StepTypes DEF SuspReset, Step
  <2>2. FreqTypes'
    BY <1>6 DEF SuspReset, FreqTypes, PolicyOK
  <2>3. TunableTypes'
    BY <1>6 DEF SuspReset, TunableTypes
  <2>4. WorkTypes'
    BY <1>6 DEF SuspReset, WorkTypes
  <2>5. HookTypes'
    BY <1>6 DEF SuspReset, HookTypes
  <2>6. TickTypes'
    BY <1>6, <2>1 DEF SuspReset, TickTypes, Step
  <2> QED  BY <2>1, <2>2, <2>3, <2>4, <2>5, <2>6
<1>7. CASE SuspArm
  <2>1. ThreadTypes' /\ waits' \subseteq Threads
    BY <1>0, <1>7, StepTypes DEF SuspArm, Step
  <2>2. FreqTypes'
    BY <1>7 DEF SuspArm, FreqTypes, PolicyOK
  <2>3. TunableTypes'
    BY <1>7 DEF SuspArm, TunableTypes
  <2>4. WorkTypes'
    BY <1>7 DEF SuspArm, WorkTypes
  <2>5. HookTypes'
    BY <1>7 DEF SuspArm, HookTypes
  <2>6. TickTypes'
    BY <1>7, <2>1 DEF SuspArm, TickTypes, ModTimer
  <2> QED  BY <2>1, <2>2, <2>3, <2>4, <2>5, <2>6
<1> QED  BY <1>1, <1>2, <1>3, <1>4, <1>5, <1>6, <1>7 DEF SuspStep

(* The sysfs writers.                                                      *)
LEMMA StoreTypesKept ==
  ASSUME TypeOK, (\E v \in AwakeIdeals : StoreAwake(v))
           \/ (\E v \in SleepIdeals : StoreSleep(v)) \/ StoreStep
  PROVE  TypeOK'
<1> USE DEF TypeOK, freq, tunables, work, flush, hooks, tick, target, Holding,
            Places
<1>0. "gov" \in Threads /\ "susp" \in Threads /\ "store" \in Threads
  BY DEF Threads
<1>1. ASSUME NEW v \in AwakeIdeals, StoreAwake(v)
      PROVE  TypeOK'
  <2>1. v \in Nat
    BY BoostedAssumption
  <2>2. ThreadTypes' /\ waits' \subseteq Threads
    BY <1>0, <1>1, <2>1, StepTypes, TakeTypes DEF StoreAwake, Step, Done
  <2>3. FreqTypes'
    BY <1>1 DEF StoreAwake, FreqTypes, PolicyOK
  <2>4. TunableTypes'
    BY <1>0, <1>1, <2>1 DEF StoreAwake, TunableTypes
  <2>5. WorkTypes'
    BY <1>1 DEF StoreAwake, WorkTypes
  <2>6. HookTypes'
    BY <1>1 DEF StoreAwake, HookTypes
  <2>7. TickTypes'
    BY <1>1, <2>2 DEF StoreAwake, TickTypes, Step, Done
  <2> QED  BY <2>2, <2>3, <2>4, <2>5, <2>6, <2>7
<1>2. ASSUME NEW v \in SleepIdeals, StoreSleep(v)
      PROVE  TypeOK'
  <2>1. v \in Nat
    BY BoostedAssumption
  <2>2. ThreadTypes' /\ waits' \subseteq Threads
    BY <1>0, <1>2, <2>1, StepTypes, TakeTypes DEF StoreSleep, Step, Done
  <2>3. FreqTypes'
    BY <1>2 DEF StoreSleep, FreqTypes, PolicyOK
  <2>4. TunableTypes'
    BY <1>0, <1>2, <2>1 DEF StoreSleep, TunableTypes
  <2>5. WorkTypes'
    BY <1>2 DEF StoreSleep, WorkTypes
  <2>6. HookTypes'
    BY <1>2 DEF StoreSleep, HookTypes
  <2>7. TickTypes'
    BY <1>2, <2>2 DEF StoreSleep, TickTypes, Step, Done
  <2> QED  BY <2>2, <2>3, <2>4, <2>5, <2>6, <2>7
<1>3. CASE CalcIdeal("store")
  <2>1. pmin \in Nat /\ pmax \in Nat /\ pmin <= pmax
    BY PolicyTypes DEF FreqTypes
  <2>2. Ideal \in Nat
    BY <2>1, IdealTypes DEF Ideal
  <2>3. ThreadTypes' /\ waits' \subseteq Threads
    BY <1>0, <1>3, <2>2, TakeTypes DEF CalcIdeal, Done
  <2>4. FreqTypes'
    BY <1>3 DEF CalcIdeal, FreqTypes, PolicyOK
  <2>5. TunableTypes'
    BY <1>3 DEF CalcIdeal, TunableTypes
  <2>6. WorkTypes'
    BY <1>3 DEF CalcIdeal, WorkTypes
  <2>7. HookTypes'
    BY <1>3 DEF CalcIdeal, HookTypes
  <2>8. TickTypes'
    BY <1>3, <2>3 DEF CalcIdeal, TickTypes, Done
  <2> QED  BY <2>3, <2>4, <2>5, <2>6, <2>7, <2>8
<1>4. CASE StoreIdeal
  <2>1. loc["store"] \in Nat
    BY <1>0, <1>4 DEF StoreIdeal, At, ThreadTypes
  <2>2. ideal' \in Nat /\ outdated' \in BOOLEAN /\ Goto("store", "rest")
    BY <1>4, <2>1 DEF StoreIdeal, SetIdeal
  <2>3. ThreadTypes' /\ waits' \subseteq Threads
    BY <1>0, <1>4, <2>2, TakeTypes DEF StoreIdeal
  <2>4. FreqTypes'
    BY <1>0, <1>4, <2>2 DEF StoreIdeal, FreqTypes, PolicyOK
  <2>5. TunableTypes'
    BY <1>4 DEF StoreIdeal, TunableTypes
  <2>6. WorkTypes'
    BY <1>4 DEF StoreIdeal, WorkTypes
  <2>7. HookTypes'
    BY <1>4 DEF StoreIdeal, HookTypes
  <2>8. TickTypes'
    BY <1>4, <2>3 DEF StoreIdeal, TickTypes
  <2> QED  BY <2>3, <2>4, <2>5, <2>6, <2>7, <2>8
<1> QED  BY <1>1, <1>2, <1>3, <1>4 DEF StoreStep

(* Every variable of the governor keeps the type the code gives it, and    *)
(* the places that hold a frequency hold one.                              *)
THEOREM TypeCorrect == Spec => []TypeOK
<1>1. TypeOK /\ [Next]_vars => TypeOK'
  <2> SUFFICES ASSUME TypeOK, [Next]_vars  PROVE TypeOK'
    OBVIOUS
  <2>1. CASE TimerStep \/ IdleEnter \/ IdleExit
    BY <2>1, TickTypesKept
  <2>2. CASE \E q \in Workers : WorkStep(q)
    BY <2>2, WorkTypesKept
  <2>3. CASE GovStart \/ GovStop \/ GovStep
    BY <2>3, StartTypesKept, LimitsTypesKept, StopTypesKept DEF GovStep
  <2>4. CASE \E p \in Policies : GovLimits(p)
    BY <2>4, NewLimitsTypes
  <2>5. CASE \E f \in Table : OtherGovernor(f)
    BY <2>5, StopTypesKept
  <2>6. CASE EarlySuspend \/ LateResume \/ SuspStep
    BY <2>6, SuspendTypesKept
  <2>7. CASE \/ \E v \in AwakeIdeals : StoreAwake(v)
             \/ \E v \in SleepIdeals : StoreSleep(v)
             \/ StoreStep
    BY <2>7, StoreTypesKept
  <2>8. CASE UNCHANGED vars
    <3> USE <2>8 DEF TypeOK, vars, freq, tunables, work, flush, hooks, tick, target
    <3>1. FreqTypes'
      BY DEF FreqTypes, PolicyOK
    <3>2. TunableTypes'
      BY DEF TunableTypes
    <3>3. WorkTypes'
      BY DEF WorkTypes
    <3>4. HookTypes'
      BY DEF HookTypes
    <3>5. TickTypes'
      BY DEF TickTypes
    <3>6. ThreadTypes'
      BY DEF ThreadTypes
    <3> QED  BY <3>1, <3>2, <3>3, <3>4, <3>5, <3>6
  <2> QED  BY <2>1, <2>2, <2>3, <2>4, <2>5, <2>6, <2>7, <2>8 DEF Next
<1> QED  BY InitTypes, <1>1, PTL DEF Spec

-----------------------------------------------------------------------------
(* Some thread will write ideal_speed again before it ends.                *)
Recomputing ==
  \/ pc["gov"] \in {"start_ideal", "ideal"}
  \/ pc["susp"] \in {"calc", "ideal"}
  \/ pc["store"] \in {"calc", "ideal"}

(* ideal_speed is what boosted_update_min_max would compute now, or will   *)
(* be computed again.                                                      *)
FollowInv == enable /\ ~outdated => ideal = Ideal \/ Recomputing

(* Who changes nothing that ideal_speed is computed from, and does not end *)
(* a computation, disturbs nothing.                                        *)
LEMMA SameInputs ==
  ASSUME FollowInv, UNCHANGED <<target, tunables, pmin, pmax>>,
         enable' => enable, Recomputing => Recomputing'
  PROVE  FollowInv'
BY DEF FollowInv, Ideal, IdealWithin, target, tunables

(* Who writes ideal_speed writes what boosted_update_min_max computes, or  *)
(* an out of date value.                                                   *)
LEMMA IdealWritten ==
  ASSUME NEW t, NEW l, SetIdeal(t, l), UNCHANGED <<freq, tunables>>
  PROVE  FollowInv'
BY DEF FollowInv, SetIdeal, Ideal, IdealWithin, freq, tunables

(* No step leaves ideal_speed behind its inputs.                           *)
LEMMA FollowStep ==
  ASSUME TypeOK, FollowInv, [Next]_vars
  PROVE  FollowInv'
<1> USE DEF freq, tunables, target, Goto, Keep, Step, Done
<1>0. /\ pc \in [Threads -> Places]
      /\ "gov" \in Threads /\ "susp" \in Threads /\ "store" \in Threads
      /\ "gov" \notin Workers /\ "susp" \notin Workers /\ "store" \notin Workers
  BY DEF TypeOK, ThreadTypes, Threads, Workers
<1>1. CASE TimerStep \/ IdleEnter \/ IdleExit \/ \E f \in Table : OtherGovernor(f)
  <2>1. UNCHANGED <<target, tunables, pmin, pmax, enable, pc>>
    BY <1>1 DEF TimerStep, Timer, TimerStopped, IdleEnter, IdleExit, OtherGovernor
  <2> QED  BY <2>1, SameInputs DEF Recomputing
<1>2. ASSUME NEW q \in Workers, WorkStep(q)
      PROVE  FollowInv'
  <2>1. /\ UNCHANGED <<target, tunables, pmin, pmax, enable>>
        /\ \E l \in Places : pc' = [pc EXCEPT ![q] = l]
    BY <1>2 DEF WorkStep, WorkTake, WorkMask, WorkDir, WorkDecide, WorkTarget,
       WorkRearm, WorkFinish, ModTimer, Places
  <2>2. \A t \in Threads \ Workers : pc'[t] = pc[t]
    BY <1>0, <2>1
  <2>3. Recomputing => Recomputing'
    BY <1>0, <2>2 DEF Recomputing
  <2> QED  BY <2>1, <2>3, SameInputs
<1>3. CASE GovStart \/ \E p \in Policies : GovLimits(p)
  <2>1. pc'["gov"] \in {"start_ideal", "ideal"}
    BY <1>0, <1>3 DEF GovStart, GovLimits
  <2> QED  BY <2>1 DEF FollowInv, Recomputing
<1>4. CASE GovStartIdeal \/ GovIdeal \/ SuspIdeal \/ StoreIdeal
  BY <1>4, IdealWritten DEF GovStartIdeal, GovIdeal, SuspIdeal, StoreIdeal
<1>5. CASE \/ GovStartHook \/ GovStartCheck \/ GovStartArm
           \/ GovClamp \/ GovTarget \/ GovLimitsCheck \/ GovLimitsArm
           \/ GovStop \/ GovStopTimer \/ GovStopFlush \/ GovStopUnhook
  <2>1. /\ UNCHANGED <<target, tunables, pmin, pmax>>
        /\ enable' => enable
        /\ \E l \in Places : pc' = [pc EXCEPT !["gov"] = l]
        /\ pc["gov"] \notin {"start_ideal", "ideal"}
    BY <1>5 DEF GovStartHook, GovStartCheck, GovStartArm, GovCheck, GovArm,
       GovClamp, GovTarget, GovLimitsCheck, GovLimitsArm, GovStop,
       GovStopTimer, GovStopFlush, GovStopUnhook, ModTimer, Places, At
  <2>2. pc'["susp"] = pc["susp"] /\ pc'["store"] = pc["store"]
    BY <1>0, <2>1
  <2>3. Recomputing => Recomputing'
    BY <2>1, <2>2 DEF Recomputing
  <2> QED  BY <2>1, <2>3, SameInputs
<1>6. CASE EarlySuspend \/ LateResume
  <2>1. pc'["susp"] = "calc"
    BY <1>0, <1>6 DEF EarlySuspend, LateResume
  <2> QED  BY <2>1 DEF FollowInv, Recomputing
<1>7. ASSUME NEW t \in {"susp", "store"}, CalcIdeal(t)
      PROVE  FollowInv'
  <2>1. CASE enable
    <3>1. pc'[t] = "ideal"
      BY <1>0, <1>7, <2>1 DEF CalcIdeal
    <3> QED  BY <3>1 DEF FollowInv, Recomputing
  <2>2. CASE ~enable
    BY <1>7, <2>2 DEF FollowInv, CalcIdeal
  <2> QED  BY <2>1, <2>2
<1>8. CASE SuspTarget \/ SuspReset \/ SuspArm
  <2>1. /\ UNCHANGED <<target, tunables, pmin, pmax, enable>>
        /\ \E l \in Places : pc' = [pc EXCEPT !["susp"] = l]
        /\ pc["susp"] \notin {"calc", "ideal"}
    BY <1>8 DEF SuspTarget, SuspReset, SuspArm, ModTimer, Places, At
  <2>2. pc'["gov"] = pc["gov"] /\ pc'["store"] = pc["store"]
    BY <1>0, <2>1
  <2>3. Recomputing => Recomputing'
    BY <2>1, <2>2 DEF Recomputing
  <2> QED  BY <2>1, <2>3, SameInputs
<1>9. ASSUME NEW v, StoreAwake(v) \/ StoreSleep(v)
      PROVE  FollowInv'
  <2>1. CASE pc'["store"] = "calc"
    BY <2>1 DEF FollowInv, Recomputing
  <2>2. CASE pc'["store"] # "calc"
    <3>1. /\ UNCHANGED <<target, pmin, pmax, enable, suspended>>
          /\ IF suspended THEN sleep' = sleep ELSE awake' = awake
      BY <1>0, <1>9, <2>2 DEF StoreAwake, StoreSleep, AppliesSleep
    <3>2. pc["store"] = "rest" /\ pc'["gov"] = pc["gov"] /\ pc'["susp"] = pc["susp"]
      BY <1>0, <1>9 DEF StoreAwake, StoreSleep, At
    <3>3. Recomputing => Recomputing'
      BY <3>2 DEF Recomputing
    <3>4. Ideal' = Ideal
      BY <3>1 DEF Ideal, IdealWithin
    <3> QED  BY <3>1, <3>3, <3>4 DEF FollowInv
  <2> QED  BY <2>1, <2>2
<1>10. CASE UNCHANGED vars
  BY <1>10, SameInputs DEF vars, Recomputing
<1> QED
  BY <1>1, <1>2, <1>3, <1>4, <1>5, <1>6, <1>7, <1>8, <1>9, <1>10
  DEF Next, GovStep, SuspStep, StoreStep

(* boosted_update_min_max computes the frequency within the limits that is *)
(* nearest to the tunable in use.                                          *)
LEMMA IdealIsNearest ==
  ASSUME TypeOK
  PROVE  LET wanted == IF suspended THEN sleep ELSE awake IN
         /\ pmin <= Ideal /\ Ideal <= pmax
         /\ \A f \in pmin .. pmax : Distance(wanted, Ideal) <= Distance(wanted, f)
<1>1. pmin \in Nat /\ pmax \in Nat /\ pmin <= pmax /\ sleep \in Nat /\ awake \in Nat
  BY PolicyTypes DEF TypeOK, FreqTypes, TunableTypes
<1> DEFINE wanted == IF suspended THEN sleep ELSE awake
<1>2. /\ wanted \in Nat
      /\ Ideal = IF wanted < pmin THEN pmin ELSE IF wanted > pmax THEN pmax ELSE wanted
  BY <1>1 DEF Ideal, IdealWithin
<1> HIDE DEF wanted
<1>3. pmin <= Ideal /\ Ideal <= pmax
  BY <1>1, <1>2
<1>4. ASSUME NEW f \in pmin .. pmax
      PROVE  Distance(wanted, Ideal) <= Distance(wanted, f)
  BY <1>1, <1>2 DEF Distance
<1> QED  BY <1>3, <1>4 DEF wanted

(* Whatever the order of limits, tunables, suspend, resume, start and stop *)
(* was, at rest an enabled governor has the ideal frequency that           *)
(* boosted_update_min_max computes from the limits and the tunable in use, *)
(* the nearest one the limits allow, unless the last thread to write it    *)
(* had computed it from inputs that had changed since, or the tunable in   *)
(* use was set to 0 while suspended.                                       *)
THEOREM IdealIsFollowed == Spec => []IdealFollows
<1>1. Init => FollowInv
  BY DEF Init, FollowInv
<1>2. TypeOK /\ FollowInv /\ [Next]_vars => FollowInv'
  BY FollowStep
<1>3. TypeOK /\ FollowInv => IdealFollows
  <2> SUFFICES ASSUME TypeOK, FollowInv, Quiet, enable, ~outdated,
                      suspended => sleep # 0
               PROVE  IdealNear(WantedIdeal)
    BY DEF IdealFollows
  <2>1. ~Recomputing
    BY DEF Quiet, Recomputing, Threads
  <2>2. ideal = Ideal
    BY <2>1 DEF FollowInv
  <2>3. WantedIdeal = IF suspended THEN sleep ELSE awake
    BY DEF WantedIdeal
  <2> QED  BY <2>2, <2>3, IdealIsNearest DEF IdealNear
<1> QED  BY TypeCorrect, <1>1, <1>2, <1>3, PTL DEF Spec

-----------------------------------------------------------------------------
(* A worker moves only by its own steps.                                   *)
LEMMA WorkersStay ==
  ASSUME TypeOK, [Next]_vars, NEW q \in Workers, ~WorkStep(q)
  PROVE  pc'[q] = pc[q]
<1> USE DEF Goto, Keep, Step, Done, ModTimer, SetIdeal
<1>0. /\ pc \in [Threads -> Places] /\ q \in Threads
      /\ q \notin {"gov", "susp", "store"}
  BY DEF TypeOK, ThreadTypes, Threads, Workers
<1>1. CASE \/ TimerStep \/ IdleEnter \/ IdleExit
           \/ \E f \in Table : OtherGovernor(f)
           \/ UNCHANGED vars
  BY <1>1 DEF TimerStep, Timer, TimerStopped, IdleEnter, IdleExit, OtherGovernor, vars
<1>2. ASSUME NEW r \in Workers, WorkStep(r)
      PROVE  pc'[q] = pc[q]
  <2>1. \E l \in Places : pc' = [pc EXCEPT ![r] = l]
    BY <1>2 DEF WorkStep, WorkTake, WorkMask, WorkDir, WorkDecide, WorkTarget,
       WorkRearm, WorkFinish, Places
  <2>2. r # q
    BY <1>2
  <2> QED  BY <1>0, <2>1, <2>2
<1>3. CASE GovStart \/ GovStop \/ GovStep \/ \E p \in Policies : GovLimits(p)
  <2>1. \E l \in Places : pc' = [pc EXCEPT !["gov"] = l]
    BY <1>3 DEF GovStart, GovStop, GovStep, GovLimits, GovStartIdeal,
       GovStartHook, GovStartCheck, GovStartArm, GovCheck, GovArm, GovIdeal,
       GovClamp, GovTarget, GovLimitsCheck, GovLimitsArm, GovStopTimer,
       GovStopFlush, GovStopUnhook, Places
  <2> QED  BY <1>0, <2>1
<1>4. CASE EarlySuspend \/ LateResume \/ SuspStep
  <2>1. \E l \in Places : pc' = [pc EXCEPT !["susp"] = l]
    BY <1>4 DEF EarlySuspend, LateResume, SuspStep, CalcIdeal, SuspIdeal,
       SuspTarget, SuspReset, SuspArm, Places
  <2> QED  BY <1>0, <2>1
<1>5. CASE \/ \E v \in AwakeIdeals : StoreAwake(v)
           \/ \E v \in SleepIdeals : StoreSleep(v)
           \/ StoreStep
  <2>1. \E l \in Places : pc' = [pc EXCEPT !["store"] = l]
    BY <1>5 DEF StoreAwake, StoreSleep, StoreStep, CalcIdeal, StoreIdeal, Places
  <2> QED  BY <1>0, <2>1
<1> QED  BY <1>1, <1>2, <1>3, <1>4, <1>5 DEF Next

(* "If we got here we tried to change to a validated new_freq which is     *)
(* different from old_freq": when the limits of every policy are           *)
(* frequencies of the table, the work goes on without a driver call only   *)
(* for a request that comes to the current frequency.                      *)
THEOREM ValidRampsMove ==
  ASSUME \A p \in Policies : p[1] \in Table /\ p[2] \in Table
  PROVE  Spec => RampsMove
<1> DEFINE Moves(q) ==
      pc[q] = "decide" /\ pc'[q] = "rearm" =>
        \/ old_freq # cur
        \/ \E busy \in RunQueue : \E w \in Wanted(loc[q], busy) :
             old_freq \in {w[1], Validate(w[1], pmin, pmax)}
<1>1. ASSUME TypeOK, [Next]_vars, NEW q \in Workers,
             pc[q] = "decide", pc'[q] = "rearm"
      PROVE  \E busy \in RunQueue : \E w \in Wanted(loc[q], busy) :
               old_freq \in {w[1], Validate(w[1], pmin, pmax)}
  <2>0. q \in Threads /\ pc \in [Threads -> Places] /\ loc[q] \in Int
    BY <1>1 DEF TypeOK, ThreadTypes, Threads
  <2>1. WorkStep(q)
    BY <1>1, WorkersStay
  <2>2. PICK busy \in RunQueue : WorkDecide(q, busy)
    BY <1>1, <2>1 DEF WorkStep, WorkTake, WorkMask, WorkDir, WorkTarget,
       WorkRearm, WorkFinish, At
  <2> DEFINE f(w) == TargetFreq(w[1], old_freq, w[2], pmin, pmax)
  <2>3. PICK w \in Wanted(loc[q], busy) :
          Goto(q, IF f(w) = 0 THEN "rearm" ELSE "target")
    BY <2>2 DEF WorkDecide
  <2>4. f(w) = 0
    BY <1>1, <2>0, <2>3 DEF Goto
  <2>5. w[1] \in Int /\ w[2] \in {"H", "L"} /\ old_freq \in Int
    BY <1>1, <2>0, WantedTypes DEF TypeOK, WorkTypes
  <2>6. pmin \in Table /\ pmax \in Table /\ pmin <= pmax
    BY <1>1, PolicyTypes DEF TypeOK, FreqTypes, PolicyOK
  <2>7. 0 \notin Within(pmin, pmax)
    BY TableAssumption DEF Within
  <2>8. old_freq \in {w[1], Validate(w[1], pmin, pmax)}
    BY <2>4, <2>5, <2>6, <2>7, ValidRequestsMove
  <2> QED  BY <2>8
<1>2. TypeOK /\ [Next]_vars => [\A q \in Workers : Moves(q)]_vars
  BY <1>1
<1>3. Spec => [][\A q \in Workers : Moves(q)]_vars
  BY TypeCorrect, <1>2, PTL DEF Spec
<1> QED  BY <1>3 DEF RampsMove

-----------------------------------------------------------------------------
(* Work is pending or in progress on queue q.                              *)
Work(q) == pc[q] # "rest" \/ pending = q

(* There is one work item: it is on the queue it was last put on, it is    *)
(* not pending again while it runs, and an armed timer expires after it.   *)
OneWork ==
  /\ \A q \in Workers : Work(q) => last = q
  /\ pending # "none" => \A q \in Workers : pc[q] = "rest"
  /\ \A q \in Workers : timer /\ Work(q) => q \in waits

(* Who leaves the work alone and gives the timer no shorter time.          *)
LEMMA WorkLeftAlone ==
  ASSUME OneWork, \A q \in Workers : pc'[q] = pc[q],
         UNCHANGED <<pending, last>>,
         \/ ~timer'
         \/ timer /\ \A q \in Workers : q \in waits => q \in waits'
         \/ \A q \in Workers : Work(q) => q \in waits'
  PROVE  OneWork'
BY DEF OneWork, Work

(* What the timer waits for when it is armed.                              *)
LEMMA OutlastedWork ==
  ASSUME "late" \notin Ops, NEW places, NEW q \in Workers
  PROVE  q \in Outlasted(places) <=> places[q] # "rest" \/ pending = q
BY DEF Outlasted, Threads

(* No step makes a second work item.                                       *)
LEMMA OneWorkStep ==
  ASSUME "late" \notin Ops, TypeOK, OneWork, [Next]_vars
  PROVE  OneWork'
<1> USE DEF freq, work, tick, Goto, Keep, Step, Done
<1>0. /\ pc \in [Threads -> Places] /\ Workers \subseteq Threads
      /\ "gov" \in Threads /\ "susp" \in Threads /\ "store" \in Threads
      /\ "gov" \notin Workers /\ "susp" \notin Workers /\ "store" \notin Workers
      /\ pending \in Workers \cup {"none"} /\ "none" \notin Workers
  BY DEF TypeOK, ThreadTypes, WorkTypes, Threads, Workers
<1>1. ASSUME NEW load \in Loads, NEW long \in BOOLEAN, Timer(load, long)
      PROVE  OneWork'
  <2>1. timer /\ waits = {} /\ pc' = pc
    BY <1>1 DEF Timer
  <2>2. \A q \in Workers : ~Work(q)
    BY <2>1 DEF OneWork
  <2>3. pending = "none" /\ \A q \in Workers : pc[q] = "rest"
    BY <1>0, <2>2 DEF Work
  <2>4. CASE Decision(load, long) = 0
    <3>1. pending' = "none" /\ \A q \in Workers : ~Work(q)'
      BY <1>0, <1>1, <2>1, <2>3, <2>4 DEF Timer, Work
    <3> QED  BY <3>1 DEF OneWork
  <2>5. CASE Decision(load, long) # 0
    <3>1. ~timer' /\ last' = pending'
      BY <1>1, <2>3, <2>5 DEF Timer, RearmAfter, QueueWork
    <3> QED  BY <2>1, <2>3, <3>1 DEF OneWork, Work
  <2> QED  BY <2>4, <2>5
<1>2. CASE \/ TimerStopped \/ IdleEnter \/ IdleExit
           \/ \E f \in Table : OtherGovernor(f)
           \/ UNCHANGED vars
  <2>1. \A q \in Workers : Work(q) => q \in Outlasted(pc)
    BY OutlastedWork DEF Work
  <2>2. UNCHANGED <<pc, pending, last>>
    BY <1>2 DEF TimerStopped, IdleEnter, IdleExit, OtherGovernor, vars
  <2>3. \/ ~timer'
        \/ timer /\ waits' = waits
        \/ waits' = Outlasted(pc)
    BY <1>2 DEF TimerStopped, IdleEnter, IdleExit, OtherGovernor, vars
  <2> QED  BY <2>1, <2>2, <2>3, WorkLeftAlone
<1>3. ASSUME NEW q \in Workers, WorkStep(q)
      PROVE  OneWork'
  <2>1. CASE WorkTake(q)
    <3>1. /\ pending = q /\ pending' = "none" /\ UNCHANGED <<last, timer, waits>>
          /\ pc' = [pc EXCEPT ![q] = "mask"]
      BY <1>0, <2>1 DEF WorkTake
    <3>2. \A r \in Workers : Work(r)' => Work(r)
      BY <1>0, <3>1 DEF Work
    <3> QED  BY <1>0, <3>1, <3>2 DEF OneWork
  <2>2. ASSUME WorkStep(q), ~WorkTake(q)
        PROVE  OneWork'
    <3>1. /\ pc[q] # "rest" /\ UNCHANGED <<pending, last>>
          /\ \E l \in Places : pc' = [pc EXCEPT ![q] = l]
      BY <2>2 DEF WorkStep, WorkMask, WorkDir, WorkDecide, WorkTarget,
         WorkRearm, WorkFinish, ModTimer, Places, At
    <3>2. pending = "none" /\ \A r \in Workers : r # q => pc[r] = "rest"
      BY <1>0, <3>1 DEF OneWork, Work
    <3>3. \A r \in Workers : r # q => ~Work(r)'
      BY <1>0, <3>1, <3>2 DEF Work
    <3>4. Work(q)' => (timer' => q \in waits')
      <4>1. CASE pc'[q] = "rest"
        BY <1>0, <3>1, <3>2, <4>1 DEF Work
      <4>2. CASE pc'[q] # "rest"
        <5>1. timer' = timer /\ waits' = waits
          BY <1>0, <2>2, <4>2 DEF WorkStep, WorkMask, WorkDir, WorkDecide,
             WorkTarget, WorkRearm, WorkFinish, ModTimer
        <5> QED  BY <3>1, <5>1 DEF OneWork, Work
      <4> QED  BY <4>1, <4>2
    <3>5. last = q
      BY <3>1 DEF OneWork, Work
    <3> QED  BY <3>1, <3>2, <3>3, <3>4, <3>5 DEF OneWork
  <2> QED  BY <1>3, <2>1, <2>2
<1>4. ASSUME \A q \in Workers : pc'[q] = pc[q],
             UNCHANGED <<pending, last>>,
             NEW t \in Threads, NEW l \in Places, ModTimer(t, l)
      PROVE  OneWork'
  <2>1. waits' = Outlasted(pc')
    BY <1>4 DEF ModTimer
  <2>2. \A q \in Workers : Work(q) => q \in waits'
    BY <1>4, <2>1, OutlastedWork DEF Work
  <2> QED  BY <1>4, <2>2, WorkLeftAlone
<1>5. ASSUME \A q \in Workers : ~WorkStep(q)
      PROVE  \A q \in Workers : pc'[q] = pc[q]
  BY <1>5, WorkersStay
<1>6. CASE GovStart \/ GovStop \/ GovStep \/ \E p \in Policies : GovLimits(p)
  <2>1. /\ UNCHANGED <<pending, last>>
        /\ \/ timer' = timer /\ waits' \in {waits, waits \ {"gov"}}
           \/ ~timer' \/ \E l \in Places : ModTimer("gov", l)
    BY <1>6 DEF GovStart, GovStop, GovStep, GovLimits, GovStartIdeal,
       GovStartHook, GovStartCheck, GovStartArm, GovCheck, GovArm, GovIdeal,
       GovClamp, GovTarget, GovLimitsCheck, GovLimitsArm, GovStopTimer,
       GovStopFlush, GovStopUnhook, Places, SetIdeal
  <2> QED  BY <1>0, <1>3, <1>4, <1>5, <2>1, WorkLeftAlone
<1>7. CASE EarlySuspend \/ LateResume \/ SuspStep
  <2>1. /\ UNCHANGED <<pending, last>>
        /\ \/ timer' = timer /\ waits' \in {waits, waits \ {"susp"}}
           \/ \E l \in Places : ModTimer("susp", l)
    BY <1>7 DEF EarlySuspend, LateResume, SuspStep, CalcIdeal, SuspIdeal,
       SuspTarget, SuspReset, SuspArm, Places, SetIdeal
  <2> QED  BY <1>0, <1>3, <1>4, <1>5, <2>1, WorkLeftAlone
<1>8. CASE \/ \E v \in AwakeIdeals : StoreAwake(v)
           \/ \E v \in SleepIdeals : StoreSleep(v)
           \/ StoreStep
  <2>1. /\ UNCHANGED <<pending, last, timer>>
        /\ waits' \in {waits, waits \ {"store"}}
    BY <1>8 DEF StoreAwake, StoreSleep, StoreStep, CalcIdeal, StoreIdeal, SetIdeal
  <2> QED  BY <1>0, <1>3, <1>4, <1>5, <2>1, WorkLeftAlone
<1> QED  BY <1>1, <1>2, <1>3, <1>6, <1>7, <1>8 DEF Next, TimerStep

-----------------------------------------------------------------------------
(* What the governor callback does.                                        *)
GovActs == GovStart \/ GovStop \/ GovStep \/ \E p \in Policies : GovLimits(p)

(* START counts the user, then the core marks the governor as started.     *)
Starting == pc["gov"] \in {"rest", "start_ideal", "start_hook", "start_check"}
Counted == started \/ pc["gov"] = "start_check"

(* active_count and the idle hook go with the counted user.  A START that  *)
(* could not create the sysfs group leaves its count behind.               *)
HookInv ==
  /\ pm_idle_old # "boosted"
  /\ pm_idle = "boosted" => Counted
  /\ active_count \in IF Counted THEN 1 .. 2 ELSE 0 .. 1
  /\ idle => started /\ enable

(* Where the governor callback is, without early suspend.                  *)
PhaseInv ==
  /\ ~suspended /\ pc["susp"] = "rest"
  /\ ~started => Starting
  /\ started => pc["gov"] \notin {"start_ideal", "start_hook", "start_check"}
  /\ pc["gov"] \in {"stop", "flush", "unhook"} => ~enable

(* STOP deletes the timer and waits for the work, which may arm it again:  *)
(* the timer does not expire before STOP ends.                             *)
FlushInv ==
  /\ pc["gov"] \in {"flush", "unhook"} /\ timer => "gov" \in waits
  /\ pc["gov"] = "flush" =>
       /\ flush_on = last
       /\ flush_left = IF \E q \in Workers : Work(q) THEN 1 ELSE 0

(* Once STOP has waited there is no work and no sample to go on from.      *)
StoppedInv ==
  ~started \/ pc["gov"] = "unhook" => ~idle_exit /\ \A q \in Workers : ~Work(q)

StopInv == OneWork /\ HookInv /\ PhaseInv /\ FlushInv /\ StoppedInv

(* Only the callback moves itself, and changes what it owns.               *)
LEMMA CallbackStays ==
  ASSUME TypeOK, [Next]_vars, ~GovActs
  PROVE  /\ pc'["gov"] = pc["gov"]
         /\ UNCHANGED <<hooks, started, enable, flush_on>>
<1> USE DEF freq, tunables, work, flush, hooks, tick, target,
            Goto, Keep, Step, Done, ModTimer, SetIdeal
<1>0. pc \in [Threads -> Places] /\ "gov" \in Threads
  BY DEF TypeOK, ThreadTypes, Threads
<1>1. CASE \/ TimerStep \/ IdleEnter \/ IdleExit
           \/ \E f \in Table : OtherGovernor(f)
           \/ UNCHANGED vars
  BY <1>1 DEF TimerStep, Timer, TimerStopped, IdleEnter, IdleExit, OtherGovernor, vars
<1>2. ASSUME NEW q \in Workers, WorkStep(q)
      PROVE  /\ pc'["gov"] = pc["gov"]
             /\ UNCHANGED <<hooks, started, enable, flush_on>>
  <2>1. /\ \E l \in Places : pc' = [pc EXCEPT ![q] = l]
        /\ UNCHANGED <<hooks, started, enable, flush_on>>
    BY <1>2 DEF WorkStep, WorkTake, WorkMask, WorkDir, WorkDecide, WorkTarget,
       WorkRearm, WorkFinish, EndRun, Places
  <2>2. q # "gov"
    BY DEF Workers
  <2> QED  BY <1>0, <2>1, <2>2
<1>3. CASE EarlySuspend \/ LateResume \/ SuspStep
  <2>1. /\ \E l \in Places : pc' = [pc EXCEPT !["susp"] = l]
        /\ UNCHANGED <<hooks, started, enable, flush_on>>
    BY <1>3 DEF EarlySuspend, LateResume, SuspStep, CalcIdeal, SuspIdeal,
       SuspTarget, SuspReset, SuspArm, Places
  <2> QED  BY <1>0, <2>1
<1>4. CASE \/ \E v \in AwakeIdeals : StoreAwake(v)
           \/ \E v \in SleepIdeals : StoreSleep(v)
           \/ StoreStep
  <2>1. /\ \E l \in Places : pc' = [pc EXCEPT !["store"] = l]
        /\ UNCHANGED <<hooks, started, enable, flush_on>>
    BY <1>4 DEF StoreAwake, StoreSleep, StoreStep, CalcIdeal, StoreIdeal, Places
  <2> QED  BY <1>0, <2>1
<1> QED  BY <1>1, <1>2, <1>3, <1>4 DEF Next, GovActs

(* The suspend handlers do not run without early suspend.                  *)
LEMMA NoSuspend ==
  ASSUME "suspend" \notin Ops, TypeOK, PhaseInv, [Next]_vars
  PROVE  ~suspended' /\ pc'["susp"] = "rest"
<1> USE DEF freq, tunables, work, flush, hooks, tick, target,
            Goto, Keep, Step, Done, ModTimer, SetIdeal
<1>0. pc \in [Threads -> Places] /\ "susp" \in Threads
  BY DEF TypeOK, ThreadTypes, Threads
<1>1. ~suspended /\ pc["susp"] = "rest"
  BY DEF PhaseInv
<1>2. CASE \/ TimerStep \/ IdleEnter \/ IdleExit
           \/ \E f \in Table : OtherGovernor(f)
           \/ UNCHANGED vars
  BY <1>1, <1>2 DEF TimerStep, Timer, TimerStopped, IdleEnter, IdleExit,
     OtherGovernor, vars
<1>3. ASSUME NEW q \in Workers, WorkStep(q)
      PROVE  ~suspended' /\ pc'["susp"] = "rest"
  <2>1. /\ \E l \in Places : pc' = [pc EXCEPT ![q] = l]
        /\ UNCHANGED suspended
    BY <1>3 DEF WorkStep, WorkTake, WorkMask, WorkDir, WorkDecide, WorkTarget,
       WorkRearm, WorkFinish, EndRun, Places
  <2>2. q # "susp"
    BY DEF Workers
  <2> QED  BY <1>0, <1>1, <2>1, <2>2
<1>4. CASE GovActs
  <2>1. /\ \E l \in Places : pc' = [pc EXCEPT !["gov"] = l]
        /\ UNCHANGED suspended
    BY <1>4 DEF GovActs, GovStart, GovStop, GovStep, GovLimits, GovStartIdeal,
       GovStartHook, GovStartCheck, GovStartArm, GovCheck, GovArm, GovIdeal,
       GovClamp, GovTarget, GovLimitsCheck, GovLimitsArm, GovStopTimer,
       GovStopFlush, GovStopUnhook, Places
  <2> QED  BY <1>0, <1>1, <2>1
<1>5. ~(EarlySuspend \/ LateResume \/ SuspStep)
  BY <1>1 DEF EarlySuspend, LateResume, SuspStep, CalcIdeal, SuspIdeal,
     SuspTarget, SuspReset, SuspArm, At
<1>6. CASE \/ \E v \in AwakeIdeals : StoreAwake(v)
           \/ \E v \in SleepIdeals : StoreSleep(v)
           \/ StoreStep
  <2>1. /\ \E l \in Places : pc' = [pc EXCEPT !["store"] = l]
        /\ UNCHANGED suspended
    BY <1>6 DEF StoreAwake, StoreSleep, StoreStep, CalcIdeal, StoreIdeal, Places
  <2> QED  BY <1>0, <1>1, <2>1
<1> QED  BY <1>2, <1>3, <1>4, <1>5, <1>6 DEF Next, GovActs

(* The steps of the callback keep its count, its hook and its phases.      *)
LEMMA CallbackPhases ==
  ASSUME "suspend" \notin Ops, TypeOK, StopInv, GovActs
  PROVE  HookInv' /\ PhaseInv'
<1> USE DEF freq, tunables, work, flush, hooks, tick, target,
            Goto, Keep, Step, Done, At
<1>0. pc \in [Threads -> Places] /\ "gov" \in Threads
  BY DEF TypeOK, ThreadTypes, Threads
<1>1. ~suspended' /\ pc'["susp"] = "rest"
  BY NoSuspend DEF GovActs, Next, StopInv
<1>2. active_count \in Int /\ ~idle
  BY DEF TypeOK, HookTypes, GovActs, GovStart, GovStop, GovStep, GovLimits,
     GovStartIdeal, GovStartHook, GovStartCheck, GovStartArm, GovCheck, GovArm,
     GovIdeal, GovClamp, GovTarget, GovLimitsCheck, GovLimitsArm,
     GovStopTimer, GovStopFlush, GovStopUnhook
<1>3. ~idle'
  BY <1>2 DEF GovActs, GovStart, GovStop, GovStep, GovLimits,
     GovStartIdeal, GovStartHook, GovStartCheck, GovStartArm, GovCheck, GovArm,
     GovIdeal, GovClamp, GovTarget, GovLimitsCheck, GovLimitsArm,
     GovStopTimer, GovStopFlush, GovStopUnhook, ModTimer, SetIdeal
<1> USE <1>0, <1>1, <1>2, <1>3 DEF StopInv, HookInv, PhaseInv, Counted, Starting
<1>4. CASE GovStart \/ GovStartIdeal
  <2>1. /\ pc["gov"] \in {"rest", "start_ideal"} /\ ~started
        /\ pc'["gov"] \in {"start_ideal", "start_hook"}
        /\ UNCHANGED <<hooks, started>>
    BY <1>4 DEF GovStart, GovStartIdeal, SetIdeal
  <2> QED  BY <2>1
<1>5. CASE GovStartHook
  <2>1. ~started /\ started' = started /\ pc["gov"] = "start_hook"
    BY <1>5 DEF GovStartHook
  <2>2. active_count \in 0 .. 1 /\ active_count' = active_count + 1
        /\ pm_idle # "boosted"
    BY <1>5, <2>1 DEF GovStartHook
  <2>3. \/ /\ pc'["gov"] = "start_check"
           /\ pm_idle_old' \in {pm_idle_old, pm_idle}
        \/ /\ pc'["gov"] = "rest" /\ active_count = 0
           /\ UNCHANGED <<pm_idle, pm_idle_old>>
    BY <1>5 DEF GovStartHook
  <2> QED  BY <2>1, <2>2, <2>3
<1>6. CASE GovStartCheck
  <2>1. /\ pc["gov"] = "start_check" /\ started' = TRUE
        /\ pc'["gov"] \in {"start_arm", "limits"}
        /\ UNCHANGED <<hooks, enable>>
    BY <1>6 DEF GovStartCheck, GovCheck
  <2> QED  BY <2>1
<1>7. CASE \/ GovStartArm \/ GovIdeal \/ GovClamp \/ GovTarget
           \/ GovLimitsCheck \/ GovLimitsArm \/ \E p \in Policies : GovLimits(p)
  <2>1. /\ pc'["gov"] \in {"limits", "ideal", "clamp", "target", "check",
                            "arm", "rest"}
        /\ UNCHANGED <<hooks, enable, started>>
        /\ started
    BY <1>7 DEF GovStartArm, GovIdeal, GovClamp, GovTarget, GovLimitsCheck,
       GovLimitsArm, GovLimits, GovCheck, GovArm, ModTimer, SetIdeal
  <2> QED  BY <2>1
<1>8. CASE GovStop
  <2>1. /\ started /\ enable' = FALSE /\ pc'["gov"] = "stop"
        /\ UNCHANGED <<hooks, started>>
    BY <1>8 DEF GovStop
  <2> QED  BY <2>1
<1>9. CASE GovStopTimer \/ GovStopFlush
  <2>1. /\ pc["gov"] \in {"stop", "flush"} /\ pc'["gov"] \in {"flush", "unhook"}
        /\ UNCHANGED <<hooks, enable, started>>
    BY <1>9 DEF GovStopTimer, GovStopFlush
  <2> QED  BY <2>1
<1>10. CASE GovStopUnhook
  <2>1. pc["gov"] = "unhook" /\ started
    BY <1>10 DEF GovStopUnhook
  <2>2. /\ active_count \in 1 .. 2 /\ active_count' = active_count - 1
        /\ pm_idle' = pm_idle_old /\ pm_idle_old' = pm_idle_old
        /\ started' = FALSE /\ pc'["gov"] = "rest"
    BY <1>10, <2>1 DEF GovStopUnhook
  <2> QED  BY <2>2
<1> QED  BY <1>4, <1>5, <1>6, <1>7, <1>8, <1>9, <1>10 DEF GovActs, GovStep

(* Nor does anything else disturb them: the idle loop runs the hook of a   *)
(* started, enabled governor only.                                         *)
LEMMA PhasesKept ==
  ASSUME "suspend" \notin Ops, TypeOK, StopInv, [Next]_vars
  PROVE  HookInv' /\ PhaseInv'
<1>1. ~suspended' /\ pc'["susp"] = "rest"
  BY NoSuspend DEF StopInv
<1>2. CASE GovActs
  BY <1>2, CallbackPhases
<1>3. ASSUME ~GovActs
      PROVE  HookInv' /\ PhaseInv'
  <2>1. pc'["gov"] = pc["gov"] /\ UNCHANGED <<hooks, started, enable>>
    BY <1>3, CallbackStays
  <2>2. idle' => idle \/ IdleEnter
    BY <1>3 DEF Next, GovActs, TimerStep, Timer, TimerStopped, IdleExit,
       WorkStep, WorkTake, WorkMask, WorkDir, WorkDecide, WorkTarget,
       WorkRearm, WorkFinish, OtherGovernor, EarlySuspend, LateResume,
       SuspStep, CalcIdeal, SuspIdeal, SuspTarget, SuspReset, SuspArm,
       StoreAwake, StoreSleep, StoreStep, StoreIdeal, Step, Done, vars
  <2>3. CASE IdleEnter
    <3>1. pm_idle = "boosted" /\ enable /\ pc["gov"] # "start_check"
      BY <2>3 DEF IdleEnter, Asleep, Threads
    <3>2. started
      BY <3>1 DEF StopInv, HookInv, Counted
    <3> QED  BY <1>1, <2>1, <3>1, <3>2 DEF StopInv, HookInv, PhaseInv, Counted,
                Starting, hooks
  <2>4. CASE idle' => idle
    BY <1>1, <2>1, <2>4 DEF StopInv, HookInv, PhaseInv, Counted, Starting, hooks
  <2> QED  BY <2>2, <2>3, <2>4
<1> QED  BY <1>2, <1>3

(* Who leaves the work, the timer, the sample and the callback alone.      *)
LEMMA StopLeftAlone ==
  ASSUME FlushInv, StoppedInv, pc'["gov"] = pc["gov"], started' = started,
         UNCHANGED <<pending, last, flush_on, flush_left>>,
         \A q \in Workers : pc'[q] = pc[q],
         timer' => timer, idle_exit' => idle_exit,
         "gov" \in waits => "gov" \in waits'
  PROVE  FlushInv' /\ StoppedInv'
<1>1. \A q \in Workers : Work(q)' = Work(q)
  BY DEF Work
<1> QED  BY <1>1 DEF FlushInv, StoppedInv

(* The work ends once, while STOP waits for it.                            *)
LEMMA WorkStops ==
  ASSUME "late" \notin Ops, TypeOK, StopInv, NEW q \in Workers, WorkStep(q)
  PROVE  FlushInv' /\ StoppedInv'
<1> USE DEF freq, tunables, work, flush, hooks, tick, target,
            Goto, Keep, Step, Done
<1>0. /\ pc \in [Threads -> Places] /\ Workers \subseteq Threads
      /\ "gov" \in Threads /\ "gov" \notin Workers /\ "none" \notin Workers
      /\ pending \in Workers \cup {"none"} /\ flush_left \in Nat
  BY DEF TypeOK, ThreadTypes, WorkTypes, Threads, Workers
<1>1. Work(q) /\ last = q
  <2>1. Work(q)
    BY DEF Work, At, WorkStep, WorkTake, WorkMask, WorkDir, WorkDecide,
       WorkTarget, WorkRearm, WorkFinish
  <2> QED  BY <2>1 DEF StopInv, OneWork
<1>2. started /\ pc["gov"] # "unhook"
  BY <1>1 DEF StopInv, StoppedInv
<1>3. /\ \E l \in Places : pc' = [pc EXCEPT ![q] = l]
      /\ UNCHANGED <<started, last, flush_on>>
  BY DEF WorkStep, WorkTake, WorkMask, WorkDir, WorkDecide, WorkTarget,
     WorkRearm, WorkFinish, ModTimer, EndRun, Places
<1>4. pc'["gov"] = pc["gov"]
  BY <1>0, <1>3
<1>5. StoppedInv'
  BY <1>2, <1>3, <1>4 DEF StoppedInv
<1>6. \A r \in Workers : r # q => ~Work(r)
  BY <1>1 DEF StopInv, OneWork
<1>7. \A r \in Workers : r # q => ~Work(r)'
  <2>1. pending' \in {pending, "none"}
    BY DEF WorkStep, WorkTake, WorkMask, WorkDir, WorkDecide, WorkTarget,
       WorkRearm, WorkFinish
  <2> QED  BY <1>0, <1>3, <1>6, <2>1 DEF Work
<1>8. pc["gov"] \in {"flush", "unhook"} /\ timer' => "gov" \in waits'
  <2>1. CASE timer' = timer /\ waits' \in {waits, waits \ {q}}
    BY <1>0, <2>1 DEF StopInv, FlushInv
  <2>2. CASE waits' = Outlasted(pc') \/ ~timer'
    <3>1. waits' = Outlasted(pc') /\ pc["gov"] # "rest" => "gov" \in waits'
      BY <1>0, <1>4 DEF Outlasted
    <3> QED  BY <2>2, <3>1
  <2>3. \/ timer' = timer /\ waits' \in {waits, waits \ {q}}
        \/ waits' = Outlasted(pc') \/ ~timer'
    BY DEF WorkStep, WorkTake, WorkMask, WorkDir, WorkDecide, WorkTarget,
       WorkRearm, WorkFinish, ModTimer
  <2> QED  BY <2>1, <2>2, <2>3
<1>9. pc["gov"] = "flush" =>
        /\ flush_on' = last'
        /\ flush_left' = IF \E r \in Workers : Work(r)' THEN 1 ELSE 0
  <2> SUFFICES ASSUME pc["gov"] = "flush"
               PROVE  /\ flush_on' = last'
                      /\ flush_left' = IF \E r \in Workers : Work(r)' THEN 1 ELSE 0
    OBVIOUS
  <2>1. flush_on = q /\ flush_left = 1
    BY <1>1 DEF StopInv, FlushInv
  <2>2. CASE Work(q)'
    <3>1. flush_left' = flush_left
      <4>1. CASE WorkTake(q)
        BY <4>1 DEF WorkTake
      <4>2. CASE pc'[q] # "rest"
        BY <1>0, <4>2 DEF WorkStep, WorkTake, WorkMask, WorkDir, WorkDecide,
           WorkTarget, WorkRearm, WorkFinish, ModTimer
      <4>3. CASE ~WorkTake(q) /\ pc'[q] = "rest"
        <5>1. pending' = pending /\ pc[q] # "rest"
          BY <4>3 DEF WorkStep, WorkMask, WorkDir, WorkDecide, WorkTarget,
             WorkRearm, WorkFinish, At
        <5>2. pending = "none"
          BY <1>0, <5>1 DEF StopInv, OneWork
        <5> QED  BY <1>0, <2>2, <4>3, <5>1, <5>2 DEF Work
      <4> QED  BY <4>1, <4>2, <4>3
    <3> QED  BY <1>1, <1>3, <2>1, <2>2, <3>1
  <2>3. CASE ~Work(q)'
    <3>1. pc'[q] = "rest" /\ ~WorkTake(q)
      BY <1>0, <2>3 DEF Work, WorkTake
    <3>2. EndRun(q)
      BY <1>0, <3>1 DEF WorkStep, WorkMask, WorkDir, WorkDecide,
         WorkTarget, WorkRearm, WorkFinish, ModTimer
    <3>3. flush_left' = 0
      BY <2>1, <3>2 DEF EndRun
    <3>4. \A r \in Workers : ~Work(r)'
      BY <1>7, <2>3
    <3> QED  BY <1>1, <1>3, <2>1, <3>3, <3>4
  <2> QED  BY <2>2, <2>3
<1>10. FlushInv'
  BY <1>4, <1>8, <1>9 DEF FlushInv
<1> QED  BY <1>5, <1>10

(* STOP waits for the one run there may be.                                *)
LEMMA FlushStarts ==
  ASSUME TypeOK, StopInv, GovStopTimer
  PROVE  FlushInv' /\ StoppedInv'
<1> USE DEF freq, work, hooks, tick, flush, Goto, Step
<1>0. /\ pc \in [Threads -> Places] /\ "gov" \in Threads /\ Workers \subseteq Threads
      /\ "gov" \notin Workers /\ "none" \notin Workers
      /\ pending \in Workers \cup {"none"}
  BY DEF TypeOK, ThreadTypes, WorkTypes, Threads, Workers
<1>1. /\ pc' = [pc EXCEPT !["gov"] = "flush"] /\ UNCHANGED <<pending, last>>
      /\ ~timer' /\ started' = started /\ flush_on' = last /\ pc["gov"] = "stop"
      /\ flush_left' = (IF last \in Workers /\ pc[last] # "rest" THEN 1 ELSE 0)
                       + (IF pending = "none" THEN 0 ELSE 1)
  BY FlushCount DEF GovStopTimer, At
<1>2. started
  BY <1>1 DEF StopInv, PhaseInv, Starting
<1>3. pc'["gov"] = "flush" /\ \A q \in Workers : pc'[q] = pc[q]
  BY <1>0, <1>1
<1>4. \A q \in Workers : Work(q)' = Work(q)
  BY <1>1, <1>3 DEF Work
<1>5. flush_left' = IF \E q \in Workers : Work(q) THEN 1 ELSE 0
  <2>1. CASE pending # "none"
    <3>1. \A q \in Workers : pc[q] = "rest"
      BY <2>1 DEF StopInv, OneWork
    <3> QED  BY <1>0, <1>1, <2>1, <3>1 DEF Work
  <2>2. CASE pending = "none" /\ \E q \in Workers : pc[q] # "rest"
    <3>1. PICK q \in Workers : pc[q] # "rest"
      BY <2>2
    <3>2. last = q
      BY <3>1 DEF StopInv, OneWork, Work
    <3> QED  BY <1>1, <2>2, <3>1, <3>2 DEF Work
  <2>3. CASE pending = "none" /\ \A q \in Workers : pc[q] = "rest"
    <3>1. \A q \in Workers : ~Work(q)
      BY <1>0, <2>3 DEF Work
    <3>2. flush_left' = 0
      BY <1>1, <2>3
    <3> QED  BY <3>1, <3>2
  <2> QED  BY <2>1, <2>2, <2>3
<1> QED  BY <1>1, <1>2, <1>3, <1>4, <1>5 DEF FlushInv, StoppedInv

(* The other steps of the callback: the wait is over when the work is.     *)
LEMMA CallbackStops ==
  ASSUME TypeOK, StopInv, GovActs, ~GovStopTimer
  PROVE  FlushInv' /\ StoppedInv'
<1> USE DEF freq, tunables, work, flush, hooks, tick, target,
            Goto, Keep, Step, Done, At
<1>0. /\ pc \in [Threads -> Places] /\ "gov" \in Threads
      /\ "gov" \notin Workers
  BY DEF TypeOK, ThreadTypes, Threads, Workers
<1>1. UNCHANGED <<pending, last>> /\ \A q \in Workers : pc'[q] = pc[q]
  <2>1. /\ UNCHANGED <<pending, last>>
        /\ \E l \in Places : pc' = [pc EXCEPT !["gov"] = l]
    BY DEF GovActs, GovStart, GovStop, GovStep, GovLimits, GovStartIdeal,
       GovStartHook, GovStartCheck, GovStartArm, GovCheck, GovArm, GovIdeal,
       GovClamp, GovTarget, GovLimitsCheck, GovLimitsArm, GovStopTimer,
       GovStopFlush, GovStopUnhook, ModTimer, SetIdeal, Places
  <2> QED  BY <1>0, <2>1
<1>2. \A q \in Workers : Work(q)' = Work(q)
  BY <1>1 DEF Work
<1>3. CASE GovStart \/ GovStartIdeal \/ GovStartHook
  <2>1. /\ ~started' /\ ~started
        /\ pc'["gov"] \notin {"flush", "unhook"} /\ idle_exit' = idle_exit
    BY <1>0, <1>3 DEF GovStart, GovStartIdeal, GovStartHook, SetIdeal, StopInv,
       PhaseInv
  <2> QED  BY <1>2, <2>1 DEF StopInv, FlushInv, StoppedInv
<1>4. CASE \/ GovStartCheck \/ GovStartArm \/ GovIdeal \/ GovClamp
           \/ GovTarget \/ GovLimitsCheck \/ GovLimitsArm \/ GovStop
           \/ \E p \in Policies : GovLimits(p)
  <2>1. started' /\ pc'["gov"] \notin {"flush", "unhook"}
    BY <1>0, <1>4 DEF GovStartCheck, GovStartArm, GovIdeal, GovClamp, GovTarget,
       GovLimitsCheck, GovLimitsArm, GovLimits, GovStop, GovCheck, GovArm,
       ModTimer, SetIdeal, StopInv, PhaseInv, Starting
  <2> QED  BY <2>1 DEF FlushInv, StoppedInv
<1>5. CASE GovStopFlush
  <2>1. /\ pc["gov"] = "flush" /\ flush_left = 0 /\ pc'["gov"] = "unhook"
        /\ idle_exit' = FALSE /\ timer' = timer /\ waits' = waits
    BY <1>0, <1>5 DEF GovStopFlush, ForgetSample
  <2>2. \A q \in Workers : ~Work(q)
    BY <2>1 DEF StopInv, FlushInv
  <2> QED  BY <1>2, <2>1, <2>2 DEF StopInv, FlushInv, StoppedInv
<1>6. CASE GovStopUnhook
  <2>1. pc["gov"] = "unhook" /\ pc'["gov"] = "rest" /\ idle_exit' = idle_exit
    BY <1>0, <1>6 DEF GovStopUnhook
  <2> QED  BY <1>2, <2>1 DEF StopInv, FlushInv, StoppedInv
<1> QED  BY <1>3, <1>4, <1>5, <1>6 DEF GovActs, GovStep

(* Sampling and idling leave a stopped governor stopped.                   *)
LEMMA TicksStop ==
  ASSUME TypeOK, StopInv, TimerStep \/ IdleEnter \/ IdleExit
  PROVE  FlushInv' /\ StoppedInv'
<1> USE DEF freq, tunables, work, flush, hooks, tick, target
<1>1. ASSUME NEW load \in Loads, NEW long \in BOOLEAN, Timer(load, long)
      PROVE  FlushInv' /\ StoppedInv'
  <2>1. /\ timer /\ idle_exit /\ waits = {}
        /\ UNCHANGED <<pc, started>>
    BY <1>1 DEF Timer
  <2>2. started /\ pc["gov"] \notin {"flush", "unhook"}
    BY <2>1 DEF StopInv, FlushInv, StoppedInv
  <2> QED  BY <2>1, <2>2 DEF FlushInv, StoppedInv
<1>2. CASE TimerStopped \/ IdleEnter
  <2>1. /\ timer' => timer
        /\ UNCHANGED <<pc, started, pending, last, flush, idle_exit, waits>>
    BY <1>2 DEF TimerStopped, IdleEnter
  <2> QED  BY <2>1, StopLeftAlone DEF StopInv
<1>3. CASE IdleExit
  <2>1. idle /\ UNCHANGED <<pc, started>>
    BY <1>3 DEF IdleExit
  <2>2. started /\ pc["gov"] \notin {"stop", "flush", "unhook"}
    BY <2>1 DEF StopInv, HookInv, PhaseInv
  <2> QED  BY <2>1, <2>2 DEF FlushInv, StoppedInv
<1> QED  BY <1>1, <1>2, <1>3 DEF TimerStep

(* Without early suspend and without handlers that outlast a sampling      *)
(* period, STOP leaves nothing of the governor behind.                     *)
LEMMA StopInvStep ==
  ASSUME "suspend" \notin Ops, "late" \notin Ops, TypeOK, StopInv, [Next]_vars
  PROVE  StopInv'
<1> USE DEF freq, tunables, work, flush, hooks, tick, target,
            Goto, Keep, Step, Done
<1>0. /\ pc \in [Threads -> Places] /\ "store" \in Threads /\ "gov" # "store"
      /\ "store" \notin Workers
  BY DEF TypeOK, ThreadTypes, Threads, Workers
<1>1. OneWork' /\ HookInv' /\ PhaseInv'
  BY OneWorkStep, PhasesKept DEF StopInv
<1> SUFFICES FlushInv' /\ StoppedInv'
  BY <1>1 DEF StopInv
<1>2. CASE TimerStep \/ IdleEnter \/ IdleExit
  BY <1>2, TicksStop
<1>3. CASE \E q \in Workers : WorkStep(q)
  BY <1>3, WorkStops
<1>4. CASE GovActs
  BY <1>4, FlushStarts, CallbackStops
<1>5. CASE (\E f \in Table : OtherGovernor(f)) \/ UNCHANGED vars
  <2>1. UNCHANGED <<pc, started, pending, last, flush, tick, waits>>
    BY <1>5 DEF OtherGovernor, vars
  <2> QED  BY <2>1, StopLeftAlone DEF StopInv
<1>6. ~(EarlySuspend \/ LateResume \/ SuspStep)
  BY DEF EarlySuspend, LateResume, SuspStep, CalcIdeal, SuspIdeal,
     SuspTarget, SuspReset, SuspArm, At, StopInv, PhaseInv
<1>7. CASE \/ \E v \in AwakeIdeals : StoreAwake(v)
           \/ \E v \in SleepIdeals : StoreSleep(v)
           \/ StoreStep
  <2>1. /\ \E l \in Places : pc' = [pc EXCEPT !["store"] = l]
        /\ UNCHANGED <<pending, last, flush, timer, idle_exit, started>>
        /\ waits' \in {waits, waits \ {"store"}}
    BY <1>7 DEF StoreAwake, StoreSleep, StoreStep, CalcIdeal, StoreIdeal,
       SetIdeal, Places
  <2>2. pc'["gov"] = pc["gov"] /\ \A q \in Workers : pc'[q] = pc[q]
    BY <1>0, <2>1 DEF Threads, Workers
  <2> QED  BY <1>0, <2>1, <2>2, StopLeftAlone DEF StopInv
<1> QED  BY <1>2, <1>3, <1>4, <1>5, <1>6, <1>7 DEF Next, GovActs

(* When STOP has returned, no work is pending or in progress, and no timer *)
(* is left that would do more than expire, whatever the timer, the work,   *)
(* the idle loop and the writers were doing when it began: provided there  *)
(* is no early suspend, whose handlers arm the timer at any time, and      *)
(* every handler ends within a sampling period.                            *)
THEOREM StopIsFinal ==
  ASSUME "suspend" \notin Ops, "late" \notin Ops
  PROVE  Spec => []StoppedForGood
<1>1. Init => StopInv
  <2> SUFFICES ASSUME Init  PROVE StopInv
    OBVIOUS
  <2>1. \A t \in Threads : pc[t] = "rest"
    BY DEF Init
  <2>2. "gov" \in Threads /\ "susp" \in Threads /\ Workers \subseteq Threads
        /\ "none" \notin Workers
    BY DEF Threads, Workers
  <2>3. \A q \in Workers : ~Work(q)
    BY <2>1, <2>2 DEF Init, Work
  <2>4. OneWork
    BY <2>3 DEF Init, OneWork
  <2>5. HookInv
    BY <2>1, <2>2 DEF Init, HookInv, Counted
  <2>6. PhaseInv /\ FlushInv /\ StoppedInv
    BY <2>1, <2>2, <2>3 DEF Init, PhaseInv, FlushInv, StoppedInv, Starting
  <2> QED  BY <2>4, <2>5, <2>6 DEF StopInv
<1>2. TypeOK /\ StopInv /\ [Next]_vars => StopInv'
  BY StopInvStep
<1>3. TypeOK /\ StopInv => StoppedForGood
  <2> SUFFICES ASSUME TypeOK, StopInv, ~started
               PROVE  /\ pending = "none"
                      /\ \A q \in Workers : pc[q] = "rest"
                      /\ ~(timer /\ idle_exit)
    BY DEF StoppedForGood
  <2>1. ~idle_exit /\ \A q \in Workers : ~Work(q)
    BY DEF StopInv, StoppedInv
  <2>2. pending \in Workers \cup {"none"}
    BY DEF TypeOK, WorkTypes
  <2> QED  BY <2>1, <2>2 DEF Work
<1> QED  BY TypeCorrect, <1>1, <1>2, <1>3, PTL DEF Spec

=============================================================================
