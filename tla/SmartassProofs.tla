--------------------------- MODULE SmartassProofs ---------------------------
(***************************************************************************)
(* Proofs about the smartass governor of Smartass, for every frequency     *)
(* table, every policy, every setting and every load.                      *)
(***************************************************************************)
EXTENDS Smartass, CpufreqTableProofs, FiniteSetTheorems

-----------------------------------------------------------------------------
(* The limits are those of one of the policies.                            *)
PolicyOK == \E p \in Policies : pmin = p[1] /\ pmax = p[2]

FreqTypes == cur \in Table /\ PolicyOK /\ min_speed \in Nat /\ max_speed \in Nat
FlagTypes ==
  /\ enable \in BOOLEAN /\ suspended \in BOOLEAN /\ timer \in BOOLEAN
  /\ force_ramp_up \in BOOLEAN /\ mask \in BOOLEAN /\ arg \in BOOLEAN
DataTypes ==
  /\ tuned \in [Settings -> 0 .. Word - 1]
  /\ load \in 0 .. 100 /\ cur_cpu_load \in 0 .. 100
  /\ run \in [Workers -> Nat]
PlaceTypes ==
  /\ pending \in Workers \cup {"no"}
  /\ active_count \in Int
  /\ pm_idle \in {"platform", "smartass", "null"}
  /\ pm_idle_old \in {"platform", "smartass", "null"}
  /\ event \in {"none", "limits", "update", "target", "remove"}
  /\ handler \in {"none", "decide", "apply"}
  /\ mode \in Modes

TypeOK == FreqTypes /\ FlagTypes /\ DataTypes /\ PlaceTypes

-----------------------------------------------------------------------------
(* The limits are frequencies of the table, and so numbers that fit.       *)
LEMMA PolicyTypes ==
  ASSUME PolicyOK
  PROVE  /\ Table \in SUBSET Nat /\ Table # {}
         /\ pmin \in Table /\ pmax \in Table /\ pmin <= pmax
         /\ pmin \in Nat /\ pmax \in Nat
<1>1. PICK p \in Policies : pmin = p[1] /\ pmax = p[2]
  BY DEF PolicyOK
<1>2. p \in Table \X Table /\ p[1] <= p[2]
  BY SmartassAssumption
<1>3. Table \in SUBSET Nat
  BY TableAssumption
<1>4. pmin \in Table /\ pmax \in Table /\ pmin <= pmax
  BY <1>1, <1>2
<1> QED  BY <1>3, <1>4

(* Every setting is an unsigned int.                                       *)
LEMMA SettingTypes ==
  ASSUME DataTypes, NEW s \in Settings
  PROVE  tuned[s] \in Nat
<1>1. tuned[s] \in 0 .. Word - 1
  BY DEF DataTypes
<1>2. Word \in Nat
  BY SmartassAssumption
<1> QED  BY <1>1, <1>2

(* smartass_update_min_max computes speeds within the limits.              *)
LEMMA SpeedTypes ==
  ASSUME PolicyOK, DataTypes
  PROVE  /\ SleepMax \in Nat /\ pmin <= SleepMax /\ SleepMax <= pmax
         /\ AwakeMin \in Nat /\ pmin <= AwakeMin /\ AwakeMin <= pmax
<1>1. tuned["sleep_max_freq"] \in Nat /\ tuned["awake_min_freq"] \in Nat
  BY SettingTypes DEF Settings
<1>2. pmin \in Nat /\ pmax \in Nat /\ pmin <= pmax
  BY PolicyTypes
<1> QED  BY <1>1, <1>2 DEF SleepMax, AwakeMin

(* validate_freq holds a frequency between the speeds.                     *)
LEMMA ValidTypes ==
  ASSUME FreqTypes, NEW f \in Int
  PROVE  /\ ValidFreq(f) \in Nat
         /\ min_speed <= max_speed =>
              min_speed <= ValidFreq(f) /\ ValidFreq(f) <= max_speed
BY DEF FreqTypes, ValidFreq

(* The driver sets frequencies of the table.                               *)
LEMMA DriverTypes ==
  ASSUME PolicyOK, NEW f \in Nat, NEW relation \in {"H", "L"}
  PROVE  DriverFreq(f, relation) \in Table
<1>1. Table \in SUBSET Nat /\ Table # {}
  BY PolicyTypes
<1> QED  BY <1>1, PickProperties DEF DriverFreq

(* The work asks for a number.                                             *)
LEMMA NewFreqTypes ==
  ASSUME FreqTypes, DataTypes, NEW force
  PROVE  NewFreq(force) \in Int
<1>1. /\ cur \in Int /\ max_speed \in Int /\ cur_cpu_load \in Int
      /\ tuned["max_ramp_down"] \in Int /\ tuned["max_cpu_load"] \in Int
      /\ tuned["ramp_up_step"] \in Int /\ tuned["up_min_freq"] \in Int
  BY SettingTypes, TableAssumption DEF FreqTypes, DataTypes, Settings
<1>2. Word \in Nat /\ Word > 0
  <2>1. Word \in Nat /\ cur < Word
    BY SmartassAssumption DEF FreqTypes
  <2>2. cur \in Nat
    BY TableAssumption DEF FreqTypes
  <2> QED  BY <2>1, <2>2
<1>3. /\ (cur - tuned["max_ramp_down"]) % Word \in Int
      /\ (cur + tuned["ramp_up_step"]) % Word \in Int
  <2>1. \A x \in Int : x % Word \in Int
    BY <1>2
  <2> QED  BY <1>1, <2>1
<1>4. (cur * (cur_cpu_load + 100 - tuned["max_cpu_load"])) \div 100 \in Int
  <2>1. cur_cpu_load + 100 - tuned["max_cpu_load"] \in Int
    BY <1>1
  <2>2. cur * (cur_cpu_load + 100 - tuned["max_cpu_load"]) \in Int
    BY <1>1, <2>1
  <2>3. \A x \in Int : x \div 100 \in Int
    OBVIOUS
  <2> QED  BY <2>2, <2>3
<1>5. RampDown \in Int
  BY <1>3, <1>4 DEF RampDown
<1> QED  BY <1>1, <1>3, <1>5 DEF NewFreq

(* The module starts in these types, with the defaults.                    *)
LEMMA InitTypes == Init => TypeOK
<1> SUFFICES ASSUME Init  PROVE TypeOK
  OBVIOUS
<1>1. FreqTypes
  <2>1. PolicyOK /\ cur \in Table
    BY DEF Init, PolicyOK
  <2>2. min_speed = Defaults["awake_min_freq"] /\ max_speed = Defaults["sleep_wakeup_freq"]
    BY DEF Init
  <2>3. Defaults["awake_min_freq"] \in Nat /\ Defaults["sleep_wakeup_freq"] \in Nat
    BY SmartassAssumption DEF Settings
  <2> QED  BY <2>1, <2>2, <2>3 DEF FreqTypes
<1>2. FlagTypes
  BY DEF Init, FlagTypes
<1>3. DataTypes
  BY SmartassAssumption DEF Init, DataTypes
<1>4. PlaceTypes
  BY DEF Init, PlaceTypes
<1> QED  BY <1>1, <1>2, <1>3, <1>4 DEF TypeOK

(* The timer and the idle thread.                                          *)
LEMMA MeasuringTypes ==
  ASSUME TypeOK, Measuring
  PROVE  TypeOK'
<1> USE DEF TypeOK, policy, speeds, works, hooks, core
<1>1. CASE Demand
  <2>1. load' \in 0 .. 100
    BY <1>1, SmartassAssumption DEF Demand
  <2>2. FreqTypes'
    BY <1>1 DEF Demand, FreqTypes, PolicyOK
  <2>3. FlagTypes'
    BY <1>1 DEF Demand, FlagTypes
  <2>4. DataTypes'
    BY <1>1, <2>1 DEF Demand, DataTypes
  <2>5. PlaceTypes'
    BY <1>1 DEF Demand, PlaceTypes
  <2> QED  BY <2>2, <2>3, <2>4, <2>5
<1>2. CASE TimerEarly
  <2>1. FreqTypes'
    BY <1>2 DEF TimerEarly, FreqTypes, PolicyOK
  <2>2. FlagTypes'
    BY <1>2 DEF TimerEarly, FlagTypes
  <2>3. DataTypes'
    BY <1>2 DEF TimerEarly, DataTypes
  <2>4. PlaceTypes'
    BY <1>2 DEF TimerEarly, PlaceTypes
  <2> QED  BY <2>1, <2>2, <2>3, <2>4
<1>3. CASE TimerMeasures
  <2>1. /\ UNCHANGED <<policy, enable, speeds, suspended, tuned, load, run, hooks, core,
                       handler, mode>>
        /\ cur_cpu_load' = load
    BY <1>3 DEF TimerMeasures
  <2>2. timer' \in BOOLEAN /\ force_ramp_up' \in BOOLEAN /\ mask' \in BOOLEAN
    <3>1. timer' \in {FALSE, cur < max_speed}
      BY <1>3 DEF TimerMeasures
    <3>2. (cur < max_speed) \in BOOLEAN
      OBVIOUS
    <3>3. force_ramp_up' \in {TRUE, force_ramp_up}
      BY <1>3 DEF TimerMeasures
    <3>4. mask' \in {TRUE, mask}
      BY <1>3 DEF TimerMeasures, QueueWork
    <3> QED  BY <3>1, <3>2, <3>3, <3>4 DEF FlagTypes
  <2>3. pending' \in Workers \cup {"no"}
    BY <1>3 DEF TimerMeasures, QueueWork, Workers, PlaceTypes
  <2>4. FreqTypes'
    BY <1>3, <2>1, <2>2, <2>3 DEF TimerMeasures, FreqTypes, PolicyOK
  <2>5. FlagTypes'
    BY <1>3, <2>1, <2>2, <2>3 DEF TimerMeasures, FlagTypes
  <2>6. DataTypes'
    BY <1>3, <2>1, <2>2, <2>3 DEF TimerMeasures, DataTypes
  <2>7. PlaceTypes'
    BY <1>3, <2>1, <2>2, <2>3 DEF TimerMeasures, PlaceTypes
  <2> QED  BY <2>4, <2>5, <2>6, <2>7
<1>4. CASE Idle
  <2>1. FreqTypes'
    BY <1>4 DEF Idle, FreqTypes, PolicyOK
  <2>2. FlagTypes'
    BY <1>4 DEF Idle, FlagTypes
  <2>3. DataTypes'
    BY <1>4 DEF Idle, DataTypes
  <2>4. PlaceTypes'
    BY <1>4 DEF Idle, PlaceTypes
  <2> QED  BY <2>1, <2>2, <2>3, <2>4
<1> QED  BY <1>1, <1>2, <1>3, <1>4 DEF Measuring

(* The work, on either queue.                                              *)
LEMMA WorkingTypes ==
  ASSUME TypeOK, Working
  PROVE  TypeOK'
<1> USE DEF TypeOK, policy, speeds, works, hooks, core
<1>1. ASSUME NEW w \in Workers, WorkBegins(w)
      PROVE  TypeOK'
  <2>1. run' \in [Workers -> Nat] /\ force_ramp_up' \in BOOLEAN
    <3>1. CASE mask
      <4>1. PICK many \in BOOLEAN :
              run' = [run EXCEPT ![w] = ValidFreq(NewFreq(force_ramp_up /\ many))]
        BY <1>1, <3>1 DEF WorkBegins
      <4>2. ValidFreq(NewFreq(force_ramp_up /\ many)) \in Nat
        BY NewFreqTypes, ValidTypes
      <4>3. force_ramp_up' = FALSE
        BY <1>1, <3>1 DEF WorkBegins
      <4> QED  BY <4>1, <4>2, <4>3 DEF DataTypes
    <3>2. CASE ~mask
      BY <1>1, <3>2 DEF WorkBegins, DataTypes, FlagTypes
    <3> QED  BY <3>1, <3>2
  <2>2. FreqTypes'
    BY <1>1 DEF WorkBegins, FreqTypes, PolicyOK
  <2>3. FlagTypes'
    BY <1>1, <2>1 DEF WorkBegins, FlagTypes
  <2>4. DataTypes'
    BY <1>1, <2>1 DEF WorkBegins, DataTypes
  <2>5. PlaceTypes'
    BY <1>1 DEF WorkBegins, PlaceTypes
  <2> QED  BY <2>2, <2>3, <2>4, <2>5
<1>2. ASSUME NEW w \in Workers, WorkSets(w)
      PROVE  TypeOK'
  <2>1. run[w] \in Nat
    BY DEF DataTypes
  <2>2. cur' \in Table
    BY <1>2, <2>1, DriverTypes DEF WorkSets, FreqTypes
  <2>3. FreqTypes'
    BY <1>2, <2>1, <2>2 DEF WorkSets, FreqTypes, PolicyOK
  <2>4. FlagTypes'
    BY <1>2 DEF WorkSets, FlagTypes
  <2>5. DataTypes'
    BY <1>2, <2>1, <2>2 DEF WorkSets, DataTypes
  <2>6. PlaceTypes'
    BY <1>2 DEF WorkSets, PlaceTypes
  <2> QED  BY <2>3, <2>4, <2>5, <2>6
<1> QED  BY <1>1, <1>2 DEF Working

(* The core's calls.                                                       *)
LEMMA CoreTypes ==
  ASSUME TypeOK, CoreStep \/ GovStart \/ GovStartFails \/ GovStop \/ OtherGovernor \/ SetPolicy
  PROVE  TypeOK'
<1> USE DEF TypeOK, policy, speeds, works, hooks, core
<1>1. CASE GovStopRemoves
  <2>1. FreqTypes'
    BY <1>1 DEF GovStopRemoves, FreqTypes, PolicyOK
  <2>2. FlagTypes'
    BY <1>1 DEF GovStopRemoves, FlagTypes
  <2>3. DataTypes'
    BY <1>1 DEF GovStopRemoves, DataTypes
  <2>4. PlaceTypes'
    BY <1>1 DEF GovStopRemoves, PlaceTypes, HookRestored
  <2> QED  BY <2>1, <2>2, <2>3, <2>4
<1>2. CASE LimitsArgument
  <2>1. FreqTypes'
    BY <1>2 DEF LimitsArgument, FreqTypes, PolicyOK
  <2>2. FlagTypes'
    BY <1>2 DEF LimitsArgument, FlagTypes
  <2>3. DataTypes'
    BY <1>2 DEF LimitsArgument, DataTypes
  <2>4. PlaceTypes'
    BY <1>2 DEF LimitsArgument, PlaceTypes
  <2> QED  BY <2>1, <2>2, <2>3, <2>4
<1>3. CASE LimitsUpdate
  <2>1. min_speed' \in Nat /\ max_speed' \in Nat
    BY <1>3, SpeedTypes, PolicyTypes DEF LimitsUpdate, UpdateMinMax, FreqTypes
  <2>2. FreqTypes'
    BY <1>3, <2>1 DEF LimitsUpdate, FreqTypes, PolicyOK
  <2>3. FlagTypes'
    BY <1>3 DEF LimitsUpdate, FlagTypes
  <2>4. DataTypes'
    BY <1>3 DEF LimitsUpdate, DataTypes
  <2>5. PlaceTypes'
    BY <1>3 DEF LimitsUpdate, PlaceTypes
  <2> QED  BY <2>2, <2>3, <2>4, <2>5
<1>4. CASE LimitsTarget
  <2>1. cur' \in Table
    BY <1>4, DriverTypes DEF LimitsTarget, FreqTypes
  <2>2. FreqTypes'
    BY <1>4, <2>1 DEF LimitsTarget, FreqTypes, PolicyOK
  <2>3. FlagTypes'
    BY <1>4 DEF LimitsTarget, FlagTypes
  <2>4. DataTypes'
    BY <1>4 DEF LimitsTarget, DataTypes
  <2>5. PlaceTypes'
    BY <1>4 DEF LimitsTarget, PlaceTypes
  <2> QED  BY <2>2, <2>3, <2>4, <2>5
<1>5. CASE GovStart
  <2>1. FreqTypes'
    BY <1>5 DEF GovStart, FreqTypes, PolicyOK
  <2>2. FlagTypes'
    BY <1>5 DEF GovStart, FlagTypes
  <2>3. DataTypes'
    BY <1>5 DEF GovStart, DataTypes
  <2>4. PlaceTypes'
    BY <1>5 DEF GovStart, PlaceTypes
  <2> QED  BY <2>1, <2>2, <2>3, <2>4
<1>6. CASE GovStartFails
  <2>1. FreqTypes'
    BY <1>6 DEF GovStartFails, FreqTypes, PolicyOK
  <2>2. FlagTypes'
    BY <1>6 DEF GovStartFails, FlagTypes
  <2>3. DataTypes'
    BY <1>6 DEF GovStartFails, DataTypes
  <2>4. PlaceTypes'
    BY <1>6 DEF GovStartFails, PlaceTypes
  <2> QED  BY <2>1, <2>2, <2>3, <2>4
<1>7. CASE GovStop
  <2>1. FreqTypes'
    BY <1>7 DEF GovStop, FreqTypes, PolicyOK
  <2>2. FlagTypes'
    BY <1>7 DEF GovStop, FlagTypes, TimerDeleted
  <2>3. DataTypes'
    BY <1>7 DEF GovStop, DataTypes
  <2>4. PlaceTypes'
    BY <1>7 DEF GovStop, PlaceTypes
  <2> QED  BY <2>1, <2>2, <2>3, <2>4
<1>8. CASE OtherGovernor
  <2>1. FreqTypes'
    BY <1>8 DEF OtherGovernor, FreqTypes, PolicyOK
  <2>2. FlagTypes'
    BY <1>8 DEF OtherGovernor, FlagTypes
  <2>3. DataTypes'
    BY <1>8 DEF OtherGovernor, DataTypes
  <2>4. PlaceTypes'
    BY <1>8 DEF OtherGovernor, PlaceTypes
  <2> QED  BY <2>1, <2>2, <2>3, <2>4
<1>9. CASE SetPolicy
  <2>1. FreqTypes'
    BY <1>9 DEF SetPolicy, FreqTypes, PolicyOK
  <2>2. FlagTypes'
    BY <1>9 DEF SetPolicy, FlagTypes
  <2>3. DataTypes'
    BY <1>9 DEF SetPolicy, DataTypes
  <2>4. PlaceTypes'
    BY <1>9 DEF SetPolicy, PlaceTypes
  <2> QED  BY <2>1, <2>2, <2>3, <2>4
<1> QED  BY <1>1, <1>2, <1>3, <1>4, <1>5, <1>6, <1>7, <1>8, <1>9 DEF CoreStep

(* The suspend handlers, and the settings.                                 *)
LEMMA HandlerTypes ==
  ASSUME TypeOK, EarlySuspend \/ LateResume \/ HandlerStep \/ \E s \in DOMAIN Inputs : Store(s)
  PROVE  TypeOK'
<1> USE DEF TypeOK, policy, speeds, works, hooks, core
<1>1. CASE EarlySuspend
  <2>1. FreqTypes'
    BY <1>1 DEF EarlySuspend, FreqTypes, PolicyOK
  <2>2. FlagTypes'
    BY <1>1 DEF EarlySuspend, FlagTypes
  <2>3. DataTypes'
    BY <1>1 DEF EarlySuspend, DataTypes
  <2>4. PlaceTypes'
    BY <1>1 DEF EarlySuspend, PlaceTypes
  <2> QED  BY <2>1, <2>2, <2>3, <2>4
<1>2. CASE LateResume
  <2>1. FreqTypes'
    BY <1>2 DEF LateResume, FreqTypes, PolicyOK
  <2>2. FlagTypes'
    BY <1>2 DEF LateResume, FlagTypes
  <2>3. DataTypes'
    BY <1>2 DEF LateResume, DataTypes
  <2>4. PlaceTypes'
    BY <1>2 DEF LateResume, PlaceTypes
  <2> QED  BY <2>1, <2>2, <2>3, <2>4
<1>3. CASE HandlerUpdate
  <2>1. min_speed' \in Nat /\ max_speed' \in Nat
    BY <1>3, SpeedTypes, PolicyTypes DEF HandlerUpdate, UpdateMinMax, FreqTypes
  <2>2. FreqTypes'
    BY <1>3, <2>1 DEF HandlerUpdate, FreqTypes, PolicyOK
  <2>3. FlagTypes'
    BY <1>3 DEF HandlerUpdate, FlagTypes
  <2>4. DataTypes'
    BY <1>3 DEF HandlerUpdate, DataTypes
  <2>5. PlaceTypes'
    BY <1>3 DEF HandlerUpdate, PlaceTypes
  <2> QED  BY <2>2, <2>3, <2>4, <2>5
<1>4. CASE HandlerTarget
  <2>1. ValidFreq(tuned["sleep_wakeup_freq"]) \in Nat
    BY SettingTypes, ValidTypes DEF Settings
  <2>2. cur' \in Table
    BY <1>4, <2>1, DriverTypes DEF HandlerTarget, FreqTypes
  <2>3. FreqTypes'
    BY <1>4, <2>2 DEF HandlerTarget, FreqTypes, PolicyOK
  <2>4. FlagTypes'
    BY <1>4 DEF HandlerTarget, FlagTypes
  <2>5. DataTypes'
    BY <1>4 DEF HandlerTarget, DataTypes
  <2>6. PlaceTypes'
    BY <1>4 DEF HandlerTarget, PlaceTypes
  <2> QED  BY <2>3, <2>4, <2>5, <2>6
<1>5. ASSUME NEW s \in DOMAIN Inputs, Store(s)
      PROVE  TypeOK'
  <2>1. tuned' \in [Settings -> 0 .. Word - 1]
    BY <1>5, SmartassAssumption DEF Store, DataTypes
  <2>2. FreqTypes'
    BY <1>5 DEF Store, FreqTypes, PolicyOK
  <2>3. FlagTypes'
    BY <1>5 DEF Store, FlagTypes
  <2>4. DataTypes'
    BY <1>5, <2>1 DEF Store, DataTypes
  <2>5. PlaceTypes'
    BY <1>5 DEF Store, PlaceTypes
  <2> QED  BY <2>2, <2>3, <2>4, <2>5
<1> QED  BY <1>1, <1>2, <1>3, <1>4, <1>5 DEF HandlerStep

(* Every variable of the governor keeps the type the code gives it.        *)
THEOREM TypeCorrect == Spec => []TypeOK
<1>1. TypeOK /\ [Next]_vars => TypeOK'
  <2> SUFFICES ASSUME TypeOK, [Next]_vars  PROVE TypeOK'
    OBVIOUS
  <2>1. CASE Next
    BY <2>1, MeasuringTypes, WorkingTypes, CoreTypes, HandlerTypes
    DEF Next, Calls
  <2>2. CASE UNCHANGED vars
    <3> USE <2>2 DEF TypeOK, vars, policy, speeds, works, hooks, core
    <3>1. FreqTypes'
      BY DEF FreqTypes, PolicyOK
    <3>2. FlagTypes'
      BY DEF FlagTypes
    <3>3. DataTypes'
      BY DEF DataTypes
    <3>4. PlaceTypes'
      BY DEF PlaceTypes
    <3> QED  BY <3>1, <3>2, <3>3, <3>4
  <2> QED  BY <2>1, <2>2
<1> QED  BY InitTypes, <1>1, PTL DEF Spec

-----------------------------------------------------------------------------
(* START and STOP change the count and the hook; STOP removes its files    *)
(* before it restores the hook.                                            *)
Hooked == enable \/ event = "remove"

HookInv ==
  /\ active_count \in IF enable THEN 1 .. 2 ELSE 0 .. 1
  /\ event \in {"limits", "update", "target"} => enable
  /\ event = "remove" => ~enable
  /\ pm_idle_old # "smartass"
  /\ pm_idle = "smartass" => Hooked
  /\ ~May("sysfs") =>
       /\ active_count = IF enable THEN 1 ELSE 0
       /\ pm_idle = IF Hooked THEN "smartass" ELSE "platform"
       /\ Hooked => pm_idle_old = "platform"

TimerInv == ~enable => ~timer

(* Nothing arms the timer of a governor that is not enabled.               *)
LEMMA TimerStep ==
  ASSUME TypeOK, TimerInv, [Next]_vars
  PROVE  TimerInv'
<1> USE DEF TimerInv, policy, speeds, works, hooks, core
<1>1. CASE TimerMeasures
  <2>1. timer /\ enable' = enable
    BY <1>1 DEF TimerMeasures
  <2> QED  BY <2>1
<1>2. CASE Demand \/ TimerEarly \/ Idle
  BY <1>2 DEF Demand, TimerEarly, Idle
<1>3. CASE Working
  BY <1>3 DEF Working, WorkBegins, WorkSets
<1>4. CASE CoreStep \/ GovStart \/ GovStartFails \/ OtherGovernor \/ SetPolicy
  BY <1>4 DEF CoreStep, GovStopRemoves, LimitsArgument, LimitsUpdate, LimitsTarget,
     GovStart, GovStartFails, OtherGovernor, SetPolicy
<1>5. CASE GovStop
  BY <1>5 DEF GovStop, TimerDeleted
<1>6. CASE HandlerStep \/ EarlySuspend \/ LateResume \/ \E s \in DOMAIN Inputs : Store(s)
  BY <1>6 DEF HandlerStep, HandlerUpdate, HandlerTarget, EarlySuspend, LateResume, Store
<1>7. CASE UNCHANGED vars
  BY <1>7 DEF vars
<1> QED  BY <1>1, <1>2, <1>3, <1>4, <1>5, <1>6, <1>7 DEF Next, Measuring, Calls

(* The count and the hook go together, whether or not the files could be   *)
(* created.                                                                *)
LEMMA HookStep ==
  ASSUME TypeOK, HookInv, [Next]_vars
  PROVE  HookInv'
<1> USE DEF HookInv, Hooked, May, policy, speeds, works, hooks, core
<1>0. active_count \in Int
  BY DEF TypeOK, PlaceTypes
<1>1. CASE Measuring \/ Working \/ HandlerStep \/ UNCHANGED vars
  <2>1. UNCHANGED <<enable, hooks, event, mode>>
    BY <1>1 DEF Measuring, Demand, TimerEarly, TimerMeasures, Idle, Working,
       WorkBegins, WorkSets, HandlerStep, HandlerUpdate, HandlerTarget, vars
  <2> QED  BY <2>1
<1>2. CASE \/ OtherGovernor \/ EarlySuspend \/ LateResume
           \/ \E s \in DOMAIN Inputs : Store(s)
  <2>1. UNCHANGED <<enable, hooks, event, mode>>
    BY <1>2 DEF OtherGovernor, EarlySuspend, LateResume, Store
  <2> QED  BY <2>1
<1>3. CASE SetPolicy \/ LimitsArgument \/ LimitsUpdate \/ LimitsTarget
  <2>1. /\ UNCHANGED <<enable, hooks, mode>> /\ event # "remove"
        /\ event' \in {"none", "limits", "update", "target"}
        /\ event' # "none" => enable
    BY <1>3 DEF SetPolicy, LimitsArgument, LimitsUpdate, LimitsTarget
  <2> QED  BY <2>1
<1>4. CASE GovStart
  <2>1. /\ ~enable /\ event = "none" /\ enable' = TRUE /\ event' = "limits"
        /\ mode' = mode /\ active_count' = active_count + 1
        /\ active_count \in 0 .. 1
        /\ IF active_count' <= 1
           THEN pm_idle_old' = pm_idle /\ pm_idle' = "smartass"
           ELSE UNCHANGED <<pm_idle, pm_idle_old>>
    BY <1>4 DEF GovStart
  <2>2. CASE active_count = 0
    BY <2>1, <2>2
  <2>3. CASE active_count = 1
    BY <2>1, <2>3
  <2> QED  BY <2>1, <2>2, <2>3
<1>5. CASE GovStartFails
  BY <1>0, <1>5 DEF GovStartFails
<1>6. CASE GovStop
  <2>1. /\ enable /\ event = "none" /\ enable' = FALSE
        /\ mode' = mode /\ active_count' = active_count - 1
        /\ active_count \in 1 .. 2
        /\ UNCHANGED <<pm_idle, pm_idle_old>>
    BY <1>6 DEF GovStop
  <2>2. event' = "remove"
    BY <1>6, <2>1 DEF GovStop
  <2> QED  BY <2>1, <2>2
<1>7. CASE GovStopRemoves
  BY <1>7 DEF GovStopRemoves, HookRestored
<1> QED  BY <1>1, <1>2, <1>3, <1>4, <1>5, <1>6, <1>7 DEF Next, CoreStep, Calls

(* After STOP nothing arms the timer and, when the files could be created, *)
(* the idle function is the platform's own again; the hook never comes to  *)
(* call itself, whether or not they could.                                 *)
THEOREM StopIsClean == Spec => []StopsClean
<1>1. Init => HookInv /\ TimerInv
  BY DEF Init, HookInv, Hooked, TimerInv
<1>2. TypeOK /\ HookInv /\ TimerInv /\ [Next]_vars => HookInv' /\ TimerInv'
  BY HookStep, TimerStep
<1>3. HookInv /\ TimerInv => StopsClean
  BY DEF HookInv, Hooked, TimerInv, StopsClean
<1> QED  BY TypeCorrect, <1>1, <1>2, <1>3, PTL DEF Spec

-----------------------------------------------------------------------------
(* Callers that do not overlap, and no setting written while suspended.    *)
Serial == Liberties[mode] = {}

(* sleep_max_freq is in use: "Set sleep_max_freq=0 to disable this         *)
(* behavior".                                                              *)
CapInUse ==
  /\ Defaults["sleep_max_freq"] # 0
  /\ "sleep_max_freq" \in DOMAIN Inputs => 0 \notin Inputs["sleep_max_freq"]

OneCall ==
  /\ event # "none" => handler = "none"
  /\ \A w \in Workers : run[w] # 0 => event = "none" /\ handler = "none"

(* LIMITS and the suspend handlers leave the speeds of the state they      *)
(* found, within the limits; a worker has chosen one between them.         *)
SpeedsInv ==
  /\ event = "update" => arg = suspended
  /\ enable /\ event \notin {"limits", "update"} =>
       /\ pmin <= min_speed /\ min_speed <= max_speed /\ max_speed <= pmax
       /\ handler # "decide" =>
            IF suspended THEN max_speed = SleepMax /\ min_speed = pmin
                         ELSE max_speed = pmax
       /\ \A w \in Workers : run[w] # 0 => min_speed <= run[w] /\ run[w] <= max_speed

(* The frequency keeps to the speeds, but for a handler that has changed   *)
(* the speeds and not set the frequency yet.                               *)
CurInv ==
  enable /\ event = "none" =>
    /\ pmin <= cur
    /\ handler # "apply" =>
         DriverFreq(min_speed, "H") <= cur /\ cur <= DriverFreq(max_speed, "L")

CapInv == Serial => tuned["sleep_max_freq"] # 0 /\ OneCall /\ SpeedsInv /\ CurInv

(* Who begins is alone.                                                    *)
LEMMA BeginsAlone ==
  ASSUME Serial, MayBegin
  PROVE  event = "none" /\ handler = "none" /\ \A w \in Workers : run[w] = 0
<1> DEFINE A == {w \in Workers : run[w] # 0}
           B == {event, handler} \ {"none"}
<1>1. IsFiniteSet({"up", "down"}) /\ IsFiniteSet({event, handler})
  <2>1. /\ IsFiniteSet({"up"}) /\ IsFiniteSet({"down"})
        /\ IsFiniteSet({event}) /\ IsFiniteSet({handler})
    BY FS_Singleton
  <2>2. IsFiniteSet({"up"} \cup {"down"}) /\ IsFiniteSet({event} \cup {handler})
    BY <2>1, FS_Union
  <2>3. {"up"} \cup {"down"} = {"up", "down"} /\ {event} \cup {handler} = {event, handler}
    OBVIOUS
  <2> QED  BY <2>2, <2>3
<1>2. IsFiniteSet(A) /\ IsFiniteSet(B)
  <2>1. A \subseteq {"up", "down"} /\ B \subseteq {event, handler}
    BY DEF Workers
  <2> QED  BY <1>1, <2>1, FS_Subset
<1>3. IsFiniteSet(A \cup B)
  BY <1>2, FS_Union
<1>4. UnderWay = A \cup B
  BY DEF UnderWay
<1>5. Cardinality(UnderWay) < 1
  BY DEF MayBegin, Serial, May
<1>6. UnderWay = {}
  <2>1. Cardinality(UnderWay) \in Nat
    BY <1>3, <1>4, FS_CardinalityType
  <2>2. Cardinality(UnderWay) = 0
    BY <1>5, <2>1
  <2> QED  BY <1>3, <1>4, <2>2, FS_EmptySet
<1> QED  BY <1>4, <1>6

(* A frequency between the speeds is set to one between what the driver    *)
(* makes of the speeds, whichever way it is rounded.                       *)
LEMMA SetBetween ==
  ASSUME FreqTypes, pmin <= min_speed, NEW f \in Nat,
         min_speed <= f, f <= max_speed, NEW relation \in {"H", "L"}
  PROVE  /\ pmin <= DriverFreq(f, relation)
         /\ DriverFreq(min_speed, "H") <= DriverFreq(f, relation)
         /\ DriverFreq(f, relation) <= DriverFreq(max_speed, "L")
<1>1. /\ Table \in SUBSET Nat /\ Table # {} /\ pmin \in Table /\ pmin \in Nat
      /\ min_speed \in Nat /\ max_speed \in Nat
  BY PolicyTypes DEF FreqTypes
<1>2. \A r \in {"H", "L"} : /\ DriverFreq(f, r) \in Nat
                            /\ DriverFreq(min_speed, r) \in Nat
                            /\ DriverFreq(max_speed, r) \in Nat
  BY <1>1, PickProperties DEF DriverFreq
<1>3. DriverFreq(pmin, "H") = pmin
  BY <1>1, PickExact DEF DriverFreq
<1>4. DriverFreq(pmin, "H") <= DriverFreq(min_speed, "H")
  BY <1>1, PickMonotone DEF DriverFreq
<1>5. DriverFreq(min_speed, "H") <= DriverFreq(f, "H")
  BY <1>1, PickMonotone DEF DriverFreq
<1>6. /\ DriverFreq(f, "L") <= DriverFreq(max_speed, "L")
      /\ DriverFreq(f, "H") <= DriverFreq(f, "L")
  BY <1>1, PickMonotone DEF DriverFreq
<1> QED  BY <1>1, <1>2, <1>3, <1>4, <1>5, <1>6

(* Who leaves the policy, the speeds and the calls alone.                  *)
LEMMA CapLeftAlone ==
  ASSUME CapInv, UNCHANGED <<policy, enable, speeds, suspended, tuned, run, core,
                             handler, mode>>
  PROVE  CapInv'
<1> USE DEF policy, speeds, core
<1>1. SleepMax' = SleepMax
  BY DEF SleepMax
<1> QED  BY <1>1 DEF CapInv, Serial, OneCall, SpeedsInv, CurInv

(* The timer, the idle thread and the work.                                *)
LEMMA WorkKeepsCap ==
  ASSUME TypeOK, CapInv, Serial, Measuring \/ Working
  PROVE  CapInv'
<1> USE DEF policy, speeds, works, hooks, core
<1>1. CASE Measuring
  BY <1>1, CapLeftAlone DEF Measuring, Demand, TimerEarly, TimerMeasures, Idle
<1>2. ASSUME NEW w \in Workers, WorkBegins(w)
      PROVE  CapInv'
  <2>1. event = "none" /\ handler = "none" /\ \A v \in Workers : run[v] = 0
    BY <1>2, BeginsAlone DEF WorkBegins
  <2>2. /\ UNCHANGED <<policy, enable, speeds, suspended, tuned, core, handler, mode>>
        /\ \/ run' = run
           \/ \E many \in BOOLEAN :
                run' = [run EXCEPT ![w] = ValidFreq(NewFreq(force_ramp_up /\ many))]
    BY <1>2 DEF WorkBegins
  <2>3. min_speed <= max_speed =>
          \A v \in Workers : run'[v] # 0 => min_speed <= run'[v] /\ run'[v] <= max_speed
    <3>1. CASE run' = run
      BY <2>1, <3>1
    <3>2. CASE run' # run
      <4>1. PICK many \in BOOLEAN :
              run' = [run EXCEPT ![w] = ValidFreq(NewFreq(force_ramp_up /\ many))]
        BY <2>2, <3>2
      <4>2. min_speed <= max_speed =>
              /\ min_speed <= ValidFreq(NewFreq(force_ramp_up /\ many))
              /\ ValidFreq(NewFreq(force_ramp_up /\ many)) <= max_speed
        BY NewFreqTypes, ValidTypes DEF TypeOK
      <4> HIDE DEF Workers
      <4>3. run \in [Workers -> Nat]
        BY DEF TypeOK, DataTypes
      <4> QED  BY <2>1, <4>1, <4>2, <4>3
    <3> QED  BY <3>1, <3>2
  <2>4. SleepMax' = SleepMax
    BY <2>2 DEF SleepMax
  <2> QED  BY <2>1, <2>2, <2>3, <2>4 DEF CapInv, Serial, OneCall, SpeedsInv, CurInv
<1>3. ASSUME NEW w \in Workers, WorkSets(w)
      PROVE  CapInv'
  <2>1. /\ run[w] # 0 /\ cur' = DriverFreq(run[w], "L")
        /\ run' = [run EXCEPT ![w] = 0]
        /\ UNCHANGED <<pmin, pmax, enable, speeds, suspended, tuned, core, handler, mode>>
    BY <1>3 DEF WorkSets
  <2>2. event = "none" /\ handler = "none"
    BY <2>1 DEF CapInv, OneCall
  <2>3. run[w] \in Nat /\ run \in [Workers -> Nat]
    BY DEF TypeOK, DataTypes
  <2>4. enable => /\ pmin <= cur'
                  /\ DriverFreq(min_speed, "H") <= cur'
                  /\ cur' <= DriverFreq(max_speed, "L")
    BY <2>1, <2>2, <2>3, SetBetween DEF TypeOK, CapInv, SpeedsInv
  <2>5. \A v \in Workers : run'[v] \in {0, run[v]}
    BY <2>1, <2>3
  <2>6. SleepMax' = SleepMax
    BY <2>1 DEF SleepMax
  <2> QED  BY <2>1, <2>2, <2>4, <2>5, <2>6 DEF CapInv, Serial, OneCall, SpeedsInv, CurInv
<1> QED  BY <1>1, <1>2, <1>3 DEF Working

(* The core's calls.                                                       *)
LEMMA CoreKeepsCap ==
  ASSUME TypeOK, CapInv, HookInv, Serial,
         CoreStep \/ GovStart \/ GovStartFails \/ GovStop \/ OtherGovernor \/ SetPolicy
  PROVE  CapInv'
<1> USE DEF policy, speeds, works, hooks, core
<1>1. CASE GovStart \/ GovStop \/ OtherGovernor \/ SetPolicy
  <2>1. handler = "none" /\ \A w \in Workers : run[w] = 0
    BY <1>1, BeginsAlone DEF GovStart, GovStop, OtherGovernor, SetPolicy
  <2>2. /\ UNCHANGED <<tuned, run, handler, mode>>
        /\ event' # "update"
        /\ enable' => event' = "limits"
    BY <1>1 DEF GovStart, GovStop, OtherGovernor, SetPolicy
  <2> QED  BY <2>1, <2>2 DEF CapInv, Serial, OneCall, SpeedsInv, CurInv
<1>2. CASE GovStartFails
  BY <1>2, CapLeftAlone DEF GovStartFails
<1>3. CASE GovStopRemoves
  <2>1. /\ event = "remove" /\ event' = "none"
        /\ UNCHANGED <<policy, enable, speeds, suspended, tuned, run, handler, mode>>
    BY <1>3 DEF GovStopRemoves
  <2>2. ~enable
    BY <2>1 DEF HookInv
  <2> QED  BY <2>1, <2>2 DEF CapInv, Serial, OneCall, SpeedsInv, CurInv
<1>4. CASE LimitsArgument
  BY <1>4 DEF LimitsArgument, CapInv, Serial, OneCall, SpeedsInv, CurInv
<1>5. CASE LimitsUpdate
  <2>1. /\ event = "update" /\ event' = "target" /\ UpdateMinMax(arg)
        /\ UNCHANGED <<policy, enable, suspended, tuned, run, handler, mode>>
    BY <1>5 DEF LimitsUpdate
  <2>2. /\ arg = suspended /\ handler = "none" /\ \A w \in Workers : run[w] = 0
    BY <2>1 DEF CapInv, OneCall, SpeedsInv
  <2>3. /\ pmin <= min_speed' /\ min_speed' <= max_speed' /\ max_speed' <= pmax
        /\ IF suspended THEN max_speed' = SleepMax /\ min_speed' = pmin
                        ELSE max_speed' = pmax
    <3>1. /\ pmin \in Nat /\ pmax \in Nat /\ pmin <= pmax
          /\ SleepMax \in Nat /\ pmin <= SleepMax /\ SleepMax <= pmax
          /\ AwakeMin \in Nat /\ pmin <= AwakeMin /\ AwakeMin <= pmax
      BY PolicyTypes, SpeedTypes DEF TypeOK, FreqTypes
    <3> QED  BY <2>1, <2>2, <3>1 DEF UpdateMinMax
  <2>4. SleepMax' = SleepMax
    BY <2>1 DEF SleepMax
  <2> QED  BY <2>1, <2>2, <2>3, <2>4 DEF CapInv, Serial, OneCall, SpeedsInv, CurInv
<1>6. CASE LimitsTarget
  <2>1. /\ event = "target" /\ event' = "none"
        /\ cur' = IF cur # max_speed THEN DriverFreq(max_speed, "H") ELSE cur
        /\ UNCHANGED <<pmin, pmax, enable, speeds, suspended, tuned, run, handler, mode>>
    BY <1>6 DEF LimitsTarget
  <2>2. handler = "none" /\ \A w \in Workers : run[w] = 0
    BY <2>1 DEF CapInv, OneCall
  <2>3. cur' = DriverFreq(max_speed, "H")
    <3>1. cur \in Table /\ Table \in SUBSET Nat
      BY TableAssumption DEF TypeOK, FreqTypes
    <3>2. cur = max_speed => DriverFreq(max_speed, "H") = cur
      BY <3>1, PickExact DEF DriverFreq
    <3> QED  BY <2>1, <3>2
  <2>4. enable => /\ pmin <= cur'
                  /\ DriverFreq(min_speed, "H") <= cur'
                  /\ cur' <= DriverFreq(max_speed, "L")
    <3>1. max_speed \in Nat /\ max_speed <= max_speed
      BY DEF TypeOK, FreqTypes
    <3> QED  BY <2>1, <2>3, <3>1, SetBetween DEF TypeOK, CapInv, SpeedsInv
  <2>5. SleepMax' = SleepMax
    BY <2>1 DEF SleepMax
  <2> QED  BY <2>1, <2>2, <2>4, <2>5 DEF CapInv, Serial, OneCall, SpeedsInv, CurInv
<1> QED  BY <1>1, <1>2, <1>3, <1>4, <1>5, <1>6 DEF CoreStep

(* The suspend handlers, and the settings.                                 *)
LEMMA HandlerKeepsCap ==
  ASSUME CapInUse, TypeOK, CapInv, Serial,
         EarlySuspend \/ LateResume \/ HandlerStep \/ \E s \in DOMAIN Inputs : Store(s)
  PROVE  CapInv'
<1> USE DEF policy, speeds, works, hooks, core
<1>1. CASE EarlySuspend \/ LateResume
  <2>1. /\ event = "none" /\ handler = "none" /\ \A w \in Workers : run[w] = 0
    BY <1>1, BeginsAlone DEF EarlySuspend, LateResume
  <2>2. /\ UNCHANGED <<policy, enable, speeds, tuned, run, core, mode>>
        /\ handler' = "decide"
    BY <1>1 DEF EarlySuspend, LateResume
  <2> QED  BY <2>1, <2>2 DEF CapInv, Serial, OneCall, SpeedsInv, CurInv
<1>2. CASE HandlerUpdate
  <2>1. /\ handler = "decide" /\ event = "none" /\ \A w \in Workers : run[w] = 0
    BY <1>2 DEF HandlerUpdate, CapInv, OneCall
  <2>2. /\ UNCHANGED <<policy, enable, suspended, tuned, run, core, mode>>
        /\ IF ~enable THEN handler' = "none" /\ UNCHANGED speeds
           ELSE handler' = "apply" /\ UpdateMinMax(suspended)
    BY <1>2 DEF HandlerUpdate, CapInv
  <2>3. enable =>
          /\ pmin <= min_speed' /\ min_speed' <= max_speed' /\ max_speed' <= pmax
          /\ IF suspended THEN max_speed' = SleepMax /\ min_speed' = pmin
                          ELSE max_speed' = pmax
    <3>1. /\ pmin \in Nat /\ pmax \in Nat /\ pmin <= pmax
          /\ SleepMax \in Nat /\ pmin <= SleepMax /\ SleepMax <= pmax
          /\ AwakeMin \in Nat /\ pmin <= AwakeMin /\ AwakeMin <= pmax
      BY PolicyTypes, SpeedTypes DEF TypeOK, FreqTypes
    <3> QED  BY <2>2, <3>1 DEF UpdateMinMax
  <2>4. SleepMax' = SleepMax
    BY <2>2 DEF SleepMax
  <2> QED  BY <2>1, <2>2, <2>3, <2>4 DEF CapInv, Serial, OneCall, SpeedsInv, CurInv
<1>3. CASE HandlerTarget
  <2>1. /\ handler = "apply" /\ event = "none" /\ \A w \in Workers : run[w] = 0
    BY <1>3 DEF HandlerTarget, CapInv, OneCall
  <2>2. /\ handler' = "none"
        /\ cur' = IF ~suspended THEN DriverFreq(ValidFreq(tuned["sleep_wakeup_freq"]), "H")
                  ELSE IF cur > max_speed THEN DriverFreq(max_speed, "H")
                  ELSE cur
        /\ UNCHANGED <<pmin, pmax, enable, speeds, suspended, tuned, run, core, mode>>
    BY <1>3 DEF HandlerTarget
  <2>3. /\ min_speed \in Nat /\ max_speed \in Nat /\ cur \in Nat /\ cur \in Table
        /\ Table \in SUBSET Nat /\ Table # {} /\ pmin \in Table
        /\ FreqTypes
    BY PolicyTypes DEF TypeOK, FreqTypes
  <2>4. enable => /\ pmin <= cur'
                  /\ DriverFreq(min_speed, "H") <= cur'
                  /\ cur' <= DriverFreq(max_speed, "L")
    <3> SUFFICES ASSUME enable
                 PROVE  /\ pmin <= cur'
                        /\ DriverFreq(min_speed, "H") <= cur'
                        /\ cur' <= DriverFreq(max_speed, "L")
      OBVIOUS
    <3>1. /\ pmin <= min_speed /\ min_speed <= max_speed /\ pmin <= cur
          /\ suspended => min_speed = pmin
      BY <2>1 DEF CapInv, SpeedsInv, CurInv
    <3>2. CASE ~suspended
      <4>1. /\ ValidFreq(tuned["sleep_wakeup_freq"]) \in Nat
            /\ min_speed <= ValidFreq(tuned["sleep_wakeup_freq"])
            /\ ValidFreq(tuned["sleep_wakeup_freq"]) <= max_speed
        BY <2>3, <3>1, SettingTypes, ValidTypes DEF Settings, TypeOK
      <4> QED  BY <2>2, <2>3, <3>1, <3>2, <4>1, SetBetween
    <3>3. CASE suspended /\ cur > max_speed
      BY <2>2, <2>3, <3>1, <3>3, SetBetween
    <3>4. CASE suspended /\ ~(cur > max_speed)
      <4>1. DriverFreq(min_speed, "H") = pmin
        BY <2>3, <3>1, <3>4, PickExact DEF DriverFreq
      <4>2. cur <= DriverFreq(max_speed, "L")
        BY <2>3, <3>4, PickNearest DEF DriverFreq
      <4> QED  BY <2>2, <3>1, <3>4, <4>1, <4>2
    <3> QED  BY <3>2, <3>3, <3>4
  <2>5. SleepMax' = SleepMax
    BY <2>2 DEF SleepMax
  <2> QED  BY <2>1, <2>2, <2>4, <2>5 DEF CapInv, Serial, OneCall, SpeedsInv, CurInv
<1>4. ASSUME NEW s \in DOMAIN Inputs, Store(s)
      PROVE  CapInv'
  <2>1. PICK input \in Inputs[s] :
          tuned' = IF InRange(s, input) THEN [tuned EXCEPT ![s] = input] ELSE tuned
    BY <1>4 DEF Store
  <2>2. /\ ~suspended
        /\ UNCHANGED <<policy, enable, speeds, suspended, run, core, handler, mode>>
    BY <1>4 DEF Store, Serial, May
  <2>3. tuned'["sleep_max_freq"] # 0
    <3>1. tuned \in [Settings -> 0 .. Word - 1] /\ "sleep_max_freq" \in Settings
      BY DEF TypeOK, DataTypes, Settings
    <3>2. tuned["sleep_max_freq"] # 0
      BY DEF CapInv
    <3>3. s = "sleep_max_freq" => input # 0
      BY DEF CapInUse
    <3> QED  BY <2>1, <3>1, <3>2, <3>3
  <2> QED  BY <2>2, <2>3 DEF CapInv, Serial, OneCall, SpeedsInv, CurInv
<1> QED  BY <1>1, <1>2, <1>3, <1>4 DEF HandlerStep

(* While suspended, and only then, the speed is capped at sleep_max_freq,  *)
(* held within the limits, and the frequency is between the speeds as the  *)
(* driver rounds them: whatever the order of START, STOP, limits, suspend, *)
(* resume, settings and work, as long as the calls do not overlap and      *)
(* sleep_max_freq is in use.                                               *)
THEOREM SuspendCaps ==
  ASSUME CapInUse
  PROVE  Spec => []CappedWhileSuspended
<1>1. Init => CapInv /\ HookInv
  <2>1. Init => CapInv
    <3> SUFFICES ASSUME Init  PROVE CapInv
      OBVIOUS
    <3>1. /\ tuned = Defaults /\ ~enable /\ event = "none" /\ handler = "none"
          /\ \A w \in Workers : run[w] = 0
      BY DEF Init
    <3> QED  BY <3>1 DEF CapInUse, CapInv, OneCall, SpeedsInv, CurInv
  <2>2. Init => HookInv
    BY DEF Init, HookInv, Hooked
  <2> QED  BY <2>1, <2>2
<1>2. TypeOK /\ CapInv /\ HookInv /\ [Next]_vars => CapInv' /\ HookInv'
  <2> SUFFICES ASSUME TypeOK, CapInv, HookInv, [Next]_vars  PROVE CapInv'
    BY HookStep
  <2>1. CASE UNCHANGED vars
    BY <2>1, CapLeftAlone DEF vars, works, hooks
  <2>2. CASE Next /\ Serial
    BY <2>2, WorkKeepsCap, CoreKeepsCap, HandlerKeepsCap DEF Next, Calls
  <2>3. CASE Next /\ ~Serial
    <3>1. mode' = mode
      BY <2>3 DEF Next, Measuring, Demand, TimerEarly, TimerMeasures, Idle,
         Working, WorkBegins, WorkSets, CoreStep, GovStopRemoves,
         LimitsArgument, LimitsUpdate, LimitsTarget, HandlerStep,
         HandlerUpdate, HandlerTarget, Calls, OtherGovernor, SetPolicy,
         GovStart, GovStartFails, GovStop, EarlySuspend, LateResume, Store
    <3> QED  BY <2>3, <3>1 DEF CapInv, Serial
  <2> QED  BY <2>1, <2>2, <2>3
<1>3. CapInv => CappedWhileSuspended
  BY DEF CapInv, Serial, SpeedsInv, CurInv, CappedWhileSuspended
<1> QED  BY TypeCorrect, <1>1, <1>2, <1>3, PTL DEF Spec

=============================================================================
