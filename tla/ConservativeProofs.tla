------------------------- MODULE ConservativeProofs -------------------------
(***************************************************************************)
(* Proofs about the conservative governor of Conservative, for every       *)
(* table, every set of policies and every value written to a setting.      *)
(***************************************************************************)
EXTENDS Conservative, CpufreqTableProofs

-----------------------------------------------------------------------------
(* What the constants say. *)

(* A table of positive numbers that fit a word, and limits taken from it.  *)
LEMMA TableFacts ==
  /\ Table \in SUBSET Nat /\ Table # {} /\ \A f \in Table : f > 0 /\ f < Word /\ f + 5 < Word
  /\ \A p \in Policies : p = <<p[1], p[2]>> /\ p[1] \in Table /\ p[2] \in Table /\ p[1] <= p[2]
<1>1. Policies # {} /\ Policies \subseteq Table \X Table
  BY ConservativeAssumption
<1>2. \A p \in Policies : p = <<p[1], p[2]>> /\ p[1] \in Table /\ p[2] \in Table
  BY <1>1
<1>3. Table # {}
  BY <1>1, <1>2
<1>4. Table \subseteq Nat /\ \A f \in Table : f > 0
  BY TableAssumption
<1>5. \A f \in Table : f + 5 < Word
  BY ConservativeAssumption
<1>6. \A f \in Table : f < Word
  BY <1>4, <1>5, ConservativeAssumption
<1> QED BY <1>2, <1>3, <1>4, <1>5, <1>6, ConservativeAssumption

\* The driver's choice for a request.
LEMMA DriverFacts ==
  ASSUME NEW f \in Nat, NEW relation \in {"H", "L"}
  PROVE  /\ DriverFreq(f, relation) \in Table
         /\ relation = "H" => \A g \in Table : g <= f =>
              g <= DriverFreq(f, relation) /\ DriverFreq(f, relation) <= f
         /\ f \in Table => DriverFreq(f, relation) = f
<1>1. Table \in SUBSET Nat /\ Table # {}
  BY TableFacts
<1> DEFINE new == Pick(Table, f, relation)
<1>2. /\ new \in Table
      /\ relation = "H" => \A g \in Table : g <= f => g <= new /\ new <= f
      /\ relation = "L" => \A g \in Table : f <= g => f <= new /\ new <= g
  BY <1>1, PickProperties
<1> HIDE DEF new
<1>3. ASSUME f \in Table PROVE new = f
  <2>1. new \in Nat /\ f <= f
    BY <1>1, <1>2
  <2>2. f <= new /\ new <= f
    BY <1>2, <1>3, <2>1
  <2> QED BY <2>1, <2>2
<1> QED BY <1>2, <1>3 DEF DriverFreq, new

(* What a word keeps is in range, and is itself when it was in range.      *)
LEMMA WrapFacts == \A a \in Int : a % Word \in 0 .. Word - 1 /\ (a \in 0 .. Word - 1 => a % Word = a)
<1>1. Word \in Nat /\ Word > 0
  <2>1. PICK f \in Table : f > 0 /\ f < Word
    BY TableFacts
  <2>2. Word \in Nat /\ f \in Nat
    BY TableFacts, ConservativeAssumption
  <2> QED BY <2>1, <2>2
<1> QED BY <1>1

(* A frequency is a word, and so is 0.                                     *)
LEMMA WordFacts == Word \in Nat /\ 0 \in 0 .. Word - 1 /\ \A f \in Table : f \in 0 .. Word - 1
<1>1. Word \in Nat /\ \A f \in Table : f \in Nat /\ f < Word
  BY TableFacts, ConservativeAssumption
<1>2. PICK f \in Table : TRUE
  BY TableFacts
<1> QED BY <1>1, <1>2

(* A step of some percent of a frequency is a number.                      *)
LEMMA StepFacts == \A s \in 0 .. 100, f \in Nat : StepTarget(s, f) \in Nat
<1> SUFFICES ASSUME NEW s \in 0 .. 100, NEW f \in Nat PROVE StepTarget(s, f) \in Nat
  OBVIOUS
<1>1. s * f \in Nat
  OBVIOUS
<1>2. \A n \in Nat : n \div 100 \in Nat
  OBVIOUS
<1> QED BY <1>1, <1>2 DEF StepTarget

-----------------------------------------------------------------------------
(* Types *)

\* A request that the driver serves stays a frequency or a request.
LEMMA TargetTypes ==
  ASSUME TypeOK, NEW f \in Nat, NEW relation \in {"H", "L"}, DriverTarget(f, relation)
  PROVE  cur' \in Table /\ requested_freq' \in 0 .. Word - 1
<1>1. DriverFreq(f, relation) \in Table
  BY DriverFacts
<1>2. DriverFreq(f, relation) \in 0 .. Word - 1
  BY <1>1, WordFacts
<1>3. Notified(DriverFreq(f, relation)) \in 0 .. Word - 1
  BY <1>2 DEF Notified, TypeOK
<1> QED BY <1>1, <1>3 DEF DriverTarget, TypeOK

(* The limits in use are frequencies, in order; a request is a number.     *)
LEMMA LimitTypes == TypeOK => /\ pmin \in Table /\ pmax \in Table /\ pmin <= pmax
                              /\ pmin \in Nat /\ pmax \in Nat /\ cur \in Nat
                              /\ requested_freq \in Nat /\ FreqTarget \in Nat
                              /\ Word \in Nat
<1> SUFFICES ASSUME TypeOK
             PROVE  /\ pmin \in Table /\ pmax \in Table /\ pmin <= pmax
                    /\ pmin \in Nat /\ pmax \in Nat /\ cur \in Nat
                    /\ requested_freq \in Nat /\ FreqTarget \in Nat
                    /\ Word \in Nat
  OBVIOUS
<1>1. pmin \in Table /\ pmax \in Table /\ pmin <= pmax
  <2> DEFINE p == <<pmin, pmax>>
  <2>1. p \in Policies /\ p[1] = pmin /\ p[2] = pmax
    BY DEF TypeOK
  <2> HIDE DEF p
  <2> QED BY <2>1, TableFacts
<1>2. pmin \in Nat /\ pmax \in Nat /\ cur \in Nat
  BY <1>1, TableFacts DEF TypeOK
<1>3. FreqTarget \in Nat
  BY <1>2, StepFacts DEF TypeOK, FreqTarget
<1> QED BY <1>1, <1>2, <1>3, ConservativeAssumption DEF TypeOK

(* The governor is loaded with values of their types.                      *)
LEMMA InitTypes == Init => TypeOK
<1> SUFFICES ASSUME Init PROVE TypeOK
  OBVIOUS
<1>1. <<pmin, pmax>> \in Policies
  BY TableFacts DEF Init
<1>2. 0 \in 0 .. Word - 1
  BY WordFacts
<1>3. freq_step \in 0 .. 100 /\ up_threshold \in 0 .. 100 /\ down_threshold \in 11 .. 100
  BY ConservativeAssumption DEF Init
<1>4. sampling_rate \in Nat /\ ~(event = "timer" \/ enable)
  BY DEF Init
<1>5. /\ event \in {"none", "start", "timer", "limits", "stop", "remove"}
      /\ work \in {"idle", "queued", "due", "up", "down", "set_up", "set_down", "queue"}
  BY DEF Init
<1> QED BY <1>1, <1>2, <1>3, <1>4, <1>5 DEF Init, TypeOK

(* No step takes a variable out of its type.                               *)
LEMMA NextTypes == TypeOK /\ [Next]_vars => TypeOK'
<1> SUFFICES ASSUME TypeOK, [Next]_vars PROVE TypeOK'
  OBVIOUS
<1> USE DEF workFrame, policy, tuners
<1>1. CASE Due \/ Queue
  BY <1>1 DEF TypeOK, Due, Queue
<1>2. CASE Sample
  <2>1. /\ requested_freq + (IF FreqTarget = 0 THEN 5 ELSE FreqTarget) \in Int
        /\ requested_freq - FreqTarget \in Int
    BY LimitTypes
  <2>2. work' \in {"up", "down", "queue"}
    BY <1>2 DEF Sample
  <2>3. requested_freq' \in 0 .. Word - 1
    <3>1. CASE work' = "up"
      BY <1>2, <2>1, <3>1, WrapFacts DEF Sample
    <3>2. CASE work' = "down"
      BY <1>2, <2>1, <3>2, WrapFacts DEF Sample
    <3>3. CASE work' = "queue"
      BY <1>2, <3>3 DEF Sample, TypeOK
    <3> QED BY <2>2, <3>1, <3>2, <3>3
  <2> QED BY <1>2, <2>2, <2>3 DEF Sample, TypeOK
<1>3. CASE ClampUp \/ ClampDown
  <2>1. pmin \in 0 .. Word - 1 /\ pmax \in 0 .. Word - 1
    BY LimitTypes, WordFacts
  <2>2. requested_freq' \in {requested_freq, pmin, pmax}
    BY <1>3 DEF ClampUp, ClampDown
  <2>3. work' \in {"queue", "set_up", "set_down"}
    BY <1>3 DEF ClampUp, ClampDown
  <2> QED BY <1>3, <2>1, <2>2, <2>3 DEF ClampUp, ClampDown, TypeOK
<1>4. CASE Set
  <2>1. cur' \in Table /\ requested_freq' \in 0 .. Word - 1
    BY <1>4, TargetTypes, LimitTypes DEF Set
  <2> QED BY <1>4, <2>1 DEF Set, TypeOK
<1>5. CASE GovLimits
  <2>1. cur' \in Table /\ requested_freq' \in 0 .. Word - 1
    <3>1. CASE pmax < cur
      BY <1>5, <3>1, TargetTypes, LimitTypes DEF GovLimits
    <3>2. CASE ~(pmax < cur) /\ pmin > cur
      BY <1>5, <3>2, TargetTypes, LimitTypes DEF GovLimits
    <3>3. CASE ~(pmax < cur) /\ ~(pmin > cur)
      BY <1>5, <3>3 DEF GovLimits, TypeOK
    <3> QED BY <3>1, <3>2, <3>3
  <2> QED BY <1>5, <2>1 DEF GovLimits, TypeOK
<1>6. CASE OtherGovernor
  BY <1>6 DEF OtherGovernor, TypeOK
<1>7. CASE SetPolicy
  <2>1. PICK p \in Policies : pmin' = p[1] /\ pmax' = p[2]
    BY <1>7 DEF SetPolicy
  <2>2. <<pmin', pmax'>> \in Policies
    BY <2>1, TableFacts
  <2>3. cur' \in Table
    BY <1>7 DEF SetPolicy, TypeOK
  <2> QED BY <1>7, <2>2, <2>3 DEF SetPolicy, TypeOK
<1>8. CASE GovStart
  BY <1>8 DEF GovStart, TypeOK
<1>9. CASE GovStartRates
  <2>1. cur \in 0 .. Word - 1
    BY LimitTypes, WordFacts DEF TypeOK
  <2>2. sampling_rate' \in Nat /\ sampling_rate' >= MinRate
    BY <1>9, ConservativeAssumption DEF GovStartRates
  <2> QED BY <1>9, <2>1, <2>2 DEF GovStartRates, TypeOK
<1>10. CASE GovStartTimer
  BY <1>10 DEF GovStartTimer, TypeOK
<1>11. CASE GovStop \/ GovStopCancel \/ GovStopRemove
  <2>1. CASE GovStop
    BY <2>1 DEF GovStop, TypeOK
  <2>2. CASE GovStopCancel
    BY <2>2 DEF GovStopCancel, TypeOK
  <2>3. CASE GovStopRemove
    BY <2>3 DEF GovStopRemove, TypeOK
  <2> QED BY <1>11, <2>1, <2>2, <2>3
<1>12. CASE Store
  <2> USE DEF storeFrame
  <2>1. CASE StoreFreqStep
    <3>1. \A s \in Nat : Capped(s) \in 0 .. 100
      BY DEF Capped
    <3>2. freq_step' \in 0 .. 100
      BY <2>1, <3>1, ConservativeAssumption DEF StoreFreqStep
    <3> QED BY <2>1, <3>2 DEF StoreFreqStep, TypeOK
  <2>2. CASE StoreUpThreshold
    <3>1. up_threshold' \in 0 .. 100
      BY <2>2, ConservativeAssumption DEF StoreUpThreshold
    <3> QED BY <2>2, <3>1 DEF StoreUpThreshold, TypeOK
  <2>3. CASE StoreDownThreshold
    <3>1. down_threshold' \in 11 .. 100
      BY <2>3, ConservativeAssumption DEF StoreDownThreshold, DownThresholdMay
    <3> QED BY <2>3, <3>1 DEF StoreDownThreshold, TypeOK
  <2>4. CASE StoreSamplingRate
    <3>1. sampling_rate' \in Nat /\ sampling_rate' >= MinRate
      BY <2>4, ConservativeAssumption DEF StoreSamplingRate, RateFor
    <3> QED BY <2>4, <3>1 DEF StoreSamplingRate, TypeOK
  <2> QED BY <1>12, <2>1, <2>2, <2>3, <2>4 DEF Store
<1>13. CASE LoadChanges
  BY <1>13 DEF LoadChanges, TypeOK
<1>14. CASE UNCHANGED vars
  BY <1>14 DEF vars, TypeOK
<1> QED BY <1>1, <1>2, <1>3, <1>4, <1>5, <1>6, <1>7, <1>8, <1>9, <1>10, <1>11, <1>12, <1>13, <1>14
        DEF Next, Work, Governor

(* The settings stay where the code's arithmetic works: above all, the     *)
(* delay of the work is never computed from a sampling rate of zero.       *)
THEOREM TypeCorrect == Spec => []TypeOK
<1> QED BY InitTypes, NextTypes, PTL DEF Spec

-----------------------------------------------------------------------------
(* The inductive invariant. *)

\* Where the core's call may be, and that the work runs for a started governor.
PhaseInv ==
  /\ event \in {"start", "timer"} => ~started
  /\ event \in {"limits", "stop", "remove"} => started
  /\ started /\ event \in {"none", "limits"} => enable
  /\ ~started \/ event = "remove" => work = "idle"

\* Limits that the governor is not to be told of hold.
LimitsInv == event # "limits" => pmin <= cur /\ cur <= pmax

\* No frequency of the table lies above lo and is at most hi.
NoneBetween(lo, hi) == \A g \in Table : lo < g => ~(g <= hi)

\* Requests stay within the table, but for the step up before it is clamped.
RangeInv ==
  /\ work # "up" => \E g \in Table : requested_freq <= g
  /\ work \in {"set_up", "set_down"} => \E g \in Table : g <= requested_freq
  /\ work \in {"set_up", "set_down"} /\ event # "limits" =>
       pmin <= requested_freq /\ NoneBetween(pmax, requested_freq)

\* Between two samples the frequency is what the driver makes of the request,
\* and within one the request is on the side of it that the load calls for.
RequestInv ==
  /\ work \notin {"down", "set_down"} =>
       \/ cur <= requested_freq
       \/ work = "set_up" /\ event = "limits" /\ pmax < cur
  /\ work \notin {"up", "set_up"} =>
       \/ NoneBetween(cur, requested_freq)
       \/ work = "set_down" /\ event = "limits" /\ cur < pmin

\* The governor has taken the current frequency for its request.
Running == started \/ event = "timer"

StepValues == {FreqStep} \cup {Capped(s) : s \in Steps}

IInv == /\ TypeOK /\ PhaseInv /\ LimitsInv
        /\ freq_step \in StepValues
        /\ Running => RangeInv /\ RequestInv

(***************************************************************************)
(* No step is larger than a frequency of the table, which the default of   *)
(* 5 percent is not; without this requested_freq wraps at line 463.        *)
(***************************************************************************)
StepsFit == \A s \in StepValues, p \in Policies, f \in Table : StepTarget(s, p[2]) <= f

-----------------------------------------------------------------------------
(* The invariant holds when the governor is loaded.                        *)
LEMMA InitIInv == Init => IInv
<1> SUFFICES ASSUME Init PROVE IInv
  OBVIOUS
<1>1. TypeOK
  BY InitTypes
<1>2. PhaseInv /\ LimitsInv /\ freq_step \in StepValues /\ ~Running
  BY DEF Init, PhaseInv, LimitsInv, StepValues, Running
<1> QED BY <1>1, <1>2 DEF IInv

\* What an action that leaves the policy and the request alone has to show.
LEMMA SameRequest ==
  ASSUME IInv, TypeOK', PhaseInv', freq_step' \in StepValues,
         UNCHANGED <<cur, pmin, pmax, requested_freq>>,
         work' \in {"idle", "queued", "due"}, work \in {"idle", "queued", "due", "queue"},
         event' # "limits" => event # "limits",
         Running' => Running
  PROVE  IInv'
<1>1. LimitsInv'
  BY DEF IInv, LimitsInv
<1>2. ASSUME Running' PROVE RangeInv' /\ RequestInv'
  BY <1>2 DEF IInv, RangeInv, RequestInv, NoneBetween
<1> QED BY <1>1, <1>2 DEF IInv

(* A sample that raises or lowers the request keeps the invariant.         *)
LEMMA SampleKeeps == StepsFit /\ IInv /\ Sample => IInv'
<1> SUFFICES ASSUME StepsFit, IInv, Sample PROVE IInv'
  OBVIOUS
<1>1. /\ TypeOK /\ TypeOK' /\ Running /\ Running' /\ RangeInv /\ RequestInv
      /\ work = "due" /\ work' \in {"up", "down", "queue"}
      /\ UNCHANGED <<cur, pmin, pmax, event, started, enable, freq_step>>
  <2>1. TypeOK'
    BY NextTypes DEF IInv, Next, Work
  <2> QED BY <2>1 DEF IInv, Sample, workFrame, tuners, PhaseInv, Running
<1>2. PhaseInv' /\ LimitsInv' /\ freq_step' \in StepValues
  BY <1>1 DEF IInv, PhaseInv, LimitsInv, Running
<1>3. /\ cur <= requested_freq /\ NoneBetween(cur, requested_freq)
      /\ \E g \in Table : requested_freq <= g
  BY <1>1 DEF RangeInv, RequestInv
<1>4. cur \in Nat /\ pmin \in Nat /\ pmax \in Nat /\ requested_freq \in Nat /\ FreqTarget \in Nat
  BY <1>1, LimitTypes
<1>5. \A f \in Table : FreqTarget <= f
  <2>1. PICK q \in Policies : q = <<pmin, pmax>>
    BY <1>1 DEF TypeOK
  <2>2. q[2] = pmax
    BY <2>1
  <2> QED BY <2>1, <2>2 DEF StepsFit, FreqTarget, IInv
<1>6. RangeInv' /\ RequestInv'
  <2>1. CASE work' = "up"
    <3> DEFINE step == IF FreqTarget = 0 THEN 5 ELSE FreqTarget
    <3>1. PICK g \in Table : requested_freq <= g
      BY <1>3
    <3>2. step \in Nat /\ (step = 5 \/ step <= g)
      BY <1>4, <1>5, <3>1
    <3>3. g \in Nat /\ g + g < Word /\ g + 5 < Word
      BY <3>1, TableFacts, ConservativeAssumption
    <3> HIDE DEF step
    <3>4. requested_freq + step \in 0 .. Word - 1
      BY <1>4, <3>1, <3>2, <3>3, WordFacts
    <3>5. requested_freq' = requested_freq + step
      BY <2>1, <3>4, WrapFacts DEF Sample, step
    <3>6. cur <= requested_freq'
      BY <1>3, <1>4, <3>2, <3>5
    <3> QED BY <1>1, <2>1, <3>6 DEF RangeInv, RequestInv
  <2>2. CASE work' = "down"
    <3>1. FreqTarget <= requested_freq
      <4>1. cur \in Table /\ FreqTarget <= cur
        BY <1>1, <1>5 DEF TypeOK
      <4> QED BY <1>3, <1>4, <4>1
    <3>2. requested_freq - FreqTarget \in 0 .. Word - 1
      BY <1>1, <1>4, <3>1, WordFacts DEF TypeOK
    <3>3. requested_freq' = requested_freq - FreqTarget
      BY <2>2, <3>2, WrapFacts DEF Sample
    <3>4. requested_freq' \in Nat /\ requested_freq' <= requested_freq
      BY <1>4, <3>1, <3>3
    <3>5. \A g \in Table : g <= requested_freq' => g <= requested_freq
      BY <1>4, <3>4, TableFacts
    <3>6. \A g \in Table : requested_freq <= g => requested_freq' <= g
      BY <1>4, <3>4, TableFacts
    <3>7. NoneBetween(cur, requested_freq') /\ \E g \in Table : requested_freq' <= g
      BY <1>3, <3>5, <3>6 DEF NoneBetween
    <3> QED BY <1>1, <2>2, <3>7 DEF RangeInv, RequestInv, NoneBetween
  <2>3. CASE work' = "queue"
    <3>1. requested_freq' = requested_freq
      BY <2>3 DEF Sample
    <3> QED BY <1>1, <1>3, <2>3, <3>1 DEF RangeInv, RequestInv, NoneBetween
  <2> QED BY <1>1, <2>1, <2>2, <2>3
<1> QED BY <1>1, <1>2, <1>6 DEF IInv

(* So does clamping a raised request at the upper limit,                   *)
LEMMA ClampUpKeeps == IInv /\ ClampUp => IInv'
<1> SUFFICES ASSUME IInv, ClampUp PROVE IInv'
  OBVIOUS
<1>1. /\ TypeOK /\ TypeOK' /\ Running /\ Running' /\ RequestInv
      /\ work = "up" /\ work' = "set_up"
      /\ UNCHANGED <<cur, pmin, pmax, event, started, enable, freq_step>>
  <2>1. TypeOK'
    BY NextTypes DEF IInv, Next, Work
  <2> QED BY <2>1 DEF IInv, ClampUp, workFrame, tuners, PhaseInv, Running
<1>2. PhaseInv' /\ LimitsInv' /\ freq_step' \in StepValues
  BY <1>1 DEF IInv, PhaseInv, LimitsInv, Running
<1>3. /\ pmin \in Table /\ pmax \in Table /\ cur \in Table /\ pmin <= pmax
      /\ cur \in Nat /\ pmin \in Nat /\ pmax \in Nat /\ requested_freq \in Nat
      /\ Table \subseteq Nat
  BY <1>1, LimitTypes, TableFacts DEF TypeOK
<1>4. cur <= requested_freq
  BY <1>1 DEF RequestInv
<1>5. requested_freq' = IF requested_freq > pmax THEN pmax ELSE requested_freq
  BY DEF ClampUp
<1>6. event # "limits" => pmin <= cur /\ cur <= pmax
  BY DEF IInv, LimitsInv
<1>7. requested_freq' <= pmax /\ (cur <= requested_freq' \/ (requested_freq' = pmax /\ pmax < cur))
  <2>1. CASE requested_freq > pmax
    BY <1>3, <1>5, <2>1
  <2>2. CASE ~(requested_freq > pmax)
    BY <1>3, <1>4, <1>5, <2>2
  <2> QED BY <2>1, <2>2
<1>8. requested_freq' \in Nat
  BY <1>3, <1>5
<1>9. \E g \in Table : requested_freq' <= g
  BY <1>3, <1>7
<1>10. \E g \in Table : g <= requested_freq'
  BY <1>3, <1>7
<1>11. event # "limits" => cur <= requested_freq' /\ pmin <= requested_freq'
  BY <1>3, <1>6, <1>7, <1>8
<1>12. NoneBetween(pmax, requested_freq')
  BY <1>3, <1>7, <1>8 DEF NoneBetween
<1>13. RangeInv'
  BY <1>1, <1>9, <1>10, <1>11, <1>12 DEF RangeInv, NoneBetween
<1>14. RequestInv'
  BY <1>1, <1>7, <1>11 DEF RequestInv, TypeOK
<1> QED BY <1>1, <1>2, <1>13, <1>14 DEF IInv

(* clamping a lowered one at the lower limit,                              *)
LEMMA ClampDownKeeps == IInv /\ ClampDown => IInv'
<1> SUFFICES ASSUME IInv, ClampDown PROVE IInv'
  OBVIOUS
<1>1. /\ TypeOK /\ TypeOK' /\ Running /\ Running' /\ RangeInv /\ RequestInv
      /\ work = "down" /\ work' = IF cur = pmin THEN "queue" ELSE "set_down"
      /\ UNCHANGED <<cur, pmin, pmax, event, started, enable, freq_step>>
  <2>1. TypeOK'
    BY NextTypes DEF IInv, Next, Work
  <2> QED BY <2>1 DEF IInv, ClampDown, workFrame, tuners, PhaseInv, Running
<1>2. PhaseInv' /\ LimitsInv' /\ freq_step' \in StepValues
  BY <1>1 DEF IInv, PhaseInv, LimitsInv, Running
<1>3. /\ pmin \in Table /\ pmax \in Table /\ cur \in Table /\ pmin <= pmax
      /\ cur \in Nat /\ pmin \in Nat /\ pmax \in Nat /\ requested_freq \in Nat
      /\ Table \subseteq Nat
  BY <1>1, LimitTypes, TableFacts DEF TypeOK
<1>4. NoneBetween(cur, requested_freq) /\ \E g \in Table : requested_freq <= g
  BY <1>1 DEF RequestInv, RangeInv
<1>5. requested_freq' = IF requested_freq < pmin THEN pmin ELSE requested_freq
  BY DEF ClampDown
<1>6. event # "limits" => pmin <= cur /\ cur <= pmax
  BY DEF IInv, LimitsInv
<1>7. requested_freq' \in Nat /\ pmin <= requested_freq'
  BY <1>3, <1>5
<1>8. (\E g \in Table : requested_freq' <= g) /\ (\E g \in Table : g <= requested_freq')
  BY <1>3, <1>4, <1>5, <1>7
<1>9. NoneBetween(cur, requested_freq') \/ cur < pmin
  BY <1>3, <1>4, <1>5 DEF NoneBetween
<1>10. event # "limits" => NoneBetween(cur, requested_freq')
  BY <1>3, <1>6, <1>9
<1>11. event # "limits" => NoneBetween(pmax, requested_freq')
  BY <1>3, <1>6, <1>7, <1>10 DEF NoneBetween
<1>12. RangeInv'
  BY <1>1, <1>7, <1>8, <1>11 DEF RangeInv, NoneBetween
<1>13. cur = pmin => cur <= requested_freq' /\ NoneBetween(cur, requested_freq')
  BY <1>3, <1>7, <1>9
<1>14. RequestInv'
  BY <1>1, <1>9, <1>10, <1>13 DEF RequestInv, NoneBetween
<1> QED BY <1>1, <1>2, <1>12, <1>14 DEF IInv

(* The frequency set is the highest at or below the request.               *)
LEMMA SetFacts ==
  ASSUME IInv, Set
  PROVE  /\ cur' \in Table /\ cur' <= requested_freq /\ NoneBetween(cur', requested_freq)
         /\ requested_freq' \in {requested_freq, cur'}
         /\ requested_freq \in Nat
<1>1. TypeOK /\ RangeInv /\ requested_freq \in Nat
  BY LimitTypes DEF IInv, Set, PhaseInv, Running
<1>2. DriverTarget(requested_freq, "H") /\ work \in {"set_up", "set_down"}
  BY DEF Set
<1> DEFINE new == DriverFreq(requested_freq, "H")
<1>3. new \in Table /\ \A g \in Table : g <= requested_freq => g <= new /\ new <= requested_freq
  BY <1>1, DriverFacts
<1>4. \E g \in Table : g <= requested_freq
  BY <1>1, <1>2 DEF RangeInv
<1>5. cur' = new /\ requested_freq' \in {requested_freq, new}
  BY <1>2 DEF DriverTarget, Notified
<1> HIDE DEF new
<1>6. new <= requested_freq
  BY <1>3, <1>4
<1>7. NoneBetween(new, requested_freq)
  <2> SUFFICES ASSUME NEW g \in Table, new < g, g <= requested_freq PROVE FALSE
    BY DEF NoneBetween
  <2>1. g <= new /\ g \in Nat /\ new \in Nat
    BY <1>3, TableFacts
  <2> QED BY <2>1
<1> QED BY <1>1, <1>3, <1>5, <1>6, <1>7

(* setting the frequency,                                                  *)
LEMMA SetKeeps == IInv /\ Set => IInv'
<1> SUFFICES ASSUME IInv, Set PROVE IInv'
  OBVIOUS
<1>1. /\ TypeOK /\ TypeOK' /\ Running /\ Running' /\ RangeInv
      /\ work \in {"set_up", "set_down"} /\ work' = "queue"
      /\ UNCHANGED <<pmin, pmax, event, started, enable, freq_step>>
  <2>1. TypeOK'
    BY NextTypes DEF IInv, Next, Work
  <2> QED BY <2>1 DEF IInv, Set, workFrame, tuners, PhaseInv, Running
<1>2. PhaseInv' /\ freq_step' \in StepValues
  BY <1>1 DEF IInv, PhaseInv, Running
<1>3. /\ cur' \in Table /\ cur' <= requested_freq /\ NoneBetween(cur', requested_freq)
      /\ requested_freq' \in {requested_freq, cur'}
      /\ requested_freq \in Nat
  BY SetFacts
<1>4. cur' \in Nat /\ pmin \in Table /\ pmin \in Nat /\ pmax \in Nat
  BY <1>1, <1>3, LimitTypes, TableFacts
<1>5. LimitsInv'
  <2> SUFFICES ASSUME event # "limits" PROVE pmin <= cur' /\ cur' <= pmax
    BY <1>1 DEF LimitsInv
  <2>1. pmin <= requested_freq /\ NoneBetween(pmax, requested_freq)
    BY <1>1 DEF RangeInv
  <2>2. ~(cur' < pmin)
    BY <1>3, <1>4, <2>1 DEF NoneBetween
  <2>3. ~(pmax < cur')
    BY <1>3, <2>1 DEF NoneBetween
  <2> QED BY <1>4, <2>2, <2>3
<1>6. cur' <= requested_freq' /\ NoneBetween(cur', requested_freq')
  BY <1>3, <1>4 DEF NoneBetween
<1>7. \E g \in Table : requested_freq' <= g
  BY <1>1, <1>3, <1>4 DEF RangeInv
<1>8. RangeInv' /\ RequestInv'
  BY <1>1, <1>6, <1>7 DEF RangeInv, RequestInv, NoneBetween
<1> QED BY <1>1, <1>2, <1>5, <1>8 DEF IInv

(* and LIMITS, which takes the frequency back into the limits.             *)
LEMMA LimitsKeeps == IInv /\ GovLimits => IInv'
<1> SUFFICES ASSUME IInv, GovLimits PROVE IInv'
  OBVIOUS
<1>1. /\ TypeOK /\ TypeOK' /\ Running /\ Running' /\ RangeInv /\ RequestInv
      /\ event = "limits" /\ event' = "none" /\ enable
      /\ work \in {"idle", "queued", "due"} /\ work' = work
      /\ UNCHANGED <<pmin, pmax, started, enable, freq_step>>
  <2>1. TypeOK'
    BY NextTypes DEF IInv, Next, Governor
  <2> QED BY <2>1 DEF IInv, GovLimits, LimitsMay, Sampling, tuners, PhaseInv, Running, TypeOK
<1>2. PhaseInv' /\ freq_step' \in StepValues
  BY <1>1 DEF IInv, PhaseInv, Running
<1>3. /\ pmin \in Table /\ pmax \in Table /\ pmin <= pmax /\ cur \in Nat /\ pmin \in Nat
      /\ pmax \in Nat /\ requested_freq \in Nat /\ Table \subseteq Nat
  BY <1>1, LimitTypes, TableFacts
<1>4. /\ cur <= requested_freq /\ NoneBetween(cur, requested_freq)
      /\ \E g \in Table : requested_freq <= g
  BY <1>1 DEF RangeInv, RequestInv
<1>5. /\ pmin <= cur' /\ cur' <= pmax
      /\ cur' <= requested_freq' /\ NoneBetween(cur', requested_freq')
      /\ \E g \in Table : requested_freq' <= g
  <2>1. CASE pmax < cur
    <3>1. DriverFreq(pmax, "H") = pmax
      BY <1>3, DriverFacts
    <3>2. cur' = pmax /\ requested_freq' = pmax
      BY <1>1, <1>3, <1>4, <2>1, <3>1 DEF GovLimits, DriverTarget, Notified
    <3> QED BY <1>3, <3>2 DEF NoneBetween
  <2>2. CASE ~(pmax < cur) /\ pmin > cur
    <3>1. DriverFreq(pmin, "L") = pmin
      BY <1>3, DriverFacts
    <3>2. requested_freq < pmin
      BY <1>3, <1>4, <2>2 DEF NoneBetween
    <3>3. cur' = pmin /\ requested_freq' = pmin
      BY <1>1, <1>3, <2>2, <3>1, <3>2 DEF GovLimits, DriverTarget, Notified
    <3> QED BY <1>3, <3>3 DEF NoneBetween
  <2>3. CASE ~(pmax < cur) /\ ~(pmin > cur)
    <3>1. cur' = cur /\ requested_freq' = requested_freq
      BY <2>3 DEF GovLimits
    <3> QED BY <1>3, <1>4, <2>3, <3>1 DEF NoneBetween
  <2> QED BY <2>1, <2>2, <2>3
<1>6. LimitsInv' /\ RangeInv' /\ RequestInv'
  BY <1>1, <1>5 DEF LimitsInv, RangeInv, RequestInv, NoneBetween
<1> QED BY <1>1, <1>2, <1>6 DEF IInv

(* The invariant holds in every behaviour whose steps fit.                 *)
LEMMA Inductive == StepsFit => (Spec => []IInv)
<1> SUFFICES ASSUME StepsFit PROVE Spec => []IInv
  OBVIOUS
<1>1. ASSUME IInv, [Next]_vars PROVE IInv'
  <2> USE <1>1 DEF policy, tuners
  <2>1. TypeOK'
    BY NextTypes DEF IInv
  <2>2. CASE Due \/ Queue
    <3>1. /\ PhaseInv' /\ freq_step' \in StepValues
          /\ UNCHANGED <<cur, pmin, pmax, requested_freq, event, started>>
          /\ work' \in {"idle", "queued", "due"} /\ work \in {"idle", "queued", "due", "queue"}
      BY <2>2 DEF Due, Queue, workFrame, IInv, PhaseInv
    <3> QED BY <2>1, <3>1, SameRequest DEF Running
  <2>3. CASE Sample
    BY <2>3, SampleKeeps
  <2>4. CASE ClampUp \/ ClampDown
    BY <2>4, ClampUpKeeps, ClampDownKeeps
  <2>5. CASE Set
    BY <2>5, SetKeeps
  <2>6. CASE GovLimits
    BY <2>6, LimitsKeeps
  <2>7. CASE OtherGovernor
    BY <2>1, <2>7 DEF OtherGovernor, IInv, PhaseInv, LimitsInv, Running
  <2>8. CASE SetPolicy
    <3>1. /\ PhaseInv' /\ freq_step' \in StepValues /\ LimitsInv'
      BY <2>8 DEF SetPolicy, IInv, PhaseInv, LimitsInv
    <3>2. ASSUME Running' PROVE RangeInv' /\ RequestInv'
      <4>1. /\ started /\ event = "none" /\ event' = "limits"
            /\ UNCHANGED <<cur, requested_freq, work>>
            /\ RangeInv /\ RequestInv
        BY <2>8, <3>2 DEF SetPolicy, IInv, Running
      <4> QED BY <4>1 DEF RangeInv, RequestInv, NoneBetween
    <3> QED BY <2>1, <3>1, <3>2 DEF IInv
  <2>9. CASE GovStart
    BY <2>1, <2>9 DEF GovStart, IInv, PhaseInv, LimitsInv, Running
  <2>10. CASE GovStartRates
    <3>1. /\ PhaseInv' /\ freq_step' \in StepValues /\ LimitsInv'
          /\ work = "idle" /\ work' = "idle" /\ cur' = cur /\ requested_freq' = cur
          /\ cur \in Table /\ TypeOK
      BY <2>10 DEF GovStartRates, IInv, PhaseInv, LimitsInv, TypeOK
    <3>2. cur \in Nat
      BY <3>1, TableFacts
    <3>3. RangeInv' /\ RequestInv'
      BY <3>1, <3>2 DEF RangeInv, RequestInv, NoneBetween
    <3> QED BY <2>1, <3>1, <3>3 DEF IInv
  <2>11. CASE GovStartTimer
    <3>1. /\ PhaseInv' /\ LimitsInv' /\ freq_step' \in StepValues
          /\ RangeInv /\ RequestInv /\ work = "idle" /\ work' = "queued"
          /\ UNCHANGED <<cur, pmin, pmax, requested_freq>>
      BY <2>11 DEF GovStartTimer, IInv, PhaseInv, LimitsInv, Running
    <3>2. RangeInv' /\ RequestInv'
      BY <3>1 DEF RangeInv, RequestInv, NoneBetween
    <3> QED BY <2>1, <3>1, <3>2 DEF IInv
  <2>12. CASE GovStop
    <3>1. /\ PhaseInv' /\ LimitsInv' /\ freq_step' \in StepValues
          /\ RangeInv /\ RequestInv /\ event' = "stop" /\ event = "none"
          /\ UNCHANGED <<cur, pmin, pmax, requested_freq, work>>
      BY <2>12 DEF GovStop, IInv, PhaseInv, LimitsInv, Running
    <3>2. RangeInv' /\ RequestInv'
      BY <3>1 DEF RangeInv, RequestInv, NoneBetween
    <3> QED BY <2>1, <3>1, <3>2 DEF IInv
  <2>13. CASE GovStopCancel
    <3>1. /\ PhaseInv' /\ freq_step' \in StepValues
          /\ UNCHANGED <<cur, pmin, pmax, requested_freq, started>> /\ event = "stop"
          /\ event' = "remove" /\ work' = "idle" /\ work \in {"idle", "queued"}
      BY <2>13 DEF GovStopCancel, CancelMay, IInv, PhaseInv
    <3> QED BY <2>1, <3>1, SameRequest DEF Running
  <2>14. CASE GovStopRemove
    BY <2>1, <2>14 DEF GovStopRemove, IInv, PhaseInv, LimitsInv, Running
  <2>15. CASE Store \/ LoadChanges \/ UNCHANGED vars
    <3>1. freq_step' \in StepValues
      BY <2>15 DEF Store, StoreFreqStep, StoreUpThreshold, StoreDownThreshold,
                   StoreSamplingRate, storeFrame, LoadChanges, vars, IInv, StepValues
    <3>2. UNCHANGED <<cur, pmin, pmax, enable, requested_freq, started, event, work>>
      BY <2>15 DEF Store, StoreFreqStep, StoreUpThreshold, StoreDownThreshold,
                   StoreSamplingRate, storeFrame, LoadChanges, vars
    <3>3. PhaseInv' /\ LimitsInv' /\ (Running' => RangeInv' /\ RequestInv')
      BY <3>2 DEF IInv, PhaseInv, LimitsInv, RangeInv, RequestInv, NoneBetween, Running
    <3> QED BY <2>1, <3>1, <3>3 DEF IInv
  <2> QED BY <2>2, <2>3, <2>4, <2>5, <2>6, <2>7, <2>8, <2>9, <2>10, <2>11, <2>12, <2>13,
             <2>14, <2>15 DEF Next, Work, Governor
<1> QED BY <1>1, InitIInv, PTL DEF Spec

-----------------------------------------------------------------------------
(* Told of new limits, the governor has brought the frequency within them, *)
(* although the work may have read the old limits, the new ones, or both.  *)
THEOREM LimitsAreKept == StepsFit => (Spec => []WithinLimits)
<1>1. IInv => WithinLimits
  BY DEF IInv, LimitsInv, WithinLimits
<1> QED BY <1>1, Inductive, PTL

(* STOP ends with no work queued or running, however often the work has    *)
(* queued itself again while the governor was being stopped.               *)
THEOREM StopsForGood == Spec => []StoppedForGood
<1>1. Init => PhaseInv
  BY DEF Init, PhaseInv
<1>2. PhaseInv /\ [Next]_vars => PhaseInv'
  <2> SUFFICES ASSUME PhaseInv, [Next]_vars PROVE PhaseInv'
    OBVIOUS
  <2>1. CASE Work
    BY <2>1 DEF Work, Due, Sample, ClampUp, ClampDown, Set, Queue, workFrame, PhaseInv
  <2>2. CASE Governor
    BY <2>2 DEF Governor, GovStartRates, GovStartTimer, GovLimits, GovStopCancel, CancelMay,
                GovStopRemove, PhaseInv
  <2>3. CASE GovStart \/ GovStop \/ OtherGovernor \/ SetPolicy
    BY <2>3 DEF GovStart, GovStop, OtherGovernor, SetPolicy, PhaseInv
  <2>4. CASE Store \/ LoadChanges \/ UNCHANGED vars
    BY <2>4 DEF Store, StoreFreqStep, StoreUpThreshold, StoreDownThreshold, StoreSamplingRate,
                storeFrame, LoadChanges, vars, PhaseInv
  <2> QED BY <2>1, <2>2, <2>3, <2>4 DEF Next
<1>3. PhaseInv => StoppedForGood
  BY DEF PhaseInv, StoppedForGood
<1> QED BY <1>1, <1>2, <1>3, PTL DEF Spec

(* A sample of high load does not lower the frequency, and one of low load *)
(* does not raise it: requested_freq, read and rounded in several steps,   *)
(* stays on the right side of the current frequency.                       *)
THEOREM FollowsTheLoad == StepsFit => (Spec => MovesWithLoad)
<1> SUFFICES ASSUME StepsFit PROVE Spec => MovesWithLoad
  OBVIOUS
<1>1. IInv /\ [Next]_vars => [Raises /\ Lowers]_vars
  <2> SUFFICES ASSUME IInv, [Next]_vars, work \in {"set_up", "set_down"}, work' = "queue"
               PROVE  Raises /\ Lowers
    BY DEF Raises, Lowers
  <2>1. Set
    BY DEF Next, Work, Governor, GovStart, GovStop, OtherGovernor, SetPolicy, Store, LoadChanges,
           Due, Sample, ClampUp, ClampDown, Queue, GovStartRates, GovStartTimer, GovLimits,
           GovStopCancel, GovStopRemove, CancelMay, StoreFreqStep, StoreUpThreshold,
           StoreDownThreshold, StoreSamplingRate, storeFrame, vars
  <2>2. /\ cur' \in Table /\ NoneBetween(cur', requested_freq) /\ cur' <= requested_freq
        /\ cur \in Table /\ Table \subseteq Nat /\ RequestInv
    BY <2>1, SetFacts, TableFacts DEF IInv, TypeOK, Running, PhaseInv
  <2>3. ASSUME work = "set_up" PROVE cur' >= cur \/ cur > pmax
    BY <2>2, <2>3 DEF RequestInv, NoneBetween
  <2>4. ASSUME work = "set_down" PROVE cur' <= cur \/ cur < pmin
    BY <2>2, <2>4 DEF RequestInv, NoneBetween
  <2> QED BY <2>1, <2>3, <2>4 DEF Raises, Lowers, Set, workFrame
<1> QED BY <1>1, Inductive, PTL DEF Spec, MovesWithLoad

=============================================================================
