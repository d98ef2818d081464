------------------------ MODULE SensorControlProofs -------------------------
(***************************************************************************)
(* Proofs about two components that share no name. SensorControl, for any  *)
(* number of users of /proc/proximity, any files they open and any values  *)
(* and delays they ask for: what the drivers of libsensors believe of      *)
(* their chips, and what the operations on the one register of the         *)
(* proximity chip keep of each other's bits. At the end Camera: the torch  *)
(* and the exposure.                                                       *)
(***************************************************************************)
EXTENDS SensorControl, Camera, WellFoundedInduction, NaturalsInduction, TLAPS

-----------------------------------------------------------------------------
(* Types *)

Registered == [Registers -> Nat]

OpsOK ==
  /\ op \in [Users -> Operation \cup {NULL}] /\ buf \in Nat /\ glob \in [Written -> Nat]
  /\ conf \in Registered /\ asked \in Registered /\ unsure \subseteq Registers
  /\ raced \in BOOLEAN

HalOK ==
  /\ alive \in BOOLEAN /\ drv \in [Switched -> [enabled : BOOLEAN, open : BOOLEAN]]
  /\ mEnabled \subseteq Whats /\ mDelays \in [Whats -> Nat] /\ open \in BOOLEAN
  /\ flag \in [Switched -> BOOLEAN] /\ akflags \subseteq Whats
  /\ hwdelay \in [kxtf9 : Nat, ak8973 : Nat] /\ wanted \in Nat
  /\ lost \subseteq Switched /\ left \subseteq Whats /\ late \subseteq {"kxtf9", "ak8973"}

TypeOK == OpsOK /\ HalOK

(* Where the operations on each file can be: the reading of a threshold    *)
(* and the steps of proc_distance_read (isl-proximity.c:363-383) belong to *)
(* no other file.                                                          *)
PlaceOK(o) ==
  /\ o.pc \in {"scan", "write"} => o.file \in Written
  /\ o.pc = "clamp" => o.file = "speed"
  /\ o.pc = "call" => o.file = "enabled"
  /\ o.pc = "read" => o.file \notin Thresholds
  /\ o.pc \in {"on", "on_write", "restore"} => o.file = "distance"

PlacesOK == \A u \in Users : Busy(u) => PlaceOK(op[u])

\* updateDelay() (SensorAK8973.cpp:152-161) finds a smallest delay whenever
\* a sensor is on.
LEMMA SmallestIsThere ==
  ASSUME NEW delays \in [Whats -> Nat], NEW enabled \in SUBSET Whats, enabled # {}
  PROVE  SmallestDelay(enabled, delays) \in Nat
<1> DEFINE D == {delays[w] : w \in enabled}
<1>1. D \subseteq Nat /\ D # {}
  OBVIOUS
<1> HIDE DEF D
<1>2. PICK x \in D : \A y \in D : ~(<<y, x>> \in OpToRel(<, Nat))
  BY <1>1, NatLessThanWellFounded, WFMin
<1>3. \A y \in D : x =< y
  <2>1. ASSUME NEW y \in D
        PROVE  ~(y < x)
    BY ONLY <1>1, <1>2, Zenon DEF OpToRel
  <2> QED BY <2>1, <1>1
<1>4. Min(D) \in D
  BY <1>3 DEF Min
<1> QED BY <1>1, <1>4 DEF SmallestDelay, D

(* What fits in the field, or in a byte, is written as it is.              *)
LEMMA LowBits ==
  \A n \in Nat : /\ Byte(n) \in Nat /\ n % 8 \in Nat
                 /\ n <= 7 => Byte(n) = n /\ n % 8 = n
<1>1. \A a \in Int, b \in Nat : b > 0 =>
        \E q, r \in Int : a = b * q + r /\ 0 <= r /\ r < b /\ a % b = r
  OBVIOUS
<1>2. TAKE n \in Nat
<1>3. PICK q, r \in Int : n = 8 * q + r /\ 0 <= r /\ r < 8 /\ n % 8 = r
  BY <1>1
<1>4. PICK q2, r2 \in Int : n = 256 * q2 + r2 /\ 0 <= r2 /\ r2 < 256 /\ n % 256 = r2
  BY <1>1
<1> QED BY <1>3, <1>4 DEF Byte

\* The register of the file that an operation writes, and the registers it
\* writes back with it, as it read them.
Own(u) == IF op[u].file \in Written THEN {FieldOf(op[u].file)} ELSE {}
Touched(u) ==
  Own(u) \cup (IF op[u].file \in Thresholds \cup Seeing
             THEN {} ELSE {"prox", "slp", "dr", "als"})

\* What the end of an operation means for the settings, by cases.
LEMMA FinishEffect ==
  ASSUME NEW u \in Users, NEW hit, Finish(u, hit)
  PROVE  /\ op' = [op EXCEPT ![u] = NULL]
         /\ hit => /\ unsure' = unsure \cup Touched(u) /\ raced' = raced
                   /\ asked' = [r \in Registers |-> IF r \in Touched(u) THEN 0 ELSE asked[r]]
         /\ ~hit => /\ unsure' = unsure \ Own(u) /\ raced' = (raced /\ op[u].file # "speed")
                    /\ asked' = [r \in Registers |-> IF r \in Own(u) THEN Byte(op[u].value) ELSE asked[r]]
<1>1. CASE hit
  BY <1>1 DEF Finish, Touched, Own
<1>2. CASE ~hit
  BY <1>2 DEF Finish, Own
<1> QED BY <1>1, <1>2

(* What an operation sets and what it touches are fields of the register.  *)
LEMMA TouchedTypes ==
  ASSUME OpsOK, NEW u \in Users, Busy(u)
  PROVE  Own(u) \subseteq Registers /\ Touched(u) \subseteq Registers /\ Own(u) \subseteq Touched(u)
<1>1. op[u].file \in Written => FieldOf(op[u].file) \in Registers
  BY DEF Written, FieldOf, Registers, Thresholds
<1> QED BY <1>1 DEF Own, Touched, Registers

\* Finish() and the marking of overlaps stay within the types.
LEMMA FinishTypes ==
  ASSUME OpsOK, NEW u \in Users, Busy(u), NEW hit, Finish(u, hit)
  PROVE  /\ op' \in [Users -> Operation \cup {NULL}]
         /\ asked' \in Registered /\ unsure' \subseteq Registers /\ raced' \in BOOLEAN
<1>1. op[u] \in Operation
  BY DEF OpsOK, Busy
<1>2. Byte(op[u].value) \in Nat
  BY <1>1, LowBits DEF Operation
<1>3. CASE hit
  <2>1. /\ op' = [op EXCEPT ![u] = NULL]
        /\ unsure' = unsure \cup Touched(u) /\ raced' = raced
        /\ asked' = [r \in Registers |-> IF r \in Touched(u) THEN 0 ELSE asked[r]]
    BY <1>3, FinishEffect
  <2> QED BY <2>1, TouchedTypes DEF OpsOK, Registered
<1>4. CASE ~hit
  <2>1. /\ op' = [op EXCEPT ![u] = NULL]
        /\ unsure' = unsure \ Own(u) /\ raced' = (raced /\ op[u].file # "speed")
        /\ asked' = [r \in Registers |-> IF r \in Own(u) THEN Byte(op[u].value) ELSE asked[r]]
    BY <1>4, FinishEffect
  <2> QED BY <1>2, <2>1, TouchedTypes DEF OpsOK, Registered
<1> QED BY <1>3, <1>4

(* Marking the operations under way as overlapped leaves them operations.  *)
LEMMA HitTypes == ASSUME OpsOK PROVE Hit \in [Users -> Operation \cup {NULL}]
<1>1. ASSUME NEW u \in Users, Busy(u) PROVE [op[u] EXCEPT !.hit = TRUE] \in Operation
  <2>1. op[u] \in Operation
    BY <1>1 DEF OpsOK, Busy
  <2> QED BY <2>1 DEF Operation
<1> QED BY <1>1 DEF Hit, OpsOK

(* The value an operation writes is a number.                              *)
LEMMA NewValueTypes ==
  ASSUME OpsOK, NEW u \in Users, At(u, "write"), op[u].file \in Written
  PROVE  NewValue(u) \in Registered
<1>1. op[u] \in Operation
  BY DEF OpsOK, At, Busy
<1>2. op[u].value \in Nat /\ op[u].regv \in Registered
  BY <1>1 DEF Operation, Registered
<1>3. op[u].file \in {"enabled", "speed", "highpower", "low", "high"}
  BY DEF Written, Thresholds
<1>4. glob[op[u].file] \in Nat
  BY DEF OpsOK
<1>5. Byte(glob[op[u].file]) \in Nat /\ glob[op[u].file] % 8 \in Nat
  BY <1>4, LowBits
<1> QED BY <1>2, <1>3, <1>5 DEF NewValue, OpsOK, Registered, Registers, Thresholds

\* Every step of a user keeps the types of what the files work on.
LEMMA StepTypes ==
  ASSUME TypeOK, PlacesOK, NEW u \in Users, Step(u)
  PROVE  OpsOK'
<1> USE DEF TypeOK
<1>0. Busy(u) => op[u] \in Operation
  BY DEF OpsOK, Busy
<1>1. CASE Begin(u)
  <2>1. PICK file \in FilesOf[u] \cap used :
          LET new == [file |-> file, pc |-> IF file \in Written THEN "scan" ELSE "read",
                      value |-> 0, regv |-> Zero, again |-> Zero, hit |-> \E v \in Users : Busy(v)]
          IN  /\ op' = [Hit EXCEPT ![u] = new]
              /\ IF file \in Written THEN buf' \in Values[file] ELSE UNCHANGED buf
              /\ raced' = (raced \/ \E v \in Users : Busy(v) /\ {file, op[v].file} = {"speed"})
    BY <1>1 DEF Begin
  <2>2. file \in Files /\ Zero \in Registered
    BY SensorControlAssumption DEF Zero, Registered
  <2>3. [file |-> file, pc |-> IF file \in Written THEN "scan" ELSE "read", value |-> 0,
         regv |-> Zero, again |-> Zero, hit |-> \E v \in Users : Busy(v)] \in Operation
    BY <2>2 DEF Operation, Registered
  <2>4. op' \in [Users -> Operation \cup {NULL}]
    BY <2>1, <2>3, HitTypes
  <2>5. buf' \in Nat /\ raced' \in BOOLEAN
    BY <2>1, SensorControlAssumption DEF OpsOK
  <2> QED BY <1>1, <2>4, <2>5 DEF Begin, OpsOK
<1>2. CASE Scan(u)
  <2>1. op[u] \in Operation /\ op[u].file \in Written
    BY <1>0, <1>2 DEF Scan, At, PlacesOK, PlaceOK
  <2>2. op' \in [Users -> Operation \cup {NULL}]
    BY <1>2, <2>1 DEF Scan, OpsOK, Operation
  <2>3. glob' \in [Written -> Nat]
    BY <1>2, <2>1 DEF Scan, OpsOK, Written
  <2> QED BY <1>2, <2>2, <2>3 DEF Scan, OpsOK, ghosts
<1>3. CASE ClampSpeed(u)
  <2>1. op[u] \in Operation /\ Clamped(op[u].value) \in Nat /\ Clamped(glob["speed"]) \in Nat
    BY <1>0, <1>3 DEF ClampSpeed, At, Clamped, OpsOK, Written, Operation
  <2>2. op' \in [Users -> Operation \cup {NULL}]
    BY <1>3, <2>1 DEF ClampSpeed, OpsOK, Operation
  <2> QED BY <1>3, <2>1, <2>2 DEF ClampSpeed, OpsOK, ghosts
<1>4. CASE Read(u)
  <2>1. op[u] \in Operation /\ Zero \in Registered
    BY <1>0, <1>4 DEF Read, At, Zero, Registered
  <2>2. PICK ok \in BOOLEAN :
          LET file == op[u].file
              regv == IF ok THEN conf ELSE Zero
              gone == \/ file = "enabled" /\ ~ok
                      \/ file = "distance" /\ regv["prox"] = 1
                      \/ file \in Seeing
          IN  /\ IF gone THEN Finish(u, op[u].hit \/ ~ok)
                 ELSE /\ op' = [op EXCEPT ![u].regv = regv, ![u].hit = @ \/ ~ok,
                                       ![u].pc = IF file = "distance" THEN "on" ELSE "write"]
                      /\ UNCHANGED <<asked, unsure, raced>>
              /\ glob' = Seen(file, ok, regv)
    BY <1>4 DEF Read, ghosts
  <2> DEFINE regv == IF ok THEN conf ELSE Zero
  <2>3. regv \in Registered
    BY <2>1 DEF OpsOK
  <2> HIDE DEF regv
  <2>4. glob' \in [Written -> Nat]
    <3>1. ASSUME op[u].file \notin Written
          PROVE  GlobalOf(op[u].file) \in Written /\ FieldOf(GlobalOf(op[u].file)) \in Registers
      BY DEF GlobalOf, FieldOf, Written, Thresholds, Registers
    <3> QED BY <2>2, <2>3, <3>1 DEF regv, Seen, OpsOK, Registered
  <2>5. /\ op' \in [Users -> Operation \cup {NULL}]
        /\ asked' \in Registered /\ unsure' \subseteq Registers /\ raced' \in BOOLEAN
    <3>1. CASE Finish(u, op[u].hit \/ ~ok)
      BY <3>1, <1>4, FinishTypes DEF Read, At
    <3>2. CASE /\ op' = [op EXCEPT ![u].regv = regv, ![u].hit = @ \/ ~ok,
                             ![u].pc = IF op[u].file = "distance" THEN "on" ELSE "write"]
               /\ UNCHANGED <<asked, unsure, raced>>
      BY <3>2, <2>1, <2>3 DEF OpsOK, Operation, Registered
    <3> QED BY <2>2, <3>1, <3>2 DEF regv
  <2> QED BY <1>4, <2>4, <2>5 DEF Read, OpsOK
<1>5. CASE Write(u)
  <2>1. op[u] \in Operation /\ op[u].file \in Written /\ At(u, "write") /\ Busy(u)
    BY <1>0, <1>5 DEF Write, At, PlacesOK, PlaceOK
  <2>2. NewValue(u) \in Registered
    BY <2>1, NewValueTypes
  <2>3. conf' \in Registered
    BY <1>5, <2>2 DEF Write, WriteRegister, OpsOK, Registered
  <2>4. glob' \in [Written -> Nat]
    BY <1>5, <2>2 DEF Write, OpsOK, Written, Registered, Registers
  <2>5. /\ op' \in [Users -> Operation \cup {NULL}]
        /\ asked' \in Registered /\ unsure' \subseteq Registers /\ raced' \in BOOLEAN
    BY <1>5, <2>1, FinishTypes DEF Write
  <2> QED BY <1>5, <2>3, <2>4, <2>5 DEF Write, OpsOK
<1>6. CASE TemporaryEnable(u)
  BY <1>0, <1>6 DEF TemporaryEnable, Goto, At, OpsOK, Operation, Registered, ghosts
<1>7. CASE TemporaryWrite(u)
  <2>1. op[u] \in Operation /\ Zero \in Registered
    BY <1>0, <1>7 DEF TemporaryWrite, At, Zero, Registered
  <2>2. op[u].again \in Registered
    BY <2>1 DEF Operation, Registered
  <2>3. conf' \in Registered
    BY <1>7, <2>2 DEF TemporaryWrite, WriteRegister, OpsOK, Registered
  <2>4. op' \in [Users -> Operation \cup {NULL}]
    BY <1>7, <2>1 DEF TemporaryWrite, OpsOK, Operation, Registered
  <2> QED BY <1>7, <2>3, <2>4 DEF TemporaryWrite, OpsOK, ghosts
<1>8. CASE Restore(u)
  <2>1. op[u] \in Operation /\ Busy(u)
    BY <1>0, <1>8 DEF Restore, At
  <2>2. conf' \in Registered
    BY <1>8, <2>1 DEF Restore, Restored, WriteRegister, OpsOK, Operation, Registered
  <2>3. /\ op' \in [Users -> Operation \cup {NULL}]
        /\ asked' \in Registered /\ unsure' \subseteq Registers /\ raced' \in BOOLEAN
    BY <1>8, <2>1, FinishTypes DEF Restore
  <2> QED BY <1>8, <2>2, <2>3 DEF Restore, OpsOK
<1>9. CASE CallEnable(u)
  <2>1. op[u] \in Operation /\ glob["enabled"] \in Nat
    BY <1>0, <1>9 DEF CallEnable, At, OpsOK, Written
  <2> QED BY <1>9, <2>1 DEF CallEnable, OpsOK, Operation, ghosts
<1> QED BY <1>1, <1>2, <1>3, <1>4, <1>5, <1>6, <1>7, <1>8, <1>9 DEF Step

\* What the kernel's driver does to the register under the feet of the files,
\* when libsensors switches its half of the proximity chip.
RegisterSwitched ==
  /\ \E r \in {"prox", "als"}, bit \in {0, 1} :
       /\ conf' = [conf EXCEPT ![r] = bit] /\ asked' = [asked EXCEPT ![r] = bit]
       /\ unsure' = unsure \ {r}
  /\ op' = Hit /\ UNCHANGED <<buf, glob, raced>>

\* Nothing else in the system changes what the files work on.
LEMMA WhoChangesTheRegister ==
  ASSUME [Next]_vars
  PROVE  \/ \E u \in Users : Step(u)
         \/ RegisterSwitched
         \/ UNCHANGED <<conf, op, buf, glob, asked, unsure, raced>>
<1>1. CASE UNCHANGED vars
  BY <1>1 DEF vars, proc, ghosts
<1>2. ASSUME NEW s \in Switched, Enable(s)
      PROVE  RegisterSwitched \/ UNCHANGED <<conf, op, buf, glob, asked, unsure, raced>>
  <2>1. UNCHANGED <<buf, glob>>
    BY <1>2 DEF Enable
  <2>2. \/ \E en \in BOOLEAN : ChipSwitched(s, en)
        \/ UNCHANGED <<flag, conf, asked, unsure, raced, op>>
    BY <1>2 DEF Enable, Requested, ghosts
  <2>3. ASSUME NEW en \in BOOLEAN, ChipSwitched(s, en)
        PROVE  RegisterSwitched \/ UNCHANGED <<conf, asked, unsure, raced, op>>
    BY <2>1, <2>3 DEF ChipSwitched, RegisterSwitched, ghosts
  <2> QED BY <2>1, <2>2, <2>3
<1>3. CASE SetDelayAccel \/ EnableCompass \/ SetDelayCompass \/ Crash \/ Restart
  BY <1>3 DEF SetDelayAccel, EnableCompass, SetDelayCompass, Crash, Restart, proc, ghosts
<1> QED BY <1>1, <1>2, <1>3 DEF Next

(* Marking an operation as overlapped moves it nowhere.                    *)
LEMMA HitPlaces ==
  ASSUME OpsOK
  PROVE  \A u \in Users :
           /\ Busy(u) => /\ Hit[u] \in Operation /\ Hit[u].hit = TRUE
                         /\ Hit[u].pc = op[u].pc /\ Hit[u].file = op[u].file
                         /\ Hit[u].value = op[u].value
                         /\ Hit[u].regv = op[u].regv /\ Hit[u].again = op[u].again
           /\ ~Busy(u) => Hit[u] = NULL
<1>1. ASSUME NEW u \in Users, Busy(u)
      PROVE  /\ Hit[u] \in Operation /\ Hit[u].hit = TRUE
             /\ Hit[u].pc = op[u].pc /\ Hit[u].file = op[u].file
             /\ Hit[u].value = op[u].value
             /\ Hit[u].regv = op[u].regv /\ Hit[u].again = op[u].again
  <2>1. op[u] \in Operation /\ Hit[u] = [op[u] EXCEPT !.hit = TRUE]
    BY <1>1 DEF OpsOK, Busy, Hit
  <2> QED BY <2>1 DEF Operation
<1> QED BY <1>1 DEF Hit

\* An operation that has begun changes nobody else's.
LEMMA OnlyItsOwn ==
  ASSUME OpsOK, NEW u \in Users, Step(u), ~Begin(u)
  PROVE  Busy(u) /\ \A v \in Users \ {u} : op'[v] = op[v]
<1>1. CASE Scan(u) \/ ClampSpeed(u) \/ CallEnable(u)
  BY <1>1 DEF Scan, ClampSpeed, CallEnable, At, OpsOK
<1>2. CASE Read(u) \/ Write(u)
  BY <1>2 DEF Read, Write, At, OpsOK, Finish
<1>3. CASE TemporaryEnable(u) \/ TemporaryWrite(u) \/ Restore(u)
  BY <1>3 DEF TemporaryEnable, TemporaryWrite, Restore, Goto, At, OpsOK, Finish
<1> QED BY <1>1, <1>2, <1>3 DEF Step

NewOperation(file, hit) ==
  [file |-> file, pc |-> IF file \in Written THEN "scan" ELSE "read", value |-> 0,
   regv |-> Zero, again |-> Zero, hit |-> hit]

\* The new operation, and the others that it overlaps.
LEMMA Begun ==
  ASSUME OpsOK, NEW u \in Users, Begin(u)
  PROVE  /\ ~Busy(u)
         /\ \E file \in FilesOf[u] \cap used :
              /\ op'[u] = NewOperation(file, \E w \in Users : Busy(w))
              /\ file \in Written => buf' \in Values[file]
              /\ raced' = (raced \/ \E v \in Users : Busy(v) /\ {file, op[v].file} = {"speed"})
         /\ \A v \in Users \ {u} : op'[v] = Hit[v]
         /\ UNCHANGED <<used, hal, conf, glob, asked, unsure>>
<1>1. PICK file \in FilesOf[u] \cap used :
        /\ op' = [Hit EXCEPT ![u] = NewOperation(file, \E w \in Users : Busy(w))]
        /\ IF file \in Written THEN buf' \in Values[file] ELSE UNCHANGED buf
        /\ raced' = (raced \/ \E v \in Users : Busy(v) /\ {file, op[v].file} = {"speed"})
  BY DEF Begin, NewOperation
<1>2. op'[u] = NewOperation(file, \E w \in Users : Busy(w))
  BY <1>1 DEF Hit
<1>3. \A v \in Users \ {u} : op'[v] = Hit[v]
  BY <1>1 DEF Hit
<1> QED BY <1>1, <1>2, <1>3 DEF Begin

\* Each operation goes through its own places and no other's.
LEMMA StepPlaces ==
  ASSUME OpsOK, PlacesOK, NEW u \in Users, Step(u)
  PROVE  PlacesOK'
<1>1. CASE Begin(u)
  <2>1. PlaceOK(op'[u])
    <3>1. PICK file \in FilesOf[u] \cap used :
            op'[u] = NewOperation(file, \E w \in Users : Busy(w))
      BY <1>1, Begun
    <3> QED BY <3>1 DEF NewOperation, PlaceOK, Written, Thresholds
  <2>2. ASSUME NEW v \in Users \ {u}, Busy(v)' PROVE PlaceOK(op'[v])
    <3>1. op'[v] = Hit[v] /\ Busy(v)
      BY <1>1, <2>2, Begun DEF Hit, Busy
    <3>2. PlaceOK(op[v]) /\ Hit[v].pc = op[v].pc /\ Hit[v].file = op[v].file
      BY <3>1, HitPlaces DEF PlacesOK
    <3> QED BY <3>1, <3>2 DEF PlaceOK
  <2> QED BY <2>1, <2>2 DEF PlacesOK, PlaceOK
<1>2. CASE ~Begin(u)
  <2>1. Busy(u) /\ op[u] \in Operation /\ PlaceOK(op[u])
    BY <1>2, OnlyItsOwn DEF OpsOK, Busy, PlacesOK, PlaceOK
  <2>2. op'[u] = NULL \/ PlaceOK(op'[u])
    <3> USE <2>1 DEF At, OpsOK, Operation, PlaceOK, Written, Thresholds
    <3>1. CASE Scan(u)
      <4>1. /\ op'[u].file = op[u].file
            /\ op'[u].pc = CASE op[u].file = "speed" -> "clamp"
                             [] op[u].file = "enabled" -> "call"
                             [] op[u].file \in Thresholds -> "write" [] OTHER -> "read"
        BY <3>1 DEF Scan
      <4> HIDE <2>1 DEF Operation
      <4> QED BY <4>1
    <3>2. CASE ClampSpeed(u)
      BY <3>2 DEF ClampSpeed
    <3>3. CASE Read(u)
      <4>1. \/ op'[u] = NULL
            \/ /\ op'[u].file = op[u].file /\ op[u].file \notin Seeing
               /\ op'[u].pc = IF op[u].file = "distance" THEN "on" ELSE "write"
        BY <3>3 DEF Read, Finish
      <4> QED BY <4>1, <3>3 DEF Read, Files
    <3>4. CASE Write(u)
      BY <3>4 DEF Write, Finish
    <3>5. CASE TemporaryEnable(u)
      BY <3>5 DEF TemporaryEnable, Goto
    <3>6. CASE TemporaryWrite(u)
      BY <3>6 DEF TemporaryWrite
    <3>7. CASE Restore(u)
      BY <3>7 DEF Restore, Finish
    <3>8. CASE CallEnable(u)
      BY <3>8 DEF CallEnable
    <3> QED BY <1>2, <3>1, <3>2, <3>3, <3>4, <3>5, <3>6, <3>7, <3>8 DEF Step
  <2>3. \A v \in Users \ {u} : op'[v] = op[v]
    BY <1>2, OnlyItsOwn
  <2> QED BY <2>2, <2>3 DEF PlacesOK, PlaceOK, Busy
<1> QED BY <1>1, <1>2

(* A driver that switches its chip leaves every operation at its place.    *)
LEMMA SwitchedPlaces ==
  ASSUME OpsOK, PlacesOK, RegisterSwitched
  PROVE  OpsOK' /\ PlacesOK'
<1>1. PlacesOK'
  <2>1. ASSUME NEW v \in Users, Busy(v)' PROVE PlaceOK(op'[v])
    <3>1. op'[v] = Hit[v] /\ Busy(v)
      BY <2>1 DEF RegisterSwitched, Hit, Busy
    <3>2. PlaceOK(op[v]) /\ Hit[v].pc = op[v].pc /\ Hit[v].file = op[v].file
      BY <3>1, HitPlaces DEF PlacesOK
    <3> QED BY <3>1, <3>2 DEF PlaceOK
  <2> QED BY <2>1 DEF PlacesOK
<1>2. PICK r \in {"prox", "als"}, bit \in {0, 1} :
        /\ conf' = [conf EXCEPT ![r] = bit] /\ asked' = [asked EXCEPT ![r] = bit]
        /\ unsure' = unsure \ {r}
  BY DEF RegisterSwitched
<1>3. conf' \in Registered /\ asked' \in Registered /\ unsure' \subseteq Registers
  BY <1>2 DEF OpsOK, Registered, Registers
<1>4. OpsOK'
  BY <1>3, HitTypes DEF RegisterSwitched, OpsOK
<1> QED BY <1>1, <1>4

\* A step of a user touches nothing of libsensors and its chips.
LEMMA StepsLeaveTheDrivers ==
  ASSUME NEW u \in Users, Step(u) PROVE UNCHANGED <<used, hal>>
  BY DEF Step, Begin, Scan, ClampSpeed, CallEnable, Read, Write, TemporaryEnable, TemporaryWrite, Restore

\* The calls of libsensors and the restarts of its process keep the types of
\* what the drivers and the chips know.
LEMMA DriverTypes ==
  ASSUME HalOK, [Next]_vars PROVE HalOK'
<1> USE SensorControlAssumption DEF HalOK
<1>1. CASE UNCHANGED vars
  BY <1>1 DEF vars, hal
<1>2. ASSUME NEW s \in Switched, Enable(s) PROVE HalOK'
  <2>1. PICK en \in BOOLEAN, opened \in BOOLEAN, done \in BOOLEAN : Requested(s, en, opened, done)
    BY <1>2 DEF Enable
  <2> USE DEF Requested
  <2>2. drv' \in [Switched -> [enabled : BOOLEAN, open : BOOLEAN]]
    BY <2>1 DEF Believes, StateAfter
  <2>3. flag' \in [Switched -> BOOLEAN] /\ lost' \subseteq Switched
    BY <2>1 DEF ChipSwitched
  <2>4. /\ hwdelay' \in [kxtf9 : Nat, ak8973 : Nat] /\ late' \subseteq {"kxtf9", "ak8973"}
        /\ wanted' \in Nat
    BY <2>1 DEF AccelDelay
  <2> QED BY <1>2, <2>2, <2>3, <2>4 DEF Enable, compass
<1>3. CASE SetDelayAccel
  BY <1>3 DEF SetDelayAccel, AccelDelay, compass
<1>4. CASE EnableCompass
  <2>1. PICK w \in Whats, en \in BOOLEAN, opens \in BOOLEAN, ok \in BOOLEAN :
        CompassSwitched(w, en, opens, ok)
    BY <1>4, Zenon DEF EnableCompass
  <2> USE DEF CompassSwitched
  <2>2. /\ mEnabled' \subseteq Whats /\ akflags' \subseteq Whats /\ left' \subseteq Whats
        /\ open' \in BOOLEAN
    BY <2>1
  <2>3. hwdelay' \in [kxtf9 : Nat, ak8973 : Nat] /\ late' \subseteq {"kxtf9", "ak8973"}
    BY <2>1, <2>2, SmallestIsThere DEF updateDelay
  <2> QED BY <1>4, <2>2, <2>3 DEF EnableCompass
<1>5. CASE SetDelayCompass
  <2>1. mDelays' \in [Whats -> Nat]
    BY <1>5 DEF SetDelayCompass
  <2>2. hwdelay' \in [kxtf9 : Nat, ak8973 : Nat] /\ late' \subseteq {"kxtf9", "ak8973"}
    <3>1. mEnabled # {} => SmallestDelay(mEnabled, mDelays') \in Nat
      BY <2>1, SmallestIsThere
    <3>2. updateDelay(mEnabled, mDelays')
      BY <1>5 DEF SetDelayCompass
    <3> QED BY <3>1, <3>2 DEF updateDelay
  <2> QED BY <1>5, <2>1, <2>2 DEF SetDelayCompass
<1>6. CASE Crash
  BY <1>6 DEF Crash, compass
<1>7. CASE Restart
  <2>1. drv' \in [Switched -> [enabled : BOOLEAN, open : BOOLEAN]] /\ lost' \subseteq Switched
    BY <1>7 DEF Restart, isEnabled
  <2> QED BY <1>7, <2>1 DEF Restart
<1>8. ASSUME NEW u \in Users, Step(u) PROVE HalOK'
  BY <1>8, StepsLeaveTheDrivers DEF hal
<1> QED BY <1>1, <1>2, <1>3, <1>4, <1>5, <1>6, <1>7, <1>8 DEF Next

(* Every operation of the files is at a place of its own, and all of the   *)
(* state keeps its type, over any calls, failures and restarts.            *)
THEOREM TypeCorrect == Spec => [](TypeOK /\ PlacesOK)
<1>1. Init => TypeOK /\ PlacesOK
  <2> SUFFICES ASSUME Init PROVE TypeOK /\ PlacesOK
    OBVIOUS
  <2> USE SensorControlAssumption
  <2>1. Zero \in Registered
    BY DEF Zero, Registered
  <2>2. OpsOK /\ PlacesOK
    BY <2>1 DEF Init, OpsOK, PlacesOK, Busy, Registered, Written
  <2>3. HalOK
    BY DEF Init, HalOK
  <2> QED BY <2>2, <2>3 DEF TypeOK
<1>2. TypeOK /\ PlacesOK /\ [Next]_vars => (TypeOK /\ PlacesOK)'
  <2> SUFFICES ASSUME TypeOK, PlacesOK, [Next]_vars PROVE (TypeOK /\ PlacesOK)'
    OBVIOUS
  <2>1. OpsOK' /\ PlacesOK'
    <3>1. CASE RegisterSwitched
      BY <3>1, SwitchedPlaces DEF TypeOK
    <3>2. ASSUME NEW u \in Users, Step(u) PROVE OpsOK' /\ PlacesOK'
      BY <3>2, StepTypes, StepPlaces DEF TypeOK
    <3>3. CASE UNCHANGED <<conf, op, buf, glob, asked, unsure, raced>>
      BY <3>3 DEF TypeOK, OpsOK, PlacesOK, Busy
    <3> QED BY <3>1, <3>2, <3>3, WhoChangesTheRegister
  <2> QED BY <2>1, DriverTypes DEF TypeOK
<1> QED BY <1>1, <1>2, PTL DEF Spec

-----------------------------------------------------------------------------
(* What libsensors believes of the chips *)

\* A call that reached the chip, or was refused, leaves the driver with the
\* truth unless it is marked as lost.
LEMMA EnableKnows ==
  ASSUME HalOK, NEW s \in Switched, Enable(s), alive => DriverKnows, NEW t \in Switched \ lost'
  PROVE  drv'[t].enabled = flag'[t] /\ drv'[t].open = drv'[t].enabled
<1> USE DEF HalOK
<1>1. PICK en \in BOOLEAN, opened \in BOOLEAN, done \in BOOLEAN :
        /\ (drv[s].open => opened) /\ (drv[s].enabled /\ opened => drv[s].open) /\ (done => opened)
        /\ Requested(s, en, opened, done)
  BY DEF Enable
<1>2. /\ alive /\ en # drv[s].enabled
      /\ drv'[s] = [enabled |-> Believes(s, drv[s].enabled, en, done),
                    open |-> opened /\ StateAfter(drv[s].enabled, en, done)]
      /\ \A r \in Switched \ {s} : drv'[r] = drv[r] /\ flag'[r] = flag[r]
      /\ flag'[s] = IF done THEN en ELSE flag[s]
      /\ lost' = IF done THEN lost \ {s} ELSE IF ~en \/ s = "light" THEN lost \cup {s} ELSE lost
  BY <1>1 DEF Requested, ChipSwitched, Enable
<1>3. CASE t # s
  BY <1>2, <1>3 DEF DriverKnows
<1>4. CASE t = s /\ done
  BY <1>1, <1>2, <1>4 DEF Believes, StateAfter
<1>5. CASE t = s /\ ~done
  <2>1. en = TRUE /\ drv[s].enabled = FALSE /\ s # "light" /\ s \notin lost
    BY <1>2, <1>5
  <2> QED BY <2>1, <1>2, <1>5 DEF Believes, StateAfter, DriverKnows
<1> QED BY <1>3, <1>4, <1>5

(* Over any order of calls, failures of the devices and restarts of the    *)
(* process, what a driver keeps in mEnabled is what its chip does          *)
(* (SensorKXTF9.cpp:57-84, SensorISL29030.cpp:69-96 and 190-221,           *)
(* SensorAK8973.cpp:73-126): it errs only where a call failed, and on      *)
(* the compass's sensors that were on when the process died.               *)
THEOREM DriversKnow == Spec => []DriverKnows
<1>1. Init => DriverKnows
  <2> SUFFICES ASSUME Init PROVE DriverKnows
    OBVIOUS
  <2>1. \A s \in Switched : drv[s].enabled = flag[s] /\ drv[s].open = drv[s].enabled
    BY DEF Init
  <2>2. mEnabled = akflags \ left /\ open = (mEnabled # {})
    BY DEF Init
  <2> QED BY <2>1, <2>2 DEF DriverKnows
<1>2. TypeOK /\ DriverKnows /\ [Next]_vars => DriverKnows'
  <2> SUFFICES ASSUME TypeOK, DriverKnows, [Next]_vars, alive' PROVE DriverKnows'
    BY DEF DriverKnows
  <2> USE DEF TypeOK
  <2>1. CASE UNCHANGED vars
    BY <2>1 DEF vars, hal, DriverKnows
  <2>2. ASSUME NEW s \in Switched, Enable(s) PROVE DriverKnows'
    <3>1. \A t \in Switched \ lost' : drv'[t].enabled = flag'[t] /\ drv'[t].open = drv'[t].enabled
      BY <2>2, EnableKnows
    <3>2. UNCHANGED <<mEnabled, open, akflags, left>> /\ alive
      BY <2>2 DEF Enable, compass
    <3> QED BY <3>1, <3>2 DEF DriverKnows
  <2>3. CASE SetDelayAccel
    BY <2>3 DEF SetDelayAccel, compass, DriverKnows
  <2>4. CASE EnableCompass
    <3>1. PICK w \in Whats, en \in BOOLEAN, opens \in BOOLEAN, ok \in BOOLEAN :
          CompassSwitched(w, en, opens, ok)
      BY <2>4, Zenon DEF EnableCompass
    <3>2. mEnabled = akflags \ left /\ open = (mEnabled # {})
      BY <2>4 DEF EnableCompass, DriverKnows
    <3>3. mEnabled' = akflags' \ left' /\ open' = (mEnabled' # {})
      BY <3>1, <3>2 DEF CompassSwitched
    <3> QED BY <2>4, <3>3 DEF EnableCompass, DriverKnows
  <2>5. CASE SetDelayCompass
    BY <2>5 DEF SetDelayCompass, DriverKnows
  <2>6. CASE Crash
    BY <2>6 DEF Crash
  <2>7. CASE Restart
    <3>1. PICK unread \in SUBSET (Switched \cap used) :
            /\ drv' = [s \in Switched |-> [enabled |-> flag[s] /\ s \notin unread,
                                          open |-> flag[s] /\ s \notin unread]]
            /\ lost' = unread
      BY <2>7 DEF Restart, isEnabled
    <3>2. ASSUME NEW s \in Switched \ lost'
          PROVE  drv'[s].enabled = flag'[s] /\ drv'[s].open = drv'[s].enabled
      <4>1. drv'[s].enabled = (flag[s] /\ s \notin lost') /\ drv'[s].open = drv'[s].enabled
        BY <3>1
      <4>2. flag[s] \in BOOLEAN /\ flag'[s] = flag[s]
        BY <2>7 DEF Restart, HalOK
      <4> QED BY <4>1, <4>2
    <3>3. mEnabled' = {} /\ open' = FALSE /\ akflags' = akflags /\ left' = akflags
      BY <2>7 DEF Restart
    <3>4. mEnabled' = akflags' \ left' /\ open' = (mEnabled' # {})
      BY <3>3
    <3> QED BY <3>2, <3>4 DEF DriverKnows
  <2>8. ASSUME NEW u \in Users, Step(u) PROVE DriverKnows'
    BY <2>8, StepsLeaveTheDrivers DEF hal, DriverKnows
  <2> QED BY <2>1, <2>2, <2>3, <2>4, <2>5, <2>6, <2>7, <2>8 DEF Next
<1> QED BY <1>1, <1>2, TypeCorrect, PTL DEF Spec

(* Whatever the order of switching and setting, and with any failures, the *)
(* compass's chip has the smallest delay of its sensors that are on        *)
(* (SensorAK8973.cpp:149-169), the accelerometer the one it was last told  *)
(* (SensorKXTF9.cpp:86-103), unless the last ioctl for it failed.          *)
THEOREM DelaysAreAsWanted == Spec => []DelayWanted
<1>1. Init => DelayWanted
  BY DEF Init, DelayWanted
<1>2. TypeOK /\ DelayWanted /\ [Next]_vars => DelayWanted'
  <2> SUFFICES ASSUME TypeOK, DelayWanted, [Next]_vars, alive' PROVE DelayWanted'
    BY DEF DelayWanted
  <2> USE DEF TypeOK
  <2> DEFINE Compass == mEnabled # {} /\ "ak8973" \notin late
                          => hwdelay.ak8973 = SmallestDelay(mEnabled, mDelays)
             Accel == drv["kxtf9"].enabled /\ "kxtf9" \notin late => hwdelay.kxtf9 = wanted
  <2>0. (alive => Compass /\ Accel) /\ (Compass' /\ Accel' => DelayWanted')
    BY DEF DelayWanted, SmallestDelay
  <2>1. CASE UNCHANGED vars
    BY <2>1 DEF vars, hal, DelayWanted
  <2>2. ASSUME NEW s \in Switched, Enable(s) PROVE DelayWanted'
    <3>1. PICK en \in BOOLEAN, opened \in BOOLEAN, done \in BOOLEAN : Requested(s, en, opened, done)
      BY <2>2 DEF Enable
    <3>2. UNCHANGED <<mEnabled, mDelays>> /\ alive
      BY <2>2 DEF Enable, compass
    <3>3. hwdelay'.ak8973 = hwdelay.ak8973 /\ ("ak8973" \in late' <=> "ak8973" \in late)
      BY <3>1 DEF Requested, AccelDelay, HalOK
    <3>4. Accel'
      <4>1. CASE s = "kxtf9" /\ (done \/ ~en)
        <5>1. /\ AccelDelay(StateAfter(drv[s].enabled, en, done), DEFAULT_DELAY)
              /\ drv'["kxtf9"].enabled = StateAfter(drv[s].enabled, en, done)
          BY <3>1, <4>1 DEF Requested, Believes, HalOK
        <5> QED BY <5>1 DEF AccelDelay, HalOK
      <4>2. CASE s = "kxtf9" /\ ~done /\ en
        BY <3>1, <4>2 DEF Requested, Believes, StateAfter, HalOK, Switched
      <4>3. CASE s # "kxtf9"
        BY <2>0, <3>1, <3>2, <4>3 DEF Requested, HalOK, Switched
      <4> QED BY <4>1, <4>2, <4>3
    <3>5. Compass'
      BY <2>0, <3>2, <3>3
    <3> QED BY <2>0, <3>4, <3>5
  <2>3. CASE SetDelayAccel
    <3>1. UNCHANGED <<mEnabled, mDelays>> /\ alive
      BY <2>3 DEF SetDelayAccel, compass
    <3> QED BY <2>0, <2>3, <3>1 DEF SetDelayAccel, AccelDelay, HalOK
  <2>4. CASE EnableCompass
    <3>1. \/ UNCHANGED <<mEnabled, hwdelay, late>>
          \/ updateDelay(mEnabled', mDelays)
      BY <2>4 DEF EnableCompass, CompassSwitched
    <3>2. UNCHANGED <<mDelays, drv, wanted>> /\ alive
      BY <2>4 DEF EnableCompass
    <3> QED BY <2>0, <3>1, <3>2 DEF updateDelay, HalOK
  <2>5. CASE SetDelayCompass
    <3>1. updateDelay(mEnabled, mDelays') /\ UNCHANGED <<mEnabled, drv, wanted>> /\ alive
      BY <2>5 DEF SetDelayCompass
    <3> QED BY <2>0, <3>1 DEF updateDelay, HalOK
  <2>6. CASE Crash
    BY <2>6 DEF Crash
  <2>7. CASE Restart
    BY <2>7 DEF Restart, DelayWanted
  <2>8. ASSUME NEW u \in Users, Step(u) PROVE DelayWanted'
    BY <2>8, StepsLeaveTheDrivers DEF hal, DelayWanted
  <2> QED BY <2>1, <2>2, <2>3, <2>4, <2>5, <2>6, <2>7, <2>8 DEF Next
<1> QED BY <1>1, <1>2, TypeCorrect, PTL DEF Spec

-----------------------------------------------------------------------------
(* The settings of the one register *)

(* An operation that nothing has overlapped is alone.                      *)
Unhit(u) == Busy(u) /\ ~op[u].hit
AloneInv == \A u \in Users : Unhit(u) => \A v \in Users : Busy(v) => v = u

(* The value of such an operation o is in the buffer b until it is scanned, *)
(* then in the global g[o.file] that the register is made from.            *)
ValueOK(o, b, g) ==
  /\ o.pc = "scan" => b \in Values[o.file]
  /\ o.pc \in {"call", "read", "write"} /\ o.file \in {"enabled", "highpower"} => o.value \in {0, 1}
  /\ o.pc \in {"read", "write"} /\ o.file = "speed" => o.value <= 6
  /\ o.pc \in {"clamp", "call", "read", "write"} /\ o.file \in Written => g[o.file] = o.value
ValueInv == \A u \in Users : Unhit(u) => ValueOK(op[u], buf, glob)

(* What it has read, and what it is going to write back, are the settings  *)
(* a, but for the unsure ones.                                             *)
CopiesOK(o, a, un) ==
  \A r \in (Registers \ Thresholds) \ un :
    /\ o.pc \in {"write", "on", "on_write", "restore"} /\ o.file \notin Thresholds => o.regv[r] = a[r]
    /\ o.pc = "on_write" => o.again[r] = a[r]
CopiesInv == \A u \in Users : Unhit(u) => CopiesOK(op[u], asked, unsure)

(* A register that is no longer as it was set is one that an operation     *)
(* under way is going to declare unsure, or the sensor's bit while the     *)
(* distance is read.                                                       *)
Kept ==
  \A r \in Registers \ unsure :
    \/ conf[r] = asked[r]
    \/ \E u \in Users : Busy(u) /\ op[u].hit /\ r \in Touched(u)
    \/ r = "prox" /\ \E u \in Users : At(u, "restore")

SettingsInv == AloneInv /\ ValueInv /\ CopiesInv /\ Kept

\* A read that does not end the operation.
ReadOn(u, ok) ==
  /\ op' = [op EXCEPT ![u].regv = IF ok THEN conf ELSE Zero, ![u].hit = @ \/ ~ok,
                      ![u].pc = IF op[u].file = "distance" THEN "on" ELSE "write"]
  /\ UNCHANGED <<asked, unsure, raced>>

\* The steps that do not end an operation leave it one.
LEMMA GoesOn ==
  ASSUME OpsOK, PlacesOK, NEW u \in Users, Busy(u),
         \/ Scan(u) \/ ClampSpeed(u) \/ CallEnable(u) \/ TemporaryEnable(u) \/ TemporaryWrite(u)
         \/ \E ok \in BOOLEAN : ReadOn(u, ok)
  PROVE  Busy(u)'
<1>1. op[u] \in Operation /\ Zero \in Registered
  BY DEF OpsOK, Busy, Zero, Registered
<1>2. op'[u] \in Operation
  <2>1. CASE Scan(u)
    <3> DEFINE place == CASE op[u].file = "speed" -> "clamp" [] op[u].file = "enabled" -> "call"
                          [] op[u].file \in Thresholds -> "write" [] OTHER -> "read"
    <3>1. op'[u] = [op[u] EXCEPT !.value = buf, !.pc = place]
      BY <2>1 DEF Scan, OpsOK
    <3>2. place \in {"clamp", "call", "read", "write"} /\ buf \in Nat
      BY DEF OpsOK
    <3> HIDE DEF place
    <3> QED BY <1>1, <3>1, <3>2 DEF Operation
  <2>2. CASE ClampSpeed(u)
    <3>1. op'[u] = [op[u] EXCEPT !.pc = "read", !.value = Clamped(@)]
      BY <2>2 DEF ClampSpeed, OpsOK
    <3>2. Clamped(op[u].value) \in Nat
      BY <1>1 DEF Clamped, Operation
    <3> QED BY <1>1, <3>1, <3>2 DEF Operation
  <2>3. CASE TemporaryEnable(u)
    <3>1. \/ op'[u] = [op[u] EXCEPT !.pc = "on_write", !.again = conf]
          \/ op'[u] = [op[u] EXCEPT !.pc = "restore"]
      BY <2>3 DEF TemporaryEnable, Goto, OpsOK
    <3>2. conf \in [Registers -> Nat]
      BY DEF OpsOK, Registered
    <3> QED BY <1>1, <3>1, <3>2 DEF Operation
  <2>4. CASE TemporaryWrite(u)
    <3>1. op'[u] = [op[u] EXCEPT !.pc = "restore", !.again = Zero]
      BY <2>4 DEF TemporaryWrite, OpsOK
    <3> QED BY <1>1, <3>1 DEF Operation, Registered
  <2>5. ASSUME NEW ok \in BOOLEAN, ReadOn(u, ok) PROVE op'[u] \in Operation
    <3> DEFINE regv == IF ok THEN conf ELSE Zero
               place == IF op[u].file = "distance" THEN "on" ELSE "write"
    <3>1. op'[u] = [op[u] EXCEPT !.regv = regv, !.hit = @ \/ ~ok, !.pc = place]
      BY <2>5 DEF ReadOn, OpsOK
    <3>2. regv \in [Registers -> Nat] /\ place \in {"on", "write"}
      BY <1>1 DEF OpsOK, Registered
    <3> HIDE DEF regv, place
    <3> QED BY <1>1, <3>1, <3>2 DEF Operation
  <2>6. CASE CallEnable(u)
    <3>1. op'[u] = [op[u] EXCEPT !.pc = "read", !.value = glob["enabled"]]
      BY <2>6 DEF CallEnable, OpsOK
    <3>2. glob["enabled"] \in Nat
      BY DEF OpsOK, Written
    <3> QED BY <1>1, <3>1, <3>2 DEF Operation
  <2> QED BY <2>1, <2>2, <2>3, <2>4, <2>5, <2>6
<1> QED BY <1>2, SensorControlAssumption DEF Busy

\* An overlapped operation goes on as one.
LEMMA HitStays ==
  ASSUME OpsOK, PlacesOK, NEW u \in Users, Step(u), ~Begin(u), op[u].hit
  PROVE  \/ /\ op'[u] = NULL
            /\ unsure' = unsure \cup Touched(u)
            /\ asked' = [r \in Registers |-> IF r \in Touched(u) THEN 0 ELSE asked[r]]
         \/ Busy(u)' /\ op'[u].hit /\ op'[u].file = op[u].file /\ UNCHANGED <<asked, unsure>>
<1>0. Busy(u) /\ op[u] \in Operation
  BY OnlyItsOwn DEF OpsOK, Busy
<1>1. ASSUME NEW hit, hit = TRUE, Finish(u, hit)
      PROVE  /\ op'[u] = NULL
             /\ unsure' = unsure \cup Touched(u)
             /\ asked' = [r \in Registers |-> IF r \in Touched(u) THEN 0 ELSE asked[r]]
  BY <1>1, FinishEffect DEF OpsOK
<1> USE <1>0 DEF At, OpsOK, Operation
<1>2. CASE Scan(u) \/ ClampSpeed(u) \/ CallEnable(u)
  <2>1. op'[u].hit /\ op'[u].file = op[u].file /\ UNCHANGED <<asked, unsure>>
    BY <1>2 DEF Scan, ClampSpeed, CallEnable, ghosts
  <2> QED BY <1>2, <2>1, GoesOn
<1>3. CASE Read(u)
  <2>1. PICK ok \in BOOLEAN :
          Finish(u, op[u].hit \/ ~ok) \/ ReadOn(u, ok)
    BY <1>3 DEF Read, ReadOn, ghosts
  <2>2. CASE Finish(u, op[u].hit \/ ~ok)
    BY <2>2, FinishEffect
  <2>3. CASE ReadOn(u, ok)
    <3>1. op'[u].hit /\ op'[u].file = op[u].file
      BY <2>3 DEF ReadOn
    <3> QED BY <2>3, <3>1, GoesOn DEF ReadOn
  <2> QED BY <2>1, <2>2, <2>3
<1>4. CASE Write(u) \/ Restore(u)
  <2>1. Finish(u, TRUE)
    BY <1>4 DEF Write, Restore
  <2> QED BY <1>1, <2>1
<1>5. CASE TemporaryEnable(u) \/ TemporaryWrite(u)
  <2>1. op'[u].hit /\ op'[u].file = op[u].file /\ UNCHANGED <<asked, unsure>>
    BY <1>5 DEF TemporaryEnable, TemporaryWrite, Goto, ghosts
  <2> QED BY <1>5, <2>1, GoesOn
<1> QED BY <1>2, <1>3, <1>4, <1>5 DEF Step

\* No operation writes a register but those it is said to touch.
LEMMA OnlyTouched ==
  ASSUME OpsOK, PlacesOK, NEW u \in Users, Step(u), NEW r \in Registers, r \notin Touched(u)
  PROVE  conf'[r] = conf[r]
<1>1. CASE Begin(u) \/ Scan(u) \/ ClampSpeed(u) \/ CallEnable(u) \/ Read(u) \/ TemporaryEnable(u)
  BY <1>1 DEF Begin, Scan, ClampSpeed, CallEnable, Read, TemporaryEnable
<1>2. CASE Write(u)
  <2>1. op[u].file \in Written /\ op[u].file \notin Seeing \cup {"distance"}
    BY <1>2 DEF Write, At, PlacesOK, PlaceOK, Written, Thresholds, Seeing
  <2>2. CASE op[u].file \in Thresholds
    <3>1. NewValue(u) = [conf EXCEPT ![op[u].file] = Byte(glob[op[u].file])] /\ r # op[u].file
      BY <2>1, <2>2 DEF NewValue, Thresholds, Touched, Own, FieldOf
    <3> QED BY <1>2, <2>2, <3>1 DEF Write, OpsOK, Registered
  <2>3. CASE op[u].file \notin Thresholds
    <3>1. r \in Thresholds
      BY <2>1, <2>3 DEF Touched, Registers, Thresholds
    <3> QED BY <1>2, <2>3, <3>1 DEF Write, WriteRegister
  <2> QED BY <2>2, <2>3
<1>3. CASE TemporaryWrite(u) \/ Restore(u)
  <2>1. op[u].file = "distance"
    BY <1>3 DEF TemporaryWrite, Restore, At, PlacesOK, PlaceOK
  <2>2. r \in Thresholds
    BY <2>1 DEF Touched, Registers, Thresholds, Seeing
  <2> QED BY <1>3, <2>2 DEF TemporaryWrite, Restore, WriteRegister
<1> QED BY <1>1, <1>2, <1>3 DEF Step

\* An operation that ends declares unsure what it touched, if it was
\* overlapped or failed; else its own register is as it wrote it, and the
\* others as they were set.
LEMMA EndAlone ==
  ASSUME OpsOK, NEW u \in Users, Busy(u), NEW hit, Finish(u, hit),
         \A r \in (Registers \ unsure) \ Touched(u) : conf'[r] = asked[r],
         ~hit => /\ \A r \in (Registers \ unsure) \ Own(u) : conf'[r] = asked[r]
                 /\ \A r \in Own(u) : conf'[r] = Byte(op[u].value)
  PROVE  op'[u] = NULL /\ \A r \in Registers \ unsure' : conf'[r] = asked'[r]
<1>1. CASE hit
  <2>1. /\ op' = [op EXCEPT ![u] = NULL]
        /\ unsure' = unsure \cup Touched(u)
        /\ asked' = [r \in Registers |-> IF r \in Touched(u) THEN 0 ELSE asked[r]]
    BY <1>1, FinishEffect
  <2> QED BY <2>1 DEF OpsOK
<1>2. CASE ~hit
  <2>1. /\ op' = [op EXCEPT ![u] = NULL]
        /\ unsure' = unsure \ Own(u)
        /\ asked' = [r \in Registers |-> IF r \in Own(u) THEN Byte(op[u].value) ELSE asked[r]]
    BY <1>2, FinishEffect
  <2> QED BY <1>2, <2>1 DEF OpsOK
<1> QED BY <1>1, <1>2

\* The state between two steps of an operation that is alone.
AloneOK(u) ==
  /\ ~op[u].hit => ValueOK(op[u], buf, glob) /\ CopiesOK(op[u], asked, unsure)
  /\ \A r \in Registers \ unsure : conf[r] = asked[r] \/ (r = "prox" /\ op[u].pc = "restore")

\* Each step of an operation that nothing overlaps.
LEMMA AloneStep ==
  ASSUME OpsOK, PlacesOK, NEW u \in Users, Step(u), ~Begin(u), ~op[u].hit, AloneOK(u)
  PROVE  \/ op'[u] = NULL /\ \A r \in Registers \ unsure' : conf'[r] = asked'[r]
         \/ Busy(u)' /\ AloneOK(u)'
<1> DEFINE o == op[u]
<1>1. /\ Busy(u) /\ o \in Operation /\ PlaceOK(o)
      /\ ValueOK(o, buf, glob) /\ CopiesOK(o, asked, unsure)
  BY OnlyItsOwn DEF OpsOK, Busy, PlacesOK, AloneOK
<1>2. ASSUME o.pc # "restore"
      PROVE  \A r \in Registers \ unsure : conf[r] = asked[r]
  BY <1>2 DEF AloneOK
<1>3. CASE Scan(u)
  <2>1. o.file \in Written /\ o.pc = "scan"
    BY <1>1, <1>3 DEF Scan, At, PlaceOK
  <2> DEFINE place == CASE o.file = "speed" -> "clamp" [] o.file = "enabled" -> "call"
                        [] o.file \in Thresholds -> "write" [] OTHER -> "read"
  <2>2. op'[u] = [o EXCEPT !.value = buf, !.pc = place]
    BY <1>3 DEF Scan, OpsOK
  <2>3. /\ place \in {"clamp", "call", "read", "write"} /\ (place = "write" => o.file \in Thresholds)
        /\ o.file = "speed" => place = "clamp"
    BY DEF Thresholds
  <2> HIDE DEF place
  <2>4. /\ op'[u].file = o.file /\ op'[u].value = buf /\ op'[u].pc = place
        /\ UNCHANGED <<conf, buf, asked, unsure>>
    <3>1. op'[u].file = o.file /\ op'[u].value = buf /\ op'[u].pc = place
      BY <1>1, <2>2 DEF Operation
    <3> QED BY <1>3, <3>1 DEF Scan, ghosts
  <2>5. glob'[o.file] = buf
    BY <1>3, <2>1 DEF Scan, OpsOK
  <2>6. buf \in Values[o.file]
    BY <1>1, <2>1 DEF ValueOK
  <2>7. o.file \in {"enabled", "highpower"} => buf \in {0, 1}
    BY <2>6, SensorControlAssumption
  <2>8. ValueOK(op'[u], buf', glob')
    BY <2>3, <2>4, <2>5, <2>7 DEF ValueOK, Thresholds
  <2>9. CopiesOK(op'[u], asked', unsure')
    BY <2>3, <2>4 DEF CopiesOK
  <2> QED BY <1>1, <1>2, <1>3, <2>1, <2>4, <2>8, <2>9, GoesOn DEF AloneOK
<1>4. CASE ClampSpeed(u)
  <2>1. o.file = "speed" /\ o.pc = "clamp" /\ glob["speed"] = o.value
    BY <1>1, <1>4 DEF ClampSpeed, At, PlaceOK, ValueOK, Written
  <2>2. /\ op'[u].file = o.file /\ op'[u].pc = "read" /\ op'[u].value = Clamped(o.value)
        /\ glob'["speed"] = Clamped(glob["speed"])
        /\ op'[u].value <= 6
        /\ UNCHANGED <<conf, asked, unsure>>
    BY <1>1, <1>4, <2>1 DEF ClampSpeed, Clamped, OpsOK, Written, Operation, ghosts
  <2>3. ValueOK(op'[u], buf', glob') /\ CopiesOK(op'[u], asked', unsure')
    BY <2>1, <2>2 DEF ValueOK, CopiesOK
  <2> QED BY <1>1, <1>2, <1>4, <2>1, <2>2, <2>3, GoesOn DEF AloneOK
<1>5. CASE Read(u)
  <2>1. PICK ok \in BOOLEAN :
          LET regv == IF ok THEN conf ELSE Zero
              gone == \/ o.file = "enabled" /\ ~ok
                      \/ o.file = "distance" /\ regv["prox"] = 1
                      \/ o.file \in Seeing
          IN  /\ IF gone THEN Finish(u, o.hit \/ ~ok)
                 ELSE /\ op' = [op EXCEPT ![u].regv = regv, ![u].hit = @ \/ ~ok,
                                       ![u].pc = IF o.file = "distance" THEN "on" ELSE "write"]
                      /\ UNCHANGED <<asked, unsure, raced>>
              /\ glob' = Seen(o.file, ok, regv)
    BY <1>5 DEF Read, ghosts
  <2>2. /\ UNCHANGED <<conf, buf>> /\ o.pc = "read"
        /\ \A r \in Registers \ unsure : conf[r] = asked[r]
    BY <1>2, <1>5 DEF Read, At
  <2>3. CASE Finish(u, o.hit \/ ~ok) /\ o.file \in Seeing \cup {"distance"}
    <3>1. Own(u) = {}
      BY <2>3 DEF Own, Written, Thresholds, Seeing
    <3> QED BY <1>1, <2>2, <2>3, <3>1, EndAlone
  <2>4. CASE Finish(u, o.hit \/ ~ok) /\ o.file = "enabled" /\ ~ok
    BY <1>1, <2>2, <2>4, EndAlone
  <2>5. CASE ReadOn(u, ok) /\ o.file \notin Seeing
    <3>1. /\ op'[u].file = o.file /\ op'[u].pc \in {"on", "write"} /\ op'[u].value = o.value
          /\ op'[u].pc = "on" => o.file = "distance"
          /\ op'[u].hit = ~ok /\ op'[u].regv = IF ok THEN conf ELSE Zero
      BY <1>1, <2>5 DEF ReadOn, OpsOK, Operation
    <3>2. o.file \in Written => glob' = glob
      BY <2>1 DEF Seen
    <3>3. ~op'[u].hit => ValueOK(op'[u], buf', glob')
      BY <1>1, <2>2, <3>1, <3>2 DEF ValueOK, Thresholds, Written
    <3>4. ~op'[u].hit => CopiesOK(op'[u], asked', unsure')
      BY <2>2, <2>5, <3>1 DEF CopiesOK, ReadOn
    <3> QED BY <1>1, <2>2, <2>5, <3>1, <3>3, <3>4, GoesOn DEF AloneOK, ReadOn
  <2> QED BY <2>1, <2>3, <2>4, <2>5 DEF ReadOn
<1>6. CASE Write(u)
  <2>1. o.file \in Written /\ o.pc = "write" /\ \A r \in Registers \ unsure : conf[r] = asked[r]
    BY <1>1, <1>2, <1>6 DEF Write, At, PlaceOK
  <2>2. CASE UNCHANGED conf /\ Finish(u, TRUE)
    BY <1>1, <2>1, <2>2, EndAlone
  <2>3. CASE /\ IF o.file \in Thresholds THEN conf' = NewValue(u) ELSE WriteRegister(NewValue(u))
             /\ Finish(u, o.hit)
    <3>1. Own(u) = {FieldOf(o.file)} /\ FieldOf(o.file) \in Registers
      BY <2>1 DEF Own, Written, FieldOf, Thresholds, Registers
    <3>2. CASE o.file \in Thresholds
      <4>1. conf' = [conf EXCEPT ![o.file] = Byte(o.value)] /\ FieldOf(o.file) = o.file
        BY <1>1, <2>1, <2>3, <3>2 DEF NewValue, ValueOK, Thresholds, FieldOf
      <4>2. /\ \A r \in (Registers \ unsure) \ Own(u) : conf'[r] = asked[r]
            /\ \A r \in Own(u) : conf'[r] = Byte(o.value)
        BY <2>1, <3>1, <4>1 DEF OpsOK, Registered
      <4> QED BY <1>1, <2>3, <4>2, OnlyTouched, <2>1, EndAlone
    <3>3. CASE o.file \notin Thresholds
      <4>1. \A r \in (Registers \ Thresholds) \ unsure : o.regv[r] = asked[r]
        BY <1>1, <2>1, <3>3 DEF CopiesOK
      <4>2. /\ o.regv \in Registered /\ o.value \in Nat
            /\ o.file \in {"enabled", "highpower"} => o.value \in {0, 1}
            /\ o.file = "speed" => o.value <= 6
            /\ glob[o.file] = o.value
        BY <1>1, <2>1 DEF ValueOK, Operation, Registered
      <4>7. o.value <= 7 /\ Byte(o.value) = o.value /\ o.value % 8 = o.value
        <5>1. o.value <= 7
          BY <2>1, <3>3, <4>2 DEF Written
        <5> QED BY <4>2, <5>1, LowBits
      <4>3. NewValue(u) = [o.regv EXCEPT ![FieldOf(o.file)] = Byte(o.value)]
        BY <2>1, <3>3, <4>2, <4>7 DEF NewValue, FieldOf, Written
      <4>4. conf' = [r \in Registers |-> IF r \in Thresholds THEN conf[r] ELSE NewValue(u)[r]]
        BY <2>3, <3>3 DEF WriteRegister
      <4>5. FieldOf(o.file) \notin Thresholds
        BY <2>1, <3>3 DEF FieldOf, Written, Thresholds
      <4>6. /\ \A r \in (Registers \ unsure) \ Own(u) : conf'[r] = asked[r]
            /\ \A r \in Own(u) : conf'[r] = Byte(o.value)
        BY <2>1, <3>1, <4>1, <4>2, <4>3, <4>4, <4>5 DEF Registered
      <4> QED BY <1>1, <2>3, <4>6, OnlyTouched, <2>1, EndAlone
    <3> QED BY <3>2, <3>3
  <2> QED BY <1>6, <2>2, <2>3 DEF Write
<1>7. CASE TemporaryEnable(u)
  <2>1. o.file = "distance" /\ o.pc = "on" /\ UNCHANGED <<conf, buf, glob, asked, unsure>>
    BY <1>1, <1>7 DEF TemporaryEnable, At, PlaceOK, ghosts
  <2>2. /\ op'[u].file = o.file /\ op'[u].regv = o.regv /\ op'[u].hit = o.hit
        /\ \/ op'[u].pc = "on_write" /\ op'[u].again = conf
           \/ op'[u].pc = "restore"
    BY <1>1, <1>7 DEF TemporaryEnable, Goto, OpsOK, Operation
  <2>3. ValueOK(op'[u], buf', glob')
    BY <2>1, <2>2 DEF ValueOK
  <2>4. CopiesOK(op'[u], asked', unsure')
    BY <1>1, <1>2, <2>1, <2>2 DEF CopiesOK, Thresholds
  <2> QED BY <1>1, <1>2, <1>7, <2>1, <2>2, <2>3, <2>4, GoesOn DEF AloneOK
<1>8. CASE TemporaryWrite(u)
  <2>1. o.file = "distance" /\ o.pc = "on_write" /\ UNCHANGED <<buf, glob, asked, unsure>>
    BY <1>1, <1>8 DEF TemporaryWrite, At, PlaceOK, ghosts
  <2>2. op'[u].file = o.file /\ op'[u].regv = o.regv /\ op'[u].pc = "restore"
    BY <1>1, <1>8 DEF TemporaryWrite, OpsOK, Operation
  <2>3. \A r \in (Registers \ Thresholds) \ unsure : o.again[r] = asked[r]
    BY <1>1, <2>1 DEF CopiesOK
  <2>4. \A r \in Registers \ unsure : conf[r] = asked[r]
    BY <1>2, <2>1
  <2>5. o.again \in Registered
    BY <1>1 DEF Operation, Registered
  <2>6. \A r \in Registers \ unsure : conf'[r] = asked'[r] \/ r = "prox"
    BY <1>8, <2>1, <2>3, <2>4, <2>5 DEF TemporaryWrite, WriteRegister, Registered
  <2>7. ValueOK(op'[u], buf', glob') /\ CopiesOK(op'[u], asked', unsure')
    BY <1>1, <2>1, <2>2 DEF ValueOK, CopiesOK, Thresholds
  <2> QED BY <1>1, <1>8, <2>1, <2>2, <2>6, <2>7, GoesOn DEF AloneOK
<1>9. CASE Restore(u)
  <2>1. o.file = "distance" /\ o.pc = "restore"
    BY <1>1, <1>9 DEF Restore, At, PlaceOK
  <2>2. \A r \in Registers \ unsure : conf[r] = asked[r] \/ r = "prox"
    BY DEF AloneOK
  <2>3. Own(u) = {} /\ "prox" \in Touched(u)
    BY <2>1 DEF Own, Touched, Written, Thresholds, Seeing
  <2>4. CASE UNCHANGED conf /\ Finish(u, TRUE)
    BY <1>1, <2>2, <2>3, <2>4, EndAlone
  <2>5. CASE WriteRegister(Restored(u)) /\ Finish(u, o.hit)
    <3>1. \A r \in (Registers \ Thresholds) \ unsure : o.regv[r] = asked[r]
      BY <1>1, <2>1 DEF CopiesOK, Thresholds
    <3>2. \A r \in Registers \ unsure : conf'[r] = asked[r]
      BY <2>2, <2>5, <3>1 DEF WriteRegister, Restored, Thresholds
    <3> QED BY <1>1, <2>3, <2>5, <3>2, EndAlone
  <2> QED BY <1>9, <2>4, <2>5 DEF Restore
<1>10. CASE CallEnable(u)
  <2>1. o.file = "enabled" /\ o.pc = "call" /\ UNCHANGED <<conf, buf, glob, asked, unsure>>
    BY <1>1, <1>10 DEF CallEnable, At, PlaceOK, ghosts
  <2>2. o.value \in {0, 1} /\ glob["enabled"] = o.value
    BY <1>1, <2>1 DEF ValueOK, Written
  <2>3. op'[u].file = o.file /\ op'[u].value = o.value /\ op'[u].pc = "read"
    BY <1>1, <1>10, <2>2 DEF CallEnable, OpsOK, Operation
  <2>4. ValueOK(op'[u], buf', glob') /\ CopiesOK(op'[u], asked', unsure')
    BY <2>1, <2>2, <2>3 DEF ValueOK, CopiesOK, Thresholds
  <2> QED BY <1>1, <1>2, <1>10, <2>1, <2>3, <2>4, GoesOn DEF AloneOK
<1> QED BY <1>3, <1>4, <1>5, <1>6, <1>7, <1>8, <1>9, <1>10 DEF Step

(* An operation that begins keeps what is known of the settings.           *)
LEMMA BeginSettings ==
  ASSUME OpsOK, SettingsInv, NEW u \in Users, Begin(u) PROVE SettingsInv'
<1>1. PICK file \in FilesOf[u] \cap used :
        /\ op'[u] = NewOperation(file, \E w \in Users : Busy(w))
        /\ file \in Written => buf' \in Values[file]
  BY Begun
<1>2. ~Busy(u) /\ UNCHANGED <<conf, glob, asked, unsure>>
  BY Begun DEF hal
<1>3. ASSUME NEW v \in Users \ {u}
      PROVE  /\ Busy(v)' <=> Busy(v)
             /\ Busy(v) => op'[v].hit = TRUE /\ op'[v].file = op[v].file /\ op'[v].pc = op[v].pc
  <2>1. op'[v] = Hit[v]
    BY Begun
  <2> QED BY <2>1, HitPlaces, SensorControlAssumption DEF Busy
<1>4. /\ op'[u].hit = (\E w \in Users : Busy(w)) /\ op'[u].file = file
      /\ op'[u].pc = IF file \in Written THEN "scan" ELSE "read"
  BY <1>1 DEF NewOperation
<1>5. ASSUME NEW v \in Users, Unhit(v)' PROVE v = u /\ \A w \in Users : ~Busy(w)
  BY <1>2, <1>3, <1>4, <1>5 DEF Unhit
<1>6. AloneInv'
  BY <1>3, <1>5 DEF AloneInv
<1>7. ValueInv' /\ CopiesInv'
  <2>1. ValueOK(op'[u], buf', glob') /\ CopiesOK(op'[u], asked', unsure')
    BY <1>1, <1>4 DEF Written, ValueOK, CopiesOK
  <2> QED BY <1>5, <2>1 DEF ValueInv, CopiesInv
<1>8. Kept'
  <2> SUFFICES ASSUME NEW r \in Registers \ unsure
               PROVE  \/ conf[r] = asked[r]
                      \/ \E v \in Users : Busy(v)' /\ op'[v].hit /\ r \in Touched(v)'
                      \/ r = "prox" /\ \E v \in Users : At(v, "restore")'
    BY <1>2 DEF Kept
  <2>1. ASSUME NEW v \in Users, Busy(v), r \in Touched(v)
        PROVE  Busy(v)' /\ op'[v].hit /\ r \in Touched(v)'
    BY <1>2, <1>3, <2>1 DEF Touched, Own
  <2>2. ASSUME NEW v \in Users, At(v, "restore") PROVE At(v, "restore")'
    BY <1>2, <1>3, <2>2 DEF At
  <2> QED BY <2>1, <2>2 DEF SettingsInv, Kept
<1> QED BY <1>6, <1>7, <1>8 DEF SettingsInv

(* So does every later step of an operation.                               *)
LEMMA StepSettings ==
  ASSUME OpsOK, PlacesOK, SettingsInv, NEW u \in Users, Step(u), ~Begin(u)
  PROVE  SettingsInv'
<1>1. Busy(u) /\ \A v \in Users \ {u} : op'[v] = op[v]
  BY OnlyItsOwn
<1>2. \A v \in Users \ {u} : /\ Busy(v)' <=> Busy(v)
                             /\ Touched(v)' = Touched(v)
  BY <1>1 DEF Busy, Touched, Own
<1>3. CASE op[u].hit
  <2>1. \/ /\ ~Busy(u)'
           /\ unsure' = unsure \cup Touched(u)
           /\ asked' = [r \in Registers |-> IF r \in Touched(u) THEN 0 ELSE asked[r]]
        \/ Busy(u)' /\ op'[u].hit /\ op'[u].file = op[u].file /\ UNCHANGED <<asked, unsure>>
    BY <1>3, HitStays DEF Busy
  <2>2. ASSUME NEW v \in Users, Unhit(v)' PROVE FALSE
    <3>1. v # u
      BY <2>1, <2>2 DEF Unhit
    <3>2. Unhit(v)
      BY <1>1, <1>2, <2>2, <3>1 DEF Unhit
    <3> QED BY <1>1, <3>1, <3>2 DEF SettingsInv, AloneInv
  <2>3. Kept'
    <3> SUFFICES ASSUME NEW r \in Registers \ unsure'
                 PROVE  \/ conf'[r] = asked'[r]
                        \/ \E v \in Users : Busy(v)' /\ op'[v].hit /\ r \in Touched(v)'
                        \/ r = "prox" /\ \E v \in Users : At(v, "restore")'
      BY DEF Kept
    <3>1. CASE r \in Touched(u)
      <4>1. op'[u].hit /\ op'[u].file = op[u].file /\ Busy(u)'
        BY <2>1, <3>1
      <4> QED BY <3>1, <4>1 DEF Touched, Own
    <3>2. CASE r \notin Touched(u)
      <4>1. r \in Registers \ unsure /\ conf'[r] = conf[r] /\ asked'[r] = asked[r]
        BY <2>1, <3>2, OnlyTouched
      <4>2. ASSUME NEW v \in Users, Busy(v), op[v].hit, r \in Touched(v)
            PROVE  Busy(v)' /\ op'[v].hit /\ r \in Touched(v)'
        BY <1>1, <1>2, <3>2, <4>2
      <4>3. ASSUME NEW v \in Users, At(v, "restore"), r = "prox" PROVE At(v, "restore")'
        <5>1. v # u
          BY <3>2, <4>3 DEF At, PlacesOK, PlaceOK, Touched, Thresholds, Seeing
        <5> QED BY <1>1, <1>2, <4>3, <5>1 DEF At
      <4> QED BY <4>1, <4>2, <4>3 DEF SettingsInv, Kept
    <3> QED BY <3>1, <3>2
  <2> QED BY <2>2, <2>3 DEF SettingsInv, AloneInv, ValueInv, CopiesInv
<1>4. CASE ~op[u].hit
  <2>1. \A v \in Users \ {u} : ~Busy(v) /\ ~Busy(v)'
    BY <1>1, <1>2, <1>4 DEF SettingsInv, AloneInv, Unhit
  <2>2. AloneOK(u)
    <3>1. ASSUME NEW r \in Registers \ unsure
          PROVE  conf[r] = asked[r] \/ (r = "prox" /\ op[u].pc = "restore")
      BY <1>4, <2>1 DEF SettingsInv, Kept, At
    <3> QED BY <1>1, <1>4, <3>1 DEF AloneOK, SettingsInv, ValueInv, CopiesInv, Unhit
  <2>3. CASE op'[u] = NULL /\ \A r \in Registers \ unsure' : conf'[r] = asked'[r]
    BY <2>1, <2>3 DEF SettingsInv, AloneInv, ValueInv, CopiesInv, Kept, Unhit, Busy
  <2>4. CASE Busy(u)' /\ AloneOK(u)'
    <3>1. AloneInv'
      BY <2>1 DEF AloneInv, Unhit
    <3>2. ValueInv' /\ CopiesInv'
      BY <2>1, <2>4 DEF ValueInv, CopiesInv, Unhit, AloneOK
    <3>3. ASSUME NEW r \in Registers \ unsure', r = "prox", op'[u].pc = "restore"
          PROVE  At(u, "restore")'
      BY <2>4, <3>3 DEF At
    <3> QED BY <2>4, <3>1, <3>2, <3>3 DEF SettingsInv, Kept, AloneOK
  <2> QED BY <1>4, <2>2, <2>3, <2>4, AloneStep
<1> QED BY <1>3, <1>4

\* What the sensor's driver switches is set, and every operation under way
\* has been overlapped.
LEMMA SwitchedSettings ==
  ASSUME OpsOK, SettingsInv, RegisterSwitched PROVE SettingsInv'
<1>1. PICK r \in {"prox", "als"}, bit \in {0, 1} :
        /\ conf' = [conf EXCEPT ![r] = bit] /\ asked' = [asked EXCEPT ![r] = bit]
        /\ unsure' = unsure \ {r}
  BY DEF RegisterSwitched
<1>2. ASSUME NEW v \in Users
      PROVE  /\ Busy(v)' <=> Busy(v)
             /\ Busy(v) => op'[v].hit = TRUE /\ op'[v].file = op[v].file /\ op'[v].pc = op[v].pc
  <2>1. op'[v] = Hit[v]
    BY DEF RegisterSwitched
  <2> QED BY <2>1, HitPlaces, SensorControlAssumption DEF Busy
<1>3. \A v \in Users : ~Unhit(v)'
  BY <1>2 DEF Unhit
<1>4. Kept'
  <2> SUFFICES ASSUME NEW q \in Registers \ unsure'
               PROVE  \/ conf'[q] = asked'[q]
                      \/ \E v \in Users : Busy(v)' /\ op'[v].hit /\ q \in Touched(v)'
                      \/ q = "prox" /\ \E v \in Users : At(v, "restore")'
    BY DEF Kept
  <2>1. CASE q = r
    BY <1>1, <2>1 DEF OpsOK, Registered
  <2>2. CASE q # r
    <3>1. conf'[q] = conf[q] /\ asked'[q] = asked[q] /\ q \in Registers \ unsure
      BY <1>1, <2>2 DEF OpsOK, Registered
    <3>2. ASSUME NEW v \in Users, Busy(v), q \in Touched(v)
          PROVE  Busy(v)' /\ op'[v].hit /\ q \in Touched(v)'
      BY <1>2, <3>2 DEF Touched, Own
    <3>3. ASSUME NEW v \in Users, At(v, "restore") PROVE At(v, "restore")'
      BY <1>2, <3>3 DEF At
    <3> QED BY <3>1, <3>2, <3>3 DEF SettingsInv, Kept
  <2> QED BY <2>1, <2>2
<1> QED BY <1>3, <1>4 DEF SettingsInv, AloneInv, ValueInv, CopiesInv

(* SettingsInv holds in every behaviour.                                   *)
LEMMA SettingsInvariant == Spec => []SettingsInv
<1>1. Init => SettingsInv
  <2> SUFFICES ASSUME Init PROVE SettingsInv
    OBVIOUS
  <2>1. conf = asked /\ \A u \in Users : ~Busy(u)
    BY DEF Init, Busy
  <2> QED BY <2>1 DEF SettingsInv, AloneInv, ValueInv, CopiesInv, Kept, Unhit
<1>2. TypeOK /\ PlacesOK /\ SettingsInv /\ [Next]_vars => SettingsInv'
  <2> SUFFICES ASSUME TypeOK, PlacesOK, SettingsInv, [Next]_vars PROVE SettingsInv'
    OBVIOUS
  <2>1. CASE RegisterSwitched
    BY <2>1, SwitchedSettings DEF TypeOK
  <2>2. ASSUME NEW u \in Users, Step(u) PROVE SettingsInv'
    BY <2>2, BeginSettings, StepSettings DEF TypeOK
  <2>3. CASE UNCHANGED <<conf, op, buf, glob, asked, unsure, raced>>
    BY <2>3 DEF SettingsInv, AloneInv, ValueInv, CopiesInv, Kept, Unhit, Busy, At, Touched, Own
  <2> QED BY <2>1, <2>2, <2>3, WhoChangesTheRegister
<1> QED BY <1>1, <1>2, TypeCorrect, PTL DEF Spec

(* The operations of the files and the sensor's driver keep each other's   *)
(* bits of the one register, for any number of users, values and failures: *)
(* whenever none is under way, a register that no overlap and no failure   *)
(* has made unsure holds its last setting (isl-proximity.c:210-383).       *)
THEOREM SettingsAreKept == Spec => []SettingsKept
<1>1. SettingsInv => SettingsKept
  BY DEF SettingsInv, Kept, SettingsKept, At
<1> QED BY <1>1, SettingsInvariant, PTL

-----------------------------------------------------------------------------
(* The pause of the proximity light *)

(* An operation that writes the speed.                                     *)
Speeding(u) == Busy(u) /\ op[u].file = "speed"

(* No copy of the register that may be written back asks for more than 6,  *)
(* the global of isl-proximity.c:349 only until it has been clamped, and   *)
(* only one operation at a time uses that global.                          *)
SlowEnough ==
  /\ conf["slp"] <= 6
  /\ \A u \in Users : Busy(u) => op[u].regv["slp"] <= 6 /\ op[u].again["slp"] <= 6
  /\ glob["speed"] <= 6 \/ \E u \in Users : At(u, "clamp")
  /\ \A u, v \in Users : Speeding(u) /\ Speeding(v) => u = v

(* The inductive invariant, with SettingsInv for the write that is alone.  *)
PauseInv == raced \/ SlowEnough

(* An operation goes on with the file that it began with.                  *)
LEMMA SameFile ==
  ASSUME OpsOK, NEW u \in Users, Step(u), ~Begin(u)
  PROVE  op'[u] = NULL \/ op'[u].file = op[u].file
<1> USE OnlyItsOwn DEF Busy, OpsOK, Operation
<1>1. CASE Scan(u) \/ ClampSpeed(u) \/ CallEnable(u)
  BY <1>1 DEF Scan, ClampSpeed, CallEnable
<1>2. CASE Read(u)
  BY <1>2 DEF Read, Finish
<1>3. CASE Write(u) \/ Restore(u)
  BY <1>3 DEF Write, Restore, Finish
<1>4. CASE TemporaryEnable(u) \/ TemporaryWrite(u)
  BY <1>4 DEF TemporaryEnable, TemporaryWrite, Goto
<1> QED BY <1>1, <1>2, <1>3, <1>4 DEF Step

\* Each step of a user leaves the pause alone or makes it one that is allowed.
LEMMA StepSlow ==
  ASSUME OpsOK, PlacesOK, SlowEnough, NEW u \in Users, Step(u), ~raced'
  PROVE  SlowEnough'
<1> DEFINE Slow(o) == o.regv["slp"] <= 6 /\ o.again["slp"] <= 6
<1>1. CASE Begin(u)
  <2>1. Slow(op'[u])
    <3>1. PICK file \in FilesOf[u] \cap used :
            op'[u] = NewOperation(file, \E w \in Users : Busy(w))
      BY <1>1, Begun
    <3> QED BY <3>1 DEF NewOperation, Zero, Registers
  <2>2. ASSUME NEW v \in Users \ {u}
        PROVE  /\ Busy(v)' => Slow(op'[v])
               /\ At(v, "clamp") => At(v, "clamp")'
               /\ Speeding(v)' => Speeding(v)
    <3>1. op'[v] = Hit[v] /\ (Busy(v)' => Busy(v))
      BY <1>1, <2>2, Begun DEF Hit, Busy
    <3>2. CASE Busy(v)
      <4>1. Slow(op[v]) /\ Hit[v].regv = op[v].regv /\ Hit[v].again = op[v].again
            /\ Hit[v].pc = op[v].pc /\ Hit[v].file = op[v].file /\ Hit[v] \in Operation
        BY <3>2, HitPlaces DEF SlowEnough
      <4> QED BY <3>1, <4>1, SensorControlAssumption DEF At, Busy, Speeding
    <3> QED BY <3>1, <3>2 DEF At, Speeding
  <2>3. UNCHANGED <<conf, glob>> /\ ~Busy(u)
    BY <1>1, Begun DEF hal
  <2>4. (\E v \in Users : At(v, "clamp")) => \E v \in Users : At(v, "clamp")'
    BY <2>2, <2>3 DEF At
  <2>5. ASSUME Speeding(u)', NEW v \in Users \ {u} PROVE ~Speeding(v)'
    <3>1. PICK file \in FilesOf[u] \cap used :
            /\ op'[u] = NewOperation(file, \E w \in Users : Busy(w))
            /\ raced' = (raced \/ \E w \in Users : Busy(w) /\ {file, op[w].file} = {"speed"})
      BY <1>1, Begun
    <3>2. file = "speed"
      BY <2>5, <3>1 DEF Speeding, NewOperation
    <3>3. ~Speeding(v)
      BY <3>1, <3>2 DEF Speeding
    <3> QED BY <2>2, <3>3
  <2>6. \A v, w \in Users : Speeding(v)' /\ Speeding(w)' => v = w
    BY <2>2, <2>5 DEF SlowEnough
  <2> QED BY <2>1, <2>2, <2>3, <2>4, <2>6 DEF SlowEnough
<1>2. CASE ~Begin(u)
  <2>1. /\ Busy(u) /\ op[u] \in Operation /\ PlaceOK(op[u])
        /\ Slow(op[u]) /\ conf["slp"] <= 6
        /\ \A v \in Users \ {u} : op'[v] = op[v]
    BY <1>2, OnlyItsOwn DEF OpsOK, Busy, SlowEnough, PlacesOK
  <2>2. /\ conf["slp"] \in Nat /\ op[u].regv \in Registered /\ op[u].again \in Registered
        /\ "slp" \in Registers \ Thresholds
    BY <2>1 DEF OpsOK, Registered, Registers, Operation, Thresholds
  <2>3. op[u].file = "speed" => At(u, "clamp") \/ glob["speed"] <= 6
    <3>1. ASSUME op[u].file = "speed", NEW v \in Users, At(v, "clamp") PROVE v = u
      BY <2>1, <3>1 DEF SlowEnough, Speeding, PlacesOK, PlaceOK, At
    <3> QED BY <3>1 DEF SlowEnough
  <2>4. op'[u] = NULL \/ Slow(op'[u])
    <3> USE <2>1, <2>2 DEF OpsOK
    <3>1. CASE Scan(u) \/ ClampSpeed(u) \/ CallEnable(u)
      BY <3>1 DEF Scan, ClampSpeed, CallEnable, Operation
    <3>2. CASE Read(u)
      <4>1. \/ op'[u] = NULL
            \/ op'[u].again = op[u].again /\ op'[u].regv \in {conf, Zero}
        BY <3>2 DEF Read, Finish, Operation
      <4> QED BY <4>1 DEF Zero
    <3>3. CASE Write(u) \/ Restore(u)
      BY <3>3 DEF Write, Restore, Finish
    <3>4. CASE TemporaryEnable(u)
      BY <3>4 DEF TemporaryEnable, Goto, Operation
    <3>5. CASE TemporaryWrite(u)
      BY <3>5 DEF TemporaryWrite, Operation, Zero
    <3> QED BY <1>2, <3>1, <3>2, <3>3, <3>4, <3>5 DEF Step
  <2>5. conf'["slp"] <= 6
    <3> USE <2>1, <2>2 DEF OpsOK
    <3>1. CASE Write(u)
      <4>1. op[u].file \in Written /\ op[u].pc # "clamp" /\ glob["speed"] \in Nat
        BY <3>1 DEF Write, At, PlaceOK, Written
      <4>2. op[u].file = "speed" => glob["speed"] <= 6 /\ glob["speed"] % 8 = glob["speed"]
        BY <2>3, <4>1, LowBits DEF At
      <4>3. NewValue(u)["slp"] <= 6
        BY <4>1, <4>2 DEF NewValue, Written, Thresholds, Registered
      <4> QED BY <3>1, <4>3 DEF Write, WriteRegister, Registered
    <3>2. CASE TemporaryWrite(u)
      BY <3>2 DEF TemporaryWrite, WriteRegister, Registered
    <3>3. CASE Restore(u)
      BY <3>3 DEF Restore, Restored, WriteRegister
    <3>4. CASE Scan(u) \/ ClampSpeed(u) \/ CallEnable(u) \/ Read(u) \/ TemporaryEnable(u)
      BY <3>4 DEF Scan, ClampSpeed, CallEnable, Read, TemporaryEnable
    <3> QED BY <1>2, <3>1, <3>2, <3>3, <3>4 DEF Step
  <2>6. glob'["speed"] <= 6 \/ \E v \in Users : At(v, "clamp")'
    <3>1. CASE Scan(u) /\ op[u].file = "speed"
      <4>1. buf \in Nat /\ op[u].file # "enabled"
        BY <3>1 DEF OpsOK
      <4> DEFINE place == CASE op[u].file = "speed" -> "clamp"
                            [] op[u].file = "enabled" -> "call"
                            [] op[u].file \in Thresholds -> "write" [] OTHER -> "read"
      <4>2. place = "clamp"
        BY <3>1 DEF Thresholds
      <4>3. op'[u] = [op[u] EXCEPT !.value = buf, !.pc = place]
        BY <3>1 DEF Scan, OpsOK
      <4> HIDE DEF place
      <4>5. op'[u] = [op[u] EXCEPT !.value = buf, !.pc = "clamp"]
        BY <4>2, <4>3
      <4> HIDE DEF Slow
      <4>4. op'[u] \in Operation /\ op'[u].pc = "clamp"
        BY ONLY <2>1, <4>1, <4>5 DEF Operation
      <4> QED BY <4>4, SensorControlAssumption DEF At, Busy
    <3>2. CASE ClampSpeed(u)
      BY <3>2 DEF ClampSpeed, Clamped, OpsOK, Written
    <3>3. CASE ~(Scan(u) /\ op[u].file = "speed") /\ ~ClampSpeed(u)
      <4>1. glob'["speed"] = glob["speed"] \/ glob'["speed"] \in {conf["slp"], Zero["slp"]}
        <5> USE <2>1, <2>2, <3>3 DEF OpsOK, Written
        <5>1. CASE Scan(u)
          BY <5>1 DEF Scan
        <5>2. CASE Read(u)
          <6>1. op[u].file \notin Written =>
                  /\ GlobalOf(op[u].file) \in Written
                  /\ GlobalOf(op[u].file) = "speed" => FieldOf(GlobalOf(op[u].file)) = "slp"
            BY DEF GlobalOf, FieldOf, Written, Thresholds
          <6> QED BY <5>2, <6>1 DEF Read, Seen
        <5>3. CASE Write(u)
          BY <5>3 DEF Write
        <5>4. CASE CallEnable(u) \/ TemporaryEnable(u) \/ TemporaryWrite(u) \/ Restore(u)
          BY <5>4 DEF CallEnable, TemporaryEnable, TemporaryWrite, Restore
        <5> QED BY <1>2, <5>1, <5>2, <5>3, <5>4 DEF Step
      <4>2. ASSUME NEW v \in Users, At(v, "clamp") PROVE At(v, "clamp")'
        <5>1. CASE v = u
          BY <1>2, <3>3, <4>2, <5>1 DEF Step, Scan, CallEnable, Read, Write, TemporaryEnable,
                                         TemporaryWrite, Restore, At
        <5> QED BY <2>1, <4>2, <5>1 DEF At, Busy
      <4> QED BY <2>1, <2>2, <4>1, <4>2 DEF SlowEnough, Zero
    <3> QED BY <3>1, <3>2, <3>3
  <2>7. ASSUME NEW v \in Users, Speeding(v)' PROVE Speeding(v)
    BY <1>2, <2>1, <2>7, SameFile DEF Speeding, Busy
  <2> QED BY <2>1, <2>4, <2>5, <2>6, <2>7 DEF SlowEnough, Busy
<1> QED BY <1>1, <1>2

\* The kernel's driver does not write the pause, and ends no clamping.
LEMMA SwitchedSlow ==
  ASSUME OpsOK, SlowEnough, RegisterSwitched PROVE SlowEnough'
<1>1. conf'["slp"] = conf["slp"] /\ UNCHANGED glob
  BY DEF RegisterSwitched, OpsOK, Registered, Registers
<1>2. ASSUME NEW v \in Users
      PROVE  /\ Busy(v)' => op'[v].regv["slp"] <= 6 /\ op'[v].again["slp"] <= 6
             /\ At(v, "clamp") => At(v, "clamp")'
             /\ Speeding(v)' => Speeding(v)
  <2>1. op'[v] = Hit[v]
    BY DEF RegisterSwitched
  <2>2. CASE Busy(v)
    <3>1. /\ Hit[v].file = op[v].file /\ Hit[v].regv = op[v].regv /\ Hit[v].again = op[v].again
          /\ Hit[v].pc = op[v].pc /\ Hit[v] \in Operation
      BY <2>2, HitPlaces
    <3> QED BY <2>1, <2>2, <3>1, SensorControlAssumption DEF At, Busy, SlowEnough, Speeding
  <2>3. CASE ~Busy(v)
    BY <2>1, <2>3, HitPlaces DEF At, Busy, Speeding
  <2> QED BY <2>2, <2>3
<1> QED BY <1>1, <1>2 DEF SlowEnough

\* A write of the speed that was alone has made the pause one that is allowed,
\* and leaves nobody behind who could change it.
LEMMA AloneSlow ==
  ASSUME OpsOK, PlacesOK, SettingsInv, NEW u \in Users, Step(u), raced, ~raced'
  PROVE  SlowEnough'
<1>1. ~Begin(u)
  BY Begun
<1>2. Busy(u) /\ op[u] \in Operation /\ PlaceOK(op[u])
  BY <1>1, OnlyItsOwn DEF OpsOK, Busy, PlacesOK
<1>3. PICK hit \in BOOLEAN :
        /\ Finish(u, hit) /\ (op[u].hit => hit)
        /\ Write(u) => WriteRegister(NewValue(u)) \/ op[u].file # "speed" \/ hit
  <2>1. CASE Read(u)
    <3>1. PICK ok \in BOOLEAN : Finish(u, op[u].hit \/ ~ok) \/ UNCHANGED ghosts
      BY <2>1 DEF Read
    <3> QED BY <2>1, <3>1, <1>2 DEF ghosts, Read, At, Write, Operation
  <2>2. CASE Write(u)
    BY <2>2, <1>2 DEF Write, Thresholds, Operation
  <2>3. CASE Restore(u)
    BY <2>3, <1>2 DEF Restore, At, Write, Operation
  <2>4. CASE Scan(u) \/ ClampSpeed(u) \/ CallEnable(u) \/ TemporaryEnable(u) \/ TemporaryWrite(u)
    BY <2>4 DEF Scan, ClampSpeed, CallEnable, TemporaryEnable, TemporaryWrite, ghosts
  <2> QED BY <1>1, <2>1, <2>2, <2>3, <2>4 DEF Step
<1>4. ~hit /\ op[u].file = "speed" /\ op'[u] = NULL
  BY <1>3, FinishEffect DEF OpsOK
<1>5. \A v \in Users : ~Busy(v)'
  <2>1. \A v \in Users : Busy(v) => v = u
    BY <1>2, <1>3, <1>4 DEF SettingsInv, AloneInv, Unhit
  <2> QED BY <1>1, <1>4, <2>1, OnlyItsOwn DEF Busy
<1>6. Write(u)
  <2>1. ~Scan(u) /\ ~ClampSpeed(u) /\ ~CallEnable(u) /\ ~TemporaryEnable(u) /\ ~TemporaryWrite(u)
    BY <1>2, <1>5, GoesOn
  <2>2. ~Restore(u)
    BY <1>2, <1>4 DEF Restore, At, PlaceOK
  <2>3. ~Read(u)
    <3>1. ASSUME Read(u) PROVE Busy(u)'
      <4>1. PICK ok \in BOOLEAN : ReadOn(u, ok)
        BY <1>4, <3>1 DEF Read, ReadOn, ghosts, Seeing
      <4> QED BY <1>2, <4>1, GoesOn
    <3> QED BY <1>5, <3>1
  <2> QED BY <1>1, <2>1, <2>2, <2>3 DEF Step
<1>7. /\ glob["speed"] <= 6 /\ glob["speed"] \in Nat /\ UNCHANGED glob
      /\ op[u].regv \in Registered
  <2>1. ValueOK(op[u], buf, glob) /\ op[u].pc = "write"
    BY <1>2, <1>3, <1>4, <1>6 DEF SettingsInv, ValueInv, Unhit, Write, At
  <2> QED BY <1>2, <1>4, <1>6, <2>1 DEF ValueOK, Written, OpsOK, Write, Operation, Registered
<1>8. conf'["slp"] <= 6
  <2>1. NewValue(u) = [op[u].regv EXCEPT !["slp"] = glob["speed"] % 8]
    BY <1>4 DEF NewValue
  <2>2. NewValue(u)["slp"] = glob["speed"]
    BY <1>7, <2>1, LowBits DEF Registered, Registers
  <2>3. WriteRegister(NewValue(u))
    BY <1>3, <1>4, <1>6
  <2> QED BY <1>7, <2>2, <2>3 DEF WriteRegister, Registers, Thresholds
<1> QED BY <1>5, <1>7, <1>8 DEF SlowEnough, Speeding

(* "always (disabled to reduce risks)": the proximity light runs without a *)
(* pause only once writes of the speed have overlapped, and no longer than *)
(* until one is alone, whatever else is done with the files and whatever   *)
(* fails (isl-proximity.c:344-361), for any number of users that all write *)
(* the speed: two of them that overlap share the global that is clamped,   *)
(* and can get 7 through.                                                  *)
THEOREM LightPauses == Spec => []AlwaysOnlyRaced
<1>1. Init => PauseInv
  <2> SUFFICES ASSUME Init PROVE SlowEnough
    BY DEF PauseInv
  <2>1. conf["slp"] = 4 /\ glob["speed"] = 0 /\ \A u \in Users : ~Busy(u)
    BY DEF Init, Zero, Registers, Busy, Written
  <2> QED BY <2>1 DEF SlowEnough, Speeding
<1>2. TypeOK /\ PlacesOK /\ SettingsInv /\ PauseInv /\ [Next]_vars => PauseInv'
  <2> SUFFICES ASSUME TypeOK, PlacesOK, SettingsInv, PauseInv, [Next]_vars, ~raced'
               PROVE  SlowEnough'
    BY DEF PauseInv
  <2>1. CASE RegisterSwitched
    <3>1. SlowEnough
      BY <2>1 DEF PauseInv, RegisterSwitched
    <3> QED BY <2>1, <3>1, SwitchedSlow DEF TypeOK
  <2>2. ASSUME NEW u \in Users, Step(u) PROVE SlowEnough'
    <3>1. CASE raced
      BY <2>2, <3>1, AloneSlow DEF TypeOK
    <3>2. CASE ~raced
      BY <2>2, <3>2, StepSlow DEF TypeOK, PauseInv
    <3> QED BY <3>1, <3>2
  <2>3. CASE UNCHANGED <<conf, op, buf, glob, asked, unsure, raced>>
    BY <2>3 DEF PauseInv, SlowEnough, Busy, At, Speeding
  <2> QED BY <2>1, <2>2, <2>3, WhoChangesTheRegister
<1>3. PauseInv => AlwaysOnlyRaced
  BY DEF PauseInv, SlowEnough, AlwaysOnlyRaced, NeverAlways
<1> QED BY <1>1, <1>2, <1>3, TypeCorrect, SettingsInvariant, PTL DEF Spec

-----------------------------------------------------------------------------
(***************************************************************************)
(* Camera: three threads toggle the torch, each reading the flash mode     *)
(* first and writing the light later.                                      *)
(***************************************************************************)

(* Where the three threads can be.                                         *)
AppPlaces == {"out", "lib", "read", "write", "off", "signal", "exit", "join"}
CallbackPlaces == {"out", "read", "write", "signal", "exit", "join"}
TorchPlaces == {"out", "waits", "check", "read", "write"}

(* A torch thread is being ended: all three belong to one block of code    *)
(* (JordanCameraWrapper.h:57-73).                                          *)
Ending == {"signal", "exit", "join"}

(* Types, and what each thread may be doing.                               *)
ThreadsOK ==
  /\ at \in [Threads -> AppPlaces \cup TorchPlaces]
  /\ at["app"] \in AppPlaces /\ at["callback"] \in CallbackPlaces /\ at["torch"] \in TorchPlaces
  /\ users \in Nat /\ flash_light \in BOOLEAN /\ overtaken \in BOOLEAN
  /\ sees \in [Threads -> BOOLEAN] /\ changed \in BOOLEAN /\ stale \subseteq Threads

(* exitPending is set only while somebody waits for the torch thread to    *)
(* end.                                                                    *)
ExitInv == exitPending => at["app"] = "join" \/ at["callback"] = "join"

(* Without an owner of the camera nothing goes on but the destructor       *)
(* (JordanCameraWrapper.cpp:159-166), which turns the light off and then   *)
(* ends the torch thread: what that thread toggles meanwhile counts as     *)
(* stale, so that the light is dark or unsure.                             *)
EndInv ==
  IF users = 0
  THEN /\ Free("callback") /\ picture = "no" /\ focus = "no"
       /\ at["app"] \in {"out", "off"} \cup Ending
       /\ Free("app") => Free("torch")
       /\ at["app"] \in Ending /\ at["torch"] \in {"read", "write"} => "torch" \in stale
       /\ at["app"] # "off" => overtaken \/ ~flash_light
  ELSE at["app"] \in {"out", "lib", "read", "write"}

(* A thread between reading mFlashMode and writing the light               *)
(* (JordanCameraWrapper.cpp:168-174) either has seen what it still is or   *)
(* is stale.                                                               *)
SeesInv == \A t \in Threads : at[t] = "write" /\ t \notin stale => (sees[t] <=> mFlashMode = "torch")

(* The light is not what the mode asks for only while something under way  *)
(* will write it again: a picture or focus that darkened it, a thread that *)
(* toggles, parameters just changed, or the torch thread started by a      *)
(* callback.                                                               *)
Renewing ==
  \/ "dark" \in {picture, focus}
  \/ \E t \in Threads : at[t] \in {"read", "write"}
  \/ at["app"] = "lib" /\ changed
  \/ at["callback"] \in Ending \/ at["torch"] \in {"waits", "check"}

(* ... and is it otherwise, unless a stale thread has written.             *)
LightInv == users > 0 => overtaken \/ Renewing \/ (flash_light <=> mFlashMode = "torch")

(* The inductive invariant; the wrapper switches the light of the SOC      *)
(* camera only.                                                            *)
TorchInv == ThreadsOK /\ ExitInv /\ (Soc => EndInv /\ SeesInv /\ LightInv)

(* Every step keeps the threads where they may be.                         *)
LEMMA ThreadsStep ==
  ASSUME ThreadsOK, ExitInv, [CameraNext]_cameraVars
  PROVE  ThreadsOK' /\ ExitInv'
<1>. USE DEF ThreadsOK, ExitInv, AppPlaces, CallbackPlaces, TorchPlaces, Threads, Goes, Free, Toggling
<1>1. ASSUME NEW t \in Threads, ToggleReads(t) PROVE ThreadsOK' /\ ExitInv'
  BY <1>1 DEF ToggleReads
<1>2. ASSUME NEW t \in Threads, ToggleWrites(t) PROVE ThreadsOK' /\ ExitInv'
  BY <1>2 DEF ToggleWrites
<1>3. CASE ThreadWakes
  BY <1>3 DEF ThreadWakes
<1>4. CASE ThreadChecks
  BY <1>4 DEF ThreadChecks
<1>5. ASSUME NEW t \in {"app", "callback"}, Signal(t) PROVE ThreadsOK' /\ ExitInv'
  BY <1>5 DEF Signal
<1>6. ASSUME NEW t \in {"app", "callback"}, RequestExit(t) PROVE ThreadsOK' /\ ExitInv'
  BY <1>6 DEF RequestExit
<1>7. ASSUME NEW t \in {"app", "callback"}, Join(t) PROVE ThreadsOK' /\ ExitInv'
  BY <1>7 DEF Join, Rerun
<1>8. CASE Open
  <2>1. users' = users + 1 /\ users' \in Nat
    BY <1>8 DEF Open, params
  <2>2. UNCHANGED <<flash_light, at, sees, changed, exitPending, stale, overtaken>>
    BY <1>8 DEF Open, params
  <2>. QED
    BY <2>1, <2>2
<1>9. CASE Close
  BY <1>9 DEF Close
<1>10. CASE DestructorDarkens
  BY <1>10 DEF DestructorDarkens
<1>11. ASSUME NEW r \in Requests, SetParameters(r) PROVE ThreadsOK' /\ ExitInv'
  BY <1>11 DEF SetParameters, Changes
<1>12. ASSUME NEW accepts \in BOOLEAN, LibReturns(accepts) PROVE ThreadsOK' /\ ExitInv'
  BY <1>12 DEF LibReturns
<1>13. CASE Recording
  BY <1>13 DEF Recording
<1>14. CASE Picture \/ Focus
  <2>1. overtaken' \in BOOLEAN
    BY <1>14 DEF Picture, Focus
  <2>2. UNCHANGED <<users, flash_light, at, sees, changed, exitPending, stale>>
    BY <1>14 DEF Picture, Focus
  <2>. QED
    BY <2>1, <2>2
<1>15. CASE Darkens
  BY <1>15 DEF Darkens
<1>16. CASE NotifyCb
  BY <1>16 DEF NotifyCb
<1>17. ASSUME NEW last \in BOOLEAN, DataCb(last) PROVE ThreadsOK' /\ ExitInv'
  BY <1>17 DEF DataCb
<1>18. CASE UNCHANGED cameraVars
  BY <1>18 DEF cameraVars
<1>. QED
  BY <1>1, <1>2, <1>3, <1>4, <1>5, <1>6, <1>7, <1>8, <1>9, <1>10, <1>11, <1>12, <1>13, <1>14,
     <1>15, <1>16, <1>17, <1>18 DEF CameraNext

(* Every step preserves the rest of the invariant.                         *)
LEMMA TorchStep ==
  ASSUME ThreadsOK, ExitInv, Soc, EndInv, SeesInv, LightInv, [CameraNext]_cameraVars
  PROVE  EndInv' /\ SeesInv' /\ LightInv'
<1>. USE DEF ThreadsOK, ExitInv, EndInv, SeesInv, LightInv, Renewing, Ending, Soc, AppPlaces, CallbackPlaces, TorchPlaces, Threads, Goes, Free, Toggling
<1>1. ASSUME NEW t \in Threads, ToggleReads(t) PROVE EndInv' /\ SeesInv' /\ LightInv'
  BY <1>1 DEF ToggleReads, lib, params
<1>2. ASSUME NEW t \in Threads, ToggleWrites(t) PROVE EndInv' /\ SeesInv' /\ LightInv'
  BY <1>2 DEF ToggleWrites, lib, params
<1>3. CASE ThreadWakes
  BY <1>3 DEF ThreadWakes, lib, params
<1>4. CASE ThreadChecks
  BY <1>4 DEF ThreadChecks, Destructing, lib, params
<1>5. ASSUME NEW t \in {"app", "callback"}, Signal(t) PROVE EndInv' /\ SeesInv' /\ LightInv'
  BY <1>5 DEF Signal, lib, params
<1>6. ASSUME NEW t \in {"app", "callback"}, RequestExit(t) PROVE EndInv' /\ SeesInv' /\ LightInv'
  BY <1>6 DEF RequestExit, lib, params
<1>7. ASSUME NEW t \in {"app", "callback"}, Join(t) PROVE EndInv' /\ SeesInv' /\ LightInv'
  BY <1>7 DEF Join, lib, params, Rerun
<1>8. CASE Open
  <2>1. /\ users' = users + 1 /\ users' > 0 /\ Free("app")
        /\ UNCHANGED <<mCameraType, flash_light, at, sees, changed, stale, overtaken, picture, focus>>
    BY <1>8 DEF Open, lib, params
  <2>2. CASE users = 0
    <3>1. mFlashMode' = "unset"
      BY <1>8, <2>2 DEF Open, params
    <3>2. \A t \in Threads : at[t] = "out"
      BY <2>1, <2>2
    <3>. QED
      BY <2>1, <2>2, <3>1, <3>2
  <2>3. CASE users # 0
    <3>1. UNCHANGED mFlashMode
      BY <1>8, <2>3 DEF Open, params
    <3>2. Renewing' <=> Renewing
      BY <2>1
    <3>. QED
      BY <2>1, <2>3, <3>1
  <2>. QED
    BY <2>2, <2>3
<1>9. CASE Close
  <2>1. /\ Free("app") /\ Free("callback") /\ users > 0 /\ users' = users - 1
        /\ picture' = "no" /\ focus' = "no"
        /\ Goes("app", IF users = 1 THEN "off" ELSE "out")
        /\ UNCHANGED <<mFlashMode, flash_light, sees, changed, stale>>
    BY <1>9 DEF Close
  <2>2. (users > 1 /\ "dark" \in {picture, focus}) \/ overtaken => overtaken'
    BY <1>9 DEF Close
  <2>3. EndInv'
    BY <2>1
  <2>4. SeesInv'
    BY <2>1
  <2>5. LightInv'
    BY <2>1, <2>2
  <2>. QED
    BY <2>3, <2>4, <2>5
<1>10. CASE DestructorDarkens
  BY <1>10 DEF DestructorDarkens, lib, params
<1>11. ASSUME NEW r \in Requests, SetParameters(r) PROVE EndInv' /\ SeesInv' /\ LightInv'
  <2>1. /\ Free("app") /\ users > 0 /\ Goes("app", "lib")
        /\ changed' = (mFlashMode' # mFlashMode)
        /\ UNCHANGED <<users, flash_light, sees, picture, focus, overtaken>>
    BY <1>11 DEF SetParameters, Changes, lib
  <2>2. stale' = IF (mFlashMode' = "torch") = (mFlashMode = "torch") THEN stale
                 ELSE stale \cup {t \in Threads : at[t] = "write"}
    BY <1>11 DEF SetParameters
  <2>3. EndInv'
    BY <2>1
  <2>4. SeesInv'
    <3>1. CASE (mFlashMode' = "torch") <=> (mFlashMode = "torch")
      BY <2>1, <2>2, <3>1
    <3>2. CASE ~((mFlashMode' = "torch") <=> (mFlashMode = "torch"))
      BY <2>1, <2>2, <3>2
    <3>. QED
      BY <3>1, <3>2
  <2>5. LightInv'
    <3>1. CASE mFlashMode' = mFlashMode
      BY <2>1, <3>1
    <3>2. CASE mFlashMode' # mFlashMode
      BY <2>1, <3>2
    <3>. QED
      BY <3>1, <3>2
  <2>. QED
    BY <2>3, <2>4, <2>5
<1>12. ASSUME NEW accepts \in BOOLEAN, LibReturns(accepts) PROVE EndInv' /\ SeesInv' /\ LightInv'
  BY <1>12 DEF LibReturns, lib, params
<1>13. CASE Recording
  BY <1>13 DEF Recording, lib, params
<1>14. CASE Picture \/ Focus
  <2>1. /\ Free("app") /\ users > 0
        /\ UNCHANGED <<users, mFlashMode, flash_light, at, sees, changed, stale>>
    BY <1>14 DEF Picture, Focus
  <2>2. overtaken \/ ("dark" \in {picture, focus} /\ ~("dark" \in {picture', focus'})) => overtaken'
    BY <1>14 DEF Picture, Focus
  <2>3. EndInv' /\ SeesInv'
    BY <2>1
  <2>4. LightInv'
    BY <2>1, <2>2
  <2>. QED
    BY <2>3, <2>4
<1>15. CASE Darkens
  BY <1>15 DEF Darkens, lib, params
<1>16. CASE NotifyCb
  BY <1>16 DEF NotifyCb, lib, params
<1>17. ASSUME NEW last \in BOOLEAN, DataCb(last) PROVE EndInv' /\ SeesInv' /\ LightInv'
  BY <1>17 DEF DataCb, lib, params
<1>18. CASE UNCHANGED cameraVars
  BY <1>18 DEF cameraVars, lib, params
<1>. QED
  BY <1>1, <1>2, <1>3, <1>4, <1>5, <1>6, <1>7, <1>8, <1>9, <1>10, <1>11, <1>12, <1>13, <1>14,
     <1>15, <1>16, <1>17, <1>18 DEF CameraNext

(* The type of the camera is set by the constructor alone.                 *)
LEMMA CameraTypeKept ==
  ASSUME [CameraNext]_cameraVars PROVE UNCHANGED mCameraType
BY DEF CameraNext, cameraVars, ToggleReads, ToggleWrites, ThreadWakes, ThreadChecks, Signal, RequestExit, Join,
       Open, Close, DestructorDarkens, SetParameters, LibReturns, Recording, Picture, Focus,
       Darkens, NotifyCb, DataCb

(* TorchInv holds in every behaviour.                                      *)
LEMMA TorchInvariant == CameraSpec => []TorchInv
<1>1. CameraInit => TorchInv
  <2>1. SUFFICES ASSUME CameraInit PROVE TorchInv
    OBVIOUS
  <2>2. ThreadsOK
    BY <2>1 DEF CameraInit, ThreadsOK, Threads, AppPlaces, CallbackPlaces, TorchPlaces
  <2>3. ExitInv /\ EndInv /\ SeesInv /\ LightInv
    BY <2>1 DEF CameraInit, ExitInv, EndInv, SeesInv, LightInv, Free, Threads, Ending
  <2>. QED
    BY <2>2, <2>3 DEF TorchInv
<1>2. TorchInv /\ [CameraNext]_cameraVars => TorchInv'
  <2>1. ASSUME TorchInv, [CameraNext]_cameraVars PROVE Soc' <=> Soc
    BY <2>1, CameraTypeKept DEF Soc
  <2>. QED
    BY <2>1, ThreadsStep, TorchStep DEF TorchInv
<1>. QED
  BY <1>1, <1>2, PTL DEF CameraSpec

(* When no thread, picture or focus is under way the torch is lit exactly  *)
(* when the flash mode of an open camera asks for it, and dark once the    *)
(* camera is closed, unless the toggle that wrote it last was overtaken    *)
(* (JordanCameraWrapper.cpp:159-174) or a cancelled picture or focus left  *)
(* it dark.                                                                *)
THEOREM TorchIsAsWanted == CameraSpec => []TorchAsWanted
<1>1. TorchInv => TorchAsWanted
  BY DEF TorchInv, ThreadsOK, EndInv, LightInv, Renewing, TorchAsWanted, Free, Threads, Ending
<1>. QED
  BY <1>1, TorchInvariant, PTL

-----------------------------------------------------------------------------
(* The exposure.                                                           *)

(* For the provers: a quotient is settled by its remainder.                *)
LEMMA Quotient ==
  \A a, q, r \in Int, b \in Nat : a = b * q + r /\ 0 <= r /\ r < b => a \div b = q
<1>1. \A a \in Int, b \in Nat : b > 0 =>
        \E q, r \in Int : a = b * q + r /\ 0 <= r /\ r < b /\ a \div b = q
  OBVIOUS
<1>. QED
  BY <1>1

(* round(a / 3.0) and round(a / 100.0), with halves away from zero, as     *)
(* divisions of integers (JordanCameraWrapper.cpp:391-456).                *)
LEMMA Rounding ==
  ASSUME NEW a \in Int, NEW q \in Int
  PROVE  /\ 6 * q <= 2 * a + 3 /\ 2 * a + 3 < 6 * q + 6 => Rounded(a, 3) = q
         /\ 200 * q <= 2 * a + 100 /\ 2 * a + 100 < 200 * q + 200 => Rounded(a, 100) = q
<1>1. ASSUME 6 * q <= 2 * a + 3, 2 * a + 3 < 6 * q + 6 PROVE Rounded(a, 3) = q
  <2>1. PICK r \in Int : r = 2 * a + 3 - 6 * q
    OBVIOUS
  <2>2. 2 * a + 3 = 6 * q + r /\ 0 <= r /\ r < 6
    BY <1>1, <2>1
  <2>. QED
    BY <2>2, Quotient DEF Rounded
<1>2. ASSUME 200 * q <= 2 * a + 100, 2 * a + 100 < 200 * q + 200 PROVE Rounded(a, 100) = q
  <2>1. PICK r \in Int : r = 2 * a + 100 - 200 * q
    OBVIOUS
  <2>2. 2 * a + 100 = 200 * q + r /\ 0 <= r /\ r < 200
    BY <1>2, <2>1
  <2>. QED
    BY <2>2, Quotient DEF Rounded
<1>. QED
  BY <1>1, <1>2

(* What setParameters makes of 3n - 1, 3n and 3n + 1 thirds of a step, and *)
(* what getParameters (JordanCameraWrapper.cpp:471-481) makes of the       *)
(* result.                                                                 *)
LEMMA Offsets ==
  ASSUME NEW n \in Int
  PROVE  /\ Offset(3 * n) = 100 * n /\ Offset(3 * n - 1) = 100 * n
         /\ Offset(3 * n + 1) = 100 * n + 33
         /\ Rounded(3 * (100 * n), 100) = 3 * n
         /\ Rounded(3 * (100 * n + 33), 100) = 3 * n + 1
<1>1. Rounded(3 * n, 3) = n /\ Rounded(3 * n - 1, 3) = n /\ Rounded(3 * n + 1, 3) = n
  BY Rounding
<1>2. Even(3 * n) /\ Even(3 * n - 1) /\ ~Even(3 * n + 1)
  BY <1>1 DEF Even
<1>3. Rounded(100 * (3 * n + 1), 3) = 100 * n + 33
  BY Rounding
<1>. QED
  BY <1>1, <1>2, <1>3, Rounding DEF Offset

(* No exposure compensation has no offset.                                 *)
LEMMA OffsetZero == Offset(0) = 0
<1>1. PICK n \in Int : n = 0
  OBVIOUS
<1>2. Offset(3 * n) = 100 * n
  BY Offsets
<1>. QED
  BY <1>1, <1>2

(* Every number of thirds is next to a whole step.                         *)
LEMMA Thirds ==
  ASSUME NEW e \in Int
  PROVE  \E n \in Int : /\ e \in {3 * n - 1, 3 * n, 3 * n + 1}
                        /\ e % 3 = 0 => e = 3 * n
<1>1. \A a \in Int, b \in Nat : b > 0 =>
        \E q, r \in Int : a = b * q + r /\ 0 <= r /\ r < b /\ a % b = r
  OBVIOUS
<1>2. PICK q, r \in Int : e = 3 * q + r /\ 0 <= r /\ r < 3 /\ e % 3 = r
  BY <1>1
<1>3. CASE r < 2
  BY <1>2, <1>3
<1>4. CASE r = 2
  BY <1>2, <1>4
<1>. QED
  BY <1>2, <1>3, <1>4

(* The thirds of a step the application may ask for.                       *)
Exposures == -9 .. 9

(* The parameters hold the offset of the exposure last set.                *)
ExposureInv == asking \in Exposures /\ exposure \in Exposures /\ offset = Offset(exposure)

(* ExposureInv holds in every behaviour.                                   *)
LEMMA ExposureInvariant == CameraSpec => []ExposureInv
<1>1. CameraInit => ExposureInv
  BY OffsetZero DEF CameraInit, ExposureInv, Exposures
<1>2. ExposureInv /\ [CameraNext]_cameraVars => ExposureInv'
  <2>1. SUFFICES ASSUME ExposureInv, [CameraNext]_cameraVars PROVE ExposureInv'
    OBVIOUS
  <2>2. CASE Open
    <3>1. CASE users > 0
      BY <2>1, <2>2, <3>1 DEF Open, params, ExposureInv
    <3>2. CASE ~(users > 0)
      BY <2>2, <3>2, OffsetZero DEF Open, ExposureInv, Exposures
    <3>. QED
      BY <3>1, <3>2
  <2>3. ASSUME NEW r \in Requests, SetParameters(r) PROVE ExposureInv'
    BY <2>1, <2>3, CameraAssumption DEF SetParameters, ExposureInv, Exposures
  <2>4. ASSUME NEW accepts \in BOOLEAN, LibReturns(accepts) PROVE ExposureInv'
    BY <2>1, <2>4 DEF LibReturns, ExposureInv, Exposures
  <2>5. CASE UNCHANGED params
    BY <2>1, <2>5 DEF params, ExposureInv
  <2>6. UNCHANGED params \/ Open \/ (\E r \in Requests : SetParameters(r))
        \/ \E accepts \in BOOLEAN : LibReturns(accepts)
    BY <2>1 DEF CameraNext, cameraVars, ToggleReads, ToggleWrites, ThreadWakes, ThreadChecks, Signal, RequestExit,
         Join, Close, DestructorDarkens, Recording, Picture, Focus, Darkens, NotifyCb, DataCb
  <2>. QED
    BY <2>2, <2>3, <2>4, <2>5, <2>6
<1>. QED
  BY <1>1, <1>2, PTL DEF CameraSpec

(* What getParameters tells the application to be set is within a third of *)
(* what it set, and setting it again changes nothing                       *)
(* (JordanCameraWrapper.cpp:391-481).                                      *)
THEOREM ExposureIsSettled == CameraSpec => []ExposureSettles
<1>1. ExposureInv => ExposureSettles
  <2>1. SUFFICES ASSUME ExposureInv PROVE ExposureSettles
    OBVIOUS
  <2>2. exposure \in Int
    BY <2>1 DEF ExposureInv, Exposures
  <2>5. PICK n \in Int : exposure \in {3 * n - 1, 3 * n, 3 * n + 1} /\ (exposure % 3 = 0 => exposure = 3 * n)
    BY <2>2, Thirds
  <2>3. CASE exposure \in {3 * n - 1, 3 * n}
    <3>1. getExposure = 3 * n /\ Offset(getExposure) = offset
      BY <2>1, <2>3, Offsets DEF getExposure, ExposureInv
    <3>2. exposure \in -9 .. 9
      BY <2>1 DEF ExposureInv, Exposures
    <3>3. 3 * n \in -9 .. 9 /\ 3 * n \in {exposure - 1, exposure, exposure + 1}
      BY <2>3, <3>2
    <3>. QED
      BY <2>5, <3>1, <3>3 DEF ExposureSettles
  <2>4. CASE exposure = 3 * n + 1
    <3>1. getExposure = 3 * n + 1 /\ Offset(getExposure) = offset
      BY <2>1, <2>4, Offsets DEF getExposure, ExposureInv
    <3>. QED
      BY <2>1, <2>5, <2>4, <3>1 DEF ExposureSettles, ExposureInv, Exposures
  <2>. QED
    BY <2>5, <2>3, <2>4
<1>. QED
  BY <1>1, ExposureInvariant, PTL

=============================================================================
