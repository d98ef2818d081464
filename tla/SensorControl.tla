---------------------------- MODULE SensorControl ---------------------------
(***************************************************************************)
(* How sensors are switched on and off and told their delay: the drivers   *)
(* of libsensors (accelerometer SensorKXTF9, compass SensorAK8973, and the *)
(* two halves of SensorISL29030 as the Defy+ builds them), which keep what *)
(* they believe of the chip, restart with their process, and see any ioctl *)
(* fail; and modules/proximity/isl-proximity.c, whose files change the     *)
(* proximity chip's registers in steps and without a lock.                 *)
(***************************************************************************)
EXTENDS Integers, FiniteSetsExt

CONSTANTS
  Used,           \* what a behaviour may be about: drivers, files of
                  \* /proc/proximity, and "restart" when processes die
  Whats,          \* the compass's sensors
  Delays,         \* what is asked for, in ms
  DEFAULT_DELAY,
  Users,          \* processes with files of /proc/proximity open
  FilesOf,        \* which: to write, or "distance" and "see_..." to read
  Values,         \* what they write to each file
  NULL            \* no operation

Switched == {"kxtf9", "prox", "light"}
Registers == {"prox", "slp", "dr", "als", "low", "high"}
FieldOf(file) == CASE file = "enabled" -> "prox" [] file = "speed" -> "slp"
                   [] file = "highpower" -> "dr" [] OTHER -> file
Thresholds == {"low", "high"}
Written == {"enabled", "speed", "highpower"} \cup Thresholds
Seeing == {"see_enabled", "see_speed", "see_highpower", "see_low", "see_high"}
Files == Written \cup Seeing \cup {"distance"}
Operation ==
  [file : Files, value : Nat, regv : [Registers -> Nat], again : [Registers -> Nat], hit : BOOLEAN,
   pc : {"scan", "clamp", "call", "read", "write", "on", "on_write", "restore"}]

ASSUME SensorControlAssumption ==
  /\ NULL \notin Operation
  /\ Used \subseteq SUBSET (Switched \cup {"ak8973", "restart"} \cup Files)
  /\ Delays \subseteq Nat /\ DEFAULT_DELAY \in Nat
  /\ FilesOf \in [Users -> SUBSET Files]
  /\ Values \in [Written -> SUBSET Nat] /\ Values["enabled"] \cup Values["highpower"] \subseteq {0, 1}

VARIABLES
  used,                     \* see Used
  alive,                    \* the process of libsensors
  drv,                      \* mEnabled and the open file of a switched driver
  mEnabled, mDelays, open,  \* of the compass
  flag, akflags, hwdelay,   \* the chips: on; the compass's sensors; delays
  conf,                     \* the proximity chip's CONFIGURE and thresholds
  op, buf, glob,            \* each user's operation; the buffer, the globals
  lost, left, late,         \* drivers that a failed call misled; compass
                            \* sensors on since a restart; delays not set
  wanted, asked, unsure,    \* the accelerometer's delay; the registers' last
                            \* settings, and those that an operation which
                            \* overlapped another or failed may have changed
  raced                     \* writes of the speed have overlapped since the
                            \* last one that was alone

hal == <<alive, drv, mEnabled, mDelays, open, flag, akflags, hwdelay, lost, left, late, wanted>>
compass == <<mEnabled, mDelays, open, akflags, left>>
proc == <<op, buf, glob>>
ghosts == <<asked, unsure, raced>>
vars == <<used, hal, conf, proc, ghosts>>

Zero == [r \in Registers |-> 0]

Init ==
  /\ used \in Used /\ alive = TRUE
  /\ drv = [s \in Switched |-> [enabled |-> FALSE, open |-> FALSE]]
  /\ mEnabled = {} /\ mDelays = [w \in Whats |-> DEFAULT_DELAY] /\ open = FALSE
  /\ flag = [s \in Switched |-> FALSE] /\ akflags = {}
  /\ hwdelay = [kxtf9 |-> DEFAULT_DELAY, ak8973 |-> DEFAULT_DELAY]
  /\ conf = [Zero EXCEPT !["slp"] = 4] /\ asked = conf /\ unsure = {} /\ raced = FALSE
  /\ op = [u \in Users |-> NULL] /\ buf = 0
  /\ glob = [f \in Written |-> 0]
  /\ lost = {} /\ left = {} /\ late = {} /\ wanted = DEFAULT_DELAY

-----------------------------------------------------------------------------
(* Switched drivers: SensorKXTF9, SensorISL29030P and SensorISL29030L *)

Busy(u) == op[u] # NULL
Hit == [u \in Users |-> IF Busy(u) THEN [op[u] EXCEPT !.hit = TRUE] ELSE NULL]

\* The kernel's driver changes its bit of the register at once.
ChipSwitched(s, en) ==
  /\ flag' = [flag EXCEPT ![s] = en]
  /\ IF s = "kxtf9" THEN UNCHANGED <<conf, op, ghosts>>
     ELSE LET r == IF s = "prox" THEN "prox" ELSE "als" IN
          /\ conf' = [conf EXCEPT ![r] = IF en THEN 1 ELSE 0]
          /\ asked' = [asked EXCEPT ![r] = IF en THEN 1 ELSE 0]
          /\ unsure' = unsure \ {r} /\ UNCHANGED raced
          /\ op' = Hit

\* Whatever the ioctl said, switching off counts.
StateAfterAny(old, en, done) == en
StateAfter(old, en, done) == IF done \/ ~en THEN en ELSE old

\* SensorISL29030L alone believes every request in the end.
Believes(s, old, en, done) == IF s = "light" THEN en ELSE StateAfter(old, en, done)

\* setDelay of the accelerometer, once it is on.
AccelDelay(enabled, ms) ==
  IF enabled
  THEN /\ wanted' = ms
       /\ \/ hwdelay' = [hwdelay EXCEPT !.kxtf9 = ms] /\ late' = late \ {"kxtf9"}
          \/ late' = late \cup {"kxtf9"} /\ UNCHANGED hwdelay
  ELSE UNCHANGED <<hwdelay, late, wanted>>

\* A request that is news to the driver, whether or not it is done.
Requested(s, en, opened, done) ==
  LET old == drv[s].enabled
      after == StateAfter(old, en, done)
  IN  /\ en # old
      /\ drv' = [drv EXCEPT ![s] = [enabled |-> Believes(s, old, en, done), open |-> opened /\ after]]
      /\ IF done THEN ChipSwitched(s, en) ELSE UNCHANGED <<flag, conf, op, ghosts>>
      /\ lost' = IF done THEN lost \ {s}
                 ELSE IF ~en \/ s = "light" THEN lost \cup {s} ELSE lost
      /\ IF s = "kxtf9" /\ (done \/ ~en) THEN AccelDelay(after, DEFAULT_DELAY)
         ELSE UNCHANGED <<hwdelay, late, wanted>>

\* enable(); the device may not open, the ioctl may fail.
Enable(s) ==
  /\ alive /\ s \in used
  /\ \E en, opened, done \in BOOLEAN :
       /\ (drv[s].open => opened) /\ (drv[s].enabled /\ opened => drv[s].open) /\ (done => opened)
       /\ Requested(s, en, opened, done)
  /\ UNCHANGED <<used, alive, compass, buf, glob>>

SetDelayAccel ==
  /\ alive /\ "kxtf9" \in used /\ drv["kxtf9"].enabled
  /\ \E ms \in Delays : AccelDelay(TRUE, ms)
  /\ UNCHANGED <<used, alive, drv, compass, flag, conf, proc, lost, ghosts>>

-----------------------------------------------------------------------------
(* SensorAK8973: several sensors behind one device, which has one delay.   *)

SmallestOfAll(enabled, delays) == Min({delays[w] : w \in Whats})
SmallestDelay(enabled, delays) == Min({delays[w] : w \in enabled})

updateDelay(enabled, delays) ==
  IF enabled = {} THEN UNCHANGED <<hwdelay, late>>
  ELSE \/ /\ hwdelay' = [hwdelay EXCEPT !.ak8973 = SmallestDelay(enabled, delays)]
          /\ late' = late \ {"ak8973"}
       \/ late' = late \cup {"ak8973"} /\ UNCHANGED hwdelay

CompassSwitched(w, en, opens, ok) ==
  LET opened == open \/ (mEnabled = {} /\ opens)
      done == opened /\ ok
      Switch(set) == IF ~done THEN set ELSE IF en THEN set \cup {w} ELSE set \ {w}
  IN  /\ mEnabled' = Switch(mEnabled) /\ akflags' = Switch(akflags)
      /\ IF done THEN updateDelay(mEnabled', mDelays) /\ left' = left \ {w}
                 ELSE UNCHANGED <<hwdelay, late, left>>
      /\ open' = (opened /\ mEnabled' # {})

EnableCompass ==
  /\ alive /\ "ak8973" \in used
  /\ \E w \in Whats, en, opens, ok \in BOOLEAN :
       en # (w \in mEnabled) /\ CompassSwitched(w, en, opens, ok)
  /\ UNCHANGED <<used, alive, drv, mDelays, flag, conf, proc, lost, wanted, ghosts>>

SetDelayCompass ==
  /\ alive /\ "ak8973" \in used
  /\ \E w \in Whats, ms \in Delays : mDelays' = [mDelays EXCEPT ![w] = ms]
  /\ updateDelay(mEnabled, mDelays')
  /\ UNCHANGED <<used, alive, drv, mEnabled, open, akflags, flag, conf, proc, lost, left, wanted, ghosts>>

-----------------------------------------------------------------------------
(* The process dies, and its files are closed; the chips stay as they are. *)
Crash ==
  /\ alive /\ "restart" \in used /\ alive' = FALSE
  /\ UNCHANGED <<used, drv, compass, flag, hwdelay, lost, late, wanted, conf, proc, ghosts>>

ReadsOff(read) == FALSE
isEnabled(read) == read

\* The constructors: the switched drivers ask the chip (the device may not
\* open, the ioctl may fail), the compass takes every sensor for off.
Restart ==
  /\ ~alive /\ alive' = TRUE
  /\ \E unread \in SUBSET (Switched \cap used) :
       LET On(s) == isEnabled(flag[s] /\ s \notin unread)
       IN  /\ drv' = [s \in Switched |-> [enabled |-> On(s), open |-> On(s)]]
           /\ lost' = unread
  /\ mEnabled' = {} /\ mDelays' = [w \in Whats |-> DEFAULT_DELAY] /\ open' = FALSE
  /\ left' = akflags
  /\ wanted' = hwdelay.kxtf9
  /\ UNCHANGED <<used, flag, akflags, hwdelay, late, conf, proc, ghosts>>

-----------------------------------------------------------------------------
(* isl-proximity.c: the operations on its files *)

Begin(u) ==
  /\ ~Busy(u)
  /\ \E file \in FilesOf[u] \cap used :
       LET new == [file |-> file, pc |-> IF file \in Written THEN "scan" ELSE "read", value |-> 0,
                   regv |-> Zero, again |-> Zero, hit |-> \E v \in Users : Busy(v)]
       IN  /\ op' = [Hit EXCEPT ![u] = new]
           /\ IF file \in Written THEN buf' \in Values[file] ELSE UNCHANGED buf
           /\ raced' = (raced \/ \E v \in Users : Busy(v) /\ {file, op[v].file} = {"speed"})
  /\ UNCHANGED <<used, hal, conf, glob, asked, unsure>>

At(u, place) == Busy(u) /\ op[u].pc = place
Goto(u, place) == op' = [op EXCEPT ![u].pc = place]

\* isl_write_reg keeps the low byte.
Byte(value) == value % 256

\* The end; an operation alone has set its own register and no other.
Finish(u, hit) ==
  LET file == op[u].file
      own == IF file \in Written THEN {FieldOf(file)} ELSE {}
  IN  /\ op' = [op EXCEPT ![u] = NULL]
      /\ IF hit
         THEN LET doubtful == own \cup (IF file \in Thresholds \cup Seeing
                                        THEN {} ELSE {"prox", "slp", "dr", "als"})
              IN  /\ unsure' = unsure \cup doubtful /\ UNCHANGED raced
                  /\ asked' = [r \in Registers |-> IF r \in doubtful THEN 0 ELSE asked[r]]
         ELSE /\ asked' = [r \in Registers |-> IF r \in own THEN Byte(op[u].value) ELSE asked[r]]
              /\ unsure' = unsure \ own /\ raced' = (raced /\ file # "speed")

\* sscanf, to a global.
Scan(u) ==
  LET file == op[u].file IN
  /\ At(u, "scan")
  /\ glob' = [glob EXCEPT ![file] = buf]
  /\ op' = [op EXCEPT ![u].value = buf,
                      ![u].pc = CASE file = "speed" -> "clamp" [] file = "enabled" -> "call"
                                  [] file \in Thresholds -> "write" [] OTHER -> "read"]
  /\ UNCHANGED <<used, hal, conf, buf, ghosts>>

Unclamped(speed) == speed
Clamped(speed) == IF speed > 6 THEN 6 ELSE speed

ClampSpeed(u) ==
  /\ At(u, "clamp")
  /\ glob' = [glob EXCEPT !["speed"] = Clamped(@)]
  /\ op' = [op EXCEPT ![u].pc = "read", ![u].value = Clamped(@)]
  /\ UNCHANGED <<used, hal, conf, buf, ghosts>>

\* Of the globals only this one is passed on before the register is read.
CallEnable(u) ==
  /\ At(u, "call")
  /\ op' = [op EXCEPT ![u].pc = "read", ![u].value = glob["enabled"]]
  /\ UNCHANGED <<used, hal, conf, buf, glob, ghosts>>

\* A reader keeps what it saw where the writer of the file has its value;
\* after a failed read only some of them leave it.
GlobalOf(file) == CASE file \in {"see_enabled", "distance"} -> "enabled" [] file = "see_speed" -> "speed"
                    [] file = "see_highpower" -> "highpower" [] file = "see_low" -> "low" [] OTHER -> "high"
Seen(file, ok, regv) ==
  IF file \in Written \/ (~ok /\ file \in {"see_speed", "see_low", "see_high"}) THEN glob
  ELSE [glob EXCEPT ![GlobalOf(file)] = regv[FieldOf(GlobalOf(file))]]

\* A read that fails for good leaves zero, which only some of them notice.
Read(u) ==
  LET file == op[u].file IN
  /\ At(u, "read")
  /\ \E ok \in BOOLEAN :
       LET regv == IF ok THEN conf ELSE Zero
           gone == \/ file = "enabled" /\ ~ok
                   \/ file = "distance" /\ regv["prox"] = 1
                   \/ file \in Seeing
       IN  /\ IF gone THEN Finish(u, op[u].hit \/ ~ok)
              ELSE /\ op' = [op EXCEPT ![u].regv = regv, ![u].hit = @ \/ ~ok,
                                       ![u].pc = IF file = "distance" THEN "on" ELSE "write"]
                   /\ UNCHANGED ghosts
           /\ glob' = Seen(file, ok, regv)
  /\ UNCHANGED <<used, hal, conf, buf>>

\* What goes back: the register as it was read, with the field changed.
NewValueAlone(u) == [Zero EXCEPT ![FieldOf(op[u].file)] = glob[op[u].file]]
NewValue(u) ==
  CASE op[u].file = "enabled" -> [op[u].regv EXCEPT !["prox"] = op[u].value]
    [] op[u].file = "highpower" -> [op[u].regv EXCEPT !["dr"] = IF glob["highpower"] > 0 THEN 1 ELSE 0]
    [] op[u].file = "speed" -> [op[u].regv EXCEPT !["slp"] = glob["speed"] % 8]
    [] OTHER -> [conf EXCEPT ![op[u].file] = Byte(glob[op[u].file])]

WriteRegister(value) ==
  conf' = [r \in Registers |-> IF r \in Thresholds THEN conf[r] ELSE value[r]]

Write(u) ==
  LET file == op[u].file IN
  /\ At(u, "write")
  /\ \/ /\ IF file \in Thresholds THEN conf' = NewValue(u) ELSE WriteRegister(NewValue(u))
        /\ Finish(u, op[u].hit)
     \/ UNCHANGED conf /\ Finish(u, TRUE)
  /\ glob' = IF file = "highpower" THEN [glob EXCEPT !["highpower"] = NewValue(u)["dr"]] ELSE glob
  /\ UNCHANGED <<used, hal, buf>>

\* proc_distance_read switches the sensor on, if it was off...
TemporaryEnable(u) ==
  /\ At(u, "on")
  /\ \/ op' = [op EXCEPT ![u].pc = "on_write", ![u].again = conf]
     \/ Goto(u, "restore")
  /\ UNCHANGED <<used, hal, conf, buf, glob, ghosts>>

TemporaryWrite(u) ==
  /\ At(u, "on_write") /\ op' = [op EXCEPT ![u].pc = "restore", ![u].again = Zero]
  /\ WriteRegister([op[u].again EXCEPT !["prox"] = 1]) \/ UNCHANGED conf
  /\ UNCHANGED <<used, hal, buf, glob, ghosts>>

\* ... and writes back what it had read before.
Restored(u) == op[u].regv

Restore(u) ==
  /\ At(u, "restore")
  /\ \/ WriteRegister(Restored(u)) /\ Finish(u, op[u].hit)
     \/ UNCHANGED conf /\ Finish(u, TRUE)
  /\ UNCHANGED <<used, hal, buf, glob>>

Step(u) ==
  \/ Begin(u) \/ Scan(u) \/ ClampSpeed(u) \/ CallEnable(u) \/ Read(u) \/ Write(u)
  \/ TemporaryEnable(u) \/ TemporaryWrite(u) \/ Restore(u)

-----------------------------------------------------------------------------
Next ==
  \/ \E s \in Switched : Enable(s)
  \/ SetDelayAccel \/ EnableCompass \/ SetDelayCompass
  \/ Crash \/ Restart
  \/ \E u \in Users : Step(u)

Spec == Init /\ [][Next]_vars

-----------------------------------------------------------------------------
(* Over any restarts a driver is on exactly when its chip is, with its     *)
(* device open, unless a switch-off or the question after a restart failed *)
(* or, of the light sensor alone, a switch-on, which it believes too; of   *)
(* the compass's sensors only those stay on unknown that were on when the  *)
(* process died.                                                           *)
DriverKnows ==
  alive =>
    /\ \A s \in Switched \ lost :
         drv[s].enabled = flag[s] /\ drv[s].open = drv[s].enabled
    /\ mEnabled = akflags \ left /\ open = (mEnabled # {})

(* Unless the last ioctl for it failed, the chip has the smallest delay of *)
(* the compass's sensors that are on, and the accelerometer the delay it   *)
(* was last told, or the default one since it was switched on.             *)
DelayWanted ==
  alive =>
    /\ mEnabled # {} /\ "ak8973" \notin late => hwdelay.ak8973 = Min({mDelays[w] : w \in mEnabled})
    /\ drv["kxtf9"].enabled /\ "kxtf9" \notin late => hwdelay.kxtf9 = wanted

(* While no operation is under way, a register that no overlap and no      *)
(* failure has touched since it was set holds its last setting, or the low *)
(* byte of it, whoever set it: the files and the sensor's driver keep each *)
(* other's bits.                                                           *)
SettingsKept ==
  (\A u \in Users : ~Busy(u)) => \A r \in Registers \ unsure : conf[r] = asked[r]

(* "always (disabled to reduce risks)" (isl-proximity.c:324): the          *)
(* proximity light never goes without a pause.                             *)
NeverAlways == conf["slp"] <= 6

(* It does so only once two writes of the speed have overlapped, until one *)
(* is alone; no other use of the files and no failure brings it about.     *)
AlwaysOnlyRaced == raced \/ NeverAlways
=============================================================================
