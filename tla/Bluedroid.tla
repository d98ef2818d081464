----------------------------- MODULE Bluedroid -----------------------------
(***************************************************************************)
(* bluedroid.c: bt_enable, bt_disable and bt_is_enabled, called from       *)
(* several processes that share Bluetooth.  A reference count in the file  *)
(* /tmp/bluedroid_ref says how many use it; the file is locked with fcntl, *)
(* read, unlocked, locked again and written.  The chip's power (rfkill),   *)
(* the HCI interface and the two daemons are what the calls switch.        *)
(*                                                                         *)
(* Each action is one system call, or several between which nobody else    *)
(* can act.  A process may die at any of them: the kernel drops its locks, *)
(* the file keeps its count.                                               *)
(***************************************************************************)
EXTENDS Naturals, FiniteSets

CONSTANTS
  Proc,        \* processes that call the library
  Modes,       \* "serial": one call at a time, and nobody dies in it;
               \* "concurrent": calls overlap and processes die in them
  Faults,      \* for each mode what may fail: "look" (bt_is_enabled cannot
               \* read the state), "rfkill" (it cannot be written), "init"
               \* (a service is not started or stopped), "socket", "hci"
               \* (the interface does not go up or down), "file" (the count)
  MaxCrashes,  \* bound on the processes that die
  MaxCount     \* bound on the count inc_atomic adds to

ASSUME BluedroidAssumption ==
  /\ IsFiniteSet(Proc)
  /\ "none" \notin Proc
  /\ Modes \subseteq {"serial", "concurrent"}
  /\ Faults \in [Modes -> SUBSET {"look", "rfkill", "init", "socket", "hci",
                                   "file"}]
  /\ MaxCrashes \in Nat /\ MaxCount \in Nat

VARIABLES
  power, hci,              \* rfkill state; the HCI_UP flag of hci0
  hciattach, bluetoothd,   \* init's services
  exists, base,            \* the file, and the count in it
  readers, writer,         \* who holds which lock on the file
  pc, loc,                 \* where each process is, and its ref.base
  call,                    \* "dec" in dec_atomic, else "inc"
  users,                   \* who was told Bluetooth is enabled
  crashes,                 \* processes that died
  mode,
  misled                   \* history: what a failure has made the calls
                           \* wrong about, "look" or "count"

chip == <<power, hci, hciattach, bluetoothd>>
file == <<exists, base>>
locks == <<readers, writer>>
vars == <<chip, file, locks, pc, loc, call, users, crashes, mode, misled>>

Places == {"rest", "check", "devinfo", "power_on", "attach", "hci_up",
           "daemon", "open", "rdlock", "read", "wrlock", "write",
           "stop_daemon", "hci_down", "detach", "power_off"}

Init ==
  /\ power = FALSE /\ hci = FALSE /\ hciattach = FALSE /\ bluetoothd = FALSE
  /\ exists = FALSE /\ base = 0
  /\ readers = {} /\ writer = "none"
  /\ pc = [p \in Proc |-> "rest"]
  /\ loc = [p \in Proc |-> 0]
  /\ call = [p \in Proc |-> "inc"]
  /\ users = {}
  /\ crashes = 0
  /\ mode \in Modes /\ misled = {}

-----------------------------------------------------------------------------
Goto(p, l) == pc' = [pc EXCEPT ![p] = l]

MayStart(p) ==
  /\ pc[p] = "rest"
  /\ mode = "serial" => \A q \in Proc : pc[q] = "rest"

(* Something fails, and the call goes on at l.                             *)
MayFail(fault) == fault \in Faults[mode]
Fails(fault, p, l) == MayFail(fault) /\ Goto(p, l)

(* Bluetooth is on as far as bt_is_enabled can tell.                       *)
On == power /\ hci

(* Followed while calls do not overlap; where they do nothing rests on it. *)
Misleads(what) ==
  misled' = IF mode = "serial" THEN misled \cup {what} ELSE misled

(* bt_enable begins.  An application that was told so does not enable      *)
(* Bluetooth twice, and disables it only if it was.                        *)
Enable(p) ==
  /\ MayStart(p) /\ p \notin users
  /\ Goto(p, "check")
  /\ UNCHANGED <<chip, file, locks, loc, call, users, crashes, mode, misled>>

(* bt_is_enabled, in two looks: at the rfkill state, then at the flag.     *)
(* One that fails counts as "not enabled".                                 *)
LookFails(p) ==
  /\ Fails("look", p, "power_on")
  /\ IF On THEN Misleads("look") ELSE UNCHANGED misled

CheckPower(p) ==
  /\ pc[p] = "check"
  /\ \/ Goto(p, IF power THEN "devinfo" ELSE "power_on") /\ UNCHANGED misled
     \/ LookFails(p)
  /\ UNCHANGED <<chip, file, locks, loc, call, users, crashes, mode>>

(* Enabled already: inc reference count only.                              *)
CheckUp(p) ==
  /\ pc[p] = "devinfo"
  /\ \/ Goto(p, IF hci THEN "open" ELSE "power_on") /\ UNCHANGED misled
     \/ LookFails(p)
  /\ UNCHANGED <<chip, file, locks, loc, call, users, crashes, mode>>

PowerOn(p) ==
  /\ pc[p] = "power_on"
  /\ \/ power' = TRUE /\ Goto(p, "attach")
     \/ UNCHANGED power /\ Fails("rfkill", p, "rest")
  /\ UNCHANGED <<hci, hciattach, bluetoothd, file, locks, loc, call, users,
                 crashes, mode, misled>>

(* set_bluetooth_power(0) after a failure; whether it fails is ignored.    *)
CutPower == \/ power' = FALSE
            \/ MayFail("rfkill") /\ UNCHANGED power

StartHciattach(p) ==
  /\ pc[p] = "attach"
  /\ \/ hciattach' = TRUE /\ UNCHANGED power /\ Goto(p, "hci_up")
     \/ UNCHANGED hciattach /\ CutPower /\ Fails("init", p, "rest")
  /\ UNCHANGED <<hci, bluetoothd, file, locks, loc, call, users, crashes,
                 mode, misled>>

(* HCIDEVUP is tried for ten seconds.  It can only succeed with the daemon *)
(* attached to a powered chip, and fails with EALREADY when the flag is    *)
(* set.  A timeout cuts the power; without a socket it stays.              *)
HciUp(p) ==
  /\ pc[p] = "hci_up"
  /\ \/ /\ power /\ hciattach /\ ~hci
        /\ hci' = TRUE
        /\ UNCHANGED power /\ Goto(p, "daemon")
     \/ /\ MayFail("hci") \/ ~power \/ ~hciattach \/ hci
        /\ CutPower
        /\ UNCHANGED hci /\ Goto(p, "rest")
     \/ UNCHANGED <<power, hci>> /\ Fails("socket", p, "rest")
  /\ UNCHANGED <<hciattach, bluetoothd, file, locks, loc, call, users,
                 crashes, mode, misled>>

StartBluetoothd(p) ==
  /\ pc[p] = "daemon"
  /\ \/ bluetoothd' = TRUE /\ UNCHANGED power /\ Goto(p, "open")
     \/ UNCHANGED bluetoothd /\ CutPower /\ Fails("init", p, "rest")
  /\ UNCHANGED <<hci, hciattach, file, locks, loc, call, users, crashes,
                 mode, misled>>

-----------------------------------------------------------------------------
(* bt_disable begins with dec_atomic.                                      *)
Disable(p) ==
  /\ MayStart(p) /\ p \in users
  /\ users' = users \ {p}
  /\ call' = [call EXCEPT ![p] = "dec"]
  /\ Goto(p, "open")
  /\ UNCHANGED <<chip, file, locks, loc, crashes, mode, misled>>

(***************************************************************************)
(* inc_atomic and dec_atomic.  When any call on the file fails bt_enable   *)
(* does not look at the result, and bt_disable takes the negative one for  *)
(* "nobody else uses it".  The file is created by inc_atomic only.         *)
(***************************************************************************)
Inc(p) == call[p] = "inc"

(* The end of inc_atomic is the end of bt_enable; bt_disable goes on.      *)
Counted(p, others) ==
  /\ Goto(p, IF Inc(p) \/ others THEN "rest" ELSE "stop_daemon")
  /\ users' = IF Inc(p) THEN users \cup {p} ELSE users
  /\ loc' = [loc EXCEPT ![p] = 0]
  /\ call' = [call EXCEPT ![p] = "inc"]

OpenFile(p) ==
  /\ pc[p] = "open"
  /\ Inc(p) \/ exists
  /\ exists' = TRUE
  /\ Goto(p, "rdlock")
  /\ UNCHANGED <<chip, base, locks, loc, call, users, crashes, mode, misled>>

OpenFails(p) ==
  /\ pc[p] = "open"
  /\ MayFail("file") \/ (~Inc(p) /\ ~exists)
  /\ Counted(p, FALSE) /\ Misleads("count")
  /\ UNCHANGED <<chip, file, locks, crashes, mode>>

(* F_SETLKW with F_RDLCK, and F_WRLCK.                                     *)
CanRead(p) == writer \in {"none", p}
CanWrite(p) == readers \subseteq {p} /\ writer = "none"

ReadLock(p) ==
  /\ pc[p] = "rdlock" /\ CanRead(p)
  /\ readers' = readers \cup {p}
  /\ Goto(p, "read")
  /\ UNCHANGED <<chip, file, writer, loc, call, users, crashes, mode, misled>>

(* A file without a count reads as zero, and zero is not decremented.      *)
Changed(p, b) == IF Inc(p) THEN b + 1 ELSE IF b = 0 THEN 0 ELSE b - 1

CountReadNot == 0
CountRead == base

UnlockKept(p) == readers
Unlock(p) == readers \ {p}

ReadCount(p) ==
  /\ pc[p] = "read"
  /\ Inc(p) => base < MaxCount
  /\ loc' = [loc EXCEPT ![p] = Changed(p, CountRead)]
  /\ readers' = Unlock(p)
  /\ Goto(p, "wrlock")
  /\ UNCHANGED <<chip, file, writer, call, users, crashes, mode, misled>>

WriteLock(p) ==
  /\ pc[p] = "wrlock" /\ CanWrite(p)
  /\ writer' = p /\ readers' = readers \ {p}
  /\ Goto(p, "write")
  /\ UNCHANGED <<chip, file, loc, call, users, crashes, mode, misled>>

(* write, then close, which drops the lock.                                *)
WriteCount(p) ==
  /\ pc[p] = "write"
  /\ base' = loc[p]
  /\ writer' = "none"
  /\ Counted(p, loc[p] > 0)
  /\ UNCHANGED <<chip, exists, readers, crashes, mode, misled>>

(* A call on the open file fails; close drops whatever lock there is.      *)
FileFails(p) ==
  /\ MayFail("file")
  /\ pc[p] \in {"rdlock", "read", "wrlock", "write"}
  /\ readers' = readers \ {p}
  /\ writer' = IF writer = p THEN "none" ELSE writer
  /\ Counted(p, FALSE) /\ Misleads("count")
  /\ UNCHANGED <<chip, file, crashes, mode>>

-----------------------------------------------------------------------------
(* The rest of bt_disable, when nobody else uses Bluetooth.                *)
StopBluetoothd(p) ==
  /\ pc[p] = "stop_daemon"
  /\ \/ bluetoothd' = FALSE /\ Goto(p, "hci_down")
     \/ UNCHANGED bluetoothd /\ Fails("init", p, "rest")
  /\ UNCHANGED <<power, hci, hciattach, file, locks, loc, call, users,
                 crashes, mode, misled>>

(* Whether HCIDEVDOWN fails is ignored.                                    *)
HciDown(p) ==
  /\ pc[p] = "hci_down"
  /\ \/ hci' = FALSE /\ Goto(p, "detach")
     \/ UNCHANGED hci /\ Fails("hci", p, "detach")
     \/ UNCHANGED hci /\ Fails("socket", p, "rest")
  /\ UNCHANGED <<power, hciattach, bluetoothd, file, locks, loc, call, users,
                 crashes, mode, misled>>

(* Without hciattach there is no hci0.                                     *)
StopHciattach(p) ==
  /\ pc[p] = "detach"
  /\ \/ hciattach' = FALSE /\ hci' = FALSE /\ Goto(p, "power_off")
     \/ UNCHANGED <<hciattach, hci>> /\ Fails("init", p, "rest")
  /\ UNCHANGED <<power, bluetoothd, file, locks, loc, call, users, crashes,
                 mode, misled>>

PowerOff(p) ==
  /\ pc[p] = "power_off"
  /\ \/ power' = FALSE /\ Goto(p, "rest")
     \/ UNCHANGED power /\ Fails("rfkill", p, "rest")
  /\ UNCHANGED <<hci, hciattach, bluetoothd, file, locks, loc, call, users,
                 crashes, mode, misled>>

(* A process that uses Bluetooth, or is in a call, dies and may come back. *)
Crash(p) ==
  /\ crashes < MaxCrashes
  /\ p \in users \/ pc[p] # "rest"
  /\ mode = "serial" => pc[p] = "rest"
  /\ crashes' = crashes + 1
  /\ users' = users \ {p}
  /\ readers' = readers \ {p}
  /\ writer' = IF writer = p THEN "none" ELSE writer
  /\ Goto(p, "rest")
  /\ loc' = [loc EXCEPT ![p] = 0]
  /\ call' = [call EXCEPT ![p] = "inc"]
  /\ UNCHANGED <<chip, file, mode, misled>>

-----------------------------------------------------------------------------
EnableStep(p) ==
  \/ CheckPower(p) \/ CheckUp(p) \/ PowerOn(p) \/ StartHciattach(p)
  \/ HciUp(p) \/ StartBluetoothd(p)

FileStep(p) ==
  \/ OpenFile(p) \/ OpenFails(p) \/ ReadLock(p) \/ ReadCount(p) \/ WriteLock(p)
  \/ WriteCount(p) \/ FileFails(p)

DisableStep(p) ==
  \/ StopBluetoothd(p) \/ HciDown(p) \/ StopHciattach(p) \/ PowerOff(p)

Next == \E p \in Proc :
  \/ Enable(p) \/ Disable(p)
  \/ EnableStep(p) \/ FileStep(p) \/ DisableStep(p)
  \/ Crash(p)

Spec == Init /\ [][Next]_vars

-----------------------------------------------------------------------------
TypeOK ==
  /\ power \in BOOLEAN /\ hci \in BOOLEAN
  /\ hciattach \in BOOLEAN /\ bluetoothd \in BOOLEAN
  /\ exists \in BOOLEAN /\ base \in Nat
  /\ readers \subseteq Proc /\ writer \in Proc \cup {"none"}
  /\ pc \in [Proc -> Places] /\ loc \in [Proc -> Nat]
  /\ call \in [Proc -> {"inc", "dec"}]
  /\ users \subseteq Proc
  /\ crashes \in 0 .. MaxCrashes
  /\ mode \in Modes /\ misled \subseteq {"look", "count"}

(* No process waits for a lock that only waiting processes could release:  *)
(* giving the read lock up before asking for the write lock sees to it.    *)
Waiting == {p \in Proc : \/ pc[p] = "rdlock" /\ ~CanRead(p)
                         \/ pc[p] = "wrlock" /\ ~CanWrite(p)}

NoLockDeadlock ==
  Waiting # {} => \E p \in Proc \ Waiting : p \in readers \/ p = writer

(* As long as calls do not overlap, and the file could be read and written *)
(* each time, the count is right at rest: everybody who uses Bluetooth,    *)
(* and everybody who died using it.                                        *)
CountExact ==
  mode = "serial" /\ "count" \notin misled /\ (\A p \in Proc : pc[p] = "rest") =>
    base = Cardinality(users) + crashes

(* As long as calls do not overlap, Bluetooth is shared as promised, "on"  *)
(* being what bt_is_enabled looks at: it is on before anybody is told so,  *)
(* and nobody turns it off under another.  Services, the interface, the    *)
(* socket and the switch may fail at any call; what breaks the promise is  *)
(* a call on the count that fails, and a look that fails while it is on.   *)
Use == INSTANCE BluetoothUse WITH on <- On

ImplementsUse ==
  /\ Use!Init
  /\ [][mode = "serial" /\ misled' = {} => Use!Next \/ UNCHANGED Use!vars]_vars

(* "other app using bt so just do noting" (line 396): bt_disable decides   *)
(* to turn Bluetooth off only when nobody else was told that it is on.     *)
(* Two calls that overlap lose an update of the count, as inc_atomic and   *)
(* dec_atomic unlock it between reading and writing (lines 207 and 292).   *)
OffForTheLast ==
  [][\A p \in Proc : pc[p] # "stop_daemon" /\ pc'[p] = "stop_daemon" => users' = {}]_vars

(* "bt has been enabled already" (line 332): whoever is told so finds      *)
(* bluetoothd running.  A bt_disable that stops it and then gets no socket *)
(* (line 408) leaves the interface up, which is all the next one looks at. *)
EnabledIsRunning == [][\A p \in users' \ users : bluetoothd]_vars

=============================================================================
