-------------------------- MODULE BluedroidProofs --------------------------
(***************************************************************************)
(* Proofs about Bluedroid, for any finite set of processes and any set of  *)
(* things that may fail: nobody waits for a lock for ever, and as long as  *)
(* calls do not overlap the reference count is exact and Bluetooth is      *)
(* shared as BluetoothUse promises, until a call on the count fails or one *)
(* of bt_is_enabled's looks fails while Bluetooth is on.                   *)
(***************************************************************************)
EXTENDS Bluedroid, FiniteSetTheorems, TLAPS

(* The members of TypeOK, restated for each step of a process.             *)
THEOREM TypeCorrect == Spec => []TypeOK
<1>1. Init => TypeOK
  <2> SUFFICES ASSUME Init PROVE TypeOK
    OBVIOUS
  <2>1. 0 \in 0 .. MaxCrashes
    BY BluedroidAssumption
  <2>2. pc \in [Proc -> Places] /\ loc \in [Proc -> Nat]
    BY DEF Init, Places
  <2>3. call \in [Proc -> {"inc", "dec"}]
    BY DEF Init
  <2> QED BY <2>1, <2>2, <2>3 DEF Init, TypeOK
<1>2. TypeOK /\ [Next]_vars => TypeOK'
  <2> SUFFICES ASSUME TypeOK, [Next]_vars PROVE TypeOK'
    OBVIOUS
  <2> USE DEF TypeOK, Goto, Fails, LookFails, Misleads, Places
  <2>1. CASE UNCHANGED vars
    BY <2>1 DEF vars, chip, file, locks
  <2>2. ASSUME NEW p \in Proc, Enable(p) \/ Disable(p) PROVE TypeOK'
    BY <2>2 DEF Enable, Disable, chip, file, locks
  <2>3. ASSUME NEW p \in Proc, EnableStep(p) PROVE TypeOK'
    <3>1. CASE CheckPower(p) BY <3>1 DEF CheckPower, chip, file, locks
    <3>2. CASE CheckUp(p) BY <3>2 DEF CheckUp, chip, file, locks
    <3>3. CASE PowerOn(p) BY <3>3 DEF PowerOn, file, locks
    <3>4. CASE StartHciattach(p)
      BY <3>4 DEF StartHciattach, CutPower, file, locks
    <3>5. CASE HciUp(p) BY <3>5 DEF HciUp, CutPower, file, locks
    <3>6. CASE StartBluetoothd(p)
      BY <3>6 DEF StartBluetoothd, CutPower, file, locks
    <3> QED BY <2>3, <3>1, <3>2, <3>3, <3>4, <3>5, <3>6 DEF EnableStep
  <2>4. ASSUME NEW p \in Proc, FileStep(p) PROVE TypeOK'
    <3>1. CASE OpenFile(p) BY <3>1 DEF OpenFile, chip, locks
    <3>2. CASE OpenFails(p) BY <3>2 DEF OpenFails, Counted, chip, file, locks
    <3>3. CASE ReadLock(p) BY <3>3 DEF ReadLock, chip, file
    <3>4. CASE ReadCount(p)
      <4>1. Changed(p, CountRead) \in Nat
        BY DEF Changed, CountRead
      <4> QED BY <3>4, <4>1 DEF ReadCount, Unlock, chip, file
    <3>5. CASE WriteLock(p) BY <3>5 DEF WriteLock, chip, file
    <3>6. CASE WriteCount(p) BY <3>6 DEF WriteCount, Counted, chip
    <3>7. CASE FileFails(p) BY <3>7 DEF FileFails, Counted, chip, file
    <3> QED BY <2>4, <3>1, <3>2, <3>3, <3>4, <3>5, <3>6, <3>7 DEF FileStep
  <2>5. ASSUME NEW p \in Proc, DisableStep(p) PROVE TypeOK'
    <3>1. CASE StopBluetoothd(p) BY <3>1 DEF StopBluetoothd, file, locks
    <3>2. CASE HciDown(p) BY <3>2 DEF HciDown, file, locks
    <3>3. CASE StopHciattach(p) BY <3>3 DEF StopHciattach, file, locks
    <3>4. CASE PowerOff(p) BY <3>4 DEF PowerOff, file, locks
    <3> QED BY <2>5, <3>1, <3>2, <3>3, <3>4 DEF DisableStep
  <2>6. ASSUME NEW p \in Proc, Crash(p) PROVE TypeOK'
    BY <2>6, BluedroidAssumption DEF Crash, chip, file
  <2> QED BY <2>1, <2>2, <2>3, <2>4, <2>5, <2>6 DEF Next
<1> QED BY <1>1, <1>2, PTL DEF Spec

(* A process holds the read lock only while it reads, the write lock only  *)
(* while it writes: whoever waits, waits for somebody who can go on.       *)
LockInv ==
  /\ \A p \in Proc : p \in readers <=> pc[p] = "read"
  /\ \A p \in Proc : writer = p <=> pc[p] = "write"

(* The locks agree with the places of the processes, in every behaviour.   *)
LEMMA LocksHeld == Spec => []LockInv
<1>1. Init => LockInv
  BY BluedroidAssumption DEF Init, LockInv
<1>2. TypeOK /\ LockInv /\ [Next]_vars => LockInv'
  <2> SUFFICES ASSUME TypeOK, LockInv, [Next]_vars PROVE LockInv'
    OBVIOUS
  <2> USE BluedroidAssumption DEF TypeOK, LockInv, Goto, Fails, LookFails,
          Places
  <2>1. CASE UNCHANGED vars
    BY <2>1 DEF vars, locks
  <2>2. ASSUME NEW p \in Proc, Enable(p) \/ Disable(p) PROVE LockInv'
    BY <2>2 DEF Enable, Disable, MayStart, locks
  <2>3. ASSUME NEW p \in Proc, EnableStep(p) PROVE LockInv'
    BY <2>3 DEF EnableStep, CheckPower, CheckUp, PowerOn, StartHciattach,
       HciUp, StartBluetoothd, locks
  <2>4. ASSUME NEW p \in Proc, FileStep(p) PROVE LockInv'
    <3>1. CASE OpenFile(p) \/ OpenFails(p)
      BY <3>1 DEF OpenFile, OpenFails, Counted, locks
    <3>2. CASE ReadLock(p) BY <3>2 DEF ReadLock
    <3>3. CASE ReadCount(p) BY <3>3 DEF ReadCount, Unlock
    <3>4. CASE WriteLock(p) BY <3>4 DEF WriteLock, CanWrite
    <3>5. CASE WriteCount(p) BY <3>5 DEF WriteCount, Counted
    <3>6. CASE FileFails(p) BY <3>6 DEF FileFails, Counted
    <3> QED BY <2>4, <3>1, <3>2, <3>3, <3>4, <3>5, <3>6 DEF FileStep
  <2>5. ASSUME NEW p \in Proc, DisableStep(p) PROVE LockInv'
    BY <2>5 DEF DisableStep, StopBluetoothd, HciDown, StopHciattach, PowerOff,
       locks
  <2>6. ASSUME NEW p \in Proc, Crash(p) PROVE LockInv'
    BY <2>6 DEF Crash
  <2> QED BY <2>1, <2>2, <2>3, <2>4, <2>5, <2>6 DEF Next
<1> QED BY <1>1, <1>2, TypeCorrect, PTL DEF Spec

(* Of the processes that overlap in inc_atomic and dec_atomic, one of them *)
(* can always take its next step with the file.                            *)
THEOREM NobodyWaitsForEver == Spec => []NoLockDeadlock
<1>1. TypeOK /\ LockInv => NoLockDeadlock
  <2> SUFFICES ASSUME TypeOK, LockInv, NEW p \in Waiting
               PROVE \E q \in Proc \ Waiting : q \in readers \/ q = writer
    BY DEF NoLockDeadlock
  <2>1. p \in Proc
    BY DEF Waiting
  <2>2. CASE writer # "none"
    <3>1. writer \in Proc /\ pc[writer] = "write"
      BY <2>2 DEF TypeOK, LockInv
    <3> QED BY <3>1 DEF Waiting
  <2>3. CASE writer = "none"
    <3>1. PICK q \in readers : TRUE
      BY <2>1, <2>3 DEF Waiting, CanRead, CanWrite
    <3>2. q \in Proc /\ pc[q] = "read"
      BY <3>1 DEF TypeOK, LockInv
    <3> QED BY <3>1, <3>2 DEF Waiting
  <2> QED BY <2>2, <2>3
<1> QED BY <1>1, TypeCorrect, LocksHeld, PTL

-----------------------------------------------------------------------------
(***************************************************************************)
(* What holds of the serial mode, whatever fails: where the one call under *)
(* way is tells who counts, and what is switched on.  The two sets hold as *)
(* long as no failure has misled a call about the count, or about either.  *)
(***************************************************************************)
Filing == {"open", "rdlock", "read", "wrlock", "write"}
Starting == {"power_on", "attach", "hci_up", "daemon"}
Stopping == {"stop_daemon", "hci_down", "detach", "power_off"}

(* A decrement not written yet: its process no longer uses Bluetooth.      *)
Owes(p) == pc[p] \in Filing /\ call[p] = "dec"

OneCall ==
  /\ \A p, q \in Proc : pc[p] # "rest" /\ pc[q] # "rest" => p = q
  /\ \A p \in Proc : pc[p] # "rest" => p \notin users
  /\ \A p \in Proc : pc[p] \notin Filing => call[p] = "inc"

CountInv ==
  /\ \A p \in Proc : Owes(p) => base = Cardinality(users) + crashes + 1
  /\ (\A p \in Proc : ~Owes(p)) => base = Cardinality(users) + crashes
  /\ \A p \in Proc : pc[p] \in {"wrlock", "write"} =>
       loc[p] = IF call[p] = "inc" THEN base + 1 ELSE base - 1
  /\ base > 0 => exists
  /\ \A p \in Proc : pc[p] \in Filing \ {"open"} => exists

ChipInv ==
  /\ users # {} => On
  /\ \A p \in Proc :
       /\ pc[p] \in Filing \cup {"daemon"} => On
       /\ pc[p] \in Starting \cup Stopping => users = {}
       /\ pc[p] = "devinfo" => power

SerialInv ==
  mode = "serial" =>
    /\ OneCall
    /\ "count" \notin misled => CountInv
    /\ misled = {} => ChipInv

(* How the number of users changes.                                        *)
LEMMA UsersCounted ==
  ASSUME TypeOK
  PROVE  /\ Cardinality(users) \in Nat
         /\ Cardinality(users) = 0 <=> users = {}
         /\ \A p \in Proc \ users :
              Cardinality(users \cup {p}) = Cardinality(users) + 1
         /\ \A p \in users :
              Cardinality(users \ {p}) = Cardinality(users) - 1
<1>1. IsFiniteSet(users)
  BY BluedroidAssumption, FS_Subset DEF TypeOK
<1>2. Cardinality(users) \in Nat
  BY <1>1, FS_CardinalityType
<1>3. Cardinality(users) = 0 <=> users = {}
  BY <1>1, FS_EmptySet
<1>4. ASSUME NEW p \in Proc \ users
      PROVE Cardinality(users \cup {p}) = Cardinality(users) + 1
  BY <1>1, <1>4, FS_AddElement
<1>5. ASSUME NEW p \in users
      PROVE Cardinality(users \ {p}) = Cardinality(users) - 1
  BY <1>1, <1>5, FS_RemoveElement
<1> QED BY <1>2, <1>3, <1>4, <1>5

(* While p is in a call everybody else is at rest, and stays there.        *)
LEMMA OthersRest ==
  ASSUME TypeOK, OneCall, NEW p \in Proc, pc[p] # "rest"
  PROVE  \A q \in Proc : q # p => pc[q] = "rest" /\ ~Owes(q)
BY DEF OneCall, Owes, Filing

(* A step that leaves the file, the users and the caller's own count alone *)
(* and takes nobody to a place about which CountInv says more than before. *)
LEMMA CountKept ==
  ASSUME CountInv,
         UNCHANGED <<file, loc, call, users, crashes>>,
         \A q \in Proc : Owes(q)' <=> Owes(q),
         \A q \in Proc : pc'[q] \in {"wrlock", "write"}
                         => pc[q] \in {"wrlock", "write"},
         \A q \in Proc : pc'[q] \in Filing \ {"open"}
                         => pc[q] \in Filing \ {"open"} \/ exists
  PROVE  CountInv'
<1>1. /\ exists' = exists /\ base' = base /\ loc' = loc /\ call' = call
      /\ users' = users /\ crashes' = crashes
      /\ Cardinality(users') = Cardinality(users)
  BY DEF file
<1>2. \A q \in Proc : Owes(q)' => base' = Cardinality(users') + crashes' + 1
  BY <1>1 DEF CountInv
<1>3. (\A q \in Proc : ~Owes(q)') => base' = Cardinality(users') + crashes'
  BY <1>1 DEF CountInv
<1>4. \A q \in Proc : pc'[q] \in {"wrlock", "write"} =>
        loc'[q] = IF call'[q] = "inc" THEN base' + 1 ELSE base' - 1
  BY <1>1 DEF CountInv
<1>5. (base' > 0 => exists')
      /\ \A q \in Proc : pc'[q] \in Filing \ {"open"} => exists'
  BY <1>1 DEF CountInv
<1> QED BY <1>2, <1>3, <1>4, <1>5 DEF CountInv

(* The steps that neither touch the file nor end a call on it.             *)
QuietStep(p) ==
  Enable(p) \/ EnableStep(p) \/ OpenFile(p) \/ ReadLock(p) \/ DisableStep(p)

(* They leave what CountInv counts alone.                                  *)
LEMMA QuietSteps ==
  ASSUME TypeOK, OneCall, CountInv, NEW p \in Proc, QuietStep(p)
  PROVE  CountInv'
<1> USE DEF Goto, Fails, Filing
<1>a. pc \in [Proc -> Places] /\ call \in [Proc -> {"inc", "dec"}]
  BY DEF TypeOK
<1>1. CASE OpenFile(p)
  <2>1. /\ base' = base /\ loc' = loc /\ call' = call /\ users' = users
        /\ crashes' = crashes /\ exists'
    BY <1>1 DEF OpenFile
  <2>2. \A q \in Proc : Owes(q)' <=> Owes(q)
    BY <1>1, <1>a DEF OpenFile, Owes
  <2>3. \A q \in Proc : pc'[q] \in {"wrlock", "write"} => pc[q] = pc'[q]
    BY <1>1, <1>a DEF OpenFile
  <2> QED BY <2>1, <2>2, <2>3 DEF CountInv
<1>2. CASE ~OpenFile(p)
  <2>1. UNCHANGED <<file, loc, call, users, crashes>>
    BY <1>2 DEF QuietStep, Enable, EnableStep, DisableStep, CheckPower,
       CheckUp, LookFails, PowerOn, StartHciattach, HciUp, StartBluetoothd,
       ReadLock, StopBluetoothd, HciDown, StopHciattach, PowerOff, file
  <2>2. \E l \in Places : Goto(p, l)
    BY <1>2 DEF QuietStep, Enable, EnableStep, DisableStep, CheckPower,
       CheckUp, LookFails, PowerOn, StartHciattach, HciUp, StartBluetoothd,
       ReadLock, StopBluetoothd, HciDown, StopHciattach, PowerOff, Places
  <2>3. \A q \in Proc : q # p => pc'[q] = pc[q]
    BY <1>a, <2>2
  <2>4. \/ /\ pc[p] \notin Filing
           /\ pc'[p] \notin Filing \ {"open"}
        \/ pc[p] = "rdlock" /\ pc'[p] = "read"
    BY <1>2, <1>a DEF QuietStep, Enable, MayStart, EnableStep, DisableStep,
       CheckPower, CheckUp, LookFails, PowerOn, StartHciattach, HciUp,
       StartBluetoothd, ReadLock, StopBluetoothd, HciDown, StopHciattach,
       PowerOff
  <2>5. \A q \in Proc : Owes(q)' <=> Owes(q)
    BY <2>1, <2>3, <2>4 DEF OneCall, Owes
  <2> QED BY <2>1, <2>3, <2>4, <2>5, CountKept
<1> QED BY <1>1, <1>2

(* One call at a time stays one call at a time.                            *)
LEMMA OneCallStep ==
  ASSUME TypeOK, OneCall, mode = "serial", NEW p \in Proc,
         \/ Enable(p) \/ Disable(p) \/ Crash(p)
         \/ EnableStep(p) \/ FileStep(p) \/ DisableStep(p)
  PROVE  OneCall'
<1>a. /\ pc \in [Proc -> Places] /\ users \subseteq Proc
      /\ call \in [Proc -> {"inc", "dec"}]
  BY DEF TypeOK
<1> USE DEF Goto, Fails, Filing, OneCall
<1>1. CASE Enable(p)
  BY <1>1, <1>a DEF Enable, MayStart
<1>2. CASE Disable(p)
  BY <1>2, <1>a DEF Disable, MayStart
<1>3. CASE Crash(p)
  BY <1>3, <1>a DEF Crash
<1>4. CASE EnableStep(p)
  <2>1. /\ pc[p] \in {"check", "devinfo"} \cup Starting
        /\ UNCHANGED <<users, call>>
    BY <1>4 DEF EnableStep, CheckPower, CheckUp, PowerOn, StartHciattach,
       HciUp, StartBluetoothd, Starting
  <2>2. \E l \in Places : Goto(p, l)
    BY <1>4 DEF EnableStep, CheckPower, CheckUp, LookFails, PowerOn,
       StartHciattach, HciUp, StartBluetoothd, Places
  <2> QED BY <1>a, <2>1, <2>2 DEF Starting
<1>5. CASE FileStep(p)
  <2>1. CASE OpenFile(p) \/ ReadLock(p) \/ ReadCount(p) \/ WriteLock(p)
    BY <1>a, <2>1 DEF OpenFile, ReadLock, ReadCount, WriteLock
  <2>2. CASE OpenFails(p) \/ WriteCount(p) \/ FileFails(p)
    <3>1. /\ pc[p] \in Filing /\ call' = [call EXCEPT ![p] = "inc"]
          /\ \/ users' = users /\ ~Inc(p)
             \/ users' = users \cup {p} /\ Inc(p) /\ Goto(p, "rest")
          /\ Goto(p, "rest") \/ Goto(p, "stop_daemon")
      BY <1>a, <2>2 DEF OpenFails, WriteCount, FileFails, Counted
    <3> QED BY <1>a, <3>1 DEF Inc
  <2> QED BY <1>5, <2>1, <2>2 DEF FileStep
<1>6. CASE DisableStep(p)
  <2>1. pc[p] \in Stopping /\ UNCHANGED <<users, call>>
    BY <1>6 DEF DisableStep, StopBluetoothd, HciDown, StopHciattach, PowerOff,
       Stopping
  <2>2. \E l \in Places \ Filing : Goto(p, l)
    BY <1>6 DEF DisableStep, StopBluetoothd, HciDown, StopHciattach, PowerOff,
       Places
  <2> QED BY <1>a, <2>1, <2>2 DEF Stopping
<1> QED BY <1>1, <1>2, <1>3, <1>4, <1>5, <1>6

(* The count stays exact, as long as no call on the file fails.            *)
LEMMA CountStep ==
  ASSUME TypeOK, OneCall, CountInv, mode = "serial", "count" \notin misled',
         NEW p \in Proc,
         \/ Enable(p) \/ Disable(p) \/ Crash(p)
         \/ EnableStep(p) \/ FileStep(p) \/ DisableStep(p)
  PROVE  CountInv'
<1>b. /\ pc \in [Proc -> Places] /\ loc \in [Proc -> Nat]
      /\ call \in [Proc -> {"inc", "dec"}] /\ users \subseteq Proc
      /\ base \in Nat /\ crashes \in Nat
  BY BluedroidAssumption DEF TypeOK
<1>c. Cardinality(users) \in Nat /\ (Cardinality(users) = 0 <=> users = {})
  BY UsersCounted
<1> USE DEF Goto, Filing
<1>1. CASE QuietStep(p)
  BY <1>1, QuietSteps
<1>2. CASE Disable(p)
  BY <1>2, <1>b, <1>c, UsersCounted
     DEF OneCall, CountInv, Owes, Disable, MayStart, chip, file, locks
<1>3. CASE Crash(p)
  BY <1>3, <1>b, <1>c, UsersCounted
     DEF OneCall, CountInv, Owes, Crash, chip, file, locks
<1>4. CASE ReadCount(p)
  <2>1. Changed(p, CountRead) = IF call[p] = "inc" THEN base + 1 ELSE base - 1
    BY <1>4, <1>b, <1>c DEF ReadCount, Changed, CountRead, Inc, CountInv, Owes
  <2> QED BY <1>4, <1>b, <2>1
          DEF OneCall, CountInv, Owes, ReadCount, chip, file, locks
<1>5. CASE WriteLock(p)
  BY <1>5, <1>b, <1>c
     DEF OneCall, CountInv, Owes, WriteLock, chip, file, locks
<1>6. CASE WriteCount(p)
  <2>1. \A q \in Proc : ~Owes(q)' /\ pc'[q] \notin {"wrlock", "write"}
    BY <1>6, <1>b DEF OneCall, Owes, WriteCount, Counted, Inc
  <2>2. base' = Cardinality(users') + crashes'
    <3>1. CASE call[p] = "inc"
      <4>1. \A q \in Proc : ~Owes(q)
        BY <1>6, <1>b, <3>1 DEF OneCall, Owes, WriteCount
      <4>2. Cardinality(users \cup {p}) = Cardinality(users) + 1
        BY <1>6, UsersCounted DEF OneCall, WriteCount
      <4> QED BY <1>6, <1>b, <1>c, <3>1, <4>1, <4>2
              DEF CountInv, WriteCount, Counted, Inc
    <3>2. CASE call[p] = "dec"
      BY <1>6, <1>b, <1>c, <3>2
         DEF CountInv, Owes, WriteCount, Counted, Inc
    <3> QED BY <1>b, <3>1, <3>2
  <2>3. exists'
    BY <1>6, <1>b DEF CountInv, WriteCount
  <2>4. \A q \in Proc : pc'[q] \notin Filing
    BY <1>6, <1>b DEF OneCall, WriteCount, Counted
  <2> QED BY <2>1, <2>2, <2>3, <2>4 DEF CountInv
<1>7. ~OpenFails(p) /\ ~FileFails(p)
  BY DEF OpenFails, FileFails, Misleads
<1> QED BY <1>1, <1>2, <1>3, <1>4, <1>5, <1>6, <1>7 DEF QuietStep, FileStep

(* What is switched on agrees with the place of the call, as long as no    *)
(* failure misleads one.                                                   *)
LEMMA ChipStep ==
  ASSUME TypeOK, OneCall, CountInv, ChipInv, mode = "serial", misled' = {},
         NEW p \in Proc,
         \/ Enable(p) \/ Disable(p) \/ Crash(p)
         \/ EnableStep(p) \/ FileStep(p) \/ DisableStep(p)
  PROVE  ChipInv'
<1>b. /\ pc \in [Proc -> Places] /\ loc \in [Proc -> Nat]
      /\ call \in [Proc -> {"inc", "dec"}] /\ users \subseteq Proc
      /\ base \in Nat /\ crashes \in Nat
      /\ power \in BOOLEAN /\ hci \in BOOLEAN
  BY BluedroidAssumption DEF TypeOK
<1> USE DEF Goto, Fails, Filing, Starting, Stopping, ChipInv, On
<1>1. CASE Enable(p)
  BY <1>1, <1>b DEF OneCall, Enable, MayStart, chip
<1>2. CASE Disable(p)
  BY <1>2, <1>b DEF OneCall, Disable, MayStart, chip
<1>3. CASE Crash(p)
  BY <1>3, <1>b DEF OneCall, Crash, chip
<1>4. CASE EnableStep(p)
  <2>1. CASE CheckPower(p)
    BY <2>1, <1>b DEF OneCall, CheckPower, LookFails, Misleads, chip
  <2>2. CASE CheckUp(p)
    BY <2>2, <1>b DEF OneCall, CheckUp, LookFails, Misleads, chip
  <2>3. CASE PowerOn(p)
    BY <2>3, <1>b DEF OneCall, PowerOn
  <2>4. CASE StartHciattach(p)
    BY <2>4, <1>b DEF OneCall, StartHciattach, CutPower
  <2>5. CASE HciUp(p)
    BY <2>5, <1>b DEF OneCall, HciUp, CutPower
  <2>6. CASE StartBluetoothd(p)
    BY <2>6, <1>b DEF OneCall, StartBluetoothd, CutPower
  <2> QED BY <1>4, <2>1, <2>2, <2>3, <2>4, <2>5, <2>6 DEF EnableStep
<1>5. CASE FileStep(p)
  <2>1. CASE OpenFile(p) \/ ReadLock(p) \/ ReadCount(p) \/ WriteLock(p)
    BY <2>1, <1>b DEF OneCall, OpenFile, ReadLock, ReadCount, WriteLock, chip
  <2>2. CASE WriteCount(p)
    <3>1. Cardinality(users) \in Nat /\ (Cardinality(users) = 0 <=> users = {})
      BY UsersCounted
    <3>2. pc'[p] = "stop_daemon" => users = {} /\ users' = {}
      BY <2>2, <3>1, <1>b DEF CountInv, Owes, WriteCount, Counted, Inc
    <3> QED BY <2>2, <3>2, <1>b DEF OneCall, WriteCount, Counted, chip
  <2>3. ~OpenFails(p) /\ ~FileFails(p)
    BY DEF OpenFails, FileFails, Misleads
  <2> QED BY <1>5, <2>1, <2>2, <2>3 DEF FileStep
<1>6. CASE DisableStep(p)
  BY <1>6, <1>b DEF OneCall, DisableStep, StopBluetoothd, HciDown,
     StopHciattach, PowerOff
<1> QED BY <1>1, <1>2, <1>3, <1>4, <1>5, <1>6

(* What a failure has made a call wrong about stays on record.             *)
LEMMA MisledKept ==
  ASSUME NEW p \in Proc,
         \/ Enable(p) \/ Disable(p) \/ Crash(p)
         \/ EnableStep(p) \/ FileStep(p) \/ DisableStep(p)
  PROVE  mode' = mode /\ misled \subseteq misled'
BY DEF Enable, Disable, Crash, EnableStep, FileStep, DisableStep, LookFails,
   Misleads, CheckPower, CheckUp, PowerOn, StartHciattach, HciUp,
   StartBluetoothd, OpenFile, OpenFails, ReadLock, ReadCount, WriteLock,
   WriteCount, FileFails, StopBluetoothd, HciDown, StopHciattach, PowerOff

(* The invariant holds initially and, whatever the mode, in every step.    *)
LEMMA SerialInvariant == Spec => []SerialInv
<1>1. Init => SerialInv
  <2> SUFFICES ASSUME Init PROVE OneCall /\ CountInv /\ ChipInv
    BY DEF SerialInv
  <2>1. Cardinality(users) = 0
    BY FS_EmptySet DEF Init
  <2>2. CountInv
    BY <2>1 DEF Init, CountInv, Owes, Filing
  <2>3. OneCall /\ ChipInv
    BY DEF Init, OneCall, ChipInv, On, Filing, Starting, Stopping
  <2> QED BY <2>2, <2>3
<1>2. TypeOK /\ SerialInv /\ [Next]_vars => SerialInv'
  <2> SUFFICES ASSUME TypeOK, SerialInv, [Next]_vars PROVE SerialInv'
    OBVIOUS
  <2>1. CASE UNCHANGED vars
    BY <2>1 DEF vars, chip, file, locks, SerialInv, OneCall, CountInv,
       ChipInv, On, Owes
  <2>2. ASSUME NEW p \in Proc,
               \/ Enable(p) \/ Disable(p) \/ Crash(p)
               \/ EnableStep(p) \/ FileStep(p) \/ DisableStep(p)
        PROVE SerialInv'
    <3>1. SUFFICES ASSUME mode' = "serial"
                   PROVE  /\ OneCall'
                          /\ "count" \notin misled' => CountInv'
                          /\ misled' = {} => ChipInv'
      BY DEF SerialInv
    <3>2. mode = "serial" /\ misled \subseteq misled'
      BY <2>2, <3>1, MisledKept
    <3>3. OneCall'
      BY <2>2, <3>2, OneCallStep DEF SerialInv
    <3>4. "count" \notin misled' => CountInv'
      BY <2>2, <3>2, CountStep DEF SerialInv
    <3>5. misled' = {} => ChipInv'
      BY <2>2, <3>2, ChipStep DEF SerialInv
    <3> QED BY <3>3, <3>4, <3>5
  <2> QED BY <2>1, <2>2 DEF Next
<1> QED BY <1>1, <1>2, TypeCorrect, PTL DEF Spec

(* Whatever else fails, the count in the file is the number of users, the  *)
(* dead ones included, whenever no call is under way, as long as calls do  *)
(* not overlap and those on the file itself succeed.                       *)
THEOREM CountIsExact == Spec => []CountExact
<1>1. SerialInv => CountExact
  BY DEF SerialInv, CountInv, CountExact, Owes, Filing
<1> QED BY <1>1, SerialInvariant, PTL

(* bt_enable and bt_disable implement the abstract sharing of Bluetooth,   *)
(* one call at a time, whatever fails but the calls on the count and a     *)
(* look at a chip that is on.                                              *)
THEOREM SharedAsPromised == Spec => ImplementsUse
<1>1. Init => Use!Init
  BY DEF Init, Use!Init, On
<1>2. TypeOK /\ SerialInv /\ [Next]_vars
        => [mode = "serial" /\ misled' = {} => Use!Next \/ UNCHANGED Use!vars]_vars
  <2> SUFFICES ASSUME TypeOK, SerialInv, NEW p \in Proc, mode = "serial",
                      misled' = {},
                      \/ Enable(p) \/ Disable(p) \/ Crash(p)
                      \/ EnableStep(p) \/ FileStep(p) \/ DisableStep(p)
               PROVE  Use!Next \/ UNCHANGED Use!vars
    BY DEF Next
  <2>a. OneCall /\ ChipInv
    BY MisledKept DEF SerialInv
  <2>b. pc[p] \in Places /\ On \in BOOLEAN
    BY DEF TypeOK, On
  <2> USE DEF On, Use!Next, Use!vars, Use!TurnOn, Use!TurnOff, Use!Enter,
              Use!Leave
  <2>1. CASE Enable(p) \/ Disable(p) \/ Crash(p)
    BY <2>1 DEF Enable, Disable, Crash, chip
  <2>2. CASE EnableStep(p)
    <3>1. users' = users
      BY <2>2 DEF EnableStep, CheckPower, CheckUp, PowerOn, StartHciattach,
         HciUp, StartBluetoothd
    <3>2. CASE UNCHANGED chip
      BY <3>1, <3>2 DEF chip
    <3>3. CASE pc[p] \in Starting
      BY <2>a, <3>1, <3>3 DEF ChipInv
    <3> QED BY <2>2, <3>2, <3>3 DEF EnableStep, CheckPower, CheckUp, PowerOn,
               StartHciattach, HciUp, StartBluetoothd, Starting
  <2>3. CASE FileStep(p)
    <3>1. UNCHANGED chip /\ pc[p] \in Filing
      BY <2>3 DEF FileStep, OpenFile, OpenFails, ReadLock, ReadCount,
         WriteLock, WriteCount, FileFails, Filing
    <3>2. users' = users \/ users' = users \cup {p}
      BY <2>3 DEF FileStep, OpenFile, OpenFails, ReadLock, ReadCount,
         WriteLock, WriteCount, FileFails, Counted
    <3> QED BY <2>a, <3>1, <3>2 DEF ChipInv, chip
  <2>4. CASE DisableStep(p)
    <3>1. users' = users /\ pc[p] \in Stopping
      BY <2>4 DEF DisableStep, StopBluetoothd, HciDown, StopHciattach,
         PowerOff, Stopping
    <3> QED BY <2>4, <2>a, <3>1 DEF ChipInv, DisableStep, StopBluetoothd,
               HciDown, StopHciattach, PowerOff
  <2> QED BY <2>1, <2>2, <2>3, <2>4
<1> QED BY <1>1, <1>2, TypeCorrect, SerialInvariant, PTL DEF Spec, ImplementsUse

=============================================================================
