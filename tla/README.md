# A verification of the Motorola Jordan (Defy) device tree

This directory holds TLA+ specifications of the program logic in this
repository, the TLC configurations that check them on small instances, and
TLAPS proofs of the properties that matter most.  `PROJECT.json` says which
run checks what, which lines of the source every definition translates, which
change of the model each property detects, and where the code is exposed to
what hazard.

The repository is an Android device tree.  Most of its files configure a
build; its own program logic is a set of kernel modules (CPU frequency
governors, an I/O scheduler, hooks for touch, proximity, LEDs and clocks),
hardware abstraction libraries (sensors, lights, camera, Bluetooth power), a
settings application and the boot scripts that load and configure them.

## 1. Inventory

For each component: its state, its operations, who calls it, what is hard, and
what makes it correct.

**SIO I/O scheduler** (`modules/overclock/sio-iosched.c`).  State: four fifo
lists of requests (sync or not, read or write), the counters `batched` and
`starved`, three settings.  Operations: add, merge, dispatch, the two
neighbour look-ups, init and exit, and the sysfs writes, all called by the
block layer, the first ones under the queue lock.  Hard: deadlines are looked
at only at the heads of the lists and only between two batches; reads starve
writes by a counter that wraps; memory that is not initialised; the elevator
is switched while requests are in it.  Correct: a request is in exactly one
list while the block layer has it queued, none is starved, deadlines are seen.

**Boosted governor** (`modules/overclock/cpufreq_boosted.c`).  State: the ideal
frequency, ramp direction, the frequency sampled, a timer, one work item for
two work queues, the saved idle hook, the tunables.  Operations: timer, idle
hook, work, START, LIMITS, STOP, suspend and resume, the sysfs writes.  No lock
is held between any of them.  Hard: everything interleaves with everything;
the work can run on both queues at once; timer and work arm each other; STOP
flushes only the queue the item was last put on.  Correct: only frequencies of
the table are set, the ideal follows tunables and limits, load moves the
frequency, a stopped governor stays stopped.

**Conservative governor** (`modules/overclock/cpufreq_conservative.c`).  State:
`requested_freq`, the settings, a work item that queues itself again, the
mutexes `timer_mutex` and `dbs_mutex`.  Operations: the work, the transition
notifier, START, LIMITS, STOP, the sysfs writes.  Hard: the core changes the
limits of the policy without the mutex, so that one sample may see old and new
ones; `requested_freq` is unsigned and outlives a change of the limits; one
step may be too small to reach another frequency.  Correct: within the limits
when told of them, moves with the load, reaches both ends, nothing runs after
STOP.

**Interactive, smartass and powersave governors** (the files of those names in
`modules/overclock`).  The same callers as the two above.  Interactive shares
one `target_freq` between timer and work; smartass keeps a minimum and maximum
speed for awake and asleep; both divide by elapsed time and start without
undoing a half made start; neither flushes queued work.  Powersave sets the
minimum frequency at each event.  Hard: everything interleaves with everything,
as above.  Correct: an idle CPU comes down and a busy one gets up, the speed is
capped exactly while suspended, the idle function and the timer end with the
governor.

**Statistics and operating points** (`cpufreq_stats.c`, `overclock.c`).  A
table of frequencies with the time spent in each, updated by the transition
notifier under a spinlock, and a proc file whose write replaces one operating
point: clock and voltage table, frequency table, limits of the policy and the
statistics' table one after the other.  Hard: no governor is told of new
limits; a frequency that is not in the table has index -1.  Correct: the tables
agree when the writers are done, time is counted once and for the frequency
that runs.

**libsensors** (`libsensors/*.cpp`).  State: per driver a ring of input events,
a chip that is on or off, an open device file and delays; in the poll context
`revents` and a wake pipe.  Operations: `pollEvents` in one thread, `activate`
and `setDelay` in others; events arrive from the kernel at any time.  Hard:
reads, ring and the caller's array cut reports anywhere; what is left over has
to be found by the next call; one driver reports several sensors through one
report and one "pending" event through a wake byte; a failing read; ioctls
that fail half way.  Correct: each sample is taken once and in order, nothing
left over is forgotten, nobody sleeps while there is something to return.

**bluedroid** (`bluedroid.c`).  State: the rfkill switch, the HCI interface,
two services of init, and a reference count in a file under fcntl locks, shared
by several processes.  Operations: `bt_enable`, `bt_disable`, `bt_is_enabled`.
Hard: read and write of the count are two critical sections; each of a dozen
system calls may fail; processes die with the count raised.  Correct: Bluetooth
is on while anybody was told so, and whoever turns it off is the last.

**liblights** (`liblights/lights.c`) and **button backlight, charge LED**
(`modules/backlight`, `modules/usbled`).  State: the two light states behind
one mutex, the cached button brightness, the register's mask and value in the
kernel.  Hard: the cache is updated when the write failed; notification,
battery and charge LED share LEDs; a hooked register write overrides what it
was asked to write.  Correct: what a light shows follows from the last calls.

**Proximity** (`modules/proximity/isl-proximity.c`).  Proc files that read,
change and write back one register of a chip libsensors uses as well, without
a lock; a read of the distance switches the chip on for a moment.  Correct: the
drivers and the files keep each other's bits, and a driver knows whether its
chip is on, restarts of its process included.

**Multitouch** (`modules/multitouch`).  Forces the touch driver to initialise
again by spoiling its checksum, which a second hook mends.

**Hooks** (`modules/*/hook.c`).  Replace the first instruction of a kernel
function and keep the old one; two modules hook the same function.
**Register log, clock, gpio and mmc fixes, symsearch**: what stands behind
those hooks, nearly stateless.

**Camera wrapper** (`libcamera`).  One instance behind a weak pointer; flash
mode, the torch file, a thread that sets the torch again after a picture;
callbacks from the vendor's library.  Hard: all of them write the torch's file.
Correct: the torch follows the flash mode and goes out with the camera; the
exposure comes back as it was set, up to a third.

**Boot scripts** (`bootmenu/script`), **DefyParts** (settings application),
**USB controller, audio policy, stubs, recovery keys, packaging, configuration**:
command lists and single writes.  The one protocol with a failure in it is the
backup of the pds partition, whose image is taken for complete once it exists.

Interactions: the governors are clients of the kernel's cpufreq core and of
each other's limits; the boot script loads the scheduler, the governors and the
operating points and writes their settings; `overclock.c` calls the
statistics; lights and backlight drive the same LEDs; the proximity module and
libsensors the same chip; multitouch, backlight and log all live on hooks.

## 2. Modules

| Module | What it is | Code |
|---|---|---|
| `Sio`, `MCSio`, `SioProofs` | the scheduler with the block layer that calls it | `sio-iosched.c` |
| `CpufreqTable` | the CPU's frequencies and how the core rounds to them | external, as the governors use it |
| `CpufreqTableProofs` | what the search in the table returns | |
| `Boosted`, `MCBoosted`, `BoostedProofs` | the boosted governor, thread by thread | `cpufreq_boosted.c` |
| `Conservative`, `MCConservative`, `ConservativeProofs` | the conservative governor | `cpufreq_conservative.c` |
| `Interactive`, `MCInteractive`, proofs in `SensorsProofs` | the interactive governor | `cpufreq_interactive.c` |
| `Smartass`, `MCSmartass`, `SmartassProofs` | the smartass governor | `cpufreq_smartass.c` |
| `Overclock`, `MCOverclock`, proofs in `SioProofs` | operating points, statistics and powersave composed | `overclock.c`, `cpufreq_stats.c`, `cpufreq_powersave.c` |
| `Bluedroid`, `MCBluedroid`, `BluedroidProofs` | calls of several processes, system call by system call | `bluedroid.c` |
| `BluetoothUse` | abstract: who may turn Bluetooth off | refined by `Bluedroid` |
| `InputReader` | the ring of input events as operators | `InputEventReader.cpp` |
| `Sensors`, `MCSensors`, `SensorsProofs` | polling, drivers and activation | `nusensors.cpp`, the drivers |
| `SensorStream` | abstract: samples are taken once and in order | refined by `Sensors` |
| `SensorControl`, `MCSensorControl`, `SensorControlProofs` | switching the sensors and their delays, with the proximity files | the drivers, `isl-proximity.c` |
| `Lights`, `MCLights`, proofs in `SensorsProofs` | the lights with the kernel modules behind their files | `lights.c`, `cpcap-bright.c`, `usb-led.c`, `BrightnessPreference.java` |
| `Camera`, `MCCamera`, proofs in `SensorControlProofs` | the torch and the exposure of the camera wrapper | `JordanCameraWrapper.cpp` |

A proof module may hold the proofs of several components, one part after the
other.  Such components have nothing to do with each other and share no name, so
that `Interactive`, `Overclock`, `Lights` and `Camera` call their `Init`, `Next`
and `vars` after themselves (`CameraInit`, `CameraNext`, `cameraVars`).

**Sio.**  `fifo` is `fifo_list`, `req` what the block layer knows of each
request; `AddRequest`, `BackMerge`, `FrontMerge`, `DispatchExpired`,
`DispatchChosen` and the others are the elevator's callbacks, each atomic
because the queue lock is held.  A deadline is the number of ticks left, so
that time needs no clock.  `Garbage` is what uninitialised memory may hold.
Unsigned counters wrap at `Word`.  `streak` is a history variable.

**Boosted.**  Every thread (two workers, the core's call, suspend, a sysfs
writer) has a place in `pc` and a local value in `loc`; one action goes from
one shared read or write to the next.  The up worker is a real-time thread on
the only CPU, so the others run while it sleeps (`At`).  The sampling
arithmetic is reduced to what a sample may find.  `outdated` is a history
variable: the ideal frequency was written from inputs that have changed since.

**Conservative.**  `work` is where the work item is between queued and queued
again, `event` where the core's call is; the core makes one call at a time.
`Sampling` says that `timer_mutex` is held.  `Notified` is the transition
notifier, called by the driver for a frequency that is new.

**Interactive.**  The timer and the idle hook are one action each, because
nothing preempts them on the single CPU; the work goes step by step through
clearing the mask, reading `target_freq`, setting the frequency and noting the
time (`run`), on whichever queue it was put.  Times are abstracted to what the
code asks of them: `slept` (idle cycles since the timer was armed), `busy` (not
always idle since `freq_change_time`, on which the load depends), and whether
`min_sample_time` has passed, which `TimerDown` chooses.  `mode` is what may
happen in a behaviour: nothing unusual, work that takes longer than the timer, or
files that are not created.

**Smartass.**  The timer is one action, the work two (what it decides, and the
frequency it sets), START, STOP, LIMITS and the two suspend handlers as many as
they have places where they may be preempted.  `Liberties` says what each mode
allows: callers that overlap, settings written while suspended, files that are
not created.  The load is an input.

**Overclock.**  A write to `mpu_opps` goes through the shared buffer (`scan`),
the operating point and frequency table, the policy and the statistics, each a step
(`pc`); transitions, which look up the index before and count the time after,
come in between.  `unsure` are the points that two writes at once last moved to
different rates, `settled` says that a transition has begun and ended since the
last write, and `Told` are the points the statistics know at all (section 8,
item 10): the conditions under which the accounts are right.  A write that
overlaps another is no exception by itself, only such a point is, until it is
moved again.  Powersave's whole effect is the frequency it sets at START and
LIMITS.

**Lights.**  A call computes what it will write under `g_lock` (`Locked`) and
then writes file after file (`WriteInt`), each of which may fail; the backlight
module's hook overrides writes of the level register.  `requested` is the last
request of each light, `unsure` the lights whose last write failed.

**SensorControl.**  `Enable`, `SetDelayAccel`, `EnableCompass` and
`SetDelayCompass` are the drivers' calls with each ioctl's failure; `Restart` is
what the constructors ask the chip after `Crash`.  The files of the proximity
module go step by step from reading the register to writing it back, through a
shared buffer and shared globals; reading a file (`Seeing`) stores what the
register says in the same globals.  A threshold is a register of its own and
takes the low byte of what is written (`Byte`), the speed three bits.  `used` is
what a behaviour is about, so that what does not interact is not multiplied.
History variables: `lost` (sensors of which a failed call has misled the driver:
a switch-off, the question after a restart or, of the light sensor, a switch-on),
`left` (compass sensors that a dead process left on), `late` (delays not set),
`asked` (the registers' last settings), `unsure` (those that an operation which
overlapped another, or failed, may have changed) and `raced` (two writes of the
speed have overlapped, and none has been alone since).

**Camera.**  `at` is where each of three threads is: the camera service's call
(the destructor included), the library's callback, and the torch thread.  A
toggle is two actions, `ToggleReads` and `ToggleWrites`; cancelling the thread
is three (`Signal`, `RequestExit`, `Join`).  `Darkens` is what the library does to
the torch when it focuses or takes a picture, the reason for the wrapper's
callbacks.  History variables: `stale` (a toggle read what has changed since)
and `overtaken` (the last write was one of those).  `Offset` and `getExposure` are
the two translations of the exposure, in hundredths and thirds.

**Bluedroid.**  `pc` says which system call a process makes next; `readers` and
`writer` are the fcntl locks; `Crash` drops the locks and leaves the count.
`mode` tells behaviours in which calls overlap from those in which they do not
("serial"): the promises hold in the second kind, and only there.  In both, every
call of the system may fail, `HCIDEVDOWN` included, whose result nobody looks at.
`misled` is a history variable: what a failed call has made the code believe.
"count" is in it once a call on the count's file has failed, "look" once a
process has found Bluetooth off because a look at the switch or the interface
failed while it was on.  Nothing else that fails breaks the promises.

**Sensors.**  `kernel` holds what the devices have not delivered, `ring` the
readers, `pc` and `at` the polling thread in the scan over the drivers;
`Activate` and `WriteWake` are another thread.  KXTF9 and the two ISL29030
drivers share their read loop and are `Plain`; AK8973 is `Compass`.  A sensor's
samples are numbered: `taken` is the last number its driver has read, `given`
how many samples it has put into the caller's array, so that one handed over
twice is one too many.  `Shared` are the sensors whose device also sends reports
that say nothing about them, as that of the two ISL29030 drivers does.

## 3. Runs

| Run | Instance | Shows |
|---|---|---|
| `sio` | one read, two sync writes, one async write, batch of 2, words of 6 values, memory that held 0 or -1, an elevator switch | lists and block layer agree, BUG_ONs never fire, deadlines seen, reads bounded, no starvation |
| `boosted_races` | 3 frequencies, 2 policies, every event, suspend, a START that fails half way | the ideal frequency follows; every valid ramp moves, for limits that are frequencies of the table |
| `boosted_load` | full load | reaches the maximum, stopped for good |
| `conservative` | 4 frequencies, 3 policies, steps of 0 and 25 %, thresholds on both sides of the load | limits, direction, both ends, STOP |
| `interactive` | 3 frequencies, 2 policies, three modes | a busy CPU gets the highest frequency, an idle one comes down, STOP is clean |
| `smartass` | 3 frequencies, 2 policies, no load and full load, three modes | capped while suspended, comes down, STOP is clean |
| `overclock` | 3 operating points, one of them missing in the kernel's table, two writers who disagree about one, four inputs, one tick | tables agree, accounts right, no time lost |
| `bluedroid` | 3 processes, one death, every failure, with calls that overlap and calls that do not | locks, with any overlap; count and sharing, of calls that do not overlap |
| `sensors` | 2 drivers, 3 sensors, rings of 2, arrays of 2 | refinement of `SensorStream`, leftovers, wake-ups |
| `sensor_control` | 2 users who both write the speed, 2 delays, a threshold above 255, seven sets of what is used | drivers know, delays kept, settings kept; the light goes without a pause only after a race |
| `lights` | 2 callers, 3 sets of opened lights, 3 colours, 2 brightnesses | the last call is shown |
| `camera` | 2 users, all 19 exposures, torch and no flash, three scenes | the torch as wanted, the exposure settles |

Why these bounds are enough to meet the cases that matter:
- *Sio*: one request of each kind the block layer makes, and two of one, give
  every choice between lists and merging within one; a word of 6 values lets
  each counter wrap; expire times of 0 and 1 tick let deadlines pass before,
  in and after a batch.  Which properties need larger numbers is settled by the
  proofs, which have no bound.
- *The governors*: three or four frequencies include one pair that is closer
  than a step and one that is farther apart, and policies whose limits exclude
  the current frequency on either side.  Two callers at once (`Overlap` in
  `Smartass`) are enough for one to undo the other; `MaxStarts` lets START come
  again after one that failed.
- *Overclock*: three points have an outer one on each side and one that the
  kernel's table lacks; two writers overlap in every way two can, move one point
  to the same rate, one point to two rates and two points; a tick comes before or
  after any step of a transition.
- *Lights*: the lights that share files are opened together, the others alone.
  Two callers wait for one lock; a third only waits longer.
- *SensorControl*: two users of the files, as each operation is a read, a
  change and a write; two delays are a smaller and a larger one; 3 is a speed
  the code keeps and 7 one it must clamp.
- *Camera*: the three threads are all there are; two users share an instance.
  Exposures other than 0 come with a portrait's flash mode, as the two do not
  interact.
- *Bluedroid*: three processes are the least with one that overtakes two
  others; more than one death repeats the effect of the first on the count.
- *Sensors*: a ring of two events is full, wraps and cuts a report of three
  events at every place; an array of two is full between reports and, with one
  place taken, within a report of two sensors.

Symmetry is used where only safety is checked (`overclock`, `lights`).

The settings of the scheduler are not written in `sio`: that its lists stay
consistent and its counters in range with writes at any time is proved, for
`TunedSpec`.

Deadlock is checked in `camera`, `conservative`, `interactive`, `smartass`, `overclock`,
`lights`, `sensor_control` and `sensors`.  It is not in the others: the elevator
may be gone, a device without another governor or user may rest, and every
process may have died.

`Boosted` can express handlers that outlast a sampling period (`Ops` with
`"late"`); no run includes it, though the theorems `TypeCorrect`,
`IdealIsFollowed` and `ValidRampsMove` cover it.  Both runs assume that handlers which are under way
when the timer is armed end before it expires: a handler is microseconds, a
period at least a jiffy.  `Interactive` and `Smartass` check the overlap in modes
of their own.

## 4. Fairness

*Sio* (`FairSpec`): the block layer runs its queue while requests are queued
(`Dispatch`; it polls the elevator whenever the driver can take a request), and
time passes (`Tick`).  Nothing makes anybody submit or merge a request, and
nothing stops the block layer from submitting more.

*Boosted*: a pending timer expires, an idle CPU is woken by it, the two workers
go on, and calls that have begun (of the core, of suspend and resume, of a
sysfs writer) end.  Nobody is made to begin one.  Weak fairness is enough
because no handler takes a lock that another one holds.

*Conservative*: the work queue's thread runs the work when it is due, and START
and STOP go on.  LIMITS waits for `timer_mutex` and STOP for the end of the
work, and both are free between any two samples, so that each of them is
enabled again and again but not continuously: strong fairness.  The kernel
gives it, as a mutex has a queue of waiters and a cancelled work is not queued
again before the canceller is done.

*Interactive* and *Smartass*: calls that have begun end, and a worker that has
begun goes on (weak).  A worker begins queued work strongly fairly, because a
real-time worker or another caller may be in between again and again.  The
timer fires when it is due.  Two events are strongly fair because only time
stands between them and the code keeps asking: in interactive, that
`min_sample_time` has passed when the timer looks (`TimerDown(TRUE)`); in
smartass, that a timer which is armed again and again measures a load for which
it queues work, the rate limits having passed.  A CPU without load enters the
idle thread.  No call and no change of the load is made to happen.

*Bluedroid*, *Sensors*, *SensorControl*, *Lights*, *Overclock* and *Camera* state
safety only, and assume no fairness.

## 5. Proofs

Everything below holds for every value of the constants that the modules'
named assumptions allow: `SioAssumption`, `TableAssumption`,
`BoostedAssumption`, `ConservativeAssumption`, `SmartassAssumption`,
`InteractiveAssumption`, `BluedroidAssumption`, `ReaderAssumption`,
`SensorsAssumption`, `SensorControlAssumption`, `OverclockAssumption`,
`LightsAssumption`, `CameraAssumption`.  They give the constants their types (a
word has at least two values, a ring at least one place, the table is a finite
set of positive numbers, limits are in order, a sensor belongs to one driver,
the values that stand for nothing are not among the others) and leave the
numbers open.  Three of them say more about the hardware: the kernel's operating
points ascend in kHz and its frequency table has an entry for each of them, or
for all but one (`OverclockAssumption`); a light's components are not negative,
levels are bytes and scales percentages (`LightsAssumption`); an application
asks for exposures between -3 and 3 EV, in thirds (`CameraAssumption`).  What a
theorem assumes beyond that stands in its statement, and below.

Every invariant, action property and refinement that a run checks is stated by
a theorem.

*SioProofs.*  `Structure` (types, and every request in exactly one place) is
inductive even with settings written at any time, so `TypeCorrect`,
`RequestsInOnePlace` and `ExitFindsListsEmpty` are about `TunedSpec`.
`RemovalKeepsOnePlace` treats the four ways out of a list as one, since merges
take requests from the middle.  `DeadlinesAreSeen` adds that each list is
ordered by deadline, which holds while the expire times stay as they are (a
smaller one, written while requests are queued, breaks it; hence `Spec`).
`ReadsPassFewWrites` needs `StreakInv`: the history variable `streak`, which
counts the reads that passed a waiting write, is at most one ahead of `starved`,
and when either is beyond what the choice of the next request allows, a batch
has just begun with the read that expired.

*CpufreqTableProofs.*  The lemmas that the four governors' proofs share: the
lowest and the highest frequency of a set exist, from the order of the numbers;
the driver's search returns the nearest on the side that was asked for
(`PickNearest`), keeps the order of requests (`PickMonotone`) and leaves a
frequency of the table as it is (`PickExact`).

*BoostedProofs.*  `ValidRequestsMove`: the search through the table ends at
another frequency within the limits whenever the request is valid.  The run
checks it with one table; here it is any.  `ValidRampsMove` carries it over to
the work, which reads frequency and limits at different times, for policies
whose limits are frequencies of the table; with limits between two of them the
claim is false (section 8, item 11).
`IdealIsFollowed` rests on `FollowInv`: `ideal_speed` is what the tunables and
the limits give, or somebody is between changing them and computing it again.
A `sleep_ideal_freq` of 0 stored while suspended is excepted (section 8, item 12).
`StopIsFinal` needs most.  That the work is gone is not inductive by itself:
STOP waits for the work that was queued when it flushed, and the work arms the
timer.  `StopInv` says that there is one work item, on the queue it was last put
on, which an armed timer will wait for (`OneWork`); that count, hook and the
callback's place belong together (`HookInv`, `PhaseInv`); that a timer the work
arms during the flush does not expire before STOP ends (`FlushInv`); and that
after the flush there is no work (`StoppedInv`).  Its two hypotheses are the
ones of the run: no early suspend (see the hazard at line 770) and handlers that
end within a sampling period.

*ConservativeProofs.*  `TypeCorrect` and `StopsForGood` need no assumption but
those on the constants.  For `LimitsAreKept` and `FollowsTheLoad`, `IInv` says
that the frequency is the highest of the table at or below `requested_freq`
between two samples, and on which side of it the request is within one
(`RequestInv`); that a request in the middle of a sample respects the limits
unless LIMITS is still to come (`RangeInv`); and where the core's call and the
work may be (`PhaseInv`).  LIMITS cannot come in the middle of a sample, which
is what `timer_mutex` is for.  Both theorems assume `StepsFit`: a step is not
larger than the lowest frequency, as with the default of 5 percent.  Without it
the subtraction wraps, see section 8.

*SmartassProofs.*  `StopIsClean` follows from `HookInv` (count and hook by the
place of the core's call) and `TimerInv`, with calls that overlap in any way.
`SuspendCaps` is about calls that do not overlap.  `CapInv` says that one of
them is in the core, a handler or a worker at a time (`OneCall`), that the speeds
are those of the state the last of them found (`SpeedsInv`), and that the
frequency is between them as the driver rounds, but for a handler that has not
set it yet (`CurInv`).  It assumes `CapInUse`, that `sleep_max_freq` is never 0.
Without it the invariant is false: see section 8.

*BluedroidProofs.*  `LockInv` (who has which lock is told by where he is) gives
`NobodyWaitsForEver`, with any overlap.  `SerialInv` is for behaviours in which
calls do not overlap, and has three parts: one call at a time (`OneCall`); until a
call on the file fails, the count plus what that call still owes is the number of
users, living or dead (`CountInv`); and until a look fails as well, what is on
follows from where the call is (`ChipInv`).  Each is kept for its own reason
(`OneCallStep`, `CountStep`, `ChipStep`), and what has misled somebody stays so
(`MisledKept`).  From them follow `CountIsExact` and `SharedAsPromised`, the
refinement of `BluetoothUse` up to the first such failure.  No assumption limits
what may fail.  Both are false when calls overlap; see section 8.

*SensorsProofs.*  `FillAppends` and `AdvanceTakesTheOldest` say that the ring
is a queue, from the arithmetic of its three pointers.  `IInv` joins
`LeftoverIsMarked` with `CountInv` (room in the caller's array), `DrainInv`
(drivers that the scan has passed are empty or marked) and `AnnounceInv` (an
announced event has its wake byte written, about to be, or is met later in this
scan); it is inductive and gives `TypeCorrect`, `LeftoversAreFound` and
`NoWakeIsLost`.
`SamplesAreAStream` is the refinement of `SensorStream`.  What is taken next is
in no variable: it follows from the events that are left in the ring and, behind
them, in the device.  `StreamInv` says that parsing this queue leads each
sensor from its pending value to the number of samples sent, every value being
the one after the last and coming only when the last has had its SYN
(`InOrder`); that a pending value is taken or the next to take; and that AK8973's
mask names the sensors of the latter kind.  What the array was given is counted,
and a `Plain` driver gives a sample only with the SYN that also takes it, unless
its device reports without it (`Shared`): the lemmas named `Valued...` show that
of the others a SYN never comes without a value before it.  Where parsing leads is told by two
functions over the queue (`Parsing`) whose existence is asserted, so that
taking an event off the front (`OrderPops`), appending a report (`OrderAppends`)
and cutting the queue elsewhere (`QueueFills`) give new functions explicitly and
need no induction over the queue.

*SensorControlProofs.*  The half about the drivers is inductive as it stands:
`DriversKnow` and `DelaysAreAsWanted` take one step per call, `TypeCorrect` and
the fact that a file's operation never touches a driver (`StepsLeaveTheDrivers`).
`LightPauses` is about any number of writers of the speed.  `PauseInv` says that
they have raced or that `SlowEnough` holds: not only is the pause in the register
at most 6, so is it in every copy of the register that somebody will write back,
and in the global, but for the one writer who has stored and not yet clamped it.
While nobody has raced there is one such writer; and one who is alone writes what
he has clamped himself (`AloneSlow`, from `SettingsInv`), which ends the race.
`SettingsAreKept` needs `SettingsInv`: an operation that nothing overlapped is
alone (`AloneInv`), its value travels from the buffer through the global into
the register, where a threshold loses all but its low byte (`ValueInv`), what it
has read is the settings (`CopiesInv`), and a
register that differs from its setting is one that somebody under way is going
to declare unsure (`Kept`).  Any overlap and any failed access is covered by the
last.

*Overclock, in SioProofs.*  `OverclockInv` says what a write to `mpu_opps` still
owes.  A module that is loaded has statistics and no missing entry (`LifeInv`);
whoever moves a point that is not `unsure` moves it to the rate it already has as
an operating point (`ArgInv`), also when several do so at once; so the frequency
table, the policy and the statistics have the frequency of such a point, or
somebody is moving it (`TableInv`, `PolicyInv`, `StatsInv`).  Moving one point
leaves the others alone (`UntouchedPoints`), and the ends of the policy are those
of the outermost points from the start (`KernelEnds`; that the points ascend is
needed here).  When nobody
is moving a point nothing is owed for it, which is `TablesAgreeAlways`.  `CountInv` follows
the two halves of a transition: one that no write disturbed moves `last_index`
to the index of the new frequency.  With `StatsInv` that gives
`AccountsAreRight`.  `IndexInv`, inductive only together with the others, says
that `last_index` is always an index: the CPU runs at a frequency of the
kernel's table when the statistics are made, and the notifier keeps the old
index when the new one is -1 (`cpufreq_stats.c:307`).  The same line's test for
an old index of -1 never holds.  `TimeIsConserved` is about a sum, which is a
recursive function (`Total`).  That its equation has one solution, and what a
jiffy more in one entry does to it, is shown by the least place where the claim
fails (`TotalIs`, `RunningExists`, `TotalGrows`), in the place of an induction
theorem.

*Camera, in SensorControlProofs.*  `TorchInv` says where the three threads may
be (`ThreadsOK`); that the thread is asked to exit only while somebody waits for
its end (`ExitInv`); that nothing goes on in a camera without owner but its
destructor (`EndInv`); that a toggle has seen the flash mode as it is or is known
to be stale (`SeesInv`); and that the light differs from the mode only while
something under way is going to write it again (`LightInv`, `Renewing`).  At
rest there is nothing of the kind: `TorchIsAsWanted`.  `ExposureIsSettled` is
arithmetic, for the 19 exposures there are; `ExposureInv` ties the parameter to
the exposure last set.

*Lights, in SensorsProofs.*  `AskedOK`: the globals hold what the last calls
asked for.  `FileInv`: each file has the value these calls give it together
(`Want`), and under the lock the writes still to be done lead there (`Comes`),
unless one to that light has failed.  A call's list of writes is taken apart one
write at a time, with no induction over it.  `ButtonInv` does the same for the
cached brightness, which decides what is written at all: the cache is that of
the last call, or it is forgotten and the light is unsure, until a call
succeeds.  `LastCallIsShown` and `ButtonIsShown` hold for any number of callers
and any failing writes.

*Interactive, in SensorsProofs.*  `StopInv`: the hook is in place only while the
governor runs or is being unhooked, and what is saved to be put back is never
the hook itself (`HooksOK`); unless a START has failed half way, count, hook,
saved hook and timer say the same (`StartedOK`).  `StopsAreClean` follows.

## 6. Only model-checked

- Liveness: `NoStarvation`, `ReachesMax`, `HighLoadReachesMax`,
  `IdleReachesMin`, `BusyGetsHighest` and the two `IdleComesDown`.  Fairness is
  defined by ENABLED, which TLAPS does not reason about here.
- What the theorems' own hypotheses leave out is left out by the runs as well:
  steps larger than the lowest frequency, `sleep_max_freq = 0`, limits between two
  frequencies (in `Boosted`), and a governor that is suspended while it stops.

## 7. Not modelled, and what is abstracted

*In the modelled components.*
- Sio: the show functions, and memory running out in `sio_init_queue`.
- Boosted: the rates and the load thresholds decide only whether a sample may
  ramp, so a sample is a choice; integers are unbounded there.  Hence no
  statement about `ramp_up_step` as an unsigned number added to an int (line
  416) or about samples without idle cycles skipping the up rate (line 323).
  `StoppedForGood` is checked without suspend, see the hazard at line 770.
- Conservative: the load is an input, without the arithmetic of idle times and
  the setting `ignore_nice_load` that only changes how it is measured (and
  `sampling_down_factor`, which nothing reads); the driver's transitions do not
  fail (line 450 would take a failed one to the maximum for done).  Sysfs's and
  the core's own locks are not part of it.  Where a sample reads a limit of the
  policy twice in a row (lines 437 and 440; 464, 465 and 470) the model reads it
  once, although the core may change limits between the two.
- Interactive: the two idle-time formulas; a load is none, about half or full,
  and full only without an idle cycle.  The division at line 178 is by zero when
  no microsecond has passed since the last change.  The timer's return at lines
  90-91, when the clock has not moved since the idle hook noted it, is left out:
  the timer is armed two ticks ahead.  START stores the policy (line 261) in the
  step that installs the hook (line 260): nothing waits between the two, and the
  idle thread of the only CPU runs when nobody else does.
- Smartass: the idle-time arithmetic, and when a sample is due.  The settings
  checked are the defaults scaled to the instance and the values of `MCInputs`:
  neither `sleep_max_freq = 0` nor a `max_ramp_down` larger than the frequency
  (line 309, where the subtraction wraps) is among them.  Work that STOP leaves
  queued may set one more frequency; no property forbids it.
- Overclock and statistics: the time an update adds is read before the spinlock is
  taken (`cpufreq_stats.c:68-69`), and in the model under it; `Load` comes after the
  statistics were made (line 58 would use them without); rates are not negative;
  a write is copied into the buffer and scanned in one step each.  Also `total_trans`, the transition table, CPU hotplug
  and unloading of the statistics; the voltage follows the rate; the symbol search.
- Lights: fading (`animate`), and the attention light, whose function is empty.
- SensorControl: bus retries are one outcome; the dump of registers; the
  sensors' data, which are in `Sensors`.
- Camera: frame rates, zoom limits, the mended GPS tag, and all that is passed
  on unchanged.  mFlashMode is a string one thread assigns while another
  compares it; the model takes that for one step.  That the service opens and
  closes one at a time, and ends the callbacks first, is an assumption on code
  that is not here; without it the weak pointer (line 110) and the destructor
  would have more to fear.
- Bluedroid: the search for the switch in `/sys/class/rfkill` is one step.
- Sensors: delays and the chips' own switches, which are in `SensorControl`; a
  failing `fill()` is modelled as long as `count` plus the error number stays
  within the bound `MaxCount`, which keeps the instance finite and promises nothing:
  what the code does to `count` is section 8, item 15, and what it writes outside
  of the array is not modelled.

*Components without a module.*
- Function hooks and multitouch: a hook is a jump written over an instruction of
  a kernel function, and the multitouch module a handshake with a driver whose
  source is not here.  What hooked code does is modelled where it matters
  (`Lights`).
- Register log, clock, gpio and mmc fixes: stateless, or counters nobody reads.
- Boot scripts: lists of commands.  The pds backup has two states, and a hazard:
  the image's existence stands for its completeness (`pdsbackup.sh:12`).
- DefyParts, USB controller, audio policy, stubs, key tables, build files and
  configuration: single writes, or no run-time behaviour.

Hazards besides those in `PROJECT.json`.  Properties of the runs cover:
- `sio-iosched.c:224`: a neighbour outside the list its flags name (`OnePlace`);
- `cpufreq_boosted.c:692`: a START that fails half way (`RampsMove`);
- `bluedroid.c:359`, `:380`: the interface that is up already, calls on the count that
  fail, with one call at a time (`ImplementsUse`, `CountExact`);
- `InputEventReader.cpp:63`, `SensorAK8973.cpp:110` and `:111`: the two ways the ring
  wraps, an `enable()` that half succeeds, flags of two threads (`TypeOK`,
  `ImplementsStream`, `WakeNotLost`);
- `cpufreq_conservative.c:440`, `:460`: steps smaller than a gap, a threshold less
  ten that wraps (`HighLoadReachesMax`, `IdleReachesMin`);
- `cpufreq_smartass.c:276`, `:535`, `cpufreq_interactive.c:257`: a sample that
  returns early, a START that fails with the count raised (`IdleComesDown`,
  `StopsClean`);
- `overclock.c:299`, `cpufreq_stats.c:303`: a point without an entry, accounts
  kept in three critical sections (`TablesAgree`, `TimeConserved`);
- `lights.c:154`, `isl-proximity.c:377`: a setting read before the lock, a chip
  switched on for one reading (`ButtonShown`, `SettingsKept`).

Not covered:
- `sio-iosched.c:203`, `cpufreq_boosted.c:263` and `:521`: an uninitialised maximum,
  limits between two frequencies, the sleep tunable set to 0 while it is in force;
  the properties exclude them, and section 8 says what happens;
- `bluedroid.c:331`: looking whether Bluetooth is on before counting oneself, which
  is harmless only as long as calls do not overlap;
- `cpufreq_stats.c:307`: a transition to a frequency the statistics do not know, which
  `AccountsRight` excepts;
- `cpufreq_boosted.c:416`, `:323`; `cpufreq_conservative.c:419`, `:450`, `:594`;
  `cpufreq_smartass.c:309`; `cpufreq_interactive.c:178`: arithmetic, transitions
  and locks that the models abstract from, see above;
- `cpufreq_stats.c:237`: a second allocation that fails leaves the files behind,
  and the next attempt fails for ever;
- `cpcap-bright.c:213`: two writes of `hook_enable` may both find the function
  not hooked; `backlight/hook.c:88`: two modules that unhook one function in
  the wrong order;
- `defy-multitouch.c:181`: the spoilt checksum; `2nd-init.sh:19`: tests `ADB_RUNNING` after
  `ADBD_RUNNING` was set.

## 8. Disagreements met while modelling

Places where the code does something else than a comment of it, or a promise
one would expect of it, says.  The runs pass because their properties name the
condition that excludes these places.  Where a claim can be put as a formula of
its own there is a configuration that is none of the runs: with it, TLC finds the
claim violated and prints how, for instance
`tlc -config BluedroidOverlap.cfg MCBluedroid`.

| Item | Configuration | Module | Violated claim |
|---|---|---|---|
| 1 | `SioStarved.cfg` | `MCSio` | `FewStarvedWrites` |
| 2 | `BluedroidOverlap.cfg` | `MCBluedroid` | `OffForTheLast` |
| 5 | `SensorControlSpeed.cfg` | `MCSensorControl` | `NeverAlways` |
| 11 | `BoostedOdd.cfg` | `MCBoosted` | `RampsMove` |
| 12 | `BoostedZero.cfg` | `MCBoosted` | `ZeroIsAwake` |
| 13 | `BluedroidSocket.cfg` | `MCBluedroid` | `EnabledIsRunning` |
| 14 | `SensorsShared.cfg` | `MCSensors` | `OthersAreIgnored` |
| 15 | `SensorsFailing.cfg` | `MCSensors` | `RoomLeft` |

1. Nothing assigns `sd->writes_starved` (`sio-iosched.c:261`), so that reads may
   starve writes as many times as the memory said, not "max 2" (line 32).
   `NoStarvation` and `ReadsBounded` are stated of the value the memory held.
2. `inc_atomic` and `dec_atomic` unlock the count between reading and writing it
   (`bluedroid.c:290`), and of two that overlap one is lost; `bt_disable` then
   turns Bluetooth off under a process that was told it is on, where line 396
   wants to do so only for the last.  `CountExact` and `ImplementsUse` are about
   calls that do not overlap.
3. `fill()` reads the device blockingly (`InputEventReader.cpp:53`) when the ring
   holds a whole report and there is nothing new, so a report that was ready
   waits for the next one; `nusensors.cpp:187-189` says to wait only if there is
   nothing to return.
4. With a `freq_step` larger than the request the subtraction wraps
   (`cpufreq_conservative.c:463`), and a low load sets the maximum.  `StepsFit`
   excludes it in the proofs, steps of 0 and 25 % in the run.
5. The speed is clamped in a global that another writer of the file may set
   meanwhile (`isl-proximity.c:352-355`): with two writers the light reaches 7,
   "always (disabled to reduce risks)" (line 324).  `AlwaysOnlyRaced` says that
   nothing else brings that about, and that a later write which is alone ends it.
6. A request for the highest frequency that interactive's timer makes while the
   work stores what it calculated (`cpufreq_interactive.c:199`) is lost, and the
   idle hook of a CPU that stays busy does not come to ask again.
   `BusyGetsHighest` is about work that ends before the next timer.
7. The camera's destructor puts the torch out before it cancels the thread
   (`JordanCameraWrapper.cpp:162`), and the cancelling signal wakes the thread
   before the request to exit: closing within a second of a picture may leave
   the torch lit.  `TorchAsWanted` excepts a thread that got past its check.
8. `even` (`JordanCameraWrapper.cpp:442`) is meant for whole numbers and is true
   of all that is below one: of the thirds that line 481 promises, 2 comes back
   as 3 and -1 as 0.  `ExposureSettles` allows the difference of one.
9. "Set sleep_max_freq=0 to disable this behavior" (`cpufreq_smartass.c:84`):
   written while suspended, it makes the resume handler return at line 573, and
   the speed stays capped until the next LIMITS.  `CapInUse` excludes the value
   in the proof, the inputs of the run do in the check.
10. Where the kernel's frequency table lacks the lowest entry, `overclock_init`
   fills it with a copy of the next one (`overclock.c:291-302`).  The
   statistics have no entry for that copy.  Once the next point has been moved, the
   copy is a frequency the table offers and the statistics do not know:
   `freq_table_get_index` returns -1, line 307 leaves `last_index` as it was, and
   the time is counted for the frequency before.  `AccountsRight` is therefore
   about points the statistics were told of (`Told`).
11. "We should not get here" (`cpufreq_boosted.c:264`): when a limit of the policy
   lies between two frequencies of the table, a valid request for that limit finds
   the current frequency on both sides, and the work stays there.  With 6 and 10
   in the table and a maximum of 7, a ramp up from 6 never moves.  `RampsMove` is
   checked and proved for limits that are frequencies of the table.
12. "practically when sleep_ideal_freq==0 the awake_ideal_freq is used also when
   suspended" (`cpufreq_boosted.c:61`): true of a 0 found when the screen goes off.
   One stored while it is off is held within the policy like any other value (line
   187), and the minimum becomes the ideal.  `IdealFollows` leaves the case out.
13. A `bt_disable` that gets no socket (`bluedroid.c:408`) returns with bluetoothd
   stopped, the interface up and the power on.  The next `bt_enable` finds Bluetooth
   on ("bt has been enabled already", line 332) and succeeds without bluetoothd.  What
   `ImplementsUse` calls on is what `bt_is_enabled` looks at.  A `HCIDEVDOWN` that
   fails has the same look, but ends with the power off.
14. The proximity driver drops the light sensor's events of the device they share
   ("ignore light events, from same input device", `SensorISL29030.cpp:118`) but not
   the SYN behind them (line 127), and hands its last sample over once more.
   `ImplementsStream` allows it for such sensors (`Shared`) only; the run has none.
15. `readEvents()` may return a negative errno, which `pollEvents()` subtracts from
   `count` and adds to `data` (`nusensors.cpp:175-178`): the next driver is told of
   more room than there is, in front of the array.
16. A switch-on of the light sensor that fails is believed (`SensorISL29030.cpp:218`):
   trying again then does nothing and succeeds.  `DriverKnows` excepts a light sensor
   whose last switch-on failed (`lost`).

## 9. Plan

What has been done is described above.  What is left, the most important first:

1. *One contract for the governors.*  An abstract module (within the limits
   once told, no timer after STOP) refined by `Conservative`, `Interactive` and
   `Smartass`, and by `Boosted` without suspend.
2. *Smaller protocols.*  `PdsBackup`; suspend in the runs of `Boosted`.

Bounds as now: two of each actor, three or four frequencies, one failure of
each kind.
