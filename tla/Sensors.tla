------------------------------ MODULE Sensors ------------------------------
(***************************************************************************)
(* libsensors' nusensors.cpp: the thread in pollEvents() reads the input   *)
(* devices of all sensors while another calls activate(); the kernel adds  *)
(* events at any time.  KXTF9 and the two ISL29030 drivers have the same   *)
(* read loop; AK8973 (Compass here) reports several sensors through one    *)
(* device and delays a report for which the caller's array has no room.    *)
(***************************************************************************)
EXTENDS InputReader

CONSTANTS Drivers,      \* how many drivers, polled in order
          Compass,      \* the one that is AK8973
          Part,         \* sensors: numbers, for Compass those of its enum
          PartsOf,      \* the sensors each driver reports
          Other,        \* an event that the drivers log or drop
          Reports,      \* what each device may report: sequences of sensors
          Temperature,  \* the sensor of Compass announced once it is enabled
          Counts,       \* sizes of the caller's array
          Errno,        \* the errno of a failing read
          PipeSize,     \* bytes that fit into the wake pipe
          MaxSamples, MaxQueue, \* bounds of the model
          MaxCount      \* and how far failing reads may raise count

Driver == 1 .. Drivers
Plain == Driver \ {Compass}
Sample == UNION {0 .. MaxSamples[p] : p \in Part}

Abs(p, v) == [type |-> "abs", part |-> p, value |-> v]
Mark(t) == [type |-> t, part |-> Temperature, value |-> 0]
InputEvent == [type : {"abs", "syn", "other"}, part : Part, value : Sample]

ASSUME SensorsAssumption ==
  /\ Drivers \in Nat /\ Compass \in Driver
  /\ Part \subseteq Nat
  /\ PartsOf \in [Driver -> SUBSET Part]
  /\ \A p \in Part : \E d \in Driver : p \in PartsOf[d]
  /\ \A d, e \in Driver : d # e => PartsOf[d] \cap PartsOf[e] = {}
  /\ \A d \in Plain : \E p \in Part : PartsOf[d] = {p}
  /\ Other \notin Part /\ Temperature \in PartsOf[Compass]
  /\ \A d \in Driver : Reports[d] \subseteq Seq(PartsOf[d] \cup {Other})
  /\ \A d \in Driver : \A r \in Reports[d] : \A j, k \in DOMAIN r :
       j # k => r[j] # r[k]
  /\ Counts \subseteq 1 .. MaxCount
  /\ {Errno, PipeSize, MaxCount} \subseteq Nat \ {0} /\ MaxQueue \in Nat
  /\ MaxSamples \in [Part -> Nat] /\ Event = InputEvent

VARIABLES
  kernel,      \* per driver: the events in its input device
  sent,        \* per sensor: samples reported by the kernel
  ring,        \* per driver: mInputReader
  revents,     \* per driver: mPollFds[].revents & POLLIN
  wake,        \* bytes in the wake pipe
  mEnabled, mHasPendingEvent, mPendingMask,   \* of Compass
  mPendingEvents,                             \* per sensor
  pc, at,      \* of the polling thread: where, and at which driver
  asked, count,  \* the caller's count and what is left of it
  room,        \* readEvents' own count
  client,      \* the thread in activate(): "idle" or about to "wake"
  taken,       \* per sensor: last sample taken
  given,       \* per sensor: how often it was put into the caller's array
  failed,      \* drivers whose last read failed
  announced    \* activate() of Temperature succeeded, event not yet given

kernelVars == <<kernel, sent>>
compassVars == <<mEnabled, mHasPendingEvent, announced>>
sampleVars == <<mPendingMask, mPendingEvents, taken, given>>
pollVars == <<pc, at, asked, count, room, revents, failed>>
vars == <<kernelVars, ring, wake, compassVars, sampleVars, pollVars, client>>

Init ==
  /\ kernel = [d \in Driver |-> <<>>]
  /\ sent = [p \in Part |-> 0]
  /\ ring = [d \in Driver |-> NewRing(Mark("other"))]
  /\ revents = [d \in Driver |-> FALSE] /\ wake = 0
  /\ mEnabled = {} /\ mHasPendingEvent = FALSE /\ announced = FALSE
  /\ mPendingMask = {} /\ mPendingEvents = [p \in Part |-> 0]
  /\ taken = [p \in Part |-> 0] /\ given = [p \in Part |-> 0]
  /\ pc = "out" /\ at = 1 /\ asked = 0 /\ count = 0 /\ room = 0
  /\ failed = {} /\ client = "idle"

----------------------------------------------------------------------------
(* The kernel's input devices: a report is some values, then SYN. *)

Entry(p) == IF p = Other THEN Mark("other") ELSE Abs(p, sent[p] + 1)
PartsIn(report) == {p \in Part : \E k \in DOMAIN report : report[k] = p}

Report(d, report) ==
  /\ Len(kernel[d]) + Len(report) < MaxQueue
  /\ \A p \in PartsIn(report) : sent[p] < MaxSamples[p]
  /\ kernel' = [kernel EXCEPT ![d] =
                  @ \o [k \in DOMAIN report |-> Entry(report[k])] \o <<Mark("syn")>>]
  /\ sent' = [p \in Part |-> IF p \in PartsIn(report) THEN sent[p] + 1 ELSE sent[p]]
  /\ UNCHANGED <<ring, wake, compassVars, sampleVars, pollVars, client>>

----------------------------------------------------------------------------
(* activate(): the driver's enable(), then the wake byte. *)

\* mEnabled of AK8973 changes when its ioctl works, also if updateDelay()
\* fails afterwards; the temperature is announced in any case.
EnableCompass(p, on, ioctlOk) ==
  LET change == on # (p \in mEnabled)
  IN  /\ mEnabled' = IF ~(change /\ ioctlOk) THEN mEnabled
                     ELSE IF on THEN mEnabled \cup {p} ELSE mEnabled \ {p}
      /\ mHasPendingEvent' = (mHasPendingEvent \/ (change /\ on /\ p = Temperature))

WakesOnError(on, err) == on /\ err
Wakes(on, err) == on /\ ~err

Activate(p, on) ==
  /\ client = "idle"
  /\ \E err, ioctlOk \in BOOLEAN :
       /\ ~ioctlOk => err
       /\ IF p \in PartsOf[Compass]
          THEN /\ on = (p \in mEnabled) => ~err
               /\ EnableCompass(p, on, ioctlOk)
          ELSE UNCHANGED <<mEnabled, mHasPendingEvent>>
       /\ announced' = (announced \/ (mHasPendingEvent' /\ p = Temperature /\ on /\ ~err))
       /\ client' = IF Wakes(on, err) THEN "wake" ELSE "idle"
  /\ UNCHANGED <<kernelVars, ring, wake, sampleVars, pollVars>>

\* The pipe does not block: a byte that does not fit is not written.
WriteWake == /\ client = "wake" /\ client' = "idle"
             /\ wake' = IF wake < PipeSize THEN wake + 1 ELSE wake
             /\ UNCHANGED <<kernelVars, ring, compassVars, sampleVars, pollVars>>

----------------------------------------------------------------------------
(* pollEvents(): scan the drivers, then poll(), until the array is full or *)
(* poll() finds nothing.                                                   *)

pollFrame == UNCHANGED <<kernelVars, mEnabled, client>>

\* The next driver, or poll() after the last; a full array ends the call.
Onward(d, left) == /\ at' = IF left # 0 /\ d < Drivers THEN d + 1 ELSE 1
                   /\ pc' = IF left = 0 THEN "out"
                            ELSE IF d < Drivers THEN "scan" ELSE "poll"

Call(c) == /\ pc = "out" /\ pc' = "scan" /\ at' = 1
           /\ asked' = c /\ count' = c
           /\ pollFrame /\ UNCHANGED <<ring, wake, mHasPendingEvent, announced, sampleVars,
                                       room, revents, failed>>

Wanted(d) == revents[d] \/ (d = Compass /\ mHasPendingEvent)

Scan ==
  /\ pc = "scan"
  /\ IF Wanted(at) THEN pc' = "read" /\ UNCHANGED at ELSE Onward(at, count)
  /\ room' = IF Wanted(at) THEN count ELSE 0
  /\ pollFrame /\ UNCHANGED <<ring, wake, mHasPendingEvent, announced, sampleVars,
                              asked, count, revents, failed>>

\* readEvents() returned nb.
ClearsAlways(nb) == nb <= count
ClearsRevents(nb) == nb < count

Return(d, nb) ==
  /\ revents' = [revents EXCEPT ![d] = @ /\ ~ClearsRevents(nb)]
  /\ count' = count - nb
  /\ Onward(d, count - nb)
  /\ room' = 0 /\ UNCHANGED asked

\* AK8973 first hands out the temperature it was enabled for, alone.
GivePending ==
  /\ pc = "read" /\ at = Compass /\ mHasPendingEvent
  /\ mHasPendingEvent' = FALSE /\ announced' = FALSE
  /\ Return(at, 1)
  /\ pollFrame /\ UNCHANGED <<ring, wake, sampleVars, failed>>

Reads == pc = "read" /\ ~(at = Compass /\ mHasPendingEvent)

\* fill(): read() blocks while the device has no events, and may see only
\* the first events of a report; it is not called when the ring is full.
Fill ==
  \E n \in 0 .. Len(kernel[at]) :
      /\ Reads
      /\ n <= ring[at].mFreeSpace
      /\ n = 0 <=> ring[at].mFreeSpace = 0
      /\ ring' = [ring EXCEPT ![at] = Filled(@, SubSeq(kernel[at], 1, n))]
      /\ kernel' = [kernel EXCEPT ![at] = SubSeq(@, n + 1, Len(@))]
      /\ pc' = "parse" /\ failed' = failed \ {at}
      /\ UNCHANGED <<sent, wake, compassVars, sampleVars, client,
                     at, asked, count, room, revents>>

\* A failing read() makes readEvents() return a negative number: count grows
\* and data moves back, also to before the caller's array.
FillFails ==
  /\ Reads /\ ring[at].mFreeSpace > 0
  /\ count + Errno <= MaxCount
  /\ Return(at, 0 - Errno)
  /\ failed' = failed \cup {at}
  /\ pollFrame /\ UNCHANGED <<ring, wake, mHasPendingEvent, announced, sampleVars>>

parseFrame == /\ pollFrame
              /\ UNCHANGED <<wake, mHasPendingEvent, announced, asked, count, failed>>
NextEvent == ring' = [ring EXCEPT ![at] = Advanced(@)]
Event1 == Current(ring[at])
Parses == pc = "parse" /\ room > 0 /\ Available(ring[at]) > 0
StayParsing == UNCHANGED <<pc, at, revents>>

ParseValue ==
  LET p == Event1.part
  IN  /\ Parses /\ Event1.type = "abs"
      /\ mPendingEvents' = [mPendingEvents EXCEPT ![p] = Event1.value]
      /\ mPendingMask' = IF at = Compass THEN mPendingMask \cup {p} ELSE mPendingMask
      /\ NextEvent
      /\ parseFrame /\ StayParsing /\ UNCHANGED <<room, taken, given>>

ParseOther == /\ Parses /\ Event1.type = "other"
              /\ NextEvent
              /\ parseFrame /\ StayParsing /\ UNCHANGED <<room, sampleVars>>

\* p's pending event is over: in the caller's array, or dropped.
Hand(p, keep) == /\ taken' = [taken EXCEPT ![p] = mPendingEvents[p]]
                 /\ given' = [given EXCEPT ![p] = IF keep THEN @ + 1 ELSE @]
                 /\ room' = IF keep THEN room - 1 ELSE room
                 /\ UNCHANGED mPendingEvents

ParsePlainSyn ==
  /\ Parses /\ Event1.type = "syn" /\ at # Compass
  /\ \E p \in PartsOf[at] : Hand(p, TRUE)
  /\ NextEvent
  /\ parseFrame /\ StayParsing /\ UNCHANGED mPendingMask

\* SYN stays the current event until no sensor of its report is left.
SynDoneAtOnce(mask) == TRUE
SynDone(mask) == mask = {}

ParseCompassSyn ==
  /\ Parses /\ Event1.type = "syn" /\ at = Compass
  /\ IF mPendingMask = {}
     THEN UNCHANGED <<room, sampleVars>>
     ELSE \E p \in mPendingMask :
            /\ \A q \in mPendingMask : p <= q
            /\ mPendingMask' = mPendingMask \ {p}
            /\ Hand(p, p \in mEnabled)
  /\ IF SynDone(mPendingMask') THEN NextEvent ELSE UNCHANGED ring
  /\ parseFrame /\ StayParsing

ParseEnd == /\ pc = "parse" /\ (room = 0 \/ Available(ring[at]) = 0)
            /\ Return(at, count - room)
            /\ pollFrame /\ UNCHANGED <<ring, wake, mHasPendingEvent, announced,
                                        sampleVars, failed>>

\* poll(): a timeout of 0 if there are events to return, else none.
MayWait == count = asked
Readable == {d \in Driver : kernel[d] # <<>>}

Poll ==
  /\ pc = "poll"
  /\ MayWait => Readable # {} \/ wake > 0
  /\ revents' = [d \in Driver |-> d \in Readable]
  /\ wake' = IF wake > 0 THEN wake - 1 ELSE 0
  /\ pc' = IF Readable # {} \/ wake > 0 THEN "scan" ELSE "out"
  /\ at' = 1
  /\ pollFrame /\ UNCHANGED <<ring, mHasPendingEvent, announced, sampleVars,
                              asked, count, room, failed>>

PollFails == /\ pc = "poll" /\ pc' = "out"
             /\ pollFrame /\ UNCHANGED <<ring, wake, mHasPendingEvent, announced, sampleVars,
                                         at, asked, count, room, revents, failed>>

Next ==
  \/ \E d \in Driver : \E report \in Reports[d] : Report(d, report)
  \/ \E p \in Part, on \in BOOLEAN : Activate(p, on)
  \/ WriteWake
  \/ \E c \in Counts : Call(c)
  \/ Scan \/ GivePending \/ Fill \/ FillFails
  \/ ParseValue \/ ParseOther \/ ParsePlainSyn \/ ParseCompassSyn \/ ParseEnd
  \/ Poll \/ PollFails

Spec == Init /\ [][Next]_vars

----------------------------------------------------------------------------
\* Every variable has its type; every mInputReader is a ring whose pointers,
\* free space and events belong together (InputEventReader.cpp:33-88).
TypeOK ==
  /\ kernel \in [Driver -> Seq(InputEvent)]
  /\ sent \in [Part -> Sample]
  /\ ring \in [Driver -> Ring] /\ \A d \in Driver : RingInv(ring[d])
  /\ revents \in [Driver -> BOOLEAN] /\ wake \in 0 .. PipeSize
  /\ mEnabled \subseteq PartsOf[Compass] /\ mHasPendingEvent \in BOOLEAN
  /\ mPendingMask \subseteq Part /\ mPendingEvents \in [Part -> Sample]
  /\ pc \in {"out", "scan", "read", "parse", "poll"} /\ at \in Driver
  /\ asked \in 0 .. MaxCount /\ count \in 0 .. MaxCount /\ room \in 0 .. MaxCount
  /\ client \in {"idle", "wake"}
  /\ taken \in [Part -> Sample] /\ given \in [Part -> Nat]
  /\ failed \subseteq Driver /\ announced \in BOOLEAN

\* Sensors whose device also reports without them: to the Defy+ the light
\* sensor's events come from the proximity sensor's device.
Shared == {p \in Part : \E d \in Plain : p \in PartsOf[d] /\ \E r \in Reports[d] : p \notin PartsIn(r)}

\* However the kernel's events are cut up by read(), by the end of the ring
\* and by the end of the caller's array, every sample of every sensor is taken
\* once and in order, and then put into the array once unless its sensor was
\* disabled; only a sensor that shares its device may be put there again.
Stream == INSTANCE SensorStream WITH Mutable <- PartsOf[Compass],
                                     muted <- PartsOf[Compass] \ mEnabled
ImplementsStream == Stream!Spec

\* "ignore light events, from same input device" (SensorISL29030.cpp:118): a
\* driver without a mask hands nothing over but a sample it just took.
OthersAreIgnored ==
  [][\A d \in Plain : \A p \in PartsOf[d] : given'[p] # given[p] => taken'[p] # taken[p]]_vars

\* "we still have some room" (nusensors.cpp:187): what is left of the count
\* is left of the caller's array.
RoomLeft == pc = "poll" => count <= asked

\* What a call left in the reader of a driver other than AK8973 is found by
\* the next one: readers hold events only while revents says so, unless the
\* last read of the device failed (nusensors.cpp:171-184).
LeftoverIsMarked ==
  \A d \in Plain : Available(ring[d]) > 0 /\ d \notin failed =>
    revents[d] \/ (pc = "parse" /\ at = d)

\* The polling thread never sleeps in poll() on a temperature event that
\* activate() announced: the wake byte is in the pipe or about to be written.
WakeNotLost == announced /\ pc = "poll" /\ MayWait => client = "wake" \/ wake > 0
============================================================================
