--------------------------- MODULE SensorsProofs ---------------------------
(***************************************************************************)
(* Proofs about three components that share no name. libsensors: the ring  *)
(* of InputReader is a queue, the polling thread's invariants hold, and    *)
(* the samples it takes are a SensorStream, for any number of drivers and  *)
(* sensors, any reports, any ring and any array of the caller. At the end  *)
(* Lights, for any callers and what they ask for, and Interactive.         *)
(***************************************************************************)
EXTENDS Sensors, Lights, Interactive, SequenceTheorems, TLAPS

----------------------------------------------------------------------------
(* InputEventCircularReader *)

\* The constructor of InputEventReader.cpp:33-40 makes an empty ring.
LEMMA NewRingIsEmpty == ASSUME NEW e \in Event
                        PROVE  RingInv(NewRing(e)) /\ Available(NewRing(e)) = 0
  BY ReaderAssumption DEF RingInv, NewRing, Available, Ring, Slots

\* The positions of a ring of n slots: reading position c, u events held,
\* writing position h, l more to come.  The k-th event is at position a.
LEMMA OldPosition ==
  ASSUME NEW n \in Nat \ {0}, NEW c \in 0 .. n - 1, NEW h \in 0 .. n, NEW u \in Nat,
         NEW l \in Nat, u + l <= n, c + u - h \in {0, n, 0 - n},
         NEW k \in 1 .. u, NEW a \in Int,
         a = IF c + k - 1 < n THEN c + k - 1 ELSE c + k - 1 - n
  PROVE  /\ a \in 0 .. n - 1 /\ ~(a < h + l - n)
         /\ ~(a \in h .. h + l - 1)
  OBVIOUS

(* The place of the k-th event that is read, wherever the ring wraps.      *)
LEMMA NewPosition ==
  ASSUME NEW n \in Nat \ {0}, NEW c \in 0 .. n - 1, NEW h \in 0 .. n, NEW u \in Nat,
         NEW l \in Nat, u + l <= n, c + u - h \in {0, n, 0 - n},
         NEW k \in 1 .. l, NEW a \in Int,
         a = IF c + (u + k) - 1 < n THEN c + (u + k) - 1 ELSE c + (u + k) - 1 - n
  PROVE  /\ a \in 0 .. n - 1
         /\ a < h + l - n => n - h + a + 1 = k
         /\ ~(a < h + l - n) => a \in h .. h + l - 1 /\ a - h + 1 = k
  OBVIOUS

\* fill() (InputEventReader.cpp:49-72) keeps the pointers and the free space
\* together, also when it wraps, and the new events follow those in the ring.
THEOREM FillAppends ==
  ASSUME NEW r, RingInv(r), NEW s \in Seq(Event), Len(s) <= r.mFreeSpace
  PROVE  /\ RingInv(Filled(r, s))
         /\ Filled(r, s).mFreeSpace = r.mFreeSpace - Len(s)
         /\ Contents(Filled(r, s)) = Contents(r) \o s
<1> DEFINE n == NumEvents
           h == r.mHead
           c == r.mCurr
           u == Available(r)
           l == Len(s)
           over == h + l - n
           f == Filled(r, s)
           At(k) == IF c + k - 1 < n THEN c + k - 1 ELSE c + k - 1 - n
<1>1. /\ n \in Nat \ {0} /\ l \in Nat /\ h \in 0 .. n /\ c \in 0 .. n - 1
      /\ r.mFreeSpace = n - u /\ u \in Nat /\ u + l <= n
      /\ c + u - h \in {0, n, 0 - n}
  BY ReaderAssumption DEF RingInv, Ring, Slots, Available
<1>2. Stored(r, s, over) \in [Slots -> Event]
  <2>1. ASSUME NEW k \in Slots, k < over
        PROVE  s[NumEvents - r.mHead + k + 1] \in Event
    BY <1>1, <2>1 DEF Slots
  <2>2. ASSUME NEW k \in Slots, k \in r.mHead .. r.mHead + Len(s) - 1
        PROVE  s[k - r.mHead + 1] \in Event
    BY <1>1, <2>2 DEF Slots
  <2>3. \A k \in Slots : r.buf[k] \in Event
    BY DEF Ring, RingInv
  <2> QED BY <2>1, <2>2, <2>3 DEF Stored
<1>3. /\ f.buf = Stored(r, s, over)
      /\ f.mHead = IF over > 0 THEN over ELSE h + l
      /\ f.mCurr = c
      /\ f.mFreeSpace = n - u - l
  BY <1>1 DEF Filled, Ring, RingInv
<1>4. f \in [buf : {Stored(r, s, over)}, mHead : {f.mHead}, mCurr : {f.mCurr},
             mFreeSpace : {f.mFreeSpace}]
  BY DEF Filled, Ring, RingInv
<1>5. Available(f) = u + l
  BY <1>1, <1>3 DEF Available
<1>6. \A k \in Slots :
        f.buf[k] = IF k < over THEN s[n - h + k + 1]
                   ELSE IF k \in h .. h + l - 1 THEN s[k - h + 1] ELSE r.buf[k]
  BY <1>3 DEF Stored
<1>7. Slots = 0 .. n - 1
  BY DEF Slots
<1> HIDE DEF n, h, c, u, l, f
<1>8. RingInv(f)
  <2>1. /\ f.mHead \in 0 .. n /\ f.mFreeSpace \in 0 .. n
        /\ f.mCurr + (u + l) - f.mHead \in {0, n, 0 - n}
    <3>1. CASE over > 0
      BY <1>1, <1>3, <3>1
    <3>2. CASE ~(over > 0)
      BY <1>1, <1>3, <3>2
    <3> QED BY <3>1, <3>2
  <2> QED BY <2>1, <1>1, <1>2, <1>3, <1>4, <1>5, <1>7 DEF RingInv, Ring, n
<1>9. Contents(f) = Contents(r) \o s
  <2>1. Contents(r) = [k \in 1 .. u |-> r.buf[At(k)]]
    BY DEF Contents, n, c, u
  <2>2. Contents(f) = [k \in 1 .. u + l |-> f.buf[At(k)]]
    BY <1>3, <1>5 DEF Contents, n
  <2>3. ASSUME NEW k \in 1 .. u
        PROVE  f.buf[At(k)] = r.buf[At(k)]
    <3>1. At(k) \in Int
      BY <1>1
    <3>2. At(k) \in 0 .. n - 1 /\ ~(At(k) < over) /\ ~(At(k) \in h .. h + l - 1)
      BY <1>1, <3>1, OldPosition
    <3> HIDE DEF At, over
    <3> QED BY <3>2, <1>6, <1>7
  <2>4. ASSUME NEW k \in 1 .. l
        PROVE  f.buf[At(u + k)] = s[k]
    <3> DEFINE a == At(u + k)
    <3>1. /\ a \in Int
          /\ a = IF c + (u + k) - 1 < n THEN c + (u + k) - 1 ELSE c + (u + k) - 1 - n
      BY <1>1
    <3> HIDE DEF a
    <3>2. /\ a \in 0 .. n - 1
          /\ a < over => n - h + a + 1 = k
          /\ ~(a < over) => a \in h .. h + l - 1 /\ a - h + 1 = k
      BY <1>1, <3>1, NewPosition
    <3> HIDE DEF over
    <3> QED BY <3>2, <1>6, <1>7 DEF a
  <2> HIDE DEF At
  <2>5. ASSUME NEW k \in 1 .. u + l, ~(k \in 1 .. u)
        PROVE  f.buf[At(k)] = s[k - u]
    <3>1. k - u \in 1 .. l /\ u + (k - u) = k
      BY <2>5, <1>1
    <3> QED BY <3>1, <2>4
  <2>6. /\ Len(Contents(r)) = u /\ DOMAIN Contents(r) = 1 .. u
        /\ Contents(r) \o s = [k \in 1 .. u + l |-> IF k \in 1 .. u THEN Contents(r)[k] ELSE s[k - u]]
    BY <2>1, <1>1 DEF l
  <2>7. \A k \in 1 .. u + l : f.buf[At(k)] = IF k \in 1 .. u THEN Contents(r)[k] ELSE s[k - u]
    BY <2>1, <2>3, <2>5
  <2> QED BY <2>2, <2>6, <2>7
<1> QED BY <1>3, <1>8, <1>9, <1>1 DEF f, l, u, n

\* next() (InputEventReader.cpp:81-88) takes the event readEvent() showed,
\* the oldest one, off the ring.
THEOREM AdvanceTakesTheOldest ==
  ASSUME NEW r, RingInv(r), Available(r) > 0
  PROVE  /\ RingInv(Advanced(r))
         /\ Current(r) = Contents(r)[1] /\ Current(r) \in Event
         /\ Contents(Advanced(r)) = Tail(Contents(r))
<1> DEFINE n == NumEvents
           c == r.mCurr
           u == Available(r)
           f == Advanced(r)
           At(k) == IF c + k - 1 < n THEN c + k - 1 ELSE c + k - 1 - n
<1>1. /\ n \in Nat \ {0} /\ c \in 0 .. n - 1 /\ u \in 1 .. n
      /\ r.mFreeSpace = n - u /\ r.mHead \in 0 .. n
      /\ c + u - r.mHead \in {0, n, 0 - n}
      /\ r.buf \in [Slots -> Event] /\ Slots = 0 .. n - 1
  BY ReaderAssumption DEF RingInv, Ring, Slots, Available
<1>2. /\ f.buf = r.buf /\ f.mHead = r.mHead
      /\ f.mCurr = IF c + 1 >= n THEN 0 ELSE c + 1
      /\ f.mFreeSpace = n - u + 1
  BY <1>1 DEF Advanced, Ring, RingInv
<1>3. f \in [buf : {f.buf}, mHead : {f.mHead}, mCurr : {f.mCurr}, mFreeSpace : {f.mFreeSpace}]
  BY DEF Advanced, Ring, RingInv
<1>4. Available(f) = u - 1
  BY <1>1, <1>2 DEF Available
<1>5. Contents(r) = [k \in 1 .. u |-> r.buf[At(k)]] /\ Current(r) = r.buf[c]
  BY DEF Contents, Current
<1>6. Contents(f) = [k \in 1 .. u - 1 |->
                       f.buf[IF f.mCurr + k - 1 < n THEN f.mCurr + k - 1
                             ELSE f.mCurr + k - 1 - n]]
  BY <1>4 DEF Contents
<1> HIDE DEF n, c, u, f
<1>7. RingInv(f)
  <2>1. /\ f.mCurr \in 0 .. n - 1 /\ f.mFreeSpace \in 0 .. n
        /\ f.mCurr + (u - 1) - f.mHead \in {0, n, 0 - n}
    <3>0. /\ n \in Nat \ {0} /\ c \in 0 .. n - 1 /\ u \in 1 .. n
          /\ f.mHead \in 0 .. n /\ f.mFreeSpace = n - u + 1
          /\ c + u - f.mHead \in {0, n, 0 - n}
      BY <1>1, <1>2
    <3>1. CASE c + 1 >= n
      <4>1. f.mCurr = 0 /\ c + 1 = n
        BY <1>2, <3>0, <3>1
      <4> QED BY <3>0, <4>1
    <3>2. CASE ~(c + 1 >= n)
      <4>1. f.mCurr = c + 1 /\ c + 1 < n
        BY <1>2, <3>0, <3>2
      <4> QED BY <3>0, <4>1
    <3> QED BY <3>1, <3>2
  <2> QED BY <2>1, <1>1, <1>2, <1>3, <1>4 DEF RingInv, Ring, n
<1>8. Current(r) = Contents(r)[1] /\ Current(r) \in Event
  BY <1>1, <1>5
<1>9. Contents(f) = Tail(Contents(r))
  <2>1. \A k \in 1 .. u - 1 :
          (IF f.mCurr + k - 1 < n THEN f.mCurr + k - 1 ELSE f.mCurr + k - 1 - n) = At(k + 1)
    <3>1. CASE c + 1 >= n
      BY <1>1, <1>2, <3>1
    <3>2. CASE ~(c + 1 >= n)
      BY <1>1, <1>2, <3>2
    <3> QED BY <3>1, <3>2
  <2> HIDE DEF At
  <2>2. Contents(f) = [k \in 1 .. u - 1 |-> r.buf[At(k + 1)]]
    BY <1>2, <1>6, <2>1
  <2>3. Tail(Contents(r)) = [k \in 1 .. u - 1 |-> Contents(r)[k + 1]]
    BY <1>1, <1>5
  <2>4. \A k \in 1 .. u - 1 : Contents(r)[k + 1] = r.buf[At(k + 1)]
    BY <1>1, <1>5
  <2> QED BY <2>2, <2>3, <2>4
<1> QED BY <1>7, <1>8, <1>9 DEF f

----------------------------------------------------------------------------
(* The polling thread: the inductive invariant. *)

Busy == pc \in {"scan", "read", "parse"}

\* There is room in the array while the call goes on, and readEvents' count
\* is not above the caller's.
CountInv == /\ pc # "out" => count > 0
            /\ room <= count
            /\ pc \notin {"read", "parse"} => room = 0

\* A driver that the scan is past, or read before it came to poll(), was read
\* empty, unless the read failed; one that it reads has its revents set.
Past(d) == pc = "poll" \/ (Busy /\ d < at)
DrainInv == \A d \in Plain :
              /\ d \notin failed /\ Past(d) => Available(ring[d]) = 0
              /\ pc \in {"read", "parse"} /\ at = d => revents[d]

\* Once the scan is past AK8973, an announced event has its wake byte.
AnnounceInv == /\ announced => mHasPendingEvent
               /\ announced /\ (Past(Compass) \/ (pc = "parse" /\ at = Compass)) =>
                    client = "wake" \/ wake > 0

IInv == TypeOK /\ CountInv /\ LeftoverIsMarked /\ DrainInv /\ AnnounceInv

----------------------------------------------------------------------------
\* SYN and the other events are input events.
LEMMA MarkType ==
  0 \in Sample /\ \A t \in {"syn", "other"} : Mark(t) \in InputEvent /\ Mark(t) \in Event
<1>1. Temperature \in Part /\ MaxSamples[Temperature] \in Nat /\ Event = InputEvent
  BY SensorsAssumption
<1>2. 0 \in Sample
  BY <1>1 DEF Sample
<1> QED BY <1>1, <1>2 DEF Mark, InputEvent

(* The invariant holds when the device has been opened.                    *)
LEMMA InitIInv == Init => IInv
<1> SUFFICES ASSUME Init PROVE IInv
  OBVIOUS
<1>1. 0 \in Sample /\ 1 \in Driver /\ Mark("other") \in Event
  BY MarkType, SensorsAssumption DEF Driver
<1>2. \A d \in Driver : RingInv(ring[d]) /\ Available(ring[d]) = 0
  BY <1>1, NewRingIsEmpty DEF Init
<1>3. kernel \in [Driver -> Seq(InputEvent)]
  BY DEF Init
<1>4. TypeOK
  <2>0. ring \in [Driver -> Ring]
    BY <1>1, NewRingIsEmpty DEF Init, RingInv
  <2>1. /\ sent \in [Part -> Sample] /\ taken \in [Part -> Sample]
        /\ given \in [Part -> Nat] /\ mPendingEvents \in [Part -> Sample]
    BY <1>1 DEF Init
  <2>2. revents \in [Driver -> BOOLEAN] /\ at \in Driver
    BY <1>1 DEF Init
  <2>3. wake \in 0 .. PipeSize /\ 0 \in 0 .. MaxCount
    BY SensorsAssumption DEF Init
  <2> QED BY <1>2, <1>3, <2>0, <2>1, <2>2, <2>3 DEF Init, TypeOK
<1>5. CountInv /\ AnnounceInv
  BY DEF Init, CountInv, AnnounceInv
<1>6. LeftoverIsMarked /\ DrainInv
  BY <1>2 DEF Init, LeftoverIsMarked, DrainInv, Plain, Past, Busy
<1> QED BY <1>4, <1>5, <1>6 DEF IInv

\* Where the scan goes on is a driver, and the call ends or goes on as the
\* array's room says.
LEMMA OnwardType ==
  ASSUME NEW d \in Driver, NEW left \in Int, Onward(d, left)
  PROVE  at' \in Driver /\ pc' \in {"out", "scan", "poll"} /\ (pc' = "out" <=> left = 0)
BY SensorsAssumption DEF Onward, Driver

\* Every step keeps the rings rings, and leaves the events of the others.
LEMMA RingStep ==
  ASSUME TypeOK, CountInv, [Next]_vars
  PROVE  /\ kernel' \in [Driver -> Seq(InputEvent)] /\ sent' \in [Part -> Sample]
         /\ ring' \in [Driver -> Ring] /\ \A d \in Driver : RingInv(ring'[d])
         /\ \A d \in Driver : ring'[d] = ring[d] \/ (d = at /\ pc \in {"read", "parse"} /\ pc' = "parse")
<1> DEFINE Goal == /\ kernel' \in [Driver -> Seq(InputEvent)] /\ sent' \in [Part -> Sample]
                   /\ ring' \in [Driver -> Ring] /\ \A d \in Driver : RingInv(ring'[d])
                   /\ \A d \in Driver :
                        \/ ring'[d] = ring[d]
                        \/ d = at /\ pc \in {"read", "parse"} /\ pc' = "parse"
<1>0. /\ kernel \in [Driver -> Seq(InputEvent)] /\ sent \in [Part -> Sample]
      /\ ring \in [Driver -> Ring] /\ \A d \in Driver : RingInv(ring[d])
      /\ at \in Driver
  BY DEF TypeOK
<1>1. ASSUME NEW d \in Driver, NEW report \in Reports[d], Report(d, report)
      PROVE  Goal
  <2>1. ring' = ring
    BY <1>1 DEF Report
  <2>2. \A p \in PartsIn(report) : sent[p] + 1 \in Sample
    <3> SUFFICES ASSUME NEW p \in PartsIn(report) PROVE sent[p] + 1 \in Sample
      OBVIOUS
    <3>1. p \in Part /\ sent[p] < MaxSamples[p] /\ MaxSamples[p] \in Nat /\ sent[p] \in Sample
      BY <1>0, <1>1, SensorsAssumption DEF Report, PartsIn
    <3>2. sent[p] \in Nat
      BY <3>1, SensorsAssumption DEF Sample
    <3> QED BY <3>1, <3>2 DEF Sample
  <2>3. report \in Seq(PartsOf[d] \cup {Other}) /\ PartsOf[d] \subseteq Part
    BY <1>1, SensorsAssumption
  <2>4. \A k \in DOMAIN report : Entry(report[k]) \in InputEvent
    <3> SUFFICES ASSUME NEW k \in DOMAIN report PROVE Entry(report[k]) \in InputEvent
      OBVIOUS
    <3>1. CASE report[k] = Other
      BY <3>1, MarkType, SensorsAssumption DEF Entry
    <3>2. CASE report[k] # Other
      <4>1. report[k] \in Part /\ report[k] \in PartsIn(report)
        BY <2>3, <3>2 DEF PartsIn
      <4> QED BY <4>1, <2>2, <3>2 DEF Entry, Abs, InputEvent
    <3> QED BY <3>1, <3>2
  <2>5. [k \in DOMAIN report |-> Entry(report[k])] \in Seq(InputEvent)
    BY <2>3, <2>4
  <2>6. <<Mark("syn")>> \in Seq(InputEvent)
    BY MarkType, SensorsAssumption
  <2>7. kernel' \in [Driver -> Seq(InputEvent)]
    BY <1>0, <1>1, <2>5, <2>6 DEF Report
  <2>8. sent' \in [Part -> Sample]
    BY <1>0, <1>1, <2>2 DEF Report
  <2> QED BY <1>0, <2>1, <2>7, <2>8
<1>2. CASE Fill
  <2>1. PICK n \in 0 .. Len(kernel[at]) :
          /\ pc = "read" /\ pc' = "parse"
          /\ n <= ring[at].mFreeSpace
          /\ ring' = [ring EXCEPT ![at] = Filled(@, SubSeq(kernel[at], 1, n))]
          /\ kernel' = [kernel EXCEPT ![at] = SubSeq(@, n + 1, Len(@))]
          /\ sent' = sent
    BY <1>2 DEF Fill, Reads
  <2>2. kernel[at] \in Seq(InputEvent) /\ Len(kernel[at]) \in Nat
    BY <1>0
  <2>3. /\ SubSeq(kernel[at], 1, n) \in Seq(Event) /\ Len(SubSeq(kernel[at], 1, n)) = n
        /\ SubSeq(kernel[at], n + 1, Len(kernel[at])) \in Seq(InputEvent)
    BY <2>2, SensorsAssumption
  <2>4. RingInv(Filled(ring[at], SubSeq(kernel[at], 1, n)))
    BY <1>0, <2>1, <2>3, FillAppends
  <2>5. kernel' \in [Driver -> Seq(InputEvent)]
    BY <1>0, <2>1, <2>3
  <2>6. \A d \in Driver : d # at => ring'[d] = ring[d]
    BY <2>1
  <2>7. RingInv(ring'[at]) /\ ring' \in [Driver -> Ring]
    BY <1>0, <2>1, <2>4 DEF RingInv
  <2> QED BY <1>0, <2>1, <2>5, <2>6, <2>7
<1>3. ASSUME NextEvent, Parses, UNCHANGED <<kernel, sent, pc>>
      PROVE  Goal
  <2>1. RingInv(Advanced(ring[at]))
    BY <1>0, <1>3, AdvanceTakesTheOldest DEF Parses
  <2>2. \A d \in Driver : ring'[d] = IF d = at THEN Advanced(ring[at]) ELSE ring[d]
    BY <1>0, <1>3 DEF NextEvent
  <2>3. ring' \in [Driver -> Ring]
    BY <1>0, <1>3, <2>1 DEF NextEvent, RingInv
  <2>4. \A d \in Driver : RingInv(ring'[d])
    BY <1>0, <2>1, <2>2
  <2>5. pc = "parse" /\ pc' = "parse"
    BY <1>3 DEF Parses
  <2> QED BY <1>0, <1>3, <2>2, <2>3, <2>4, <2>5
<1>4. ASSUME UNCHANGED <<kernel, sent, ring>>
      PROVE  Goal
  BY <1>0, <1>4
<1>5. CASE ParseValue \/ ParseOther \/ ParsePlainSyn
  BY <1>3, <1>5 DEF ParseValue, ParseOther, ParsePlainSyn, parseFrame, pollFrame, kernelVars,
                    StayParsing
<1>6. CASE ParseCompassSyn
  BY <1>3, <1>4, <1>6 DEF ParseCompassSyn, parseFrame, pollFrame, kernelVars, StayParsing
<1>7. CASE \/ \E p \in Part, on \in BOOLEAN : Activate(p, on)
           \/ WriteWake \/ \E c \in Counts : Call(c)
           \/ Scan \/ GivePending \/ FillFails \/ ParseEnd \/ Poll \/ PollFails
           \/ UNCHANGED vars
  BY <1>4, <1>7 DEF Activate, WriteWake, Call, Scan, GivePending, FillFails, ParseEnd, Poll,
                    PollFails, pollFrame, kernelVars, vars
<1> QED BY <1>1, <1>2, <1>5, <1>6, <1>7 DEF Next

\* pollEvents() keeps its counts: there is room until the call is over.
LEMMA PollStep ==
  ASSUME TypeOK, CountInv, [Next]_vars
  PROVE  /\ CountInv'
         /\ pc' \in {"out", "scan", "read", "parse", "poll"} /\ at' \in Driver
         /\ asked' \in 0 .. MaxCount /\ count' \in 0 .. MaxCount /\ room' \in 0 .. MaxCount
         /\ revents' \in [Driver -> BOOLEAN] /\ failed' \subseteq Driver
<1> DEFINE Goal == /\ CountInv'
                   /\ pc' \in {"out", "scan", "read", "parse", "poll"} /\ at' \in Driver
                   /\ asked' \in 0 .. MaxCount /\ count' \in 0 .. MaxCount
                   /\ room' \in 0 .. MaxCount
                   /\ revents' \in [Driver -> BOOLEAN] /\ failed' \subseteq Driver
<1>0. /\ pc \in {"out", "scan", "read", "parse", "poll"} /\ at \in Driver
      /\ asked \in 0 .. MaxCount /\ count \in 0 .. MaxCount /\ room \in 0 .. MaxCount
      /\ revents \in [Driver -> BOOLEAN] /\ failed \subseteq Driver
      /\ pc # "out" => count > 0
      /\ room <= count /\ (pc \notin {"read", "parse"} => room = 0)
  BY DEF TypeOK, CountInv
<1>1. Errno \in Nat \ {0} /\ MaxCount \in Nat \ {0} /\ Counts \subseteq 1 .. MaxCount
      /\ 1 \in Driver
  BY SensorsAssumption DEF Driver
<1>2. ASSUME NEW nb \in Int, Return(at, nb), pc \in {"read", "parse"},
             count - nb \in 0 .. MaxCount, failed' \subseteq Driver
      PROVE  Goal
  <2>1. /\ count' = count - nb /\ room' = 0 /\ asked' = asked /\ Onward(at, count - nb)
        /\ revents' \in [Driver -> BOOLEAN]
    BY <1>0, <1>2 DEF Return
  <2>2. at' \in Driver /\ pc' \in {"out", "scan", "poll"} /\ (pc' = "out" <=> count - nb = 0)
    BY <1>0, <1>2, <2>1, OnwardType
  <2> QED BY <1>0, <1>1, <1>2, <2>1, <2>2 DEF CountInv
<1>3. ASSUME UNCHANGED <<pc, at, asked, count, revents, failed>>,
             pc = "parse", room' \in 0 .. room
      PROVE  Goal
  BY <1>0, <1>1, <1>3 DEF CountInv
<1>4. ASSUME NEW d \in Driver, NEW report \in Reports[d], Report(d, report)
      PROVE  Goal
  BY <1>0, <1>4 DEF Report, pollVars, CountInv
<1>5. ASSUME NEW p \in Part, NEW on \in BOOLEAN, Activate(p, on)
      PROVE  Goal
  BY <1>0, <1>5 DEF Activate, pollVars, CountInv
<1>6. CASE WriteWake \/ UNCHANGED vars
  BY <1>0, <1>6 DEF WriteWake, pollVars, vars, CountInv
<1>7. ASSUME NEW c \in Counts, Call(c)
      PROVE  Goal
  BY <1>0, <1>1, <1>7 DEF Call, CountInv
<1>8. CASE Scan
  <2>1. /\ pc = "scan" /\ count > 0
        /\ asked' = asked /\ count' = count /\ revents' = revents /\ failed' = failed
    BY <1>0, <1>8 DEF Scan
  <2>2. CASE Wanted(at)
    BY <1>0, <1>1, <1>8, <2>1, <2>2 DEF Scan, CountInv
  <2>3. CASE ~Wanted(at)
    <3>1. Onward(at, count) /\ room' = 0
      BY <1>8, <2>3 DEF Scan
    <3>2. at' \in Driver /\ pc' \in {"out", "scan", "poll"} /\ (pc' = "out" <=> count = 0)
      BY <1>0, <3>1, OnwardType
    <3> QED BY <1>0, <1>1, <2>1, <3>1, <3>2 DEF CountInv
  <2> QED BY <2>2, <2>3
<1>9. CASE GivePending
  BY <1>0, <1>1, <1>2, <1>9 DEF GivePending
<1>10. CASE Fill
  BY <1>0, <1>1, <1>10 DEF Fill, Reads, CountInv
<1>11. CASE FillFails
  <2>1. /\ Return(at, 0 - Errno) /\ pc = "read" /\ failed' = failed \cup {at}
        /\ count + Errno <= MaxCount
    BY <1>11 DEF FillFails, Reads
  <2>2. 0 - Errno \in Int /\ count - (0 - Errno) \in 0 .. MaxCount
    BY <1>0, <1>1, <2>1
  <2> QED BY <1>0, <1>2, <2>1, <2>2
<1>12. CASE ParseValue \/ ParseOther
  BY <1>0, <1>3, <1>12 DEF ParseValue, ParseOther, Parses, parseFrame, StayParsing, sampleVars
<1>13. CASE ParsePlainSyn
  BY <1>0, <1>3, <1>13 DEF ParsePlainSyn, Parses, parseFrame, StayParsing, Hand
<1>14. CASE ParseCompassSyn
  <2>1. room' \in 0 .. room
    BY <1>0, <1>14 DEF ParseCompassSyn, Parses, Hand
  <2> QED BY <1>3, <1>14, <2>1 DEF ParseCompassSyn, Parses, parseFrame, StayParsing
<1>15. CASE ParseEnd
  <2>1. Return(at, count - room) /\ pc = "parse" /\ failed' = failed
    BY <1>15 DEF ParseEnd
  <2>2. count - room \in Int /\ count - (count - room) \in 0 .. MaxCount
    BY <1>0
  <2> QED BY <1>0, <1>2, <2>1, <2>2
<1>16. CASE Poll
  BY <1>0, <1>1, <1>16 DEF Poll, CountInv
<1>17. CASE PollFails
  BY <1>0, <1>17 DEF PollFails, CountInv
<1> QED BY <1>4, <1>5, <1>6, <1>7, <1>8, <1>9, <1>10, <1>11, <1>12, <1>13, <1>14, <1>15,
           <1>16, <1>17 DEF Next

\* The samples and AK8973's state keep their types.
LEMMA SampleStep ==
  ASSUME TypeOK, [Next]_vars
  PROVE  /\ mPendingMask' \subseteq Part /\ mPendingEvents' \in [Part -> Sample]
         /\ taken' \in [Part -> Sample] /\ given' \in [Part -> Nat]
<1> DEFINE Goal == /\ mPendingMask' \subseteq Part /\ mPendingEvents' \in [Part -> Sample]
                   /\ taken' \in [Part -> Sample] /\ given' \in [Part -> Nat]
<1>0. /\ mPendingMask \subseteq Part /\ mPendingEvents \in [Part -> Sample]
      /\ taken \in [Part -> Sample] /\ given \in [Part -> Nat]
      /\ at \in Driver /\ \A d \in Driver : RingInv(ring[d])
  BY DEF TypeOK
<1>1. ASSUME UNCHANGED sampleVars
      PROVE  Goal
  BY <1>0, <1>1 DEF sampleVars
<1>2. CASE ParseValue
  <2>1. Event1 \in InputEvent
    BY <1>0, <1>2, AdvanceTakesTheOldest, SensorsAssumption DEF ParseValue, Parses, Event1
  <2>2. Event1.part \in Part /\ Event1.value \in Sample
    BY <2>1 DEF InputEvent
  <2> QED BY <1>0, <1>2, <2>2 DEF ParseValue
<1>3. ASSUME NEW p \in Part, NEW keep \in BOOLEAN, Hand(p, keep),
             mPendingMask' \subseteq mPendingMask
      PROVE  Goal
  BY <1>0, <1>3 DEF Hand
<1>4. CASE ParsePlainSyn
  <2>1. PartsOf[at] \subseteq Part
    BY <1>0, SensorsAssumption
  <2> QED BY <1>3, <1>4, <2>1 DEF ParsePlainSyn
<1>5. CASE ParseCompassSyn
  <2>1. CASE mPendingMask = {}
    BY <1>1, <1>5, <2>1 DEF ParseCompassSyn
  <2>2. CASE mPendingMask # {}
    <3>1. PICK p \in mPendingMask : /\ mPendingMask' = mPendingMask \ {p}
                                    /\ Hand(p, p \in mEnabled)
      BY <1>5, <2>2 DEF ParseCompassSyn
    <3>2. p \in Part /\ (p \in mEnabled) \in BOOLEAN /\ mPendingMask' \subseteq mPendingMask
      BY <1>0, <3>1
    <3> QED BY <1>0, <3>1, <3>2 DEF Hand
  <2> QED BY <2>1, <2>2
<1>6. CASE \/ \E d \in Driver : \E report \in Reports[d] : Report(d, report)
           \/ \E p \in Part, on \in BOOLEAN : Activate(p, on)
           \/ WriteWake \/ \E c \in Counts : Call(c)
           \/ Scan \/ GivePending \/ Fill \/ FillFails \/ ParseOther \/ ParseEnd
           \/ Poll \/ PollFails \/ UNCHANGED vars
  BY <1>1, <1>6 DEF Report, Activate, WriteWake, Call, Scan, GivePending, Fill, FillFails,
                    ParseOther, ParseEnd, Poll, PollFails, vars
<1> QED BY <1>2, <1>4, <1>5, <1>6 DEF Next

(* The types of what the other threads share with the poll.                *)
LEMMA ClientStep ==
  ASSUME TypeOK, [Next]_vars
  PROVE  /\ mEnabled' \subseteq PartsOf[Compass] /\ mHasPendingEvent' \in BOOLEAN
         /\ wake' \in 0 .. PipeSize /\ client' \in {"idle", "wake"}
         /\ announced' \in BOOLEAN
<1> DEFINE Goal == /\ mEnabled' \subseteq PartsOf[Compass] /\ mHasPendingEvent' \in BOOLEAN
                   /\ wake' \in 0 .. PipeSize /\ client' \in {"idle", "wake"}
                   /\ announced' \in BOOLEAN
<1>0. /\ mEnabled \subseteq PartsOf[Compass] /\ mHasPendingEvent \in BOOLEAN
      /\ wake \in 0 .. PipeSize /\ client \in {"idle", "wake"} /\ announced \in BOOLEAN
      /\ PipeSize \in Nat \ {0}
  BY SensorsAssumption DEF TypeOK
<1>1. ASSUME NEW p \in Part, NEW on \in BOOLEAN, Activate(p, on)
      PROVE  Goal
  <2>1. wake' = wake /\ client' \in {"idle", "wake"} /\ announced' \in BOOLEAN
    BY <1>1 DEF Activate
  <2>2. mEnabled' \subseteq PartsOf[Compass] /\ mHasPendingEvent' \in BOOLEAN
    BY <1>0, <1>1 DEF Activate, EnableCompass
  <2> QED BY <1>0, <2>1, <2>2
<1>2. CASE WriteWake
  BY <1>0, <1>2 DEF WriteWake, compassVars
<1>3. CASE Poll
  BY <1>0, <1>3 DEF Poll, pollFrame
<1>4. CASE GivePending
  BY <1>0, <1>4 DEF GivePending, pollFrame
<1>5. ASSUME UNCHANGED <<mEnabled, mHasPendingEvent, wake, client, announced>>
      PROVE  Goal
  BY <1>0, <1>5
<1>6. CASE \/ \E d \in Driver : \E report \in Reports[d] : Report(d, report)
           \/ \E c \in Counts : Call(c)
           \/ Scan \/ Fill \/ FillFails \/ ParseEnd \/ PollFails \/ UNCHANGED vars
  BY <1>5, <1>6 DEF Report, Call, Scan, Fill, FillFails, ParseEnd, PollFails, vars,
                    pollFrame, compassVars
<1>7. CASE ParseValue \/ ParseOther \/ ParsePlainSyn \/ ParseCompassSyn
  BY <1>5, <1>7 DEF ParseValue, ParseOther, ParsePlainSyn, ParseCompassSyn, parseFrame, pollFrame
<1> QED BY <1>1, <1>2, <1>3, <1>4, <1>6, <1>7 DEF Next

(* No step takes a variable out of its type.                               *)
LEMMA TypeStep == TypeOK /\ CountInv /\ [Next]_vars => TypeOK'
  BY RingStep, PollStep, SampleStep, ClientStep DEF TypeOK

----------------------------------------------------------------------------
(* Nothing is left behind. *)

\* The two invariants, of one driver.
Held(d) == d \notin failed /\ Available(ring[d]) # 0
Kept(d) == /\ Held(d) => revents[d] \/ (pc = "parse" /\ at = d)
           /\ Held(d) => ~Past(d)
           /\ pc \in {"read", "parse"} /\ at = d => revents[d]

AllKept == \A d \in Plain : Kept(d)

(* Two conjuncts of the invariant speak of one driver at a time.           *)
LEMMA KeptIsInv == TypeOK => (LeftoverIsMarked /\ DrainInv <=> AllKept)
<1> SUFFICES ASSUME TypeOK PROVE LeftoverIsMarked /\ DrainInv <=> AllKept
  OBVIOUS
<1>1. \A d \in Plain : Available(ring[d]) \in Nat
  <2> SUFFICES ASSUME NEW d \in Plain PROVE Available(ring[d]) \in Nat
    OBVIOUS
  <2>1. ring[d] \in Ring
    BY DEF TypeOK, Plain
  <2> QED BY <2>1, ReaderAssumption DEF Ring, Available
<1>2. \A d \in Plain : Available(ring[d]) > 0 <=> Available(ring[d]) # 0
  BY <1>1
<1> QED BY <1>2 DEF LeftoverIsMarked, DrainInv, AllKept, Kept, Held

(* Every step keeps what they say of a driver.                             *)
LEMMA KeptStep ==
  ASSUME IInv, [Next]_vars, NEW d \in Plain
  PROVE  Kept(d)'
<1>0. /\ TypeOK /\ CountInv
      /\ revents \in [Driver -> BOOLEAN] /\ at \in 1 .. Drivers /\ Drivers \in Nat
      /\ d \in 1 .. Drivers /\ d # Compass
      /\ Driver = 1 .. Drivers
      /\ count \in Nat /\ room \in Nat
  <2>1. TypeOK /\ CountInv
    BY DEF IInv
  <2>2. Drivers \in Nat /\ MaxCount \in Nat
    BY SensorsAssumption
  <2>3. Driver = 1 .. Drivers /\ d \in Driver /\ d # Compass
    BY DEF Driver, Plain
  <2>4. /\ revents \in [Driver -> BOOLEAN] /\ at \in Driver
        /\ count \in 0 .. MaxCount /\ room \in 0 .. MaxCount
    BY <2>1 DEF TypeOK
  <2> QED BY <2>1, <2>2, <2>3, <2>4
<1>a. Kept(d)
  BY KeptIsInv DEF IInv, AllKept
<1>1. (Held(d)' <=> d \notin failed' /\ Available(ring'[d]) # 0)
  BY DEF Held
<1>2. ASSUME ring'[d] = ring[d], UNCHANGED <<failed, revents, pc, at>>
      PROVE  Kept(d)'
  BY <1>a, <1>2 DEF Past, Busy, Kept, Held, Available
<1>3. ASSUME NEW nb \in Int, Return(at, nb), UNCHANGED ring, pc \in {"read", "parse"},
             nb = count \/ Available(ring[at]) = 0 \/ at \in failed' \/ at = Compass,
             failed' = failed \/ failed' = failed \cup {at}
      PROVE  Kept(d)'
  <2>1. /\ revents' = [revents EXCEPT ![at] = @ /\ ~ClearsRevents(nb)]
        /\ Onward(at, count - nb)
        /\ pc' \in {"out", "scan", "poll"}
    BY <1>3 DEF Return, Onward
  <2>2. CASE d = at
    <3>1. CASE nb = count
      <4>1. ~ClearsRevents(nb) /\ revents[at]
        BY <1>0, <1>a, <1>3, <2>2, <3>1 DEF ClearsRevents, Kept
      <4>2. revents'[d]
        BY <1>0, <2>1, <2>2, <4>1
      <4>3. pc' = "out"
        BY <1>0, <2>1, <3>1 DEF Onward
      <4> QED BY <4>2, <4>3 DEF Past, Busy, Kept
    <3>2. CASE nb # count
      <4>1. ~Held(d)'
        BY <1>0, <1>1, <1>3, <2>2, <3>2
      <4> QED BY <4>1, <2>1 DEF Kept
    <3> QED BY <3>1, <3>2
  <2>3. CASE d # at
    <3>1. revents'[d] = revents[d] /\ (Held(d)' => Held(d))
      BY <1>0, <1>1, <1>3, <2>1, <2>3 DEF Held
    <3>2. Past(d)' => Past(d)
      <4>1. CASE pc' = "poll"
        <5>1. at = Drivers
          BY <1>0, <2>1, <4>1 DEF Onward
        <5> QED BY <1>0, <1>3, <2>3, <5>1 DEF Past, Busy
      <4>2. CASE pc' = "scan"
        <5>1. at' = at + 1
          BY <1>0, <2>1, <4>2 DEF Onward
        <5> QED BY <1>0, <1>3, <2>3, <4>2, <5>1 DEF Past, Busy
      <4>3. CASE pc' = "out"
        BY <4>3 DEF Past, Busy
      <4> QED BY <2>1, <4>1, <4>2, <4>3
    <3>3. Held(d) => revents[d]
      BY <1>a, <2>3 DEF Kept
    <3> QED BY <1>a, <2>1, <3>1, <3>2, <3>3 DEF Kept
  <2> QED BY <2>2, <2>3
<1>4. CASE Scan
  <2>1. /\ pc = "scan" /\ UNCHANGED <<ring, failed, revents>>
        /\ (Held(d)' <=> Held(d)) /\ count # 0
    BY <1>0, <1>1, <1>4 DEF Scan, CountInv, Held
  <2>2. CASE Wanted(at)
    <3>1. pc' = "read" /\ at' = at /\ (at = d => revents[d])
      BY <1>0, <1>4, <2>2 DEF Scan, Wanted
    <3> QED BY <1>a, <2>1, <3>1 DEF Past, Busy, Kept
  <2>3. CASE ~Wanted(at)
    <3>1. Onward(at, count) /\ ~revents[at]
      BY <1>4, <2>3 DEF Scan, Wanted
    <3>2. pc' \in {"scan", "poll"}
      BY <2>1, <3>1 DEF Onward
    <3>3. ASSUME Held(d)
          PROVE  revents[d] /\ ~Past(d)'
      <4>1. revents[d] /\ ~Past(d) /\ d # at
        BY <1>a, <2>1, <3>1, <3>3 DEF Kept
      <4>2. d > at
        BY <1>0, <2>1, <4>1 DEF Past, Busy
      <4>3. pc' = "scan" /\ at' = at + 1
        BY <1>0, <2>1, <3>1, <4>2 DEF Onward
      <4> QED BY <1>0, <4>1, <4>2, <4>3 DEF Past, Busy
    <3> QED BY <1>a, <2>1, <3>2, <3>3 DEF Kept
  <2> QED BY <2>2, <2>3
<1>5. CASE Fill
  <2>1. /\ pc = "read" /\ pc' = "parse" /\ at' = at /\ revents' = revents
        /\ failed' = failed \ {at}
    BY <1>5 DEF Fill, Reads
  <2>2. CASE d = at
    <3>1. revents'[d] /\ ~Past(d)'
      BY <1>0, <1>a, <2>1, <2>2 DEF Past, Busy, Kept
    <3> QED BY <3>1 DEF Kept
  <2>3. CASE d # at
    <3>1. ring'[d] = ring[d]
      BY <1>0, <2>3, RingStep
    <3>2. (Held(d)' <=> Held(d)) /\ (Past(d)' <=> Past(d))
      BY <1>1, <2>1, <2>3, <3>1 DEF Past, Busy, Held
    <3> QED BY <1>a, <2>1, <2>3, <3>2 DEF Kept
  <2> QED BY <2>2, <2>3
<1>6. CASE ParseValue \/ ParseOther \/ ParsePlainSyn \/ ParseCompassSyn
  <2>1. pc = "parse" /\ UNCHANGED <<failed, revents, pc, at>>
    BY <1>6 DEF ParseValue, ParseOther, ParsePlainSyn, ParseCompassSyn, Parses, parseFrame,
                StayParsing
  <2>2. CASE d = at
    <3>1. revents'[d] /\ ~Past(d)'
      BY <1>0, <1>a, <2>1, <2>2 DEF Past, Busy, Kept
    <3> QED BY <3>1 DEF Kept
  <2>3. CASE d # at
    <3>1. ring'[d] = ring[d]
      BY <1>0, <2>3, RingStep
    <3> QED BY <1>2, <2>1, <3>1
  <2> QED BY <2>2, <2>3
<1>7. CASE GivePending
  <2>1. Return(at, 1) /\ UNCHANGED ring /\ pc = "read" /\ at = Compass /\ failed' = failed
    BY <1>7 DEF GivePending
  <2> QED BY <1>3, <2>1
<1>8. CASE FillFails
  <2>1. /\ Return(at, 0 - Errno) /\ UNCHANGED ring /\ pc = "read"
        /\ failed' = failed \cup {at} /\ 0 - Errno \in Int
    BY <1>8, SensorsAssumption DEF FillFails, Reads
  <2> QED BY <1>3, <2>1
<1>9. CASE ParseEnd
  <2>1. /\ Return(at, count - room) /\ UNCHANGED ring /\ pc = "parse" /\ failed' = failed
        /\ room = 0 \/ Available(ring[at]) = 0
    BY <1>9 DEF ParseEnd
  <2>2. count - room \in Int /\ (room = 0 => count - room = count)
    BY <1>0
  <2> QED BY <1>3, <2>1, <2>2
<1>10. CASE Poll
  <2>1. pc = "poll" /\ pc' \in {"scan", "out"} /\ UNCHANGED <<ring, failed>>
    BY <1>10 DEF Poll
  <2>2. ~Held(d)'
    BY <1>a, <2>1 DEF Past, Kept, Held
  <2> QED BY <2>1, <2>2 DEF Kept
<1>11. ASSUME NEW c \in Counts, Call(c)
       PROVE  Kept(d)'
  <2>1. pc = "out" /\ pc' = "scan" /\ at' = 1 /\ UNCHANGED <<ring, failed, revents>>
    BY <1>11 DEF Call
  <2>2. ~Past(d)' /\ (Held(d)' <=> Held(d))
    BY <1>0, <2>1 DEF Past, Busy, Held
  <2> QED BY <1>a, <2>1, <2>2 DEF Kept
<1>12. CASE PollFails
  <2>1. pc = "poll" /\ pc' = "out" /\ UNCHANGED <<ring, failed, revents>>
    BY <1>12 DEF PollFails
  <2> QED BY <1>a, <2>1 DEF Past, Busy, Kept, Held
<1>13. CASE \/ \E e \in Driver : \E report \in Reports[e] : Report(e, report)
            \/ \E p \in Part, on \in BOOLEAN : Activate(p, on)
            \/ WriteWake \/ UNCHANGED vars
  BY <1>2, <1>13 DEF Report, Activate, WriteWake, vars, pollVars
<1> QED BY <1>4, <1>5, <1>6, <1>7, <1>8, <1>9, <1>10, <1>11, <1>12, <1>13 DEF Next

(* Nothing is left behind, also while the scan is under way.               *)
LEMMA DrainStep ==
  ASSUME IInv, [Next]_vars
  PROVE  LeftoverIsMarked' /\ DrainInv'
<1>1. TypeOK'
  BY TypeStep DEF IInv
<1>2. \A d \in Plain : Kept(d)'
  BY KeptStep
<1>3. AllKept'
  BY <1>2 DEF AllKept
<1>4. (TypeOK => (LeftoverIsMarked /\ DrainInv <=> AllKept))'
  BY KeptIsInv, PTL
<1> QED BY <1>1, <1>3, <1>4

----------------------------------------------------------------------------
(* No wake-up is lost. *)

(* An announced event keeps its wake byte, or the scan still meets it.     *)
LEMMA AnnounceStep ==
  ASSUME TypeOK, CountInv, AnnounceInv, [Next]_vars
  PROVE  AnnounceInv'
<1> DEFINE Passed == Past(Compass) \/ (pc = "parse" /\ at = Compass)
<1>0. /\ at \in 1 .. Drivers /\ Compass \in 1 .. Drivers /\ Drivers \in Nat
      /\ wake \in Nat /\ PipeSize \in Nat \ {0}
      /\ mHasPendingEvent \in BOOLEAN /\ announced \in BOOLEAN
  BY SensorsAssumption DEF TypeOK, Driver
<1>1. /\ announced => mHasPendingEvent
      /\ announced /\ Passed => client = "wake" \/ wake > 0
  BY DEF AnnounceInv
<1>2. ASSUME UNCHANGED <<announced, mHasPendingEvent, client, wake>>, Passed' => Passed
      PROVE  AnnounceInv'
  BY <1>1, <1>2 DEF AnnounceInv
<1>3. ASSUME announced' => mHasPendingEvent', ~announced' \/ ~Passed'
      PROVE  AnnounceInv'
  BY <1>3 DEF AnnounceInv
<1>4. ASSUME NEW nb \in Int, Return(at, nb), pc \in {"read", "parse"},
             UNCHANGED <<announced, mHasPendingEvent, client, wake>>,
             at = Compass => pc = "parse" \/ ~announced
      PROVE  AnnounceInv'
  <2>1. Onward(at, count - nb)
    BY <1>4 DEF Return
  <2>2. Passed' => Past(Compass) \/ at = Compass
    <3>1. CASE pc' = "poll"
      <4>1. at = Drivers
        BY <1>0, <2>1, <3>1 DEF Onward
      <4> QED BY <1>0, <1>4, <4>1 DEF Past, Busy
    <3>2. CASE pc' = "scan"
      <4>1. at' = at + 1
        BY <1>0, <2>1, <3>2 DEF Onward
      <4> QED BY <1>0, <1>4, <3>2, <4>1 DEF Past, Busy
    <3>3. CASE pc' = "out"
      BY <3>3 DEF Past, Busy
    <3> QED BY <2>1, <3>1, <3>2, <3>3 DEF Onward
  <2>3. CASE announced
    BY <1>2, <1>4, <2>2, <2>3
  <2>4. CASE ~announced
    BY <1>3, <1>4, <2>4
  <2> QED BY <2>3, <2>4
<1>5. ASSUME NEW p \in Part, NEW on \in BOOLEAN, Activate(p, on)
      PROVE  AnnounceInv'
  <2>1. PICK err \in BOOLEAN, ioctlOk \in BOOLEAN :
          /\ client = "idle"
          /\ mHasPendingEvent => mHasPendingEvent'
          /\ announced' = (announced \/ (mHasPendingEvent' /\ p = Temperature /\ on /\ ~err))
          /\ client' = IF Wakes(on, err) THEN "wake" ELSE "idle"
          /\ wake' = wake /\ pc' = pc /\ at' = at
    BY <1>5 DEF Activate, EnableCompass, pollVars
  <2>2. announced' => mHasPendingEvent'
    BY <1>1, <2>1
  <2>3. announced' /\ Passed' => client' = "wake" \/ wake' > 0
    BY <1>1, <2>1 DEF Wakes, Past, Busy
  <2> QED BY <2>2, <2>3 DEF AnnounceInv
<1>6. CASE WriteWake
  <2>1. wake' > 0 /\ UNCHANGED <<announced, mHasPendingEvent>>
    BY <1>0, <1>6 DEF WriteWake, compassVars
  <2> QED BY <1>1, <2>1 DEF AnnounceInv
<1>7. ASSUME NEW c \in Counts, Call(c)
      PROVE  AnnounceInv'
  <2>1. pc' = "scan" /\ at' = 1 /\ UNCHANGED <<announced, mHasPendingEvent>>
    BY <1>7 DEF Call
  <2> QED BY <1>0, <1>1, <1>3, <2>1 DEF Past, Busy
<1>8. CASE Scan
  <2>1. pc = "scan" /\ UNCHANGED <<announced, mHasPendingEvent, client, wake>> /\ count # 0
    BY <1>8 DEF Scan, pollFrame, CountInv, TypeOK
  <2>2. CASE Wanted(at)
    <3>1. pc' = "read" /\ at' = at
      BY <1>8, <2>2 DEF Scan
    <3> QED BY <1>2, <2>1, <3>1 DEF Past, Busy
  <2>3. CASE ~Wanted(at)
    <3>1. Onward(at, count)
      BY <1>8, <2>3 DEF Scan
    <3>2. announced => at # Compass
      BY <1>1, <2>3 DEF Wanted
    <3>3. at # Compass => (Passed' => Passed)
      <4>1. CASE pc' = "poll"
        <5>1. at = Drivers
          BY <1>0, <3>1, <4>1 DEF Onward
        <5> QED BY <1>0, <2>1, <5>1 DEF Past, Busy
      <4>2. CASE pc' = "scan"
        <5>1. at' = at + 1
          BY <1>0, <3>1, <4>2 DEF Onward
        <5> QED BY <1>0, <2>1, <4>2, <5>1 DEF Past, Busy
      <4>3. CASE pc' = "out"
        BY <4>3 DEF Past, Busy
      <4> QED BY <3>1, <4>1, <4>2, <4>3 DEF Onward
    <3> QED BY <1>1, <1>2, <1>3, <2>1, <3>2, <3>3
  <2> QED BY <2>2, <2>3
<1>9. CASE GivePending
  BY <1>3, <1>9 DEF GivePending
<1>10. CASE Fill
  <2>1. /\ pc = "read" /\ pc' = "parse" /\ at' = at
        /\ UNCHANGED <<announced, mHasPendingEvent, client, wake>>
        /\ ~(at = Compass /\ mHasPendingEvent)
    BY <1>10 DEF Fill, Reads, compassVars
  <2>2. CASE announced
    BY <1>1, <1>2, <2>1, <2>2 DEF Past, Busy
  <2>3. CASE ~announced
    BY <1>3, <2>1, <2>3
  <2> QED BY <2>2, <2>3
<1>11. CASE FillFails
  <2>1. /\ Return(at, 0 - Errno) /\ pc = "read" /\ 0 - Errno \in Int
        /\ UNCHANGED <<announced, mHasPendingEvent, client, wake>>
        /\ ~(at = Compass /\ mHasPendingEvent)
    BY <1>11, SensorsAssumption DEF FillFails, Reads, pollFrame
  <2> QED BY <1>1, <1>4, <2>1
<1>12. CASE ParseValue \/ ParseOther \/ ParsePlainSyn \/ ParseCompassSyn
  <2>1. UNCHANGED <<announced, mHasPendingEvent, client, wake, pc, at>>
    BY <1>12 DEF ParseValue, ParseOther, ParsePlainSyn, ParseCompassSyn, parseFrame, pollFrame,
                 StayParsing
  <2> QED BY <1>2, <2>1 DEF Past, Busy
<1>13. CASE ParseEnd
  <2>1. /\ Return(at, count - room) /\ pc = "parse"
        /\ UNCHANGED <<announced, mHasPendingEvent, client, wake>>
    BY <1>13 DEF ParseEnd, pollFrame
  <2>2. count - room \in Int
    BY SensorsAssumption DEF TypeOK
  <2> QED BY <1>4, <2>1, <2>2
<1>14. CASE Poll \/ PollFails
  <2>1. /\ pc' = "out" \/ (pc' = "scan" /\ at' = 1)
        /\ UNCHANGED <<announced, mHasPendingEvent>>
    BY <1>14 DEF Poll, PollFails
  <2> QED BY <1>0, <1>1, <1>3, <2>1 DEF Past, Busy
<1>15. CASE \/ \E e \in Driver : \E report \in Reports[e] : Report(e, report)
            \/ UNCHANGED vars
  <2>1. UNCHANGED <<announced, mHasPendingEvent, client, wake, pc, at>>
    BY <1>15 DEF Report, vars, compassVars, pollVars
  <2> QED BY <1>2, <2>1 DEF Past, Busy
<1> QED BY <1>5, <1>6, <1>7, <1>8, <1>9, <1>10, <1>11, <1>12, <1>13, <1>14, <1>15 DEF Next

----------------------------------------------------------------------------
\* The theorems.

\* The invariant holds in every behaviour.
LEMMA Inductive == Spec => []IInv
<1>1. IInv /\ [Next]_vars => IInv'
  <2>1. TypeOK /\ CountInv /\ [Next]_vars => CountInv'
    BY PollStep
  <2> QED BY <2>1, TypeStep, DrainStep, AnnounceStep DEF IInv
<1> QED BY <1>1, InitIInv, PTL DEF Spec

\* Every variable keeps its type and every reader's pointers, free space and
\* events belong together, for any number of drivers and any reports
\* (nusensors.cpp, InputEventReader.cpp).
THEOREM TypeCorrect == Spec => []TypeOK
<1>1. IInv => TypeOK
  BY DEF IInv
<1> QED BY <1>1, Inductive, PTL

\* Events that a full array left in a reader are marked for the next call
\* (nusensors.cpp:171-184).
THEOREM LeftoversAreFound == Spec => []LeftoverIsMarked
<1>1. IInv => LeftoverIsMarked
  BY DEF IInv
<1> QED BY <1>1, Inductive, PTL

\* The wake byte of activate() (nusensors.cpp:144-150) reaches a thread that
\* would otherwise sleep on the event it announced.
THEOREM NoWakeIsLost == Spec => []WakeNotLost
<1>1. IInv => WakeNotLost
  BY DEF IInv, AnnounceInv, WakeNotLost, Past
<1> QED BY <1>1, Inductive, PTL
----------------------------------------------------------------------------
(* The samples are a stream. *)

\* The events that are left to parse, of a driver's ring and of its device.
Queue(d) == Contents(ring[d]) \o kernel[d]

IsValue(e, p) == e.type = "abs" /\ e.part = p

\* What parsing the queue q makes of sensor p: value[k] is the last value once
\* k events are parsed, fresh[k] says that no SYN came after it.  A value is
\* the one after the last, and comes when that has had its SYN.
Parsing(q, p, n, value, fresh) ==
  /\ value \in [0 .. Len(q) -> 0 .. n] /\ value[Len(q)] = n
  /\ fresh \in [0 .. Len(q) -> BOOLEAN] /\ ~fresh[Len(q)]
  /\ \A k \in 1 .. Len(q) :
       IF IsValue(q[k], p)
       THEN /\ ~fresh[k - 1] /\ fresh[k]
            /\ value[k] = value[k - 1] + 1 /\ q[k].value = value[k]
       ELSE /\ value[k] = value[k - 1]
            /\ fresh[k] <=> fresh[k - 1] /\ q[k].type # "syn"

\* From the value last, fresh or not, the queue leads to n samples of p.
InOrder(q, p, n, last, isFresh) ==
  \E value \in [0 .. Len(q) -> 0 .. n], fresh \in [0 .. Len(q) -> BOOLEAN] :
    Parsing(q, p, n, value, fresh) /\ value[0] = last /\ fresh[0] = isFresh

\* Nothing but samples of a driver's own sensors is in its queue.
OwnParts(q, d) == \A k \in 1 .. Len(q) : q[k].type = "abs" => q[k].part \in PartsOf[d]

\* Every SYN of q has a value of p since the SYN before it, or since what was
\* parsed last if that was a value without its SYN.
Valued(q, p, isFresh) ==
  \A k \in 1 .. Len(q) : q[k].type = "syn" =>
    \/ \E j \in 1 .. k - 1 : IsValue(q[j], p) /\ \A i \in j .. k - 1 : q[i].type # "syn"
    \/ isFresh /\ \A i \in 1 .. k - 1 : q[i].type # "syn"

\* A sensor's pending value is taken, or is the next to take, once its SYN
\* has come; AK8973 keeps the sensors of the latter kind in a mask, and the
\* others have one at every SYN unless their device is shared.
Pending(p) == taken[p] # mPendingEvents[p]
StreamOf(d, p) ==
  /\ InOrder(Queue(d), p, sent[p], mPendingEvents[p], Pending(p))
  /\ Pending(p) => mPendingEvents[p] = taken[p] + 1
  /\ d # Compass /\ p \notin Shared => Valued(Queue(d), p, Pending(p))

StreamInv ==
  /\ mPendingMask = {p \in PartsOf[Compass] : Pending(p)}
  /\ \A d \in Driver : OwnParts(Queue(d), d) /\ \A p \in PartsOf[d] : StreamOf(d, p)

\* The last value parsed is one of the samples.
LEMMA LastIsSent ==
  ASSUME NEW q \in Seq(InputEvent), NEW p, NEW n \in Nat, NEW last, NEW isFresh,
         InOrder(q, p, n, last, isFresh)
  PROVE  last \in 0 .. n /\ isFresh \in BOOLEAN
<1>1. 0 \in 0 .. Len(q)
  OBVIOUS
<1> QED BY <1>1 DEF InOrder

\* Parsing an event leaves the rest of the queue in order.
LEMMA OrderPops ==
  ASSUME NEW q \in Seq(InputEvent), q # <<>>, NEW p, NEW n \in Nat, NEW last, NEW isFresh,
         InOrder(q, p, n, last, isFresh)
  PROVE  IF IsValue(q[1], p)
         THEN ~isFresh /\ q[1].value = last + 1 /\ InOrder(Tail(q), p, n, last + 1, TRUE)
         ELSE InOrder(Tail(q), p, n, last, isFresh /\ q[1].type # "syn")
<1>1. PICK value \in [0 .. Len(q) -> 0 .. n], fresh \in [0 .. Len(q) -> BOOLEAN] :
        Parsing(q, p, n, value, fresh) /\ value[0] = last /\ fresh[0] = isFresh
  BY DEF InOrder
<1> DEFINE t == Tail(q)
           v == [k \in 0 .. Len(t) |-> value[k + 1]]
           f == [k \in 0 .. Len(t) |-> fresh[k + 1]]
<1>2. /\ Len(q) \in Nat \ {0} /\ Len(t) = Len(q) - 1
      /\ \A k \in 1 .. Len(t) : t[k] = q[k + 1]
  OBVIOUS
<1> HIDE DEF t
<1>3. v \in [0 .. Len(t) -> 0 .. n] /\ f \in [0 .. Len(t) -> BOOLEAN]
  BY <1>2
<1>4. /\ value[Len(q)] = n /\ ~fresh[Len(q)]
      /\ \A k \in 1 .. Len(q) :
           IF IsValue(q[k], p)
           THEN /\ ~fresh[k - 1] /\ fresh[k]
                /\ value[k] = value[k - 1] + 1 /\ q[k].value = value[k]
           ELSE /\ value[k] = value[k - 1]
                /\ fresh[k] <=> fresh[k - 1] /\ q[k].type # "syn"
  BY <1>1 DEF Parsing
<1>5. v[Len(t)] = n /\ ~f[Len(t)]
  BY <1>2, <1>4
<1>6. ASSUME NEW k \in 1 .. Len(t)
      PROVE  IF IsValue(t[k], p)
             THEN /\ ~f[k - 1] /\ f[k]
                  /\ v[k] = v[k - 1] + 1 /\ t[k].value = v[k]
             ELSE /\ v[k] = v[k - 1]
                  /\ f[k] <=> f[k - 1] /\ t[k].type # "syn"
  <2>1. /\ k + 1 \in 1 .. Len(q) /\ (k + 1) - 1 = k /\ t[k] = q[k + 1]
        /\ v[k] = value[k + 1] /\ v[k - 1] = value[k]
        /\ f[k] = fresh[k + 1] /\ f[k - 1] = fresh[k]
    BY <1>2
  <2> HIDE DEF v, f
  <2> QED BY <1>4, <2>1
<1>7. Parsing(t, p, n, v, f)
  <2> HIDE DEF v, f
  <2> QED BY <1>3, <1>5, <1>6 DEF Parsing
<1>8. v[0] = value[1] /\ f[0] = fresh[1] /\ 1 \in 1 .. Len(q) /\ 1 - 1 = 0
  BY <1>2
<1> HIDE DEF v, f
<1>9. InOrder(t, p, n, value[1], fresh[1])
  BY <1>3, <1>7, <1>8 DEF InOrder
<1>10. IF IsValue(q[1], p)
       THEN ~fresh[0] /\ fresh[1] /\ value[1] = value[0] + 1 /\ q[1].value = value[1]
       ELSE value[1] = value[0] /\ (fresh[1] <=> fresh[0] /\ q[1].type # "syn")
  BY <1>4, <1>8
<1>11. fresh[0] \in BOOLEAN /\ fresh[1] \in BOOLEAN
  BY <1>2
<1>12. CASE IsValue(q[1], p)
  BY <1>1, <1>9, <1>10, <1>11, <1>12 DEF t
<1>13. CASE ~IsValue(q[1], p)
  <2>1. fresh[1] = (isFresh /\ q[1].type # "syn") /\ value[1] = last
    BY <1>1, <1>10, <1>11, <1>13
  <2> QED BY <1>9, <1>13, <2>1 DEF t
<1> QED BY <1>12, <1>13

\* AK8973 takes its sensors one by one from the SYN at the head.
LEMMA OrderSettles ==
  ASSUME NEW q \in Seq(InputEvent), q # <<>>, q[1].type = "syn",
         NEW p, NEW n \in Nat, NEW last, NEW isFresh,
         InOrder(q, p, n, last, isFresh)
  PROVE  InOrder(q, p, n, last, FALSE)
<1>1. PICK value \in [0 .. Len(q) -> 0 .. n], fresh \in [0 .. Len(q) -> BOOLEAN] :
        Parsing(q, p, n, value, fresh) /\ value[0] = last /\ fresh[0] = isFresh
  BY DEF InOrder
<1> DEFINE f == [fresh EXCEPT ![0] = FALSE]
<1>2. Len(q) \in Nat \ {0}
  OBVIOUS
<1>3. /\ f \in [0 .. Len(q) -> BOOLEAN] /\ f[0] = FALSE
      /\ \A k \in 1 .. Len(q) : f[k] = fresh[k]
  BY <1>2
<1> HIDE DEF f
<1>4. ~f[Len(q)]
  BY <1>1, <1>2, <1>3 DEF Parsing
<1>5. ASSUME NEW k \in 1 .. Len(q)
      PROVE  IF IsValue(q[k], p)
             THEN /\ ~f[k - 1] /\ f[k]
                  /\ value[k] = value[k - 1] + 1 /\ q[k].value = value[k]
             ELSE /\ value[k] = value[k - 1]
                  /\ f[k] <=> f[k - 1] /\ q[k].type # "syn"
  <2>1. IF IsValue(q[k], p)
        THEN /\ ~fresh[k - 1] /\ fresh[k]
             /\ value[k] = value[k - 1] + 1 /\ q[k].value = value[k]
        ELSE /\ value[k] = value[k - 1]
             /\ fresh[k] <=> fresh[k - 1] /\ q[k].type # "syn"
    BY <1>1 DEF Parsing
  <2>2. CASE k = 1
    <3>1. ~IsValue(q[k], p) /\ q[k].type = "syn" /\ ~fresh[k] /\ f[k] = fresh[k]
      BY <1>3, <2>1, <2>2 DEF IsValue
    <3> QED BY <2>1, <3>1
  <2>3. CASE k # 1
    <3>1. k - 1 \in 1 .. Len(q)
      BY <1>2, <2>3
    <3> QED BY <1>3, <2>1, <3>1
  <2> QED BY <2>2, <2>3
<1>6. Parsing(q, p, n, value, f)
  BY <1>1, <1>3, <1>4, <1>5 DEF Parsing
<1> QED BY <1>1, <1>3, <1>6 DEF InOrder

\* Parsing an event leaves every SYN with its value.
LEMMA ValuedPops ==
  ASSUME NEW q \in Seq(InputEvent), q # <<>>, NEW p, NEW isFresh \in BOOLEAN,
         Valued(q, p, isFresh)
  PROVE  /\ q[1].type = "syn" => isFresh
         /\ Valued(Tail(q), p, IsValue(q[1], p) \/ (isFresh /\ q[1].type # "syn"))
<1> DEFINE t == Tail(q)
           after == IsValue(q[1], p) \/ (isFresh /\ q[1].type # "syn")
<1>1. /\ Len(q) \in Nat \ {0} /\ Len(t) = Len(q) - 1
      /\ \A k \in 1 .. Len(t) : t[k] = q[k + 1]
  OBVIOUS
<1>2. q[1].type = "syn" => isFresh
  BY <1>1 DEF Valued
<1> HIDE DEF t, after
<1>3. ASSUME NEW k \in 1 .. Len(t), t[k].type = "syn"
      PROVE  \/ \E j \in 1 .. k - 1 : IsValue(t[j], p) /\ \A i \in j .. k - 1 : t[i].type # "syn"
             \/ after /\ \A i \in 1 .. k - 1 : t[i].type # "syn"
  <2>1. k + 1 \in 1 .. Len(q) /\ q[k + 1].type = "syn" /\ (k + 1) - 1 = k
    BY <1>1, <1>3
  <2>2. \A i \in 1 .. k - 1 : t[i] = q[i + 1] /\ i + 1 \in 1 .. k
    BY <1>1
  <2>3. CASE \E j \in 1 .. k : IsValue(q[j], p) /\ \A i \in j .. k : q[i].type # "syn"
    <3>1. PICK j \in 1 .. k : IsValue(q[j], p) /\ \A i \in j .. k : q[i].type # "syn"
      BY <2>3
    <3>2. CASE j = 1
      <4>1. after
        BY <3>1, <3>2 DEF after
      <4>2. \A i \in 1 .. k - 1 : t[i].type # "syn"
        BY <2>2, <3>1, <3>2
      <4> QED BY <4>1, <4>2
    <3>3. CASE j # 1
      <4>1. j - 1 \in 1 .. k - 1 /\ (j - 1) + 1 = j
        BY <3>3
      <4>2. IsValue(t[j - 1], p)
        BY <2>2, <3>1, <4>1
      <4>3. \A i \in j - 1 .. k - 1 : t[i].type # "syn"
        <5> SUFFICES ASSUME NEW i \in j - 1 .. k - 1 PROVE t[i].type # "syn"
          OBVIOUS
        <5>1. i \in 1 .. k - 1 /\ i + 1 \in j .. k
          BY <4>1
        <5> QED BY <2>2, <3>1, <5>1
      <4> QED BY <4>1, <4>2, <4>3
    <3> QED BY <3>2, <3>3
  <2>4. CASE isFresh /\ \A i \in 1 .. k : q[i].type # "syn"
    <3>1. after
      BY <2>4 DEF after
    <3> QED BY <2>2, <2>4, <3>1
  <2> QED BY <2>1, <2>3, <2>4 DEF Valued
<1> QED BY <1>2, <1>3 DEF Valued, t, after

\* What the kernel adds to a queue for a report.
Added(report) == [k \in DOMAIN report |-> Entry(report[k])] \o <<Mark("syn")>>

\* It is events, the last of them SYN.
LEMMA AddedType ==
  ASSUME TypeOK, NEW d \in Driver, NEW report \in Reports[d],
         \A p \in PartsIn(report) : sent[p] < MaxSamples[p]
  PROVE  /\ report \in Seq(PartsOf[d] \cup {Other}) /\ PartsOf[d] \subseteq Part
         /\ Added(report) \in Seq(InputEvent) /\ Len(Added(report)) = Len(report) + 1
         /\ \A k \in 1 .. Len(report) : Added(report)[k] = Entry(report[k])
         /\ Added(report)[Len(report) + 1] = Mark("syn")
<1>1. report \in Seq(PartsOf[d] \cup {Other}) /\ PartsOf[d] \subseteq Part
  BY SensorsAssumption
<1>2. \A p \in PartsIn(report) : sent[p] + 1 \in Sample
  <2> SUFFICES ASSUME NEW p \in PartsIn(report) PROVE sent[p] + 1 \in Sample
    OBVIOUS
  <2>1. p \in Part /\ sent[p] < MaxSamples[p] /\ MaxSamples[p] \in Nat /\ sent[p] \in Sample
    BY SensorsAssumption DEF PartsIn, TypeOK
  <2>2. sent[p] \in Nat
    BY <2>1, SensorsAssumption DEF Sample
  <2> QED BY <2>1, <2>2 DEF Sample
<1>3. \A k \in DOMAIN report : Entry(report[k]) \in InputEvent
  <2> SUFFICES ASSUME NEW k \in DOMAIN report PROVE Entry(report[k]) \in InputEvent
    OBVIOUS
  <2>1. CASE report[k] = Other
    BY <2>1, MarkType DEF Entry
  <2>2. CASE report[k] # Other
    <3>1. report[k] \in Part /\ report[k] \in PartsIn(report)
      BY <1>1, <2>2 DEF PartsIn
    <3> QED BY <3>1, <1>2, <2>2 DEF Entry, Abs, InputEvent
  <2> QED BY <2>1, <2>2
<1> DEFINE e == [k \in DOMAIN report |-> Entry(report[k])]
<1>4. e \in Seq(InputEvent) /\ Len(e) = Len(report) /\ \A k \in 1 .. Len(report) : e[k] = Entry(report[k])
  BY <1>1, <1>3
<1>5. Mark("syn") \in InputEvent
  BY MarkType
<1> HIDE DEF e
<1>6. /\ e \o <<Mark("syn")>> \in Seq(InputEvent)
      /\ Len(e \o <<Mark("syn")>>) = Len(report) + 1
      /\ \A k \in 1 .. Len(report) : (e \o <<Mark("syn")>>)[k] = Entry(report[k])
      /\ (e \o <<Mark("syn")>>)[Len(report) + 1] = Mark("syn")
  BY <1>1, <1>4, <1>5
<1> QED BY <1>1, <1>6 DEF Added, e

\* The events of two queues, one after the other.
LEMMA EventsConcat ==
  ASSUME NEW q \in Seq(InputEvent), NEW t \in Seq(InputEvent)
  PROVE  /\ q \o t \in Seq(InputEvent) /\ Len(q) \in Nat /\ Len(q \o t) = Len(q) + Len(t)
         /\ \A k \in 1 .. Len(q) + Len(t) :
              (q \o t)[k] = IF k <= Len(q) THEN q[k] ELSE t[k - Len(q)]
BY ConcatProperties

\* A queue in order, followed by events that end with SYN and of which one at
\* most is a value of p, the next one.  seen[j] says it is among the first j.
LEMMA ParsingAppends ==
  ASSUME NEW q \in Seq(InputEvent), NEW p, NEW n \in Nat, NEW last, NEW isFresh,
         InOrder(q, p, n, last, isFresh),
         NEW l \in Nat, NEW t \in Seq(InputEvent), Len(t) = l + 1, t[l + 1].type = "syn",
         NEW seen \in [0 .. l + 1 -> BOOLEAN], ~seen[0], seen[l + 1] = seen[l],
         \A j \in 1 .. l :
           /\ t[j].type # "syn" /\ (seen[j] => seen[l])
           /\ IF IsValue(t[j], p) THEN ~seen[j - 1] /\ seen[j] /\ t[j].value = n + 1
                                  ELSE seen[j] = seen[j - 1]
  PROVE  InOrder(q \o t, p, IF seen[l] THEN n + 1 ELSE n, last, isFresh)
<1>1. PICK value \in [0 .. Len(q) -> 0 .. n], fresh \in [0 .. Len(q) -> BOOLEAN] :
        Parsing(q, p, n, value, fresh) /\ value[0] = last /\ fresh[0] = isFresh
  BY DEF InOrder
<1> DEFINE m == Len(q)
           r == q \o t
           N == IF seen[l] THEN n + 1 ELSE n
           K == 0 .. m + l + 1
           v == [k \in K |-> IF k < m THEN value[k] ELSE IF seen[k - m] THEN n + 1 ELSE n]
           f == [k \in K |-> IF k < m THEN fresh[k] ELSE k # m + l + 1 /\ seen[k - m]]
<1>2. /\ m \in Nat /\ Len(r) = m + l + 1
      /\ \A k \in 1 .. m : r[k] = q[k]
      /\ \A k \in 1 .. m + l + 1 : k > m => r[k] = t[k - m]
  <2>1. /\ m \in Nat /\ Len(r) = Len(q) + Len(t)
        /\ \A k \in 1 .. Len(q) + Len(t) : r[k] = IF k <= Len(q) THEN q[k] ELSE t[k - Len(q)]
    BY EventsConcat
  <2>2. Len(q) = m /\ Len(t) = l + 1
    OBVIOUS
  <2> HIDE DEF r, m
  <2> QED BY <2>1, <2>2
<1>3. /\ value \in [0 .. m -> 0 .. n] /\ fresh \in [0 .. m -> BOOLEAN]
      /\ value[m] = n /\ ~fresh[m]
      /\ \A k \in 1 .. m :
           IF IsValue(q[k], p)
           THEN /\ ~fresh[k - 1] /\ fresh[k]
                /\ value[k] = value[k - 1] + 1 /\ q[k].value = value[k]
           ELSE /\ value[k] = value[k - 1]
                /\ fresh[k] <=> fresh[k - 1] /\ q[k].type # "syn"
  BY <1>1 DEF Parsing
<1>4. N \in Nat /\ n <= N
  OBVIOUS
<1>5. \A j \in 1 .. l + 1 : seen[j] \in BOOLEAN /\ seen[j - 1] \in BOOLEAN
  OBVIOUS
<1> HIDE DEF m, r
<1>6. ASSUME NEW k \in 0 .. m
      PROVE  v[k] = value[k] /\ f[k] = fresh[k]
  <2>1. CASE k < m
    BY <1>2, <2>1
  <2>2. CASE k = m
    <3>1. k \in K /\ ~(k < m) /\ k - m = 0 /\ k # m + l + 1
      BY <1>2, <2>2
    <3>2. fresh[k] = FALSE /\ seen[0] = FALSE
      BY <1>2, <1>3, <2>2
    <3> HIDE DEF K
    <3> QED BY <1>3, <2>2, <3>1, <3>2
  <2> QED BY <1>2, <2>1, <2>2
<1>7. ASSUME NEW j \in 1 .. l + 1
      PROVE  /\ v[m + j] = IF seen[j] THEN n + 1 ELSE n
             /\ f[m + j] = (j # l + 1 /\ seen[j])
             /\ v[m + (j - 1)] = IF seen[j - 1] THEN n + 1 ELSE n
             /\ f[m + (j - 1)] = seen[j - 1]
  <2>1. /\ m + j \in K /\ ~(m + j < m) /\ (m + j) - m = j
        /\ m + j = m + l + 1 <=> j = l + 1
        /\ m + (j - 1) \in K /\ ~(m + (j - 1) < m) /\ (m + (j - 1)) - m = j - 1
        /\ m + (j - 1) # m + l + 1
    BY <1>2
  <2> HIDE DEF K
  <2> QED BY <2>1, <1>5
<1>8. ASSUME NEW k \in K
      PROVE  v[k] \in 0 .. N /\ f[k] \in BOOLEAN
  <2>1. CASE k <= m
    <3>1. k \in 0 .. m
      BY <1>2, <2>1
    <3>2. v[k] = value[k] /\ f[k] = fresh[k]
      BY <1>6, <3>1
    <3>3. value[k] \in 0 .. n /\ fresh[k] \in BOOLEAN
      BY <1>3, <3>1
    <3> HIDE DEF v, f, N
    <3>4. v[k] \in 0 .. N
      BY <1>4, <3>2, <3>3
    <3> QED BY <3>2, <3>3, <3>4
  <2>2. CASE k > m
    <3> DEFINE j == k - m
    <3>1. j \in 1 .. l + 1 /\ k = m + j
      BY <1>2, <2>2
    <3>4. seen[j] => seen[l]
      BY <3>1
    <3> HIDE DEF v, f, j
    <3>2. v[k] = IF seen[j] THEN n + 1 ELSE n
      BY <1>7, <3>1
    <3>3. f[k] = (j # l + 1 /\ seen[j])
      BY <1>7, <3>1
    <3>5. v[k] \in 0 .. N
      BY <3>2, <3>4
    <3>6. f[k] \in BOOLEAN
      BY <3>3
    <3> QED BY <3>5, <3>6
  <2> QED BY <1>2, <2>1, <2>2
<1>9. /\ v \in [0 .. Len(r) -> 0 .. N] /\ f \in [0 .. Len(r) -> BOOLEAN]
      /\ v[Len(r)] = N /\ ~f[Len(r)]
  <2>1. v \in [K -> 0 .. N] /\ f \in [K -> BOOLEAN]
    BY <1>8
  <2>2. Len(r) = m + (l + 1) /\ l + 1 \in 1 .. l + 1 /\ K = 0 .. Len(r)
    BY <1>2
  <2> HIDE DEF v, f, K
  <2> QED BY <1>7, <2>1, <2>2
<1> HIDE DEF v, f, N, K
<1>10. ASSUME NEW k \in 1 .. Len(r)
       PROVE  IF IsValue(r[k], p)
              THEN /\ ~f[k - 1] /\ f[k]
                   /\ v[k] = v[k - 1] + 1 /\ r[k].value = v[k]
              ELSE /\ v[k] = v[k - 1]
                   /\ f[k] <=> f[k - 1] /\ r[k].type # "syn"
  <2>1. CASE k <= m
    <3>1. k \in 1 .. m /\ k \in 0 .. m /\ k - 1 \in 0 .. m /\ r[k] = q[k]
      BY <1>2, <2>1
    <3>2. v[k] = value[k] /\ f[k] = fresh[k] /\ v[k - 1] = value[k - 1] /\ f[k - 1] = fresh[k - 1]
      BY <1>6, <3>1
    <3> QED BY <1>3, <3>1, <3>2
  <2>2. CASE k > m
    <3> DEFINE j == k - m
    <3>1. /\ j \in 1 .. l + 1 /\ k = m + j /\ k - 1 = m + (j - 1) /\ r[k] = t[j]
      BY <1>2, <2>2
    <3> HIDE DEF j
    <3>2. /\ v[k] = IF seen[j] THEN n + 1 ELSE n
          /\ f[k] = (j # l + 1 /\ seen[j])
          /\ v[k - 1] = IF seen[j - 1] THEN n + 1 ELSE n
          /\ f[k - 1] = seen[j - 1]
      BY <1>7, <3>1
    <3>3. CASE j = l + 1
      <4>1. r[k].type = "syn" /\ ~IsValue(r[k], p) /\ seen[j] = seen[j - 1]
        BY <3>1, <3>3 DEF IsValue
      <4> QED BY <3>2, <3>3, <4>1
    <3>4. CASE j # l + 1
      <4>1. j \in 1 .. l
        BY <3>1, <3>4
      <4>2. /\ r[k].type # "syn"
            /\ IF IsValue(r[k], p) THEN ~seen[j - 1] /\ seen[j] /\ r[k].value = n + 1
                                   ELSE seen[j] = seen[j - 1]
        BY <3>1, <4>1
      <4>3. seen[j] \in BOOLEAN /\ seen[j - 1] \in BOOLEAN
        BY <1>5, <3>1
      <4> QED BY <3>2, <3>4, <4>2, <4>3
    <3> QED BY <3>3, <3>4
  <2> QED BY <1>2, <2>1, <2>2
<1>11. Parsing(r, p, N, v, f)
  BY <1>9, <1>10 DEF Parsing
<1>12. v[0] = last /\ f[0] = isFresh
  BY <1>1, <1>2, <1>6
<1> QED BY <1>9, <1>11, <1>12 DEF InOrder, r, N

\* A report that the kernel adds carries on the order: each sensor is in it
\* once at most, and SYN follows.
LEMMA OrderAppends ==
  ASSUME TypeOK, NEW d \in Driver, NEW report \in Reports[d], NEW p \in PartsOf[d],
         \A o \in PartsIn(report) : sent[o] < MaxSamples[o],
         NEW q \in Seq(InputEvent), NEW last, NEW isFresh,
         InOrder(q, p, sent[p], last, isFresh)
  PROVE  InOrder(q \o Added(report), p,
                 IF p \in PartsIn(report) THEN sent[p] + 1 ELSE sent[p], last, isFresh)
<1> DEFINE t == Added(report)
           l == Len(report)
           n == sent[p]
           seen == [j \in 0 .. l + 1 |-> \E k \in 1 .. l : k <= j /\ report[k] = p]
<1>1. /\ report \in Seq(PartsOf[d] \cup {Other}) /\ p \in Part /\ p # Other
      /\ t \in Seq(InputEvent) /\ Len(t) = l + 1
      /\ \A k \in 1 .. l : t[k] = Entry(report[k])
      /\ t[l + 1] = Mark("syn")
  <2>1. p \in Part /\ p # Other
    BY SensorsAssumption
  <2> QED BY <2>1, AddedType
<1>2. l \in Nat /\ DOMAIN report = 1 .. l
  BY <1>1
<1>3. \A j, k \in 1 .. l : j # k => report[j] # report[k]
  <2>1. \A r \in Reports[d] : \A j, k \in DOMAIN r : j # k => r[j] # r[k]
    BY SensorsAssumption
  <2> QED BY <1>2, <2>1
<1>4. n \in Nat
  BY <1>1, SensorsAssumption DEF TypeOK, Sample
<1> HIDE DEF t, l, n
<1>5. /\ seen \in [0 .. l + 1 -> BOOLEAN]
      /\ \A j \in 0 .. l + 1 : seen[j] <=> \E k \in 1 .. l : k <= j /\ report[k] = p
  OBVIOUS
<1> HIDE DEF seen
<1>6. /\ ~seen[0] /\ seen[l + 1] = seen[l]
      /\ seen[l] <=> p \in PartsIn(report)
  <2>1. seen[0] \in BOOLEAN /\ seen[l + 1] \in BOOLEAN /\ seen[l] \in BOOLEAN
    BY <1>2, <1>5
  <2>2. ~seen[0]
    BY <1>2, <1>5
  <2>3. (seen[l + 1] <=> seen[l]) /\ (seen[l] <=> p \in PartsIn(report))
    <3>1. /\ l \in 0 .. l + 1 /\ l + 1 \in 0 .. l + 1
          /\ \A k \in 1 .. l : k <= l /\ k <= l + 1
      BY <1>2
    <3>2. seen[l] <=> \E k \in 1 .. l : report[k] = p
      BY <1>5, <3>1
    <3>3. seen[l + 1] <=> \E k \in 1 .. l : report[k] = p
      BY <1>5, <3>1
    <3>4. p \in PartsIn(report) <=> \E k \in 1 .. l : report[k] = p
      BY <1>1, <1>2 DEF PartsIn
    <3> QED BY <3>2, <3>3, <3>4
  <2> QED BY <2>1, <2>2, <2>3
<1>7. ASSUME NEW j \in 1 .. l
      PROVE  /\ t[j].type # "syn" /\ (seen[j] => seen[l])
             /\ IF IsValue(t[j], p) THEN ~seen[j - 1] /\ seen[j] /\ t[j].value = n + 1
                                    ELSE seen[j] = seen[j - 1]
  <2>1. /\ j \in 0 .. l + 1 /\ j - 1 \in 0 .. l + 1 /\ l \in 0 .. l + 1 /\ j <= l
    BY <1>2
  <2>2. seen[j] \in BOOLEAN /\ seen[j - 1] \in BOOLEAN /\ (seen[j] => seen[l])
    BY <1>2, <1>5, <2>1
  <2>3. t[j] = Entry(report[j])
    BY <1>1
  <2>4. t[j].type # "syn"
    BY <2>3 DEF Entry, Mark, Abs
  <2>5. CASE report[j] = p
    <3>1. IsValue(t[j], p) /\ t[j].value = n + 1
      BY <1>1, <2>3, <2>5 DEF Entry, Abs, IsValue, n
    <3>2. seen[j] /\ ~seen[j - 1]
      BY <1>2, <1>3, <1>5, <2>1, <2>5
    <3> QED BY <2>2, <2>4, <3>1, <3>2
  <2>6. CASE report[j] # p
    <3>1. ~IsValue(t[j], p)
      BY <2>3, <2>6 DEF Entry, Abs, Mark, IsValue
    <3>2. \A k \in 1 .. l : k <= j /\ report[k] = p <=> k <= j - 1 /\ report[k] = p
      BY <1>2, <2>1, <2>6
    <3>3. seen[j] <=> seen[j - 1]
      BY <1>5, <2>1, <3>2
    <3> QED BY <2>2, <2>4, <3>1, <3>3
  <2> QED BY <2>5, <2>6
<1>8. t[l + 1].type = "syn"
  BY <1>1 DEF Mark
<1>9. InOrder(q \o t, p, IF seen[l] THEN n + 1 ELSE n, last, isFresh)
  <2>1. InOrder(q, p, n, last, isFresh)
    BY DEF n
  <2> QED BY <1>1, <1>2, <1>4, <1>5, <1>6, <1>7, <1>8, <2>1, ParsingAppends
<1> QED BY <1>6, <1>9 DEF t, n

\* A report with a value of p adds a SYN that has one.
LEMMA ValuedAppends ==
  ASSUME TypeOK, NEW d \in Driver, NEW report \in Reports[d], NEW p \in PartsIn(report),
         \A o \in PartsIn(report) : sent[o] < MaxSamples[o],
         NEW q \in Seq(InputEvent), NEW isFresh, Valued(q, p, isFresh)
  PROVE  Valued(q \o Added(report), p, isFresh)
<1> DEFINE t == Added(report)
           l == Len(report)
           m == Len(q)
           r == q \o t
<1>1. /\ report \in Seq(PartsOf[d] \cup {Other}) /\ t \in Seq(InputEvent) /\ Len(t) = l + 1
      /\ \A k \in 1 .. l : t[k] = Entry(report[k])
  BY AddedType
<1>2. /\ m \in Nat /\ l \in Nat /\ Len(r) = m + l + 1
      /\ \A k \in 1 .. m : r[k] = q[k]
      /\ \A k \in 1 .. l : r[m + k] = t[k]
  <2>1. /\ m \in Nat /\ Len(r) = m + (l + 1) /\ l \in Nat
        /\ \A k \in 1 .. m + (l + 1) : r[k] = IF k <= m THEN q[k] ELSE t[k - m]
    <3>1. /\ m \in Nat /\ Len(r) = m + Len(t)
          /\ \A k \in 1 .. m + Len(t) : r[k] = IF k <= m THEN q[k] ELSE t[k - m]
      BY <1>1, EventsConcat
    <3>2. l \in Nat /\ Len(t) = l + 1
      BY <1>1
    <3> HIDE DEF r, t, l, m
    <3> QED BY <3>1, <3>2
  <2> HIDE DEF r, t, l, m
  <2>2. ASSUME NEW k \in 1 .. l
        PROVE  r[m + k] = t[k]
    <3>1. m + k \in 1 .. m + (l + 1) /\ ~(m + k <= m) /\ (m + k) - m = k
      BY <2>1
    <3> QED BY <2>1, <3>1
  <2> QED BY <2>1, <2>2
<1>3. PICK h \in 1 .. l : report[h] = p
  BY <1>1 DEF PartsIn
<1>4. p # Other
  BY SensorsAssumption DEF PartsIn
<1>5. IsValue(t[h], p) /\ \A k \in 1 .. l : t[k].type # "syn"
  <2>1. IsValue(Entry(p), p)
    BY <1>4 DEF Entry, Abs, IsValue
  <2>2. \A o : Entry(o).type # "syn"
    BY DEF Entry, Abs, Mark
  <2> QED BY <1>1, <1>3, <2>1, <2>2
<1> HIDE DEF r, t, l, m
<1>6. ASSUME NEW k \in 1 .. Len(r), r[k].type = "syn"
      PROVE  \/ \E j \in 1 .. k - 1 : IsValue(r[j], p) /\ \A i \in j .. k - 1 : r[i].type # "syn"
             \/ isFresh /\ \A i \in 1 .. k - 1 : r[i].type # "syn"
  <2>1. CASE k <= m
    <3>1. k \in 1 .. m /\ q[k].type = "syn"
      BY <1>2, <1>6, <2>1
    <3>2. \A i \in 1 .. k - 1 : r[i] = q[i]
      BY <1>2, <3>1
    <3>3. \/ \E j \in 1 .. k - 1 : IsValue(q[j], p) /\ \A i \in j .. k - 1 : q[i].type # "syn"
          \/ isFresh /\ \A i \in 1 .. k - 1 : q[i].type # "syn"
      BY <3>1 DEF Valued, m
    <3> QED BY <3>2, <3>3
  <2>2. CASE k > m
    <3>1. k = m + l + 1
      <4> SUFFICES ASSUME k # m + l + 1 PROVE FALSE
        OBVIOUS
      <4>1. k - m \in 1 .. l /\ m + (k - m) = k
        BY <1>2, <2>2
      <4> QED BY <1>2, <1>5, <1>6, <4>1
    <3>2. m + h \in 1 .. k - 1 /\ IsValue(r[m + h], p)
      BY <1>2, <1>3, <1>5, <3>1
    <3>3. \A i \in m + h .. k - 1 : r[i].type # "syn"
      <4> SUFFICES ASSUME NEW i \in m + h .. k - 1 PROVE r[i].type # "syn"
        OBVIOUS
      <4>1. i - m \in 1 .. l /\ m + (i - m) = i
        BY <1>2, <3>1
      <4> QED BY <1>2, <1>5, <4>1
    <3> QED BY <3>2, <3>3
  <2> QED BY <1>2, <2>1, <2>2
<1> QED BY <1>6 DEF Valued, r, t

\* What the types say of a sensor of a driver.
LEMMA PartFacts ==
  ASSUME TypeOK, NEW d \in Driver, NEW p \in PartsOf[d]
  PROVE  /\ p \in Part /\ sent[p] \in Nat /\ taken[p] \in Nat
         /\ mPendingEvents[p] \in Nat
         /\ \A e \in Driver : p \in PartsOf[e] => e = d
<1>1. p \in Part /\ \A e \in Driver : p \in PartsOf[e] => e = d
  BY SensorsAssumption
<1>2. Sample \subseteq Nat
  BY SensorsAssumption DEF Sample
<1> QED BY <1>1, <1>2 DEF TypeOK

\* The events in a ring are a sequence.
LEMMA ContentsType ==
  ASSUME NEW r, RingInv(r)
  PROVE  Contents(r) \in Seq(InputEvent) /\ Len(Contents(r)) = Available(r)
<1> DEFINE n == NumEvents
           c == r.mCurr
           u == Available(r)
           At(k) == IF c + k - 1 < n THEN c + k - 1 ELSE c + k - 1 - n
<1>1. /\ n \in Nat \ {0} /\ c \in 0 .. n - 1 /\ u \in 0 .. n
      /\ r.buf \in [Slots -> InputEvent] /\ Slots = 0 .. n - 1
  BY ReaderAssumption, SensorsAssumption DEF RingInv, Ring, Slots, Available
<1>2. Contents(r) = [k \in 1 .. u |-> r.buf[At(k)]]
  BY DEF Contents
<1> HIDE DEF n, c, u
<1>3. \A k \in 1 .. u : At(k) \in Slots
  BY <1>1
<1> HIDE DEF At
<1>4. u \in Nat /\ \A k \in 1 .. u : r.buf[At(k)] \in InputEvent
  BY <1>1, <1>3
<1> QED BY <1>2, <1>4 DEF u

\* A driver's queue is events.
LEMMA QueueType ==
  ASSUME TypeOK, NEW d \in Driver
  PROVE  /\ Queue(d) \in Seq(InputEvent)
         /\ Contents(ring[d]) \in Seq(InputEvent) /\ kernel[d] \in Seq(InputEvent)
         /\ RingInv(ring[d])
<1>1. RingInv(ring[d]) /\ kernel[d] \in Seq(InputEvent)
  BY DEF TypeOK
<1> QED BY <1>1, ContentsType, EventsConcat DEF Queue

\* next() takes the first event of the queue.
LEMMA QueueAdvances ==
  ASSUME TypeOK, NEW d \in Driver, Available(ring[d]) > 0
  PROVE  /\ Queue(d) # <<>> /\ Queue(d)[1] = Current(ring[d])
         /\ Contents(Advanced(ring[d])) \o kernel[d] = Tail(Queue(d))
<1> DEFINE c == Contents(ring[d])
           k == kernel[d]
<1>1. c \in Seq(InputEvent) /\ k \in Seq(InputEvent) /\ Len(c) = Available(ring[d])
  BY QueueType, ContentsType
<1>2. Current(ring[d]) = c[1] /\ Contents(Advanced(ring[d])) = Tail(c)
  BY QueueType, AdvanceTakesTheOldest
<1>3. Len(c) > 0 /\ Len(c) \in Nat /\ c # <<>>
  BY <1>1
<1>4. Queue(d) = c \o k
  BY DEF Queue
<1> HIDE DEF c, k
<1>5. c \o k # <<>> /\ (c \o k)[1] = c[1]
  BY <1>1, <1>3, EventsConcat
<1>6. Tail(c) \o k = Tail(c \o k)
  <2>1. c \o k \in Seq(InputEvent) /\ Tail(c) \in Seq(InputEvent) /\ Tail(c \o k) \in Seq(InputEvent)
    BY <1>1, <1>3, <1>5, EventsConcat
  <2>2. Tail(c) \o k \in Seq(InputEvent)
    BY <1>1, <2>1, EventsConcat
  <2>3. /\ Len(Tail(c)) = Len(c) - 1 /\ \A i \in 1 .. Len(c) - 1 : Tail(c)[i] = c[i + 1]
        /\ Len(Tail(c \o k)) = Len(c) + Len(k) - 1
        /\ \A i \in 1 .. Len(c) + Len(k) - 1 : Tail(c \o k)[i] = (c \o k)[i + 1]
        /\ Len(k) \in Nat
    BY <1>1, <1>3, <1>5, <2>1, EventsConcat
  <2>4. Len(Tail(c) \o k) = Len(c) - 1 + Len(k)
    BY <1>1, <2>1, <2>3, EventsConcat
  <2>5. ASSUME NEW i \in 1 .. Len(c) + Len(k) - 1
        PROVE  (Tail(c) \o k)[i] = Tail(c \o k)[i]
    <3>1. (Tail(c) \o k)[i] = IF i <= Len(c) - 1 THEN Tail(c)[i] ELSE k[i - (Len(c) - 1)]
      BY <1>1, <1>3, <2>1, <2>3, EventsConcat
    <3>2. (c \o k)[i + 1] = IF i + 1 <= Len(c) THEN c[i + 1] ELSE k[i + 1 - Len(c)]
      BY <1>1, <1>3, <2>3, EventsConcat
    <3>3. i - (Len(c) - 1) = i + 1 - Len(c) /\ (i <= Len(c) - 1 <=> i + 1 <= Len(c))
      BY <1>3, <2>3
    <3> QED BY <1>3, <2>3, <3>1, <3>2, <3>3
  <2> QED BY <1>3, <2>1, <2>2, <2>3, <2>4, <2>5, SeqEqual
<1> QED BY <1>2, <1>4, <1>5, <1>6 DEF c, k

\* fill() moves events from the device to the ring, and none of the queue.
LEMMA QueueFills ==
  ASSUME TypeOK, Fill, NEW d \in Driver
  PROVE  Queue(d)' = Queue(d)
<1>1. PICK n \in 0 .. Len(kernel[at]) :
        /\ n <= ring[at].mFreeSpace
        /\ ring' = [ring EXCEPT ![at] = Filled(@, SubSeq(kernel[at], 1, n))]
        /\ kernel' = [kernel EXCEPT ![at] = SubSeq(@, n + 1, Len(@))]
  BY DEF Fill
<1>2. /\ ring \in [Driver -> Ring] /\ kernel \in [Driver -> Seq(InputEvent)] /\ at \in Driver
      /\ Queue(d) = Contents(ring[d]) \o kernel[d]
      /\ Queue(d)' = Contents(ring'[d]) \o kernel'[d]
  BY DEF TypeOK, Queue
<1>3. CASE d # at
  BY <1>1, <1>2, <1>3
<1>4. CASE d = at
  <2> DEFINE k == kernel[at]
             c == Contents(ring[at])
             a == SubSeq(k, 1, n)
             b == SubSeq(k, n + 1, Len(k))
  <2>1. k \in Seq(InputEvent) /\ c \in Seq(InputEvent) /\ RingInv(ring[at])
    BY <1>2, QueueType
  <2>2. n \in Nat /\ n <= Len(k) /\ Len(k) \in Nat
    BY <2>1
  <2>3. a \in Seq(InputEvent) /\ b \in Seq(InputEvent) /\ Len(a) = n
    BY <2>1, <2>2
  <2>4. a \o b = k
    <3>1. 1 \in 1 .. Len(k) + 1 /\ n \in 1 - 1 .. Len(k) /\ Len(k) \in n .. Len(k)
      BY <2>2
    <3>2. SubSeq(k, 1, n) \o SubSeq(k, n + 1, Len(k)) = SubSeq(k, 1, Len(k))
      BY <2>1, <3>1, ConcatAdjacentSubSeq
    <3>3. SubSeq(k, 1, Len(k)) = k
      BY <2>1, SubSeqFull
    <3> QED BY <3>2, <3>3
  <2>5. Contents(Filled(ring[at], a)) = c \o a
    <3>1. a \in Seq(Event) /\ Len(a) <= ring[at].mFreeSpace
      BY <1>1, <2>3, SensorsAssumption
    <3> QED BY <2>1, <3>1, FillAppends
  <2>6. ring'[d] = Filled(ring[at], a) /\ kernel'[d] = b
    BY <1>1, <1>2, <1>4
  <2> HIDE DEF k, c, a, b
  <2>7. (c \o a) \o b = c \o (a \o b)
    BY <2>1, <2>3, ConcatAssociative
  <2> QED BY <1>2, <1>4, <2>4, <2>5, <2>6, <2>7 DEF k, c
<1> QED BY <1>3, <1>4

\* Appending is associative.
LEMMA EventsAssociate ==
  ASSUME NEW q \in Seq(InputEvent), NEW t \in Seq(InputEvent), NEW u \in Seq(InputEvent)
  PROVE  (q \o t) \o u = q \o (t \o u)
BY ConcatAssociative

\* An empty queue leads from a value to itself.
LEMMA OrderEmpty == \A p : InOrder(<<>>, p, 0, 0, FALSE)
<1> SUFFICES ASSUME NEW p PROVE InOrder(<<>>, p, 0, 0, FALSE)
  OBVIOUS
<1> DEFINE v == [k \in 0 .. 0 |-> 0]
           f == [k \in 0 .. 0 |-> FALSE]
<1>1. /\ v \in [0 .. 0 -> 0 .. 0] /\ f \in [0 .. 0 -> BOOLEAN]
      /\ v[0] = 0 /\ f[0] = FALSE /\ Len(<<>>) = 0
  OBVIOUS
<1> HIDE DEF v, f
<1>2. Parsing(<<>>, p, 0, v, f)
  BY <1>1 DEF Parsing
<1> QED BY <1>1, <1>2 DEF InOrder

\* At first nothing is reported, parsed or taken.
LEMMA InitStream == Init => StreamInv
<1> SUFFICES ASSUME Init PROVE StreamInv
  OBVIOUS
<1>1. TypeOK
  BY InitIInv DEF IInv
<1>2. ASSUME NEW d \in Driver
      PROVE  Queue(d) = <<>>
  <2>1. ring[d] = NewRing(Mark("other")) /\ kernel[d] = <<>>
    BY <1>2 DEF Init
  <2>2. Available(ring[d]) = 0
    BY <2>1, MarkType, NewRingIsEmpty
  <2>3. Contents(ring[d]) \in Seq(InputEvent) /\ Len(Contents(ring[d])) = 0
    BY <1>1, <2>2, QueueType, ContentsType
  <2> QED BY <2>1, <2>3 DEF Queue
<1>3. ASSUME NEW d \in Driver, NEW p \in PartsOf[d]
      PROVE  StreamOf(d, p) /\ Pending(p) = FALSE
  <2>1. sent[p] = 0 /\ mPendingEvents[p] = 0 /\ taken[p] = 0 /\ given[p] = 0
    BY <1>1, PartFacts DEF Init
  <2>2. Pending(p) = FALSE
    BY <2>1 DEF Pending
  <2>3. Valued(<<>>, p, FALSE)
    BY DEF Valued
  <2> QED BY <1>2, <2>1, <2>2, <2>3, OrderEmpty DEF StreamOf
<1>4. Compass \in Driver /\ mPendingMask = {}
  BY SensorsAssumption DEF Init
<1>5. \A d \in Driver : OwnParts(Queue(d), d)
  BY <1>2 DEF OwnParts
<1> QED BY <1>3, <1>4, <1>5 DEF StreamInv

\* Steps that add no event, parse none and hand none over.
LEMMA StreamLeftAlone ==
  ASSUME StreamInv, UNCHANGED <<sent, taken, given, mPendingEvents, mPendingMask>>,
         \A d \in Driver : Queue(d)' = Queue(d)
  PROVE  StreamInv'
<1>1. \A p : Pending(p)' = Pending(p)
  BY DEF Pending
<1>2. \A d \in Driver : \A p \in PartsOf[d] : StreamOf(d, p)'
  BY <1>1 DEF StreamInv, StreamOf
<1>3. \A d \in Driver : OwnParts(Queue(d)', d)
  BY DEF StreamInv
<1>4. mPendingMask' = {p \in PartsOf[Compass] : Pending(p)'}
  BY <1>1 DEF StreamInv
<1> QED BY <1>2, <1>3, <1>4 DEF StreamInv

\* The kernel reports samples of its devices.
LEMMA StreamReported ==
  ASSUME TypeOK, StreamInv, NEW d \in Driver, NEW report \in Reports[d], Report(d, report)
  PROVE  StreamInv'
<1>1. /\ \A o \in PartsIn(report) : sent[o] < MaxSamples[o]
      /\ kernel' = [kernel EXCEPT ![d] =
                      @ \o [k \in DOMAIN report |-> Entry(report[k])] \o <<Mark("syn")>>]
      /\ sent' = [p \in Part |-> IF p \in PartsIn(report) THEN sent[p] + 1 ELSE sent[p]]
      /\ UNCHANGED <<ring, taken, given, mPendingEvents, mPendingMask>>
  BY DEF Report, sampleVars
<1>2. Added(report) \in Seq(InputEvent) /\ report \in Seq(PartsOf[d] \cup {Other})
      /\ PartsOf[d] \subseteq Part
      /\ Len(Added(report)) = Len(report) + 1
      /\ \A k \in 1 .. Len(report) : Added(report)[k] = Entry(report[k])
      /\ Added(report)[Len(report) + 1] = Mark("syn")
  BY <1>1, AddedType
<1>3. \A e \in Driver : e # d => Queue(e)' = Queue(e)
  <2> SUFFICES ASSUME NEW e \in Driver, e # d PROVE Queue(e)' = Queue(e)
    OBVIOUS
  <2>1. kernel'[e] = kernel[e] /\ ring'[e] = ring[e]
    BY <1>1 DEF TypeOK
  <2> QED BY <2>1 DEF Queue
<1>4. Queue(d)' = Queue(d) \o Added(report)
  <2> DEFINE s == [k \in DOMAIN report |-> Entry(report[k])]
             y == <<Mark("syn")>>
  <2>1. kernel'[d] = (kernel[d] \o s) \o y
    BY <1>1 DEF TypeOK
  <2>2. s \in Seq(InputEvent) /\ y \in Seq(InputEvent)
    <3>1. \A k \in 1 .. Len(report) : Entry(report[k]) \in InputEvent
      <4> SUFFICES ASSUME NEW k \in 1 .. Len(report) PROVE Entry(report[k]) \in InputEvent
        OBVIOUS
      <4>1. k \in 1 .. Len(Added(report)) /\ Added(report)[k] = Entry(report[k])
        BY <1>2
      <4> QED BY <1>2, <4>1
    <3> QED BY <1>2, <3>1, MarkType
  <2>3. Contents(ring[d]) \in Seq(InputEvent) /\ kernel[d] \in Seq(InputEvent)
    BY QueueType
  <2> HIDE DEF s, y
  <2>4. (kernel[d] \o s) \o y = kernel[d] \o (s \o y) /\ s \o y \in Seq(InputEvent)
    <3>1. (kernel[d] \o s) \o y = kernel[d] \o (s \o y)
      BY <2>2, <2>3, EventsAssociate
    <3>2. s \o y \in Seq(InputEvent)
      BY <2>2, EventsConcat
    <3> QED BY <3>1, <3>2
  <2>5. Contents(ring[d]) \o (kernel[d] \o (s \o y)) = (Contents(ring[d]) \o kernel[d]) \o (s \o y)
    BY <2>3, <2>4, EventsAssociate
  <2> QED BY <1>1, <2>1, <2>4, <2>5 DEF Queue, Added, s, y
<1>5. ASSUME NEW e \in Driver, NEW p \in PartsOf[e]
      PROVE  StreamOf(e, p)'
  <2>1. /\ StreamOf(e, p) /\ Pending(p)' = Pending(p)
        /\ p \in Part /\ sent'[p] = IF p \in PartsIn(report) THEN sent[p] + 1 ELSE sent[p]
    BY <1>1, PartFacts DEF StreamInv, Pending
  <2>2. CASE e = d
    <3>1. InOrder(Queue(d), p, sent[p], mPendingEvents[p], Pending(p)) /\ Queue(d) \in Seq(InputEvent)
      BY <2>1, <2>2, QueueType DEF StreamOf
    <3>2. InOrder(Queue(d) \o Added(report), p, sent'[p], mPendingEvents[p], Pending(p))
      BY <1>1, <2>1, <2>2, <3>1, OrderAppends
    <3>3. d # Compass /\ p \notin Shared => p \in PartsIn(report)
      BY <2>1, <2>2 DEF Shared, Plain
    <3>4. d # Compass /\ p \notin Shared => Valued(Queue(d) \o Added(report), p, Pending(p))
      BY <1>1, <2>1, <2>2, <3>1, <3>3, ValuedAppends DEF StreamOf
    <3> QED BY <1>1, <1>4, <2>1, <2>2, <3>2, <3>4 DEF StreamOf
  <2>3. CASE e # d
    <3>1. p \notin PartsIn(report)
      BY <1>2, <2>3, PartFacts, SensorsAssumption DEF PartsIn
    <3> QED BY <1>1, <1>3, <2>1, <2>3, <3>1 DEF StreamOf
  <2> QED BY <2>2, <2>3
<1>6. ASSUME NEW e \in Driver
      PROVE  OwnParts(Queue(e)', e)
  <2>1. OwnParts(Queue(e), e)
    BY DEF StreamInv
  <2>2. CASE e = d
    <3> SUFFICES ASSUME NEW k \in 1 .. Len(Queue(d) \o Added(report)),
                        (Queue(d) \o Added(report))[k].type = "abs"
                 PROVE  (Queue(d) \o Added(report))[k].part \in PartsOf[d]
      BY <1>4, <2>2 DEF OwnParts
    <3>1. /\ Queue(d) \in Seq(InputEvent) /\ Len(Queue(d)) \in Nat
          /\ Len(Queue(d) \o Added(report)) = Len(Queue(d)) + Len(report) + 1
          /\ (Queue(d) \o Added(report))[k] =
                IF k <= Len(Queue(d)) THEN Queue(d)[k] ELSE Added(report)[k - Len(Queue(d))]
          /\ Len(report) \in Nat
      <4>1. /\ Queue(d) \in Seq(InputEvent) /\ Added(report) \in Seq(InputEvent)
            /\ Len(report) \in Nat /\ Len(Added(report)) = Len(report) + 1
        BY <1>2, QueueType
      <4>2. /\ Len(Queue(d)) \in Nat
            /\ Len(Queue(d) \o Added(report)) = Len(Queue(d)) + Len(Added(report))
            /\ \A j \in 1 .. Len(Queue(d)) + Len(Added(report)) :
                 (Queue(d) \o Added(report))[j] =
                   IF j <= Len(Queue(d)) THEN Queue(d)[j] ELSE Added(report)[j - Len(Queue(d))]
        BY <4>1, EventsConcat
      <4>3. Len(Queue(d) \o Added(report)) = Len(Queue(d)) + Len(report) + 1
        BY <4>1, <4>2
      <4>4. k \in 1 .. Len(Queue(d)) + Len(Added(report))
        BY <4>2
      <4> QED BY <4>1, <4>2, <4>3, <4>4
    <3>2. CASE k <= Len(Queue(d))
      BY <2>1, <2>2, <3>1, <3>2 DEF OwnParts
    <3>3. CASE ~(k <= Len(Queue(d)))
      <4> DEFINE i == k - Len(Queue(d))
      <4>1. i \in 1 .. Len(report) + 1 /\ Added(report)[i].type = "abs"
        BY <3>1, <3>3
      <4> HIDE DEF i
      <4>2. i \in 1 .. Len(report)
        <5>1. Added(report)[Len(report) + 1].type = "syn"
          <6>1. Added(report)[Len(report) + 1] = Mark("syn")
            BY <1>1, AddedType
          <6>2. Mark("syn").type = "syn"
            BY DEF Mark
          <6> QED BY <6>1, <6>2
        <5>2. i # Len(report) + 1
          <6> SUFFICES ASSUME i = Len(report) + 1 PROVE FALSE
            OBVIOUS
          <6>1. Added(report)[i].type = "syn"
            BY <5>1
          <6> QED BY <4>1, <6>1
        <5>3. Len(report) \in Nat
          BY <1>2
        <5> QED BY <4>1, <5>2, <5>3
      <4>3. Added(report)[i] = Entry(report[i]) /\ report[i] \in PartsOf[d] \cup {Other}
        BY <1>2, <4>2
      <4>4. report[i] # Other
        BY <4>1, <4>3 DEF Entry, Mark
      <4>5. Added(report)[i].part \in PartsOf[d]
        BY <4>3, <4>4 DEF Entry, Abs
      <4> QED BY <3>1, <3>3, <4>5 DEF i
    <3> QED BY <3>2, <3>3
  <2>3. CASE e # d
    BY <1>3, <2>1, <2>3
  <2> QED BY <2>2, <2>3
<1>7. mPendingMask' = {p \in PartsOf[Compass] : Pending(p)'}
  BY <1>1 DEF StreamInv, Pending
<1> QED BY <1>5, <1>6, <1>7 DEF StreamInv

\* The event that is parsed next is the first of its driver's queue.
LEMMA HeadFacts ==
  ASSUME TypeOK, StreamInv, Available(ring[at]) > 0
  PROVE  /\ at \in Driver /\ Queue(at) \in Seq(InputEvent) /\ Queue(at) # <<>>
         /\ Queue(at)[1] = Event1 /\ Event1 \in InputEvent
         /\ Event1.type = "abs" => Event1.part \in PartsOf[at]
<1>1. at \in Driver
  BY DEF TypeOK
<1>2. Queue(at) \in Seq(InputEvent) /\ Queue(at) # <<>> /\ Queue(at)[1] = Event1
  BY <1>1, QueueType, QueueAdvances DEF Event1
<1>3. 1 \in 1 .. Len(Queue(at))
  BY <1>2
<1>4. Event1 \in InputEvent
  BY <1>2, <1>3
<1>5. OwnParts(Queue(at), at)
  BY <1>1 DEF StreamInv
<1> QED BY <1>1, <1>2, <1>3, <1>4, <1>5 DEF OwnParts

\* next() leaves the rest of the one queue, and the others alone.
LEMMA QueuesMove ==
  ASSUME TypeOK, Available(ring[at]) > 0, NextEvent, UNCHANGED kernelVars
  PROVE  \A d \in Driver : Queue(d)' = IF d = at THEN Tail(Queue(d)) ELSE Queue(d)
<1> SUFFICES ASSUME NEW d \in Driver
             PROVE  Queue(d)' = IF d = at THEN Tail(Queue(d)) ELSE Queue(d)
  OBVIOUS
<1>1. /\ at \in Driver /\ ring \in [Driver -> Ring] /\ kernel' = kernel
      /\ ring' = [ring EXCEPT ![at] = Advanced(@)]
  BY DEF TypeOK, NextEvent, kernelVars
<1>2. ring'[d] = IF d = at THEN Advanced(ring[d]) ELSE ring[d]
  BY <1>1
<1>3. Queue(d)' = Contents(ring'[d]) \o kernel[d] /\ Queue(d) = Contents(ring[d]) \o kernel[d]
  BY <1>1 DEF Queue
<1>4. d = at => Contents(Advanced(ring[d])) \o kernel[d] = Tail(Queue(d))
  BY QueueAdvances
<1> QED BY <1>2, <1>3, <1>4

\* What parsing an event has to do for a sensor of the device it is from.
PartParsed(p) ==
  /\ IF IsValue(Event1, p)
     THEN mPendingEvents'[p] = Event1.value /\ taken'[p] = taken[p]
     ELSE /\ mPendingEvents'[p] = mPendingEvents[p]
          /\ taken'[p] = IF Event1.type = "syn" THEN mPendingEvents[p] ELSE taken[p]

\* A value becomes the next to take, and the SYN after it takes it.
LEMMA StreamParsed ==
  ASSUME TypeOK, StreamInv, Available(ring[at]) > 0, NextEvent, UNCHANGED kernelVars,
         NEW d \in Driver, d = at, NEW p \in PartsOf[d], PartParsed(p)
  PROVE  StreamOf(d, p)'
<1> DEFINE q == Queue(d)
           n == sent[p]
           last == mPendingEvents[p]
<1>1. /\ q \in Seq(InputEvent) /\ q # <<>> /\ q[1] = Event1
      /\ Queue(d)' = Tail(q)
  BY HeadFacts, QueuesMove
<1>2. p \in Part /\ n \in Nat /\ taken[p] \in Nat /\ last \in Nat /\ sent'[p] = n
  BY <1>1, PartFacts DEF kernelVars
<1>3. /\ InOrder(q, p, n, last, Pending(p)) /\ (Pending(p) => last = taken[p] + 1)
  BY DEF StreamInv, StreamOf
<1> HIDE DEF q, n, last
<1>4. IF IsValue(Event1, p)
      THEN ~Pending(p) /\ Event1.value = last + 1 /\ InOrder(Tail(q), p, n, last + 1, TRUE)
      ELSE InOrder(Tail(q), p, n, last, Pending(p) /\ Event1.type # "syn")
  <2>1. IF IsValue(q[1], p)
        THEN ~Pending(p) /\ q[1].value = last + 1 /\ InOrder(Tail(q), p, n, last + 1, TRUE)
        ELSE InOrder(Tail(q), p, n, last, Pending(p) /\ q[1].type # "syn")
    BY <1>1, <1>2, <1>3, OrderPops
  <2> QED BY <1>1, <2>1
<1>5. /\ InOrder(Tail(q), p, n, mPendingEvents'[p], Pending(p)')
      /\ Pending(p)' => mPendingEvents'[p] = taken'[p] + 1
  <2>1. CASE IsValue(Event1, p)
    <3>1. taken[p] = last
      BY <1>4, <2>1 DEF Pending, last
    <3>2. mPendingEvents'[p] = last + 1 /\ taken'[p] = last
      BY <1>4, <2>1, <3>1 DEF PartParsed
    <3>3. Pending(p)' = TRUE
      BY <1>2, <3>2 DEF Pending
    <3> QED BY <1>4, <2>1, <3>2, <3>3
  <2>2. CASE ~IsValue(Event1, p)
    <3>1. /\ mPendingEvents'[p] = last
          /\ taken'[p] = IF Event1.type = "syn" THEN last ELSE taken[p]
      BY <2>2 DEF PartParsed, last
    <3>2. Pending(p)' = (Pending(p) /\ Event1.type # "syn")
      BY <3>1 DEF Pending, last
    <3>3. Pending(p)' => taken'[p] = taken[p] /\ Pending(p)
      BY <3>1, <3>2
    <3> QED BY <1>3, <1>4, <2>2, <3>1, <3>2, <3>3
  <2> QED BY <2>1, <2>2
<1>6. d # Compass /\ p \notin Shared => Valued(Tail(q), p, Pending(p)')
  <2> SUFFICES ASSUME d # Compass, p \notin Shared PROVE Valued(Tail(q), p, Pending(p)')
    OBVIOUS
  <2>1. Pending(p) \in BOOLEAN /\ Valued(q, p, Pending(p))
    BY DEF StreamInv, StreamOf, Pending, q
  <2>2. Valued(Tail(q), p, IsValue(Event1, p) \/ (Pending(p) /\ Event1.type # "syn"))
    BY <1>1, <2>1, ValuedPops
  <2>3. Pending(p)' = (IsValue(Event1, p) \/ (Pending(p) /\ Event1.type # "syn"))
    <3>1. CASE IsValue(Event1, p)
      BY <1>2, <1>4, <3>1 DEF PartParsed, Pending, last
    <3>2. CASE ~IsValue(Event1, p)
      BY <3>2 DEF PartParsed, Pending
    <3> QED BY <3>1, <3>2
  <2> QED BY <2>2, <2>3
<1>7. StreamOf(d, p)' = (/\ InOrder(Tail(q), p, n, mPendingEvents'[p], Pending(p)')
                         /\ Pending(p)' => mPendingEvents'[p] = taken'[p] + 1
                         /\ d # Compass /\ p \notin Shared => Valued(Tail(q), p, Pending(p)'))
  BY <1>1, <1>2 DEF StreamOf
<1> QED BY <1>5, <1>6, <1>7

\* A value that is parsed is the next one of a sensor with none to take.
LEMMA NextValue ==
  ASSUME TypeOK, StreamInv, Available(ring[at]) > 0, Event1.type = "abs"
  PROVE  /\ Event1.part \in PartsOf[at] /\ ~Pending(Event1.part)
         /\ Event1.value = mPendingEvents[Event1.part] + 1
<1> DEFINE p == Event1.part
           q == Queue(at)
<1>1. /\ at \in Driver /\ p \in PartsOf[at] /\ q \in Seq(InputEvent) /\ q # <<>> /\ q[1] = Event1
  BY HeadFacts
<1>2. sent[p] \in Nat /\ InOrder(q, p, sent[p], mPendingEvents[p], Pending(p))
  BY <1>1, PartFacts DEF StreamInv, StreamOf
<1>3. IsValue(q[1], p)
  BY <1>1 DEF IsValue
<1> HIDE DEF p, q
<1>4. ~Pending(p) /\ q[1].value = mPendingEvents[p] + 1
  BY <1>1, <1>2, <1>3, OrderPops
<1> QED BY <1>1, <1>4 DEF p

\* Parsing an event, if it does what it has to for all sensors.
LEMMA StreamAdvances ==
  ASSUME TypeOK, StreamInv, Available(ring[at]) > 0, NextEvent, UNCHANGED kernelVars,
         \A d \in Driver : \A p \in PartsOf[d] :
           IF d = at THEN PartParsed(p)
           ELSE /\ taken'[p] = taken[p] /\ given'[p] = given[p]
                /\ mPendingEvents'[p] = mPendingEvents[p],
         mPendingMask' = {p \in PartsOf[Compass] : Pending(p)'}
  PROVE  StreamInv'
<1>1. ASSUME NEW d \in Driver, NEW p \in PartsOf[d]
      PROVE  StreamOf(d, p)'
  <2>1. CASE d = at
    BY <2>1, StreamParsed
  <2>2. CASE d # at
    <3>1. /\ taken'[p] = taken[p] /\ given'[p] = given[p] /\ sent'[p] = sent[p]
          /\ mPendingEvents'[p] = mPendingEvents[p] /\ Queue(d)' = Queue(d)
      BY <2>2, QueuesMove DEF kernelVars
    <3>2. Pending(p)' = Pending(p)
      BY <3>1 DEF Pending
    <3> QED BY <3>1, <3>2 DEF StreamInv, StreamOf
  <2> QED BY <2>1, <2>2
<1>2. ASSUME NEW d \in Driver
      PROVE  OwnParts(Queue(d)', d)
  <2>1. OwnParts(Queue(d), d)
    BY DEF StreamInv
  <2>2. CASE d = at
    <3>1. Queue(d)' = Tail(Queue(d)) /\ Queue(d) \in Seq(InputEvent) /\ Queue(d) # <<>>
      BY <2>2, QueuesMove, HeadFacts
    <3>2. \A k \in 1 .. Len(Tail(Queue(d))) :
            Tail(Queue(d))[k] = Queue(d)[k + 1] /\ k + 1 \in 1 .. Len(Queue(d))
      BY <3>1
    <3> QED BY <2>1, <3>1, <3>2 DEF OwnParts
  <2>3. CASE d # at
    BY <2>1, <2>3, QueuesMove
  <2> QED BY <2>2, <2>3
<1> QED BY <1>1, <1>2 DEF StreamInv

\* A value: it is now the next to take of its sensor.
LEMMA StreamOfValue ==
  ASSUME TypeOK, StreamInv, ParseValue
  PROVE  StreamInv'
<1> DEFINE o == Event1.part
<1>1. /\ Available(ring[at]) > 0 /\ Event1.type = "abs" /\ NextEvent /\ UNCHANGED kernelVars
      /\ mPendingEvents' = [mPendingEvents EXCEPT ![o] = Event1.value]
      /\ mPendingMask' = IF at = Compass THEN mPendingMask \cup {o} ELSE mPendingMask
      /\ taken' = taken /\ given' = given
  BY DEF ParseValue, Parses, parseFrame, pollFrame
<1>2. o \in PartsOf[at] /\ ~Pending(o) /\ Event1.value = mPendingEvents[o] + 1 /\ at \in Driver
  BY <1>1, NextValue, HeadFacts
<1> HIDE DEF o
<1>3. ASSUME NEW d \in Driver, NEW p \in PartsOf[d]
      PROVE  /\ mPendingEvents'[p] = IF p = o THEN Event1.value ELSE mPendingEvents[p]
             /\ p = o => d = at
             /\ IsValue(Event1, p) <=> p = o
  <2>1. p \in Part /\ (p = o => d = at)
    BY <1>2, <1>3, PartFacts
  <2> QED BY <1>1, <2>1 DEF TypeOK, IsValue, o
<1>4. ASSUME NEW d \in Driver, NEW p \in PartsOf[d]
      PROVE  IF d = at THEN PartParsed(p)
             ELSE /\ taken'[p] = taken[p] /\ given'[p] = given[p]
                  /\ mPendingEvents'[p] = mPendingEvents[p]
  BY <1>1, <1>3, <1>4 DEF PartParsed
<1>5. ASSUME NEW d \in Driver, NEW p \in PartsOf[d]
      PROVE  Pending(p)' <=> Pending(p) \/ p = o
  <2>1. CASE p = o
    <3>1. taken[p] = mPendingEvents[p] /\ mPendingEvents[p] \in Nat
      BY <1>2, <1>5, <2>1, PartFacts DEF Pending
    <3>2. mPendingEvents'[p] = mPendingEvents[p] + 1
      BY <1>2, <1>3, <1>5, <2>1
    <3> QED BY <1>1, <2>1, <3>1, <3>2 DEF Pending
  <2>2. CASE p # o
    BY <1>1, <1>3, <1>5, <2>2 DEF Pending
  <2> QED BY <2>1, <2>2
<1>6. mPendingMask' = {p \in PartsOf[Compass] : Pending(p)'}
  <2>1. Compass \in Driver /\ mPendingMask = {p \in PartsOf[Compass] : Pending(p)}
    BY SensorsAssumption DEF StreamInv
  <2>2. \A p \in PartsOf[Compass] : (Pending(p)' <=> Pending(p) \/ p = o) /\ (p = o => Compass = at)
    BY <1>3, <1>5, <2>1
  <2>3. CASE at = Compass
    BY <1>1, <1>2, <2>1, <2>2, <2>3
  <2>4. CASE at # Compass
    BY <1>1, <2>1, <2>2, <2>4
  <2> QED BY <2>3, <2>4
<1> QED BY <1>1, <1>4, <1>6, StreamAdvances

\* An event of another kind.
LEMMA StreamOfOther ==
  ASSUME TypeOK, StreamInv, ParseOther
  PROVE  StreamInv'
<1>1. /\ Available(ring[at]) > 0 /\ Event1.type = "other" /\ NextEvent /\ UNCHANGED kernelVars
      /\ UNCHANGED <<mPendingEvents, mPendingMask, taken, given>>
  BY DEF ParseOther, Parses, parseFrame, pollFrame, sampleVars
<1>2. ASSUME NEW d \in Driver, NEW p \in PartsOf[d]
      PROVE  IF d = at THEN PartParsed(p)
             ELSE /\ taken'[p] = taken[p] /\ given'[p] = given[p]
                  /\ mPendingEvents'[p] = mPendingEvents[p]
  BY <1>1, <1>2 DEF PartParsed, IsValue
<1>3. mPendingMask' = {p \in PartsOf[Compass] : Pending(p)'}
  BY <1>1 DEF StreamInv, Pending
<1> QED BY <1>1, <1>2, <1>3, StreamAdvances

\* SYN of a device with one sensor: its value is taken, and handed over.
LEMMA StreamOfPlainSyn ==
  ASSUME TypeOK, StreamInv, ParsePlainSyn
  PROVE  StreamInv'
<1>1. PICK o \in PartsOf[at] : Hand(o, TRUE)
  BY DEF ParsePlainSyn
<1>2. /\ Available(ring[at]) > 0 /\ Event1.type = "syn" /\ NextEvent /\ UNCHANGED kernelVars
      /\ at # Compass /\ at \in Driver /\ PartsOf[at] = {o}
      /\ mPendingMask' = mPendingMask /\ mPendingEvents' = mPendingEvents
  <2>1. at # Compass /\ at \in Driver
    BY DEF ParsePlainSyn, TypeOK
  <2>2. \E p \in Part : PartsOf[at] = {p}
    BY <2>1, SensorsAssumption DEF Plain
  <2>3. PartsOf[at] = {o}
    BY <1>1, <2>2
  <2> QED BY <1>1, <2>1, <2>3 DEF ParsePlainSyn, Parses, parseFrame, pollFrame, Hand
<1>3. ASSUME NEW d \in Driver, NEW p \in PartsOf[d]
      PROVE  /\ p = o <=> d = at
             /\ taken'[p] = IF p = o THEN mPendingEvents[p] ELSE taken[p]
             /\ given'[p] = IF p = o THEN given[p] + 1 ELSE given[p]
  <2>1. p \in Part /\ (p = o <=> d = at)
    BY <1>2, <1>3, PartFacts
  <2> QED BY <1>1, <2>1 DEF TypeOK, Hand
<1>4. ASSUME NEW d \in Driver, NEW p \in PartsOf[d]
      PROVE  IF d = at THEN PartParsed(p)
             ELSE /\ taken'[p] = taken[p] /\ given'[p] = given[p]
                  /\ mPendingEvents'[p] = mPendingEvents[p]
  BY <1>2, <1>3, <1>4 DEF PartParsed, IsValue
<1>5. mPendingMask' = {p \in PartsOf[Compass] : Pending(p)'}
  <2>1. Compass \in Driver /\ mPendingMask = {p \in PartsOf[Compass] : Pending(p)}
    BY SensorsAssumption DEF StreamInv
  <2>2. \A p \in PartsOf[Compass] : Pending(p)' <=> Pending(p)
    BY <1>2, <1>3, <2>1 DEF Pending
  <2> QED BY <1>2, <2>1, <2>2
<1> QED BY <1>2, <1>4, <1>5, StreamAdvances

\* SYN of AK8973 ends, at once or one by one, what is pending of its sensors.
LEMMA StreamOfCompassSyn ==
  ASSUME TypeOK, StreamInv, ParseCompassSyn
  PROVE  StreamInv'
<1>1. /\ Available(ring[at]) > 0 /\ Event1.type = "syn" /\ UNCHANGED kernelVars
      /\ at = Compass /\ Compass \in Driver /\ mPendingEvents' = mPendingEvents
      /\ IF mPendingMask' = {} THEN NextEvent ELSE ring' = ring
  BY SensorsAssumption DEF ParseCompassSyn, SynDone, Parses, parseFrame, pollFrame, Hand, sampleVars
<1>2. mPendingMask = {p \in PartsOf[Compass] : Pending(p)}
  BY DEF StreamInv
<1>3. CASE mPendingMask = {}
  <2>1. mPendingMask' = mPendingMask /\ taken' = taken /\ given' = given /\ NextEvent
    BY <1>1, <1>3 DEF ParseCompassSyn, sampleVars
  <2>2. ASSUME NEW d \in Driver, NEW p \in PartsOf[d]
        PROVE  IF d = at THEN PartParsed(p)
               ELSE /\ taken'[p] = taken[p] /\ given'[p] = given[p]
                    /\ mPendingEvents'[p] = mPendingEvents[p]
    <3>1. d = at => taken[p] = mPendingEvents[p]
      BY <1>1, <1>2, <1>3, <2>2 DEF Pending
    <3> QED BY <1>1, <2>1, <3>1 DEF PartParsed, IsValue
  <2>3. mPendingMask' = {p \in PartsOf[Compass] : Pending(p)'}
    BY <1>1, <1>2, <2>1 DEF Pending
  <2> QED BY <1>1, <2>1, <2>2, <2>3, StreamAdvances
<1>4. CASE mPendingMask # {}
  <2>1. PICK o \in mPendingMask : mPendingMask' = mPendingMask \ {o} /\ Hand(o, o \in mEnabled)
    BY <1>4 DEF ParseCompassSyn
  <2>2. o \in PartsOf[Compass] /\ Pending(o)
    BY <1>2, <2>1
  <2>3. ASSUME NEW d \in Driver, NEW p \in PartsOf[d]
        PROVE  /\ taken'[p] = IF p = o THEN mPendingEvents[p] ELSE taken[p]
               /\ p # o => given'[p] = given[p]
               /\ p = o => d = Compass
    <3>1. p \in Part /\ (p = o => d = Compass)
      BY <1>1, <2>2, <2>3, PartFacts
    <3> QED BY <2>1, <3>1 DEF TypeOK, Hand
  <2>4. ASSUME NEW d \in Driver, NEW p \in PartsOf[d]
        PROVE  Pending(p)' <=> Pending(p) /\ p # o
    BY <1>1, <2>3, <2>4 DEF Pending
  <2>5. mPendingMask' = {p \in PartsOf[Compass] : Pending(p)'}
    BY <1>1, <1>2, <2>1, <2>4
  <2>6. CASE mPendingMask' = {}
    <3>1. ASSUME NEW d \in Driver, NEW p \in PartsOf[d]
          PROVE  IF d = at THEN PartParsed(p)
                 ELSE /\ taken'[p] = taken[p] /\ given'[p] = given[p]
                      /\ mPendingEvents'[p] = mPendingEvents[p]
      <4>1. d = at => p = o \/ taken[p] = mPendingEvents[p]
        BY <1>1, <1>2, <2>1, <2>6, <3>1 DEF Pending
      <4> QED BY <1>1, <2>3, <3>1, <4>1 DEF PartParsed, IsValue
    <3> QED BY <1>1, <2>5, <2>6, <3>1, StreamAdvances
  <2>7. CASE mPendingMask' # {}
    <3>1. \A d \in Driver : Queue(d)' = Queue(d)
      BY <1>1, <2>7 DEF Queue, kernelVars
    <3>2. ASSUME NEW d \in Driver, NEW p \in PartsOf[d]
          PROVE  StreamOf(d, p)'
      <4>1. StreamOf(d, p) /\ mPendingEvents'[p] = mPendingEvents[p] /\ sent'[p] = sent[p]
        BY <1>1, <3>2 DEF StreamInv, kernelVars
      <4>2. CASE p = o
        <5>1. /\ d = at /\ d = Compass /\ sent[p] \in Nat /\ Pending(p)' = FALSE
          BY <1>1, <2>3, <2>4, <3>2, <4>2, PartFacts DEF Pending
        <5>2. Queue(d) \in Seq(InputEvent) /\ Queue(d) # <<>> /\ Queue(d)[1].type = "syn"
          BY <1>1, <5>1, HeadFacts
        <5>3. InOrder(Queue(d), p, sent[p], mPendingEvents[p], Pending(p))
          BY <4>1 DEF StreamOf
        <5>4. InOrder(Queue(d), p, sent[p], mPendingEvents[p], FALSE)
          BY <5>1, <5>2, <5>3, OrderSettles
        <5> QED BY <3>1, <4>1, <5>1, <5>4 DEF StreamOf
      <4>3. CASE p # o
        <5>1. Pending(p)' = Pending(p) /\ taken'[p] = taken[p] /\ given'[p] = given[p]
          BY <1>1, <2>3, <3>2, <4>3 DEF Pending
        <5> QED BY <3>1, <4>1, <5>1 DEF StreamOf
      <4> QED BY <4>2, <4>3
    <3>3. \A d \in Driver : OwnParts(Queue(d)', d)
      BY <3>1 DEF StreamInv
    <3> QED BY <2>5, <3>2, <3>3 DEF StreamInv
  <2> QED BY <2>6, <2>7
<1> QED BY <1>3, <1>4

\* Every step keeps the stream.
LEMMA StreamStep == TypeOK /\ StreamInv /\ [Next]_vars => StreamInv'
<1> SUFFICES ASSUME TypeOK, StreamInv, [Next]_vars PROVE StreamInv'
  OBVIOUS
<1>1. CASE \E d \in Driver : \E report \in Reports[d] : Report(d, report)
  BY <1>1, StreamReported
<1>2. CASE Fill
  <2>1. UNCHANGED <<sent, taken, given, mPendingEvents, mPendingMask>>
    BY <1>2 DEF Fill, sampleVars
  <2> QED BY <1>2, <2>1, QueueFills, StreamLeftAlone
<1>3. CASE ParseValue \/ ParseOther \/ ParsePlainSyn \/ ParseCompassSyn
  BY <1>3, StreamOfValue, StreamOfOther, StreamOfPlainSyn, StreamOfCompassSyn
<1>4. ASSUME UNCHANGED <<kernel, sent, ring, taken, given, mPendingEvents, mPendingMask>>
      PROVE  StreamInv'
  <2>1. \A d \in Driver : Queue(d)' = Queue(d)
    BY <1>4 DEF Queue
  <2> QED BY <1>4, <2>1, StreamLeftAlone
<1>5. CASE \/ \E p \in Part, on \in BOOLEAN : Activate(p, on)
           \/ WriteWake \/ \E c \in Counts : Call(c)
  BY <1>4, <1>5 DEF Activate, WriteWake, Call, pollFrame, kernelVars, sampleVars
<1>6. CASE Scan \/ GivePending \/ FillFails \/ ParseEnd \/ Poll \/ PollFails
  BY <1>4, <1>6 DEF Scan, GivePending, FillFails, ParseEnd, Poll, PollFails, pollFrame,
     kernelVars, sampleVars
<1>7. CASE UNCHANGED vars
  BY <1>4, <1>7 DEF vars, kernelVars, sampleVars
<1> QED BY <1>1, <1>2, <1>3, <1>5, <1>6, <1>7 DEF Next

\* The queue of a driver, the pending values and what was taken belong
\* together at all times.
LEMMA StreamInvariant == Spec => []StreamInv
<1>1. TypeOK /\ StreamInv /\ [Next]_vars => StreamInv'
  BY StreamStep
<1> QED BY <1>1, InitStream, TypeCorrect, PTL DEF Spec

\* A pending event that is over is the next sample of its sensor, taken; it is
\* put into the array if keep says so.  A shared sensor's may be the last one.
LEMMA HandTakes ==
  ASSUME TypeOK, StreamInv, NEW d \in Driver, NEW p \in PartsOf[d], NEW keep \in BOOLEAN,
         Hand(p, keep), Pending(p) \/ (keep /\ p \in Shared),
         keep <=> p \notin PartsOf[Compass] \ mEnabled,
         UNCHANGED <<sent, mEnabled>>
  PROVE  Stream!Take(p) \/ Stream!Again(p)
<1>1. /\ StreamOf(d, p) /\ p \in Part /\ sent[p] \in Nat /\ taken[p] \in Nat
      /\ taken \in [Part -> Sample] /\ given \in [Part -> Nat]
  BY PartFacts DEF StreamInv, TypeOK
<1>2. /\ taken' = [taken EXCEPT ![p] = mPendingEvents[p]]
      /\ given' = [given EXCEPT ![p] = IF keep THEN @ + 1 ELSE @]
  BY DEF Hand
<1>3. CASE Pending(p)
  <2>1. mPendingEvents[p] = taken[p] + 1
    BY <1>1, <1>3 DEF StreamOf
  <2>2. mPendingEvents[p] \in 0 .. sent[p]
    BY <1>1, QueueType, LastIsSent DEF StreamOf
  <2>3. taken[p] < sent[p]
    BY <1>1, <2>1, <2>2
  <2>4. taken' = [taken EXCEPT ![p] = @ + 1]
    BY <1>2, <2>1
  <2>5. given' = [given EXCEPT ![p] = IF p \in PartsOf[Compass] \ mEnabled THEN @ ELSE @ + 1]
    BY <1>2
  <2> QED BY <2>3, <2>4, <2>5 DEF Stream!Take
<1>4. CASE ~Pending(p)
  <2>1. keep /\ p \in Shared /\ taken[p] = mPendingEvents[p]
    BY <1>4 DEF Pending
  <2>2. taken' = taken /\ given' = [given EXCEPT ![p] = @ + 1]
    BY <1>1, <1>2, <2>1
  <2> QED BY <2>1, <2>2 DEF Stream!Again
<1> QED BY <1>3, <1>4

\* Every step takes the next sample of a sensor, puts a shared one's into the
\* array again, adds samples, mutes or unmutes sensors of AK8973, or does
\* nothing that SensorStream sees.
LEMMA StreamSimulates ==
  ASSUME TypeOK, StreamInv, [Next]_vars
  PROVE  [Stream!Next]_<<sent, taken, given, PartsOf[Compass] \ mEnabled>>
<1>1. ASSUME UNCHANGED <<sent, taken, given, mEnabled>>
      PROVE  UNCHANGED <<sent, taken, given, PartsOf[Compass] \ mEnabled>>
  BY <1>1
<1>2. CASE \E d \in Driver : \E report \in Reports[d] : Report(d, report)
  <2>1. PICK d \in Driver : \E report \in Reports[d] : Report(d, report)
    BY <1>2
  <2> PICK report \in Reports[d] : Report(d, report)
    BY <2>1
  <2>2. /\ PartsIn(report) \in SUBSET Part
        /\ sent' = [p \in Part |-> IF p \in PartsIn(report) THEN sent[p] + 1 ELSE sent[p]]
        /\ UNCHANGED <<taken, given, mEnabled>>
    BY DEF Report, sampleVars, compassVars, PartsIn
  <2>3. Stream!Report(PartsIn(report))
    BY <2>2 DEF Stream!Report
  <2> QED BY <2>2, <2>3 DEF Stream!Next
<1>3. CASE \E p \in Part, on \in BOOLEAN : Activate(p, on)
  <2>1. UNCHANGED <<sent, taken, given>>
    BY <1>3 DEF Activate, kernelVars, sampleVars
  <2>2. (PartsOf[Compass] \ mEnabled)' \in SUBSET PartsOf[Compass]
    OBVIOUS
  <2>3. Stream!Mute
    BY <2>1, <2>2 DEF Stream!Mute
  <2> QED BY <2>3 DEF Stream!Next
<1>4. CASE ParsePlainSyn
  <2>1. PICK p \in PartsOf[at] : Hand(p, TRUE)
    BY <1>4 DEF ParsePlainSyn
  <2>2. at \in Driver /\ at # Compass /\ UNCHANGED <<sent, mEnabled>>
    BY <1>4 DEF ParsePlainSyn, parseFrame, pollFrame, kernelVars, TypeOK
  <2>3. p \in Part /\ p \notin PartsOf[Compass] \ mEnabled
    BY <2>2, PartFacts, SensorsAssumption
  <2>4. Pending(p) \/ p \in Shared
    <3> SUFFICES ASSUME p \notin Shared PROVE Pending(p)
      OBVIOUS
    <3>1. Available(ring[at]) > 0 /\ Event1.type = "syn"
      BY <1>4 DEF ParsePlainSyn, Parses
    <3>2. Queue(at) \in Seq(InputEvent) /\ Queue(at) # <<>> /\ Queue(at)[1].type = "syn"
      BY <3>1, HeadFacts
    <3>3. Valued(Queue(at), p, Pending(p)) /\ Pending(p) \in BOOLEAN
      BY <2>1, <2>2 DEF StreamInv, StreamOf, Pending
    <3> QED BY <3>2, <3>3, ValuedPops
  <2>5. Stream!Take(p) \/ Stream!Again(p)
    BY <2>1, <2>2, <2>3, <2>4, HandTakes
  <2> QED BY <2>3, <2>5 DEF Stream!Next
<1>5. CASE ParseCompassSyn
  <2>1. UNCHANGED <<sent, mEnabled>> /\ Compass \in Driver
    BY <1>5, SensorsAssumption DEF ParseCompassSyn, parseFrame, pollFrame, kernelVars
  <2>2. CASE mPendingMask = {}
    BY <1>1, <1>5, <2>1, <2>2 DEF ParseCompassSyn, sampleVars
  <2>3. CASE mPendingMask # {}
    <3>1. PICK p \in mPendingMask : Hand(p, p \in mEnabled)
      BY <1>5, <2>3 DEF ParseCompassSyn
    <3>2. p \in PartsOf[Compass] /\ Pending(p) /\ p \in Part
      BY <2>1, <3>1 DEF StreamInv, TypeOK
    <3>3. Stream!Take(p) \/ Stream!Again(p)
      <4> DEFINE keep == p \in mEnabled
      <4>1. keep \in BOOLEAN /\ (keep <=> p \notin PartsOf[Compass] \ mEnabled)
        BY <3>2
      <4>2. Hand(p, keep)
        BY <3>1
      <4> HIDE DEF keep
      <4> QED BY <2>1, <3>2, <4>1, <4>2, HandTakes
    <3> QED BY <3>2, <3>3 DEF Stream!Next
  <2> QED BY <2>2, <2>3
<1>6. CASE WriteWake \/ \E c \in Counts : Call(c)
  BY <1>1, <1>6 DEF WriteWake, Call, pollFrame, kernelVars, sampleVars, compassVars
<1>7. CASE Scan \/ GivePending \/ Fill \/ FillFails \/ ParseEnd \/ Poll \/ PollFails
  BY <1>1, <1>7 DEF Scan, GivePending, Fill, FillFails, ParseEnd, Poll, PollFails, pollFrame,
     kernelVars, sampleVars, compassVars
<1>8. CASE ParseValue \/ ParseOther
  BY <1>1, <1>8 DEF ParseValue, ParseOther, parseFrame, pollFrame, kernelVars, sampleVars
<1>9. CASE UNCHANGED vars
  BY <1>1, <1>9 DEF vars, kernelVars, sampleVars, compassVars
<1> QED BY <1>2, <1>3, <1>4, <1>5, <1>6, <1>7, <1>8, <1>9 DEF Next

\* However read(), the ring's end and the caller's array cut up the events,
\* every sample is taken once and in order, and then handed over once unless
\* its sensor was disabled (nusensors.cpp:171-184 with the drivers'
\* readEvents()); only those of a shared device may be handed over again.
THEOREM SamplesAreAStream == Spec => ImplementsStream
<1>1. Init => Stream!Init
  <2> SUFFICES ASSUME Init PROVE Stream!Init
    OBVIOUS
  <2>1. PartsOf[Compass] \ mEnabled = PartsOf[Compass]
    BY DEF Init
  <2> QED BY <2>1 DEF Init, Stream!Init
<1>2. TypeOK /\ StreamInv /\ [Next]_vars
        => [Stream!Next]_<<sent, taken, given, PartsOf[Compass] \ mEnabled>>
  BY StreamSimulates
<1> QED BY <1>1, <1>2, TypeCorrect, StreamInvariant, PTL DEF Spec, ImplementsStream, Stream!Spec

-----------------------------------------------------------------------------
(***************************************************************************)
(* Lights: the writes a call still has to do come to what the last calls   *)
(* asked for.                                                              *)
(***************************************************************************)

(* Two writes one after the other, as lists of one each                    *)
(* (lights.c:150-172).                                                     *)
LEMMA Two == ASSUME NEW a, NEW b PROVE <<a>> \o <<b>> = <<a, b>>
<1>. DEFINE S == {a, b}
<1>1. <<a>> \in Seq(S) /\ <<b>> \in Seq(S) /\ <<a, b>> \in Seq(S)
  OBVIOUS
<1>. HIDE DEF S
<1>2. <<a>> \o <<b>> \in Seq(S)
  BY <1>1
<1>3. Len(<<a>> \o <<b>>) = Len(<<a, b>>)
  OBVIOUS
<1>4. \A i \in 1 .. Len(<<a>> \o <<b>>) : (<<a>> \o <<b>>)[i] = <<a, b>>[i]
  BY <1>1
<1>. QED
  BY <1>1, <1>2, <1>3, <1>4, SeqEqual

(* What set_light_buttons writes (lights.c:150-172), by what it last       *)
(* wrote: nothing when nothing changes, the switch only when the light     *)
(* goes on or off, the level only when there is a new one.                 *)
LEMMA ButtonWritesIs ==
  ASSUME NEW last \in Nat \cup {-1}, NEW w \in Nat
  PROVE  ButtonWrites(last, w) =
           IF w = 0 THEN (IF last = 0 THEN << >> ELSE << <<"on", 0>> >>)
           ELSE IF last <= 0 THEN << <<"on", 1>>, <<"bright", w>> >>
           ELSE IF last = w THEN << >> ELSE << <<"bright", w>> >>
<1>1. CASE w = 0
  <2>1. ButtonWrites(last, w) = (IF last = 0 THEN << >> ELSE << <<"on", 0>> >>) \o << >>
    BY <1>1 DEF ButtonWrites, LevelWrite
  <2>2. << >> \o << >> = << >> /\ << <<"on", 0>> >> \o << >> = << <<"on", 0>> >>
    OBVIOUS
  <2>. QED
    BY <1>1, <2>1, <2>2
<1>2. CASE w > 0 /\ last > 0
  <2>1. ButtonWrites(last, w) = << >> \o (IF last = w THEN << >> ELSE << <<"bright", w>> >>)
    BY <1>2 DEF ButtonWrites, LevelWrite
  <2>2. << >> \o << >> = << >> /\ << >> \o << <<"bright", w>> >> = << <<"bright", w>> >>
    OBVIOUS
  <2>. QED
    BY <1>2, <2>1, <2>2
<1>3. CASE w > 0 /\ last <= 0
  <2>1. ButtonWrites(last, w) = << <<"on", 1>> >> \o << <<"bright", w>> >>
    BY <1>3 DEF ButtonWrites, LevelWrite
  <2>. QED
    BY <1>3, <2>1, Two
<1>. QED
  BY <1>1, <1>2, <1>3

(* What write_int is given: a file and a value.                            *)
Entries == (Files \cup {"on", "bright"}) \X Nat

(* From value x, the writes todo leave file f at v: the last of them to f  *)
(* writes v, or none does and f has it already.                            *)
Comes(todo, f, v, x) ==
  \/ \E i \in 1 .. Len(todo) : todo[i] = <<f, v>> /\ \A j \in i + 1 .. Len(todo) : todo[j][1] # f
  \/ x = v /\ \A j \in 1 .. Len(todo) : todo[j][1] # f

(* Nothing to write leaves the file as it is.                              *)
LEMMA ComesEmpty ==
  ASSUME NEW f, NEW v, NEW x PROVE Comes(<< >>, f, v, x) <=> x = v
BY DEF Comes

(* Writes to other files leave the file as it is.                          *)
LEMMA ComesNot ==
  ASSUME NEW todo \in Seq(Entries), NEW f, NEW v, NEW x, \A j \in 1 .. Len(todo) : todo[j][1] # f
  PROVE Comes(todo, f, v, x) <=> x = v
BY DEF Comes

(* The first write done, the rest comes to the same value: a step of a     *)
(* call that writes file after file.                                       *)
LEMMA ComesTail ==
  ASSUME NEW todo \in Seq(Entries), todo # << >>, NEW f, NEW v, NEW x, Comes(todo, f, v, x)
  PROVE Comes(Tail(todo), f, v, IF Head(todo)[1] = f THEN Head(todo)[2] ELSE x)
<1>. DEFINE y == IF Head(todo)[1] = f THEN Head(todo)[2] ELSE x
<1>1. Len(todo) \in Nat \ {0} /\ Head(todo) = todo[1] /\ Len(Tail(todo)) = Len(todo) - 1
      /\ \A j \in 1 .. Len(todo) - 1 : Tail(todo)[j] = todo[j + 1]
  OBVIOUS
<1>2. ASSUME NEW i \in 1 .. Len(todo), todo[i] = <<f, v>>, \A j \in i + 1 .. Len(todo) : todo[j][1] # f
      PROVE  Comes(Tail(todo), f, v, y)
  <2>1. CASE i = 1
    <3>1. y = v
      BY <1>1, <1>2, <2>1
    <3>2. \A j \in 1 .. Len(Tail(todo)) : Tail(todo)[j][1] # f
      BY <1>1, <1>2, <2>1
    <3>. QED
      BY <3>1, <3>2 DEF Comes
  <2>2. CASE i > 1
    <3>1. i - 1 \in 1 .. Len(Tail(todo)) /\ Tail(todo)[i - 1] = <<f, v>>
      BY <1>1, <1>2, <2>2
    <3>2. \A j \in (i - 1) + 1 .. Len(Tail(todo)) : Tail(todo)[j][1] # f
      BY <1>1, <1>2, <2>2
    <3>. QED
      BY <3>1, <3>2 DEF Comes
  <2>. QED
    BY <1>1, <2>1, <2>2
<1>3. ASSUME x = v, \A j \in 1 .. Len(todo) : todo[j][1] # f
      PROVE  Comes(Tail(todo), f, v, y)
  <2>1. y = v
    BY <1>1, <1>3
  <2>2. \A j \in 1 .. Len(Tail(todo)) : Tail(todo)[j][1] # f
    BY <1>1, <1>3
  <2>. QED
    BY <2>1, <2>2 DEF Comes
<1>. QED
  BY <1>2, <1>3 DEF Comes

(* One more write decides about its own file and no other.                 *)
LEMMA ComesAppend ==
  ASSUME NEW todo \in Seq(Entries), NEW e \in Entries, NEW f, NEW v, NEW x,
         IF e[1] = f THEN e[2] = v ELSE Comes(todo, f, v, x)
  PROVE  Comes(Append(todo, e), f, v, x)
<1>1. /\ Len(todo) \in Nat /\ Len(Append(todo, e)) = Len(todo) + 1 /\ Append(todo, e)[Len(todo) + 1] = e
      /\ \A j \in 1 .. Len(todo) : Append(todo, e)[j] = todo[j]
  OBVIOUS
<1>2. CASE e[1] = f
  <2>1. e = <<f, v>>
    BY <1>2 DEF Entries
  <2>2. Len(todo) + 1 \in 1 .. Len(Append(todo, e)) /\ Append(todo, e)[Len(todo) + 1] = <<f, v>>
        /\ \A j \in (Len(todo) + 1) + 1 .. Len(Append(todo, e)) : Append(todo, e)[j][1] # f
    BY <1>1, <2>1
  <2>. QED
    BY <2>2 DEF Comes
<1>3. CASE e[1] # f
  <2>1. CASE \E i \in 1 .. Len(todo) : todo[i] = <<f, v>> /\ \A j \in i + 1 .. Len(todo) : todo[j][1] # f
    <3>1. PICK i \in 1 .. Len(todo) : todo[i] = <<f, v>> /\ \A j \in i + 1 .. Len(todo) : todo[j][1] # f
      BY <2>1
    <3>2. i \in 1 .. Len(Append(todo, e)) /\ Append(todo, e)[i] = <<f, v>>
      BY <1>1, <3>1
    <3>3. \A j \in i + 1 .. Len(Append(todo, e)) : Append(todo, e)[j][1] # f
      BY <1>1, <1>3, <3>1
    <3>. QED
      BY <3>2, <3>3 DEF Comes
  <2>2. CASE x = v /\ \A j \in 1 .. Len(todo) : todo[j][1] # f
    <3>1. \A j \in 1 .. Len(Append(todo, e)) : Append(todo, e)[j][1] # f
      BY <1>1, <1>3, <2>2
    <3>. QED
      BY <2>2, <3>1 DEF Comes
  <2>. QED
    BY <1>3, <2>1, <2>2 DEF Comes
<1>. QED
  BY <1>2, <1>3

(* The colours a light can be asked for, whatever Colors holds.            *)
ColorsOfAny == [red : Nat, green : Nat, blue : Nat, flash : BOOLEAN]

(* To concatenate a list of one is to append it.                           *)
LEMMA AppendOne == ASSUME NEW S, NEW s \in Seq(S), NEW e \in S PROVE s \o <<e>> = Append(s, e)
OBVIOUS

(* The writes of set_light_locked without the blinking (lights.c:185-209). *)
LEMMA FourEntries ==
  ASSUME NEW s \in ColorsOfAny
  PROVE  << <<"blink", 0>>, <<"red", s.red>>, <<"green", s.green>>, <<"blue", s.blue>> >> \in Seq(Entries)
BY DEF ColorsOfAny, Entries, Files

(* handle_light_locked (lights.c:212-228) settles every file of the        *)
(* coloured led and the charge light, whatever they were: a notification   *)
(* that is lit, or else the battery, blinking only if asked to, and the    *)
(* charge light only without a notification.                               *)
LEMMA HandleLightComes ==
  ASSUME NEW n \in ColorsOfAny, NEW b \in ColorsOfAny, NEW charging \in BOOLEAN, NEW x
  PROVE  LET s == IF is_lit(n) THEN n ELSE b
             todo == HandleLight(n, b, charging)
         IN  /\ todo \in Seq(Entries)
             /\ \A i \in 1 .. Len(todo) : Group(todo[i][1]) \in {"rgb", "charge"}
             /\ Comes(todo, "red", s.red, x) /\ Comes(todo, "green", s.green, x)
             /\ Comes(todo, "blue", s.blue, x) /\ Comes(todo, "blink", IF s.flash THEN 255 ELSE 0, x)
             /\ Comes(todo, "charge", IF charging /\ ~is_lit(n) THEN 1 ELSE 0, x)
<1>. DEFINE s == IF is_lit(n) THEN n ELSE b
            charge == IF charging /\ ~is_lit(n) THEN 1 ELSE 0
            L == << <<"blink", 0>>, <<"red", s.red>>, <<"green", s.green>>, <<"blue", s.blue>> >>
            M == IF s.flash THEN Append(L, <<"blink", 255>>) ELSE L
            todo == HandleLight(n, b, charging)
<1>1. s \in ColorsOfAny /\ charge \in Nat
  OBVIOUS
<1>2. L \in Seq(Entries) /\ <<"blink", 255>> \in Entries /\ <<"charge", charge>> \in Entries
  BY <1>1, FourEntries DEF Entries, Files
<1>3. todo = (L \o (IF s.flash THEN << <<"blink", 255>> >> ELSE << >>)) \o << <<"charge", charge>> >>
  BY DEF HandleLight, SetLight
<1>10. /\ Comes(L, "red", s.red, x) /\ Comes(L, "green", s.green, x)
       /\ Comes(L, "blue", s.blue, x) /\ Comes(L, "blink", 0, x)
       /\ \A i \in 1 .. Len(L) : Group(L[i][1]) = "rgb"
  <2>. HIDE DEF s
  <2>1. Len(L) = 4 /\ L[1] = <<"blink", 0>> /\ L[2] = <<"red", s.red>> /\ L[3] = <<"green", s.green>>
        /\ L[4] = <<"blue", s.blue>>
    OBVIOUS
  <2>. HIDE DEF L
  <2>2. \A i \in 1 .. Len(L) : i \in {1, 2, 3, 4}
    BY <2>1
  <2>3. \A i \in 1 .. Len(L) : Group(L[i][1]) = "rgb"
    BY <2>1, <2>2 DEF Group
  <2>4. Comes(L, "blink", 0, x) /\ Comes(L, "red", s.red, x)
    BY <2>1, <2>2 DEF Comes
  <2>5. Comes(L, "green", s.green, x) /\ Comes(L, "blue", s.blue, x)
    BY <2>1, <2>2 DEF Comes
  <2>. QED
    BY <2>3, <2>4, <2>5
<1>. HIDE DEF s, charge, L, todo
<1>4. M = L \o (IF s.flash THEN << <<"blink", 255>> >> ELSE << >>) /\ M \in Seq(Entries)
  BY <1>2, AppendOne
<1>5. todo = Append(M, <<"charge", charge>>)
  BY <1>2, <1>3, <1>4, AppendOne
<1>6. /\ Comes(M, "red", s.red, x) /\ Comes(M, "green", s.green, x)
      /\ Comes(M, "blue", s.blue, x) /\ Comes(M, "blink", IF s.flash THEN 255 ELSE 0, x)
  BY <1>2, <1>10, ComesAppend
<1>7. \A i \in 1 .. Len(M) : Group(M[i][1]) = "rgb"
  BY <1>2, <1>10 DEF Group
<1>. HIDE DEF M
<1>8. /\ Comes(todo, "red", s.red, x) /\ Comes(todo, "green", s.green, x)
      /\ Comes(todo, "blue", s.blue, x) /\ Comes(todo, "blink", IF s.flash THEN 255 ELSE 0, x)
      /\ Comes(todo, "charge", charge, x)
  <2>1. PICK e \in Entries : e = <<"charge", charge>>
    BY <1>2
  <2>2. M \in Seq(Entries) /\ todo = Append(M, e) /\ e[1] = "charge" /\ e[2] = charge
    BY <1>4, <1>5, <2>1
  <2>. HIDE DEF todo, s, charge
  <2>3. Comes(todo, "red", s.red, x)
    BY <1>6, <2>2, ComesAppend
  <2>4. Comes(todo, "green", s.green, x)
    BY <1>6, <2>2, ComesAppend
  <2>5. Comes(todo, "blue", s.blue, x)
    BY <1>6, <2>2, ComesAppend
  <2>6. Comes(todo, "blink", IF s.flash THEN 255 ELSE 0, x)
    BY <1>6, <2>2, ComesAppend
  <2>7. Comes(todo, "charge", charge, x)
    BY <2>2, ComesAppend
  <2>. QED
    BY <2>3, <2>4, <2>5, <2>6, <2>7
<1>9. todo \in Seq(Entries) /\ \A i \in 1 .. Len(todo) : Group(todo[i][1]) \in {"rgb", "charge"}
  BY <1>2, <1>4, <1>5, <1>7 DEF Group
<1>. QED
  BY <1>8, <1>9 DEF s, charge, todo

-----------------------------------------------------------------------------
ChargeLeds == {"rgb", "white", "off"}
Backs == [als : Nat, lcd : Nat]

(* The call of set_light_buttons that has scaled its level                 *)
(* (lights.c:144-149).                                                     *)
ButtonJob(l) == Job("buttons", [level |-> l])

(* The lights a call may write to.                                         *)
GroupsOf(light) == CASE light = "backlight" -> {"lcd"} [] light = "buttons" -> {"button"} [] OTHER -> {"rgb", "charge"}

(* The lock is held by one caller at most, whose writes are those of the   *)
(* light it asked for; the others have no call, or one that waits for the  *)
(* lock with its level scaled.                                             *)
HolderOK ==
  /\ holder \subseteq Callers /\ \A c, d \in holder : c = d
  /\ job = [c \in Callers |-> job[c]]
  /\ \A c \in Callers \ holder : job[c] = NULL \/ \E l \in Nat : job[c] = ButtonJob(l)
  /\ \A c \in holder :
       /\ job[c] = [light |-> job[c].light, state |-> job[c].state, todo |-> job[c].todo, covers |-> job[c].covers]
       /\ job[c].todo \in Seq(Entries) /\ job[c].covers \subseteq GroupsOf(job[c].light)
       /\ \A i \in 1 .. Len(job[c].todo) : Group(job[c].todo[i][1]) \in GroupsOf(job[c].light)

(* Types, and the globals of lights.c: they hold what the last calls asked *)
(* for, the battery without what the white charge light shows or the user  *)
(* turned off (lights.c:230-252).                                          *)
AskedOK ==
  /\ requested \in [backlight : Backs, buttons : Nat, battery : [state : ColorsOfAny, prop : ChargeLeds], notification : ColorsOfAny]
  /\ file \in [Files -> Nat] /\ power \in BOOLEAN
  /\ button_scale \in Nat /\ charge_led \in ChargeLeds
  /\ g_notification = requested.notification
  /\ g_charge_led_active = WhiteInstead
  /\ g_battery = IF WhiteInstead \/ Hidden THEN Dark ELSE requested.battery.state

(* What the coloured led has to show.                                      *)
Shown == IF is_lit(requested.notification) THEN requested.notification
         ELSE IF WhiteInstead \/ Hidden THEN Dark ELSE requested.battery.state

(* The value each file has to come to.                                     *)
Want(f) ==
  CASE f = "als" -> requested.backlight.als
    [] f = "lcd" -> requested.backlight.lcd
    [] f = "red" -> Shown.red
    [] f = "green" -> Shown.green
    [] f = "blue" -> Shown.blue
    [] f = "blink" -> (IF Shown.flash THEN 255 ELSE 0)
    [] f = "charge" -> (IF WhiteInstead /\ ~is_lit(requested.notification) THEN 1 ELSE 0)

(* Between the calls each file has its value unless a write to its light   *)
(* has failed; under the lock the writes still to be done come to it.      *)
FileInv ==
  \A f \in Files :
    /\ holder = {} /\ Group(f) \notin unsure => file[f] = Want(f)
    /\ \A c \in holder : Group(f) \notin unsure \/ Group(f) \in job[c].covers =>
         Comes(job[c].todo, f, Want(f), file[f])

(* The buttons' light as the last call asked for it.                       *)
ButtonRight ==
  /\ power <=> requested.buttons > 0
  /\ power => adlc = brightness_to_cpcap(requested.buttons)

(* What set_light_buttons may have left to write, and what the light must  *)
(* be then.                                                                *)
ButtonTodo(todo) ==
  \/ todo = << >> /\ ButtonRight
  \/ todo = << <<"bright", requested.buttons>> >> /\ requested.buttons > 0 /\ power
  \/ todo = << <<"on", 1>>, <<"bright", requested.buttons>> >> /\ requested.buttons > 0
  \/ todo = << <<"on", 0>> >> /\ requested.buttons = 0

(* The cached brightness is that of the last call, or of no call, when the *)
(* light is not sure; the light is right between the calls; and what a     *)
(* call of the buttons has left makes it right.                            *)
ButtonInv ==
  /\ \/ g_last_button_brightness = requested.buttons
     \/ /\ g_last_button_brightness = -1 /\ "button" \in unsure
        /\ \A c \in holder : "button" \notin job[c].covers
  /\ (\A c \in holder : job[c].light # "buttons") /\ "button" \notin unsure => ButtonRight
  /\ \A c \in holder : job[c].light = "buttons" /\ ("button" \notin unsure \/ "button" \in job[c].covers) =>
       ButtonTodo(job[c].todo)

(* The inductive invariant.                                                *)
LightsInv == HolderOK /\ AskedOK /\ FileInv /\ ButtonInv

(* The variables of LightsInv but the two properties.                      *)
Seen == <<g_battery, g_notification, g_charge_led_active, g_last_button_brightness, job, holder, file, power, adlc, requested, unsure>>

(* The properties are read only when a call begins: SetScale, SetChargeLed *)
(* and the modules that come and go disturb nothing.                       *)
LEMMA Frame ==
  ASSUME LightsInv, UNCHANGED Seen, button_scale' \in Nat, charge_led' \in ChargeLeds
  PROVE  LightsInv'
<1>1. HolderOK'
  BY DEF LightsInv, HolderOK, Seen
<1>2. Shown' = Shown /\ WhiteInstead' = WhiteInstead /\ Hidden' = Hidden
  BY DEF Seen, Shown, WhiteInstead, Hidden
<1>3. AskedOK'
  BY <1>2 DEF LightsInv, AskedOK, Seen
<1>4. \A f \in Files : Want(f)' = Want(f)
  BY <1>2 DEF Want, Seen
<1>5. FileInv'
  BY <1>4 DEF LightsInv, FileInv, Seen
<1>6. ButtonRight' <=> ButtonRight
  BY DEF ButtonRight, Seen
<1>7. \A todo : ButtonTodo(todo)' <=> ButtonTodo(todo)
  BY <1>6 DEF ButtonTodo, Seen
<1>8. ButtonInv'
  BY <1>6, <1>7 DEF LightsInv, ButtonInv, Seen
<1>. QED
  BY <1>1, <1>3, <1>5, <1>8 DEF LightsInv

(* set_light_buttons scales before it locks (lights.c:149-153): its level  *)
(* is a natural number.                                                    *)
LEMMA ScaleStep ==
  ASSUME LightsInv, NEW c \in Callers, ScaleFirst(c)
  PROVE  LightsInv'
<1>1. PICK l \in Levels : job' = [job EXCEPT ![c] = ButtonJob(Scaled(l))]
  BY DEF ScaleFirst, ButtonJob
<1>2. c \notin holder /\ UNCHANGED <<g_battery, g_notification, g_charge_led_active, g_last_button_brightness,
                                     holder, file, power, adlc, requested, unsure, button_scale, charge_led>>
  BY DEF ScaleFirst, globals, button, props
<1>3. Scaled(l) \in Nat
  <2>1. l \in Nat /\ button_scale \in Nat
    BY LightsAssumption DEF LightsInv, AskedOK
  <2>2. l * button_scale + 50 \in Nat
    BY <2>1
  <2>3. (l * button_scale + 50) \div 100 \in Nat
    BY <2>2
  <2>. QED
    BY <2>1, <2>3 DEF Scaled
<1>4. \A d \in holder : job'[d] = job[d]
  BY <1>1, <1>2 DEF LightsInv, HolderOK
<1>5. HolderOK'
  BY <1>1, <1>2, <1>3, <1>4 DEF LightsInv, HolderOK
<1>6. Shown' = Shown /\ WhiteInstead' = WhiteInstead /\ Hidden' = Hidden
  BY <1>2 DEF Shown, WhiteInstead, Hidden
<1>7. AskedOK'
  BY <1>2, <1>6 DEF LightsInv, AskedOK
<1>8. \A f \in Files : Want(f)' = Want(f)
  BY <1>2, <1>6 DEF Want
<1>9. FileInv'
  BY <1>2, <1>4, <1>8 DEF LightsInv, FileInv
<1>10. ButtonRight' <=> ButtonRight
  BY <1>2 DEF ButtonRight
<1>11. \A todo : ButtonTodo(todo)' <=> ButtonTodo(todo)
  BY <1>2, <1>10 DEF ButtonTodo
<1>12. ButtonInv'
  BY <1>2, <1>4, <1>10, <1>11 DEF LightsInv, ButtonInv
<1>. QED
  BY <1>5, <1>7, <1>9, <1>12 DEF LightsInv

-----------------------------------------------------------------------------
(* A call has taken the lock and knows what to write.                      *)
Took(c, light, s, todo, covers) ==
  /\ holder = {} /\ holder' = {c}
  /\ job' = [job EXCEPT ![c] = [light |-> light, state |-> s, todo |-> todo, covers |-> covers]]
  /\ UNCHANGED <<file, power, adlc, unsure, button_scale, charge_led>>

(* ... of set_light_backlight                                              *)
TookBacklight(c, s) ==
  /\ Took(c, "backlight", s, << <<"als", s.als>>, <<"lcd", s.lcd>> >>, {"lcd"})
  /\ requested' = [requested EXCEPT !.backlight = s] /\ UNCHANGED globals

(* ... of set_light_buttons                                                *)
TookButtons(c, l) ==
  /\ LET todo == ButtonWrites(g_last_button_brightness, l)
     IN  Took(c, "buttons", [level |-> l], todo,
              {Group(todo[i][1]) : i \in {j \in DOMAIN todo : todo[j][1] = "on"}})
  /\ g_last_button_brightness' = l /\ requested' = [requested EXCEPT !.buttons = l]
  /\ UNCHANGED <<g_battery, g_notification, g_charge_led_active>>

(* ... of set_light_battery                                                *)
TookBattery(c, s) ==
  /\ g_charge_led_active' = ChargeActive(s) /\ g_battery' = BatteryState(s)
  /\ Took(c, "battery", s, HandleLight(g_notification, g_battery', g_charge_led_active'), {"rgb", "charge"})
  /\ requested' = [requested EXCEPT !.battery = [state |-> s, prop |-> charge_led]]
  /\ UNCHANGED <<g_notification, g_last_button_brightness>>

(* ... of set_light_notifications                                          *)
TookNotification(c, s) ==
  /\ g_notification' = s
  /\ Took(c, "notification", s, HandleLight(s, g_battery, g_charge_led_active), {"rgb", "charge"})
  /\ requested' = [requested EXCEPT !.notification = s]
  /\ UNCHANGED <<g_battery, g_charge_led_active, g_last_button_brightness>>

(* Every call is one of the four kinds of lights.c.                        *)
LEMMA RequestKinds ==
  ASSUME HolderOK, NEW c \in Callers \ holder, NEW request \in Requests(c)
  PROVE  \/ \E s \in Backs : request = Job("backlight", s)
         \/ \E l \in Nat : request = Job("buttons", [level |-> l])
         \/ \E s \in ColorsOfAny : request = Job("battery", s)
         \/ \E s \in ColorsOfAny : request = Job("notification", s)
<1>1. CASE job[c] # NULL
  BY <1>1 DEF Requests, HolderOK, ButtonJob
<1>2. CASE job[c] = NULL
  <2>1. \/ \E s \in BackStates : request = Job("backlight", s)
        \/ \E l \in {"battery", "notification"}, s \in Colors : request = Job(l, s)
    BY <1>2 DEF Requests
  <2>. QED
    BY <2>1, LightsAssumption DEF Backs, ColorsOfAny
<1>. QED
  BY <1>1, <1>2

(* A step of Locked is one of the four calls taking the lock.              *)
LEMMA LockedKinds ==
  ASSUME HolderOK, NEW c \in Callers, Locked(c)
  PROVE  \/ \E s \in Backs : TookBacklight(c, s)
         \/ \E l \in Nat : TookButtons(c, l)
         \/ \E s \in ColorsOfAny : TookBattery(c, s) \/ TookNotification(c, s)
<1>1. c \notin holder /\ holder = {} /\ holder' = {c}
  BY DEF Locked, LockFree
<1>2. PICK request \in Requests(c) :
     LET s == request.state
         Settle(todo, covers) == job' = [job EXCEPT ![c] = With(request, todo, covers)]
     IN     \/ /\ request.light = "backlight"
               /\ Settle(<< <<"als", s.als>>, <<"lcd", s.lcd>> >>, {"lcd"})
               /\ requested' = [requested EXCEPT !.backlight = s]
               /\ UNCHANGED globals
            \/ /\ request.light = "buttons"
               /\ LET todo == ButtonWrites(g_last_button_brightness, s.level)
                  IN  Settle(todo, {Group(todo[i][1]) : i \in {j \in DOMAIN todo : todo[j][1] = "on"}})
               /\ g_last_button_brightness' = s.level
               /\ requested' = [requested EXCEPT !.buttons = s.level]
               /\ UNCHANGED <<g_battery, g_notification, g_charge_led_active>>
            \/ /\ request.light = "battery"
               /\ g_charge_led_active' = ChargeActive(s) /\ g_battery' = BatteryState(s)
               /\ Settle(HandleLight(g_notification, g_battery', g_charge_led_active'), {"rgb", "charge"})
               /\ requested' = [requested EXCEPT !.battery = [state |-> s, prop |-> charge_led]]
               /\ UNCHANGED <<g_notification, g_last_button_brightness>>
            \/ /\ request.light = "notification"
               /\ g_notification' = s
               /\ Settle(HandleLight(s, g_battery, g_charge_led_active), {"rgb", "charge"})
               /\ requested' = [requested EXCEPT !.notification = s]
               /\ UNCHANGED <<g_battery, g_charge_led_active, g_last_button_brightness>>
  BY DEF Locked
<1>3. UNCHANGED <<file, power, adlc, unsure, button_scale, charge_led>>
  BY DEF Locked, props, button
<1>5. \A light, s : Job(light, s).light = light /\ Job(light, s).state = s
  BY DEF Job
<1>6. ASSUME NEW s \in Backs, request = Job("backlight", s) PROVE TookBacklight(c, s)
  <2>. DEFINE todo == << <<"als", s.als>>, <<"lcd", s.lcd>> >>
              covers == {"lcd"}
  <2>1. request.light = "backlight" /\ request.state = s
    BY <1>5, <1>6
  <2>2. job' = [job EXCEPT ![c] = With(request, todo, covers)]
    BY <1>2, <2>1
  <2>3. requested' = [requested EXCEPT !.backlight = s] /\ UNCHANGED globals
    BY <1>2, <2>1
  <2>4. With(request, todo, covers)
          = [light |-> "backlight", state |-> s, todo |-> todo, covers |-> covers]
    BY <2>1 DEF With
  <2>. QED
    BY <1>1, <1>3, <2>2, <2>3, <2>4 DEF TookBacklight, Took
<1>7. ASSUME NEW l \in Nat, request = Job("buttons", [level |-> l]) PROVE TookButtons(c, l)
  <2>. DEFINE todo == ButtonWrites(g_last_button_brightness, l)
              covers == {Group(todo[i][1]) : i \in {j \in DOMAIN todo : todo[j][1] = "on"}}
  <2>1. request.light = "buttons" /\ request.state = [level |-> l]
    BY <1>5, <1>7
  <2>2. job' = [job EXCEPT ![c] = With(request, todo, covers)]
    BY <1>2, <2>1
  <2>3. /\ g_last_button_brightness' = l /\ requested' = [requested EXCEPT !.buttons = l]
        /\ UNCHANGED <<g_battery, g_notification, g_charge_led_active>>
    BY <1>2, <2>1
  <2>4. With(request, todo, covers)
          = [light |-> "buttons", state |-> [level |-> l], todo |-> todo, covers |-> covers]
    BY <2>1 DEF With
  <2>. QED
    BY <1>1, <1>3, <2>2, <2>3, <2>4 DEF TookButtons, Took
<1>8. ASSUME NEW s \in ColorsOfAny, request = Job("battery", s) PROVE TookBattery(c, s)
  <2>. DEFINE todo == HandleLight(g_notification, g_battery', g_charge_led_active')
              covers == {"rgb", "charge"}
  <2>1. request.light = "battery" /\ request.state = s
    BY <1>5, <1>8
  <2>2. job' = [job EXCEPT ![c] = With(request, todo, covers)]
    BY <1>2, <2>1
  <2>3. /\ g_charge_led_active' = ChargeActive(s) /\ g_battery' = BatteryState(s)
        /\ requested' = [requested EXCEPT !.battery = [state |-> s, prop |-> charge_led]]
        /\ UNCHANGED <<g_notification, g_last_button_brightness>>
    BY <1>2, <2>1
  <2>4. With(request, todo, covers)
          = [light |-> "battery", state |-> s, todo |-> todo, covers |-> covers]
    BY <2>1 DEF With
  <2>. QED
    BY <1>1, <1>3, <2>2, <2>3, <2>4 DEF TookBattery, Took
<1>9. ASSUME NEW s \in ColorsOfAny, request = Job("notification", s) PROVE TookNotification(c, s)
  <2>. DEFINE todo == HandleLight(s, g_battery, g_charge_led_active)
              covers == {"rgb", "charge"}
  <2>1. request.light = "notification" /\ request.state = s
    BY <1>5, <1>9
  <2>2. job' = [job EXCEPT ![c] = With(request, todo, covers)]
    BY <1>2, <2>1
  <2>3. /\ g_notification' = s /\ requested' = [requested EXCEPT !.notification = s]
        /\ UNCHANGED <<g_battery, g_charge_led_active, g_last_button_brightness>>
    BY <1>2, <2>1
  <2>4. With(request, todo, covers)
          = [light |-> "notification", state |-> s, todo |-> todo, covers |-> covers]
    BY <2>1 DEF With
  <2>. QED
    BY <1>1, <1>3, <2>2, <2>3, <2>4 DEF TookNotification, Took
<1>. QED
  BY <1>1, <1>6, <1>7, <1>8, <1>9, RequestKinds

(* A call that has just taken the lock is its only holder and has its own  *)
(* writes to do.                                                           *)
LEMMA TookHolder ==
  ASSUME LightsInv, NEW c \in Callers, NEW light, NEW s, NEW todo, NEW covers,
         Took(c, light, s, todo, covers), todo \in Seq(Entries), covers \subseteq GroupsOf(light),
         \A i \in 1 .. Len(todo) : Group(todo[i][1]) \in GroupsOf(light)
  PROVE  /\ HolderOK' /\ holder' = {c}
         /\ job'[c] = [light |-> light, state |-> s, todo |-> todo, covers |-> covers]
<1>1. job'[c] = [light |-> light, state |-> s, todo |-> todo, covers |-> covers]
      /\ \A d \in Callers \ {c} : job'[d] = job[d]
  BY DEF Took, LightsInv, HolderOK
<1>2. job' = [d \in Callers |-> job'[d]]
  BY DEF Took, LightsInv, HolderOK
<1>. QED
  BY <1>1, <1>2 DEF Took, LightsInv, HolderOK

(* set_light_backlight: its two writes come to what it asked for.          *)
LEMMA TookBacklightStep ==
  ASSUME LightsInv, NEW c \in Callers, NEW s \in Backs, TookBacklight(c, s)
  PROVE  LightsInv'
<1>. DEFINE todo == << <<"als", s.als>>, <<"lcd", s.lcd>> >>
<1>1. s.als \in Nat /\ s.lcd \in Nat
  BY DEF Backs
<1>2. todo \in Seq(Entries) /\ Len(todo) = 2 /\ todo[1] = <<"als", s.als>> /\ todo[2] = <<"lcd", s.lcd>>
  BY <1>1 DEF Entries, Files
<1>3. Took(c, "backlight", s, todo, {"lcd"})
  BY DEF TookBacklight
<1>. HIDE DEF todo
<1>4. \A i \in 1 .. Len(todo) : i \in {1, 2}
  BY <1>2
<1>5. \A i \in 1 .. Len(todo) : Group(todo[i][1]) = "lcd"
  BY <1>2, <1>4 DEF Group
<1>6. /\ HolderOK' /\ holder' = {c}
      /\ job'[c] = [light |-> "backlight", state |-> s, todo |-> todo, covers |-> {"lcd"}]
  BY <1>2, <1>3, <1>5, TookHolder DEF GroupsOf
<1>7. /\ requested' = [requested EXCEPT !.backlight = s] /\ UNCHANGED globals /\ holder = {}
      /\ UNCHANGED <<file, power, adlc, unsure, button_scale, charge_led>>
  BY <1>3 DEF TookBacklight, Took
<1>8. /\ requested'.backlight = s /\ requested'.buttons = requested.buttons /\ requested'.battery = requested.battery
      /\ requested'.notification = requested.notification
      /\ requested' \in [backlight : Backs, buttons : Nat, battery : [state : ColorsOfAny, prop : ChargeLeds], notification : ColorsOfAny]
  BY <1>7 DEF LightsInv, AskedOK
<1>9. Shown' = Shown /\ WhiteInstead' = WhiteInstead /\ Hidden' = Hidden
  BY <1>8 DEF Shown, WhiteInstead, Hidden
<1>10. AskedOK'
  BY <1>7, <1>8, <1>9 DEF LightsInv, AskedOK, globals
<1>11. FileInv'
  <2>1. ASSUME NEW f \in Files, Group(f) \notin unsure \/ Group(f) = "lcd"
        PROVE  Comes(todo, f, Want(f)', file[f])
    <3>1. CASE f = "als"
      BY <1>2, <1>4, <1>8, <3>1 DEF Comes, Want
    <3>2. CASE f = "lcd"
      BY <1>2, <1>4, <1>8, <3>2 DEF Comes, Want
    <3>3. CASE f \notin {"als", "lcd"}
      <4>1. Want(f)' = Want(f) /\ file[f] = Want(f)
        BY <2>1, <3>3, <1>7, <1>8, <1>9 DEF Want, Files, LightsInv, FileInv, Group
      <4>. QED
        BY <1>2, <1>4, <3>3, <4>1, ComesNot
    <3>. QED
      BY <3>1, <3>2, <3>3
  <2>. QED
    BY <2>1, <1>6, <1>7 DEF FileInv
<1>12. ButtonInv'
  <2>1. ButtonRight' <=> ButtonRight
    BY <1>7, <1>8 DEF ButtonRight
  <2>2. "button" \notin unsure => ButtonRight
    BY <1>7 DEF LightsInv, ButtonInv
  <2>. QED
    BY <1>6, <1>7, <1>8, <2>1, <2>2 DEF LightsInv, ButtonInv, globals
<1>. QED
  BY <1>6, <1>10, <1>11, <1>12 DEF LightsInv

(* set_light_buttons: the writes it spares are those the cache is right    *)
(* about, and the first one, which switches the light, is always there     *)
(* when the cache knows nothing.                                           *)
LEMMA TookButtonsStep ==
  ASSUME LightsInv, NEW c \in Callers, NEW l \in Nat, TookButtons(c, l)
  PROVE  LightsInv'
<1>a. PICK last : last = g_last_button_brightness
  OBVIOUS
<1>b. PICK todo : todo = ButtonWrites(last, l)
  OBVIOUS
<1>c. PICK covers : covers = {Group(todo[i][1]) : i \in {j \in DOMAIN todo : todo[j][1] = "on"}}
  OBVIOUS
<1>1. last \in Nat \cup {-1}
  BY <1>a DEF LightsInv, AskedOK, ButtonInv
<1>2. todo = IF l = 0 THEN (IF last = 0 THEN << >> ELSE << <<"on", 0>> >>)
             ELSE IF last <= 0 THEN << <<"on", 1>>, <<"bright", l>> >>
             ELSE IF last = l THEN << >> ELSE << <<"bright", l>> >>
  BY <1>1, <1>b, ButtonWritesIs
<1>3. Took(c, "buttons", [level |-> l], todo, covers)
  BY <1>a, <1>b, <1>c DEF TookButtons
<1>4. /\ g_last_button_brightness' = l /\ requested' = [requested EXCEPT !.buttons = l] /\ holder = {}
      /\ UNCHANGED <<g_battery, g_notification, g_charge_led_active>>
      /\ UNCHANGED <<file, power, adlc, unsure, button_scale, charge_led>>
  BY <1>3 DEF TookButtons, Took
<1>5. todo \in {<< >>, << <<"on", 0>> >>, << <<"on", 1>>, <<"bright", l>> >>, << <<"bright", l>> >>}
  BY <1>2
<1>6. todo \in Seq(Entries) /\ \A i \in 1 .. Len(todo) : todo[i][1] \in {"on", "bright"}
  <2>1. CASE todo = << >>
    BY <2>1
  <2>2. CASE todo = << <<"on", 0>> >>
    BY <2>2 DEF Entries
  <2>3. CASE todo = << <<"on", 1>>, <<"bright", l>> >>
    BY <2>3 DEF Entries
  <2>4. CASE todo = << <<"bright", l>> >>
    BY <2>4 DEF Entries
  <2>. QED
    BY <1>5, <2>1, <2>2, <2>3, <2>4
<1>7. covers \subseteq {"button"} /\ (covers = {} <=> todo \in {<< >>, << <<"bright", l>> >>})
  <2>1. CASE todo = << >>
    BY <1>c, <2>1
  <2>2. CASE todo = << <<"on", 0>> >>
    <3>1. 1 \in {j \in DOMAIN todo : todo[j][1] = "on"}
      BY <2>2
    <3>2. covers # {} /\ covers \subseteq {"button"}
      BY <1>c, <3>1 DEF Group
    <3>. QED
      BY <2>2, <3>2
  <2>3. CASE todo = << <<"on", 1>>, <<"bright", l>> >>
    <3>1. 1 \in {j \in DOMAIN todo : todo[j][1] = "on"}
      BY <2>3
    <3>2. covers # {} /\ covers \subseteq {"button"}
      BY <1>c, <3>1 DEF Group
    <3>. QED
      BY <2>3, <3>2
  <2>4. CASE todo = << <<"bright", l>> >>
    <3>1. \A j \in DOMAIN todo : todo[j][1] = "bright"
      BY <2>4
    <3>. QED
      BY <1>c, <2>4, <3>1
  <2>. QED
    BY <1>5, <2>1, <2>2, <2>3, <2>4
<1>8. /\ HolderOK' /\ holder' = {c}
      /\ job'[c] = [light |-> "buttons", state |-> [level |-> l], todo |-> todo, covers |-> covers]
  <2>1. \A i \in 1 .. Len(todo) : Group(todo[i][1]) \in GroupsOf("buttons")
    BY <1>6 DEF Group, GroupsOf
  <2>2. covers \subseteq GroupsOf("buttons")
    BY <1>7 DEF GroupsOf
  <2>. QED
    BY <1>3, <1>6, <2>1, <2>2, TookHolder
<1>9. /\ requested'.backlight = requested.backlight /\ requested'.buttons = l /\ requested'.battery = requested.battery
      /\ requested'.notification = requested.notification
      /\ requested' \in [backlight : Backs, buttons : Nat, battery : [state : ColorsOfAny, prop : ChargeLeds], notification : ColorsOfAny]
  BY <1>4 DEF LightsInv, AskedOK
<1>10. Shown' = Shown /\ WhiteInstead' = WhiteInstead /\ Hidden' = Hidden
  BY <1>9 DEF Shown, WhiteInstead, Hidden
<1>11. AskedOK'
  BY <1>4, <1>9, <1>10 DEF LightsInv, AskedOK
<1>12. FileInv'
  <2>1. ASSUME NEW f \in Files, Group(f) \notin unsure \/ Group(f) \in covers
        PROVE  Comes(todo, f, Want(f)', file[f])
    <3>1. Group(f) \notin covers
      BY <1>7 DEF Group, Files
    <3>2. Want(f)' = Want(f) /\ file[f] = Want(f)
      BY <2>1, <3>1, <1>4, <1>9, <1>10 DEF Want, Files, LightsInv, FileInv
    <3>3. \A j \in 1 .. Len(todo) : todo[j][1] # f
      BY <1>6 DEF Files
    <3>. QED
      BY <1>6, <3>2, <3>3, ComesNot
  <2>. QED
    BY <2>1, <1>8, <1>4 DEF FileInv
<1>13. ButtonInv'
  <2>1. ASSUME "button" \notin unsure \/ "button" \in covers
        PROVE  ButtonTodo(todo)'
    <3>1. CASE covers # {}
      <4>1. \/ todo = << <<"on", 0>> >> /\ l = 0
            \/ todo = << <<"on", 1>>, <<"bright", l>> >> /\ l > 0
        <5>1. todo # << >> /\ todo # << <<"bright", l>> >>
          BY <1>7, <3>1
        <5>2. CASE l = 0
          <6>1. todo = IF last = 0 THEN << >> ELSE << <<"on", 0>> >>
            BY <1>2, <5>2
          <6>. QED
            BY <5>1, <5>2, <6>1
        <5>3. CASE l > 0
          BY <1>2, <5>1, <5>3
        <5>. QED
          BY <5>2, <5>3
      <4>. QED
        BY <4>1, <1>9 DEF ButtonTodo
    <3>2. CASE covers = {}
      <4>1. "button" \notin unsure
        BY <2>1, <3>2
      <4>2. ButtonRight /\ last = requested.buttons /\ requested.buttons \in Nat
        BY <4>1, <1>4, <1>a DEF LightsInv, ButtonInv, AskedOK
      <4>3. CASE last = l
        <5>1. ButtonRight'
          BY <4>2, <4>3, <1>4, <1>9 DEF ButtonRight
        <5>2. todo = << >>
          BY <1>2, <1>7, <3>2, <4>2, <4>3
        <5>. QED
          BY <5>1, <5>2 DEF ButtonTodo
      <4>4. CASE last # l
        <5>1. todo = << <<"bright", l>> >> /\ last > 0 /\ l > 0
          BY <1>1, <1>2, <1>7, <3>2, <4>2, <4>4
        <5>2. power'
          BY <5>1, <4>2, <1>4 DEF ButtonRight
        <5>. QED
          BY <5>1, <5>2, <1>9 DEF ButtonTodo
      <4>. QED
        BY <4>3, <4>4
    <3>. QED
      BY <3>1, <3>2
  <2>. QED
    BY <2>1, <1>4, <1>8, <1>9 DEF ButtonInv
<1>. QED
  BY <1>8, <1>11, <1>12, <1>13 DEF LightsInv

(* What handle_light_locked writes comes to what the led has to show.      *)
LEMMA HandleLightWanted ==
  ASSUME AskedOK', NEW todo,
         todo = HandleLight(requested'.notification,
                            IF WhiteInstead' \/ Hidden' THEN Dark ELSE requested'.battery.state, WhiteInstead')
  PROVE  /\ todo \in Seq(Entries)
         /\ \A i \in 1 .. Len(todo) : Group(todo[i][1]) \in {"rgb", "charge"}
         /\ \A f \in {"red", "green", "blue", "blink", "charge"} : \A x : Comes(todo, f, Want(f)', x)
<1>a. PICK b : b = IF WhiteInstead' \/ Hidden' THEN Dark ELSE requested'.battery.state
  OBVIOUS
<1>b. PICK n : n = requested'.notification
  OBVIOUS
<1>c. PICK ch : ch = WhiteInstead'
  OBVIOUS
<1>1. b \in ColorsOfAny /\ n \in ColorsOfAny /\ ch \in BOOLEAN
  BY <1>a, <1>b, <1>c DEF AskedOK, ColorsOfAny, Dark, WhiteInstead
<1>2. todo = HandleLight(n, b, ch)
  BY <1>a, <1>b, <1>c
<1>d. PICK sh : sh = IF is_lit(n) THEN n ELSE b
  OBVIOUS
<1>3. Shown' = sh /\ (WhiteInstead' <=> ch) /\ requested'.notification = n
  BY <1>a, <1>b, <1>c, <1>d DEF Shown
<1>4. /\ todo \in Seq(Entries)
      /\ \A i \in 1 .. Len(todo) : Group(todo[i][1]) \in {"rgb", "charge"}
      /\ \A x : /\ Comes(todo, "red", sh.red, x) /\ Comes(todo, "green", sh.green, x)
                /\ Comes(todo, "blue", sh.blue, x) /\ Comes(todo, "blink", IF sh.flash THEN 255 ELSE 0, x)
                /\ Comes(todo, "charge", IF ch /\ ~is_lit(n) THEN 1 ELSE 0, x)
  BY <1>1, <1>2, <1>d, HandleLightComes
<1>5. /\ Want("red")' = sh.red /\ Want("green")' = sh.green /\ Want("blue")' = sh.blue
      /\ Want("blink")' = IF sh.flash THEN 255 ELSE 0
  BY <1>3 DEF Want
<1>6. Want("charge")' = IF ch /\ ~is_lit(n) THEN 1 ELSE 0
  BY <1>3 DEF Want
<1>. QED
  BY <1>4, <1>5, <1>6

(* TookHolder, for the two calls that write to the led.                    *)
LEMMA TookHolderColors ==
  ASSUME LightsInv, NEW c \in Callers, NEW light, GroupsOf(light) = {"rgb", "charge"}, NEW s, NEW todo,
         Took(c, light, s, todo, {"rgb", "charge"}), todo \in Seq(Entries),
         \A i \in 1 .. Len(todo) : Group(todo[i][1]) \in {"rgb", "charge"}
  PROVE  /\ HolderOK' /\ holder' = {c}
         /\ job'[c] = [light |-> light, state |-> s, todo |-> todo, covers |-> {"rgb", "charge"}]
<1>1. PICK covers : covers = {"rgb", "charge"}
  OBVIOUS
<1>2. covers \subseteq GroupsOf(light) /\ Took(c, light, s, todo, covers)
  BY <1>1
<1>3. \A i \in 1 .. Len(todo) : Group(todo[i][1]) \in GroupsOf(light)
  OBVIOUS
<1>. QED
  BY <1>1, <1>2, <1>3, TookHolder

(* The two calls that write to the led preserve the invariant once their   *)
(* writes come to what it has to show.                                     *)
LEMMA HandleLightFiles ==
  ASSUME LightsInv, NEW c \in Callers, NEW light, GroupsOf(light) = {"rgb", "charge"}, NEW s, NEW todo,
         Took(c, light, s, todo, {"rgb", "charge"}), AskedOK',
         requested'.backlight = requested.backlight, requested'.buttons = requested.buttons,
         UNCHANGED g_last_button_brightness,
         todo \in Seq(Entries), \A i \in 1 .. Len(todo) : Group(todo[i][1]) \in {"rgb", "charge"},
         \A f \in {"red", "green", "blue", "blink", "charge"} : \A x : Comes(todo, f, Want(f)', x)
  PROVE  LightsInv'
<1>5. light # "buttons"
  BY DEF GroupsOf
<1>6. /\ HolderOK' /\ holder' = {c}
      /\ job'[c] = [light |-> light, state |-> s, todo |-> todo, covers |-> {"rgb", "charge"}]
  BY TookHolderColors
<1>7. holder = {} /\ UNCHANGED <<file, power, adlc, unsure>>
  BY DEF Took
<1>8. FileInv'
  <2>1. ASSUME NEW f \in {"als", "lcd"}, Group(f) \notin unsure
        PROVE  Comes(todo, f, Want(f)', file[f])
    <3>1. Want(f)' = Want(f) /\ file[f] = Want(f)
      BY <2>1, <1>7 DEF Want, LightsInv, FileInv, Files
    <3>2. \A j \in 1 .. Len(todo) : todo[j][1] # f
      BY DEF Group
    <3>. QED
      BY <3>1, <3>2, ComesNot
  <2>2. \A f \in Files : Group(f) \notin unsure \/ Group(f) \in {"rgb", "charge"} =>
          Comes(todo, f, Want(f)', file[f])
    BY <2>1 DEF Files, Group
  <2>. QED
    BY <2>2, <1>6, <1>7 DEF FileInv
<1>9. ButtonInv'
  <2>1. ButtonRight' <=> ButtonRight
    BY <1>7 DEF ButtonRight
  <2>. QED
    BY <1>5, <1>6, <1>7, <2>1 DEF LightsInv, ButtonInv
<1>. QED
  BY <1>6, <1>8, <1>9 DEF LightsInv

(* set_light_battery: the globals it leaves are what Want looks at.        *)
LEMMA TookBatteryStep ==
  ASSUME LightsInv, NEW c \in Callers, NEW s \in ColorsOfAny, TookBattery(c, s)
  PROVE  LightsInv'
<1>1. /\ requested'.battery = [state |-> s, prop |-> charge_led] /\ requested'.notification = requested.notification
      /\ requested'.backlight = requested.backlight /\ requested'.buttons = requested.buttons
      /\ requested' \in [backlight : Backs, buttons : Nat, battery : [state : ColorsOfAny, prop : ChargeLeds], notification : ColorsOfAny]
  BY DEF TookBattery, LightsInv, AskedOK
<1>2. /\ g_charge_led_active' = ChargeActive(s) /\ g_battery' = BatteryState(s)
      /\ UNCHANGED <<g_notification, g_last_button_brightness>>
  BY DEF TookBattery
<1>a. PICK todo : todo = HandleLight(g_notification, g_battery', g_charge_led_active')
  OBVIOUS
<1>3. Took(c, "battery", s, todo, {"rgb", "charge"})
  BY <1>a DEF TookBattery
<1>4. ChargeActive(s) = WhiteInstead'
  BY <1>1 DEF ChargeActive, WhiteInstead, ColorsOfAny
<1>5. BatteryState(s) = IF WhiteInstead' \/ Hidden' THEN Dark ELSE requested'.battery.state
  BY <1>1, <1>4 DEF BatteryState, Hidden
<1>6. AskedOK'
  BY <1>1, <1>2, <1>3, <1>4, <1>5 DEF LightsInv, AskedOK, Took
<1>7. todo = HandleLight(requested'.notification,
                         IF WhiteInstead' \/ Hidden' THEN Dark ELSE requested'.battery.state, WhiteInstead')
  BY <1>a, <1>1, <1>2, <1>4, <1>5 DEF LightsInv, AskedOK
<1>9. GroupsOf("battery") = {"rgb", "charge"}
  BY DEF GroupsOf
<1>8. /\ todo \in Seq(Entries)
      /\ \A i \in 1 .. Len(todo) : Group(todo[i][1]) \in {"rgb", "charge"}
      /\ \A f \in {"red", "green", "blue", "blink", "charge"} : \A x : Comes(todo, f, Want(f)', x)
  BY <1>6, <1>7, HandleLightWanted
<1>. QED
  BY <1>1, <1>2, <1>3, <1>6, <1>8, <1>9, HandleLightFiles

(* set_light_notifications: likewise.                                      *)
LEMMA TookNotificationStep ==
  ASSUME LightsInv, NEW c \in Callers, NEW s \in ColorsOfAny, TookNotification(c, s)
  PROVE  LightsInv'
<1>1. /\ requested'.battery = requested.battery /\ requested'.notification = s
      /\ requested'.backlight = requested.backlight /\ requested'.buttons = requested.buttons
      /\ requested' \in [backlight : Backs, buttons : Nat, battery : [state : ColorsOfAny, prop : ChargeLeds], notification : ColorsOfAny]
  BY DEF TookNotification, LightsInv, AskedOK
<1>2. /\ g_notification' = s
      /\ UNCHANGED <<g_battery, g_charge_led_active, g_last_button_brightness>>
  BY DEF TookNotification
<1>a. PICK todo : todo = HandleLight(s, g_battery, g_charge_led_active)
  OBVIOUS
<1>3. Took(c, "notification", s, todo, {"rgb", "charge"})
  BY <1>a DEF TookNotification
<1>4. WhiteInstead' = WhiteInstead /\ Hidden' = Hidden
  BY <1>1 DEF WhiteInstead, Hidden
<1>6. AskedOK'
  BY <1>1, <1>2, <1>3, <1>4 DEF LightsInv, AskedOK, Took
<1>7. todo = HandleLight(requested'.notification,
                         IF WhiteInstead' \/ Hidden' THEN Dark ELSE requested'.battery.state, WhiteInstead')
  BY <1>a, <1>1, <1>4 DEF LightsInv, AskedOK
<1>9. GroupsOf("notification") = {"rgb", "charge"}
  BY DEF GroupsOf
<1>8. /\ todo \in Seq(Entries)
      /\ \A i \in 1 .. Len(todo) : Group(todo[i][1]) \in {"rgb", "charge"}
      /\ \A f \in {"red", "green", "blue", "blink", "charge"} : \A x : Comes(todo, f, Want(f)', x)
  BY <1>6, <1>7, HandleLightWanted
<1>. QED
  BY <1>1, <1>2, <1>3, <1>6, <1>8, <1>9, HandleLightFiles

-----------------------------------------------------------------------------
(* A write, and the end of a call *)

(* The call of the holder has rest left to do.                             *)
Went(c, rest, covers) ==
  /\ job' = [job EXCEPT ![c] = With(@, rest, covers)]
  /\ UNCHANGED <<holder, requested, globals, button_scale, charge_led>>

(* ... which changes neither whose call it is nor what was asked.          *)
LEMMA WentOn ==
  ASSUME LightsInv, NEW c \in Callers, c \in holder, NEW rest \in Seq(Entries), NEW covers,
         covers \subseteq job[c].covers, Went(c, rest, covers),
         \A i \in 1 .. Len(rest) : Group(rest[i][1]) \in GroupsOf(job[c].light)
  PROVE  /\ HolderOK' /\ holder' = holder /\ holder = {c}
         /\ job'[c].light = job[c].light /\ job'[c].todo = rest /\ job'[c].covers = covers
         /\ UNCHANGED <<requested, Shown, g_last_button_brightness>> /\ \A f \in Files : Want(f)' = Want(f)
         /\ file' \in [Files -> Nat] /\ power' \in BOOLEAN => AskedOK'
<1>1. /\ job'[c] = [light |-> job[c].light, state |-> job[c].state, todo |-> rest, covers |-> covers]
      /\ \A d \in Callers \ {c} : job'[d] = job[d]
      /\ job' = [d \in Callers |-> job'[d]]
  BY DEF Went, With, LightsInv, HolderOK
<1>2. holder' = holder /\ holder = {c} /\ requested' = requested /\ UNCHANGED globals
  BY DEF Went, LightsInv, HolderOK
<1>3. HolderOK'
  BY <1>1, <1>2 DEF LightsInv, HolderOK
<1>4. Shown' = Shown /\ WhiteInstead' = WhiteInstead /\ Hidden' = Hidden
  BY <1>2 DEF Shown, WhiteInstead, Hidden
<1>5. \A f \in Files : Want(f)' = Want(f)
  BY <1>2, <1>4 DEF Want
<1>6. file' \in [Files -> Nat] /\ power' \in BOOLEAN => AskedOK'
  BY <1>2, <1>4 DEF LightsInv, AskedOK, globals, Went
<1>. QED
  BY <1>1, <1>2, <1>3, <1>4, <1>5, <1>6 DEF globals

(* What is left after the first write.                                     *)
LEMMA TailEntries ==
  ASSUME NEW todo \in Seq(Entries), todo # << >>
  PROVE  /\ Tail(todo) \in Seq(Entries) /\ Head(todo) = todo[1] /\ Head(todo) \in Entries
         /\ Len(todo) \in Nat \ {0} /\ Len(Tail(todo)) = Len(todo) - 1
         /\ \A i \in 1 .. Len(Tail(todo)) : Tail(todo)[i] = todo[i + 1]
OBVIOUS

(* A write that succeeds (lights.c:78-98): the others come to the same     *)
(* value, and the buttons' light follows the switch and the level.         *)
LEMMA WriteSucceeds ==
  ASSUME LightsInv, NEW c \in Callers, c \in holder, NEW todo, todo = job[c].todo, todo # << >>,
         NEW f0, NEW value, f0 = Head(todo)[1], value = Head(todo)[2],
         Went(c, Tail(todo), job[c].covers), UNCHANGED unsure,
         CASE f0 = "on" -> SwitchButton(value) /\ UNCHANGED file
           [] f0 = "bright" -> ProcBrightness(value) /\ UNCHANGED file
           [] OTHER -> file' = [file EXCEPT ![f0] = value] /\ UNCHANGED button
  PROVE  LightsInv'
<1>1. /\ todo \in Seq(Entries) /\ \A i \in 1 .. Len(todo) : Group(todo[i][1]) \in GroupsOf(job[c].light)
  BY DEF LightsInv, HolderOK
<1>2. /\ Tail(todo) \in Seq(Entries) /\ Head(todo) = todo[1] /\ Head(todo) \in Entries
      /\ Len(todo) \in Nat \ {0} /\ Len(Tail(todo)) = Len(todo) - 1
      /\ \A i \in 1 .. Len(Tail(todo)) : Tail(todo)[i] = todo[i + 1]
  BY <1>1, TailEntries
<1>3. \A i \in 1 .. Len(Tail(todo)) : Group(Tail(todo)[i][1]) \in GroupsOf(job[c].light)
  BY <1>1, <1>2
<1>4. f0 \in Files \cup {"on", "bright"} /\ value \in Nat /\ Head(todo) = <<f0, value>>
      /\ Group(f0) \in GroupsOf(job[c].light)
  BY <1>1, <1>2 DEF Entries
<1>5. /\ HolderOK' /\ holder' = holder /\ holder = {c}
      /\ job'[c].light = job[c].light /\ job'[c].todo = Tail(todo) /\ job'[c].covers = job[c].covers
      /\ UNCHANGED <<requested, Shown, g_last_button_brightness>> /\ \A f \in Files : Want(f)' = Want(f)
      /\ file' \in [Files -> Nat] /\ power' \in BOOLEAN => AskedOK'
  BY <1>2, <1>3, WentOn
<1>9. ASSUME f0 = "on" PROVE file' = file /\ (power' <=> value > 0) /\ power' \in BOOLEAN
  <2>1. file' = file /\ power' = (value > 0)
    BY <1>9 DEF SwitchButton
  <2>2. power' \in BOOLEAN
    BY <1>4, <2>1
  <2>3. power' <=> value > 0
    BY <1>4, <2>1
  <2>. QED
    BY <2>1, <2>2, <2>3
<1>10. f0 = "bright" => file' = file /\ power' = power /\ adlc' = brightness_to_cpcap(value)
  BY DEF ProcBrightness
<1>11. f0 \notin {"on", "bright"} => file' = [file EXCEPT ![f0] = value] /\ power' = power /\ adlc' = adlc
  BY DEF button
<1>12. file \in [Files -> Nat] /\ power \in BOOLEAN
  BY DEF LightsInv, AskedOK
<1>6. /\ file' \in [Files -> Nat] /\ power' \in BOOLEAN
      /\ \A f \in Files : file'[f] = IF f0 = f THEN value ELSE file[f]
  <2>1. CASE f0 \in {"on", "bright"}
    <3>1. file' = file /\ power' \in BOOLEAN /\ f0 \notin Files
      BY <2>1, <1>9, <1>10, <1>12 DEF Files
    <3>. QED
      BY <3>1, <1>12
  <2>2. CASE f0 \notin {"on", "bright"}
    <3>1. f0 \in Files
      BY <1>4, <2>2
    <3>. QED
      BY <2>2, <3>1, <1>4, <1>11, <1>12
  <2>. QED
    BY <2>1, <2>2
<1>7. FileInv'
  <2>1. ASSUME NEW f \in Files, Group(f) \notin unsure \/ Group(f) \in job[c].covers
        PROVE  Comes(Tail(todo), f, Want(f)', file'[f])
    <3>1. Comes(todo, f, Want(f), file[f])
      BY <2>1 DEF LightsInv, FileInv
    <3>2. Comes(Tail(todo), f, Want(f), file'[f])
      BY <1>1, <1>6, <3>1, ComesTail
    <3>. QED
      BY <1>5, <3>2
  <2>. QED
    BY <1>5, <2>1 DEF FileInv
<1>8. ButtonInv'
  <2>1. CASE job[c].light # "buttons"
    <3>1. f0 \notin {"on", "bright"}
      BY <1>4, <2>1 DEF Group, GroupsOf
    <3>2. UNCHANGED <<power, adlc>>
      BY <3>1, <1>11
    <3>3. ButtonRight' <=> ButtonRight
      BY <1>5, <3>2 DEF ButtonRight
    <3>. QED
      BY <1>5, <2>1, <3>3 DEF LightsInv, ButtonInv
  <2>2. CASE job[c].light = "buttons"
    <3>1. ASSUME "button" \notin unsure \/ "button" \in job[c].covers
          PROVE  ButtonTodo(Tail(todo))'
      <4>b. PICK w : w = requested.buttons
        OBVIOUS
      <4>a. w \in Nat /\ requested'.buttons = w
        BY <1>5, <4>b DEF LightsInv, AskedOK
      <4>1. ButtonTodo(todo)
        BY <2>2, <3>1 DEF LightsInv, ButtonInv
      <4>2. CASE todo = << <<"bright", w>> >> /\ w > 0 /\ power
        <5>1. f0 = "bright" /\ value = w /\ Tail(todo) = << >>
          BY <4>2
        <5>2. power' = power /\ adlc' = brightness_to_cpcap(w)
          BY <5>1, <1>10
        <5>3. ButtonRight'
          BY <4>2, <4>a, <5>2 DEF ButtonRight
        <5>. QED
          BY <5>1, <5>3 DEF ButtonTodo
      <4>3. CASE todo = << <<"on", 1>>, <<"bright", w>> >> /\ w > 0
        <5>1. f0 = "on" /\ value = 1 /\ Tail(todo) = << <<"bright", w>> >>
          BY <4>3
        <5>2. power'
          BY <5>1, <1>9
        <5>. QED
          BY <4>3, <4>a, <5>1, <5>2 DEF ButtonTodo
      <4>4. CASE todo = << <<"on", 0>> >> /\ w = 0
        <5>1. f0 = "on" /\ value = 0 /\ Tail(todo) = << >>
          BY <4>4
        <5>2. ~power'
          BY <5>1, <1>9
        <5>3. ButtonRight'
          BY <4>4, <4>a, <5>2 DEF ButtonRight
        <5>. QED
          BY <5>1, <5>3 DEF ButtonTodo
      <4>. QED
        BY <4>1, <4>2, <4>3, <4>4, <4>b DEF ButtonTodo
    <3>. QED
      BY <1>5, <2>2, <3>1 DEF LightsInv, ButtonInv
  <2>. QED
    BY <2>1, <2>2
<1>. QED
  BY <1>5, <1>6, <1>7, <1>8 DEF LightsInv

(* A write that fails leaves its light unsure and no longer covered, and   *)
(* ends the calls that stop at the first error.                            *)
LEMMA WriteFails ==
  ASSUME LightsInv, NEW c \in Callers, c \in holder, NEW todo, todo = job[c].todo, todo # << >>,
         NEW g, g = Group(Head(todo)[1]), unsure' = unsure \cup {g},
         Went(c, IF g \in {"lcd", "button"} THEN << >> ELSE Tail(todo), job[c].covers \ {g}),
         UNCHANGED <<file, power, adlc>>
  PROVE  LightsInv'
<1>a. PICK rest : rest = IF g \in {"lcd", "button"} THEN << >> ELSE Tail(todo)
  OBVIOUS
<1>1. /\ todo \in Seq(Entries) /\ \A i \in 1 .. Len(todo) : Group(todo[i][1]) \in GroupsOf(job[c].light)
  BY DEF LightsInv, HolderOK
<1>2. /\ Tail(todo) \in Seq(Entries) /\ Head(todo) = todo[1] /\ Head(todo) \in Entries
      /\ Len(todo) \in Nat \ {0} /\ Len(Tail(todo)) = Len(todo) - 1
      /\ \A i \in 1 .. Len(Tail(todo)) : Tail(todo)[i] = todo[i + 1]
  BY <1>1, TailEntries
<1>3. rest \in Seq(Entries) /\ \A i \in 1 .. Len(rest) : Group(rest[i][1]) \in GroupsOf(job[c].light)
  BY <1>a, <1>1, <1>2
<1>4. g \in GroupsOf(job[c].light)
  BY <1>1, <1>2
<1>5. /\ HolderOK' /\ holder' = holder /\ holder = {c}
      /\ job'[c].light = job[c].light /\ job'[c].todo = rest /\ job'[c].covers = job[c].covers \ {g}
      /\ UNCHANGED <<requested, Shown, g_last_button_brightness>> /\ \A f \in Files : Want(f)' = Want(f)
      /\ file' \in [Files -> Nat] /\ power' \in BOOLEAN => AskedOK'
  <2>1. Went(c, rest, job[c].covers \ {g}) /\ job[c].covers \ {g} \subseteq job[c].covers
    BY <1>a
  <2>. QED
    BY <1>3, <2>1, WentOn
<1>6. AskedOK'
  BY <1>5 DEF LightsInv, AskedOK
<1>7. FileInv'
  <2>1. ASSUME NEW f \in Files, Group(f) \notin unsure' \/ Group(f) \in job[c].covers \ {g}
        PROVE  Comes(rest, f, Want(f), file[f])
    <3>1. Comes(todo, f, Want(f), file[f]) /\ Group(f) # g
      BY <2>1 DEF LightsInv, FileInv
    <3>2. Head(todo)[1] # f
      BY <3>1
    <3>3. CASE g \in {"lcd", "button"}
      <4>1. GroupsOf(job[c].light) = {g}
        BY <1>4, <3>3 DEF GroupsOf
      <4>2. \A j \in 1 .. Len(todo) : todo[j][1] # f
        BY <1>1, <3>1, <4>1
      <4>. QED
        BY <1>a, <1>1, <3>1, <3>3, <4>2, ComesNot, ComesEmpty
    <3>4. CASE g \notin {"lcd", "button"}
      BY <1>a, <1>1, <3>1, <3>2, <3>4, ComesTail
    <3>. QED
      BY <3>3, <3>4
  <2>. QED
    BY <1>5, <2>1 DEF FileInv
<1>8. ButtonInv'
  <2>1. ButtonRight' <=> ButtonRight
    BY <1>5 DEF ButtonRight
  <2>2. CASE job[c].light # "buttons"
    BY <1>5, <2>1, <2>2 DEF LightsInv, ButtonInv
  <2>3. CASE job[c].light = "buttons"
    <3>1. g = "button"
      BY <1>4, <2>3 DEF GroupsOf
    <3>. QED
      BY <1>5, <2>3, <3>1 DEF LightsInv, ButtonInv
  <2>. QED
    BY <2>2, <2>3
<1>. QED
  BY <1>5, <1>6, <1>7, <1>8 DEF LightsInv

(* A step of write_int.                                                    *)
LEMMA WriteStep ==
  ASSUME LightsInv, NEW c \in Callers, WriteInt(c)
  PROVE  LightsInv'
<1>a. PICK todo : todo = job[c].todo
  OBVIOUS
<1>b. PICK f0, value : f0 = Head(todo)[1] /\ value = Head(todo)[2]
  OBVIOUS
<1>1. c \in holder /\ todo # << >>
  BY <1>a DEF WriteInt
<1>2. UNCHANGED <<holder, requested, globals, button_scale, charge_led>>
  BY DEF WriteInt, props
<1>3. CASE /\ job' = [job EXCEPT ![c] = With(@, Tail(@.todo), @.covers)]
           /\ CASE f0 = "on" -> SwitchButton(value) /\ UNCHANGED file
                [] f0 = "bright" -> ProcBrightness(value) /\ UNCHANGED file
                [] OTHER -> file' = [file EXCEPT ![f0] = value] /\ UNCHANGED button
           /\ UNCHANGED unsure
  <2>1. Went(c, Tail(todo), job[c].covers)
    BY <1>a, <1>2, <1>3 DEF Went, LightsInv, HolderOK
  <2>. QED
    BY <1>a, <1>b, <1>1, <1>3, <2>1, WriteSucceeds
<1>4. CASE /\ LET rest == IF Group(f0) \in {"lcd", "button"} THEN << >> ELSE Tail(job[c].todo)
              IN  job' = [job EXCEPT ![c] = With(@, rest, @.covers \ {Group(f0)})]
           /\ unsure' = unsure \cup {Group(f0)}
           /\ UNCHANGED <<file, button>>
  <2>1. Went(c, IF Group(f0) \in {"lcd", "button"} THEN << >> ELSE Tail(todo), job[c].covers \ {Group(f0)})
    BY <1>a, <1>2, <1>4 DEF Went, LightsInv, HolderOK
  <2>2. UNCHANGED <<file, power, adlc>> /\ unsure' = unsure \cup {Group(f0)}
    BY <1>4 DEF button
  <2>. QED
    BY <1>a, <1>b, <1>1, <2>1, <2>2, WriteFails
<1>. QED
  BY <1>a, <1>b, <1>3, <1>4 DEF WriteInt

(* The lock is given back when nothing is left to write: the files have    *)
(* the values they had to come to.                                         *)
LEMMA UnlockStep ==
  ASSUME LightsInv, NEW c \in Callers, Unlock(c)
  PROVE  LightsInv'
<1>1. /\ c \in holder /\ holder = {c} /\ holder' = {} /\ job[c].todo = << >>
      /\ job' = [job EXCEPT ![c] = NULL] /\ unsure' = unsure \ job[c].covers
  BY DEF Unlock, LightsInv, HolderOK
<1>2. UNCHANGED <<g_battery, g_notification, g_charge_led_active, g_last_button_brightness, file, power, adlc,
                  requested, button_scale, charge_led>>
  BY DEF Unlock, globals, button, props
<1>3. job'[c] = NULL /\ \A d \in Callers \ {c} : job'[d] = job[d]
  BY <1>1 DEF LightsInv, HolderOK
<1>4. job' = [d \in Callers |-> job'[d]]
  BY <1>1 DEF LightsInv, HolderOK
<1>5. HolderOK'
  BY <1>1, <1>3, <1>4 DEF LightsInv, HolderOK
<1>6. Shown' = Shown /\ WhiteInstead' = WhiteInstead /\ Hidden' = Hidden
  BY <1>2 DEF Shown, WhiteInstead, Hidden
<1>7. AskedOK'
  BY <1>2, <1>6 DEF LightsInv, AskedOK
<1>8. \A f \in Files : Want(f)' = Want(f)
  BY <1>2, <1>6 DEF Want
<1>9. FileInv'
  <2>1. ASSUME NEW f \in Files, Group(f) \notin unsure' PROVE file[f] = Want(f)
    <3>1. Comes(<< >>, f, Want(f), file[f])
      BY <1>1, <2>1 DEF LightsInv, FileInv
    <3>. QED
      BY <3>1, ComesEmpty
  <2>. QED
    BY <1>1, <1>2, <1>8, <2>1 DEF FileInv
<1>10. ButtonInv'
  <2>1. ButtonRight' <=> ButtonRight
    BY <1>2 DEF ButtonRight
  <2>2. job[c].covers \subseteq GroupsOf(job[c].light)
    BY <1>1 DEF LightsInv, HolderOK
  <2>3. ASSUME "button" \notin unsure' PROVE ButtonRight
    <3>1. "button" \notin unsure \/ "button" \in job[c].covers
      BY <1>1, <2>3
    <3>2. CASE job[c].light = "buttons"
      <4>1. ButtonTodo(<< >>)
        BY <1>1, <3>1, <3>2 DEF LightsInv, ButtonInv
      <4>. QED
        BY <4>1 DEF ButtonTodo
    <3>3. CASE job[c].light # "buttons"
      <4>1. "button" \notin unsure
        BY <2>2, <3>1, <3>3 DEF GroupsOf
      <4>. QED
        BY <1>1, <3>3, <4>1 DEF LightsInv, ButtonInv
    <3>. QED
      BY <3>2, <3>3
  <2>4. \/ g_last_button_brightness' = requested'.buttons
        \/ g_last_button_brightness' = -1 /\ "button" \in unsure'
    BY <1>1, <1>2 DEF LightsInv, ButtonInv
  <2>. QED
    BY <1>1, <2>1, <2>3, <2>4 DEF ButtonInv
<1>. QED
  BY <1>5, <1>7, <1>9, <1>10 DEF LightsInv

(* A level written to /proc/backlight/brightness behind the back of        *)
(* liblights leaves the buttons unsure, and the call under way does not    *)
(* make them sure.                                                         *)
LEMMA ByHandStep ==
  ASSUME LightsInv, WriteByHand
  PROVE  LightsInv'
<1>1. /\ UNCHANGED <<g_battery, g_notification, g_charge_led_active, g_last_button_brightness, file, power,
                     holder, requested, button_scale, charge_led>>
      /\ unsure' = unsure \cup {"button"}
      /\ job' = [c \in Callers |-> IF c \in holder THEN With(job[c], job[c].todo, job[c].covers \ {"button"})
                                   ELSE job[c]]
  BY DEF WriteByHand, ProcBrightness, globals, props
<1>2. /\ \A c \in Callers \ holder : job'[c] = job[c]
      /\ \A c \in holder : job'[c] = [light |-> job[c].light, state |-> job[c].state, todo |-> job[c].todo,
                                      covers |-> job[c].covers \ {"button"}]
  BY <1>1 DEF With, LightsInv, HolderOK
<1>3. job' = [d \in Callers |-> job'[d]]
  BY <1>1
<1>4. ASSUME NEW c \in holder
      PROVE  /\ job'[c].light = job[c].light /\ job'[c].todo = job[c].todo
             /\ job'[c].covers = job[c].covers \ {"button"}
             /\ job'[c] = [light |-> job'[c].light, state |-> job'[c].state, todo |-> job'[c].todo,
                           covers |-> job'[c].covers]
  <2>1. job'[c] = [light |-> job[c].light, state |-> job[c].state, todo |-> job[c].todo,
                   covers |-> job[c].covers \ {"button"}]
    BY <1>2
  <2>. QED
    BY <2>1
<1>5. HolderOK'
  <2>1. \A c \in Callers \ holder' : job'[c] = NULL \/ \E l \in Nat : job'[c] = ButtonJob(l)
    BY <1>1, <1>2 DEF LightsInv, HolderOK
  <2>2. ASSUME NEW c \in holder'
        PROVE  /\ job'[c] = [light |-> job'[c].light, state |-> job'[c].state, todo |-> job'[c].todo,
                             covers |-> job'[c].covers]
               /\ job'[c].todo \in Seq(Entries) /\ job'[c].covers \subseteq GroupsOf(job'[c].light)
               /\ \A i \in 1 .. Len(job'[c].todo) : Group(job'[c].todo[i][1]) \in GroupsOf(job'[c].light)
    BY <1>1, <1>4, <2>2 DEF LightsInv, HolderOK
  <2>. QED
    BY <1>1, <1>3, <2>1, <2>2 DEF LightsInv, HolderOK, ButtonJob
<1>6. Shown' = Shown /\ WhiteInstead' = WhiteInstead /\ Hidden' = Hidden
  BY <1>1 DEF Shown, WhiteInstead, Hidden
<1>7. AskedOK'
  BY <1>1, <1>6 DEF LightsInv, AskedOK
<1>8. \A f \in Files : Want(f)' = Want(f)
  BY <1>1, <1>6 DEF Want
<1>9. FileInv'
  <2>1. ASSUME NEW f \in Files, holder = {}, Group(f) \notin unsure' PROVE file'[f] = Want(f)'
    BY <1>1, <1>8, <2>1 DEF LightsInv, FileInv
  <2>2. ASSUME NEW f \in Files, NEW c \in holder, Group(f) \notin unsure' \/ Group(f) \in job'[c].covers
        PROVE  Comes(job'[c].todo, f, Want(f)', file'[f])
    <3>1. Comes(job[c].todo, f, Want(f), file[f])
      BY <1>1, <1>4, <2>2 DEF LightsInv, FileInv
    <3>. QED
      BY <1>1, <1>4, <1>8, <3>1
  <2>. QED
    BY <1>1, <2>1, <2>2 DEF FileInv
<1>10. ButtonInv'
  <2>1. \A c \in holder : "button" \notin job'[c].covers /\ "button" \in unsure'
    BY <1>1, <1>4
  <2>2. \/ g_last_button_brightness' = requested'.buttons
        \/ g_last_button_brightness' = -1
    BY <1>1 DEF LightsInv, ButtonInv
  <2>3. "button" \in unsure' /\ holder' = holder
    BY <1>1
  <2>. QED
    BY <2>1, <2>2, <2>3 DEF ButtonInv
<1>. QED
  BY <1>5, <1>7, <1>9, <1>10 DEF LightsInv

(* Before the first call nothing is sure.                                  *)
LEMMA LightsInitially == ASSUME LightsInit PROVE LightsInv
<1>1. HolderOK
  BY DEF LightsInit, HolderOK
<1>2. AskedOK
  <2>1. Dark \in ColorsOfAny
    BY DEF Dark, ColorsOfAny
  <2>2. requested \in [backlight : Backs, buttons : Nat, battery : [state : ColorsOfAny, prop : ChargeLeds],
                   notification : ColorsOfAny]
    BY <2>1 DEF LightsInit, Backs, ChargeLeds
  <2>3. ~WhiteInstead /\ ~Hidden /\ requested.battery.state = Dark /\ requested.notification = Dark
    BY DEF LightsInit, WhiteInstead, Hidden
  <2>4. file \in [Files -> Nat] /\ power \in BOOLEAN /\ button_scale \in Nat /\ charge_led \in ChargeLeds
    BY LightsAssumption DEF LightsInit, ChargeLeds
  <2>5. g_notification = Dark /\ g_charge_led_active = FALSE /\ g_battery = Dark
    BY DEF LightsInit
  <2>. QED
    BY <2>2, <2>3, <2>4, <2>5 DEF AskedOK, WhiteInstead
<1>3. FileInv
  BY DEF LightsInit, FileInv, Files, Group
<1>4. ButtonInv
  BY DEF LightsInit, ButtonInv
<1>. QED
  BY <1>1, <1>2, <1>3, <1>4 DEF LightsInv

(* Every step preserves the invariant.                                     *)
LEMMA LightsStep ==
  ASSUME LightsInv, [LightsNext]_lightsVars PROVE LightsInv'
<1>1. ASSUME NEW c \in Callers, Locked(c) PROVE LightsInv'
  <2>1. HolderOK
    BY DEF LightsInv
  <2>. QED
    BY <1>1, <2>1, LockedKinds, TookBacklightStep, TookButtonsStep, TookBatteryStep, TookNotificationStep
<1>2. button_scale \in Nat /\ charge_led \in ChargeLeds
  BY DEF LightsInv, AskedOK
<1>3. CASE SetScale
  <2>1. UNCHANGED Seen /\ button_scale' \in Nat /\ charge_led' = charge_led
    BY <1>3, LightsAssumption DEF SetScale, Seen, globals, button
  <2>. QED
    BY <1>2, <2>1, Frame
<1>4. CASE SetChargeLed
  <2>1. UNCHANGED Seen /\ button_scale' = button_scale /\ charge_led' \in ChargeLeds
    BY <1>4 DEF SetChargeLed, ChargeLeds, Seen, globals, button
  <2>. QED
    BY <1>2, <2>1, Frame
<1>5. CASE LoadBacklight \/ UnloadBacklight \/ SetHook \/ LoadUsbLed \/ UnloadUsbLed \/ UNCHANGED lightsVars
  <2>1. UNCHANGED Seen /\ UNCHANGED <<button_scale, charge_led>>
    BY <1>5 DEF LoadBacklight, UnloadBacklight, SetHook, LoadUsbLed, UnloadUsbLed, lightsVars, Seen, globals, button, props
  <2>. QED
    BY <1>2, <2>1, Frame
<1>. QED
  BY <1>1, <1>3, <1>4, <1>5, ScaleStep, WriteStep, UnlockStep, ByHandStep DEF LightsNext, Modules

(* LightsInv holds whatever the callers ask for, in any number, and        *)
(* whichever writes fail.                                                  *)
LEMMA LightsInvariant == LightsSpec => []LightsInv
<1>1. LightsInit => LightsInv
  BY LightsInitially
<1>2. LightsInv /\ [LightsNext]_lightsVars => LightsInv'
  BY LightsStep
<1>. QED
  BY <1>1, <1>2, PTL DEF LightsSpec

(* Unless a write has failed since, the backlight and the led show the     *)
(* last calls and the priority of handle_light_locked (lights.c:212-228),  *)
(* for any callers and colours.                                            *)
THEOREM LastCallIsShown == LightsSpec => []LastCallShown
<1>3. LightsInv => LastCallShown
  <2>1. SUFFICES ASSUME LightsInv PROVE LastCallShown
    OBVIOUS
  <2>2. ASSUME NEW f \in Files, Settled(Group(f)) PROVE file[f] = Want(f)
    BY <2>1, <2>2 DEF LightsInv, FileInv, Settled
  <2>3. /\ requested.backlight \in Backs /\ Shown.flash \in BOOLEAN
    BY <2>1 DEF LightsInv, AskedOK, Shown, Dark, ColorsOfAny
  <2>4. ASSUME Settled("lcd") PROVE [als |-> file["als"], lcd |-> file["lcd"]] = requested.backlight
    <3>1. file["als"] = requested.backlight.als /\ file["lcd"] = requested.backlight.lcd
      BY <2>2, <2>4 DEF Files, Group, Want
    <3>. QED
      BY <2>3, <3>1 DEF Backs
  <2>5. ASSUME Settled("rgb") PROVE Shows(Shown)
    <3>1. file["red"] = Shown.red /\ file["green"] = Shown.green /\ file["blue"] = Shown.blue
      BY <2>2, <2>5 DEF Files, Group, Want
    <3>2. file["blink"] = IF Shown.flash THEN 255 ELSE 0
      BY <2>2, <2>5 DEF Files, Group, Want
    <3>3. (file["blink"] > 0) <=> Shown.flash
      BY <2>3, <3>2
    <3>. QED
      BY <3>1, <3>3 DEF Shows
  <2>6. ASSUME Settled("charge") PROVE file["charge"] > 0 <=> WhiteInstead /\ ~is_lit(requested.notification)
    <3>1. file["charge"] = IF WhiteInstead /\ ~is_lit(requested.notification) THEN 1 ELSE 0
      BY <2>2, <2>6 DEF Files, Group, Want
    <3>. QED
      BY <3>1
  <2>. QED
    BY <2>4, <2>5, <2>6 DEF LastCallShown, Shown
<1>. QED
  BY <1>3, LightsInvariant, PTL

(* Unless a write has failed since the light was last switched, sparing    *)
(* writes by g_last_button_brightness (lights.c:144-181) never keeps the   *)
(* buttons from what the last call asked for.                              *)
THEOREM ButtonIsShown == LightsSpec => []ButtonShown
<1>1. LightsInv => ButtonShown
  BY DEF LightsInv, ButtonInv, ButtonShown, ButtonRight, Settled
<1>. QED
  BY <1>1, LightsInvariant, PTL

-----------------------------------------------------------------------------
(***************************************************************************)
(* Interactive: what START puts in place, STOP takes away.                 *)
(***************************************************************************)

(* Types, and who holds the idle hook: the hook is in place while the      *)
(* governor runs on a policy or is being unhooked, and what is saved to be *)
(* put back is never the hook itself.                                      *)
HooksOK ==
  /\ active_count \in Nat /\ running \in BOOLEAN /\ timer \in BOOLEAN
  /\ event \in {"none", "create", "limits", "unhook", "delete"}
  /\ running => active_count >= 1 /\ event \in {"none", "limits"}
  /\ event = "limits" => running
  /\ event = "create" => active_count = 1 /\ pm_idle # "interactive"
  /\ pm_idle = "interactive" => (running /\ active_count = 1) \/ event = "unhook"
  /\ pm_idle_old # "interactive"

(* The governor has replaced pm_idle.                                      *)
Hooked == running \/ event = "unhook"

(* Unless a start has failed half-way, the count of policies, the hook,    *)
(* what it saved and the timer say the same.                               *)
StartedOK ==
  /\ active_count = IF running \/ event = "create" THEN 1 ELSE 0
  /\ pm_idle = IF Hooked THEN "interactive" ELSE "platform"
  /\ Hooked => pm_idle_old = "platform"
  /\ timer => Hooked \/ event = "delete"

(* The inductive invariant.                                                *)
StopInv == HooksOK /\ (mode # "failing" => StartedOK)

(* Every step of the governor, of the timer, of the idle loop and of the   *)
(* core preserves it.                                                      *)
LEMMA StopStep ==
  ASSUME StopInv, [InteractiveNext]_interactiveVars
  PROVE  StopInv'
<1>. USE DEF StopInv, HooksOK, StartedOK, Hooked, times, hooks, core
<1>1. CASE UNCHANGED <<timer, hooks, core>>
  BY <1>1
<1>2. CASE Timer
  <2>1. UNCHANGED <<hooks, core>> /\ timer
    BY <1>2 DEF Timer, TimerUp, TimerDown
  <2>2. timer' \in BOOLEAN
    BY <1>2 DEF Timer, TimerUp, TimerDown, Rearms
  <2>. QED
    BY <2>1, <2>2
<1>3. CASE Idle
  <2>1. UNCHANGED <<hooks, core>> /\ timer' \in BOOLEAN /\ (timer' => timer \/ pm_idle = "interactive")
    BY <1>3 DEF Idle
  <2>. QED
    BY <2>1
<1>4. CASE GovStart
  <2>1. /\ event = "none" /\ ~running /\ active_count' = active_count + 1
        /\ UNCHANGED <<timer, pm_idle, pm_idle_old, mode>>
    BY <1>4 DEF GovStart
  <2>2. CASE active_count = 0
    <3>1. event' = "create" /\ UNCHANGED running
      BY <1>4, <2>2 DEF GovStart
    <3>. QED
      BY <2>1, <2>2, <3>1
  <2>3. CASE active_count # 0
    <3>1. running' = TRUE /\ UNCHANGED event
      BY <1>4, <2>3 DEF GovStart
    <3>. QED
      BY <2>1, <2>3, <3>1
  <2>. QED
    BY <2>2, <2>3
<1>5. CASE GovStop
  <2>1. /\ event = "none" /\ running /\ ~running' /\ active_count' = active_count - 1
        /\ running' \in BOOLEAN
        /\ event' = IF active_count' > 1 THEN "none" ELSE "unhook"
        /\ UNCHANGED <<timer, pm_idle, pm_idle_old, mode>>
    BY <1>5 DEF GovStop, StillUsed
  <2>. QED
    BY <2>1
<1>6. CASE SetPolicy
  <2>1. UNCHANGED <<timer, hooks, running, mode>> /\ event = "none"
        /\ event' = IF running THEN "limits" ELSE "none"
    BY <1>6 DEF SetPolicy
  <2>. QED
    BY <2>1
<1>7. CASE FilesFail
  BY <1>7 DEF FilesFail
<1>8. CASE GovStartHooks
  BY <1>8 DEF GovStartHooks
<1>9. CASE GovStopUnhooks
  BY <1>9 DEF GovStopUnhooks
<1>10. CASE GovStopDeletes
  BY <1>10 DEF GovStopDeletes
<1>11. CASE GovLimits
  <2>1. UNCHANGED <<timer, hooks, running, mode>> /\ event = "limits" /\ event' = "none"
    BY <1>11 DEF GovLimits
  <2>. QED
    BY <2>1
<1>12. CASE Demand \/ Worker
  <2>1. UNCHANGED <<timer, hooks, core>>
    BY <1>12 DEF Demand, Worker, WorkBegins, WorkGoes, Compare, SetHighest, Calculate, SetLowest,
         ClearMask
  <2>. QED
    BY <2>1
<1>13. CASE UNCHANGED interactiveVars
  BY <1>13 DEF interactiveVars
<1>. QED
  BY <1>2, <1>3, <1>4, <1>5, <1>6, <1>7, <1>8, <1>9, <1>10, <1>11, <1>12, <1>13 DEF InteractiveNext, CoreStep

(* Once the governor has stopped, nothing of it is left behind: no hook,   *)
(* no timer (cpufreq_interactive.c:243-273), unless a start failed half-   *)
(* way.                                                                    *)
THEOREM StopsAreClean == InteractiveSpec => []StopsClean
<1>1. InteractiveInit => StopInv
  <2>1. SUFFICES ASSUME InteractiveInit PROVE HooksOK /\ StartedOK
    BY DEF StopInv
  <2>. QED
    BY <2>1 DEF InteractiveInit, HooksOK, StartedOK, Hooked
<1>2. StopInv /\ [InteractiveNext]_interactiveVars => StopInv'
  BY StopStep
<1>3. StopInv => StopsClean
  BY DEF StopInv, HooksOK, StartedOK, Hooked, StopsClean
<1>. QED
  BY <1>1, <1>2, <1>3, PTL DEF InteractiveSpec

=============================================================================
