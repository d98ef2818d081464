-------------------------------- MODULE Sio --------------------------------
(***************************************************************************)
(* The "simple I/O scheduler" of modules/overclock/sio-iosched.c, together *)
(* with the part of the 2.6.32 block layer that calls it: requests are     *)
(* allocated, added to the elevator, merged with a neighbour, dispatched   *)
(* to the driver and completed, and the elevator may be switched away,     *)
(* which drains it and calls sio_exit_queue.                               *)
(*                                                                         *)
(* Every elevator call is made under the queue lock, so each handler is    *)
(* one atomic action.                                                      *)
(***************************************************************************)
EXTENDS Integers, SequencesExt

CONSTANTS
  Req,        \* the request structures of the queue
  SyncOf,     \* rq_is_sync of each request
  DirOf,      \* rq_data_dir of each request
  Expire,     \* the four *_expire defaults, in ticks
  FifoBatch,  \* the fifo_batch default
  Garbage,    \* what an uninitialised unsigned int of sio_data may hold
  Word,       \* 2^w for the unsigned counters of sio_data
  Inputs      \* what user space writes to the sysfs files

Lists == {"ASYNC", "SYNC"} \X {"READ", "WRITE"}

IntMax == Word \div 2 - 1

ASSUME SioAssumption ==
  /\ SyncOf \in [Req -> {"ASYNC", "SYNC"}]
  /\ DirOf \in [Req -> {"READ", "WRITE"}]
  /\ Word \in Nat \ {0, 1}
  /\ FifoBatch \in 0 .. IntMax
  /\ Expire \in [Lists -> 0 .. IntMax]
  /\ Garbage \subseteq 0 .. Word - 1
  /\ Inputs \subseteq Int

VARIABLES
  fifo,            \* fifo_list[sync][dir]: four queues of requests
  left,            \* ticks until the deadline of a queued request, -1 once past
  batched,         \* dispatched since the last look at the deadlines
  starved,         \* reads dispatched since the last write
  fifo_expire,     \* settings, writable through sysfs
  fifo_batch,
  writes_starved,
  req,             \* where the block layer has each request
  phase,           \* "run", "switch" (elevator being replaced), "gone"
  streak           \* history: reads dispatched past a waiting write in a row

settings == <<fifo_expire, fifo_batch, writes_starved>>
vars == <<fifo, left, batched, starved, settings, req, phase, streak>>

HomeOf(r) == <<SyncOf[r], DirOf[r]>>
IsWrite(l) == l[2] = "WRITE"
Other(dir) == IF dir = "READ" THEN "WRITE" ELSE "READ"

NonEmpty == {l \in Lists : fifo[l] # <<>>}
WriteWaiting == \E l \in NonEmpty : IsWrite(l)

(***************************************************************************)
(* sio_init_queue.  kmalloc_node does not clear the memory, and neither    *)
(* starved nor writes_starved is assigned: both hold whatever was there.   *)
(***************************************************************************)
Init ==
  /\ fifo = [l \in Lists |-> <<>>]
  /\ left = [r \in Req |-> 0]
  /\ batched = 0
  /\ starved \in Garbage
  /\ writes_starved \in Garbage
  /\ fifo_expire = Expire
  /\ fifo_batch = FifoBatch
  /\ req = [r \in Req |-> "free"]
  /\ phase = "run"
  /\ streak = 0

-----------------------------------------------------------------------------
(* The block layer allocates a request; not once the switch has begun.     *)
Allocate(r) ==
  /\ phase = "run"
  /\ req[r] = "free"
  /\ req' = [req EXCEPT ![r] = "alloc"]
  /\ UNCHANGED <<fifo, left, batched, starved, settings, phase, streak>>

(* sio_add_request: list_add_tail, so the oldest request is at the head;   *)
(* the deadline is now + the expire time of the list.                      *)
EnqueueAtHead(q, r) == <<r>> \o q
Enqueue(q, r) == Append(q, r)

AddRequest(r) ==
  LET l == HomeOf(r) IN
  /\ req[r] = "alloc"
  /\ req' = [req EXCEPT ![r] = "queued"]
  /\ left' = [left EXCEPT ![r] = fifo_expire[l]]
  /\ fifo' = [fifo EXCEPT ![l] = Enqueue(@, r)]
  /\ UNCHANGED <<batched, starved, settings, phase, streak>>

(***************************************************************************)
(* sio_merged_requests(rq, next) for the neighbours at i and i + 1 of list *)
(* l.  Moving rq behind next and then deleting next leaves rq at i, so the *)
(* two branches differ in the deadline only.  rq_fifo_clear unlinks next   *)
(* and erases its deadline.                                                *)
(***************************************************************************)
EarlierDeadline(a, b) == IF b < a THEN b ELSE a

UnlinkNothing(q, i) == q
Unlink(q, i) == RemoveAt(q, i)

MergedRequests(l, i) ==
  LET rq == fifo[l][i]
      next == fifo[l][i + 1]
  IN  /\ left' = [left EXCEPT ![rq] = EarlierDeadline(@, left[next]),
                              ![next] = 0]
      /\ fifo' = [fifo EXCEPT ![l] = Unlink(@, i + 1)]
      /\ req' = [req EXCEPT ![next] = "free"]
      /\ UNCHANGED <<batched, starved, settings, phase, streak>>

(***************************************************************************)
(* sio_latter_request and sio_former_request return NULL at the head of    *)
(* the list the request's own flags name.  A request linked anywhere else  *)
(* would get a neighbour that is not a request.                            *)
(***************************************************************************)
HasLatter(l, i) == ~(i = Len(fifo[l]) /\ l = HomeOf(fifo[l][i]))
HasFormer(l, i) == ~(i = 1 /\ l = HomeOf(fifo[l][i]))

(* A bio grew request i at its end (or at its start) up to its neighbour.  *)
BackMerge(l, i) ==
  /\ phase # "gone"
  /\ HasLatter(l, i)
  /\ MergedRequests(l, i)

FrontMerge(l, i) ==
  /\ phase # "gone"
  /\ HasFormer(l, i)
  /\ MergedRequests(l, i - 1)

-----------------------------------------------------------------------------
(* sio_expired_request looks at the head of a list only.                   *)
HeadExpired(l) == fifo[l] # <<>> /\ left[Head(fifo[l])] < 0

Expired == {l \in Lists : HeadExpired(l)}

(* sio_choose_expired_request: asynchronous first, writes before reads.    *)
ExpiredOrder ==
  << <<"ASYNC", "WRITE">>, <<"ASYNC", "READ">>,
     <<"SYNC", "WRITE">>, <<"SYNC", "READ">> >>

(* sio_choose_request: the wanted direction first, synchronous first.      *)
ChooseOrder(dir) ==
  << <<"SYNC", dir>>, <<"ASYNC", dir>>,
     <<"SYNC", Other(dir)>>, <<"ASYNC", Other(dir)>> >>

FirstOf(order, S, l) ==
  \E k \in 1 .. 4 : /\ order[k] = l
                    /\ l \in S
                    /\ \A j \in 1 .. k - 1 : order[j] \notin S

WantedDirAlwaysRead == "READ"
WantedDir == IF starved > writes_starved THEN "WRITE" ELSE "READ"

(* Time to look at the deadlines again.                                    *)
BatchOver == batched > fifo_batch

(* The history variable counts no further than this.                       *)
StreakCap == Word + 1

(* sio_dispatch_request: the head of list l goes to the driver.            *)
CountBatchNot(count) == count
CountBatch(count) == count + 1

CountStarved(l) == IF IsWrite(l) THEN 0 ELSE (starved + 1) % Word

DispatchRequest(l, count) ==
  /\ fifo' = [fifo EXCEPT ![l] = Tail(@)]
  /\ req' = [req EXCEPT ![Head(fifo[l])] = "sent"]
  /\ left' = [left EXCEPT ![Head(fifo[l])] = 0]
  /\ batched' = CountBatch(count)
  /\ starved' = CountStarved(l)
  /\ streak' = IF IsWrite(l) \/ ~WriteWaiting THEN 0
               ELSE IF streak < StreakCap THEN streak + 1 ELSE streak
  /\ UNCHANGED <<settings, phase>>

(* The three ways through sio_dispatch_requests.                           *)
DispatchExpired(l) ==
  /\ phase # "gone"
  /\ BatchOver
  /\ FirstOf(ExpiredOrder, Expired, l)
  /\ DispatchRequest(l, 0)

DispatchChosen(l) ==
  /\ phase # "gone"
  /\ BatchOver => Expired = {}
  /\ FirstOf(ChooseOrder(WantedDir), NonEmpty, l)
  /\ DispatchRequest(l, IF BatchOver THEN 0 ELSE batched)

DispatchNothing ==
  /\ phase # "gone"
  /\ NonEmpty = {}
  /\ batched' = IF BatchOver THEN 0 ELSE batched
  /\ UNCHANGED <<fifo, left, starved, settings, req, phase, streak>>

Dispatch == \E l \in Lists : DispatchExpired(l) \/ DispatchChosen(l)

(* The driver finishes a request and the block layer frees it.             *)
Complete(r) ==
  /\ req[r] = "sent"
  /\ req' = [req EXCEPT ![r] = "free"]
  /\ UNCHANGED <<fifo, left, batched, starved, settings, phase, streak>>

-----------------------------------------------------------------------------
(* A jiffy passes.  How long ago a deadline passed is never looked at.     *)
Tick ==
  LET queued == {r \in Req : req[r] = "queued" /\ left[r] >= 0} IN
  /\ queued # {}
  /\ left' = [r \in Req |-> IF r \in queued THEN left[r] - 1 ELSE left[r]]
  /\ UNCHANGED <<fifo, batched, starved, settings, req, phase, streak>>

(* The elevator is replaced: no new request, drain, and once every request *)
(* that belongs to it has completed, sio_exit_queue.                       *)
BeginSwitch ==
  /\ phase = "run"
  /\ phase' = "switch"
  /\ UNCHANGED <<fifo, left, batched, starved, settings, req, streak>>

ExitQueue ==
  /\ phase = "switch"
  /\ \A r \in Req : req[r] = "free"
  /\ phase' = "gone"
  /\ UNCHANGED <<fifo, left, batched, starved, settings, req, streak>>

-----------------------------------------------------------------------------
(* sysfs writes: STORE_FUNCTION clamps to 0 .. INT_MAX.                    *)
Clamped(v) == IF v < 0 THEN 0 ELSE IF v > IntMax THEN IntMax ELSE v

StoreExpire(l, v) ==
  /\ phase = "run"
  /\ fifo_expire' = [fifo_expire EXCEPT ![l] = Clamped(v)]
  /\ UNCHANGED <<fifo, left, batched, starved, fifo_batch, writes_starved,
                 req, phase, streak>>

StoreFifoBatch(v) ==
  /\ phase = "run"
  /\ fifo_batch' = Clamped(v)
  /\ UNCHANGED <<fifo, left, batched, starved, fifo_expire, writes_starved,
                 req, phase, streak>>

StoreWritesStarved(v) ==
  /\ phase = "run"
  /\ writes_starved' = Clamped(v)
  /\ UNCHANGED <<fifo, left, batched, starved, fifo_expire, fifo_batch,
                 req, phase, streak>>

-----------------------------------------------------------------------------
Next ==
  \/ \E r \in Req : Allocate(r) \/ AddRequest(r) \/ Complete(r)
  \/ \E l \in Lists : \E i \in 1 .. Len(fifo[l]) :
       BackMerge(l, i) \/ FrontMerge(l, i)
  \/ \E l \in Lists : DispatchExpired(l)
  \/ \E l \in Lists : DispatchChosen(l)
  \/ DispatchNothing
  \/ Tick
  \/ BeginSwitch
  \/ ExitQueue

Store ==
  \/ \E l \in Lists, v \in Inputs : StoreExpire(l, v)
  \/ \E v \in Inputs : StoreFifoBatch(v)
  \/ \E v \in Inputs : StoreWritesStarved(v)

-----------------------------------------------------------------------------
(* The settings keep the values sio_init_queue gave them.                  *)
Spec == Init /\ [][Next]_vars

(* The settings may be written at any time.                                *)
TunedSpec == Init /\ [][Next \/ Store]_vars

(* The block layer keeps running the queue while it holds a request, and   *)
(* time passes.  Nothing makes user space submit, or stop submitting.      *)
FairSpec == Spec /\ WF_vars(Dispatch) /\ WF_vars(Tick)

-----------------------------------------------------------------------------
(* Type invariant: among others, the counters stay in an unsigned int and  *)
(* a request is never more than its list's expire time from its deadline.  *)
TypeOK ==
  /\ fifo \in [Lists -> Seq(Req)]
  /\ left \in [Req -> -1 .. IntMax]
  /\ batched \in 0 .. Word
  /\ starved \in 0 .. Word - 1
  /\ fifo_expire \in [Lists -> 0 .. IntMax]
  /\ fifo_batch \in 0 .. IntMax
  /\ writes_starved \in 0 .. Word - 1
  /\ req \in [Req -> {"free", "alloc", "queued", "sent"}]
  /\ phase \in {"run", "switch", "gone"}
  /\ streak \in 0 .. StreakCap

(* The elevator and the block layer agree: a request is linked exactly     *)
(* once, in the list its own flags name, iff it is queued.  The list heads *)
(* sio_former_request and sio_latter_request compare with depend on it.    *)
OnePlace ==
  /\ \A l \in Lists : \A i \in 1 .. Len(fifo[l]) :
       /\ HomeOf(fifo[l][i]) = l
       /\ req[fifo[l][i]] = "queued"
       /\ \A j \in 1 .. Len(fifo[l]) : fifo[l][i] = fifo[l][j] => i = j
  /\ \A r \in Req : req[r] = "queued" =>
       \E i \in 1 .. Len(fifo[HomeOf(r)]) : fifo[HomeOf(r)][i] = r

(* The BUG_ONs of sio_exit_queue never fire: merging, dispatching and      *)
(* draining leave nothing behind.                                          *)
ExitEmpty == phase = "gone" => NonEmpty = {}

(* Looking at the heads only is enough: when the batch is over and any     *)
(* queued request has passed its deadline, sio_dispatch_requests sends one *)
(* that has.                                                               *)
NoMissedDeadline ==
  [][\A r, q \in Req :
       /\ BatchOver
       /\ req[q] = "queued" /\ left[q] < 0
       /\ req[r] = "queued" /\ req'[r] = "sent"
       => left[r] < 0]_vars

(* Reads cannot pass a waiting write for long: writes_starved + 1 of them  *)
(* by choice (the test is >), one more that has expired, and another if    *)
(* the counter wraps on the way.  This needs fifo_batch > 0, and a setting *)
(* that is not among the two largest an unsigned int holds.                *)
ReadsBounded ==
  fifo_batch > 0 /\ writes_starved < Word - 2 => streak <= writes_starved + 3

(* "max times reads can starve a write" (line 32) is 2, and so many more   *)
(* pass it as ReadsBounded says.  sio_init_queue never stores the 2.       *)
FewStarvedWrites == streak <= 2 + 3

(* Every queued request leaves the elevator, whatever else is submitted,   *)
(* as long as a batch is longer than the reads that may starve a write:    *)
(* each batch then serves a synchronous write, whether or not the look at  *)
(* the deadlines between two batches always finds an asynchronous one.     *)
NoStarvation ==
  \A r \in Req : writes_starved + 1 < fifo_batch /\ req[r] = "queued"
                   ~> req[r] # "queued"

=============================================================================
