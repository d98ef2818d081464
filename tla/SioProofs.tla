----------------------------- MODULE SioProofs -----------------------------
(***************************************************************************)
(* Proofs about two components that share no name: the simple I/O          *)
(* scheduler of Sio, for every set of requests and every value of the      *)
(* settings; and, at the end, the operating points and the statistics of   *)
(* Overclock, for any points, writers and inputs.                          *)
(***************************************************************************)
EXTENDS Sio, Overclock, CpufreqTableProofs, SequenceTheorems, FiniteSetTheorems, TLAPS

-----------------------------------------------------------------------------
(* What the three list operations of the scheduler return.                 *)

(* list_add_tail: the queue grows by one at its end.                       *)
LEMMA EnqueueProperties ==
  ASSUME NEW S, NEW q \in Seq(S), NEW r \in S
  PROVE  /\ Enqueue(q, r) \in Seq(S)
         /\ Len(Enqueue(q, r)) = Len(q) + 1
         /\ \A i \in 1 .. Len(q) : Enqueue(q, r)[i] = q[i]
         /\ Enqueue(q, r)[Len(q) + 1] = r
  BY AppendProperties DEF Enqueue

(* list_del: the queue closes over the removed place.                      *)
LEMMA UnlinkProperties ==
  ASSUME NEW S, NEW q \in Seq(S), NEW i \in 1 .. Len(q)
  PROVE  /\ Unlink(q, i) \in Seq(S)
         /\ Len(Unlink(q, i)) = Len(q) - 1
         /\ \A j \in 1 .. Len(q) - 1 :
              Unlink(q, i)[j] = IF j < i THEN q[j] ELSE q[j + 1]
<1> DEFINE a == SubSeq(q, 1, i - 1)
           b == SubSeq(q, i + 1, Len(q))
<1>1. /\ a \in Seq(S)
      /\ Len(a) = i - 1
      /\ \A j \in 1 .. i - 1 : a[j] = q[j]
  OBVIOUS
<1>2. /\ b \in Seq(S)
      /\ Len(b) = Len(q) - i
      /\ \A j \in 1 .. Len(q) - i : b[j] = q[i + j]
  OBVIOUS
<1>3. Unlink(q, i) = a \o b
  BY DEF Unlink, RemoveAt
<1> HIDE DEF a, b
<1>4. /\ a \o b \in Seq(S)
      /\ Len(a \o b) = Len(a) + Len(b)
      /\ \A j \in 1 .. Len(a) + Len(b) :
           (a \o b)[j] = IF j <= Len(a) THEN a[j] ELSE b[j - Len(a)]
  BY <1>1, <1>2, ConcatProperties
<1> QED  BY <1>1, <1>2, <1>3, <1>4, LenProperties

-----------------------------------------------------------------------------
(* The elevator's lists and the block layer's view of the requests.        *)

Structure == TypeOK /\ OnePlace

(* The four ways of leaving a list, seen as one: the request at place k of *)
(* list l is unlinked and is no longer queued.                             *)
LEMMA RemovalKeepsOnePlace ==
  ASSUME Structure,
         NEW l \in Lists, NEW k \in 1 .. Len(fifo[l]),
         NEW q \in Seq(Req), NEW x \in {"free", "sent"},
         Len(q) = Len(fifo[l]) - 1,
         \A j \in 1 .. Len(fifo[l]) - 1 :
           q[j] = IF j < k THEN fifo[l][j] ELSE fifo[l][j + 1],
         fifo' = [fifo EXCEPT ![l] = q],
         req' = [req EXCEPT ![fifo[l][k]] = x]
  PROVE  OnePlace'
<1> DEFINE gone == fifo[l][k]
<1>1. /\ fifo \in [Lists -> Seq(Req)]
      /\ req \in [Req -> {"free", "alloc", "queued", "sent"}]
  BY DEF Structure, TypeOK
<1>2. fifo[l] \in Seq(Req) /\ Len(fifo[l]) \in Nat /\ gone \in Req
  BY <1>1
<1>3. \A m \in Lists : m # l => fifo'[m] = fifo[m]
  BY <1>1
<1>4. fifo'[l] = q
  BY <1>1
<1>5. req'[gone] = x /\ \A r \in Req : r # gone => req'[r] = req[r]
  BY <1>1, <1>2
<1>6. \A m \in Lists : \A i \in 1 .. Len(fifo[m]) : fifo[m][i] \in Req
  BY <1>1
<1>7. ASSUME NEW m \in Lists, NEW i \in 1 .. Len(fifo'[m])
      PROVE  /\ HomeOf(fifo'[m][i]) = m
             /\ req'[fifo'[m][i]] = "queued"
             /\ \A j \in 1 .. Len(fifo'[m]) :
                  fifo'[m][i] = fifo'[m][j] => i = j
  <2>1. CASE m # l
    <3>1. \A j \in 1 .. Len(fifo[m]) : fifo[m][j] # gone
      BY <2>1, <1>2 DEF Structure, OnePlace
    <3>2. fifo'[m] = fifo[m]
      BY <1>3, <2>1
    <3> QED  BY <1>5, <1>6, <3>1, <3>2 DEF Structure, OnePlace
  <2>2. CASE m = l
    <3>1. \A j \in 1 .. Len(q) :
            \E p \in 1 .. Len(fifo[l]) :
              /\ p # k
              /\ p = IF j < k THEN j ELSE j + 1
              /\ q[j] = fifo[l][p]
      BY <1>2
    <3>2. ASSUME NEW j \in 1 .. Len(q)
          PROVE  /\ q[j] \in Req
                 /\ HomeOf(q[j]) = l
                 /\ req[q[j]] = "queued"
                 /\ q[j] # gone
      <4>1. PICK p \in 1 .. Len(fifo[l]) : p # k /\ q[j] = fifo[l][p]
        BY <3>1
      <4> QED  BY <4>1, <1>6 DEF Structure, OnePlace
    <3>3. \A j \in 1 .. Len(q), n \in 1 .. Len(q) : q[j] = q[n] => j = n
      BY <3>1, <1>2 DEF Structure, OnePlace
    <3> QED  BY <1>4, <1>5, <2>2, <3>2, <3>3
  <2> QED  BY <2>1, <2>2
<1>8. ASSUME NEW r \in Req, req'[r] = "queued"
      PROVE  \E i \in 1 .. Len(fifo'[HomeOf(r)]) : fifo'[HomeOf(r)][i] = r
  <2>1. r # gone /\ req[r] = "queued"
    BY <1>5, <1>8
  <2>2. PICK p \in 1 .. Len(fifo[HomeOf(r)]) : fifo[HomeOf(r)][p] = r
    BY <2>1 DEF Structure, OnePlace
  <2>3. HomeOf(r) \in Lists
    BY SioAssumption DEF HomeOf, Lists
  <2>4. CASE HomeOf(r) # l
    BY <2>2, <2>3, <2>4, <1>3
  <2>5. CASE HomeOf(r) = l
    <3>1. p # k
      BY <2>1, <2>2, <2>5
    <3>2. CASE p < k
      <4>1. p \in 1 .. Len(q) /\ q[p] = r
        BY <2>2, <2>5, <3>2, <1>2
      <4> QED  BY <4>1, <2>5, <1>4
    <3>3. CASE p > k
      <4>1. p - 1 \in 1 .. Len(q) /\ q[p - 1] = r
        BY <2>2, <2>5, <3>3, <1>2
      <4> QED  BY <4>1, <2>5, <1>4
    <3> QED  BY <3>1, <3>2, <3>3, <1>2, <2>2, <2>5
  <2> QED  BY <2>4, <2>5
<1> QED  BY <1>7, <1>8 DEF OnePlace

(* What the constants say of the word and of an int.                       *)
LEMMA WordFacts ==
  /\ Word \in Nat /\ Word > 1
  /\ IntMax \in Nat /\ IntMax + 1 <= Word
  /\ FifoBatch \in 0 .. IntMax
  /\ Expire \in [Lists -> 0 .. IntMax]
  /\ \A r \in Req : HomeOf(r) \in Lists
BY SioAssumption DEF IntMax, HomeOf, Lists

(* An elevator that has been initialised holds no request.                 *)
LEMMA InitStructure == Init => Structure
BY WordFacts, SioAssumption DEF Init, Structure, TypeOK, OnePlace, StreakCap

(* A merge removes the later of two neighbours of one list.                *)
LEMMA MergeKeepsStructure ==
  ASSUME Structure, NEW l \in Lists, NEW i \in 1 .. Len(fifo[l]),
         i + 1 <= Len(fifo[l]), MergedRequests(l, i)
  PROVE  Structure'
<1> DEFINE rq == fifo[l][i]
           next == fifo[l][i + 1]
           q == Unlink(fifo[l], i + 1)
<1>1. fifo[l] \in Seq(Req) /\ i + 1 \in 1 .. Len(fifo[l]) /\ Len(fifo[l]) \in Nat
  BY DEF Structure, TypeOK
<1>2. rq \in Req /\ next \in Req
  BY <1>1
<1>3. /\ q \in Seq(Req)
      /\ Len(q) = Len(fifo[l]) - 1
      /\ \A j \in 1 .. Len(fifo[l]) - 1 :
           q[j] = IF j < i + 1 THEN fifo[l][j] ELSE fifo[l][j + 1]
  BY <1>1, UnlinkProperties
<1> HIDE DEF q
<1>4. /\ fifo' = [fifo EXCEPT ![l] = q]
      /\ req' = [req EXCEPT ![next] = "free"]
      /\ left' = [left EXCEPT ![rq] = EarlierDeadline(left[rq], left[next]),
                              ![next] = 0]
      /\ UNCHANGED <<batched, starved, fifo_expire, fifo_batch,
                     writes_starved, phase, streak>>
  BY DEF MergedRequests, q, settings
<1>5. OnePlace'
  <2>1. "free" \in {"free", "sent"}
    OBVIOUS
  <2> QED  BY <2>1, <1>1, <1>3, <1>4, RemovalKeepsOnePlace
<1>6. left' \in [Req -> -1 .. IntMax]
  <2>1. left \in [Req -> -1 .. IntMax] /\ 0 \in -1 .. IntMax
    BY WordFacts DEF Structure, TypeOK
  <2>2. EarlierDeadline(left[rq], left[next]) \in -1 .. IntMax
    BY <1>2, <2>1 DEF EarlierDeadline
  <2> QED  BY <1>2, <1>4, <2>1, <2>2
<1>7. fifo' \in [Lists -> Seq(Req)] /\ req' \in [Req -> {"free", "alloc", "queued", "sent"}]
  BY <1>2, <1>3, <1>4 DEF Structure, TypeOK
<1> QED  BY <1>4, <1>5, <1>6, <1>7 DEF Structure, TypeOK, StreakCap

(* The head of a list leaves the elevator for the driver.                  *)
LEMMA DispatchKeepsStructure ==
  ASSUME Structure, NEW l \in NonEmpty, NEW count \in 0 .. IntMax,
         DispatchRequest(l, count)
  PROVE  Structure'
<1> DEFINE q == Tail(fifo[l])
<1>1. /\ l \in Lists /\ fifo[l] \in Seq(Req)
      /\ Len(fifo[l]) \in Nat /\ 1 \in 1 .. Len(fifo[l])
      /\ Head(fifo[l]) = fifo[l][1]
  BY DEF Structure, TypeOK, NonEmpty
<1>2. /\ q \in Seq(Req)
      /\ Len(q) = Len(fifo[l]) - 1
      /\ \A j \in 1 .. Len(fifo[l]) - 1 :
           q[j] = IF j < 1 THEN fifo[l][j] ELSE fifo[l][j + 1]
  BY <1>1
<1>3. Head(fifo[l]) \in Req
  BY <1>1
<1> HIDE DEF q
<1>4. /\ fifo' = [fifo EXCEPT ![l] = q]
      /\ req' = [req EXCEPT ![fifo[l][1]] = "sent"]
      /\ left' = [left EXCEPT ![fifo[l][1]] = 0]
  BY <1>1 DEF DispatchRequest, q
<1>5. OnePlace'
  <2>1. "sent" \in {"free", "sent"}
    OBVIOUS
  <2> QED  BY <2>1, <1>1, <1>2, <1>4, RemovalKeepsOnePlace
<1>6. starved' \in 0 .. Word - 1
  <2>1. CountStarved(l) \in 0 .. Word - 1
    BY WordFacts DEF CountStarved, Structure, TypeOK
  <2> QED  BY <2>1 DEF DispatchRequest
<1>7. batched' \in 0 .. Word /\ streak' \in 0 .. StreakCap
  BY WordFacts DEF DispatchRequest, CountBatch, Structure, TypeOK, StreakCap
<1>8. /\ fifo' \in [Lists -> Seq(Req)]
      /\ req' \in [Req -> {"free", "alloc", "queued", "sent"}]
      /\ left' \in [Req -> -1 .. IntMax]
  <2>1. left \in [Req -> -1 .. IntMax] /\ 0 \in -1 .. IntMax
    BY WordFacts DEF Structure, TypeOK
  <2>2. left' \in [Req -> -1 .. IntMax]
    BY <1>1, <1>3, <1>4, <2>1
  <2> QED  BY <2>2, <1>1, <1>2, <1>3, <1>4 DEF Structure, TypeOK
<1> QED  BY <1>5, <1>6, <1>7, <1>8 DEF DispatchRequest, settings, Structure, TypeOK, StreakCap

(* A request that is added joins the tail of its own list.                 *)
LEMMA AddKeepsStructure ==
  ASSUME Structure, NEW r \in Req, AddRequest(r)
  PROVE  Structure'
<1> DEFINE l == HomeOf(r)
           q == Enqueue(fifo[l], r)
<1>1. l \in Lists /\ fifo[l] \in Seq(Req) /\ Len(fifo[l]) \in Nat
  BY WordFacts DEF Structure, TypeOK
<1>2. /\ q \in Seq(Req)
      /\ Len(q) = Len(fifo[l]) + 1
      /\ \A i \in 1 .. Len(fifo[l]) : q[i] = fifo[l][i]
      /\ q[Len(fifo[l]) + 1] = r
  BY <1>1, EnqueueProperties
<1> HIDE DEF q
<1>3. /\ fifo' = [fifo EXCEPT ![l] = q]
      /\ req[r] = "alloc"
      /\ req' = [req EXCEPT ![r] = "queued"]
      /\ left' = [left EXCEPT ![r] = fifo_expire[l]]
  BY DEF AddRequest, q
<1>4. TypeOK'
  BY <1>1, <1>2, <1>3, WordFacts DEF AddRequest, settings, Structure, TypeOK, StreakCap
<1>5. \A m \in Lists : \A i \in 1 .. Len(fifo[m]) :
        fifo[m][i] \in Req /\ fifo[m][i] # r
  BY <1>3 DEF Structure, TypeOK, OnePlace
<1>6. ASSUME NEW m \in Lists, NEW i \in 1 .. Len(fifo'[m])
      PROVE  /\ HomeOf(fifo'[m][i]) = m
             /\ req'[fifo'[m][i]] = "queued"
             /\ \A j \in 1 .. Len(fifo'[m]) :
                  fifo'[m][i] = fifo'[m][j] => i = j
  <2>1. CASE m # l
    <3>1. fifo'[m] = fifo[m]
      BY <2>1, <1>3 DEF Structure, TypeOK
    <3> QED  BY <3>1, <1>3, <1>5 DEF Structure, TypeOK, OnePlace
  <2>2. CASE m = l
    <3>1. fifo'[m] = q
      BY <2>2, <1>1, <1>3 DEF Structure, TypeOK
    <3>2. /\ req'[r] = "queued"
          /\ \A j \in 1 .. Len(fifo[l]) : req'[fifo[l][j]] = "queued"
      BY <1>1, <1>3, <1>5 DEF Structure, TypeOK, OnePlace
    <3>3. \A j \in 1 .. Len(q) : j \in 1 .. Len(fifo[l]) \/ j = Len(fifo[l]) + 1
      BY <1>1, <1>2
    <3>4. \A j \in 1 .. Len(fifo[l]) : HomeOf(fifo[l][j]) = l
      BY <1>1 DEF Structure, OnePlace
    <3>5. \A j, n \in 1 .. Len(fifo[l]) : fifo[l][j] = fifo[l][n] => j = n
      BY <1>1 DEF Structure, OnePlace
    <3> HIDE DEF l
    <3>6. i \in 1 .. Len(q)
      BY <3>1
    <3>7. HomeOf(r) = l
      BY DEF l
    <3>8. HomeOf(q[i]) = m /\ req'[q[i]] = "queued"
      BY <1>2, <2>2, <3>2, <3>3, <3>4, <3>6, <3>7
    <3>9. ASSUME NEW j \in 1 .. Len(q), q[i] = q[j]  PROVE i = j
      BY <1>1, <1>2, <1>5, <3>3, <3>5, <3>6, <3>9
    <3> QED  BY <3>1, <3>8, <3>9
  <2> QED  BY <2>1, <2>2
<1>7. ASSUME NEW p \in Req, req'[p] = "queued"
      PROVE  \E i \in 1 .. Len(fifo'[HomeOf(p)]) : fifo'[HomeOf(p)][i] = p
  <2>1. CASE p = r
    BY <2>1, <1>1, <1>2, <1>3 DEF Structure, TypeOK
  <2>2. CASE p # r
    <3>1. req[p] = "queued"
      BY <2>2, <1>3, <1>7 DEF Structure, TypeOK
    <3>2. PICK i \in 1 .. Len(fifo[HomeOf(p)]) : fifo[HomeOf(p)][i] = p
      BY <3>1 DEF Structure, OnePlace
    <3>3. HomeOf(p) \in Lists
      BY WordFacts
    <3>4. CASE HomeOf(p) = l
      <4>1. fifo'[HomeOf(p)] = q
        BY <3>4, <1>1, <1>3 DEF Structure, TypeOK
      <4> QED  BY <3>2, <3>4, <4>1, <1>1, <1>2
    <3>5. CASE HomeOf(p) # l
      BY <3>2, <3>3, <3>5, <1>3 DEF Structure, TypeOK
    <3> QED  BY <3>4, <3>5
  <2> QED  BY <2>1, <2>2
<1> QED  BY <1>4, <1>6, <1>7 DEF Structure, OnePlace

(* Since every request is linked in its own list, the two neighbour tests  *)
(* do find the ends of the list.                                           *)
LEMMA MergesAreOfNeighbours ==
  ASSUME Structure, NEW l \in Lists, NEW i \in 1 .. Len(fifo[l])
  PROVE  /\ BackMerge(l, i) => i + 1 <= Len(fifo[l])
         /\ FrontMerge(l, i) => i - 1 \in 1 .. Len(fifo[l])
<1>1. Len(fifo[l]) \in Nat /\ HomeOf(fifo[l][i]) = l
  BY DEF Structure, TypeOK, OnePlace
<1> QED  BY <1>1 DEF BackMerge, FrontMerge, HasLatter, HasFormer

(* What a dispatch needs to know of the list it takes from.                *)
LEMMA DispatchesAreOfHeads ==
  ASSUME Structure, NEW l \in Lists
  PROVE  /\ DispatchExpired(l) => l \in NonEmpty /\ left[Head(fifo[l])] < 0
         /\ DispatchChosen(l) => l \in NonEmpty
         /\ (IF BatchOver THEN 0 ELSE batched) \in 0 .. IntMax
         /\ 0 \in 0 .. IntMax
BY WordFacts DEF DispatchExpired, DispatchChosen, FirstOf, Expired, HeadExpired,
                 NonEmpty, BatchOver, Structure, TypeOK

(* So every request stays in exactly one place.                            *)
LEMMA NextKeepsStructure == Structure /\ [Next \/ Store]_vars => Structure'
<1> SUFFICES ASSUME Structure, [Next \/ Store]_vars
             PROVE  Structure'
  OBVIOUS
<1>1. ASSUME NEW r \in Req, Allocate(r)  PROVE Structure'
  <2>1. /\ req' \in [Req -> {"free", "alloc", "queued", "sent"}]
        /\ \A q \in Req : req'[q] = "queued" <=> req[q] = "queued"
        /\ UNCHANGED <<fifo, left, batched, starved, fifo_expire, fifo_batch,
                       writes_starved, phase, streak>>
    BY <1>1 DEF Allocate, settings, Structure, TypeOK
  <2> QED  BY <2>1 DEF Structure, TypeOK, OnePlace, StreakCap
<1>2. ASSUME NEW r \in Req, AddRequest(r)  PROVE Structure'
  BY <1>2, AddKeepsStructure
<1>3. ASSUME NEW r \in Req, Complete(r)  PROVE Structure'
  <2>1. /\ req' \in [Req -> {"free", "alloc", "queued", "sent"}]
        /\ \A q \in Req : req'[q] = "queued" <=> req[q] = "queued"
        /\ UNCHANGED <<fifo, left, batched, starved, fifo_expire, fifo_batch,
                       writes_starved, phase, streak>>
    BY <1>3 DEF Complete, settings, Structure, TypeOK
  <2> QED  BY <2>1 DEF Structure, TypeOK, OnePlace, StreakCap
<1>4. ASSUME NEW l \in Lists, NEW i \in 1 .. Len(fifo[l]), BackMerge(l, i)
      PROVE  Structure'
  BY <1>4, MergesAreOfNeighbours, MergeKeepsStructure DEF BackMerge
<1>5. ASSUME NEW l \in Lists, NEW i \in 1 .. Len(fifo[l]), FrontMerge(l, i)
      PROVE  Structure'
  <2>1. /\ i - 1 \in 1 .. Len(fifo[l])
        /\ (i - 1) + 1 <= Len(fifo[l])
        /\ MergedRequests(l, i - 1)
    BY <1>5, MergesAreOfNeighbours DEF FrontMerge, Structure, TypeOK
  <2> QED  BY <2>1, MergeKeepsStructure
<1>6. ASSUME NEW l \in Lists, DispatchExpired(l)  PROVE Structure'
  BY <1>6, DispatchesAreOfHeads, DispatchKeepsStructure DEF DispatchExpired
<1>7. ASSUME NEW l \in Lists, DispatchChosen(l)  PROVE Structure'
  BY <1>7, DispatchesAreOfHeads, DispatchKeepsStructure DEF DispatchChosen
<1>8. CASE DispatchNothing
  BY <1>8, WordFacts DEF DispatchNothing, settings, Structure, TypeOK, OnePlace, StreakCap
<1>9. CASE Tick
  <2>1. left' \in [Req -> -1 .. IntMax]
    BY <1>9, WordFacts DEF Tick, Structure, TypeOK
  <2> QED
    BY <1>9, <2>1 DEF Tick, settings, Structure, TypeOK, OnePlace, StreakCap
<1>10. CASE BeginSwitch
  BY <1>10 DEF BeginSwitch, settings, Structure, TypeOK, OnePlace, StreakCap
<1>11. CASE ExitQueue
  BY <1>11 DEF ExitQueue, settings, Structure, TypeOK, OnePlace, StreakCap
<1>12. CASE Store
  <2>1. \A v \in Inputs : Clamped(v) \in 0 .. IntMax
    BY SioAssumption, WordFacts DEF Clamped
  <2>2. /\ fifo_expire' \in [Lists -> 0 .. IntMax]
        /\ fifo_batch' \in 0 .. IntMax
        /\ writes_starved' \in 0 .. Word - 1
        /\ UNCHANGED <<fifo, left, batched, starved, req, phase, streak>>
    BY <1>12, <2>1, WordFacts
    DEF Store, StoreExpire, StoreFifoBatch, StoreWritesStarved, Structure, TypeOK
  <2> QED  BY <2>2 DEF Structure, TypeOK, OnePlace, StreakCap
<1>13. CASE UNCHANGED vars
  BY <1>13 DEF vars, settings, Structure, TypeOK, OnePlace, StreakCap
<1> QED
  BY <1>1, <1>2, <1>3, <1>4, <1>5, <1>6, <1>7, <1>8, <1>9, <1>10, <1>11,
     <1>12, <1>13 DEF Next

(* Whatever user space writes to the settings, every variable keeps its    *)
(* type: the counters stay within an unsigned int, the deadlines within    *)
(* their list's expire time.                                               *)
THEOREM TypeCorrect == TunedSpec => []TypeOK
<1>1. Structure => TypeOK
  BY DEF Structure
<1> QED  BY <1>1, InitStructure, NextKeepsStructure, PTL DEF TunedSpec

(* Whatever user space writes to the settings, a request is linked in      *)
(* exactly one place iff the block layer has it queued: no add, merge or   *)
(* dispatch loses one or leaves one behind.                                *)
THEOREM RequestsInOnePlace == TunedSpec => []OnePlace
<1>1. Structure => OnePlace
  BY DEF Structure
<1> QED  BY <1>1, InitStructure, NextKeepsStructure, PTL DEF TunedSpec

(* The BUG_ONs of sio_exit_queue cannot fire: the elevator is torn down    *)
(* only when the block layer has no request left, and no request is        *)
(* queued once that has happened.                                          *)
THEOREM ExitFindsListsEmpty == TunedSpec => []ExitEmpty
<1> DEFINE Gone == phase = "gone" => \A r \in Req : req[r] = "free"
<1>1. Init => Gone
  BY DEF Init
<1>2. ASSUME Structure, Gone, [Next \/ Store]_vars  PROVE Gone'
  <2>1. CASE phase = "gone"
    <3>1. \A r \in Req : req[r] = "free"
      BY <1>2, <2>1
    <3>2. \A l \in Lists : fifo[l] = <<>> /\ Len(fifo[l]) = 0
      BY <1>2, <3>1 DEF Structure, TypeOK, OnePlace
    <3>3. UNCHANGED req
      BY <1>2, <2>1, <3>1, <3>2
      DEF Next, Allocate, AddRequest, Complete, BackMerge, FrontMerge,
          DispatchExpired, DispatchChosen, DispatchNothing, Tick, BeginSwitch,
          ExitQueue, Store, StoreExpire, StoreFifoBatch, StoreWritesStarved, vars
    <3> QED  BY <3>1, <3>3
  <2>2. CASE phase # "gone" /\ ExitQueue
    BY <2>2 DEF ExitQueue
  <2>3. CASE phase # "gone" /\ ~ExitQueue
    BY <1>2, <2>3
    DEF Next, Allocate, AddRequest, Complete, BackMerge, FrontMerge,
        MergedRequests, DispatchExpired, DispatchChosen, DispatchRequest,
        DispatchNothing, Tick, BeginSwitch, Store, StoreExpire,
        StoreFifoBatch, StoreWritesStarved, vars
  <2> QED  BY <2>1, <2>2, <2>3
<1>3. Structure /\ Gone => ExitEmpty
  BY DEF Structure, TypeOK, OnePlace, ExitEmpty, NonEmpty
<1> QED
  BY <1>1, <1>2, <1>3, InitStructure, NextKeepsStructure, PTL DEF TunedSpec

-----------------------------------------------------------------------------
(* While the settings keep their values every list is sorted by deadline:  *)
(* a request joins at the end with the latest deadline the list can hold.  *)
Sorted ==
  \A l \in Lists : \A i, j \in 1 .. Len(fifo[l]) :
    i <= j => left[fifo[l][i]] <= left[fifo[l][j]]

WithinExpire ==
  \A l \in Lists : \A i \in 1 .. Len(fifo[l]) : left[fifo[l][i]] <= fifo_expire[l]

SortedLists == Sorted /\ WithinExpire

(* Why reads cannot pass a waiting write for long.  The counter is behind  *)
(* the streak by one if it wrapped, and above writes_starved + 1 only      *)
(* right after an expired request was sent, that is, with batched = 1.     *)
ModestSettings == fifo_batch > 0 /\ writes_starved < Word - 2

StreakInv ==
  ModestSettings =>
    /\ streak > 0 => WriteWaiting
    /\ streak <= starved + 1
    /\ starved > writes_starved + 1 /\ streak > 0 => batched = 1
    /\ streak <= writes_starved + 3
    /\ streak = writes_starved + 3 => batched = 1

(* A list stays in order when one of its requests is taken out,            *)
LEMMA RemovalKeepsSorted ==
  ASSUME Structure, SortedLists,
         NEW l \in Lists, NEW k \in 1 .. Len(fifo[l]),
         NEW q \in Seq(Req),
         Len(q) = Len(fifo[l]) - 1,
         \A j \in 1 .. Len(fifo[l]) - 1 :
           q[j] = IF j < k THEN fifo[l][j] ELSE fifo[l][j + 1],
         fifo' = [fifo EXCEPT ![l] = q],
         \A r \in Req : r # fifo[l][k] => left'[r] = left[r],
         fifo_expire' = fifo_expire
  PROVE  SortedLists'
<1> DEFINE gone == fifo[l][k]
<1>0. fifo \in [Lists -> Seq(Req)]
  BY DEF Structure, TypeOK
<1>1. /\ Len(fifo[l]) \in Nat
      /\ \A m \in Lists : \A i \in 1 .. Len(fifo[m]) : fifo[m][i] \in Req
      /\ fifo'[l] = q
      /\ \A m \in Lists : m # l => fifo'[m] = fifo[m]
  BY <1>0
<1>2. \A m \in Lists : \A i \in 1 .. Len(fifo[m]) :
        (m = l => i # k) => fifo[m][i] # gone
  BY DEF Structure, OnePlace
<1>3. ASSUME NEW m \in Lists, NEW i \in 1 .. Len(fifo'[m]),
             NEW j \in 1 .. Len(fifo'[m]), i <= j
      PROVE  /\ left'[fifo'[m][i]] <= left'[fifo'[m][j]]
             /\ left'[fifo'[m][i]] <= fifo_expire'[m]
  <2>1. CASE m # l
    <3>1. i \in 1 .. Len(fifo[m]) /\ j \in 1 .. Len(fifo[m]) /\ fifo'[m] = fifo[m]
      BY <1>1, <2>1
    <3>2. /\ left'[fifo[m][i]] = left[fifo[m][i]]
          /\ left'[fifo[m][j]] = left[fifo[m][j]]
      BY <1>1, <1>2, <2>1, <3>1
    <3> QED  BY <1>3, <3>1, <3>2 DEF SortedLists, Sorted, WithinExpire
  <2>2. CASE m = l
    <3> DEFINE old(n) == IF n < k THEN n ELSE n + 1
    <3>1. /\ old(i) \in 1 .. Len(fifo[l]) /\ old(i) # k
          /\ old(j) \in 1 .. Len(fifo[l]) /\ old(j) # k
          /\ old(i) <= old(j)
          /\ fifo'[m][i] = fifo[l][old(i)]
          /\ fifo'[m][j] = fifo[l][old(j)]
      BY <1>1, <1>3, <2>2
    <3> HIDE DEF old
    <3>2. /\ left'[fifo'[m][i]] = left[fifo[l][old(i)]]
          /\ left'[fifo'[m][j]] = left[fifo[l][old(j)]]
      BY <1>1, <1>2, <3>1
    <3> QED  BY <2>2, <3>1, <3>2 DEF SortedLists, Sorted, WithinExpire
  <2> QED  BY <2>1, <2>2
<1>4. ASSUME NEW m \in Lists, NEW i \in 1 .. Len(fifo'[m])
      PROVE  left'[fifo'[m][i]] <= fifo_expire'[m]
  <2>1. i <= i
    BY <1>1
  <2> QED  BY <1>3, <2>1
<1> QED  BY <1>3, <1>4 DEF SortedLists, Sorted, WithinExpire

(* as a merge does,                                                        *)
LEMMA MergeKeepsSorted ==
  ASSUME Structure, SortedLists, NEW l \in Lists, NEW i \in 1 .. Len(fifo[l]),
         i + 1 <= Len(fifo[l]), MergedRequests(l, i)
  PROVE  SortedLists'
<1> DEFINE rq == fifo[l][i]
           next == fifo[l][i + 1]
           q == Unlink(fifo[l], i + 1)
<1>1. fifo[l] \in Seq(Req) /\ i + 1 \in 1 .. Len(fifo[l]) /\ Len(fifo[l]) \in Nat
  BY DEF Structure, TypeOK
<1>2. rq \in Req /\ next \in Req /\ rq # next /\ left[rq] <= left[next]
  BY <1>1 DEF Structure, OnePlace, SortedLists, Sorted
<1>3. /\ q \in Seq(Req)
      /\ Len(q) = Len(fifo[l]) - 1
      /\ \A j \in 1 .. Len(fifo[l]) - 1 :
           q[j] = IF j < i + 1 THEN fifo[l][j] ELSE fifo[l][j + 1]
  BY <1>1, UnlinkProperties
<1> HIDE DEF q
<1>4. /\ fifo' = [fifo EXCEPT ![l] = q]
      /\ left' = [left EXCEPT ![rq] = EarlierDeadline(left[rq], left[next]),
                              ![next] = 0]
      /\ fifo_expire' = fifo_expire
  BY DEF MergedRequests, q, settings
<1>5. EarlierDeadline(left[rq], left[next]) = left[rq]
  BY <1>2 DEF EarlierDeadline, Structure, TypeOK
<1>6. \A r \in Req : r # next => left'[r] = left[r]
  BY <1>2, <1>4, <1>5 DEF Structure, TypeOK
<1> QED  BY <1>1, <1>3, <1>4, <1>6, RemovalKeepsSorted

(* and a dispatch;                                                         *)
LEMMA DispatchKeepsSorted ==
  ASSUME Structure, SortedLists, NEW l \in NonEmpty, NEW count \in 0 .. IntMax,
         DispatchRequest(l, count)
  PROVE  SortedLists'
<1> DEFINE q == Tail(fifo[l])
<1>1. /\ l \in Lists /\ fifo[l] \in Seq(Req)
      /\ Len(fifo[l]) \in Nat /\ 1 \in 1 .. Len(fifo[l])
      /\ Head(fifo[l]) = fifo[l][1]
  BY DEF Structure, TypeOK, NonEmpty
<1>2. /\ q \in Seq(Req)
      /\ Len(q) = Len(fifo[l]) - 1
      /\ \A j \in 1 .. Len(fifo[l]) - 1 :
           q[j] = IF j < 1 THEN fifo[l][j] ELSE fifo[l][j + 1]
  BY <1>1
<1> HIDE DEF q
<1>3. /\ fifo' = [fifo EXCEPT ![l] = q]
      /\ \A r \in Req : r # fifo[l][1] => left'[r] = left[r]
      /\ fifo_expire' = fifo_expire
  BY <1>1 DEF DispatchRequest, q, settings, Structure, TypeOK
<1> QED  BY <1>1, <1>2, <1>3, RemovalKeepsSorted

(* and when one with the latest deadline is put at its end.                *)
LEMMA AddKeepsSorted ==
  ASSUME Structure, SortedLists, NEW r \in Req, AddRequest(r)
  PROVE  SortedLists'
<1> DEFINE l == HomeOf(r)
           q == Enqueue(fifo[l], r)
<1>1. l \in Lists /\ fifo[l] \in Seq(Req) /\ Len(fifo[l]) \in Nat
  BY WordFacts DEF Structure, TypeOK
<1>2. /\ q \in Seq(Req)
      /\ Len(q) = Len(fifo[l]) + 1
      /\ \A i \in 1 .. Len(fifo[l]) : q[i] = fifo[l][i]
      /\ q[Len(fifo[l]) + 1] = r
  BY <1>1, EnqueueProperties
<1> HIDE DEF q
<1>3. /\ fifo'[l] = q
      /\ \A m \in Lists : m # l => fifo'[m] = fifo[m]
      /\ left'[r] = fifo_expire[l]
      /\ \A p \in Req : p # r => left'[p] = left[p]
      /\ fifo_expire' = fifo_expire
      /\ req[r] = "alloc"
  BY <1>1 DEF AddRequest, q, settings, Structure, TypeOK
<1>4. \A m \in Lists : \A i \in 1 .. Len(fifo[m]) :
        fifo[m][i] \in Req /\ left'[fifo[m][i]] = left[fifo[m][i]]
  <2>1. fifo \in [Lists -> Seq(Req)]
    BY DEF Structure, TypeOK
  <2>2. \A m \in Lists : \A i \in 1 .. Len(fifo[m]) : fifo[m][i] \in Req
    BY <2>1
  <2>3. \A m \in Lists : \A i \in 1 .. Len(fifo[m]) : fifo[m][i] # r
    BY <1>3 DEF Structure, OnePlace
  <2> QED  BY <1>3, <2>2, <2>3
<1>5. fifo_expire[l] \in Int
  BY <1>1 DEF Structure, TypeOK
<1> HIDE DEF l
<1>6. ASSUME NEW i \in 1 .. Len(q), NEW j \in 1 .. Len(q), i <= j
      PROVE  /\ left'[q[i]] <= left'[q[j]]
             /\ left'[q[i]] <= fifo_expire[l]
  <2>1. CASE j \in 1 .. Len(fifo[l])
    <3>1. i \in 1 .. Len(fifo[l])
      BY <1>1, <1>2, <1>6, <2>1
    <3> QED  BY <1>1, <1>2, <1>4, <1>6, <2>1, <3>1 DEF SortedLists, Sorted, WithinExpire
  <2>2. CASE j = Len(fifo[l]) + 1 /\ i \in 1 .. Len(fifo[l])
    BY <1>1, <1>2, <1>3, <1>4, <2>2 DEF SortedLists, WithinExpire
  <2>3. CASE j = Len(fifo[l]) + 1 /\ i = Len(fifo[l]) + 1
    BY <1>2, <1>3, <1>5, <2>3
  <2> QED  BY <1>1, <1>2, <1>6, <2>1, <2>2, <2>3
<1>7. \A i \in 1 .. Len(q) : left'[q[i]] <= fifo_expire[l]
  <2> TAKE i \in 1 .. Len(q)
  <2>1. i <= i
    BY <1>1, <1>2
  <2> QED  BY <1>6, <2>1
<1>8. Sorted'
  <2> SUFFICES ASSUME NEW m \in Lists, NEW i \in 1 .. Len(fifo'[m]),
                      NEW j \in 1 .. Len(fifo'[m]), i <= j
               PROVE  left'[fifo'[m][i]] <= left'[fifo'[m][j]]
    BY DEF Sorted
  <2>1. CASE m = l
    BY <1>3, <1>6, <2>1
  <2>2. CASE m # l
    BY <1>3, <1>4, <2>2 DEF SortedLists, Sorted
  <2> QED  BY <2>1, <2>2
<1>9. WithinExpire'
  <2> SUFFICES ASSUME NEW m \in Lists, NEW i \in 1 .. Len(fifo'[m])
               PROVE  left'[fifo'[m][i]] <= fifo_expire'[m]
    BY DEF WithinExpire
  <2>1. CASE m = l
    BY <1>3, <1>7, <2>1
  <2>2. CASE m # l
    BY <1>3, <1>4, <2>2 DEF SortedLists, WithinExpire
  <2> QED  BY <2>1, <2>2
<1> QED  BY <1>8, <1>9 DEF SortedLists

(* With the expire times left alone the lists stay in order.               *)
LEMMA NextKeepsSorted == Structure /\ SortedLists /\ [Next]_vars => SortedLists'
<1> SUFFICES ASSUME Structure, SortedLists, [Next]_vars
             PROVE  SortedLists'
  OBVIOUS
<1>0. ASSUME UNCHANGED <<fifo, left, fifo_expire>>  PROVE SortedLists'
  BY <1>0 DEF SortedLists, Sorted, WithinExpire
<1>1. ASSUME NEW r \in Req, AddRequest(r)  PROVE SortedLists'
  BY <1>1, AddKeepsSorted
<1>2. ASSUME NEW l \in Lists, NEW i \in 1 .. Len(fifo[l]), BackMerge(l, i)
      PROVE  SortedLists'
  BY <1>2, MergesAreOfNeighbours, MergeKeepsSorted DEF BackMerge
<1>3. ASSUME NEW l \in Lists, NEW i \in 1 .. Len(fifo[l]), FrontMerge(l, i)
      PROVE  SortedLists'
  <2>1. /\ i - 1 \in 1 .. Len(fifo[l])
        /\ (i - 1) + 1 <= Len(fifo[l])
        /\ MergedRequests(l, i - 1)
    BY <1>3, MergesAreOfNeighbours DEF FrontMerge, Structure, TypeOK
  <2> QED  BY <2>1, MergeKeepsSorted
<1>4. ASSUME NEW l \in Lists, DispatchExpired(l)  PROVE SortedLists'
  BY <1>4, DispatchesAreOfHeads, DispatchKeepsSorted DEF DispatchExpired
<1>5. ASSUME NEW l \in Lists, DispatchChosen(l)  PROVE SortedLists'
  BY <1>5, DispatchesAreOfHeads, DispatchKeepsSorted DEF DispatchChosen
<1>6. CASE Tick
  <2>1. fifo' = fifo /\ fifo_expire' = fifo_expire
    BY <1>6 DEF Tick, settings
  <2>2. \A l \in Lists : \A i \in 1 .. Len(fifo[l]) :
          /\ fifo[l][i] \in Req /\ req[fifo[l][i]] = "queued"
          /\ left[fifo[l][i]] \in Int
    <3>1. /\ fifo \in [Lists -> Seq(Req)]
          /\ left \in [Req -> -1 .. IntMax] /\ IntMax \in Int
      BY WordFacts DEF Structure, TypeOK
    <3>2. \A l \in Lists : \A i \in 1 .. Len(fifo[l]) : fifo[l][i] \in Req
      BY <3>1
    <3>3. \A l \in Lists : \A i \in 1 .. Len(fifo[l]) : req[fifo[l][i]] = "queued"
      BY DEF Structure, OnePlace
    <3>4. \A r \in Req : left[r] \in Int
      BY <3>1
    <3> QED  BY <3>2, <3>3, <3>4
  <2>3. \A l \in Lists : \A i \in 1 .. Len(fifo[l]) :
          left'[fifo[l][i]] = IF left[fifo[l][i]] >= 0
                              THEN left[fifo[l][i]] - 1 ELSE left[fifo[l][i]]
    BY <1>6, <2>2 DEF Tick
  <2>4. Sorted'
    <3> SUFFICES ASSUME NEW l \in Lists, NEW i \in 1 .. Len(fifo[l]),
                        NEW j \in 1 .. Len(fifo[l]), i <= j
                 PROVE  left'[fifo[l][i]] <= left'[fifo[l][j]]
      BY <2>1 DEF Sorted
    <3>1. left[fifo[l][i]] <= left[fifo[l][j]]
      BY DEF SortedLists, Sorted
    <3>2. left[fifo[l][i]] \in Int /\ left[fifo[l][j]] \in Int
      BY <2>2
    <3>3. /\ left'[fifo[l][i]] = IF left[fifo[l][i]] >= 0
                                THEN left[fifo[l][i]] - 1 ELSE left[fifo[l][i]]
          /\ left'[fifo[l][j]] = IF left[fifo[l][j]] >= 0
                                THEN left[fifo[l][j]] - 1 ELSE left[fifo[l][j]]
      BY <2>3
    <3> DEFINE a == left[fifo[l][i]]
               b == left[fifo[l][j]]
    <3>4. (IF a >= 0 THEN a - 1 ELSE a) <= (IF b >= 0 THEN b - 1 ELSE b)
      <4>1. a \in Int /\ b \in Int /\ a <= b
        BY <3>1, <3>2
      <4> HIDE DEF a, b
      <4> QED  BY <4>1
    <3> QED  BY <3>3, <3>4
  <2>5. WithinExpire'
    <3> SUFFICES ASSUME NEW l \in Lists, NEW i \in 1 .. Len(fifo[l])
                 PROVE  left'[fifo[l][i]] <= fifo_expire[l]
      BY <2>1 DEF WithinExpire
    <3>1. left[fifo[l][i]] <= fifo_expire[l] /\ fifo_expire[l] \in Int
      BY DEF SortedLists, WithinExpire, Structure, TypeOK
    <3> QED  BY <2>2, <2>3, <3>1, WordFacts
  <2> QED  BY <2>4, <2>5 DEF SortedLists
<1> QED
  BY <1>0, <1>1, <1>2, <1>3, <1>4, <1>5, <1>6
  DEF Next, Allocate, Complete, DispatchNothing, BeginSwitch, ExitQueue,
      settings, vars

(* With settings that are left alone, looking at the heads of the lists is *)
(* enough to find a request past its deadline.                             *)
THEOREM DeadlinesAreSeen == Spec => NoMissedDeadline
<1> DEFINE Step ==
      \A r, q \in Req :
        /\ BatchOver
        /\ req[q] = "queued" /\ left[q] < 0
        /\ req[r] = "queued" /\ req'[r] = "sent"
        => left[r] < 0
<1>1. Init => SortedLists
  BY DEF Init, SortedLists, Sorted, WithinExpire
<1>2. [Next]_vars => [Next \/ Store]_vars
  OBVIOUS
<1>3. Structure /\ SortedLists /\ [Next]_vars => [Step]_vars
  <2> SUFFICES ASSUME Structure, SortedLists, Next,
                      NEW r \in Req, NEW q \in Req, BatchOver,
                      req[q] = "queued", left[q] < 0,
                      req[r] = "queued", req'[r] = "sent"
               PROVE  left[r] < 0
    OBVIOUS
  <2>1. req \in [Req -> {"free", "alloc", "queued", "sent"}]
    BY DEF Structure, TypeOK
  <2>2. Expired # {}
    <3>1. PICK i \in 1 .. Len(fifo[HomeOf(q)]) : fifo[HomeOf(q)][i] = q
      BY DEF Structure, OnePlace
    <3>2. HomeOf(q) \in Lists /\ fifo[HomeOf(q)] \in Seq(Req)
      BY WordFacts DEF Structure, TypeOK
    <3>3. /\ fifo[HomeOf(q)] # <<>>
          /\ Head(fifo[HomeOf(q)]) = fifo[HomeOf(q)][1]
          /\ 1 \in 1 .. Len(fifo[HomeOf(q)]) /\ 1 <= i
      BY <3>1, <3>2
    <3>4. left[fifo[HomeOf(q)][1]] <= left[q]
      BY <3>1, <3>2, <3>3 DEF SortedLists, Sorted
    <3>5. fifo[HomeOf(q)][1] \in Req
      BY <3>2, <3>3
    <3>6. left[fifo[HomeOf(q)][1]] < 0
      BY <3>4, <3>5 DEF Structure, TypeOK
    <3> QED  BY <3>2, <3>3, <3>6 DEF Expired, HeadExpired
  <2>3. \A l \in Lists : ~DispatchChosen(l)
    BY <2>2 DEF DispatchChosen
  <2>4. ASSUME NEW l \in Lists, DispatchExpired(l)  PROVE left[r] < 0
    <3>1. l \in NonEmpty /\ left[Head(fifo[l])] < 0
      BY <2>4, DispatchesAreOfHeads
    <3>2. req' = [req EXCEPT ![Head(fifo[l])] = "sent"]
      BY <2>4 DEF DispatchExpired, DispatchRequest
    <3>3. r = Head(fifo[l])
      BY <2>1, <3>2
    <3> QED  BY <3>1, <3>3
  <2>5. ASSUME NEW l \in Lists, NEW i \in 1 .. Len(fifo[l]),
               BackMerge(l, i) \/ FrontMerge(l, i)
        PROVE  FALSE
    <3>1. PICK x \in Int : req' = [req EXCEPT ![fifo[l][x]] = "free"]
      BY <2>5 DEF BackMerge, FrontMerge, MergedRequests
    <3> QED  BY <2>1, <3>1
  <2>6. ASSUME NEW p \in Req, Allocate(p) \/ AddRequest(p) \/ Complete(p)
        PROVE  FALSE
    BY <2>1, <2>6 DEF Allocate, AddRequest, Complete
  <2> QED
    BY <2>1, <2>3, <2>4, <2>5, <2>6
    DEF Next, DispatchNothing, Tick, BeginSwitch, ExitQueue
<1>4. (Structure /\ SortedLists) /\ [Next]_vars => (Structure /\ SortedLists)'
  BY <1>2, NextKeepsStructure, NextKeepsSorted
<1> QED  BY <1>1, <1>3, <1>4, InitStructure, PTL DEF Spec, NoMissedDeadline

(* Adding and merging never empty a list.                                  *)
LEMMA WritesKeepWaiting ==
  ASSUME Structure, WriteWaiting,
         \/ \E r \in Req : AddRequest(r)
         \/ \E l \in Lists : \E i \in 1 .. Len(fifo[l]) :
              i + 1 <= Len(fifo[l]) /\ MergedRequests(l, i)
  PROVE  WriteWaiting'
<1>1. PICK m \in Lists : fifo[m] # <<>> /\ IsWrite(m)
  BY DEF WriteWaiting, NonEmpty
<1>2. fifo[m] \in Seq(Req) /\ Len(fifo[m]) \in Nat /\ Len(fifo[m]) > 0
  BY <1>1 DEF Structure, TypeOK
<1>3. Len(fifo'[m]) > 0
  <2>1. ASSUME NEW r \in Req, AddRequest(r)  PROVE Len(fifo'[m]) > 0
    <3>1. HomeOf(r) = m => fifo'[m] = Enqueue(fifo[m], r)
      BY <2>1 DEF AddRequest, Structure, TypeOK
    <3>2. HomeOf(r) # m => fifo'[m] = fifo[m]
      BY <2>1 DEF AddRequest, Structure, TypeOK
    <3>3. Len(Enqueue(fifo[m], r)) > 0
      BY <1>2, <2>1 DEF Enqueue
    <3> QED  BY <1>2, <3>1, <3>2, <3>3
  <2>2. ASSUME NEW l \in Lists, NEW i \in 1 .. Len(fifo[l]),
               i + 1 <= Len(fifo[l]), MergedRequests(l, i)
        PROVE  Len(fifo'[m]) > 0
    <3>1. l = m => fifo'[m] = Unlink(fifo[m], i + 1)
      BY <2>2 DEF MergedRequests, Structure, TypeOK
    <3>2. l # m => fifo'[m] = fifo[m]
      BY <2>2 DEF MergedRequests, Structure, TypeOK
    <3>3. CASE l = m
      <4>1. i + 1 \in 1 .. Len(fifo[m]) /\ Len(fifo[m]) > 1
        BY <1>2, <2>2, <3>3
      <4> QED  BY <1>2, <3>1, <3>3, <4>1, UnlinkProperties
    <3> QED  BY <1>2, <3>2, <3>3
  <2> QED  BY <2>1, <2>2
<1> QED  BY <1>1, <1>3 DEF WriteWaiting, NonEmpty

(* One dispatch: count is 0 when the deadlines have just been looked at.   *)
LEMMA DispatchKeepsStreak ==
  ASSUME Structure, StreakInv, ModestSettings,
         NEW l \in NonEmpty, NEW count \in 0 .. IntMax,
         DispatchRequest(l, count),
         ~IsWrite(l) /\ WriteWaiting =>
            \/ starved <= writes_starved
            \/ count = 0 /\ batched > 1
  PROVE  StreakInv'
<1>1. /\ starved \in 0 .. Word - 1 /\ writes_starved \in 0 .. Word - 1
      /\ streak \in 0 .. Word + 1 /\ batched \in Nat /\ l \in Lists
  BY WordFacts DEF Structure, TypeOK, StreakCap, NonEmpty
<1>2. /\ starved' = CountStarved(l) /\ batched' = count + 1
      /\ UNCHANGED <<fifo_batch, writes_starved>>
  BY DEF DispatchRequest, CountBatch, settings
<1>3. CASE IsWrite(l) \/ ~WriteWaiting
  <2>1. streak' = 0
    BY <1>3 DEF DispatchRequest
  <2>2. CountStarved(l) \in Nat
    BY <1>1, WordFacts DEF CountStarved
  <2> QED  BY <1>1, <1>2, <2>1, <2>2 DEF StreakInv, ModestSettings
<1>4. CASE ~IsWrite(l) /\ WriteWaiting
  <2>1. WriteWaiting'
    <3>1. PICK m \in Lists : fifo[m] # <<>> /\ IsWrite(m)
      BY <1>4 DEF WriteWaiting, NonEmpty
    <3>2. fifo'[m] = fifo[m]
      BY <1>4, <3>1 DEF DispatchRequest, Structure, TypeOK
    <3> QED  BY <3>1, <3>2 DEF WriteWaiting, NonEmpty
  <2>2. streak' = IF streak < Word + 1 THEN streak + 1 ELSE streak
    BY <1>4 DEF DispatchRequest, StreakCap
  <2>3. starved' = IF starved = Word - 1 THEN 0 ELSE starved + 1
    BY <1>1, <1>2, <1>4, WordFacts DEF CountStarved
  <2>4. CASE starved <= writes_starved
    BY <1>1, <1>2, <2>1, <2>2, <2>3, <2>4, WordFacts DEF StreakInv, ModestSettings
  <2>5. CASE starved > writes_starved
    <3>1. count = 0 /\ batched > 1 /\ batched' = 1
      BY <1>1, <1>2, <1>4, <2>5
    <3> QED
      BY <1>1, <1>2, <2>1, <2>2, <2>3, <2>5, <3>1, WordFacts
      DEF StreakInv, ModestSettings
  <2> QED  BY <1>1, <2>4, <2>5
<1> QED  BY <1>3, <1>4

(* The bound on reads in a row is kept by every step.                      *)
LEMMA NextKeepsStreak == Structure /\ StreakInv /\ [Next]_vars => StreakInv'
<1> SUFFICES ASSUME Structure, StreakInv, [Next]_vars
             PROVE  StreakInv'
  OBVIOUS
<1>1. ASSUME UNCHANGED <<fifo, batched, starved, fifo_batch, writes_starved, streak>>
      PROVE  StreakInv'
  BY <1>1 DEF StreakInv, ModestSettings, WriteWaiting, NonEmpty
<1>2. ASSUME WriteWaiting => WriteWaiting',
             UNCHANGED <<batched, starved, fifo_batch, writes_starved, streak>>
      PROVE  StreakInv'
  BY <1>2 DEF StreakInv, ModestSettings
<1>3. ASSUME NEW r \in Req, AddRequest(r)  PROVE StreakInv'
  BY <1>2, <1>3, WritesKeepWaiting DEF AddRequest, settings
<1>4. ASSUME NEW l \in Lists, NEW i \in 1 .. Len(fifo[l]),
             BackMerge(l, i) \/ FrontMerge(l, i)
      PROVE  StreakInv'
  <2>1. PICK j \in 1 .. Len(fifo[l]) : j + 1 <= Len(fifo[l]) /\ MergedRequests(l, j)
    <3>1. CASE BackMerge(l, i)
      BY <3>1, MergesAreOfNeighbours DEF BackMerge
    <3>2. CASE FrontMerge(l, i)
      <4>1. /\ i - 1 \in 1 .. Len(fifo[l])
            /\ (i - 1) + 1 <= Len(fifo[l])
            /\ MergedRequests(l, i - 1)
        BY <3>2, MergesAreOfNeighbours DEF FrontMerge, Structure, TypeOK
      <4> QED  BY <4>1
    <3> QED  BY <1>4, <3>1, <3>2
  <2> QED  BY <1>2, <2>1, WritesKeepWaiting DEF MergedRequests, settings
<1>5. ASSUME NEW l \in Lists, DispatchExpired(l)  PROVE StreakInv'
  <2>1. l \in NonEmpty /\ 0 \in 0 .. IntMax /\ DispatchRequest(l, 0)
    BY <1>5, DispatchesAreOfHeads DEF DispatchExpired
  <2>2. ModestSettings => batched > 1
    BY <1>5 DEF DispatchExpired, BatchOver, ModestSettings, Structure, TypeOK
  <2>3. UNCHANGED <<fifo_batch, writes_starved>>
    BY <2>1 DEF DispatchRequest, settings
  <2>4. CASE ModestSettings
    BY <2>1, <2>2, <2>4, DispatchKeepsStreak
  <2>5. CASE ~ModestSettings
    BY <2>3, <2>5 DEF StreakInv, ModestSettings
  <2> QED  BY <2>4, <2>5
<1>6. ASSUME NEW l \in Lists, DispatchChosen(l)  PROVE StreakInv'
  <2> DEFINE count == IF BatchOver THEN 0 ELSE batched
  <2>1. l \in NonEmpty /\ count \in 0 .. IntMax /\ DispatchRequest(l, count)
    BY <1>6, DispatchesAreOfHeads DEF DispatchChosen
  <2>2. ~IsWrite(l) /\ WriteWaiting => starved <= writes_starved
    <3> SUFFICES ASSUME ~IsWrite(l), WriteWaiting, starved > writes_starved
                 PROVE  FALSE
      BY DEF Structure, TypeOK
    <3>1. FirstOf(ChooseOrder("WRITE"), NonEmpty, l)
      BY <1>6 DEF DispatchChosen, WantedDir
    <3>2. PICK m \in NonEmpty : IsWrite(m)
      BY DEF WriteWaiting
    <3>3. m = <<"SYNC", "WRITE">> \/ m = <<"ASYNC", "WRITE">>
      BY <3>2 DEF NonEmpty, Lists, IsWrite
    <3>4. l = <<"SYNC", "READ">> \/ l = <<"ASYNC", "READ">>
      BY DEF Lists, IsWrite
    <3>5. ChooseOrder("WRITE") =
            << <<"SYNC", "WRITE">>, <<"ASYNC", "WRITE">>,
               <<"SYNC", "READ">>, <<"ASYNC", "READ">> >>
      BY DEF ChooseOrder, Other
    <3> QED  BY <3>1, <3>2, <3>3, <3>4, <3>5 DEF FirstOf
  <2>3. UNCHANGED <<fifo_batch, writes_starved>>
    BY <2>1 DEF DispatchRequest, settings
  <2> HIDE DEF count
  <2>4. CASE ModestSettings
    BY <2>1, <2>2, <2>4, DispatchKeepsStreak
  <2>5. CASE ~ModestSettings
    BY <2>3, <2>5 DEF StreakInv, ModestSettings
  <2> QED  BY <2>4, <2>5
<1>7. CASE DispatchNothing
  <2>1. ~WriteWaiting
    BY <1>7 DEF DispatchNothing, WriteWaiting
  <2> QED
    BY <1>7, <2>1
    DEF DispatchNothing, StreakInv, ModestSettings, settings, Structure, TypeOK
<1> QED
  BY <1>1, <1>3, <1>4, <1>5, <1>6, <1>7
  DEF Next, Allocate, Complete, Tick, BeginSwitch, ExitQueue, settings, vars

(* The real bound on "max times reads can starve a write": with settings   *)
(* that are left alone, and any value in the memory sio_init_queue does    *)
(* not initialise, at most writes_starved + 3 reads pass a waiting write.  *)
THEOREM ReadsPassFewWrites == Spec => []ReadsBounded
<1>1. Init => StreakInv
  BY WordFacts, SioAssumption DEF Init, StreakInv, ModestSettings
<1>2. [Next]_vars => [Next \/ Store]_vars
  OBVIOUS
<1>3. Structure /\ StreakInv => ReadsBounded
  BY DEF StreakInv, ModestSettings, ReadsBounded
<1>4. (Structure /\ StreakInv) /\ [Next]_vars => (Structure /\ StreakInv)'
  BY <1>2, NextKeepsStructure, NextKeepsStreak
<1> QED  BY <1>1, <1>3, <1>4, InitStructure, PTL DEF Spec

-----------------------------------------------------------------------------
(***************************************************************************)
(* Overclock: a write changes four tables one after the other, each of     *)
(* which it owes the change until it is made; the statistics count by an   *)
(* index that is right once a transition has ended that no write           *)
(* disturbed.                                                              *)
(***************************************************************************)

(* A writer that has accepted its input and has not told the statistics.   *)
Active(w) == pc[w] \in {"table", "policy", "stats"}

(* A writer inside proc_mpu_opps_write.                                    *)
Busy(w) == pc[w] # "out"

(* Somebody at one of these places is moving point i.                      *)
Writing(places, i) == \E w \in Writers : pc[w] \in places /\ arg[w][1] = i

(* Types; a writer that goes on has an index in range                      *)
(* (overclock.c:226-230).                                                  *)
OverclockTypes ==
  /\ loaded \in BOOLEAN
  /\ opps \in [1 .. N -> Nat]
  /\ freq_table \in [0 .. N -> Int]
  /\ stat \in Statistics \cup {NULL} /\ trans \in Int \cup {NULL}
  /\ pc \in [Writers -> {"out", "scan", "table", "policy", "stats"}]
  /\ arg \in [Writers -> Nat \X Nat]
  /\ buf \in Nat \X Nat
  /\ \A w \in Writers : Active(w) => arg[w][1] \in 1 .. N
  /\ unsure \subseteq 1 .. N /\ quiet \in BOOLEAN /\ settled \in BOOLEAN

(* Nothing has been written yet.                                           *)
Untouched == opps = Rates /\ freq_table = KernelTable /\ ~loaded

(* The module is loaded only where there are statistics, and used only     *)
(* while loaded; before that the tables are the kernel's, and since then   *)
(* no entry is missing (overclock.c:291-302).                              *)
LifeInv ==
  /\ stat = NULL => Untouched /\ ~settled /\ trans = NULL
  /\ (\E w \in Writers : Busy(w)) => loaded
  /\ Untouched \/ \A k \in 0 .. N - 1 : freq_table[k] # End

(* A writer moves its point to the rate the point has, unless two at once  *)
(* moved it to different ones.                                             *)
ArgInv == \A w \in Writers : Active(w) /\ arg[w][1] \notin unsure => arg[w][2] = opps[arg[w][1]]

(* A point has its frequency in the table, or is being written there;      *)
(* likewise, below, the end of the policy and what the statistics call it. *)
TableInv ==
  \A i \in Told \ unsure : freq_table[N - i] = kHz(opps[i]) \/ Writing({"table"}, i)
PolicyInv ==
  \A i \in Told \ unsure :
    /\ i = N => info[2] = kHz(opps[i]) \/ Writing({"table", "policy"}, i)
    /\ i = 1 /\ N # 1 => info[1] = kHz(opps[i]) \/ Writing({"table", "policy"}, i)
StatsInv ==
  stat # NULL => \A i \in Told \ unsure :
    stat.freq_table[N - i] = kHz(opps[i]) \/ Writing({"table", "policy", "stats"}, i)

(* A transition that no write disturbed moves to the index of the new      *)
(* frequency (cpufreq_stats.c:286-311); while the accounts are settled     *)
(* nobody writes, and the index is that of the current frequency, if the   *)
(* statistics know it.                                                     *)
CountInv ==
  /\ trans # NULL /\ quiet => (\A w \in Writers : ~Active(w)) /\ trans = GetIndex(stat, cur)
  /\ settled => \A w \in Writers : ~Active(w)
  /\ settled /\ trans = NULL =>
       stat.freq_table[stat.last_index] = cur \/ GetIndex(stat, cur) = -1

(* The index of the statistics is never -1: before there are any, the CPU  *)
(* runs at a frequency of the kernel's table.                              *)
IndexInv ==
  /\ stat = NULL => cur \in Frequencies(KernelTable) /\ pmin \in Frequencies(KernelTable)
  /\ stat # NULL => stat.last_index \in 0 .. Entries
  /\ trans \in (-1 .. Entries) \cup {NULL}

(* All jiffies are accounted for.                                          *)
TimeInv == elapsed \in Int /\ TimeConserved

(* The inductive invariant is OverclockInv /\ IndexInv.                    *)
OverclockInv ==
  OverclockTypes /\ LifeInv /\ ArgInv /\ TableInv /\ PolicyInv /\ StatsInv /\ CountInv

-----------------------------------------------------------------------------
(* The operators on tables and statistics.                                 *)

(* freq_table_get_index (cpufreq_stats.c:168-175) returns the index of the *)
(* frequency if the table has it, and -1 only if it does not.              *)
LEMMA GetIndexFinds ==
  ASSUME NEW st \in Statistics, NEW f
  PROVE  /\ GetIndex(st, f) \in -1 .. Entries
         /\ GetIndex(st, f) = -1 \/ st.freq_table[GetIndex(st, f)] = f
         /\ (\E i \in 0 .. Entries : st.freq_table[i] = f) => GetIndex(st, f) # -1
<1> DEFINE found == {i \in 0 .. Entries : st.freq_table[i] = f}
<1>1. DOMAIN st.freq_table = 0 .. Entries
  BY DEF Statistics
<1>2. GetIndex(st, f) = IF found = {} THEN -1 ELSE Lowest(found)
  BY <1>1 DEF GetIndex
<1>3. Entries \in Nat
  BY OverclockAssumption
<1>4. found \in SUBSET Nat
  BY <1>3
<1>5. CASE found = {}
  BY <1>2, <1>3, <1>5
<1>6. CASE found # {}
  <2>1. Lowest(found) \in found
    BY <1>4, <1>6, LowestExists
  <2>2. Lowest(found) \in 0 .. Entries /\ st.freq_table[Lowest(found)] = f
    BY <2>1
  <2>3. Lowest(found) \in -1 .. Entries /\ Lowest(found) # -1
    BY <1>3, <2>2
  <2> QED  BY <1>2, <1>6, <2>2, <2>3
<1> QED  BY <1>5, <1>6

(* Adding to one place of a function to the integers, if it has that       *)
(* place.                                                                  *)
LEMMA OneMore ==
  ASSUME NEW S, NEW f \in [S -> Int], NEW x, NEW d \in Int
  PROVE  [f EXCEPT ![x] = @ + d] \in [S -> Int]
<1>1. CASE x \in S
  <2>1. f[x] + d \in Int
    BY <1>1
  <2> QED  BY <1>1, <2>1
<1>2. CASE x \notin S
  <2>1. [f EXCEPT ![x] = @ + d] = f
    BY <1>2
  <2> QED  BY <2>1
<1> QED  BY <1>1, <1>2

(* What a new last_index leaves of the statistics (cpufreq_stats.c:311).   *)
LEMMA IndexMoves ==
  ASSUME NEW st \in Statistics, NEW i \in Int, NEW moved, moved = [st EXCEPT !.last_index = i]
  PROVE  /\ moved \in Statistics /\ moved # NULL /\ moved.last_index = i
         /\ moved.freq_table = st.freq_table /\ moved.time = st.time /\ moved.since = st.since
<1>1. moved = [freq_table |-> st.freq_table, time |-> st.time, since |-> st.since, last_index |-> i]
  BY DEF Statistics
<1>2. moved \in Statistics
  BY <1>1 DEF Statistics
<1>3. moved # NULL
  BY <1>2, OverclockAssumption
<1> QED  BY <1>1, <1>2, <1>3

(* What cpufreq_stats_freq_update leaves of them (cpufreq_stats.c:53-61).  *)
LEMMA EntryChanges ==
  ASSUME NEW st \in Statistics, NEW k, NEW f \in Int, NEW told, told = [st EXCEPT !.freq_table[k] = f]
  PROVE  /\ told # NULL /\ told.last_index = st.last_index
         /\ told.time = st.time /\ told.since = st.since
<1>1. [st.freq_table EXCEPT ![k] = f] \in [0 .. Entries -> Int]
  BY DEF Statistics
<1>2. told = [freq_table |-> [st.freq_table EXCEPT ![k] = f], time |-> st.time,
              since |-> st.since, last_index |-> st.last_index]
  BY DEF Statistics
<1>3. told \in Statistics
  BY <1>1, <1>2 DEF Statistics
<1>4. told # NULL
  BY <1>3, OverclockAssumption
<1> QED  BY <1>2, <1>4

(* What cpufreq_stats_update leaves of them (cpufreq_stats.c:63-78).       *)
LEMMA UpdatedKeeps ==
  ASSUME NEW st \in Statistics
  PROVE  /\ Updated(st) \in Statistics
         /\ Updated(st).freq_table = st.freq_table
         /\ Updated(st).last_index = st.last_index
<1> DEFINE time == [st.time EXCEPT ![st.last_index] = @ + st.since]
<1>1. st.time \in [0 .. Entries -> Int] /\ st.since \in Int
  BY DEF Statistics
<1>2. time \in [0 .. Entries -> Int]
  BY <1>1, OneMore
<1>3. Updated(st) = [freq_table |-> st.freq_table, time |-> time,
                     since |-> 0, last_index |-> st.last_index]
  BY DEF Updated
<1> HIDE DEF time
<1> QED  BY <1>2, <1>3 DEF Statistics

(* The first end mark of a table, which ends the loop of                   *)
(* overclock.c:295-296.                                                    *)
LEMMA FirstEndIs ==
  ASSUME NEW t \in [0 .. N -> Int], NEW n \in 0 .. N, t[n] = End,
         \A k \in 0 .. n - 1 : t[k] # End
  PROVE  FirstEnd(t) = n
<1>1. N \in Nat
  BY OverclockAssumption
<1>2. \A k \in 0 .. N : k < n => t[k] # End
  BY <1>1
<1>3. ASSUME NEW k \in DOMAIN t, t[k] = End, \A i \in DOMAIN t : i < k => t[i] # End
      PROVE  k = n
  BY <1>1, <1>2, <1>3
<1> QED  BY <1>1, <1>2, <1>3 DEF FirstEnd

(* The kernel's table before anything is written: Entries frequencies that *)
(* differ.                                                                 *)
LEMMA Kernel ==
  /\ KernelTable \in [0 .. N -> Int]
  /\ \A k \in 0 .. Entries - 1 : KernelTable[k] = kHz(Rates[N - k]) /\ KernelTable[k] \in Nat
  /\ \A j, k \in 0 .. Entries - 1 : KernelTable[j] = KernelTable[k] => j = k
  /\ FirstEnd(KernelTable) = Entries
<1>1. N \in Nat \ {0} /\ Entries \in {N - 1, N} \ {0} /\ Rates \in [1 .. N -> Nat]
  BY OverclockAssumption
<1>2. \A k \in 0 .. Entries - 1 : N - k \in 1 .. N
  BY <1>1
<1>3. \A k \in 0 .. Entries - 1 : kHz(Rates[N - k]) \in Nat
  BY <1>1, <1>2 DEF kHz
<1>4. \A k \in 0 .. N : k < Entries \/ KernelTable[k] = End
  BY <1>1 DEF KernelTable
<1>5. \A k \in 0 .. Entries - 1 : KernelTable[k] = kHz(Rates[N - k])
  BY <1>1 DEF KernelTable
<1>6. KernelTable \in [0 .. N -> Int]
  BY <1>1, <1>3 DEF KernelTable, End
<1>7. \A j, k \in 0 .. Entries - 1 : KernelTable[j] = KernelTable[k] => j = k
  <2> SUFFICES ASSUME NEW j \in 0 .. Entries - 1, NEW k \in 0 .. Entries - 1,
                      KernelTable[j] = KernelTable[k]
               PROVE  j = k
    OBVIOUS
  <2>1. Rates[N - j] \div 1000 = Rates[N - k] \div 1000
    BY <1>5 DEF kHz
  <2>2. N - j \in 1 .. N /\ N - k \in 1 .. N
    BY <1>2
  <2>3. ~ (N - j < N - k) /\ ~ (N - k < N - j)
    <3>1. Rates[N - j] \in Nat /\ Rates[N - k] \in Nat
      BY <1>1, <2>2
    <3>2. \A a, b \in 1 .. N : a < b => Rates[a] \div 1000 < Rates[b] \div 1000
      BY OverclockAssumption
    <3>3. Rates[N - j] \div 1000 \in Int /\ Rates[N - k] \div 1000 \in Int
      BY <3>1
    <3> QED  BY <2>1, <2>2, <3>2, <3>3
  <2> QED  BY <1>1, <2>2, <2>3
<1>8. \A k \in 0 .. Entries - 1 : KernelTable[k] # End
  BY <1>3, <1>5 DEF End
<1>9. Entries \in 0 .. N /\ KernelTable[Entries] = End
  BY <1>1, <1>4
<1>10. FirstEnd(KernelTable) = Entries
  BY <1>6, <1>8, <1>9, FirstEndIs
<1> QED  BY <1>3, <1>5, <1>6, <1>7, <1>10

(* cpufreq_stats_create_table (cpufreq_stats.c:219-253) copies the         *)
(* kernel's table entry by entry, since its frequencies differ, and has a  *)
(* place to spare.                                                         *)
LEMMA Created ==
  /\ CreatedTable(KernelTable) \in [0 .. Entries -> Int]
  /\ \A k \in 0 .. Entries - 1 : CreatedTable(KernelTable)[k] = KernelTable[k]
<1> DEFINE t == KernelTable
           made == CreatedTable(t)
<1>1. Entries \in Nat
  BY OverclockAssumption
<1>2. FirstEnd(t) = Entries
  BY Kernel
<1>3. NewEntries(t) = 0 .. Entries - 1
  <2>1. ASSUME NEW k \in 0 .. Entries - 1, NEW i \in 0 .. k - 1  PROVE t[i] # t[k]
    <3>1. i \in 0 .. Entries - 1 /\ i # k
      BY <1>1
    <3> QED  BY <3>1, Kernel
  <2> QED  BY <1>2, <2>1 DEF NewEntries
<1>4. \A k \in 0 .. Entries - 1 : Place(t, k) = k
  <2> SUFFICES ASSUME NEW k \in 0 .. Entries - 1  PROVE Place(t, k) = k
    OBVIOUS
  <2>1. {i \in NewEntries(t) : i < k} = 0 .. k - 1
    BY <1>1, <1>3
  <2>2. 0 \in Int /\ k - 1 \in Int
    BY <1>1
  <2>3. Cardinality(0 .. k - 1) = IF 0 > k - 1 THEN 0 ELSE k - 1 - 0 + 1
    BY <2>2, FS_Interval
  <2>4. Cardinality(0 .. k - 1) = k
    BY <1>1, <2>3
  <2> QED  BY <2>1, <2>4 DEF Place
<1>5. made = [i \in 0 .. Entries |->
                IF \E k \in 0 .. Entries - 1 : Place(t, k) = i
                THEN t[CHOOSE k \in 0 .. Entries - 1 : Place(t, k) = i] ELSE 0]
  BY <1>2, <1>3 DEF CreatedTable
<1> HIDE DEF t, made
<1>6. \A i \in 0 .. Entries : made[i] = IF i < Entries THEN t[i] ELSE 0
  <2> SUFFICES ASSUME NEW i \in 0 .. Entries
               PROVE  made[i] = IF i < Entries THEN t[i] ELSE 0
    OBVIOUS
  <2>1. CASE i < Entries
    <3>1. i \in 0 .. Entries - 1 /\ Place(t, i) = i
      BY <1>1, <1>4, <2>1
    <3>2. (CHOOSE k \in 0 .. Entries - 1 : Place(t, k) = i) = i
      BY <1>4, <3>1
    <3> QED  BY <1>5, <2>1, <3>1, <3>2
  <2>2. CASE ~ (i < Entries)
    <3>1. ~ \E k \in 0 .. Entries - 1 : Place(t, k) = i
      BY <1>1, <1>4, <2>2
    <3> QED  BY <1>5, <2>2, <3>1
  <2> QED  BY <2>1, <2>2
<1>7. \A i \in 0 .. Entries - 1 : t[i] \in Int
  BY Kernel DEF t
<1>8. made \in [0 .. Entries -> Int]
  <2>1. \A i \in 0 .. Entries : made[i] \in Int
    BY <1>1, <1>6, <1>7
  <2> QED  BY <1>5, <2>1
<1>9. \A k \in 0 .. Entries - 1 : made[k] = t[k]
  BY <1>1, <1>6
<1> QED  BY <1>8, <1>9 DEF made, t

(* The frequencies of the kernel's table.                                  *)
LEMMA KernelFrequencies ==
  /\ Frequencies(KernelTable) = {KernelTable[k] : k \in 0 .. Entries - 1}
  /\ Frequencies(KernelTable) \in SUBSET Nat /\ Frequencies(KernelTable) # {}
<1>1. Entries \in Nat \ {0}
  BY OverclockAssumption
<1>2. Frequencies(KernelTable) = {KernelTable[k] : k \in 0 .. Entries - 1}
  BY Kernel DEF Frequencies
<1>3. 0 \in 0 .. Entries - 1
  BY <1>1
<1> QED  BY <1>2, <1>3, Kernel

(* Its ends: the fastest point and, if it has all, the slowest.            *)
LEMMA KernelEnds ==
  /\ Highest(Frequencies(KernelTable)) = kHz(Rates[N])
  /\ Entries = N => Lowest(Frequencies(KernelTable)) = kHz(Rates[1])
<1> DEFINE S == Frequencies(KernelTable)
<1>1. N \in Nat \ {0} /\ Entries \in {N - 1, N} \ {0} /\ Rates \in [1 .. N -> Nat]
  BY OverclockAssumption
<1>2. S = {KernelTable[k] : k \in 0 .. Entries - 1} /\ S \in SUBSET Nat /\ S # {}
  BY KernelFrequencies
<1> HIDE DEF S
<1>3. \A i \in 1 .. N : kHz(Rates[i]) \in Nat
  BY <1>1 DEF kHz
<1>4. \A i, j \in 1 .. N : i < j => kHz(Rates[i]) < kHz(Rates[j])
  BY OverclockAssumption DEF kHz
<1>5. \A i, j \in 1 .. N : i <= j => kHz(Rates[i]) <= kHz(Rates[j])
  <2> SUFFICES ASSUME NEW i \in 1 .. N, NEW j \in 1 .. N, i <= j
               PROVE  kHz(Rates[i]) <= kHz(Rates[j])
    OBVIOUS
  <2>1. CASE i = j
    BY <1>3, <2>1
  <2>2. CASE i < j
    <3>1. kHz(Rates[i]) < kHz(Rates[j])
      BY <1>4, <2>2
    <3> QED  BY <1>3, <3>1
  <2> QED  BY <1>1, <2>1, <2>2
<1>6. \A g \in S : \E i \in 1 .. N : g = kHz(Rates[i])
  <2>1. \A k \in 0 .. Entries - 1 : N - k \in 1 .. N /\ KernelTable[k] = kHz(Rates[N - k])
    BY <1>1, Kernel
  <2> QED  BY <1>2, <2>1
<1>7. 1 \in 1 .. N /\ N \in 1 .. N
  BY <1>1
<1>8. \A g \in S : kHz(Rates[1]) <= g /\ g <= kHz(Rates[N])
  <2> SUFFICES ASSUME NEW g \in S  PROVE kHz(Rates[1]) <= g /\ g <= kHz(Rates[N])
    OBVIOUS
  <2>1. PICK i \in 1 .. N : g = kHz(Rates[i])
    BY <1>6
  <2>2. 1 <= i /\ i <= N
    BY <1>1
  <2> QED  BY <1>5, <1>7, <2>1, <2>2
<1>9. kHz(Rates[N]) \in S
  <2>1. 0 \in 0 .. Entries - 1 /\ N - 0 = N
    BY <1>1
  <2>2. KernelTable[0] = kHz(Rates[N])
    BY <2>1, Kernel
  <2> QED  BY <1>2, <2>1, <2>2
<1>10. Highest(S) = kHz(Rates[N])
  <2>1. Highest(S) \in S /\ \A g \in S : g <= Highest(S)
    BY <1>2, <1>3, <1>7, <1>8, HighestExists
  <2>2. Highest(S) <= kHz(Rates[N]) /\ kHz(Rates[N]) <= Highest(S)
    BY <1>8, <1>9, <2>1
  <2>3. Highest(S) \in Nat
    BY <1>2, <2>1
  <2> QED  BY <1>3, <1>7, <2>2, <2>3
<1>11. ASSUME Entries = N  PROVE Lowest(S) = kHz(Rates[1])
  <2>1. N - 1 \in 0 .. Entries - 1 /\ N - (N - 1) = 1
    BY <1>1, <1>11
  <2>2. KernelTable[N - 1] = kHz(Rates[1])
    BY <2>1, Kernel
  <2>3. kHz(Rates[1]) \in S
    BY <1>2, <2>1, <2>2
  <2>4. Lowest(S) \in S /\ \A g \in S : Lowest(S) <= g
    BY <1>2, LowestExists
  <2>5. Lowest(S) <= kHz(Rates[1]) /\ kHz(Rates[1]) <= Lowest(S)
    BY <1>8, <2>3, <2>4
  <2>6. Lowest(S) \in Nat
    BY <1>2, <2>4
  <2> QED  BY <1>3, <1>7, <2>5, <2>6
<1> QED  BY <1>10, <1>11 DEF S

(* The points of an untouched module that its table has.                   *)
LEMMA UntouchedPoints ==
  ASSUME Untouched, NEW i \in Told
  PROVE  i \in 1 .. N /\ N - i \in 0 .. Entries - 1 /\ KernelTable[N - i] = kHz(opps[i])
<1>1. i \in 1 .. N /\ N - i < Entries
  BY DEF Told, Untouched
<1>2. N \in Nat /\ Entries \in Nat
  BY OverclockAssumption
<1>3. N - i \in 0 .. Entries - 1 /\ N - (N - i) = i
  BY <1>1, <1>2
<1> QED  BY <1>1, <1>3, Kernel DEF Untouched

(* overclock_init (overclock.c:291-302) leaves no entry missing, and       *)
(* changes none when it finds none missing.                                *)
LEMMA FilledUp ==
  ASSUME NEW t \in [0 .. N -> Int],
         t = KernelTable \/ \A k \in 0 .. N - 1 : t[k] # End
  PROVE  /\ Filled(t) \in [0 .. N -> Int]
         /\ \A k \in 0 .. N - 1 : Filled(t)[k] # End
         /\ (\A k \in 0 .. N - 1 : t[k] # End) => \A k \in 0 .. N - 1 : Filled(t)[k] = t[k]
         /\ t = KernelTable => \A k \in 0 .. Entries - 1 : Filled(t)[k] = t[k]
<1> DEFINE ended == [t EXCEPT ![N] = End]
<1>1. N \in Nat \ {0} /\ Entries \in {N - 1, N} \ {0}
  BY OverclockAssumption
<1>2. ended \in [0 .. N -> Int] /\ ended[N] = End /\ \A k \in 0 .. N - 1 : ended[k] = t[k]
  BY <1>1 DEF End
<1>3. PICK n \in 1 .. N : /\ FirstEnd(ended) = n /\ \A k \in 0 .. n - 1 : t[k] # End
                          /\ t = KernelTable => Entries <= n
  <2>1. CASE \A k \in 0 .. N - 1 : t[k] # End
    <3>1. FirstEnd(ended) = N
      <4>1. N \in 0 .. N /\ \A k \in 0 .. N - 1 : ended[k] # End
        BY <1>1, <1>2, <2>1
      <4> HIDE DEF ended
      <4> QED  BY <1>2, <4>1, FirstEndIs
    <3> QED  BY <1>1, <2>1, <3>1
  <2>2. CASE t = KernelTable
    <3>1. \A k \in 0 .. Entries - 1 : t[k] # End
      BY <2>2, Kernel DEF End
    <3>2. \A k \in 0 .. Entries - 1 : ended[k] # End
      BY <1>1, <1>2, <3>1
    <3>3. ended[Entries] = End
      <4>1. CASE Entries = N
        BY <1>2, <4>1
      <4>2. CASE Entries = N - 1
        BY <1>1, <1>2, <2>2, <4>2 DEF KernelTable
      <4> QED  BY <1>1, <4>1, <4>2
    <3>4. Entries \in 1 .. N /\ Entries \in 0 .. N
      BY <1>1
    <3>5. FirstEnd(ended) = Entries
      BY <1>2, <3>2, <3>3, <3>4, FirstEndIs
    <3> QED  BY <3>1, <3>4, <3>5
  <2> QED  BY <2>1, <2>2
<1>4. Filled(t) = [k \in 0 .. N |-> IF k < n \/ k = N THEN ended[k] ELSE ended[n - 1]]
  BY <1>3 DEF Filled
<1> HIDE DEF ended
<1>5. n - 1 \in 0 .. N - 1 /\ n - 1 \in 0 .. n - 1
  BY <1>1
<1>6. \A k \in 0 .. n - 1 : k \in 0 .. N - 1
  BY <1>1
<1>7. ended[n - 1] # End /\ ended[n - 1] \in Int
  BY <1>1, <1>2, <1>3, <1>5
<1>8. Filled(t) \in [0 .. N -> Int]
  BY <1>2, <1>4, <1>7
<1>9. \A k \in 0 .. N - 1 : Filled(t)[k] # End
  BY <1>1, <1>2, <1>3, <1>4, <1>7
<1>10. ASSUME \A k \in 0 .. N - 1 : t[k] # End  PROVE \A k \in 0 .. N - 1 : Filled(t)[k] = t[k]
  <2>1. FirstEnd(ended) = N
    <3>1. N \in 0 .. N /\ \A k \in 0 .. N - 1 : ended[k] # End
      BY <1>1, <1>2, <1>10
    <3> QED  BY <1>2, <3>1, FirstEndIs
  <2> QED  BY <1>1, <1>2, <1>3, <1>4, <2>1
<1>11. ASSUME t = KernelTable  PROVE \A k \in 0 .. Entries - 1 : Filled(t)[k] = t[k]
  BY <1>1, <1>2, <1>3, <1>4, <1>11
<1> QED  BY <1>8, <1>9, <1>10, <1>11
-----------------------------------------------------------------------------
(* Before anything is loaded.                                              *)
LEMMA OverclockInitially == OverclockInit => OverclockInv
<1> SUFFICES ASSUME OverclockInit  PROVE OverclockInv
  OBVIOUS
<1>1. N \in Nat \ {0} /\ Rates \in [1 .. N -> Nat]
  BY OverclockAssumption
<1>2. OverclockTypes
  BY <1>1, Kernel DEF OverclockInit, OverclockTypes, Active
<1>3. Untouched
  BY DEF OverclockInit, Untouched
<1>4. LifeInv /\ ArgInv /\ CountInv
  BY <1>3 DEF OverclockInit, LifeInv, ArgInv, CountInv, Busy, Active
<1>5. TableInv /\ StatsInv
  BY <1>3, UntouchedPoints DEF OverclockInit, TableInv, StatsInv
<1>6. PolicyInv
  <2>1. info[1] = Lowest(Frequencies(KernelTable)) /\ info[2] = Highest(Frequencies(KernelTable))
        /\ opps = Rates
    BY DEF OverclockInit
  <2>2. ASSUME 1 \in Told, N # 1  PROVE Entries = N
    <3>1. N - 1 < Entries
      BY <1>3, <2>2 DEF Told, Untouched
    <3> QED  BY <1>1, <3>1, OverclockAssumption
  <2> QED  BY <2>1, <2>2, KernelEnds DEF PolicyInv
<1> QED  BY <1>2, <1>4, <1>5, <1>6 DEF OverclockInv

(* The statistics begin with the kernel's table.                           *)
LEMMA CreateStatsStep == OverclockInv /\ CreateStats => OverclockInv'
<1> SUFFICES ASSUME OverclockInv, CreateStats  PROVE OverclockInv'
  OBVIOUS
<1> USE DEF OverclockInv
<1> DEFINE table == CreatedTable(freq_table)
           st == [freq_table |-> table, time |-> [i \in DOMAIN table |-> 0], since |-> 0,
                  last_index |-> 0]
<1>1. Untouched /\ (\A w \in Writers : ~Busy(w)) /\ trans = NULL
  BY DEF CreateStats, LifeInv, Untouched
<1>2. table \in [0 .. Entries -> Int] /\ \A k \in 0 .. Entries - 1 : table[k] = KernelTable[k]
  BY <1>1, Created DEF Untouched
<1> HIDE DEF table
<1>3. st \in Statistics /\ st.freq_table = table
  BY <1>2 DEF Statistics
<1>4. stat' = [st EXCEPT !.last_index = GetIndex(st, cur)]
  BY DEF CreateStats, table
<1> HIDE DEF st
<1>5. GetIndex(st, cur) \in Int
  BY <1>3, GetIndexFinds
<1>6. stat' \in Statistics /\ stat'.freq_table = table /\ stat'.last_index = GetIndex(st, cur)
  BY <1>3, <1>4, <1>5 DEF Statistics
<1>7. UNCHANGED <<loaded, opps, freq_table, cur, info, trans, buf, pc, arg, unsure, quiet>>
      /\ settled' = TRUE
  BY DEF CreateStats, tables, policy
<1>8. OverclockTypes'
  BY <1>6, <1>7 DEF OverclockTypes, Active
<1>9. stat' # NULL
  BY <1>6, OverclockAssumption
<1>10. LifeInv'
  BY <1>1, <1>7, <1>9 DEF LifeInv, Untouched, Busy
<1>11. ArgInv' /\ Told' = Told
  BY <1>7 DEF ArgInv, Active, Told
<1>12. TableInv' /\ PolicyInv'
  BY <1>7, <1>11 DEF TableInv, PolicyInv, Writing
<1>13. StatsInv'
  <2> SUFFICES ASSUME NEW i \in Told  PROVE table[N - i] = kHz(opps[i])
    BY <1>6, <1>7, <1>11 DEF StatsInv
  <2> QED  BY <1>1, <1>2, UntouchedPoints
<1>14. CountInv'
  <2>1. GetIndex(stat', cur') = GetIndex(st, cur)
    BY <1>3, <1>6, <1>7 DEF GetIndex
  <2>2. GetIndex(st, cur) = -1 \/ st.freq_table[GetIndex(st, cur)] = cur
    BY <1>3, GetIndexFinds
  <2>3. \A w \in Writers : ~Active(w)'
    BY <1>1, <1>7 DEF Busy, Active
  <2> QED  BY <1>1, <1>3, <1>6, <1>7, <2>1, <2>2, <2>3 DEF CountInv
<1> QED  BY <1>8, <1>10, <1>11, <1>12, <1>13, <1>14

(* What steps that change neither the tables nor a writer preserve.        *)
LEMMA Kept ==
  ASSUME OverclockInv, UNCHANGED <<loaded, opps, freq_table, info, buf, pc, arg, unsure>>,
         stat' = NULL <=> stat = NULL,
         stat # NULL => stat' \in Statistics /\ stat'.freq_table = stat.freq_table,
         quiet' \in BOOLEAN, settled' \in BOOLEAN, trans' \in Int \cup {NULL},
         stat = NULL => ~settled' /\ trans' = NULL
  PROVE  OverclockTypes' /\ LifeInv' /\ ArgInv' /\ TableInv' /\ PolicyInv' /\ StatsInv'
<1> USE DEF OverclockInv
<1>1. OverclockTypes'
  BY DEF OverclockTypes, Active
<1>2. LifeInv' /\ ArgInv'
  BY DEF LifeInv, ArgInv, Untouched, Busy, Active
<1>3. Told' = Told
  BY DEF Told
<1>4. \A places, i : Writing(places, i)' = Writing(places, i)
  BY DEF Writing
<1>5. TableInv' /\ PolicyInv' /\ StatsInv'
  BY <1>3, <1>4 DEF TableInv, PolicyInv, StatsInv
<1> QED  BY <1>1, <1>2, <1>5

(* The first half of a transition, and a governor that wants none.         *)
LEMMA TurnStep ==
  ASSUME OverclockInv,
         UNCHANGED <<loaded, opps, freq_table, info, buf, pc, arg, unsure, settled>>,
         UNCHANGED <<cur, stat, trans, quiet>> \/ \E f : Transition(f)
  PROVE  OverclockInv'
<1> USE DEF OverclockInv
<1>1. CASE UNCHANGED <<cur, stat, trans, quiet>>
  <2>1. stat # NULL => stat \in Statistics
    BY DEF OverclockTypes
  <2>2. OverclockTypes' /\ LifeInv' /\ ArgInv' /\ TableInv' /\ PolicyInv' /\ StatsInv'
    BY <1>1, <2>1, Kept DEF OverclockTypes, LifeInv
  <2>3. CountInv'
    BY <1>1 DEF CountInv, Active, GetIndex
  <2> QED  BY <2>2, <2>3
<1>2. ASSUME NEW f, Transition(f)  PROVE OverclockInv'
  <2>1. CASE stat = NULL
    <3>1. UNCHANGED <<stat, trans, quiet>>
      BY <1>2, <2>1 DEF Transition
    <3>2. ~settled /\ trans = NULL
      BY <2>1 DEF LifeInv
    <3>3. OverclockTypes' /\ LifeInv' /\ ArgInv' /\ TableInv' /\ PolicyInv' /\ StatsInv'
      BY <2>1, <3>1, <3>2, Kept DEF OverclockTypes
    <3>4. CountInv'
      BY <3>1, <3>2 DEF CountInv
    <3> QED  BY <3>3, <3>4
  <2>2. CASE stat # NULL
    <3>1. stat \in Statistics
      BY <2>2 DEF OverclockTypes
    <3>2. stat' = Updated(stat) /\ trans' = GetIndex(stat, f) /\ cur' = f
          /\ quiet' = \A w \in Writers : pc[w] \notin {"table", "policy", "stats"}
      BY <1>2, <2>2 DEF Transition
    <3>3. stat' \in Statistics /\ stat'.freq_table = stat.freq_table
      BY <3>1, <3>2, UpdatedKeeps
    <3>4. stat' # NULL
      BY <3>3, OverclockAssumption
    <3>5. quiet' \in BOOLEAN /\ trans' \in Int
      BY <3>1, <3>2, GetIndexFinds
    <3>6. OverclockTypes' /\ LifeInv' /\ ArgInv' /\ TableInv' /\ PolicyInv' /\ StatsInv'
      BY <2>2, <3>3, <3>4, <3>5, Kept DEF OverclockTypes
    <3>7. trans' # NULL
      BY <3>5, OverclockAssumption
    <3>8. GetIndex(stat', cur') = GetIndex(stat, f)
      BY <3>2, <3>3 DEF GetIndex
    <3>9. CountInv'
      BY <3>2, <3>7, <3>8 DEF CountInv, Active
    <3> QED  BY <3>6, <3>9
  <2> QED  BY <2>1, <2>2
<1> QED  BY <1>1, <1>2

(* The second half: undisturbed, it settles the accounts.                  *)
LEMMA TransitionEndsStep == OverclockInv /\ IndexInv /\ TransitionEnds => OverclockInv'
<1> SUFFICES ASSUME OverclockInv, IndexInv, TransitionEnds  PROVE OverclockInv'
  OBVIOUS
<1> USE DEF OverclockInv
<1>1. UNCHANGED <<loaded, opps, freq_table, cur, info, buf, pc, arg, unsure, quiet>>
      /\ trans # NULL /\ trans' = NULL /\ settled' = quiet
  BY DEF TransitionEnds, tables, policy
<1>2. stat # NULL /\ stat \in Statistics /\ trans \in Int
  BY <1>1 DEF LifeInv, OverclockTypes
<1>3. stat' = [stat EXCEPT !.last_index = NewIndex(trans)]
  BY DEF TransitionEnds
<1>4. NewIndex(trans) \in Int /\ (trans # -1 => NewIndex(trans) = trans)
  <2>1. stat.last_index \in 0 .. Entries /\ Entries \in Nat
    BY <1>2, OverclockAssumption DEF IndexInv
  <2> QED  BY <1>2, <2>1 DEF NewIndex
<1>5. stat' \in Statistics /\ stat'.freq_table = stat.freq_table
      /\ stat'.last_index = NewIndex(trans)
  BY <1>2, <1>3, <1>4 DEF Statistics
<1>6. stat' # NULL
  BY <1>5, OverclockAssumption
<1>7. OverclockTypes' /\ LifeInv' /\ ArgInv' /\ TableInv' /\ PolicyInv' /\ StatsInv'
  BY <1>1, <1>2, <1>5, <1>6, Kept DEF OverclockTypes
<1>8. GetIndex(stat', cur') = GetIndex(stat, cur)
  BY <1>1, <1>5 DEF GetIndex
<1>9. CASE quiet
  <2>1. trans = GetIndex(stat, cur) /\ \A w \in Writers : ~Active(w)
    BY <1>1, <1>9 DEF CountInv
  <2>2. trans = -1 \/ stat.freq_table[trans] = cur
    BY <1>2, <2>1, GetIndexFinds
  <2> QED  BY <1>1, <1>4, <1>5, <1>7, <1>8, <2>1, <2>2 DEF CountInv, Active
<1>10. CASE ~quiet
  BY <1>1, <1>7, <1>10 DEF CountInv
<1> QED  BY <1>9, <1>10

(* A jiffy, or a reader of time_in_state.                                  *)
LEMMA CountingStep ==
  ASSUME OverclockInv, Jiffy \/ ShowTimeInState
  PROVE  OverclockInv'
<1> USE DEF OverclockInv
<1>1. UNCHANGED <<loaded, opps, freq_table, cur, info, trans, buf, pc, arg, unsure, quiet, settled>>
      /\ stat # NULL
  BY DEF Jiffy, ShowTimeInState, tables, policy, ghosts
<1>2. stat \in Statistics
  BY <1>1 DEF OverclockTypes
<1>3. stat' \in Statistics /\ stat'.freq_table = stat.freq_table /\ stat'.last_index = stat.last_index
  <2>1. CASE Jiffy
    BY <1>2, <2>1 DEF Jiffy, Statistics
  <2>2. CASE ShowTimeInState
    BY <1>2, <2>2, UpdatedKeeps DEF ShowTimeInState
  <2> QED  BY <2>1, <2>2
<1>4. stat' # NULL
  BY <1>3, OverclockAssumption
<1>5. OverclockTypes' /\ LifeInv' /\ ArgInv' /\ TableInv' /\ PolicyInv' /\ StatsInv'
  BY <1>1, <1>3, <1>4, Kept DEF OverclockTypes
<1>6. GetIndex(stat', cur') = GetIndex(stat, cur)
  BY <1>1, <1>3 DEF GetIndex
<1>7. CountInv'
  BY <1>1, <1>3, <1>6 DEF CountInv, Active
<1> QED  BY <1>5, <1>7

(* Loading changes no entry of a point that has one: only a missing entry  *)
(* is filled in.                                                           *)
LEMMA LoadStep == OverclockInv /\ Load => OverclockInv'
<1> SUFFICES ASSUME OverclockInv, Load  PROVE OverclockInv'
  OBVIOUS
<1> USE DEF OverclockInv
<1>1. UNCHANGED <<opps, cur, info, stat, trans, buf, pc, arg, unsure, quiet, settled>>
      /\ ~loaded /\ stat # NULL /\ loaded' = TRUE /\ freq_table' = Filled(freq_table)
  BY DEF Load, policy, ghosts
<1>2. freq_table \in [0 .. N -> Int]
      /\ (freq_table = KernelTable \/ \A k \in 0 .. N - 1 : freq_table[k] # End)
  BY DEF OverclockTypes, LifeInv, Untouched
<1>3. /\ freq_table' \in [0 .. N -> Int]
      /\ \A k \in 0 .. N - 1 : freq_table'[k] # End
      /\ (\A k \in 0 .. N - 1 : freq_table[k] # End) =>
           \A k \in 0 .. N - 1 : freq_table'[k] = freq_table[k]
  BY <1>1, <1>2, FilledUp
<1>4. OverclockTypes'
  BY <1>1, <1>3 DEF OverclockTypes, Active
<1>5. LifeInv' /\ ArgInv' /\ CountInv'
  BY <1>1, <1>3 DEF LifeInv, ArgInv, CountInv, Busy, Active, GetIndex
<1>6. Told' = Told
  BY <1>1 DEF Told
<1>7. \A places, i : Writing(places, i)' = Writing(places, i)
  BY <1>1 DEF Writing
<1>8. PolicyInv' /\ StatsInv'
  BY <1>1, <1>6, <1>7 DEF PolicyInv, StatsInv
<1>9. \A i \in Told : N - i \in 0 .. N - 1
  BY OverclockAssumption DEF Told
<1>10. \A i \in Told : freq_table'[N - i] = freq_table[N - i]
  <2>1. CASE Untouched
    BY <1>1, <1>2, <2>1, FilledUp, UntouchedPoints DEF Untouched
  <2>2. CASE \A k \in 0 .. N - 1 : freq_table[k] # End
    BY <1>3, <1>9, <2>2
  <2> QED  BY <2>1, <2>2 DEF LifeInv
<1>11. TableInv'
  BY <1>1, <1>6, <1>7, <1>10 DEF TableInv
<1> QED  BY <1>4, <1>5, <1>8, <1>11

(* Unloading leaves the tables.                                            *)
LEMMA UnloadStep == OverclockInv /\ Unload => OverclockInv'
<1> SUFFICES ASSUME OverclockInv, Unload  PROVE OverclockInv'
  OBVIOUS
<1> USE DEF OverclockInv
<1>1. UNCHANGED <<opps, freq_table, cur, info, stat, trans, buf, pc, arg, unsure, quiet, settled>>
      /\ loaded /\ loaded' = FALSE /\ \A w \in Writers : pc[w] = "out"
  BY DEF Unload, tables, policy, ghosts
<1>2. OverclockTypes'
  BY <1>1 DEF OverclockTypes, Active
<1>3. LifeInv' /\ ArgInv' /\ CountInv'
  BY <1>1 DEF LifeInv, ArgInv, CountInv, Untouched, Busy, Active, GetIndex
<1>4. Told' = Told
  BY <1>1 DEF Told
<1>5. \A places, i : Writing(places, i)' = Writing(places, i)
  BY <1>1 DEF Writing
<1>6. TableInv' /\ PolicyInv' /\ StatsInv'
  BY <1>1, <1>4, <1>5 DEF TableInv, PolicyInv, StatsInv
<1> QED  BY <1>2, <1>3, <1>6

(* A write that begins changes no more than the buffer.                    *)
LEMMA WriteCopiesStep ==
  ASSUME OverclockInv, NEW w \in Writers, WriteCopies(w)
  PROVE  OverclockInv'
<1> USE DEF OverclockInv
<1>1. UNCHANGED <<loaded, opps, freq_table, cur, info, stat, trans, arg, unsure, quiet, settled>>
      /\ loaded /\ pc[w] = "out" /\ pc' = [pc EXCEPT ![w] = "scan"] /\ buf' \in OppInputs
  BY DEF WriteCopies, Goto, tables, policy, ghosts
<1>2. pc \in [Writers -> {"out", "scan", "table", "policy", "stats"}]
  BY DEF OverclockTypes
<1>3. \A v \in Writers : Active(v)' = Active(v)
  BY <1>1, <1>2 DEF Active
<1>4. OverclockTypes'
  BY <1>1, <1>2, <1>3, OverclockAssumption DEF OverclockTypes
<1>5. LifeInv' /\ CountInv'
  BY <1>1, <1>2, <1>3 DEF LifeInv, CountInv, Untouched, GetIndex
<1>7. ArgInv'
  BY <1>1, <1>3 DEF ArgInv
<1>8. Told' = Told
  BY <1>1 DEF Told
<1>9. \A i : /\ Writing({"table"}, i)' = Writing({"table"}, i)
             /\ Writing({"table", "policy"}, i)' = Writing({"table", "policy"}, i)
             /\ Writing({"table", "policy", "stats"}, i)' = Writing({"table", "policy", "stats"}, i)
  BY <1>1, <1>2 DEF Writing
<1>10. TableInv' /\ PolicyInv' /\ StatsInv'
  BY <1>1, <1>8, <1>9 DEF TableInv, PolicyInv, StatsInv
<1> QED  BY <1>4, <1>5, <1>7, <1>10

(* The first step changes a point and so owes the table, the policy and    *)
(* the statistics.                                                         *)
LEMMA WriteOppStep ==
  ASSUME OverclockInv, NEW w \in Writers, WriteOpp(w)
  PROVE  OverclockInv'
<1> USE DEF OverclockInv
<1>1. UNCHANGED <<loaded, freq_table, cur, info, stat, trans, buf>> /\ pc[w] = "scan"
  BY DEF WriteOpp, policy
<1>2. /\ pc \in [Writers -> {"out", "scan", "table", "policy", "stats"}]
      /\ arg \in [Writers -> Nat \X Nat] /\ opps \in [1 .. N -> Nat] /\ buf \in Nat \X Nat
  BY DEF OverclockTypes
<1>3. loaded /\ stat # NULL /\ Busy(w)
  BY <1>1 DEF LifeInv, Busy, Untouched
<1>4. CASE ValidIndex(buf[1])
  <2>1. /\ arg' = [arg EXCEPT ![w] = buf] /\ pc' = [pc EXCEPT ![w] = "table"]
        /\ opps' = [opps EXCEPT ![buf[1]] = buf[2]]
        /\ unsure' = IF \E v \in Writers : Moving(v, buf[1]) /\ arg[v][2] # buf[2]
                     THEN unsure \cup {buf[1]} ELSE unsure \ {buf[1]}
        /\ quiet' = FALSE /\ settled' = FALSE
    BY <1>4 DEF WriteOpp, Goto
  <2>2. buf[1] \in 1 .. N /\ buf[2] \in Nat
    BY <1>2, <1>4, OverclockAssumption DEF ValidIndex
  <2>3. opps' \in [1 .. N -> Nat] /\ arg' \in [Writers -> Nat \X Nat]
        /\ pc' \in [Writers -> {"out", "scan", "table", "policy", "stats"}]
    BY <1>2, <2>1, <2>2
  <2>4. \A v \in Writers : v # w => pc'[v] = pc[v] /\ arg'[v] = arg[v]
    BY <1>2, <2>1
  <2>5. pc'[w] = "table" /\ arg'[w] = buf
    BY <1>2, <2>1
  <2>6. \A v \in Writers : Active(v)' => arg'[v][1] \in 1 .. N
    BY <2>2, <2>4, <2>5 DEF OverclockTypes, Active
  <2>7. OverclockTypes'
    BY <1>1, <2>1, <2>2, <2>3, <2>6 DEF OverclockTypes
  <2>8. LifeInv' /\ CountInv'
    BY <1>1, <1>3, <2>1 DEF LifeInv, CountInv, Untouched
  <2>9. \A i \in 1 .. N : i # buf[1] => (i \in unsure' <=> i \in unsure) /\ opps'[i] = opps[i]
    BY <1>2, <2>1
  <2>10. ArgInv'
    <3> SUFFICES ASSUME NEW v \in Writers, Active(v)', arg'[v][1] \notin unsure'
                 PROVE  arg'[v][2] = opps'[arg'[v][1]]
      BY DEF ArgInv
    <3>1. CASE arg'[v][1] = buf[1]
      <4>1. opps'[buf[1]] = buf[2]
        BY <1>2, <2>1, <2>2
      <4>2. v = w \/ arg[v][2] = buf[2]
        <5>1. ~ \E u \in Writers : Moving(u, buf[1]) /\ arg[u][2] # buf[2]
          BY <2>1, <3>1
        <5>2. v # w => Moving(v, buf[1])
          BY <2>4, <3>1 DEF Moving, Active
        <5> QED  BY <5>1, <5>2
      <4> QED  BY <2>4, <2>5, <3>1, <4>1, <4>2
    <3>2. CASE arg'[v][1] # buf[1]
      <4>1. v # w
        BY <2>5, <3>2
      <4>2. Active(v) /\ arg'[v] = arg[v] /\ arg[v][1] \in 1 .. N
        BY <2>4, <2>6, <4>1 DEF Active
      <4> QED  BY <2>9, <3>2, <4>2 DEF ArgInv
    <3> QED  BY <3>1, <3>2
  <2>12. /\ Writing({"table"}, buf[1])' /\ Writing({"table", "policy"}, buf[1])'
         /\ Writing({"table", "policy", "stats"}, buf[1])'
    BY <1>1, <2>5 DEF Writing
  <2>13. \A i : /\ Writing({"table"}, i) => Writing({"table"}, i)'
                /\ Writing({"table", "policy"}, i) => Writing({"table", "policy"}, i)'
                /\ Writing({"table", "policy", "stats"}, i) => Writing({"table", "policy", "stats"}, i)'
    BY <1>1, <2>4 DEF Writing
  <2>14. \A i \in (Told \ unsure)' : i # buf[1] => i \in Told \ unsure /\ opps'[i] = opps[i]
    BY <2>9 DEF Told
  <2>16. TableInv'
    BY <1>1, <2>12, <2>13, <2>14 DEF TableInv
  <2>17. PolicyInv'
    BY <1>1, <2>12, <2>13, <2>14 DEF PolicyInv
  <2>18. StatsInv'
    BY <1>1, <1>3, <2>12, <2>13, <2>14 DEF StatsInv
  <2> QED  BY <2>7, <2>8, <2>10, <2>16, <2>17, <2>18
<1>5. CASE ~ValidIndex(buf[1])
  <2>1. pc' = [pc EXCEPT ![w] = "out"] /\ UNCHANGED <<arg, opps, unsure, quiet, settled>>
    BY <1>5 DEF WriteOpp, Goto, ghosts
  <2>2. pc' \in [Writers -> {"out", "scan", "table", "policy", "stats"}]
        /\ \A v \in Writers : Busy(v)' => Busy(v)
    BY <1>2, <2>1 DEF Busy
  <2>3. \A v \in Writers : Active(v)' = Active(v)
    BY <1>1, <1>2, <2>1 DEF Active
  <2>4. OverclockTypes'
    BY <1>1, <2>1, <2>2, <2>3 DEF OverclockTypes
  <2>5. LifeInv' /\ CountInv'
    BY <1>1, <2>1, <2>2, <2>3 DEF LifeInv, CountInv, Untouched, GetIndex
  <2>6. ArgInv'
    BY <1>1, <2>1, <2>2, <2>3 DEF ArgInv
  <2>7. Told' = Told
    BY <2>1 DEF Told
  <2>8. \A i : /\ Writing({"table"}, i)' = Writing({"table"}, i)
               /\ Writing({"table", "policy"}, i)' = Writing({"table", "policy"}, i)
               /\ Writing({"table", "policy", "stats"}, i)' = Writing({"table", "policy", "stats"}, i)
    BY <1>1, <1>2, <2>1 DEF Writing
  <2>9. TableInv' /\ PolicyInv' /\ StatsInv'
    BY <1>1, <2>1, <2>7, <2>8 DEF TableInv, PolicyInv, StatsInv
  <2> QED  BY <2>4, <2>5, <2>6, <2>9
<1> QED  BY <1>4, <1>5

(* What the two steps of a writer have in common that change a table of    *)
(* the kernel.                                                             *)
LEMMA WriterStep ==
  ASSUME OverclockInv, NEW w \in Writers, Active(w),
         WriteTable(w) \/ WritePolicy(w)
  PROVE  /\ UNCHANGED <<loaded, opps, cur, stat, trans, buf, arg, unsure, quiet, settled>>
         /\ pc' = [pc EXCEPT ![w] = IF pc[w] = "table" THEN "policy" ELSE "stats"]
         /\ pc' \in [Writers -> {"out", "scan", "table", "policy", "stats"}]
         /\ \A v \in Writers : Active(v)' = Active(v) /\ Busy(v)' = Busy(v)
         /\ arg[w] \in Nat \X Nat /\ arg[w][1] \in 1 .. N /\ arg[w][2] \in Nat
         /\ arg[w][1] \notin unsure => arg[w][2] = opps[arg[w][1]]
         /\ \A i : Writing({"table", "policy", "stats"}, i)' = Writing({"table", "policy", "stats"}, i)
         /\ ArgInv' /\ StatsInv' /\ CountInv'
<1> USE DEF OverclockInv
<1>1. /\ UNCHANGED <<loaded, opps, cur, stat, trans, buf, arg, unsure, quiet, settled>>
      /\ pc' = [pc EXCEPT ![w] = IF pc[w] = "table" THEN "policy" ELSE "stats"]
  BY DEF WriteTable, WritePolicy, Goto, tables, policy, ghosts
<1>2. /\ pc \in [Writers -> {"out", "scan", "table", "policy", "stats"}]
      /\ arg \in [Writers -> Nat \X Nat]
  BY DEF OverclockTypes
<1>3. /\ pc' \in [Writers -> {"out", "scan", "table", "policy", "stats"}]
      /\ \A v \in Writers : Active(v)' = Active(v) /\ Busy(v)' = Busy(v)
  BY <1>1, <1>2 DEF Active, Busy
<1>4. arg[w] \in Nat \X Nat /\ arg[w][1] \in 1 .. N /\ arg[w][2] \in Nat
  BY <1>2 DEF OverclockTypes
<1>5. arg[w][1] \notin unsure => arg[w][2] = opps[arg[w][1]]
  BY DEF ArgInv
<1>6. \A i : Writing({"table", "policy", "stats"}, i)' = Writing({"table", "policy", "stats"}, i)
  BY <1>1, <1>2 DEF Writing, Active
<1>7. Told' = Told
  BY <1>1 DEF Told
<1>8. ArgInv' /\ StatsInv' /\ CountInv'
  BY <1>1, <1>3, <1>6, <1>7 DEF ArgInv, StatsInv, CountInv, GetIndex
<1> QED  BY <1>1, <1>3, <1>4, <1>5, <1>6, <1>8

(* The entry of the point is paid (overclock.c:237-238).                   *)
LEMMA WriteTableStep ==
  ASSUME OverclockInv, NEW w \in Writers, WriteTable(w)
  PROVE  OverclockInv'
<1> USE DEF OverclockInv
<1>0. Active(w) /\ pc[w] = "table"
  BY DEF WriteTable, Active
<1>1. /\ UNCHANGED <<loaded, opps, cur, stat, trans, buf, arg, unsure, quiet, settled>>
      /\ pc' = [pc EXCEPT ![w] = "policy"]
      /\ pc' \in [Writers -> {"out", "scan", "table", "policy", "stats"}]
      /\ \A v \in Writers : Active(v)' = Active(v) /\ Busy(v)' = Busy(v)
      /\ arg[w] \in Nat \X Nat /\ arg[w][1] \in 1 .. N /\ arg[w][2] \in Nat
      /\ arg[w][1] \notin unsure => arg[w][2] = opps[arg[w][1]]
      /\ ArgInv' /\ StatsInv' /\ CountInv'
  BY <1>0, WriterStep
<1>2. info' = info /\ freq_table' = [freq_table EXCEPT ![N - arg[w][1]] = kHz(arg[w][2])]
  BY DEF WriteTable, Entry, policy
<1>3. freq_table \in [0 .. N -> Int] /\ pc \in [Writers -> {"out", "scan", "table", "policy", "stats"}]
  BY DEF OverclockTypes
<1>4. N - arg[w][1] \in 0 .. N - 1 /\ kHz(arg[w][2]) \in Nat /\ N \in Nat
  <2>1. N \in Nat
    BY OverclockAssumption
  <2>2. kHz(arg[w][2]) \in Nat
    BY <1>1 DEF kHz
  <2> QED  BY <1>1, <2>1, <2>2
<1>5. freq_table' \in [0 .. N -> Int] /\ freq_table'[N - arg[w][1]] = kHz(arg[w][2])
      /\ \A k \in 0 .. N : k # N - arg[w][1] => freq_table'[k] = freq_table[k]
  BY <1>2, <1>3, <1>4
<1>6. OverclockTypes'
  BY <1>1, <1>5 DEF OverclockTypes
<1>7. loaded /\ stat # NULL
  BY <1>0 DEF LifeInv, Busy, Untouched
<1>8. \A k \in 0 .. N - 1 : freq_table'[k] # End
  <2> SUFFICES ASSUME NEW k \in 0 .. N - 1  PROVE freq_table'[k] # End
    OBVIOUS
  <2>1. freq_table[k] # End /\ k \in 0 .. N
    BY <1>4, <1>7 DEF LifeInv, Untouched
  <2> QED  BY <1>4, <1>5, <2>1 DEF End
<1>9. LifeInv'
  BY <1>1, <1>7, <1>8 DEF LifeInv
<1>10. Told' = Told
  BY <1>1 DEF Told
<1>11. \A i : Writing({"table", "policy"}, i)' = Writing({"table", "policy"}, i)
  BY <1>0, <1>1, <1>3 DEF Writing
<1>12. PolicyInv'
  BY <1>1, <1>2, <1>10, <1>11 DEF PolicyInv
<1>13. TableInv'
  <2> SUFFICES ASSUME NEW i \in Told \ unsure
               PROVE  freq_table'[N - i] = kHz(opps[i]) \/ Writing({"table"}, i)'
    BY <1>1, <1>10 DEF TableInv
  <2>1. CASE i = arg[w][1]
    BY <1>1, <1>5, <2>1
  <2>2. CASE i # arg[w][1]
    <3>1. i \in 1 .. N
      BY DEF Told
    <3>2. N - i \in 0 .. N /\ N - i # N - arg[w][1]
      BY <1>1, <1>4, <2>2, <3>1
    <3>3. freq_table'[N - i] = freq_table[N - i]
      BY <1>5, <3>2
    <3>4. ASSUME Writing({"table"}, i)  PROVE Writing({"table"}, i)'
      <4>1. PICK v \in Writers : pc[v] = "table" /\ arg[v][1] = i
        BY <3>4 DEF Writing
      <4>2. v # w /\ pc'[v] = pc[v]
        BY <1>1, <1>3, <2>2, <4>1
      <4> QED  BY <1>1, <4>1, <4>2 DEF Writing
    <3> QED  BY <3>3, <3>4 DEF TableInv
  <2> QED  BY <2>1, <2>2
<1> QED  BY <1>1, <1>6, <1>9, <1>12, <1>13

(* The end of the policy is paid (overclock.c:240-251).                    *)
LEMMA WritePolicyStep ==
  ASSUME OverclockInv, NEW w \in Writers, WritePolicy(w)
  PROVE  OverclockInv'
<1> USE DEF OverclockInv
<1>0. Active(w) /\ pc[w] = "policy"
  BY DEF WritePolicy, Active
<1>1. /\ UNCHANGED <<loaded, opps, cur, stat, trans, buf, arg, unsure, quiet, settled>>
      /\ pc' = [pc EXCEPT ![w] = "stats"]
      /\ pc' \in [Writers -> {"out", "scan", "table", "policy", "stats"}]
      /\ \A v \in Writers : Active(v)' = Active(v) /\ Busy(v)' = Busy(v)
      /\ arg[w] \in Nat \X Nat /\ arg[w][1] \in 1 .. N /\ arg[w][2] \in Nat
      /\ arg[w][1] \notin unsure => arg[w][2] = opps[arg[w][1]]
      /\ ArgInv' /\ StatsInv' /\ CountInv'
  BY <1>0, WriterStep
<1>2. freq_table' = freq_table
  BY DEF WritePolicy, tables
<1>3. pc \in [Writers -> {"out", "scan", "table", "policy", "stats"}]
  BY DEF OverclockTypes
<1>4. OverclockTypes'
  BY <1>1, <1>2 DEF OverclockTypes
<1>5. LifeInv'
  BY <1>1, <1>2 DEF LifeInv, Untouched
<1>6. Told' = Told
  BY <1>1 DEF Told
<1>7. \A i : Writing({"table"}, i)' = Writing({"table"}, i)
  BY <1>0, <1>1, <1>3 DEF Writing
<1>8. TableInv'
  BY <1>1, <1>2, <1>6, <1>7 DEF TableInv
<1>9. PolicyInv'
  <2> SUFFICES ASSUME NEW i \in Told \ unsure
               PROVE  /\ i = N => info'[2] = kHz(opps[i]) \/ Writing({"table", "policy"}, i)'
                      /\ i = 1 /\ N # 1 => info'[1] = kHz(opps[i]) \/ Writing({"table", "policy"}, i)'
    BY <1>1, <1>6 DEF PolicyInv
  <2>1. CASE arg[w][1] = i
    <3>1. kHz(arg[w][2]) = kHz(opps[i])
      BY <1>1, <2>1
    <3>2. i = N => info' = <<info[1], kHz(arg[w][2])>>
      BY <2>1 DEF WritePolicy
    <3>3. i = 1 /\ N # 1 => info' = <<kHz(arg[w][2]), info[2]>>
      BY <2>1 DEF WritePolicy
    <3> QED  BY <3>1, <3>2, <3>3
  <2>2. CASE arg[w][1] # i
    <3>1. /\ i = N => info'[2] = info[2]
          /\ i = 1 /\ N # 1 => info'[1] = info[1]
      BY <2>2 DEF WritePolicy
    <3>2. ASSUME Writing({"table", "policy"}, i)  PROVE Writing({"table", "policy"}, i)'
      <4>1. PICK v \in Writers : pc[v] \in {"table", "policy"} /\ arg[v][1] = i
        BY <3>2 DEF Writing
      <4>2. v # w /\ pc'[v] = pc[v]
        BY <1>1, <1>3, <2>2, <4>1
      <4> QED  BY <1>1, <4>1, <4>2 DEF Writing
    <3> QED  BY <3>1, <3>2 DEF PolicyInv
  <2> QED  BY <2>1, <2>2
<1> QED  BY <1>1, <1>4, <1>5, <1>8, <1>9

(* The statistics are paid, and the writer is done                         *)
(* (cpufreq_stats.c:53-61).                                                *)
LEMMA WriteStatsStep ==
  ASSUME OverclockInv, NEW w \in Writers, WriteStats(w)
  PROVE  OverclockInv'
<1> USE DEF OverclockInv
<1>1. /\ UNCHANGED <<loaded, opps, freq_table, cur, info, trans, buf, unsure, settled>>
      /\ pc[w] = "stats" /\ pc' = [pc EXCEPT ![w] = "out"]
      /\ arg' = [arg EXCEPT ![w] = <<0, 0>>] /\ quiet' = FALSE
      /\ stat' = [stat EXCEPT !.freq_table[N - arg[w][1]] = kHz(arg[w][2])]
  BY DEF WriteStats, Goto, Entry, tables, policy
<1>2. /\ pc \in [Writers -> {"out", "scan", "table", "policy", "stats"}]
      /\ arg \in [Writers -> Nat \X Nat]
  BY DEF OverclockTypes
<1>3. loaded /\ stat # NULL /\ stat \in Statistics
  BY <1>1 DEF LifeInv, Busy, Untouched, OverclockTypes
<1>4. arg[w] \in Nat \X Nat /\ arg[w][1] \in 1 .. N /\ (arg[w][1] \notin unsure => arg[w][2] = opps[arg[w][1]])
  BY <1>1, <1>2 DEF OverclockTypes, ArgInv, Active
<1>5. N - arg[w][1] \in 0 .. Entries /\ kHz(arg[w][2]) \in Nat /\ N \in Nat
  <2>1. N \in Nat /\ (Entries = N \/ Entries = N - 1)
    BY OverclockAssumption
  <2>2. arg[w][2] \in Nat
    BY <1>4
  <2>3. kHz(arg[w][2]) \in Nat
    BY <2>2 DEF kHz
  <2> QED  BY <1>4, <2>1, <2>3
<1> DEFINE table == [stat.freq_table EXCEPT ![N - arg[w][1]] = kHz(arg[w][2])]
<1>6. /\ table \in [0 .. Entries -> Int] /\ table[N - arg[w][1]] = kHz(arg[w][2])
      /\ \A k \in 0 .. Entries : k # N - arg[w][1] => table[k] = stat.freq_table[k]
  <2>1. PICK t \in [0 .. Entries -> Int] : t = stat.freq_table
    BY <1>3 DEF Statistics
  <2>2. PICK k \in 0 .. Entries : k = N - arg[w][1]
    BY <1>5
  <2>3. PICK f \in Int : f = kHz(arg[w][2])
    BY <1>5
  <2>4. table = [t EXCEPT ![k] = f]
    BY <2>1, <2>2, <2>3
  <2> HIDE DEF table
  <2> QED  BY <2>1, <2>2, <2>3, <2>4
<1>7. stat' = [stat EXCEPT !.freq_table = table]
  BY <1>1
<1>8. PICK made : made = table
  OBVIOUS
<1> HIDE DEF table
<1>9. stat' \in Statistics /\ stat'.freq_table = made
  BY <1>3, <1>6, <1>7, <1>8 DEF Statistics
<1>10. stat' # NULL
  BY <1>9, OverclockAssumption
<1>11. /\ pc' \in [Writers -> {"out", "scan", "table", "policy", "stats"}] /\ pc'[w] = "out"
       /\ arg' \in [Writers -> Nat \X Nat]
       /\ \A v \in Writers : v # w => pc'[v] = pc[v] /\ arg'[v] = arg[v]
  BY <1>1, <1>2
<1>12. \A v \in Writers : /\ v # w => Active(v)' = Active(v) /\ Busy(v)' = Busy(v)
                          /\ v = w => ~Active(v)' /\ ~Busy(v)'
  BY <1>11 DEF Active, Busy
<1>13. OverclockTypes'
  BY <1>1, <1>9, <1>11, <1>12 DEF OverclockTypes
<1>14. LifeInv' /\ ArgInv' /\ CountInv'
  <2>1. LifeInv'
    BY <1>1, <1>3, <1>10 DEF LifeInv, Untouched
  <2>2. ArgInv'
    BY <1>1, <1>11, <1>12 DEF ArgInv
  <2>3. ~settled
    BY <1>1 DEF CountInv, Active
  <2>4. CountInv'
    BY <1>1, <2>3 DEF CountInv
  <2> QED  BY <2>1, <2>2, <2>4
<1>15. Told' = Told
  BY <1>1 DEF Told
<1>16. \A i : /\ Writing({"table"}, i)' = Writing({"table"}, i)
              /\ Writing({"table", "policy"}, i)' = Writing({"table", "policy"}, i)
  BY <1>1, <1>11 DEF Writing
<1>17. TableInv' /\ PolicyInv'
  BY <1>1, <1>15, <1>16 DEF TableInv, PolicyInv
<1>18. StatsInv'
  <2> SUFFICES ASSUME NEW i \in Told \ unsure
               PROVE  made[N - i] = kHz(opps[i]) \/ Writing({"table", "policy", "stats"}, i)'
    BY <1>1, <1>9, <1>15 DEF StatsInv
  <2>1. CASE i = arg[w][1]
    BY <1>4, <1>6, <1>8, <2>1
  <2>2. CASE i # arg[w][1]
    <3>1. i \in 1 .. N
      BY DEF Told
    <3>2. N - i \in 0 .. Entries /\ N - i # N - arg[w][1]
      BY <1>4, <1>5, <2>2, <3>1, OverclockAssumption
    <3>3. made[N - i] = stat.freq_table[N - i]
      BY <1>6, <1>8, <3>2
    <3>4. ASSUME Writing({"table", "policy", "stats"}, i)  PROVE Writing({"table", "policy", "stats"}, i)'
      <4>1. PICK v \in Writers : pc[v] \in {"table", "policy", "stats"} /\ arg[v][1] = i
        BY <3>4 DEF Writing
      <4>2. v # w /\ pc'[v] = pc[v] /\ arg'[v] = arg[v]
        BY <1>11, <2>2, <4>1
      <4> QED  BY <4>1, <4>2 DEF Writing
    <3> QED  BY <1>3, <3>3, <3>4 DEF StatsInv
  <2> QED  BY <2>1, <2>2
<1> QED  BY <1>13, <1>14, <1>17, <1>18

-----------------------------------------------------------------------------
(* Every step preserves OverclockInv.                                      *)
LEMMA OverclockStep == OverclockInv /\ IndexInv /\ [OverclockNext]_overclockVars => OverclockInv'
<1> SUFFICES ASSUME OverclockInv, IndexInv, [OverclockNext]_overclockVars  PROVE OverclockInv'
  OBVIOUS
<1>1. CASE CreateStats
  BY <1>1, CreateStatsStep
<1>2. CASE Jiffy \/ ShowTimeInState
  BY <1>2, CountingStep
<1>3. CASE TransitionEnds
  BY <1>3, TransitionEndsStep
<1>4. CASE OtherGovernor \/ SetGovernor \/ SetPolicy
  <2>1. UNCHANGED <<loaded, opps, freq_table, info, buf, pc, arg, unsure, settled>>
    BY <1>4 DEF OtherGovernor, SetGovernor, SetPolicy, tables
  <2>2. UNCHANGED <<cur, stat, trans, quiet>> \/ \E f : Transition(f)
    BY <1>4 DEF OtherGovernor, SetGovernor, SetPolicy, Powersave
  <2> QED  BY <2>1, <2>2, TurnStep
<1>5. CASE Load
  BY <1>5, LoadStep
<1>6. CASE Unload
  BY <1>6, UnloadStep
<1>7. ASSUME NEW w \in Writers, Write(w)  PROVE OverclockInv'
  BY <1>7, WriteCopiesStep, WriteOppStep, WriteTableStep, WritePolicyStep, WriteStatsStep DEF Write
<1>8. CASE UNCHANGED overclockVars
  <2>1. UNCHANGED <<loaded, opps, freq_table, info, buf, pc, arg, unsure, settled>>
        /\ UNCHANGED <<cur, stat, trans, quiet>>
    BY <1>8 DEF overclockVars, tables, policy, ghosts
  <2> QED  BY <2>1, TurnStep
<1> QED  BY <1>1, <1>2, <1>3, <1>4, <1>5, <1>6, <1>7, <1>8 DEF OverclockNext

(* The CPU starts at one of them.                                          *)
LEMMA IndexInitially == OverclockInit => IndexInv
<1> SUFFICES ASSUME OverclockInit  PROVE IndexInv
  OBVIOUS
<1>1. pmin = Lowest(Frequencies(KernelTable)) /\ cur \in Frequencies(KernelTable)
      /\ stat = NULL /\ trans = NULL
  BY DEF OverclockInit
<1> QED  BY <1>1, KernelFrequencies, LowestExists DEF IndexInv

(* What powersave is given as long as the table is the kernel's            *)
(* (cpufreq_powersave.c:21-36).                                            *)
LEMMA GovernorChooses ==
  ASSUME freq_table = KernelTable, NEW lo \in Frequencies(KernelTable), NEW hi
  PROVE  Wanted(lo, hi) \in Frequencies(KernelTable)
<1> DEFINE S == IF Allowed(lo, hi) # {} THEN Allowed(lo, hi) ELSE Frequencies(freq_table)
<1>1. S \in SUBSET Frequencies(KernelTable) /\ S # {}
  BY KernelFrequencies DEF Allowed
<1>2. Wanted(lo, hi) = Pick(S, lo, "L")
  BY DEF Wanted
<1> HIDE DEF S
<1>3. S \in SUBSET Nat /\ lo \in Nat
  BY <1>1, KernelFrequencies
<1>4. Pick(S, lo, "L") \in S
  BY <1>1, <1>3, PickProperties
<1> QED  BY <1>1, <1>2, <1>4

(* A transition to a known frequency preserves IndexInv.                   *)
LEMMA IndexTurns ==
  ASSUME OverclockInv, IndexInv,
         \/ UNCHANGED <<cur, stat, trans>>
         \/ \E f : Transition(f) /\ (stat = NULL => f \in Frequencies(KernelTable)),
         stat = NULL => pmin' \in Frequencies(KernelTable)
  PROVE  IndexInv'
<1>1. CASE UNCHANGED <<cur, stat, trans>>
  BY <1>1 DEF IndexInv
<1>2. ASSUME NEW f, Transition(f), stat = NULL => f \in Frequencies(KernelTable)
      PROVE  IndexInv'
  <2>1. CASE stat = NULL
    BY <1>2, <2>1 DEF Transition, IndexInv
  <2>2. CASE stat # NULL
    <3>1. stat \in Statistics
      BY <2>2 DEF OverclockInv, OverclockTypes
    <3>2. stat' = Updated(stat) /\ trans' = GetIndex(stat, f)
      BY <1>2, <2>2 DEF Transition
    <3>3. stat' \in Statistics /\ stat'.last_index = stat.last_index /\ trans' \in -1 .. Entries
      BY <3>1, <3>2, UpdatedKeeps, GetIndexFinds
    <3>4. stat' # NULL
      BY <3>3, OverclockAssumption
    <3> QED  BY <2>2, <3>3, <3>4 DEF IndexInv
  <2> QED  BY <2>1, <2>2
<1> QED  BY <1>1, <1>2

(* Every step preserves IndexInv: the early return for an index of -1      *)
(* (cpufreq_stats.c:307) never has the old index to catch.                 *)
LEMMA IndexStep == OverclockInv /\ IndexInv /\ [OverclockNext]_overclockVars => IndexInv'
<1> SUFFICES ASSUME OverclockInv, IndexInv, [OverclockNext]_overclockVars  PROVE IndexInv'
  OBVIOUS
<1>1. stat # NULL => stat \in Statistics
  BY DEF OverclockInv, OverclockTypes
<1>2. stat = NULL => freq_table = KernelTable /\ ~loaded /\ (\A w \in Writers : pc[w] = "out")
  BY DEF OverclockInv, LifeInv, Untouched, Busy
<1>3. Entries \in Nat \ {0}
  BY OverclockAssumption
<1>4. CASE CreateStats
  <2> DEFINE table == CreatedTable(freq_table)
             st == [freq_table |-> table, time |-> [i \in DOMAIN table |-> 0], since |-> 0,
                    last_index |-> 0]
  <2>1. stat = NULL /\ freq_table = KernelTable /\ cur \in Frequencies(KernelTable)
    BY <1>2, <1>4 DEF CreateStats, IndexInv
  <2>2. table \in [0 .. Entries -> Int] /\ \A k \in 0 .. Entries - 1 : table[k] = KernelTable[k]
    BY <2>1, Created
  <2> HIDE DEF table
  <2>3. st \in Statistics /\ st.freq_table = table
    BY <1>3, <2>2 DEF Statistics
  <2>4. stat' = [st EXCEPT !.last_index = GetIndex(st, cur)] /\ trans' = trans
    BY <1>4 DEF CreateStats, table
  <2> HIDE DEF st
  <2>5. PICK k \in 0 .. Entries - 1 : KernelTable[k] = cur
    BY <2>1, KernelFrequencies
  <2>6. k \in 0 .. Entries /\ table[k] = cur
    BY <1>3, <2>2, <2>5
  <2>7. GetIndex(st, cur) # -1 /\ GetIndex(st, cur) \in -1 .. Entries
    BY <2>3, <2>6, GetIndexFinds
  <2>8. GetIndex(st, cur) \in 0 .. Entries
    BY <1>3, <2>7
  <2>9. stat' # NULL /\ stat'.last_index = GetIndex(st, cur)
    BY <2>3, <2>4, <2>8, IndexMoves
  <2> QED  BY <2>4, <2>8, <2>9 DEF IndexInv
<1>5. CASE Jiffy
  <2>1. stat # NULL /\ stat' = [stat EXCEPT !.since = @ + 1] /\ trans' = trans
    BY <1>5 DEF Jiffy
  <2>2. stat' \in Statistics /\ stat'.last_index = stat.last_index
    BY <1>1, <2>1 DEF Statistics
  <2>3. stat' # NULL
    BY <2>2, OverclockAssumption
  <2> QED  BY <2>1, <2>2, <2>3 DEF IndexInv
<1>6. CASE ShowTimeInState
  <2>1. stat # NULL /\ stat' = Updated(stat) /\ trans' = trans
    BY <1>6 DEF ShowTimeInState
  <2>2. stat' \in Statistics /\ stat'.last_index = stat.last_index
    BY <1>1, <2>1, UpdatedKeeps
  <2>3. stat' # NULL
    BY <2>2, OverclockAssumption
  <2> QED  BY <2>1, <2>2, <2>3 DEF IndexInv
<1>7. CASE TransitionEnds
  <2>1. trans \in -1 .. Entries /\ trans' = NULL /\ stat # NULL
        /\ stat' = [stat EXCEPT !.last_index = NewIndex(trans)]
    BY <1>7 DEF TransitionEnds, IndexInv, OverclockInv, LifeInv
  <2>2. NewIndex(trans) \in 0 .. Entries
    <3>1. stat.last_index \in 0 .. Entries
      BY <2>1 DEF IndexInv
    <3> QED  BY <1>3, <2>1, <3>1 DEF NewIndex
  <2>3. stat' # NULL /\ stat'.last_index = NewIndex(trans)
    BY <1>1, <2>1, <2>2, IndexMoves
  <2> QED  BY <2>1, <2>2, <2>3 DEF IndexInv
<1>8. CASE OtherGovernor
  <2>1. PICK f \in Allowed(pmin, pmax) : Transition(f)
    BY <1>8 DEF OtherGovernor
  <2>2. stat = NULL => f \in Frequencies(KernelTable)
    BY <1>2, <2>1 DEF Allowed
  <2>3. pmin' = pmin
    BY <1>8 DEF OtherGovernor
  <2> QED  BY <2>1, <2>2, <2>3, IndexTurns DEF IndexInv
<1>9. CASE SetGovernor \/ SetPolicy
  <2>1. stat = NULL => pmin' \in Frequencies(KernelTable)
    BY <1>2, <1>9 DEF SetGovernor, SetPolicy, IndexInv
  <2>2. UNCHANGED <<cur, stat, trans>> \/ Transition(Wanted(pmin', pmax'))
    BY <1>9 DEF SetGovernor, SetPolicy, Powersave
  <2>3. stat = NULL => Wanted(pmin', pmax') \in Frequencies(KernelTable)
    BY <1>2, <2>1, GovernorChooses
  <2> QED  BY <2>1, <2>2, <2>3, IndexTurns
<1>10. CASE Load \/ Unload
  BY <1>10 DEF Load, Unload, policy, IndexInv
<1>11. ASSUME NEW w \in Writers, Write(w)  PROVE IndexInv'
  <2>1. stat # NULL
    BY <1>2, <1>11 DEF Write, WriteCopies, WriteOpp, WriteTable, WritePolicy, WriteStats
  <2>2. CASE WriteStats(w)
    <3>1. stat' = [stat EXCEPT !.freq_table[Entry(w)] = kHz(arg[w][2])] /\ trans' = trans
      BY <2>2 DEF WriteStats
    <3>2. arg \in [Writers -> Nat \X Nat]
      BY DEF OverclockInv, OverclockTypes
    <3>3. kHz(arg[w][2]) \in Int
      BY <3>2 DEF kHz
    <3>4. PICK k, f : k = Entry(w) /\ f = kHz(arg[w][2])
      OBVIOUS
    <3>5. stat \in Statistics /\ f \in Int /\ stat' = [stat EXCEPT !.freq_table[k] = f]
      BY <1>1, <2>1, <3>1, <3>3, <3>4
    <3>6. stat' # NULL /\ stat'.last_index = stat.last_index
      BY <3>5, EntryChanges
    <3> QED  BY <2>1, <3>1, <3>6 DEF IndexInv
  <2>3. CASE ~WriteStats(w)
    BY <1>11, <2>1, <2>3 DEF Write, WriteCopies, WriteOpp, WriteTable, WritePolicy, policy, IndexInv
  <2> QED  BY <2>2, <2>3
<1>12. CASE UNCHANGED overclockVars
  BY <1>12 DEF overclockVars, policy, IndexInv
<1> QED
  BY <1>4, <1>5, <1>6, <1>7, <1>8, <1>9, <1>10, <1>11, <1>12 DEF OverclockNext

(* Both hold in every behaviour.                                           *)
LEMMA OverclockInvariant == OverclockSpec => [](OverclockInv /\ IndexInv)
<1>1. OverclockInit => OverclockInv /\ IndexInv
  BY OverclockInitially, IndexInitially
<1>2. (OverclockInv /\ IndexInv) /\ [OverclockNext]_overclockVars => (OverclockInv /\ IndexInv)'
  BY OverclockStep, IndexStep
<1> QED  BY <1>1, <1>2, PTL DEF OverclockSpec

(* A point that nobody is moving has the same frequency in the frequency   *)
(* table, in the statistics and, if it is the first or the last, at that   *)
(* end of the policy (overclock.c:211-258), for any points, writers and    *)
(* inputs; not from the time two writes at once moved it to different      *)
(* rates until the next that does not.                                     *)
THEOREM TablesAgreeAlways == OverclockSpec => []TablesAgree
<1>1. OverclockInv => TablesAgree
  <2> SUFFICES ASSUME OverclockInv, stat # NULL, NEW i \in Told \ unsure,
                      \A w \in Writers : ~Moving(w, i)
               PROVE  /\ freq_table[N - i] = kHz(opps[i]) /\ stat.freq_table[N - i] = kHz(opps[i])
                      /\ i = N => info[2] = kHz(opps[i])
                      /\ i = 1 /\ N # 1 => info[1] = kHz(opps[i])
    BY DEF TablesAgree
  <2>1. /\ ~Writing({"table"}, i) /\ ~Writing({"table", "policy"}, i)
        /\ ~Writing({"table", "policy", "stats"}, i)
    BY DEF Writing, Moving
  <2> QED  BY <2>1 DEF OverclockInv, TableInv, PolicyInv, StatsInv
<1> QED  BY <1>1, OverclockInvariant, PTL

(* From the end of the first transition after the last write on, time is   *)
(* counted for the frequency the CPU runs at, if it is that of a point for *)
(* which the tables agree (cpufreq_stats.c:286-318): not one that two      *)
(* writes at once moved to different rates.                                *)
THEOREM AccountsAreRight == OverclockSpec => []AccountsRight
<1>1. OverclockInv => AccountsRight
  <2> SUFFICES ASSUME OverclockInv, settled, trans = NULL,
                      NEW i \in Told \ unsure, cur = kHz(opps[i])
               PROVE  stat.freq_table[stat.last_index] = cur
    BY DEF AccountsRight
  <2>1. stat # NULL /\ stat \in Statistics
    BY DEF OverclockInv, LifeInv, OverclockTypes
  <2>2. ~Writing({"table", "policy", "stats"}, i)
    BY DEF OverclockInv, CountInv, Active, Writing
  <2>3. stat.freq_table[N - i] = cur
    BY <2>1, <2>2 DEF OverclockInv, StatsInv
  <2>4. N - i \in 0 .. Entries
    BY OverclockAssumption DEF Told
  <2>5. GetIndex(stat, cur) # -1
    BY <2>1, <2>3, <2>4, GetIndexFinds
  <2> QED  BY <2>5 DEF OverclockInv, CountInv
<1> QED  BY <1>1, OverclockInvariant, PTL

-----------------------------------------------------------------------------
(* Every jiffy is counted once.                                            *)

(* The running total of f up to n.                                         *)
Running(f, n, s) ==
  s \in [0 .. n -> Int] /\ s = [k \in 0 .. n |-> f[k] + IF k = 0 THEN 0 ELSE s[k - 1]]

(* Total is the end of the running total: the equation of the recursion    *)
(* has one solution. (By the least place where two differ.)                *)
LEMMA TotalIs ==
  ASSUME NEW f \in [0 .. Entries -> Int], NEW s, Running(f, Entries, s)
  PROVE  Total(f) = s[Entries]
<1> DEFINE Runs(g) == g = [k \in 0 .. Entries |-> f[k] + IF k = 0 THEN 0 ELSE g[k - 1]]
           c == CHOOSE g : Runs(g)
<1>1. Total(f) = c[Entries]
  BY DEF Total
<1>2. Runs(s)
  BY DEF Running
<1>3. Runs(c)
  BY <1>2
<1> HIDE DEF c
<1>4. Entries \in Nat
  BY OverclockAssumption
<1> DEFINE D == {k \in 0 .. Entries : c[k] # s[k]}
<1>5. CASE D # {}
  <2>1. D \in SUBSET Nat
    BY <1>4
  <2>2. PICK k \in D : \A g \in D : k <= g
    BY <1>5, <2>1, LowestExists
  <2>3. k \in 0 .. Entries /\ k - 1 \notin D
    BY <2>1, <2>2
  <2>4. c[k] = f[k] + IF k = 0 THEN 0 ELSE c[k - 1]
    BY <1>3, <2>3
  <2>5. s[k] = f[k] + IF k = 0 THEN 0 ELSE s[k - 1]
    BY <1>2, <2>3
  <2>6. k = 0 \/ c[k - 1] = s[k - 1]
    BY <1>4, <2>3
  <2> QED  BY <2>2, <2>4, <2>5, <2>6
<1>6. CASE D = {}
  BY <1>1, <1>4, <1>6
<1> QED  BY <1>5, <1>6

(* ... and has one. (By the least length without.)                         *)
LEMMA RunningExists ==
  ASSUME NEW f \in [0 .. Entries -> Int]
  PROVE  \E s : Running(f, Entries, s)
<1>1. Entries \in Nat
  BY OverclockAssumption
<1> DEFINE D == {n \in 0 .. Entries : \A s : ~Running(f, n, s)}
<1>2. ASSUME D # {}  PROVE FALSE
  <2>1. D \in SUBSET Nat
    BY <1>1
  <2>2. PICK n \in D : \A g \in D : n <= g
    BY <1>2, <2>1, LowestExists
  <2>3. n \in 0 .. Entries /\ n - 1 \notin D
    BY <2>1, <2>2
  <2>4. CASE n = 0
    <3> DEFINE s == [k \in 0 .. 0 |-> f[0]]
    <3>1. Running(f, 0, s)
      BY <1>1 DEF Running
    <3> QED  BY <2>2, <2>4, <3>1
  <2>5. CASE n > 0
    <3>1. n - 1 \in 0 .. Entries
      BY <1>1, <2>3, <2>5
    <3>2. PICK g : Running(f, n - 1, g)
      BY <2>3, <3>1
    <3>3. g \in [0 .. n - 1 -> Int]
          /\ \A k \in 0 .. n - 1 : g[k] = f[k] + IF k = 0 THEN 0 ELSE g[k - 1]
      BY <3>2 DEF Running
    <3> DEFINE s == [k \in 0 .. n |-> IF k = n THEN f[n] + g[n - 1] ELSE g[k]]
    <3>4. s \in [0 .. n -> Int]
      BY <1>1, <2>3, <2>5, <3>3
    <3>5. \A k \in 0 .. n : s[k] = f[k] + IF k = 0 THEN 0 ELSE s[k - 1]
      BY <1>1, <2>3, <2>5, <3>3
    <3>6. Running(f, n, s)
      BY <3>4, <3>5 DEF Running
    <3> QED  BY <2>2, <3>6
  <2> QED  BY <2>3, <2>4, <2>5
<1> QED  BY <1>1, <1>2

(* Adding to one place adds to the total.                                  *)
LEMMA TotalGrows ==
  ASSUME NEW f \in [0 .. Entries -> Int], NEW i \in 0 .. Entries, NEW d \in Int
  PROVE  Total([f EXCEPT ![i] = @ + d]) = Total(f) + d /\ Total(f) \in Int
<1>1. Entries \in Nat
  BY OverclockAssumption
<1>2. PICK s : Running(f, Entries, s)
  BY RunningExists
<1>3. s \in [0 .. Entries -> Int]
      /\ \A k \in 0 .. Entries : s[k] = f[k] + IF k = 0 THEN 0 ELSE s[k - 1]
  BY <1>2 DEF Running
<1> DEFINE g == [f EXCEPT ![i] = @ + d]
           t == [k \in 0 .. Entries |-> IF k < i THEN s[k] ELSE s[k] + d]
<1>4. g \in [0 .. Entries -> Int] /\ \A k \in 0 .. Entries : g[k] = IF k = i THEN f[k] + d ELSE f[k]
  OBVIOUS
<1>5. t \in [0 .. Entries -> Int] /\ t[Entries] = s[Entries] + d
  BY <1>1, <1>3
<1>6. \A k \in 0 .. Entries : t[k] = g[k] + IF k = 0 THEN 0 ELSE t[k - 1]
  <2> SUFFICES ASSUME NEW k \in 0 .. Entries  PROVE t[k] = g[k] + IF k = 0 THEN 0 ELSE t[k - 1]
    OBVIOUS
  <2>1. k \in Int /\ i \in Int /\ s[k] \in Int /\ f[k] \in Int
    BY <1>1, <1>3
  <2>2. CASE k = 0
    <3>1. s[0] = f[0]
      BY <1>3, <2>2
    <3>2. t[0] = IF i = 0 THEN s[0] + d ELSE s[0]
      BY <2>1, <2>2
    <3> HIDE DEF t, g
    <3> QED  BY <1>4, <2>1, <2>2, <3>1, <3>2
  <2>3. CASE k > 0
    <3>1. k - 1 \in 0 .. Entries /\ s[k - 1] \in Int /\ s[k] = f[k] + s[k - 1]
      BY <1>1, <1>3, <2>1, <2>3
    <3>2. t[k] = (IF k < i THEN s[k] ELSE s[k] + d)
          /\ t[k - 1] = IF k - 1 < i THEN s[k - 1] ELSE s[k - 1] + d
      BY <3>1
    <3> HIDE DEF t, g
    <3> QED  BY <1>4, <2>1, <2>3, <3>1, <3>2
  <2> QED  BY <2>1, <2>2, <2>3
<1> HIDE DEF g, t
<1>7. Running(g, Entries, t)
  BY <1>5, <1>6 DEF Running
<1>8. Total(g) = t[Entries] /\ Total(f) = s[Entries]
  BY <1>2, <1>4, <1>7, TotalIs
<1> QED  BY <1>1, <1>3, <1>5, <1>8 DEF g

(* The total of nothing counted.                                           *)
LEMMA TotalOfNothing == Total([i \in 0 .. Entries |-> 0]) = 0
<1>1. Entries \in Nat
  BY OverclockAssumption
<1> DEFINE f == [i \in 0 .. Entries |-> 0]
<1>2. f \in [0 .. Entries -> Int] /\ Running(f, Entries, f)
  BY <1>1 DEF Running
<1>3. Total(f) = f[Entries]
  BY <1>2, TotalIs
<1> QED  BY <1>1, <1>3

(* cpufreq_stats_update moves the time since the last one to the total     *)
(* (cpufreq_stats.c:63-78).                                                *)
LEMMA UpdatedCounts ==
  ASSUME NEW st \in Statistics, st.last_index \in 0 .. Entries
  PROVE  /\ Updated(st).since = 0
         /\ Total(Updated(st).time) = Total(st.time) + st.since
         /\ Total(st.time) \in Int /\ st.since \in Int
<1>1. st.time \in [0 .. Entries -> Int] /\ st.since \in Int
  BY DEF Statistics
<1>2. Updated(st).since = 0 /\ Updated(st).time = [st.time EXCEPT ![st.last_index] = @ + st.since]
  BY DEF Updated
<1>3. /\ Total([st.time EXCEPT ![st.last_index] = @ + st.since]) = Total(st.time) + st.since
      /\ Total(st.time) \in Int
  BY <1>1, TotalGrows
<1> QED  BY <1>1, <1>2, <1>3

(* Every step preserves TimeInv.                                           *)
LEMMA TimeStep == OverclockInv /\ IndexInv /\ TimeInv /\ [OverclockNext]_overclockVars => TimeInv'
<1> SUFFICES ASSUME OverclockInv, IndexInv, TimeInv, [OverclockNext]_overclockVars  PROVE TimeInv'
  OBVIOUS
<1>1. stat # NULL => /\ stat \in Statistics /\ stat.last_index \in 0 .. Entries
                     /\ elapsed = stat.since + Total(stat.time)
  BY DEF OverclockInv, OverclockTypes, IndexInv, TimeInv, TimeConserved
<1>2. elapsed \in Int
  BY DEF TimeInv
<1>3. CASE CreateStats
  <2> DEFINE table == CreatedTable(freq_table)
             st == [freq_table |-> table, time |-> [i \in DOMAIN table |-> 0], since |-> 0,
                    last_index |-> 0]
  <2>1. freq_table = KernelTable
    BY <1>3 DEF CreateStats, OverclockInv, LifeInv, Untouched
  <2>2. DOMAIN table = 0 .. Entries
    BY <2>1, Created
  <2> HIDE DEF table
  <2>3. stat' = [st EXCEPT !.last_index = GetIndex(st, cur)] /\ elapsed' = 0
    BY <1>3 DEF CreateStats, table
  <2>4. stat'.since = 0 /\ stat'.time = [i \in 0 .. Entries |-> 0]
    BY <2>2, <2>3
  <2> QED  BY <2>3, <2>4, TotalOfNothing DEF TimeInv, TimeConserved
<1>4. CASE Jiffy
  <2>1. stat # NULL /\ elapsed' = elapsed + 1 /\ stat' = [stat EXCEPT !.since = @ + 1]
    BY <1>4 DEF Jiffy
  <2>2. stat'.since = stat.since + 1 /\ stat'.time = stat.time
    BY <1>1, <2>1 DEF Statistics
  <2>3. Total(stat.time) \in Int /\ stat.since \in Int
    BY <1>1, <2>1, UpdatedCounts
  <2> QED  BY <1>1, <1>2, <2>1, <2>2, <2>3 DEF TimeInv, TimeConserved
<1>5. ASSUME stat # NULL, stat' = Updated(stat), elapsed' = elapsed  PROVE TimeInv'
  <2>1. stat'.since = 0 /\ Total(stat'.time) = Total(stat.time) + stat.since
        /\ Total(stat.time) \in Int /\ stat.since \in Int
    BY <1>1, <1>5, UpdatedCounts
  <2> QED  BY <1>1, <1>2, <1>5, <2>1 DEF TimeInv, TimeConserved
<1>6. ASSUME elapsed' = elapsed,
             stat' = NULL <=> stat = NULL,
             stat # NULL => stat'.since = stat.since /\ stat'.time = stat.time
      PROVE  TimeInv'
  BY <1>1, <1>2, <1>6 DEF TimeInv, TimeConserved
<1>7. CASE ShowTimeInState
  BY <1>5, <1>7 DEF ShowTimeInState
<1>8. CASE OtherGovernor \/ SetGovernor \/ SetPolicy
  <2>1. elapsed' = elapsed
    BY <1>8 DEF OtherGovernor, SetGovernor, SetPolicy
  <2>2. stat' = stat \/ \E f : Transition(f)
    BY <1>8 DEF OtherGovernor, SetGovernor, SetPolicy, Powersave
  <2>3. stat' = stat \/ (stat # NULL /\ stat' = Updated(stat))
    BY <2>2 DEF Transition
  <2> QED  BY <1>5, <1>6, <2>1, <2>3
<1>9. CASE TransitionEnds
  <2>1. stat # NULL /\ elapsed' = elapsed
        /\ stat' = [stat EXCEPT !.last_index = NewIndex(trans)]
    BY <1>9 DEF TransitionEnds, OverclockInv, LifeInv
  <2>2. stat.last_index \in Int /\ trans \in Int
    BY <1>1, <1>9, <2>1 DEF TransitionEnds, OverclockInv, OverclockTypes
  <2>3. NewIndex(trans) \in Int
    BY <2>2 DEF NewIndex
  <2>4. stat' # NULL /\ stat'.since = stat.since /\ stat'.time = stat.time
    BY <1>1, <2>1, <2>3, IndexMoves
  <2> QED  BY <1>6, <2>1, <2>4
<1>10. CASE Load \/ Unload
  BY <1>6, <1>10 DEF Load, Unload
<1>11. ASSUME NEW w \in Writers, Write(w)  PROVE TimeInv'
  <2>1. CASE WriteStats(w)
    <3>1. stat # NULL
      BY <2>1 DEF WriteStats, OverclockInv, LifeInv, Untouched, Busy
    <3>2. elapsed' = elapsed /\ stat' = [stat EXCEPT !.freq_table[Entry(w)] = kHz(arg[w][2])]
      BY <2>1 DEF WriteStats
    <3>3. arg \in [Writers -> Nat \X Nat]
      BY DEF OverclockInv, OverclockTypes
    <3>4. kHz(arg[w][2]) \in Int
      BY <3>3 DEF kHz
    <3>5. PICK k, f : k = Entry(w) /\ f = kHz(arg[w][2])
      OBVIOUS
    <3>6. stat \in Statistics /\ f \in Int /\ stat' = [stat EXCEPT !.freq_table[k] = f]
      BY <1>1, <3>1, <3>2, <3>4, <3>5
    <3>7. stat' # NULL /\ stat'.since = stat.since /\ stat'.time = stat.time
      BY <3>6, EntryChanges
    <3> QED  BY <1>6, <3>1, <3>2, <3>7
  <2>2. CASE ~WriteStats(w)
    <3>1. UNCHANGED <<stat, elapsed>>
      BY <1>11, <2>2 DEF Write, WriteCopies, WriteOpp, WriteTable, WritePolicy
    <3> QED  BY <1>6, <3>1
  <2> QED  BY <2>1, <2>2
<1>12. CASE UNCHANGED overclockVars
  BY <1>6, <1>12 DEF overclockVars
<1> QED
  BY <1>3, <1>4, <1>7, <1>8, <1>9, <1>10, <1>11, <1>12 DEF OverclockNext

(* Every jiffy since the statistics began is in the time of some frequency *)
(* or still to be added (cpufreq_stats.c:63-78, 286-318), whatever is      *)
(* written, read or looked up.                                             *)
THEOREM TimeIsConserved == OverclockSpec => []TimeConserved
<1>1. OverclockInit => TimeInv
  BY DEF OverclockInit, TimeInv, TimeConserved
<1>2. (OverclockInv /\ IndexInv) /\ TimeInv /\ [OverclockNext]_overclockVars => TimeInv'
  BY TimeStep
<1>3. TimeInv => TimeConserved
  BY DEF TimeInv
<1> QED  BY <1>1, <1>2, <1>3, OverclockInvariant, PTL DEF OverclockSpec

=============================================================================
