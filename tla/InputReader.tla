---------------------------- MODULE InputReader ----------------------------
(***************************************************************************)
(* InputEventCircularReader of libsensors (InputEventReader.cpp): a ring   *)
(* of NumEvents events.  The code's array is twice as long so that one     *)
(* read(2) can run past the end of the ring; what lands there is copied to *)
(* the front at once and not looked at again, so that the model keeps the  *)
(* first half.  Pointers into the array are indices from 0.                *)
(***************************************************************************)
EXTENDS Integers, Sequences

CONSTANTS NumEvents,  \* the constructor's argument, 32 in every driver
          Event       \* what an input_event can be

ASSUME ReaderAssumption == NumEvents \in Nat \ {0}

Slots == 0 .. NumEvents - 1

Ring == [buf : [Slots -> Event], mHead : 0 .. NumEvents,
         mCurr : Slots, mFreeSpace : 0 .. NumEvents]

\* InputEventCircularReader(numEvents): the array's contents do not matter.
NewRing(e) == [buf |-> [k \in Slots |-> e], mHead |-> 0, mCurr |-> 0,
               mFreeSpace |-> NumEvents]

Available(r) == NumEvents - r.mFreeSpace

\* readEvent(): the oldest event; its caller asks only if one is available.
Current(r) == r.buf[r.mCurr]

\* fill(): read(2) put the events s, no more than mFreeSpace, at mHead; those
\* behind the ring's end go to its front.
Stored(r, s, over) ==
  [k \in Slots |-> IF k < over THEN s[NumEvents - r.mHead + k + 1]
                   ELSE IF k \in r.mHead .. r.mHead + Len(s) - 1
                        THEN s[k - r.mHead + 1] ELSE r.buf[k]]

FilledUnwrapped(r, s) ==
  [r EXCEPT !.buf = Stored(r, s, 0), !.mHead = @ + Len(s), !.mFreeSpace = @ - Len(s)]

Filled(r, s) ==
  LET over == r.mHead + Len(s) - NumEvents
  IN  [r EXCEPT !.buf = Stored(r, s, over),
                !.mHead = IF over > 0 THEN over ELSE @ + Len(s),
                !.mFreeSpace = @ - Len(s)]

\* next()
Advanced(r) == [r EXCEPT !.mCurr = IF @ + 1 >= NumEvents THEN 0 ELSE @ + 1,
                         !.mFreeSpace = @ + 1]

----------------------------------------------------------------------------
\* The reading position, the number of events held and the writing position
\* agree, around the ring.
RingInv(r) == /\ r \in Ring
              /\ r.mCurr + Available(r) - r.mHead \in {0, NumEvents, 0 - NumEvents}

\* The events held, oldest first: what the ring stands for.
Contents(r) ==
  [k \in 1 .. Available(r) |->
     r.buf[IF r.mCurr + k - 1 < NumEvents THEN r.mCurr + k - 1
                                          ELSE r.mCurr + k - 1 - NumEvents]]
============================================================================
