---------------------------- MODULE SensorStream ----------------------------
(***************************************************************************)
(* What libsensors promises of the samples of every sensor: each one the   *)
(* kernel reports is taken exactly once and in order, and then put into    *)
(* the caller's array once unless its sensor can be muted and is muted.    *)
(* The last sample of a shared sensor may be put there again.              *)
(***************************************************************************)
EXTENDS Naturals

CONSTANTS Part,      \* the sensors
          Mutable,   \* those whose samples are dropped while they are muted
          Shared     \* those of a device that reports without them, too

VARIABLES sent,      \* how many samples of each sensor the kernel reported
          taken,     \* how many of them were taken
          given,     \* how many times one was put into an array
          muted

Init == /\ sent = [p \in Part |-> 0]
        /\ taken = [p \in Part |-> 0]
        /\ given = [p \in Part |-> 0]
        /\ muted = Mutable

Report(new) == /\ sent' = [p \in Part |-> IF p \in new THEN sent[p] + 1 ELSE sent[p]]
               /\ UNCHANGED <<taken, given, muted>>

Take(p) == /\ taken[p] < sent[p]
           /\ taken' = [taken EXCEPT ![p] = @ + 1]
           /\ given' = [given EXCEPT ![p] = IF p \in muted THEN @ ELSE @ + 1]
           /\ UNCHANGED <<sent, muted>>

Mute == /\ muted' \in SUBSET Mutable
        /\ UNCHANGED <<sent, taken, given>>

Again(p) == /\ p \in Shared
            /\ given' = [given EXCEPT ![p] = @ + 1]
            /\ UNCHANGED <<sent, taken, muted>>

Next == Mute \/ (\E new \in SUBSET Part : Report(new)) \/ \E p \in Part : Take(p) \/ Again(p)

Spec == Init /\ [][Next]_<<sent, taken, given, muted>>
============================================================================
