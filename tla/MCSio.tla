------------------------------- MODULE MCSio -------------------------------
(* Instances of Sio: one or two requests of each kind the block layer      *)
(* makes.  Reads always count as synchronous there, so the [ASYNC][READ]   *)
(* list stays empty.                                                       *)
EXTENDS Sio

CONSTANTS r1, r2, w1, w2, a1, a2

MCSync == [r \in Req |-> IF r \in {a1, a2} THEN "ASYNC" ELSE "SYNC"]
MCDir == [r \in Req |-> IF r \in {r1, r2} THEN "READ" ELSE "WRITE"]

(* Synchronous requests are due the next tick, asynchronous ones later.    *)
ShortExpire == [l \in Lists |-> IF l[1] = "SYNC" THEN 0 ELSE 1]

(* Memory that held zero and -1.                                           *)
ExtremeGarbage == {0, Word - 1}

MCInputs == {-1, 0, 1}

=============================================================================
