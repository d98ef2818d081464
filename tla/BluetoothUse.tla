---------------------------- MODULE BluetoothUse ----------------------------
(***************************************************************************)
(* What bluedroid.c promises the applications that share Bluetooth: it is  *)
(* on as long as anybody uses it, and only whoever finds nobody else       *)
(* using it may turn it off.                                               *)
(***************************************************************************)
CONSTANT Proc

VARIABLES
  on,      \* Bluetooth is on, as bt_is_enabled sees it
  users    \* who was told that Bluetooth is enabled and has not disabled it

vars == <<on, users>>

Init == on = FALSE /\ users = {}

TurnOn == on' = TRUE /\ UNCHANGED users
TurnOff == users = {} /\ on' = FALSE /\ UNCHANGED users

Enter(p) == on /\ users' = users \cup {p} /\ UNCHANGED on
Leave(p) == users' = users \ {p} /\ UNCHANGED on

Next ==
  \/ TurnOn
  \/ TurnOff
  \/ \E p \in Proc : Enter(p) \/ Leave(p)

Spec == Init /\ [][Next]_vars

=============================================================================
