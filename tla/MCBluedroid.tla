---------------------------- MODULE MCBluedroid ----------------------------
(* Instances of Bluedroid: two or three processes share Bluetooth.         *)
EXTENDS Bluedroid, TLC

CONSTANTS p1, p2, p3

(* Everything may fail, with one call at a time and with overlapping ones. *)
Anything == {"look", "rfkill", "init", "socket", "hci", "file"}
AllFaults == "serial" :> Anything @@ "concurrent" :> Anything

NoFaults == "concurrent" :> {}
SocketFaults == "serial" :> {"socket"}

=============================================================================
