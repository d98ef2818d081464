------------------------------ MODULE MCCamera ------------------------------
(* Two users of one instance; every exposure, with the automatic flash of  *)
(* a portrait; the torch and no flash, as they are and from a scene.       *)
EXTENDS Camera

Request(s, f, e) == [scene |-> s, flash |-> f, exposure |-> e]
MCRequests == {Request("portrait", "off", e) : e \in -9 .. 9}
              \cup {Request("auto", "torch", 0), Request("auto", "off", 0), Request("sports", "torch", 0)}
=============================================================================
