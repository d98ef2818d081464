------------------------------ MODULE MCLights ------------------------------
(* The lights that share a file are used together, the others on their     *)
(* own: all that would add is a lock held longer.                          *)
EXTENDS Lights, TLC

Color(r, g, b, f) == [red |-> r, green |-> g, blue |-> b, flash |-> f]
MCColors == {Dark, Color(0, 255, 0, FALSE), Color(255, 255, 0, TRUE)}
MCBackStates == {[als |-> 1, lcd |-> 18], [als |-> 2, lcd |-> 200]}
MCOpened == {{"backlight"}, {"buttons"}, {"battery", "notification"}}
Symmetry == Permutations(Callers)
=============================================================================
