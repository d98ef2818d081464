----------------------------- MODULE MCSensors -----------------------------
(* Two drivers: KXTF9 (sensor 9) and AK8973 with its magnetic field and    *)
(* temperature, which have the numbers of its enum; or, in place of KXTF9, *)
(* ISL29030P, whose device also reports events of the light sensor only.   *)
EXTENDS Sensors, TLC
MCPartsOf == <<{9}, {1, 3}>>
MCReports == <<{<<9>>}, {<<0, 3>>, <<1, 3>>}>>
SharedReports == <<{<<9>>, <<0>>}, {<<1, 3>>}>>
MCMaxSamples == 9 :> 2 @@ 1 :> 1 @@ 3 :> 2
MCEvent == InputEvent
============================================================================
