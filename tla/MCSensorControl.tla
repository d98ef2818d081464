-------------------------- MODULE MCSensorControl ---------------------------
(* Two users of the files, who both write the speed; a threshold above 255. *)
EXTENDS SensorControl

CONSTANTS u1, u2

MCUsed == {{"kxtf9", "restart"}, {"ak8973", "restart"}, {"prox", "light", "restart"},
           {"prox", "speed", "enabled", "distance"},
           {"light", "enabled", "see_enabled", "highpower", "see_highpower"},
           {"low", "high", "speed", "see_high", "see_speed"}, {"prox", "speed", "highpower"}}
MCFilesOf == [u \in {u1, u2} |-> IF u = u1 THEN {"speed", "enabled", "low"}
                                 ELSE Files \ {"enabled", "low"}]
MCValues == [f \in Written |-> CASE f = "speed" -> {3, 7} [] f \in Thresholds -> {300}
                                 [] f = "highpower" -> {1} [] OTHER -> {0}]
=============================================================================
