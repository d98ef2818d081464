--------------------------- MODULE MCInteractive ----------------------------
(* Three frequencies in MHz; each change of the limits may leave the       *)
(* frequency above the maximum or below the minimum.                       *)
EXTENDS Interactive

MCPolicies == {<<300, 600>>, <<600, 1000>>}
=============================================================================
