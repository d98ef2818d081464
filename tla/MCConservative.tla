--------------------------- MODULE MCConservative ---------------------------
(* Four frequencies in MHz, two of them close together. *)
EXTENDS Conservative

MCPolicies == {<<300, 1000>>, <<300, 600>>, <<600, 1000>>}
=============================================================================
