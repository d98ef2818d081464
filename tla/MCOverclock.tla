---------------------------- MODULE MCOverclock -----------------------------
(* Three operating points of which the kernel's table lacks the slowest;   *)
(* the writers do not agree on where to move one of them, a rate of 0 and  *)
(* a bad index are tried.                                                  *)
EXTENDS Overclock, TLC

MCRates == <<300000, 600000, 800000>>
MCInputs == {<<3, 1000000>>, <<3, 800000>>, <<1, 0>>, <<0, 300000>>}
Symmetry == Permutations(Writers)
=============================================================================
