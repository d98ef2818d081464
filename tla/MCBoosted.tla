----------------------------- MODULE MCBoosted -----------------------------
(* Instances of Boosted: a table of three frequencies, in units of         *)
(* 100 MHz, with an ideal between two of them.                             *)
EXTENDS Boosted

TwoPolicies == {<<3, 10>>, <<3, 6>>}

(* A maximum that is not a frequency of the table.                         *)
OddPolicy == {<<3, 7>>}

=============================================================================
