------------------------- MODULE CpufreqTableProofs -------------------------
(***************************************************************************)
(* What the search in the frequency table of CpufreqTable returns, for any *)
(* set of frequencies.                                                     *)
(***************************************************************************)
EXTENDS CpufreqTable, WellFoundedInduction, TLAPS

-----------------------------------------------------------------------------
(* The highest and the lowest frequency of a set exist.                    *)
LEMMA LowestExists ==
  ASSUME NEW S \in SUBSET Nat, S # {}
  PROVE  Lowest(S) \in S /\ \A g \in S : Lowest(S) <= g
<1>1. PICK x \in S : \A y \in S : ~ (<<y, x>> \in OpToRel(<, Nat))
  BY NatLessThanWellFounded, WFMin
<1>2. \A y \in S : x <= y
  <2> SUFFICES ASSUME NEW y \in S  PROVE x <= y
    OBVIOUS
  <2>1. ~ (<<y, x>> \in OpToRel(<, Nat))
    BY <1>1
  <2>2. x \in Nat /\ y \in Nat
    OBVIOUS
  <2>3. ~ (y < x)
    BY <2>1, <2>2 DEF OpToRel
  <2> QED  BY <2>2, <2>3
<1> QED  BY <1>2 DEF Lowest

(* A bounded set of frequencies has a highest one.                         *)
LEMMA HighestExists ==
  ASSUME NEW S \in SUBSET Nat, S # {},
         NEW bound \in Nat, \A g \in S : g <= bound
  PROVE  Highest(S) \in S /\ \A g \in S : g <= Highest(S)
<1> DEFINE D == {bound - g : g \in S}
<1>1. D \in SUBSET Nat /\ D # {}
  <2>1. \A g \in S : bound - g \in Nat
    OBVIOUS
  <2>2. D \subseteq Nat
    BY <2>1
  <2> QED  BY <2>2
<1>2. Lowest(D) \in D /\ \A d \in D : Lowest(D) <= d
  BY <1>1, LowestExists
<1>3. PICK x \in S : Lowest(D) = bound - x
  BY <1>2
<1>4. \A g \in S : g <= x
  <2> SUFFICES ASSUME NEW g \in S  PROVE g <= x
    OBVIOUS
  <2>1. bound - g \in D
    OBVIOUS
  <2>2. bound - x <= bound - g
    BY <1>2, <1>3, <2>1
  <2>3. x \in Nat /\ g \in Nat
    OBVIOUS
  <2> QED  BY <2>2, <2>3
<1> QED  BY <1>4 DEF Highest

(* What cpufreq_frequency_table_target returns: a frequency of the set,    *)
(* and the nearest on the preferred side when that side has one.           *)
LEMMA PickProperties ==
  ASSUME NEW S \in SUBSET Nat, S # {}, NEW f \in Nat,
         NEW relation \in {"H", "L"}
  PROVE  /\ Pick(S, f, relation) \in S
         /\ relation = "H" => \A g \in S : g <= f =>
              g <= Pick(S, f, relation) /\ Pick(S, f, relation) <= f
         /\ relation = "L" => \A g \in S : f <= g =>
              f <= Pick(S, f, relation) /\ Pick(S, f, relation) <= g
<1> DEFINE below == {g \in S : g <= f}
           above == {g \in S : f <= g}
<1>1. below \in SUBSET Nat /\ above \in SUBSET Nat
  OBVIOUS
<1>2. \A g \in below : g <= f
  OBVIOUS
<1>3. below # {} => Highest(below) \in below /\ \A g \in below : g <= Highest(below)
  BY <1>1, <1>2, HighestExists
<1>4. above # {} => Lowest(above) \in above /\ \A g \in above : Lowest(above) <= g
  BY <1>1, LowestExists
<1>5. below # {} \/ above # {}
  <2>1. PICK g \in S : TRUE
    OBVIOUS
  <2>2. g \in Int /\ (g <= f \/ f <= g)
    BY <2>1
  <2> QED  BY <2>2
<1> HIDE DEF below, above
<1>6. Pick(S, f, relation) =
        IF relation = "H"
        THEN IF below # {} THEN Highest(below) ELSE Lowest(above)
        ELSE IF above # {} THEN Lowest(above) ELSE Highest(below)
  BY DEF Pick, below, above
<1>7. below \subseteq S /\ above \subseteq S
  BY DEF below, above
<1>8. CASE relation = "H"
  <2>1. CASE below # {}
    BY <1>3, <1>6, <1>7, <1>8, <2>1 DEF below
  <2>2. CASE below = {}
    BY <1>4, <1>5, <1>6, <1>7, <1>8, <2>2 DEF below
  <2> QED  BY <2>1, <2>2
<1>9. CASE relation = "L"
  <2>1. CASE above # {}
    BY <1>4, <1>6, <1>7, <1>9, <2>1 DEF above
  <2>2. CASE above = {}
    BY <1>3, <1>5, <1>6, <1>7, <1>9, <2>2 DEF above
  <2> QED  BY <2>1, <2>2
<1> QED  BY <1>8, <1>9

(* With none on the preferred side, it is the nearest on the other: no     *)
(* frequency lies between the one asked for and the one returned.          *)
LEMMA PickNearest ==
  ASSUME NEW S \in SUBSET Nat, S # {}, NEW f \in Nat
  PROVE  /\ \A g \in S : f <= g => Pick(S, f, "H") <= g
         /\ \A g \in S : g <= f => g <= Pick(S, f, "L")
<1> DEFINE below == {g \in S : g <= f}
           above == {g \in S : f <= g}
<1>1. below \in SUBSET Nat /\ above \in SUBSET Nat
  OBVIOUS
<1>2. below # {} => Highest(below) \in below /\ \A g \in below : g <= Highest(below)
  BY <1>1, HighestExists
<1>3. above # {} => Lowest(above) \in above /\ \A g \in above : Lowest(above) <= g
  BY <1>1, LowestExists
<1>4. ASSUME NEW g \in S, f <= g  PROVE Pick(S, f, "H") <= g
  <2>1. g \in above
    BY <1>4
  <2> HIDE DEF below, above
  <2>2. Pick(S, f, "H") = IF below # {} THEN Highest(below) ELSE Lowest(above)
    BY DEF Pick, below, above
  <2>3. CASE below # {}
    <3>1. Pick(S, f, "H") \in below
      BY <1>2, <2>2, <2>3
    <3>2. Pick(S, f, "H") \in Nat /\ Pick(S, f, "H") <= f
      BY <3>1 DEF below
    <3>3. g \in Nat
      OBVIOUS
    <3> QED  BY <1>4, <3>2, <3>3
  <2>4. CASE below = {}
    BY <1>3, <2>1, <2>2, <2>4
  <2> QED  BY <2>3, <2>4
<1>5. ASSUME NEW g \in S, g <= f  PROVE g <= Pick(S, f, "L")
  <2>1. g \in below
    BY <1>5
  <2> HIDE DEF below, above
  <2>2. Pick(S, f, "L") = IF above # {} THEN Lowest(above) ELSE Highest(below)
    BY DEF Pick, below, above
  <2>3. CASE above # {}
    <3>1. Pick(S, f, "L") \in above
      BY <1>3, <2>2, <2>3
    <3>2. Pick(S, f, "L") \in Nat /\ f <= Pick(S, f, "L")
      BY <3>1 DEF above
    <3>3. g \in Nat
      OBVIOUS
    <3> QED  BY <1>5, <3>2, <3>3
  <2>4. CASE above = {}
    BY <1>2, <2>1, <2>2, <2>4
  <2> QED  BY <2>3, <2>4
<1> QED  BY <1>4, <1>5

(* What the driver sets for a frequency grows with the frequency, and      *)
(* rounding down gives no more than rounding up.                           *)
LEMMA PickMonotone ==
  ASSUME NEW S \in SUBSET Nat, S # {}, NEW f \in Nat, NEW g \in Nat, f <= g
  PROVE  /\ Pick(S, f, "H") <= Pick(S, g, "H")
         /\ Pick(S, f, "L") <= Pick(S, g, "L")
         /\ Pick(S, f, "H") <= Pick(S, f, "L")
<1> DEFINE fh == Pick(S, f, "H")
           fl == Pick(S, f, "L")
           gh == Pick(S, g, "H")
           gl == Pick(S, g, "L")
<1>1. fh \in S /\ fl \in S /\ gh \in S /\ gl \in S
  BY PickProperties
<1>2. /\ \A x \in S : x <= f => x <= fh /\ fh <= f
      /\ \A x \in S : x <= g => x <= gh /\ gh <= g
      /\ \A x \in S : f <= x => f <= fl /\ fl <= x
      /\ \A x \in S : g <= x => g <= gl /\ gl <= x
  BY PickProperties
<1>3. /\ \A x \in S : f <= x => fh <= x
      /\ \A x \in S : g <= x => gh <= x
      /\ \A x \in S : x <= f => x <= fl
      /\ \A x \in S : x <= g => x <= gl
  BY PickNearest
<1> HIDE DEF fh, fl, gh, gl
<1>4. fh \in Nat /\ fl \in Nat /\ gh \in Nat /\ gl \in Nat
  BY <1>1
<1>5. fh <= gh
  BY <1>1, <1>2, <1>3, <1>4
<1>6. fl <= gl
  BY <1>1, <1>2, <1>3, <1>4
<1>7. fh <= fl
  BY <1>1, <1>2, <1>3, <1>4
<1> QED  BY <1>5, <1>6, <1>7 DEF fh, fl, gh, gl

(* A frequency the driver has is set as it is.                             *)
LEMMA PickExact ==
  ASSUME NEW S \in SUBSET Nat, NEW f \in S, NEW relation \in {"H", "L"}
  PROVE  Pick(S, f, relation) = f
<1>1. /\ Pick(S, f, relation) \in S
      /\ relation = "H" => f <= Pick(S, f, relation) /\ Pick(S, f, relation) <= f
      /\ relation = "L" => f <= Pick(S, f, relation) /\ Pick(S, f, relation) <= f
  BY PickProperties
<1>2. Pick(S, f, relation) \in Nat /\ f \in Nat
  BY <1>1
<1> QED  BY <1>1, <1>2

=============================================================================
