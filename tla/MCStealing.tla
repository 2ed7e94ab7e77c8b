------------------------------ MODULE MCStealing ------------------------------
(***************************************************************************)
(* The instances of Stealing that TLC checks: tests that do not differ but *)
(* for the heavy ones: they need two slots, or they alone use the fixture, *)
(* which then outlives them.                                               *)
(***************************************************************************)
EXTENDS Stealing, TLC

CONSTANT Heavy

Symmetry == Permutations(Workers) \cup Permutations(Tests \ Heavy) \cup Permutations(Heavy)

Plain      == [t \in Tests |-> {}]
HeavyUses  == [t \in Tests |-> IF t \in Heavy THEN Fixtures ELSE {}]
Session    == [t \in Tests |-> Fixtures]
HeavyTwo   == [t \in Tests |-> IF t \in Heavy THEN 2 ELSE 1]
AllOne     == [t \in Tests |-> 1]
OneSlot    == [f \in Fixtures |-> 1]
TwoSlots   == [f \in Fixtures |-> 2]
=============================================================================
