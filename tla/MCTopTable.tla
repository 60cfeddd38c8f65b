----------------------------- MODULE MCTopTable -----------------------------
(* TopTable for TLC: three names, two of which differ in case only.        *)
EXTENDS TopTable, TLC

LowerCase == [n \in Name |-> IF n = 3 THEN 0 ELSE 1]
M(h, hs, as, a) == [home |-> h, away |-> a, hs |-> hs, as |-> as]
Results   == {M(1, 1, 0, 2), M(1, 1, 1, 2), M(1, 2, 1, 3), M(2, 0, 0, 2)}
Two       == <<1, 2>>
Symmetry  == Permutations(Call)
=============================================================================
