------------------------------ MODULE MCDesks ------------------------------
(* Values of the constants for the runs of Desks.                          *)
EXTENDS Desks, TLC

CONSTANTS purse

EqualPurses == [u \in Members |-> purse]
Corrected   == {-2, -1, 1}
Taken       == {-1}

Symmetry  == Permutations(Members) \cup Permutations(Ids)
OneOfEach == [i \in Items |-> IF i = Wish THEN Unlimited ELSE 1]
=============================================================================
