------------------------------ MODULE MCReducAdd ------------------------------
EXTENDS ReducAdd

(* Rows of powers of two, so that every set of groups has its own sum.     *)
MCInput == [r \in 0 .. ReducSize - 1 |-> [l \in Lanes |-> 2 ^ r]]
MCFound == {0, 3, NaN, MinusZero}
AllZero == {0}
=============================================================================
