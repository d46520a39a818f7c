--------------------------- MODULE MCSearchSpace ---------------------------
(* Instances of SearchSpace for TLC.                                       *)
EXTENDS SearchSpace

Explicit(vals) == [ValueArray |-> vals, MinValue |-> 0, MaxValue |-> 0, Step |-> 0]
Range(min, max, step) == [ValueArray |-> <<>>, MinValue |-> min, MaxValue |-> max, Step |-> step]

(* One, two and three values; a range of two, refused ranges (zero step,   *)
(* empty, quotient truncated to zero) and a descending one.                *)
MCSpecs ==
  {Explicit(<<7>>), Explicit(<<4, 8>>), Explicit(<<1, 2, 3>>), Range(2, 7, 2),
   Range(1, 9, 0), Range(5, 5, 1), Range(1, 2, 4), Range(6, 4, -1)}
ExplicitSpecs == {Explicit(<<7>>), Explicit(<<4, 8>>), Explicit(<<1, 2, 3>>)}
RangeSpecs == {Range(2, 7, 2)}
OnlyFalse == {FALSE}
AnyBool == BOOLEAN
============================================================================
