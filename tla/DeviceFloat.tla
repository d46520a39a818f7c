----------------------------- MODULE DeviceFloat -----------------------------
(***************************************************************************)
(* Floats as the reduction kernel meets them: integers small enough to be  *)
(* exact, and the two kinds of value that do not behave like integers.     *)
(***************************************************************************)
EXTENDS Integers

CONSTANTS
  NaN,          \* not a number: absorbs what is added, equals nothing
  MinusZero     \* equal to 0 in a comparison, different from it in memory

Value == Int \cup {NaN, MinusZero}

ASSUME FloatAssumption == NaN \notin Int /\ MinusZero \notin Int /\ NaN # MinusZero

(* v_add_f32 *)
FAdd(x, y) == IF x = NaN \/ y = NaN THEN NaN
              ELSE IF x = MinusZero THEN y
              ELSE IF y = MinusZero THEN x ELSE x + y

(* v_cmpx_neq_f32: true unless the operands compare equal.                 *)
FNeq(x, y) ==
  \/ x = NaN \/ y = NaN
  \/ x # y /\ {x, y} # {0, MinusZero}
==============================================================================
