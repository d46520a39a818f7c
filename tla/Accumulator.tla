----------------------------- MODULE Accumulator -----------------------------
(***************************************************************************)
(* What the result of a reduction is, whatever instructions the groups     *)
(* use: cells that are zeroed, and to each of which every group adds its   *)
(* share in one step, once.                                                *)
(***************************************************************************)
EXTENDS DeviceFloat

CONSTANTS
  Adders,       \* the groups
  Cells,        \* the elements of the result
  Share         \* [g][l]: what g contributes to cell l

VARIABLES cell,     \* the elements
          added     \* who has added to each since it was zeroed, or since the launch

aVars == <<cell, added>>

Init ==
  /\ cell \in [Cells -> Value]
  /\ added = [l \in Cells |-> {}]

Zero(l) ==
  /\ cell' = [cell EXCEPT ![l] = 0]
  /\ added' = [added EXCEPT ![l] = {}]

(* A sum that is no number stays one, however often it is added to.        *)
Add(g, l) ==
  /\ g \notin added[l] \/ cell[l] = NaN
  /\ cell' = [cell EXCEPT ![l] = FAdd(@, Share[g][l])]
  /\ added' = [added EXCEPT ![l] = @ \cup {g}]

(* A new launch finds the cells as the last one left them.                 *)
Launch == added' = [l \in Cells |-> {}] /\ UNCHANGED cell

Next == Launch \/ \E l \in Cells : Zero(l) \/ \E g \in Adders : Add(g, l)

Spec == Init /\ [][Next]_aVars
==============================================================================
