----------------------------- MODULE Enumeration -----------------------------
(***************************************************************************)
(* What a parameter search promises its client, whatever the order it      *)
(* walks in: after Start every combination of the space is handed out      *)
(* exactly once, the first one by Start itself, and the end of the search  *)
(* is only announced when nothing is left.                                 *)
(***************************************************************************)
CONSTANT None          \* the value of space before the search starts

VARIABLES space,       \* the combinations to search
          seen,        \* those handed out so far
          finished     \* the client has been told that the search is over

eVars == <<space, seen, finished>>

Init == space = None /\ seen = {} /\ ~finished

(* The space is fixed and one of its members is handed out. *)
Start ==
  /\ space = None
  /\ space' # None
  /\ \E c \in space' : seen' = {c}
  /\ UNCHANGED finished

(* A member never handed out before is handed out. *)
Hand ==
  /\ space # None
  /\ \E c \in space \ seen : seen' = seen \cup {c}
  /\ UNCHANGED <<space, finished>>

(* The end is announced, with nothing left. *)
Finish ==
  /\ space # None
  /\ seen = space
  /\ ~finished
  /\ finished'
  /\ UNCHANGED <<space, seen>>

Next == Start \/ Hand \/ Finish

Safety == Init /\ [][Next]_eVars

(* A search that has started ends. *)
Ends == (space # None) ~> finished
==============================================================================
