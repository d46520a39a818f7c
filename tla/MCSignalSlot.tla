----------------------------- MODULE MCSignalSlot -----------------------------
EXTENDS SignalSlot

(* Left-over words.  A wave always owns word 0; in the words that may stay *)
(* unowned are indices of their own, one that shares its bit with signal 1 *)
(* and one that shares it with the 0 of an empty word.                     *)
MCFound == {[l \in Lanes |-> Bits + f[l + 1]] : f \in {<<1, 3, 2>>, <<2, 0, 1>>}}
MCClear == {[l \in Lanes |-> 0]}
=============================================================================
