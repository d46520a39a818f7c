---------------------------- MODULE MCKernelWriter ----------------------------
(* A device with few registers, so that generators run out of them.        *)
EXTENDS KernelWriter

(* The shapes the repository's generators ask for, and a pair that is not  *)
(* aligned (as initialDefaultGprs has one).                                *)
MCRequests == {One, [len |-> 2, align |-> 2], [len |-> 2, align |-> 1]}
MCLds == {4, 8}
=============================================================================
