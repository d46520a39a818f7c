---------------------------- MODULE MCSolutionCtrl ----------------------------
EXTENDS SolutionCtrl

(* A problem without parameters and one with two combinations; a kernel    *)
(* with parameters and one without.                                        *)
MCProblems == <<{}, {1, 2}>>
MCSolutions == <<{1, 2}, {}>>
MCSrcTypes == {"GAS_FILE", "BIN_FILE", "OCL_FILE", "OCL_STR", "GAS_STR", "HIP_FILE"}
GasOnly == {"GAS_FILE"}
=============================================================================
