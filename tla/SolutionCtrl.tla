----------------------------- MODULE SolutionCtrl -----------------------------
(***************************************************************************)
(* The tuning run (ProblemControl.cpp): RunProblem takes every problem     *)
(* configuration and every combination of its parameters, RunSolution      *)
(* every solution configuration and every combination of its kernel        *)
(* parameters; each kernel is generated, built (RuntimeControl.h),         *)
(* launched RepeatTime times, scored, and its result copied back.          *)
(* GetNexComb is used by its contract, Enumeration, which SearchSpace is   *)
(* shown to implement.  Problem and solution configurations are numbered   *)
(* from 1; a space without parameters is {}.                               *)
(***************************************************************************)
EXTENDS Integers, Sequences, FiniteSets

CONSTANTS
  ProblemSpaces,    \* the parameter combinations of each problem configuration
  SolutionSpaces,   \* those of each solution configuration
  SrcTypes,         \* the kernel source types GenerateSolution may choose
  Verdicts,         \* what it may return
  ToolsMayFail,     \* whether assembler, compiler and cp may fail
  Times,            \* what a launch may take
  RepeatTime,
  NoComb, NoFile, Unset, Old

Comb(spaces) == {NoComb} \cup UNION {spaces[i] : i \in DOMAIN spaces}

ASSUME ControlAssumption ==
  /\ ProblemSpaces \in Seq(SUBSET Comb(ProblemSpaces))
  /\ SolutionSpaces \in Seq(SUBSET Comb(SolutionSpaces))
  /\ \A i \in DOMAIN ProblemSpaces : IsFiniteSet(ProblemSpaces[i])
  /\ \A i \in DOMAIN SolutionSpaces : IsFiniteSet(SolutionSpaces[i])
  /\ RepeatTime \in Nat \ {0}
  /\ Times \subseteq Nat
  /\ Verdicts \subseteq {"SUCCESS", "FAIL"}
  /\ ToolsMayFail \in BOOLEAN

VARIABLES
  pc,         \* problems, problem, configs, init, generate, setup, launch,
              \* readback, search, verify, finished, exited
  p, pComb, pSeen,   \* problem configuration, its combination, those handed out
  s, kComb, kSeen,   \* solution configuration, its combination, those handed out
  srcType,    \* KernelSrcType
  bin,        \* the kernel in the binary target file
  prog,       \* the kernel in runtime->program
  times,      \* ElapsedTimes: a launch's time, and (history) the kernel that ran
  best,       \* ProblemBestTime, times RepeatTime
  kBest,      \* the recorded best combination of each solution configuration
  bestScore,  \* BestScore.ElapsedTime
  result,     \* h_c: which problem it was computed for
  bufs,       \* sets of device buffers not freed
  runtimes,   \* runtime objects not deleted
  measured,   \* history: what GetPerformence scored for this problem combination
  rejected    \* history: all the kernels GenerateSolution refused

pVars == <<p, pComb, pSeen>>
kVars == <<s, kComb, kSeen>>
build == <<srcType, bin, prog>>
scores == <<best, kBest, bestScore, measured, rejected>>
held == <<bufs, runtimes>>
scVars == <<pc, pVars, kVars, build, times, scores, result, held>>

(* What is being tuned, and the kernel that belongs to it.                 *)
Problem == <<p, pComb>>
Kernel == <<p, pComb, s, kComb>>
Searched == SolutionSpaces[s] # {}
FirstOf(space) == IF space = {} THEN {NoComb} ELSE space
Unseen(space, seen) == space \ seen

Sum(ts) == LET acc[i \in 0 .. Len(ts)] == IF i = 0 THEN 0 ELSE acc[i - 1] + ts[i].time
           IN  acc[Len(ts)]
TimesOf(ts) == {ts[i].time : i \in DOMAIN ts}
Least(S) == CHOOSE t \in S : \A u \in S : t <= u
-----------------------------------------------------------------------------
Init ==
  /\ pc = "problems"
  /\ p = 0 /\ pComb = NoComb /\ pSeen = {}
  /\ s = 0 /\ kComb = NoComb /\ kSeen = {}
  /\ srcType = Unset /\ bin \in {NoFile, Old} /\ prog = NoFile
  /\ times = <<>>
  /\ best = -1 /\ kBest = [i \in DOMAIN SolutionSpaces |-> Unset] /\ bestScore = Unset
  /\ measured = <<>> /\ rejected = {}
  /\ result = Unset
  /\ bufs = 0 /\ runtimes = 0

(* RunProblem: the loop over the problem configurations.                   *)
NextProblemConfig ==
  /\ pc = "problems" /\ p < Len(ProblemSpaces)
  /\ p' = p + 1
  /\ pComb' \in FirstOf(ProblemSpaces[p + 1])
  /\ pSeen' = {pComb'}
  /\ pc' = "problem"
  /\ UNCHANGED <<kVars, build, times, scores, result, held>>

ProblemsDone ==
  /\ pc = "problems" /\ p = Len(ProblemSpaces)
  /\ pc' = "finished"
  /\ UNCHANGED <<pVars, kVars, build, times, scores, result, held>>

BestCarriedOver == best     \* mutant: ProblemBestTime is not reset
BestReset == -1

(* RunOneProblemConfig and RunProblemOnce up to RunSolution, which makes a *)
(* new list of solution configurations.                                    *)
SolveProblem ==
  /\ pc = "problem"
  /\ best' = BestReset
  /\ result' = Unset
  /\ s' = 0
  /\ kBest' = [i \in DOMAIN SolutionSpaces |-> Unset]
  /\ measured' = <<>>
  /\ pc' = "configs"
  /\ UNCHANGED <<pVars, kComb, kSeen, build, times, bestScore, rejected, held>>

(* RunSolution: the loop over the solution configurations.                 *)
NextSolutionConfig ==
  /\ pc = "configs" /\ s < Len(SolutionSpaces)
  /\ s' = s + 1
  /\ kComb' \in FirstOf(SolutionSpaces[s + 1])
  /\ kSeen' = {kComb'}
  /\ pc' = "init"
  /\ UNCHANGED <<pVars, build, times, scores, result, held>>

SolutionsDone ==
  /\ pc = "configs" /\ s = Len(SolutionSpaces)
  /\ pc' = "verify"
  /\ UNCHANGED <<pVars, kVars, build, times, scores, result, held>>

(* A new runtime, without a program; InitDev allocates the buffers.        *)
InitDev ==
  /\ pc = "init"
  /\ runtimes' = runtimes + 1 /\ bufs' = bufs + 1
  /\ prog' = NoFile
  /\ pc' = "generate"
  /\ UNCHANGED <<pVars, kVars, srcType, bin, times, scores, result>>

GenerateSolution ==
  /\ pc = "generate" /\ "SUCCESS" \in Verdicts
  /\ srcType' \in SrcTypes
  /\ pc' = "setup"
  /\ UNCHANGED <<pVars, kVars, bin, prog, times, scores, result, held>>

RefusalIgnored == "setup"   \* mutant: a refused kernel is built and measured
AfterRefusal == IF Searched THEN "search" ELSE "exited"

(* A searched configuration goes on to its next combination.               *)
(* RunSolutionOnce ignores the failure, but no file has the names that     *)
(* GenerateSolution did not set, and SetupSolution exits.                  *)
GenerateFails ==
  /\ pc = "generate" /\ "FAIL" \in Verdicts
  /\ rejected' = rejected \cup {Kernel}
  /\ pc' = AfterRefusal
  /\ UNCHANGED <<pVars, kVars, build, times, best, kBest, bestScore, measured, result, held>>

(* The target file holds the kernel just built, unless the tool failed:    *)
(* its exit status is dropped, and the file is as it was, or removed.      *)
TargetFiles == {Kernel} \cup (IF ToolsMayFail THEN {bin, NoFile} ELSE {})

(* CreatSolution by source type; FATAL and DevCheckErr exit.               *)
CreatProgramFromFile ==
  /\ srcType \in {"GAS_FILE", "BIN_FILE"}
  /\ bin' \in TargetFiles
  /\ prog' = bin'
CreatProgramFromOcl ==
  /\ srcType \in {"OCL_FILE", "OCL_STR"}
  /\ prog' \in {Kernel} \cup (IF ToolsMayFail THEN {NoFile} ELSE {})
  /\ UNCHANGED bin
(* The name of the assembly file is empty; HIP is not supported.           *)
CreatProgramRefused ==
  /\ srcType \in {"GAS_STR", "HIP_FILE"}
  /\ prog' = NoFile
  /\ UNCHANGED bin

TimesKept == times          \* mutant: no ElapsedTimes.clear()
TimesCleared == <<>>

(* SetupSolution, with the warm-up launch, which is not recorded.          *)
SetupSolution ==
  /\ pc = "setup"
  /\ CreatProgramFromFile \/ CreatProgramFromOcl \/ CreatProgramRefused
  /\ pc' = IF prog' = NoFile THEN "exited" ELSE "launch"
  /\ times' = IF prog' = NoFile THEN times ELSE TimesCleared
  /\ UNCHANGED <<pVars, kVars, srcType, scores, result, held>>

(* One of the RepeatTime rounds of LaunchSolution(false).                  *)
LanchKernel ==
  /\ pc = "launch" /\ Len(times) < RepeatTime
  /\ \E t \in Times : times' = Append(times, [time |-> t, kernel |-> prog])
  /\ UNCHANGED <<pc, pVars, kVars, build, scores, result, held>>

BetterLast(t) == TRUE                    \* mutant: the last one always wins
Better(t) == best < 0 \/ best > t

(* The average is kept as the sum: every kernel is launched RepeatTime     *)
(* times.                                                                  *)
GetPerformence ==
  /\ pc = "launch" /\ Len(times) >= RepeatTime
  /\ bestScore' = Least(TimesOf(times))
  /\ IF Better(Sum(times))
     THEN best' = Sum(times) /\ kBest' = [kBest EXCEPT ![s] = kComb]
     ELSE UNCHANGED <<best, kBest>>
  /\ measured' = Append(measured, [sol |-> s, comb |-> kComb, time |-> Sum(times)])
  /\ pc' = "readback"
  /\ UNCHANGED <<pVars, kVars, build, times, rejected, result, held>>

ReleasedNothing == 0        \* mutants: ReleaseDev is skipped, or done twice
ReleasedTwice == 2
Released == 1
ReadNothing == result       \* mutant: h_c is not written
ReadBack == Problem

(* GetBackResult and ReleaseDev; RunSolutionOnce also deletes its runtime. *)
GetBackResult ==
  /\ pc = "readback"
  /\ result' = ReadBack
  /\ bufs' = bufs - Released
  /\ runtimes' = IF Searched THEN runtimes ELSE runtimes - 1
  /\ pc' = IF Searched THEN "search" ELSE "configs"
  /\ UNCHANGED <<pVars, kVars, build, times, scores>>

(* RunOneSolutionConfig: GetNexComb() hands out another combination.       *)
NextKernelComb ==
  /\ pc = "search"
  /\ \E c \in Unseen(SolutionSpaces[s], kSeen) : kComb' = c /\ kSeen' = kSeen \cup {c}
  /\ runtimes' = runtimes - 1
  /\ pc' = "init"
  /\ UNCHANGED <<pVars, s, build, times, scores, result, bufs>>

AfterSearchNothing == "search"      \* mutant: no return when the search has finished
AfterSearch == "configs"

(* It fails: the search is reported, and its last runtime is not deleted.  *)
SearchFinished ==
  /\ pc = "search" /\ Unseen(SolutionSpaces[s], kSeen) = {}
  /\ pc' = AfterSearch
  /\ UNCHANGED <<pVars, kVars, build, times, scores, result, held>>

(* Verify and ReleaseHost, then the next combination of the problem.       *)
NextProblemComb ==
  /\ pc = "verify"
  /\ \E c \in Unseen(ProblemSpaces[p], pSeen) : pComb' = c /\ pSeen' = pSeen \cup {c}
  /\ pc' = "problem"
  /\ UNCHANGED <<p, kVars, build, times, scores, result, held>>

ProblemSolved ==
  /\ pc = "verify" /\ Unseen(ProblemSpaces[p], pSeen) = {}
  /\ pc' = "problems"
  /\ UNCHANGED <<pVars, kVars, build, times, scores, result, held>>

Next ==
  \/ NextProblemConfig \/ ProblemsDone \/ SolveProblem \/ NextSolutionConfig \/ SolutionsDone
  \/ InitDev \/ GenerateSolution \/ GenerateFails \/ SetupSolution \/ LanchKernel
  \/ GetPerformence \/ GetBackResult \/ NextKernelComb \/ SearchFinished
  \/ NextProblemComb \/ ProblemSolved

Spec == Init /\ [][Next]_scVars

(* One thread, and every call it makes returns.                            *)
FairSpec == Spec /\ WF_scVars(Next)
-----------------------------------------------------------------------------
Kernels == (1 .. Len(ProblemSpaces)) \X Comb(ProblemSpaces)
             \X (1 .. Len(SolutionSpaces)) \X Comb(SolutionSpaces)

TypeOK ==
  /\ pc \in {"problems", "problem", "configs", "init", "generate", "setup", "launch",
             "readback", "search", "verify", "finished", "exited"}
  /\ p \in 0 .. Len(ProblemSpaces) /\ s \in 0 .. Len(SolutionSpaces)
  /\ pComb \in Comb(ProblemSpaces) /\ pSeen \subseteq Comb(ProblemSpaces)
  /\ kComb \in Comb(SolutionSpaces) /\ kSeen \subseteq Comb(SolutionSpaces)
  /\ srcType \in SrcTypes \cup {Unset}
  /\ bin \in Kernels \cup {NoFile, Old} /\ prog \in Kernels \cup {NoFile, Old}
  /\ times \in Seq([time : Times, kernel : Kernels \cup {NoFile, Old}])
  /\ best \in Nat \cup {-1} /\ bestScore \in Times \cup {Unset}
  /\ kBest \in [DOMAIN SolutionSpaces -> Comb(SolutionSpaces) \cup {Unset}]
  /\ result \in {Unset} \cup ((1 .. Len(ProblemSpaces)) \X Comb(ProblemSpaces))
  /\ measured \in Seq([sol : 1 .. Len(SolutionSpaces), comb : Comb(SolutionSpaces), time : Nat])
  /\ rejected \subseteq Kernels
  /\ bufs \in Nat /\ runtimes \in Nat

Scored == {measured[i] : i \in DOMAIN measured}
InCombination == pc \notin {"problems", "problem", "finished"}

(* The times GetPerformence averages are RepeatTime launches of the kernel *)
(* that is loaded: none of the warm-up, none of an earlier combination.    *)
TimesOfLoaded ==
  pc = "launch" => /\ Len(times) <= RepeatTime
                   /\ \A i \in DOMAIN times : times[i].kernel = prog

(* ProblemBestTime is the least average measured for the current problem   *)
(* combination, over all solution configurations, and -1 before the first. *)
BestIsLeast ==
  InCombination => best = IF measured = <<>> THEN -1 ELSE Least({m.time : m \in Scored})

(* A solution configuration has a recorded best combination exactly when   *)
(* it beats every configuration tuned before it, and the record then names *)
(* its fastest kernel.                                                     *)
Beaten(m) == \E n \in Scored : n.sol < m.sol /\ n.time <= m.time
RecordIsFastest ==
  InCombination =>
    \A i \in 1 .. s :
      LET mine == {m \in Scored : m.sol = i /\ ~Beaten(m)}
      IN  IF mine = {} THEN kBest[i] = Unset
          ELSE \E m \in mine : kBest[i] = m.comb /\ \A n \in mine : m.time <= n.time

(* When a configuration has been tuned, each of its combinations has been  *)
(* either scored, once, or refused by the generator, and not both.  When   *)
(* the run is cut short, all but the one it ended with have; a refusal     *)
(* ends it only in RunSolutionOnce, after the one combination there is,    *)
(* and not in the middle of a search.                                      *)
Tuned(i) ==
  IF pc = "exited" /\ i = s /\ Kernel \notin rejected THEN kSeen \ {kComb}
  ELSE FirstOf(SolutionSpaces[i])
EachCombOnce ==
  pc \in {"configs", "verify", "exited"} =>
    \A i \in 1 .. s :
      LET scored == {j \in DOMAIN measured : measured[j].sol = i}
          refused == {c \in FirstOf(SolutionSpaces[i]) : <<p, pComb, i, c>> \in rejected}
      IN  /\ Tuned(i) = {measured[j].comb : j \in scored} \cup refused
          /\ Cardinality(scored) + Cardinality(refused) = Cardinality(Tuned(i))

(* Verify looks at a result computed for the problem at hand, if any       *)
(* kernel was launched for it.                                             *)
VerifiesThisProblem ==
  pc = "verify" => result = IF measured = <<>> THEN Unset ELSE Problem

(* Every run of the tuner ends.                                            *)
RunEnds == <>(pc \in {"finished", "exited"})

(* What the run holds: one set of device buffers while a kernel is tried,  *)
(* and one more for each kernel the generator refused; one runtime while   *)
(* a kernel is tried, and one more for each search that has finished.      *)
Trying == pc \in {"generate", "setup", "launch", "readback"}
Searches(n) == Cardinality({i \in 1 .. n : SolutionSpaces[i] # {}})
CombsBefore ==
  LET acc[i \in 0 .. Len(ProblemSpaces)] ==
        IF i = 0 THEN 0 ELSE acc[i - 1] + Cardinality(FirstOf(ProblemSpaces[i]))
  IN  IF p = 0 THEN 0 ELSE acc[p - 1] + Cardinality(pSeen) - 1
HeldAccounted ==
  pc \notin {"exited", "problem"} =>
    /\ bufs = Cardinality(rejected) + (IF Trying THEN 1 ELSE 0)
    /\ runtimes = CombsBefore * Searches(Len(SolutionSpaces))
                  + (IF pc \in {"problems", "configs", "verify", "finished"} THEN Searches(s)
                     ELSE Searches(s - 1))
                  + (IF Trying \/ pc = "search" THEN 1 ELSE 0)

(* What is measured is the kernel generated for the current combination.   *)
MeasuresCurrent == \A i \in DOMAIN times : pc = "launch" => times[i].kernel = Kernel
=============================================================================
