-------------------------- MODULE SolutionCtrlProofs --------------------------
(***************************************************************************)
(* Proofs about SolutionCtrl, for any problem and solution configurations, *)
(* any finite spaces of combinations and any number of launches: the times *)
(* and records of the tuning run belong to the kernels and problems they   *)
(* are attributed to, and what it holds is accounted for.                  *)
(***************************************************************************)
EXTENDS SolutionCtrl, PartialSums, FiniteSetTheorems, TLAPS

Launches == [time : Times, kernel : Kernels \cup {NoFile, Old}]
Scores == [sol : 1 .. Len(SolutionSpaces), comb : Comb(SolutionSpaces), time : Nat]

(* A problem and a solution configuration are chosen where they are used,  *)
(* and what is given back has been taken.                                  *)
Placed ==
  /\ pc \notin {"problems", "finished"} => p >= 1
  /\ pc \in {"init", "generate", "setup", "launch", "readback", "search"} => s >= 1
  /\ pc \in {"generate", "setup", "launch", "readback"} => bufs >= 1 /\ runtimes >= 1
  /\ pc = "search" => runtimes >= 1
TypeInv == TypeOK /\ Placed

(* The result copied back is of the problem whose kernels are scored.      *)
ResultInv ==
  /\ pc = "readback" => measured # <<>>
  /\ InCombination /\ pc # "readback" => result = IF measured = <<>> THEN Unset ELSE Problem

(* The best time is that of a kernel scored for this problem, none of them *)
(* is of a configuration to come, and nothing is recorded for those.       *)
BestInv ==
  InCombination =>
    /\ measured = <<>> => best = -1
    /\ measured # <<>> => (\E m \in Scored : m.time = best) /\ \A m \in Scored : best <= m.time
SolsInv ==
  InCombination =>
    /\ \A m \in Scored : m.sol <= s
    /\ \A i \in DOMAIN SolutionSpaces : i > s => kBest[i] = Unset
RecordInv == BestInv /\ SolsInv /\ RecordIsFastest

(* How far the walks of the spaces have come.                              *)
Tuning == pc \in {"init", "generate", "setup", "launch"}
SeenInv ==
  /\ p >= 1 => pComb \in pSeen /\ pSeen \subseteq FirstOf(ProblemSpaces[p])
  /\ s >= 1 => kComb \in kSeen /\ kSeen \subseteq FirstOf(SolutionSpaces[s])
  /\ pc \in {"configs", "verify"} /\ s >= 1 => kSeen = FirstOf(SolutionSpaces[s])
  /\ pc = "search" => Searched
  /\ pc = "verify" => s = Len(SolutionSpaces)
  /\ pc \in {"problems", "finished"} =>
       \/ p = 0 /\ s = 0
       \/ p >= 1 /\ s = Len(SolutionSpaces) /\ pSeen = FirstOf(ProblemSpaces[p])

(* Every kernel refused was one of an earlier combination, of the kernel's *)
(* parameters or of the problem's.                                         *)
RefusedBefore(r) ==
  \/ r[1] < p
  \/ r[1] = p /\ r[2] \in pSeen \ {pComb}
  \/ /\ r[1] = p /\ r[2] = pComb /\ pc # "problem"
     /\ \/ r[3] < s
        \/ r[3] = s /\ r[4] \in kSeen /\ (Tuning => r[4] # kComb)
RejectedInv == IsFiniteSet(rejected) /\ \A r \in rejected : RefusedBefore(r)

(* HeldAccounted, and what a problem combination begins with.              *)
HeldInv ==
  /\ HeldAccounted
  /\ pc = "problem" => /\ bufs = Cardinality(rejected)
                       /\ runtimes = CombsBefore * Searches(Len(SolutionSpaces))

(* Of each solution configuration the combinations tried so far have been  *)
(* scored, once, or refused.                                               *)
Unfinished == Tuning \/ (pc = "exited" /\ Kernel \notin rejected)
Tried(i) ==
  IF i < s THEN FirstOf(SolutionSpaces[i]) ELSE IF Unfinished THEN kSeen \ {kComb} ELSE kSeen
ScoredFor(i) == {j \in DOMAIN measured : measured[j].sol = i}
RefusedFor(i) == {c \in FirstOf(SolutionSpaces[i]) : <<p, pComb, i, c>> \in rejected}
OnceFor(i) ==
  /\ Tried(i) = {measured[j].comb : j \in ScoredFor(i)} \cup RefusedFor(i)
  /\ Cardinality(ScoredFor(i)) + Cardinality(RefusedFor(i)) = Cardinality(Tried(i))
OnceInv ==
  /\ InCombination => \A i \in 1 .. s : OnceFor(i)
  /\ pc = "exited" /\ Kernel \in rejected => ~Searched
-----------------------------------------------------------------------------
LEMMA Spaces ==
  /\ Len(ProblemSpaces) \in Nat /\ Len(SolutionSpaces) \in Nat
  /\ DOMAIN ProblemSpaces = 1 .. Len(ProblemSpaces)
  /\ DOMAIN SolutionSpaces = 1 .. Len(SolutionSpaces)
  /\ NoComb \in Comb(ProblemSpaces) /\ NoComb \in Comb(SolutionSpaces)
  /\ \A i \in 1 .. Len(ProblemSpaces) :
       ProblemSpaces[i] \subseteq Comb(ProblemSpaces) /\ IsFiniteSet(ProblemSpaces[i])
  /\ \A i \in 1 .. Len(SolutionSpaces) :
       SolutionSpaces[i] \subseteq Comb(SolutionSpaces) /\ IsFiniteSet(SolutionSpaces[i])
<1>1. NoComb \in Comb(ProblemSpaces) /\ NoComb \in Comb(SolutionSpaces)
  BY DEF Comb
<1> QED
  BY <1>1, ControlAssumption DEF ControlAssumption

LEMMA FirstOfSpace ==
  ASSUME NEW S, NEW C, NoComb \in C, S \subseteq C
  PROVE  FirstOf(S) \subseteq C /\ FirstOf(S) # {}
  BY DEF FirstOf

LEMMA LaunchTimes ==
  ASSUME NEW ts \in Seq(Launches)
  PROVE  /\ Len(ts) \in Nat /\ DOMAIN ts = 1 .. Len(ts)
         /\ \A i \in 1 .. Len(ts) : ts[i].time \in Times /\ ts[i].time \in Nat
<1>1. \A i \in 1 .. Len(ts) : ts[i] \in Launches
  OBVIOUS
<1>2. \A x \in Launches : x.time \in Times
  BY DEF Launches
<1>3. Times \subseteq Nat
  BY ControlAssumption DEF ControlAssumption
<1>4. ASSUME NEW i \in 1 .. Len(ts) PROVE ts[i].time \in Times /\ ts[i].time \in Nat
  BY <1>1, <1>2, <1>3
<1>5. Len(ts) \in Nat /\ DOMAIN ts = 1 .. Len(ts)
  OBVIOUS
<1> QED
  BY <1>4, <1>5

(* The average of the launches' times, kept as their sum.                  *)
LEMMA SumIsNat ==
  ASSUME NEW ts \in Seq(Launches)
  PROVE  Sum(ts) \in Nat
<1> DEFINE n == Len(ts)
           step == [i \in 1 .. n |-> ts[i].time]
           body(f) == [i \in 0 .. n |-> IF i = 0 THEN 0 ELSE f[i - 1] + ts[i].time]
           acc == CHOOSE f : f = body(f)
<1>1. n \in Nat /\ \A i \in 1 .. n : step[i] = ts[i].time /\ ts[i].time \in Nat
  BY LaunchTimes
<1> HIDE DEF step, n
<1>2. \A f : SumsOf(f, step, n) <=> f = body(f)
  <2>1. ASSUME NEW f, NEW i \in 0 .. n
        PROVE  (IF i = 0 THEN 0 ELSE f[i - 1] + step[i])
                 = (IF i = 0 THEN 0 ELSE f[i - 1] + ts[i].time)
    <3>1. i # 0 => i \in 1 .. n
      BY <1>1
    <3> QED
      BY <1>1, <3>1
  <2>2. ASSUME NEW f
        PROVE  [i \in 0 .. n |-> IF i = 0 THEN 0 ELSE f[i - 1] + step[i]] = body(f)
    BY <2>1
  <2> QED
    BY <2>2 DEF SumsOf
<1>3. acc = body(acc)
  <2>1. \E f : f = body(f)
    BY <1>1, <1>2, SumsExist
  <2> HIDE DEF body
  <2> QED
    BY <2>1
<1>4. SumsOf(acc, step, n)
  BY <1>2, <1>3
<1> HIDE DEF acc
<1>5. \A i \in 1 .. n : step[i] \in Nat /\ step[i] \in Int
  BY <1>1
<1>6. \A i \in 0 .. n : acc[i] \in Nat
  BY <1>1, <1>4, <1>5, SumsAreNumbers
<1>7. acc[n] \in Nat
  BY <1>1, <1>6
<1> QED
  BY <1>7 DEF Sum, acc, n

(* The least of a set of numbers that is not empty.                        *)
LEMMA LeastIs ==
  ASSUME NEW T \in SUBSET Nat, T # {}
  PROVE  Least(T) \in T /\ \A t \in T : Least(T) <= t
<1>1. \E x \in T : \A y \in T : x <= y
  BY LeastNumber
<1> QED
  BY <1>1 DEF Least

LEMMA LeastOfTimes ==
  ASSUME NEW ts \in Seq(Launches), Len(ts) >= RepeatTime
  PROVE  Least(TimesOf(ts)) \in Times
<1>1. TimesOf(ts) \subseteq Times /\ Times \subseteq Nat
  BY LaunchTimes, ControlAssumption DEF TimesOf, ControlAssumption
<1>2. 1 \in DOMAIN ts
  BY LaunchTimes, ControlAssumption DEF ControlAssumption
<1>3. TimesOf(ts) # {}
  BY <1>2 DEF TimesOf
<1> QED
  BY <1>1, <1>3, LeastIs
-----------------------------------------------------------------------------
LEMMA TypeInit ==
  ASSUME Init
  PROVE  TypeInv
<1>1. /\ p \in 0 .. Len(ProblemSpaces) /\ s \in 0 .. Len(SolutionSpaces)
      /\ pComb \in Comb(ProblemSpaces) /\ pSeen \subseteq Comb(ProblemSpaces)
      /\ kComb \in Comb(SolutionSpaces) /\ kSeen \subseteq Comb(SolutionSpaces)
  BY Spaces DEF Init
<1>2. times \in Seq(Launches) /\ measured \in Seq(Scores)
  BY DEF Init
<1> QED
  BY <1>1, <1>2 DEF Init, TypeInv, TypeOK, Placed, Launches, Scores

(* The kernel that is generated is one of a configuration's.               *)
LEMMA KernelType ==
  ASSUME TypeInv, pc \in {"generate", "setup"}
  PROVE  Kernel \in Kernels
  BY Spaces DEF TypeInv, TypeOK, Placed, Kernel, Kernels

LEMMA WalkTypeStep ==
  ASSUME TypeInv,
         \/ NextProblemConfig \/ ProblemsDone \/ SolveProblem \/ NextSolutionConfig
         \/ SolutionsDone \/ NextKernelComb \/ SearchFinished \/ NextProblemComb
         \/ ProblemSolved
  PROVE  TypeInv'
<1> USE DEF TypeInv, TypeOK, Placed, pVars, kVars, build, scores, held
<1>1. CASE NextProblemConfig
  <2>1. p + 1 \in 1 .. Len(ProblemSpaces)
    BY <1>1, Spaces DEF NextProblemConfig
  <2>2. FirstOf(ProblemSpaces[p + 1]) \subseteq Comb(ProblemSpaces)
    BY <2>1, Spaces, FirstOfSpace
  <2> QED
    BY <1>1, <2>1, <2>2 DEF NextProblemConfig
<1>2. CASE ProblemsDone
  BY <1>2 DEF ProblemsDone
<1>3. CASE SolveProblem
  <2>1. kBest' \in [DOMAIN SolutionSpaces -> Comb(SolutionSpaces) \cup {Unset}]
    BY <1>3 DEF SolveProblem
  <2>2. measured' \in Seq(Scores) /\ 0 \in 0 .. Len(SolutionSpaces)
    BY <1>3, Spaces DEF SolveProblem
  <2> QED
    BY <1>3, <2>1, <2>2 DEF SolveProblem, BestReset, Scores
<1>4. CASE NextSolutionConfig
  <2>1. s + 1 \in 1 .. Len(SolutionSpaces)
    BY <1>4, Spaces DEF NextSolutionConfig
  <2>2. FirstOf(SolutionSpaces[s + 1]) \subseteq Comb(SolutionSpaces)
    BY <2>1, Spaces, FirstOfSpace
  <2> QED
    BY <1>4, <2>1, <2>2 DEF NextSolutionConfig
<1>5. CASE SolutionsDone
  BY <1>5 DEF SolutionsDone
<1>6. CASE NextKernelComb
  <2>1. s \in 1 .. Len(SolutionSpaces)
    BY <1>6, Spaces DEF NextKernelComb
  <2> QED
    BY <1>6, <2>1, Spaces DEF NextKernelComb, Unseen
<1>7. CASE SearchFinished
  BY <1>7 DEF SearchFinished, AfterSearch
<1>8. CASE NextProblemComb
  <2>1. p \in 1 .. Len(ProblemSpaces)
    BY <1>8, Spaces DEF NextProblemComb
  <2> QED
    BY <1>8, <2>1, Spaces DEF NextProblemComb, Unseen
<1>9. CASE ProblemSolved
  BY <1>9 DEF ProblemSolved
<1> QED
  BY <1>1, <1>2, <1>3, <1>4, <1>5, <1>6, <1>7, <1>8, <1>9

LEMMA TuneTypeStep ==
  ASSUME TypeInv,
         \/ InitDev \/ GenerateSolution \/ GenerateFails \/ SetupSolution \/ LanchKernel
         \/ GetPerformence \/ GetBackResult
  PROVE  TypeInv'
<1> USE DEF TypeInv, TypeOK, Placed, pVars, kVars, build, scores, held
<1>1. CASE InitDev
  BY <1>1 DEF InitDev
<1>2. CASE GenerateSolution
  BY <1>2 DEF GenerateSolution
<1>3. CASE GenerateFails
  <2>1. Kernel \in Kernels
    BY <1>3, KernelType DEF GenerateFails, AfterRefusal
  <2> QED
    BY <1>3, <2>1 DEF GenerateFails, AfterRefusal
<1>4. CASE SetupSolution
  <2>1. Kernel \in Kernels
    BY <1>4, KernelType DEF SetupSolution
  <2>2. bin' \in Kernels \cup {NoFile, Old} /\ prog' \in Kernels \cup {NoFile, Old}
    BY <1>4, <2>1 DEF SetupSolution, CreatProgramFromFile, CreatProgramFromOcl,
                      CreatProgramRefused, TargetFiles
  <2>3. times' \in Seq(Launches)
    BY <1>4 DEF SetupSolution, TimesCleared, Launches
  <2> QED
    BY <1>4, <2>2, <2>3 DEF SetupSolution, Launches
<1>5. CASE LanchKernel
  <2>1. PICK t \in Times : times' = Append(times, [time |-> t, kernel |-> prog])
    BY <1>5 DEF LanchKernel
  <2>2. [time |-> t, kernel |-> prog] \in Launches
    BY DEF Launches
  <2>3. times' \in Seq(Launches)
    BY <2>1, <2>2 DEF Launches
  <2> QED
    BY <1>5, <2>3 DEF LanchKernel, Launches
<1>6. CASE GetPerformence
  <2>1. times \in Seq(Launches) /\ measured \in Seq(Scores)
    BY DEF Launches, Scores
  <2>2. Sum(times) \in Nat /\ bestScore' \in Times
    BY <1>6, <2>1, SumIsNat, LeastOfTimes DEF GetPerformence
  <2>3. s \in 1 .. Len(SolutionSpaces)
    BY <1>6, Spaces DEF GetPerformence
  <2>4. [sol |-> s, comb |-> kComb, time |-> Sum(times)] \in Scores
    BY <2>2, <2>3 DEF Scores
  <2>5. measured' \in Seq(Scores)
    BY <1>6, <2>1, <2>4 DEF GetPerformence
  <2>6. best' \in Nat \cup {-1}
    BY <1>6, <2>2 DEF GetPerformence
  <2>7. kBest' \in [DOMAIN SolutionSpaces -> Comb(SolutionSpaces) \cup {Unset}]
    BY <1>6 DEF GetPerformence
  <2> QED
    BY <1>6, <2>2, <2>5, <2>6, <2>7 DEF GetPerformence, Scores
<1>7. CASE GetBackResult
  <2>1. Problem \in (1 .. Len(ProblemSpaces)) \X Comb(ProblemSpaces)
    BY <1>7, Spaces DEF GetBackResult, Problem
  <2>2. bufs' \in Nat /\ runtimes' \in Nat /\ (Searched => runtimes' >= 1)
    BY <1>7 DEF GetBackResult, Released
  <2> QED
    BY <1>7, <2>1, <2>2 DEF GetBackResult, ReadBack
<1> QED
  BY <1>1, <1>2, <1>3, <1>4, <1>5, <1>6, <1>7

LEMMA TypeStep ==
  ASSUME TypeInv, [Next]_scVars
  PROVE  TypeInv'
<1>1. CASE UNCHANGED scVars
  BY <1>1 DEF scVars, pVars, kVars, build, scores, held, TypeInv, TypeOK, Placed
<1> QED
  BY <1>1, WalkTypeStep, TuneTypeStep DEF Next

LEMMA TypeInductive == Spec => []TypeInv
<1>1. TypeInv /\ [Next]_scVars => TypeInv'
  BY TypeStep
<1> QED
  BY <1>1, TypeInit, PTL DEF Spec

(* Every record is of a configuration and a combination there are, and no  *)
(* buffer and no runtime is given back that was not taken (RunSolution and *)
(* what it calls).                                                         *)
THEOREM TypeCorrect == Spec => []TypeOK
<1>1. TypeInv => TypeOK
  BY DEF TypeInv
<1> QED
  BY <1>1, TypeInductive, PTL
-----------------------------------------------------------------------------
LEMMA LoadedStep ==
  ASSUME TypeInv, TimesOfLoaded, [Next]_scVars
  PROVE  TimesOfLoaded'
<1> USE DEF TimesOfLoaded, pVars, kVars, build, scores, held
<1>1. CASE SetupSolution
  <2>1. pc' = "launch" => times' = <<>>
    BY <1>1 DEF SetupSolution, TimesCleared
  <2> QED
    BY <2>1, ControlAssumption DEF ControlAssumption
<1>2. CASE LanchKernel
  <2>1. PICK t \in Times : times' = Append(times, [time |-> t, kernel |-> prog])
    BY <1>2 DEF LanchKernel
  <2>2. times \in Seq(Launches) /\ [time |-> t, kernel |-> prog] \in Launches
    BY DEF TypeInv, TypeOK, Launches
  <2>3. /\ DOMAIN times' = 1 .. Len(times) + 1 /\ Len(times') = Len(times) + 1
        /\ \A i \in 1 .. Len(times) : times'[i] = times[i]
        /\ times'[Len(times) + 1] = [time |-> t, kernel |-> prog]
        /\ Len(times) \in Nat /\ DOMAIN times = 1 .. Len(times)
    BY <2>1, <2>2
  <2>4. pc = "launch" /\ pc' = "launch" /\ prog' = prog /\ Len(times) < RepeatTime
    BY <1>2 DEF LanchKernel
  <2>5. ASSUME NEW i \in DOMAIN times' PROVE times'[i].kernel = prog
    <3>1. CASE i = Len(times) + 1
      BY <2>3, <3>1
    <3>2. CASE i # Len(times) + 1
      BY <2>3, <2>4, <3>2
    <3> QED BY <3>1, <3>2
  <2>6. RepeatTime \in Nat
    BY ControlAssumption DEF ControlAssumption
  <2> QED
    BY <2>3, <2>4, <2>5, <2>6
<1>3. CASE UNCHANGED scVars
  BY <1>3 DEF scVars
<1>4. ASSUME ~SetupSolution, ~LanchKernel, Next PROVE pc' # "launch"
  BY <1>4 DEF Next, NextProblemConfig, ProblemsDone, SolveProblem, NextSolutionConfig,
              SolutionsDone, InitDev, GenerateSolution, GenerateFails, AfterRefusal,
              GetPerformence, GetBackResult, NextKernelComb, SearchFinished, AfterSearch,
              NextProblemComb, ProblemSolved
<1> QED
  BY <1>1, <1>2, <1>3, <1>4

(* Only launches of the loaded kernel, RepeatTime of them, make a score:   *)
(* SetupSolution clears the times after the warm-up.                       *)
THEOREM TimesBelong == Spec => []TimesOfLoaded
<1>1. Init => TimesOfLoaded
  BY DEF Init, TimesOfLoaded
<1>2. TypeInv /\ TimesOfLoaded /\ [Next]_scVars => TimesOfLoaded'
  BY LoadedStep
<1> QED
  BY <1>1, <1>2, TypeInductive, PTL DEF Spec

(* When assembler, compiler and cp do not fail, what is measured is the    *)
(* kernel of the current combination: their dropped exit status is the     *)
(* only way for another one to get into the record.                        *)
THEOREM ToolsWorkMeasuresCurrent ==
  ASSUME ToolsMayFail = FALSE
  PROVE  Spec => []MeasuresCurrent
<1> DEFINE Current == pc = "launch" => prog = Kernel
<1>1. Init => Current
  BY DEF Init
<1>2. Current /\ [Next]_scVars => Current'
  <2> SUFFICES ASSUME Current, [Next]_scVars PROVE Current'
    OBVIOUS
  <2> USE DEF Kernel, pVars, kVars, build
  <2>1. CASE SetupSolution
    BY <2>1, ToolsMayFail = FALSE
       DEF SetupSolution, CreatProgramFromFile, CreatProgramFromOcl, CreatProgramRefused,
           TargetFiles
  <2>2. CASE LanchKernel
    BY <2>2 DEF LanchKernel
  <2>3. CASE UNCHANGED scVars
    BY <2>3 DEF scVars
  <2>4. ASSUME ~SetupSolution, ~LanchKernel, Next PROVE pc' # "launch"
    BY <2>4 DEF Next, NextProblemConfig, ProblemsDone, SolveProblem, NextSolutionConfig,
                SolutionsDone, InitDev, GenerateSolution, GenerateFails, AfterRefusal,
                GetPerformence, GetBackResult, NextKernelComb, SearchFinished, AfterSearch,
                NextProblemComb, ProblemSolved
  <2> QED
    BY <2>1, <2>2, <2>3, <2>4
<1>3. Current /\ TimesOfLoaded => MeasuresCurrent
  BY DEF TimesOfLoaded, MeasuresCurrent
<1> HIDE DEF Current
<1> QED
  BY <1>1, <1>2, <1>3, TimesBelong, PTL DEF Spec
-----------------------------------------------------------------------------
LEMMA MeasuredGrows ==
  ASSUME TypeInv, GetPerformence
  PROVE  /\ measured' # <<>>
         /\ Scored' = Scored \cup {[sol |-> s, comb |-> kComb, time |-> Sum(times)]}
         /\ Sum(times) \in Nat
<1> DEFINE x == [sol |-> s, comb |-> kComb, time |-> Sum(times)]
<1>1. Sum(times) \in Nat
  BY SumIsNat DEF TypeInv, TypeOK, Launches
<1>2. measured \in Seq(Scores) /\ x \in Scores
  BY <1>1, Spaces DEF TypeInv, TypeOK, Placed, Scores, GetPerformence
<1>3. measured' = Append(measured, x)
  BY DEF GetPerformence
<1> HIDE DEF x
<1>4. /\ DOMAIN measured' = DOMAIN measured \cup {Len(measured) + 1}
      /\ \A i \in DOMAIN measured : measured'[i] = measured[i]
      /\ measured'[Len(measured) + 1] = x /\ measured' # <<>>
  BY <1>2, <1>3
<1>5. Scored' = Scored \cup {x}
  BY <1>4 DEF Scored
<1> QED
  BY <1>1, <1>4, <1>5 DEF x

LEMMA ResultStep ==
  ASSUME TypeInv, ResultInv, [Next]_scVars
  PROVE  ResultInv'
<1> USE DEF ResultInv, InCombination, Problem, pVars, kVars, build, scores, held
<1>1. CASE NextProblemConfig \/ ProblemsDone \/ SolveProblem
  BY <1>1 DEF NextProblemConfig, ProblemsDone, SolveProblem
<1>2. CASE NextSolutionConfig \/ SolutionsDone \/ InitDev
  BY <1>2 DEF NextSolutionConfig, SolutionsDone, InitDev
<1>3. CASE GenerateSolution \/ GenerateFails \/ SetupSolution \/ LanchKernel
  BY <1>3 DEF GenerateSolution, GenerateFails, AfterRefusal, SetupSolution, LanchKernel
<1>4. CASE GetPerformence
  BY <1>4, MeasuredGrows DEF GetPerformence
<1>5. CASE GetBackResult
  BY <1>5 DEF GetBackResult, ReadBack
<1>6. CASE NextKernelComb \/ SearchFinished \/ NextProblemComb \/ ProblemSolved
  BY <1>6 DEF NextKernelComb, SearchFinished, AfterSearch, NextProblemComb, ProblemSolved
<1>7. CASE UNCHANGED scVars
  BY <1>7 DEF scVars
<1> QED
  BY <1>1, <1>2, <1>3, <1>4, <1>5, <1>6, <1>7 DEF Next

(* RunProblemOnce verifies a result that one of the problem's own kernels  *)
(* has computed, or none if every kernel was refused.                      *)
THEOREM VerifiesOwnResult == Spec => []VerifiesThisProblem
<1>1. Init => ResultInv
  BY DEF Init, ResultInv, InCombination
<1>2. TypeInv /\ ResultInv /\ [Next]_scVars => ResultInv'
  BY ResultStep
<1>3. ResultInv => VerifiesThisProblem
  BY DEF ResultInv, InCombination, VerifiesThisProblem
<1> QED
  BY <1>1, <1>2, <1>3, TypeInductive, PTL DEF Spec
-----------------------------------------------------------------------------
LEMMA ScoredType ==
  ASSUME TypeInv
  PROVE  /\ \A m \in Scored : m.time \in Nat /\ m.sol \in 1 .. Len(SolutionSpaces)
         /\ Scored = {} <=> measured = <<>>
         /\ best \in Nat \cup {-1} /\ s \in 0 .. Len(SolutionSpaces)
<1>1. measured \in Seq(Scores)
  BY DEF TypeInv, TypeOK, Scores
<1>2. Scored \subseteq Scores /\ (Scored = {} <=> measured = <<>>)
  <2>1. /\ DOMAIN measured = 1 .. Len(measured) /\ Len(measured) \in Nat
        /\ \A i \in 1 .. Len(measured) : measured[i] \in Scores
        /\ measured = <<>> <=> Len(measured) = 0
    BY <1>1
  <2>2. Len(measured) # 0 => 1 \in DOMAIN measured
    BY <2>1
  <2> QED
    BY <2>1, <2>2 DEF Scored
<1>3. \A m \in Scores : m.time \in Nat /\ m.sol \in 1 .. Len(SolutionSpaces)
  BY DEF Scores
<1> QED
  BY <1>2, <1>3 DEF TypeInv, TypeOK

(* A score is compared with the best of the whole problem.                 *)
LEMMA ScoreStep ==
  ASSUME TypeInv, RecordInv, GetPerformence
  PROVE  RecordInv'
<1>0. PICK x : x = [sol |-> s, comb |-> kComb, time |-> Sum(times)]
  OBVIOUS
<1>1. Scored' = Scored \cup {x} /\ measured' # <<>> /\ x.time \in Nat
  BY <1>0, MeasuredGrows
<1>2. x.sol = s /\ x.comb = kComb /\ x.time = Sum(times)
  BY <1>0
<1>3. /\ pc = "launch" /\ pc' = "readback" /\ s' = s
      /\ IF Better(x.time) THEN best' = x.time /\ kBest' = [kBest EXCEPT ![s] = kComb]
                           ELSE best' = best /\ kBest' = kBest
  BY <1>2 DEF GetPerformence, kVars
<1>4. s \in DOMAIN SolutionSpaces /\ s \in 1 .. s /\ s \in Nat
  BY <1>3, Spaces DEF TypeInv, TypeOK, Placed
<1>5. InCombination /\ InCombination'
  BY <1>3 DEF InCombination
<1>6. /\ \A m \in Scored : m.time \in Nat /\ m.sol \in Nat /\ m.sol <= s /\ best <= m.time
      /\ Scored # {} => \E m \in Scored : m.time = best
      /\ Scored = {} => best = -1
  BY <1>5, ScoredType DEF RecordInv, BestInv, SolsInv
<1>7. Scored # {} => best \in Nat
  BY <1>6
<1>8. BestInv'
  <2>1. CASE Better(x.time)
    <3>1. \A m \in Scored : x.time <= m.time
      BY <1>1, <1>6, <1>7, <2>1 DEF Better
    <3> QED
      BY <1>1, <1>3, <2>1, <3>1 DEF BestInv
  <2>2. CASE ~Better(x.time)
    <3>1. Scored # {} /\ best <= x.time
      BY <1>1, <1>6, <1>7, <2>2 DEF Better
    <3> QED
      BY <1>1, <1>3, <1>6, <2>2, <3>1 DEF BestInv
  <2> QED
    BY <2>1, <2>2
<1>9. /\ kBest'[s] = IF Better(x.time) THEN kComb ELSE kBest[s]
      /\ \A i \in DOMAIN SolutionSpaces : i # s => kBest'[i] = kBest[i]
  BY <1>3, <1>4 DEF TypeInv, TypeOK
<1>10. SolsInv'
  BY <1>1, <1>2, <1>3, <1>4, <1>5, <1>9 DEF RecordInv, SolsInv
<1> DEFINE Mine(i) == {m \in Scored : m.sol = i /\ ~Beaten(m)}
           MineNow(i) == {m \in Scored' : m.sol = i /\ ~Beaten(m)'}
           Recorded(i) == IF Mine(i) = {} THEN kBest[i] = Unset
                          ELSE \E m \in Mine(i) :
                                 kBest[i] = m.comb /\ \A n \in Mine(i) : m.time <= n.time
           RecordedNow(i) == IF MineNow(i) = {} THEN kBest'[i] = Unset
                             ELSE \E m \in MineNow(i) : /\ kBest'[i] = m.comb
                                                        /\ \A n \in MineNow(i) : m.time <= n.time
<1>11. \A m \in Scored \cup {x} : Beaten(m)' <=> \E n \in Scored : n.sol < m.sol /\ n.time <= m.time
  <2>1. \A m \in Scored \cup {x} : ~(x.sol < m.sol)
    BY <1>2, <1>4, <1>6
  <2> QED
    BY <1>1, <2>1 DEF Beaten
<1>12. \A i \in 1 .. s : Recorded(i)
  BY <1>5 DEF RecordInv, RecordIsFastest
<1>13. ASSUME NEW i \in 1 .. s, i # s PROVE RecordedNow(i)
  <2>1. MineNow(i) = Mine(i)
    BY <1>1, <1>2, <1>11, <1>13 DEF Beaten
  <2>2. kBest'[i] = kBest[i]
    BY <1>4, <1>9, <1>13, Spaces
  <2> QED
    BY <1>12, <2>1, <2>2
<1>14. RecordedNow(s)
  <2>1. MineNow(s) = Mine(s) \cup (IF Beaten(x)' THEN {} ELSE {x})
    BY <1>1, <1>2, <1>11 DEF Beaten
  <2>2. Mine(s) \subseteq Scored /\ Recorded(s)
    BY <1>4, <1>12
  <2> HIDE DEF Mine, MineNow
  <2>3. CASE Better(x.time)
    <3>1. \A m \in Scored : x.time <= m.time /\ m.time # x.time
      BY <1>1, <1>6, <1>7, <2>3 DEF Better
    <3>2. ~Beaten(x)'
      BY <1>6, <1>11, <3>1, <1>1
    <3> QED
      BY <1>1, <1>2, <1>9, <2>1, <2>2, <2>3, <3>1, <3>2
  <2>4. CASE ~Better(x.time) /\ Beaten(x)'
    BY <1>9, <2>1, <2>2, <2>4
  <2>5. CASE ~Better(x.time) /\ ~Beaten(x)'
    <3>1. PICK b \in Scored : b.time = best /\ best <= x.time
      BY <1>1, <1>6, <1>7, <2>5 DEF Better
    <3>2. b.sol = s /\ ~Beaten(b)
      BY <1>1, <1>2, <1>4, <1>6, <1>11, <2>5, <3>1 DEF Beaten
    <3>3. b \in Mine(s)
      BY <3>1, <3>2 DEF Mine
    <3>4. PICK m \in Mine(s) : kBest[s] = m.comb /\ \A n \in Mine(s) : m.time <= n.time
      BY <2>2, <3>3
    <3>5. m.time <= x.time
      BY <1>1, <1>6, <2>2, <3>1, <3>3, <3>4
    <3> QED
      BY <1>9, <2>1, <2>5, <3>3, <3>4, <3>5
  <2> QED
    BY <2>3, <2>4, <2>5
<1>15. RecordIsFastest'
  BY <1>3, <1>13, <1>14 DEF RecordIsFastest
<1> QED
  BY <1>8, <1>10, <1>15 DEF RecordInv

LEMMA RecordStep ==
  ASSUME TypeInv, RecordInv, [Next]_scVars
  PROVE  RecordInv'
<1> USE DEF pVars, kVars, build, scores, held
<1>1. ASSUME UNCHANGED <<measured, best, kBest, s>>, InCombination' => InCombination
      PROVE  RecordInv'
  <2>1. Scored' = Scored /\ \A m : Beaten(m)' <=> Beaten(m)
    BY <1>1 DEF Scored, Beaten
  <2> QED
    BY <1>1, <2>1 DEF RecordInv, BestInv, SolsInv, RecordIsFastest
<1>2. CASE NextProblemConfig \/ ProblemsDone \/ NextProblemComb \/ ProblemSolved
  BY <1>2 DEF NextProblemConfig, ProblemsDone, NextProblemComb, ProblemSolved,
              InCombination, RecordInv, BestInv, SolsInv, RecordIsFastest
<1>3. CASE SolveProblem
  <2>1. measured' = <<>> /\ best' = -1 /\ s' = 0
        /\ \A i \in DOMAIN SolutionSpaces : kBest'[i] = Unset
    BY <1>3 DEF SolveProblem, BestReset
  <2>2. Scored' = {}
    BY <2>1 DEF Scored
  <2>3. 1 .. s' = {}
    BY <2>1
  <2> QED
    BY <2>1, <2>2, <2>3 DEF RecordInv, BestInv, SolsInv, RecordIsFastest
<1>4. CASE NextSolutionConfig
  <2>1. /\ UNCHANGED <<measured, best, kBest>> /\ s' = s + 1 /\ InCombination /\ InCombination'
        /\ s' \in DOMAIN SolutionSpaces /\ s \in Nat
    BY <1>4, Spaces DEF NextSolutionConfig, InCombination, TypeInv, TypeOK
  <2>2. Scored' = Scored /\ \A m : Beaten(m)' <=> Beaten(m)
    BY <2>1 DEF Scored, Beaten
  <2>3. BestInv'
    BY <2>1, <2>2 DEF RecordInv, BestInv
  <2>4. \A m \in Scored : m.sol <= s /\ m.sol \in Nat
    BY <2>1, ScoredType DEF RecordInv, SolsInv
  <2>5. SolsInv'
    BY <2>1, <2>2, <2>4, Spaces DEF RecordInv, SolsInv
  <2>6. kBest'[s'] = Unset /\ {m \in Scored : m.sol = s' /\ ~Beaten(m)} = {}
    BY <2>1, <2>4, Spaces DEF RecordInv, SolsInv
  <2>7. \A i \in 1 .. s' : i = s' \/ i \in 1 .. s
    BY <2>1
  <2>8. RecordIsFastest'
    BY <2>1, <2>2, <2>6, <2>7 DEF RecordInv, RecordIsFastest
  <2> QED
    BY <2>3, <2>5, <2>8 DEF RecordInv
<1>5. CASE SolutionsDone \/ InitDev \/ GenerateSolution \/ GenerateFails \/ SetupSolution
  BY <1>1, <1>5 DEF SolutionsDone, InitDev, GenerateSolution, GenerateFails, SetupSolution,
                    InCombination
<1>6. CASE LanchKernel \/ GetBackResult \/ NextKernelComb \/ SearchFinished
  BY <1>1, <1>6 DEF LanchKernel, GetBackResult, NextKernelComb, SearchFinished, InCombination
<1>7. CASE GetPerformence
  BY <1>7, ScoreStep
<1>8. CASE UNCHANGED scVars
  BY <1>1, <1>8 DEF scVars, InCombination
<1> QED
  BY <1>2, <1>3, <1>4, <1>5, <1>6, <1>7, <1>8 DEF Next

LEMMA RecordInductive == Spec => []RecordInv
<1>1. Init => RecordInv
  BY DEF Init, RecordInv, BestInv, SolsInv, RecordIsFastest, InCombination
<1>2. TypeInv /\ RecordInv /\ [Next]_scVars => RecordInv'
  BY RecordStep
<1> QED
  BY <1>1, <1>2, TypeInductive, PTL DEF Spec

(* ProblemBestTime is the least average of the problem's kernels so far:   *)
(* RunProblemOnce resets it, and every solution configuration shares it.   *)
THEOREM BestTimeCorrect == Spec => []BestIsLeast
<1>1. TypeInv /\ RecordInv => BestIsLeast
  <2> SUFFICES ASSUME TypeInv, RecordInv, InCombination, measured # <<>>
               PROVE  best = Least({m.time : m \in Scored})
    BY DEF BestIsLeast, RecordInv, BestInv
  <2> DEFINE T == {m.time : m \in Scored}
  <2>1. (\E m \in Scored : m.time = best) /\ \A m \in Scored : best <= m.time
    BY DEF RecordInv, BestInv
  <2>2. T \in SUBSET Nat /\ best \in T /\ \A t \in T : best <= t
    BY <2>1, ScoredType
  <2> HIDE DEF T
  <2>3. Least(T) \in T /\ Least(T) <= best /\ best <= Least(T)
    BY <2>2, LeastIs
  <2>4. best = Least(T)
    <3>1. PICK x \in Nat : x = Least(T)
      BY <2>2, <2>3
    <3>2. x <= best /\ best <= x /\ best \in Nat
      BY <2>2, <2>3, <3>1
    <3>3. x = best
      BY <3>2
    <3> QED
      BY <3>1, <3>3
  <2> QED
    BY <2>4 DEF T
<1> QED
  BY <1>1, TypeInductive, RecordInductive, PTL

(* GetPerformence records a combination for the solution configurations    *)
(* that beat all those before them, and for each of these the fastest.     *)
THEOREM RecordsCorrect == Spec => []RecordIsFastest
<1>1. RecordInv => RecordIsFastest
  BY DEF RecordInv
<1> QED
  BY <1>1, RecordInductive, PTL
-----------------------------------------------------------------------------
LEMMA SeenStep ==
  ASSUME TypeInv, SeenInv, [Next]_scVars
  PROVE  SeenInv'
<1> USE DEF SeenInv, Tuning, Searched, pVars, kVars
<1>0. p \in Nat /\ s \in Nat
  BY Spaces DEF TypeInv, TypeOK
<1>1. CASE NextProblemConfig
  BY <1>0, <1>1 DEF NextProblemConfig
<1>2. CASE SolveProblem
  BY <1>2 DEF SolveProblem
<1>3. CASE NextSolutionConfig
  BY <1>0, <1>3 DEF NextSolutionConfig
<1>4. CASE NextKernelComb
  <2>1. s >= 1 /\ FirstOf(SolutionSpaces[s]) = SolutionSpaces[s]
    BY <1>4 DEF NextKernelComb, TypeInv, Placed, FirstOf
  <2> QED
    BY <1>4, <2>1 DEF NextKernelComb, Unseen
<1>5. CASE SearchFinished
  <2>1. s >= 1 /\ FirstOf(SolutionSpaces[s]) = SolutionSpaces[s]
    BY <1>5 DEF SearchFinished, TypeInv, Placed, FirstOf
  <2> QED
    BY <1>5, <2>1 DEF SearchFinished, AfterSearch, Unseen
<1>6. CASE GetBackResult
  <2>1. ~Searched => kSeen = FirstOf(SolutionSpaces[s])
    BY <1>6 DEF GetBackResult, TypeInv, Placed, FirstOf
  <2> QED
    BY <1>6, <2>1 DEF GetBackResult
<1>7. CASE NextProblemComb
  <2>1. p >= 1
    BY <1>7 DEF NextProblemComb, TypeInv, Placed
  <2> QED
    BY <1>7, <2>1 DEF NextProblemComb, Unseen, FirstOf
<1>8. CASE ProblemSolved
  <2>1. p >= 1
    BY <1>8 DEF ProblemSolved, TypeInv, Placed
  <2>2. pSeen = FirstOf(ProblemSpaces[p])
    BY <1>8, <2>1 DEF ProblemSolved, Unseen, FirstOf
  <2> QED
    BY <1>8, <2>1, <2>2 DEF ProblemSolved
<1>9. CASE ProblemsDone \/ SolutionsDone \/ InitDev \/ GenerateSolution \/ GenerateFails
  BY <1>9 DEF ProblemsDone, SolutionsDone, InitDev, GenerateSolution, GenerateFails,
              AfterRefusal
<1>10. CASE SetupSolution \/ LanchKernel \/ GetPerformence
  BY <1>10 DEF SetupSolution, LanchKernel, GetPerformence
<1>11. CASE UNCHANGED scVars
  BY <1>11 DEF scVars
<1> QED
  BY <1>1, <1>2, <1>3, <1>4, <1>5, <1>6, <1>7, <1>8, <1>9, <1>10, <1>11 DEF Next

LEMMA RefusedTypes ==
  ASSUME TypeInv
  PROVE  \A r \in rejected : r[1] \in Nat /\ r[3] \in Nat
<1>1. rejected \subseteq Kernels
  BY DEF TypeInv, TypeOK
<1>2. \A r \in Kernels : r[1] \in Nat /\ r[3] \in Nat
  BY Spaces DEF Kernels
<1> QED
  BY <1>1, <1>2

(* A kernel that is being tried has not been refused.                      *)
LEMMA NewlyRefused ==
  ASSUME TypeInv, RejectedInv, pc \in {"generate", "setup"}
  PROVE  Kernel \notin rejected
<1>1. ~RefusedBefore(Kernel)
  BY Spaces DEF RefusedBefore, Kernel, Tuning, TypeInv, TypeOK
<1> QED
  BY <1>1 DEF RejectedInv

LEMMA RejectedStep ==
  ASSUME TypeInv, SeenInv, RejectedInv, [Next]_scVars
  PROVE  RejectedInv'
<1> USE DEF Tuning, pVars, kVars, scores
<1>0. p \in Nat /\ s \in Nat
  BY Spaces DEF TypeInv, TypeOK
<1>1. ASSUME rejected' = rejected, \A r \in rejected : RefusedBefore(r) => RefusedBefore(r)'
      PROVE  RejectedInv'
  BY <1>1 DEF RejectedInv
<1>2. CASE NextProblemConfig
  <2>1. \A r \in rejected : RefusedBefore(r) => RefusedBefore(r)'
    BY <1>0, <1>2, RefusedTypes DEF NextProblemConfig, RefusedBefore
  <2> QED
    BY <1>1, <1>2, <2>1 DEF NextProblemConfig
<1>3. CASE NextProblemComb
  <2>1. p >= 1 /\ pComb \in pSeen
    BY <1>3 DEF NextProblemComb, TypeInv, Placed, SeenInv
  <2>2. \A r \in rejected : RefusedBefore(r) => RefusedBefore(r)'
    BY <1>3, <2>1 DEF NextProblemComb, RefusedBefore, Unseen
  <2> QED
    BY <1>1, <1>3, <2>2 DEF NextProblemComb
<1>4. CASE NextSolutionConfig
  <2>1. \A r \in rejected : RefusedBefore(r) => RefusedBefore(r)'
    BY <1>0, <1>4, RefusedTypes DEF NextSolutionConfig, RefusedBefore
  <2> QED
    BY <1>1, <1>4, <2>1 DEF NextSolutionConfig
<1>5. CASE NextKernelComb
  <2>1. \A r \in rejected : RefusedBefore(r) => RefusedBefore(r)'
    BY <1>5 DEF NextKernelComb, RefusedBefore, Unseen
  <2> QED
    BY <1>1, <1>5, <2>1 DEF NextKernelComb
<1>6. CASE GenerateFails
  <2>1. s >= 1 /\ kComb \in kSeen
    BY <1>6 DEF GenerateFails, AfterRefusal, TypeInv, Placed, SeenInv
  <2>2. RefusedBefore(Kernel)'
    BY <1>6, <2>1 DEF GenerateFails, AfterRefusal, RefusedBefore, Kernel
  <2>3. Kernel' = Kernel /\ rejected' = rejected \cup {Kernel}
    BY <1>6 DEF GenerateFails, AfterRefusal, Kernel
  <2>4. \A r \in rejected : RefusedBefore(r) => RefusedBefore(r)'
    BY <1>6 DEF GenerateFails, AfterRefusal, RefusedBefore
  <2>5. IsFiniteSet(rejected')
    BY <2>3, FS_AddElement DEF RejectedInv
  <2> QED
    BY <2>2, <2>3, <2>4, <2>5 DEF RejectedInv
<1>7. CASE SolveProblem \/ SolutionsDone \/ ProblemsDone \/ InitDev \/ GenerateSolution
  <2>1. \A r \in rejected : RefusedBefore(r) => RefusedBefore(r)'
    BY <1>7 DEF SolveProblem, SolutionsDone, ProblemsDone, InitDev, GenerateSolution,
                RefusedBefore
  <2> QED
    BY <1>1, <1>7, <2>1 DEF SolveProblem, SolutionsDone, ProblemsDone, InitDev,
                            GenerateSolution
<1>8. CASE \/ SetupSolution \/ LanchKernel \/ GetPerformence \/ GetBackResult
           \/ SearchFinished \/ ProblemSolved
  <2>1. \A r \in rejected : RefusedBefore(r) => RefusedBefore(r)'
    BY <1>8 DEF SetupSolution, LanchKernel, GetPerformence, GetBackResult, SearchFinished,
                AfterSearch, ProblemSolved, RefusedBefore
  <2> QED
    BY <1>1, <1>8, <2>1 DEF SetupSolution, LanchKernel, GetPerformence, GetBackResult,
                            SearchFinished, ProblemSolved
<1>9. CASE UNCHANGED scVars
  BY <1>1, <1>9 DEF scVars, RefusedBefore
<1> QED
  BY <1>2, <1>3, <1>4, <1>5, <1>6, <1>7, <1>8, <1>9 DEF Next

LEMMA SeenInductive == Spec => [](SeenInv /\ RejectedInv)
<1>1. Init => SeenInv /\ RejectedInv
  BY FS_EmptySet DEF Init, SeenInv, RejectedInv
<1>2. TypeInv /\ SeenInv /\ RejectedInv /\ [Next]_scVars => SeenInv' /\ RejectedInv'
  BY SeenStep, RejectedStep
<1> QED
  BY <1>1, <1>2, TypeInductive, PTL DEF Spec
-----------------------------------------------------------------------------
LEMMA FirstOfFinite ==
  /\ \A i \in 1 .. Len(ProblemSpaces) : IsFiniteSet(FirstOf(ProblemSpaces[i]))
  /\ \A i \in 1 .. Len(SolutionSpaces) : IsFiniteSet(FirstOf(SolutionSpaces[i]))
<1>1. IsFiniteSet({NoComb})
  BY FS_Singleton
<1> QED
  BY <1>1, Spaces DEF FirstOf

(* The searches among the first solution configurations.                   *)
LEMMA SearchesAre ==
  /\ Searches(0) = 0
  /\ \A n \in 1 .. Len(SolutionSpaces) :
       Searches(n) = Searches(n - 1) + (IF SolutionSpaces[n] # {} THEN 1 ELSE 0)
  /\ \A n \in 0 .. Len(SolutionSpaces) : Searches(n) \in Nat
<1> DEFINE Found(n) == {i \in 1 .. n : SolutionSpaces[i] # {}}
<1>1. Searches(0) = 0
  <2>1. Found(0) = {}
    OBVIOUS
  <2> QED
    BY <2>1, FS_EmptySet DEF Searches
<1>2. ASSUME NEW n \in Nat PROVE IsFiniteSet(Found(n)) /\ Searches(n) \in Nat
  <2>1. IsFiniteSet(1 .. n)
    BY FS_Interval
  <2>2. IsFiniteSet(Found(n))
    BY <2>1, FS_Subset
  <2> QED
    BY <2>2, FS_CardinalityType DEF Searches
<1>3. ASSUME NEW n \in 1 .. Len(SolutionSpaces)
      PROVE  Searches(n) = Searches(n - 1) + (IF SolutionSpaces[n] # {} THEN 1 ELSE 0)
  <2>1. /\ Found(n) = Found(n - 1) \cup (IF SolutionSpaces[n] # {} THEN {n} ELSE {})
        /\ n \notin Found(n - 1) /\ n - 1 \in Nat
    BY <1>3, Spaces
  <2>2. IsFiniteSet(Found(n - 1)) /\ Searches(n - 1) \in Nat
    BY <1>2, <2>1
  <2>3. Searches(n) = Cardinality(Found(n)) /\ Searches(n - 1) = Cardinality(Found(n - 1))
    BY DEF Searches
  <2> HIDE DEF Found
  <2>4. Cardinality(Found(n - 1) \cup {n}) = Cardinality(Found(n - 1)) + 1
    BY <2>1, <2>2, FS_AddElement
  <2>5. CASE SolutionSpaces[n] # {}
    BY <2>1, <2>3, <2>4, <2>5
  <2>6. CASE SolutionSpaces[n] = {}
    <3>1. Found(n) = Found(n - 1)
      BY <2>1, <2>6
    <3> QED
      BY <2>2, <2>3, <2>6, <3>1
  <2> QED
    BY <2>5, <2>6
<1>4. ASSUME NEW n \in 0 .. Len(SolutionSpaces) PROVE Searches(n) \in Nat
  <2>1. n \in Nat
    BY <1>4, Spaces
  <2> QED
    BY <1>2, <2>1
<1> QED
  BY <1>1, <1>3, <1>4

(* The combinations of the first problem configurations, added up.         *)
Combs ==
  CHOOSE f : f = [i \in 0 .. Len(ProblemSpaces) |->
                    IF i = 0 THEN 0 ELSE f[i - 1] + Cardinality(FirstOf(ProblemSpaces[i]))]

LEMMA CombsAre ==
  /\ Combs[0] = 0
  /\ \A i \in 1 .. Len(ProblemSpaces) :
       Combs[i] = Combs[i - 1] + Cardinality(FirstOf(ProblemSpaces[i]))
  /\ \A i \in 0 .. Len(ProblemSpaces) : Combs[i] \in Nat
<1> DEFINE n == Len(ProblemSpaces)
           size(i) == Cardinality(FirstOf(ProblemSpaces[i]))
           step == [i \in 1 .. n |-> size(i)]
           body(f) == [i \in 0 .. n |-> IF i = 0 THEN 0 ELSE f[i - 1] + size(i)]
<1>1. n \in Nat /\ \A i \in 1 .. n : step[i] = size(i) /\ size(i) \in Nat
  BY Spaces, FirstOfFinite, FS_CardinalityType
<1>2. Combs = CHOOSE f : f = body(f)
  BY DEF Combs
<1> HIDE DEF step, n, size
<1>3. \A f : SumsOf(f, step, n) <=> f = body(f)
  <2>1. ASSUME NEW f, NEW i \in 0 .. n
        PROVE  (IF i = 0 THEN 0 ELSE f[i - 1] + step[i])
                 = (IF i = 0 THEN 0 ELSE f[i - 1] + size(i))
    <3>1. i # 0 => i \in 1 .. n
      BY <1>1
    <3> QED
      BY <1>1, <3>1
  <2>2. ASSUME NEW f
        PROVE  [i \in 0 .. n |-> IF i = 0 THEN 0 ELSE f[i - 1] + step[i]] = body(f)
    BY <2>1
  <2> QED
    BY <2>2 DEF SumsOf
<1>4. Combs = body(Combs)
  <2>1. \E f : f = body(f)
    BY <1>1, <1>3, SumsExist
  <2> HIDE DEF body
  <2> QED
    BY <1>2, <2>1
<1>5. SumsOf(Combs, step, n)
  BY <1>3, <1>4
<1>6. \A i \in 1 .. n : step[i] \in Nat /\ step[i] \in Int
  BY <1>1
<1>7. /\ Combs[0] = 0 /\ \A i \in 1 .. n : Combs[i] = Combs[i - 1] + step[i]
      /\ \A i \in 0 .. n : Combs[i] \in Nat
  BY <1>1, <1>5, <1>6, SumsAreNumbers
<1> QED
  BY <1>1, <1>7 DEF n, size

LEMMA CombsBeforeIs ==
  ASSUME TRUE
  PROVE  /\ CombsBefore = IF p = 0 THEN 0 ELSE Combs[p - 1] + Cardinality(pSeen) - 1
         /\ CombsBefore' = IF p' = 0 THEN 0 ELSE Combs[p' - 1] + Cardinality(pSeen') - 1
  BY DEF CombsBefore, Combs

LEMMA CombsBeforeType ==
  ASSUME TypeInv, SeenInv
  PROVE  /\ CombsBefore \in Int
         /\ p >= 1 => IsFiniteSet(pSeen) /\ Cardinality(pSeen) \in Nat
         /\ s >= 1 => IsFiniteSet(kSeen) /\ Cardinality(kSeen) \in Nat
<1>0. p \in 0 .. Len(ProblemSpaces) /\ s \in 0 .. Len(SolutionSpaces)
  BY DEF TypeInv, TypeOK
<1>1. ASSUME p >= 1 PROVE IsFiniteSet(pSeen)
  <2>0. p \in 1 .. Len(ProblemSpaces)
    BY <1>0, <1>1, Spaces
  <2>1. pSeen \subseteq FirstOf(ProblemSpaces[p])
    BY <1>1 DEF SeenInv
  <2>2. IsFiniteSet(FirstOf(ProblemSpaces[p]))
    BY <2>0, FirstOfFinite
  <2> QED
    BY <2>1, <2>2, FS_Subset
<1>2. ASSUME s >= 1 PROVE IsFiniteSet(kSeen)
  <2>0. s \in 1 .. Len(SolutionSpaces)
    BY <1>0, <1>2, Spaces
  <2>1. kSeen \subseteq FirstOf(SolutionSpaces[s])
    BY <1>2 DEF SeenInv
  <2>2. IsFiniteSet(FirstOf(SolutionSpaces[s]))
    BY <2>0, FirstOfFinite
  <2> QED
    BY <2>1, <2>2, FS_Subset
<1>3. p >= 1 => Combs[p - 1] \in Nat
  BY <1>0, CombsAre, Spaces
<1> QED
  BY <1>0, <1>1, <1>2, <1>3, FS_CardinalityType, CombsBeforeIs, Spaces
-----------------------------------------------------------------------------
(* The combinations before this one are counted as the walks go on.        *)
LEMMA CombsStep ==
  ASSUME TypeInv, SeenInv, [Next]_scVars
  PROVE  CombsBefore' = CombsBefore + (IF NextProblemComb \/ (NextProblemConfig /\ p >= 1)
                                       THEN 1 ELSE 0)
<1>0. /\ p \in 0 .. Len(ProblemSpaces) /\ CombsBefore \in Int
      /\ p >= 1 => IsFiniteSet(pSeen) /\ Cardinality(pSeen) \in Nat
  BY CombsBeforeType DEF TypeInv, TypeOK
<1>1. CASE NextProblemComb
  <2>1. p >= 1 /\ p' = p
    BY <1>1 DEF NextProblemComb, TypeInv, Placed
  <2>2. PICK c : c \notin pSeen /\ pSeen' = pSeen \cup {c}
    BY <1>1 DEF NextProblemComb, Unseen
  <2>3. Cardinality(pSeen') = Cardinality(pSeen) + 1
    BY <1>0, <2>1, <2>2, FS_AddElement
  <2>4. Combs[p - 1] \in Nat
    <3>1. p - 1 \in 0 .. Len(ProblemSpaces)
      BY <1>0, <2>1, Spaces
    <3> QED
      BY <3>1, CombsAre
  <2> QED
    BY <1>0, <1>1, <2>1, <2>3, <2>4, CombsBeforeIs
<1>2. CASE NextProblemConfig
  <2>1. /\ p' = p + 1 /\ p' \in 1 .. Len(ProblemSpaces) /\ pc = "problems"
        /\ pSeen' = {pComb'}
    BY <1>0, <1>2, Spaces DEF NextProblemConfig
  <2>2. Cardinality(pSeen') = 1
    BY <2>1, FS_Singleton
  <2>3. ~NextProblemComb
    BY <2>1 DEF NextProblemComb
  <2>4. p' - 1 = p /\ p' # 0 /\ Combs[p] \in Nat
    BY <1>0, <2>1, CombsAre, Spaces
  <2>5. CombsBefore' = Combs[p]
    BY <2>2, <2>4, CombsBeforeIs
  <2>6. CASE p = 0
    BY <1>2, <2>3, <2>5, <2>6, CombsAre, CombsBeforeIs
  <2>7. CASE p >= 1
    <3>1. pSeen = FirstOf(ProblemSpaces[p])
      BY <2>1, <2>7 DEF SeenInv
    <3>2. p \in 1 .. Len(ProblemSpaces)
      BY <1>0, <2>7, Spaces
    <3>3. Combs[p] = Combs[p - 1] + Cardinality(pSeen)
      BY <3>1, <3>2, CombsAre
    <3>4. CombsBefore = Combs[p - 1] + Cardinality(pSeen) - 1
      BY <2>7, <3>2, CombsBeforeIs
    <3>5. Combs[p - 1] \in Nat
      <4>1. p - 1 \in 0 .. Len(ProblemSpaces)
        BY <3>2, Spaces
      <4> QED
        BY <4>1, CombsAre
    <3>6. PICK a, n : a = Combs[p - 1] /\ n = Cardinality(pSeen) /\ a \in Nat /\ n \in Nat
      BY <1>0, <2>7, <3>5
    <3>7. CombsBefore' = CombsBefore + 1
      BY <2>5, <3>3, <3>4, <3>6
    <3> QED
      BY <1>2, <2>7, <3>7
  <2> QED
    BY <1>0, <2>6, <2>7
<1>3. CASE ~NextProblemComb /\ ~NextProblemConfig
  <2>1. p' = p /\ pSeen' = pSeen
    BY <1>3 DEF Next, ProblemsDone, SolveProblem, NextSolutionConfig, SolutionsDone, InitDev,
                GenerateSolution, GenerateFails, SetupSolution, LanchKernel, GetPerformence,
                GetBackResult, NextKernelComb, SearchFinished, ProblemSolved, scVars, pVars
  <2> QED
    BY <1>0, <1>3, <2>1, CombsBeforeIs
<1> QED
  BY <1>1, <1>2, <1>3

(* HeldAccounted with the search counts of the walk as numbers.            *)
HeldOf(searches, before, all) ==
  pc \notin {"exited", "problem"} =>
    /\ bufs = Cardinality(rejected) + (IF Trying THEN 1 ELSE 0)
    /\ runtimes = all + (IF pc \in {"problems", "configs", "verify", "finished"}
                         THEN searches ELSE before)
                  + (IF Trying \/ pc = "search" THEN 1 ELSE 0)

LEMMA HeldIs ==
  ASSUME TRUE
  PROVE  /\ HeldAccounted <=> HeldOf(Searches(s), Searches(s - 1),
                                     CombsBefore * Searches(Len(SolutionSpaces)))
         /\ HeldAccounted' <=>
              (pc' \notin {"exited", "problem"} =>
                /\ bufs' = Cardinality(rejected') + (IF Trying' THEN 1 ELSE 0)
                /\ runtimes' = CombsBefore' * Searches(Len(SolutionSpaces))
                     + (IF pc' \in {"problems", "configs", "verify", "finished"}
                        THEN Searches(s') ELSE Searches(s' - 1))
                     + (IF Trying' \/ pc' = "search" THEN 1 ELSE 0))
         /\ HeldInv' <=>
              /\ HeldAccounted'
              /\ pc' = "problem" =>
                   /\ bufs' = Cardinality(rejected')
                   /\ runtimes' = CombsBefore' * Searches(Len(SolutionSpaces))
  BY DEF HeldAccounted, HeldOf, HeldInv

LEMMA HeldStep ==
  ASSUME TypeInv, SeenInv, RejectedInv, HeldInv, [Next]_scVars
  PROVE  HeldInv'
<1> USE DEF Trying, pVars, kVars, build, scores, held
<1>0. PICK all : all = Searches(Len(SolutionSpaces)) /\ all \in Nat
  BY SearchesAre, Spaces
<1>1. PICK before : before = CombsBefore * all /\ before \in Int
  BY <1>0, CombsBeforeType
<1>2. PICK after : after = CombsBefore' * all
  OBVIOUS
<1>3. /\ NextProblemComb \/ (NextProblemConfig /\ p >= 1) => after = before + all
      /\ ~(NextProblemComb \/ (NextProblemConfig /\ p >= 1)) => after = before
  <2>1. ASSUME CombsBefore' = CombsBefore + 1 PROVE after = before + all
    BY <1>0, <1>1, <1>2, <2>1, CombsBeforeType
  <2>2. ASSUME CombsBefore' = CombsBefore + 0 PROVE after = before
    BY <1>0, <1>1, <1>2, <2>2, CombsBeforeType
  <2> QED
    BY <2>1, <2>2, CombsStep
<1>4. /\ p \in Nat /\ s \in 0 .. Len(SolutionSpaces) /\ s \in Nat /\ bufs \in Nat /\ runtimes \in Nat
      /\ Cardinality(rejected) \in Nat /\ Cardinality(rejected') \in Nat
  <2>1. IsFiniteSet(rejected) /\ IsFiniteSet(rejected')
    BY RejectedStep DEF RejectedInv
  <2> QED
    BY <2>1, FS_CardinalityType, Spaces DEF TypeInv, TypeOK
<1>5. /\ Searches(0) = 0 /\ Searches(s) \in Nat /\ Searches(s + 1 - 1) = Searches(s)
      /\ s >= 1 => /\ Searches(s - 1) \in Nat
                   /\ Searches(s) = Searches(s - 1) + (IF Searched THEN 1 ELSE 0)
  <2>1. s >= 1 => s \in 1 .. Len(SolutionSpaces) /\ s - 1 \in 0 .. Len(SolutionSpaces)
    BY <1>4, Spaces
  <2>2. s + 1 - 1 = s
    BY <1>4
  <2> QED
    BY <1>4, <2>1, <2>2, SearchesAre DEF Searched
<1>6. /\ HeldOf(Searches(s), Searches(s - 1), before)
      /\ pc = "problem" => bufs = Cardinality(rejected) /\ runtimes = before
  BY <1>0, <1>1, HeldIs DEF HeldInv
<1>7. ASSUME pc' \notin {"exited", "problem"} =>
               /\ bufs' = Cardinality(rejected') + (IF Trying' THEN 1 ELSE 0)
               /\ runtimes' = after
                    + (IF pc' \in {"problems", "configs", "verify", "finished"}
                       THEN Searches(s') ELSE Searches(s' - 1))
                    + (IF Trying' \/ pc' = "search" THEN 1 ELSE 0),
             pc' = "problem" => bufs' = Cardinality(rejected') /\ runtimes' = after
      PROVE  HeldInv'
  BY <1>0, <1>2, <1>7, HeldIs
<1>8. ASSUME pc' = "configs", bufs' = Cardinality(rejected'), after \in Int,
              NEW n \in Nat, n = Searches(s'), runtimes' = after + n
       PROVE  HeldInv'
  BY <1>4, <1>7, <1>8
<1>9. ASSUME pc' = "search", bufs' = Cardinality(rejected'), after \in Int,
              NEW n \in Nat, n = Searches(s' - 1), runtimes' = after + n + 1
       PROVE  HeldInv'
  BY <1>4, <1>7, <1>9
<1>10. ASSUME pc' = "init", bufs' = Cardinality(rejected'), after \in Int,
              NEW n \in Nat, n = Searches(s' - 1), runtimes' = after + n
       PROVE  HeldInv'
  BY <1>4, <1>7, <1>10
<1>11. ASSUME Trying', bufs' = Cardinality(rejected') + 1, after \in Int,
              NEW n \in Nat, n = Searches(s' - 1), runtimes' = after + n + 1
       PROVE  HeldInv'
  BY <1>4, <1>7, <1>11
<1>12. CASE NextProblemConfig
  <2>1. /\ pc = "problems" /\ pc' = "problem" /\ ~NextProblemComb
        /\ UNCHANGED <<s, bufs, runtimes, rejected>>
    BY <1>12 DEF NextProblemConfig, NextProblemComb
  <2>2. bufs = Cardinality(rejected) /\ runtimes = before + Searches(s)
    BY <1>1, <1>4, <1>5, <1>6, <2>1 DEF HeldOf
  <2>3. CASE p = 0
    <3>1. s = 0 /\ after = before
      BY <1>3, <1>4, <2>1, <2>3 DEF SeenInv
    <3> QED
      BY <1>1, <1>5, <1>7, <2>1, <2>2, <3>1
  <2>4. CASE p >= 1
    <3>1. Searches(s) = all /\ after = before + all
      BY <1>0, <1>3, <1>4, <1>12, <2>1, <2>4 DEF SeenInv
    <3> QED
      BY <1>7, <2>1, <2>2, <3>1
  <2> QED
    BY <1>4, <2>3, <2>4
<1>13. CASE NextProblemComb
  BY <1>0, <1>1, <1>3, <1>4, <1>5, <1>6, <1>7, <1>13 DEF NextProblemComb, HeldOf, SeenInv
<1>14. CASE ~NextProblemConfig /\ ~NextProblemComb
  <2>0. after = before
    BY <1>3, <1>14
  <2> HIDE DEF Next
  <2>1. CASE SolveProblem
    <3>1. /\ pc = "problem" /\ pc' = "configs" /\ s' = 0
          /\ UNCHANGED <<bufs, runtimes, rejected>>
      BY <2>1 DEF SolveProblem
    <3>2. bufs = Cardinality(rejected) /\ runtimes = before
      BY <1>6, <3>1
    <3> QED
      BY <1>1, <1>4, <1>5, <1>7, <2>0, <3>1, <3>2
  <2>2. CASE NextSolutionConfig
    BY <1>1, <1>4, <1>5, <1>6, <1>7, <2>0, <2>2 DEF NextSolutionConfig, HeldOf
  <2>3. CASE SolutionsDone \/ ProblemsDone \/ ProblemSolved
    BY <1>1, <1>4, <1>5, <1>6, <1>7, <2>0, <2>3
       DEF SolutionsDone, ProblemsDone, ProblemSolved, HeldOf
  <2>4. CASE InitDev \/ GenerateSolution
    <3>1. /\ pc' \in {"generate", "setup"} /\ UNCHANGED <<s, rejected>> /\ s >= 1
          /\ pc = "init" => bufs' = bufs + 1 /\ runtimes' = runtimes + 1
          /\ pc # "init" => pc = "generate" /\ UNCHANGED <<bufs, runtimes>>
      BY <2>4 DEF InitDev, GenerateSolution, TypeInv, Placed
    <3>2. bufs' = Cardinality(rejected) + 1 /\ runtimes' = before + Searches(s - 1) + 1
      <4>1. CASE pc = "init"
        BY <1>1, <1>4, <1>5, <1>6, <3>1, <4>1 DEF HeldOf
      <4>2. CASE pc # "init"
        BY <1>1, <1>4, <1>5, <1>6, <3>1, <4>2 DEF HeldOf
      <4> QED
        BY <4>1, <4>2
    <3>3. Trying' /\ Searches(s' - 1) = Searches(s - 1) /\ Searches(s - 1) \in Nat
      BY <1>5, <3>1
    <3> QED
      BY <1>1, <1>11, <2>0, <3>1, <3>2, <3>3
  <2>5. CASE GenerateFails
    <3>1. Cardinality(rejected') = Cardinality(rejected) + 1
      BY <2>5, NewlyRefused, FS_AddElement DEF GenerateFails, AfterRefusal, RejectedInv
    <3> QED
      BY <1>1, <1>4, <1>5, <1>6, <1>7, <2>0, <2>5, <3>1 DEF GenerateFails, AfterRefusal, HeldOf
  <2>6. CASE SetupSolution \/ LanchKernel \/ GetPerformence
    BY <1>1, <1>4, <1>5, <1>6, <1>7, <2>0, <2>6
       DEF SetupSolution, LanchKernel, GetPerformence, HeldOf
  <2>7. CASE GetBackResult
    <3>1. /\ pc = "readback" /\ s >= 1 /\ bufs' = bufs - 1 /\ UNCHANGED <<s, rejected>>
          /\ Searched => pc' = "search" /\ runtimes' = runtimes
          /\ ~Searched => pc' = "configs" /\ runtimes' = runtimes - 1
      BY <2>7 DEF GetBackResult, Released, TypeInv, Placed
    <3>2. /\ bufs = Cardinality(rejected) + 1 /\ runtimes = before + Searches(s - 1) + 1
          /\ ~Searched => Searches(s) = Searches(s - 1)
      BY <1>1, <1>4, <1>5, <1>6, <3>1 DEF HeldOf
    <3>3. Searches(s - 1) \in Nat /\ bufs' = Cardinality(rejected')
      BY <1>4, <1>5, <3>1, <3>2
    <3>4. CASE Searched
      BY <1>1, <1>9, <2>0, <3>1, <3>2, <3>3, <3>4
    <3>5. CASE ~Searched
      <4>1. runtimes' = after + Searches(s')
        BY <1>1, <2>0, <3>1, <3>2, <3>3, <3>5
      <4> QED
        BY <1>1, <1>5, <1>8, <2>0, <3>1, <3>3, <3>5, <4>1
    <3> QED
      BY <3>4, <3>5
  <2>8. CASE NextKernelComb
    <3>1. /\ pc = "search" /\ pc' = "init" /\ s >= 1 /\ runtimes' = runtimes - 1
          /\ UNCHANGED <<s, bufs, rejected>>
      BY <2>8 DEF NextKernelComb, TypeInv, Placed
    <3>2. bufs = Cardinality(rejected) /\ runtimes = before + Searches(s - 1) + 1
      BY <1>1, <1>4, <1>5, <1>6, <3>1 DEF HeldOf
    <3>3. Searches(s - 1) \in Nat /\ runtimes' = after + Searches(s' - 1)
      BY <1>1, <1>5, <2>0, <3>1, <3>2
    <3> QED
      BY <1>1, <1>4, <1>10, <2>0, <3>1, <3>2, <3>3
  <2>9. CASE SearchFinished
    <3>1. /\ pc = "search" /\ pc' = "configs" /\ s >= 1 /\ Searched
          /\ UNCHANGED <<s, bufs, runtimes, rejected>>
      BY <2>9 DEF SearchFinished, AfterSearch, TypeInv, Placed, SeenInv
    <3>2. /\ bufs = Cardinality(rejected) /\ runtimes = before + Searches(s - 1) + 1
          /\ Searches(s) = Searches(s - 1) + 1
      BY <1>1, <1>4, <1>5, <1>6, <3>1 DEF HeldOf
    <3>3. Searches(s - 1) \in Nat /\ Searches(s) \in Nat /\ runtimes' = after + Searches(s')
      BY <1>1, <1>5, <2>0, <3>1, <3>2
    <3> QED
      BY <1>1, <1>8, <2>0, <3>1, <3>2, <3>3
  <2>10. CASE UNCHANGED scVars
    BY <1>1, <1>4, <1>5, <1>6, <1>7, <2>0, <2>10 DEF scVars, HeldOf
  <2> QED
    BY <1>14, <2>1, <2>2, <2>3, <2>4, <2>5, <2>6, <2>7, <2>8, <2>9, <2>10 DEF Next
<1> QED
  BY <1>12, <1>13, <1>14

(* What the run holds is accounted for by the kernel being tried, the      *)
(* kernels refused and the searches finished: the two returns that skip    *)
(* ReleaseDev and delete runtime lose exactly that.                        *)
THEOREM ResourcesAccounted == Spec => []HeldAccounted
<1>1. Init => HeldInv
  <2> SUFFICES ASSUME Init PROVE HeldInv
    OBVIOUS
  <2>1. Searches(0) = 0 /\ Cardinality({}) = 0 /\ CombsBefore = 0
    BY SearchesAre, FS_EmptySet, CombsBeforeIs DEF Init
  <2>2. Searches(Len(SolutionSpaces)) \in Nat
    BY SearchesAre, Spaces
  <2> QED
    BY <2>1, <2>2 DEF Init, HeldInv, HeldAccounted, Trying
<1>2. TypeInv /\ SeenInv /\ RejectedInv /\ HeldInv /\ [Next]_scVars => HeldInv'
  BY HeldStep
<1>3. HeldInv => HeldAccounted
  BY DEF HeldInv
<1> QED
  BY <1>1, <1>2, <1>3, TypeInductive, SeenInductive, PTL DEF Spec
-----------------------------------------------------------------------------
LEMMA OnceTypes ==
  ASSUME TypeInv
  PROVE  /\ IsFiniteSet(DOMAIN measured) /\ \A i : IsFiniteSet(ScoredFor(i))
         /\ \A i : Cardinality(ScoredFor(i)) \in Nat
         /\ \A i \in 1 .. s : IsFiniteSet(RefusedFor(i)) /\ Cardinality(RefusedFor(i)) \in Nat
         /\ \A i \in 1 .. s : i \in 1 .. Len(SolutionSpaces)
         /\ DOMAIN measured = 1 .. Len(measured) /\ Len(measured) \in Nat
<1>1. DOMAIN measured = 1 .. Len(measured) /\ Len(measured) \in Nat
  BY DEF TypeInv, TypeOK
<1>2. IsFiniteSet(DOMAIN measured)
  BY <1>1, FS_Interval
<1>3. ASSUME NEW i PROVE IsFiniteSet(ScoredFor(i)) /\ Cardinality(ScoredFor(i)) \in Nat
  <2>1. ScoredFor(i) \subseteq DOMAIN measured
    BY DEF ScoredFor
  <2> QED
    BY <1>2, <2>1, FS_Subset, FS_CardinalityType
<1>4. \A i \in 1 .. s : i \in 1 .. Len(SolutionSpaces)
  BY Spaces DEF TypeInv, TypeOK
<1>5. ASSUME NEW i \in 1 .. s
      PROVE  IsFiniteSet(RefusedFor(i)) /\ Cardinality(RefusedFor(i)) \in Nat
  <2>1. IsFiniteSet(FirstOf(SolutionSpaces[i]))
    BY <1>4, FirstOfFinite
  <2>2. RefusedFor(i) \subseteq FirstOf(SolutionSpaces[i])
    BY DEF RefusedFor
  <2> QED
    BY <2>1, <2>2, FS_Subset, FS_CardinalityType
<1> QED
  BY <1>1, <1>2, <1>3, <1>4, <1>5

(* A configuration that has just been chosen has nothing tried.            *)
LEMMA OnceBegins ==
  ASSUME TypeInv, SeenInv, RejectedInv, SolsInv, OnceInv, NextSolutionConfig
  PROVE  OnceInv'
<1>0. PICK n : n = s'
  OBVIOUS
<1>1. /\ pc = "configs" /\ pc' = "init" /\ s' = s + 1 /\ kSeen' = {kComb'} /\ n = s + 1
      /\ UNCHANGED <<p, pComb, measured, rejected>>
  BY <1>0 DEF NextSolutionConfig, pVars, scores
<1>2. s \in Nat /\ p \in Nat /\ p >= 1
  BY <1>1, Spaces DEF TypeInv, TypeOK, Placed
<1>3. \A i : ScoredFor(i)' = ScoredFor(i) /\ RefusedFor(i)' = RefusedFor(i)
  BY <1>1 DEF ScoredFor, RefusedFor
<1>4. ASSUME NEW i \in 1 .. s PROVE OnceFor(i)'
  <2>1. Tried(i)' = FirstOf(SolutionSpaces[i])
    BY <1>1, <1>2 DEF Tried
  <2>2. Tried(i) = FirstOf(SolutionSpaces[i])
    BY <1>1, <1>2 DEF Tried, Unfinished, Tuning, SeenInv
  <2>3. OnceFor(i)
    BY <1>1 DEF OnceInv, InCombination
  <2> QED
    BY <1>1, <1>3, <2>1, <2>2, <2>3 DEF OnceFor
<1>5. OnceFor(n)'
  <2>1. Tried(n)' = {}
    BY <1>0, <1>1, <1>2 DEF Tried, Unfinished, Tuning
  <2>2. ScoredFor(n) = {}
    <3>1. ASSUME NEW j \in DOMAIN measured PROVE measured[j].sol # n
      <4>1. measured[j] \in Scored
        BY DEF Scored
      <4>2. measured[j].sol <= s /\ measured[j].sol \in Nat
        BY <1>1, <4>1, ScoredType, Spaces DEF SolsInv, InCombination
      <4> QED
        BY <1>1, <1>2, <4>2
    <3> QED
      BY <3>1 DEF ScoredFor
  <2>3. RefusedFor(n) = {}
    <3>1. ASSUME NEW c PROVE ~RefusedBefore(<<p, pComb, n, c>>)
      BY <1>1, <1>2 DEF RefusedBefore
    <3> QED
      BY <3>1 DEF RefusedFor, RejectedInv
  <2>4. Cardinality({}) = 0
    BY FS_EmptySet
  <2>5. ScoredFor(n)' = {} /\ RefusedFor(n)' = {}
    BY <1>3, <2>2, <2>3
  <2> QED
    BY <2>1, <2>4, <2>5 DEF OnceFor
<1>6. \A i \in 1 .. s' : i \in 1 .. s \/ i = n
  BY <1>1, <1>2
<1> QED
  BY <1>1, <1>4, <1>5, <1>6 DEF OnceInv

(* The kernel being tried is scored: one more score of its configuration.  *)
LEMMA OnceScored ==
  ASSUME TypeInv, SeenInv, RejectedInv, OnceInv, GetPerformence
  PROVE  OnceInv'
<1>0. PICK x : x = [sol |-> s, comb |-> kComb, time |-> Sum(times)]
  OBVIOUS
<1>1. /\ pc = "launch" /\ pc' = "readback" /\ UNCHANGED <<p, pComb, s, kComb, kSeen, rejected>>
      /\ measured' = Append(measured, x)
  BY <1>0 DEF GetPerformence, pVars, kVars
<1>2. s >= 1 /\ s \in Nat /\ s \in 1 .. Len(SolutionSpaces)
  BY <1>1, Spaces DEF TypeInv, TypeOK, Placed
<1>3. PICK n : n = Len(measured) + 1 /\ n \notin DOMAIN measured
  BY OnceTypes
<1>4. /\ DOMAIN measured' = DOMAIN measured \cup {n} /\ measured'[n] = x
      /\ \A j \in DOMAIN measured : measured'[j] = measured[j]
  BY <1>1, <1>3 DEF TypeInv, TypeOK
<1>5. x.sol = s /\ x.comb = kComb
  BY <1>0
<1>6. \A i : RefusedFor(i)' = RefusedFor(i)
  BY <1>1 DEF RefusedFor
<1>7. \A i \in 1 .. s : OnceFor(i)
  BY <1>1 DEF OnceInv, InCombination
<1>8. ASSUME NEW i \in 1 .. s, i # s PROVE OnceFor(i)'
  <2>1. ScoredFor(i)' = ScoredFor(i)
    BY <1>4, <1>5, <1>8 DEF ScoredFor
  <2>2. {measured'[j].comb : j \in ScoredFor(i)} = {measured[j].comb : j \in ScoredFor(i)}
    BY <1>4 DEF ScoredFor
  <2>3. Tried(i)' = Tried(i)
    BY <1>1, <1>2, <1>8 DEF Tried
  <2> QED
    BY <1>6, <1>7, <2>1, <2>2, <2>3 DEF OnceFor
<1>k. PICK k : k = s
  OBVIOUS
<1>9. OnceFor(k)'
  <2>1. ScoredFor(k)' = ScoredFor(k) \cup {n} /\ n \notin ScoredFor(k)
    BY <1>k, <1>1, <1>3, <1>4, <1>5 DEF ScoredFor
  <2>2. {measured'[j].comb : j \in ScoredFor(k) \cup {n}}
          = {measured[j].comb : j \in ScoredFor(k)} \cup {kComb}
    BY <1>k, <1>4, <1>5 DEF ScoredFor
  <2>3. Cardinality(ScoredFor(k)') = Cardinality(ScoredFor(k)) + 1
    BY <1>k, <2>1, OnceTypes, FS_AddElement
  <2>4. Tried(k)' = kSeen /\ Tried(k) = kSeen \ {kComb} /\ kComb \in kSeen
    BY <1>k, <1>1, <1>2 DEF Tried, Unfinished, Tuning, SeenInv
  <2>5. Cardinality(kSeen) = Cardinality(kSeen \ {kComb}) + 1
    <3>1. IsFiniteSet(kSeen \ {kComb})
      BY <1>k, <1>2, CombsBeforeType, FS_Subset
    <3>2. kSeen = (kSeen \ {kComb}) \cup {kComb}
      BY <1>k, <2>4
    <3> QED
      BY <1>k, <3>1, <3>2, FS_AddElement
  <2>6. OnceFor(k)
    BY <1>k, <1>2, <1>7
  <2>7. /\ Cardinality(ScoredFor(k)) \in Nat /\ Cardinality(RefusedFor(k)) \in Nat
        /\ Cardinality(kSeen) \in Nat
    BY <1>k, <1>2, OnceTypes, CombsBeforeType
  <2>8. Tried(k)' = {measured'[j].comb : j \in ScoredFor(k)'} \cup RefusedFor(k)'
    BY <1>k, <1>6, <2>1, <2>2, <2>4, <2>6 DEF OnceFor
  <2>9. Cardinality(ScoredFor(k)') + Cardinality(RefusedFor(k)') = Cardinality(Tried(k)')
    BY <1>k, <1>6, <2>3, <2>4, <2>5, <2>6, <2>7 DEF OnceFor
  <2> QED
    BY <1>k, <2>8, <2>9 DEF OnceFor
<1> QED
  BY <1>k, <1>1, <1>8, <1>9 DEF OnceInv

(* It is refused: one more refusal.                                        *)
LEMMA OnceRefused ==
  ASSUME TypeInv, SeenInv, RejectedInv, OnceInv, GenerateFails
  PROVE  OnceInv'
<1>1. /\ pc = "generate" /\ pc' \in {"search", "exited"} /\ (pc' = "exited" => ~Searched)
      /\ UNCHANGED <<p, pComb, s, kComb, kSeen, measured>>
      /\ rejected' = rejected \cup {<<p, pComb, s, kComb>>}
  BY DEF GenerateFails, AfterRefusal, pVars, kVars, Kernel
<1>2. s >= 1 /\ s \in Nat /\ s \in 1 .. Len(SolutionSpaces)
  BY <1>1, Spaces DEF TypeInv, TypeOK, Placed
<1>3. <<p, pComb, s, kComb>> \notin rejected
  BY <1>1, NewlyRefused DEF Kernel
<1>4. \A i : ScoredFor(i)' = ScoredFor(i)
  BY <1>1 DEF ScoredFor
<1>5. \A i \in 1 .. s : OnceFor(i)
  BY <1>1 DEF OnceInv, InCombination
<1>6. ASSUME NEW i \in 1 .. s, i # s PROVE OnceFor(i)'
  <2>1. RefusedFor(i)' = RefusedFor(i)
    BY <1>1, <1>6 DEF RefusedFor
  <2>2. Tried(i)' = Tried(i)
    BY <1>1, <1>2, <1>6 DEF Tried
  <2> QED
    BY <1>1, <1>4, <1>5, <2>1, <2>2 DEF OnceFor
<1>k. PICK k : k = s
  OBVIOUS
<1>7. OnceFor(k)'
  <2>0. Kernel' \in rejected'
    BY <1>1 DEF Kernel
  <2>1. Tried(k)' = kSeen /\ Tried(k) = kSeen \ {kComb} /\ kComb \in kSeen
    BY <1>k, <1>1, <1>2, <2>0 DEF Tried, Unfinished, Tuning, SeenInv
  <2>2. kComb \in FirstOf(SolutionSpaces[s])
    BY <1>k, <1>2 DEF SeenInv
  <2>3. RefusedFor(k)' = RefusedFor(k) \cup {kComb} /\ kComb \notin RefusedFor(k)
    BY <1>k, <1>1, <1>3, <2>2 DEF RefusedFor
  <2>4. Cardinality(RefusedFor(k)') = Cardinality(RefusedFor(k)) + 1
    <3>1. k \in 1 .. s
      BY <1>k, <1>2
    <3>2. IsFiniteSet(RefusedFor(k))
      BY <3>1, OnceTypes
    <3> QED
      BY <2>3, <3>2, FS_AddElement
  <2>5. Cardinality(kSeen) = Cardinality(kSeen \ {kComb}) + 1
    <3>1. IsFiniteSet(kSeen \ {kComb})
      BY <1>k, <1>2, CombsBeforeType, FS_Subset
    <3>2. kSeen = (kSeen \ {kComb}) \cup {kComb}
      BY <1>k, <2>1
    <3> QED
      BY <1>k, <3>1, <3>2, FS_AddElement
  <2>6. OnceFor(k)
    BY <1>k, <1>2, <1>5
  <2>7. /\ Cardinality(ScoredFor(k)) \in Nat /\ Cardinality(RefusedFor(k)) \in Nat
        /\ Cardinality(kSeen) \in Nat
    BY <1>k, <1>2, OnceTypes, CombsBeforeType
  <2>8. Tried(k)' = {measured'[j].comb : j \in ScoredFor(k)'} \cup RefusedFor(k)'
    BY <1>k, <1>1, <1>4, <2>1, <2>3, <2>6 DEF OnceFor
  <2>9. Cardinality(ScoredFor(k)') + Cardinality(RefusedFor(k)') = Cardinality(Tried(k)')
    BY <1>k, <1>4, <2>1, <2>4, <2>5, <2>6, <2>7 DEF OnceFor
  <2> QED
    BY <1>k, <2>8, <2>9 DEF OnceFor
<1> QED
  BY <1>k, <1>1, <1>6, <1>7 DEF OnceInv, Searched

LEMMA OnceStep ==
  ASSUME TypeInv, SeenInv, RejectedInv, SolsInv, OnceInv, [Next]_scVars
  PROVE  OnceInv'
<1> USE DEF pVars, kVars, scores, Tuning, Unfinished
<1>0. s \in Nat
  BY Spaces DEF TypeInv, TypeOK
<1>1. ASSUME UNCHANGED <<p, pComb, s, measured, rejected>>,
             \A i \in 1 .. s : Tried(i)' = Tried(i),
             InCombination, pc' # "exited" \/ Kernel' \notin rejected'
      PROVE  OnceInv'
  <2>1. \A i : ScoredFor(i)' = ScoredFor(i) /\ RefusedFor(i)' = RefusedFor(i)
    BY <1>1 DEF ScoredFor, RefusedFor
  <2> QED
    BY <1>1, <2>1 DEF OnceInv, OnceFor
<1>2. ASSUME ~InCombination' PROVE OnceInv'
  BY <1>2 DEF OnceInv, InCombination
<1>3. CASE NextProblemConfig \/ ProblemsDone \/ NextProblemComb \/ ProblemSolved
  BY <1>2, <1>3 DEF NextProblemConfig, ProblemsDone, NextProblemComb, ProblemSolved,
                    InCombination
<1>4. CASE SolveProblem
  <2>1. s' = 0 /\ 1 .. 0 = {} /\ pc' = "configs"
    BY <1>4 DEF SolveProblem
  <2> QED
    BY <2>1 DEF OnceInv
<1>5. CASE NextSolutionConfig
  BY <1>5, OnceBegins
<1>6. CASE SolutionsDone \/ InitDev \/ GenerateSolution
  BY <1>1, <1>6 DEF SolutionsDone, InitDev, GenerateSolution, Tried, InCombination
<1>7. CASE GenerateFails
  BY <1>7, OnceRefused
<1>8. CASE SetupSolution
  <2>1. /\ pc = "setup" /\ pc' \in {"exited", "launch"}
        /\ UNCHANGED <<p, pComb, s, kComb, kSeen, measured, rejected>>
    BY <1>8 DEF SetupSolution
  <2>2. Kernel' \notin rejected'
    BY <2>1, NewlyRefused DEF Kernel
  <2>3. \A i \in 1 .. s : Tried(i)' = Tried(i)
    BY <2>1, <2>2 DEF Tried
  <2> QED
    BY <1>1, <2>1, <2>2, <2>3 DEF InCombination
<1>9. CASE LanchKernel \/ GetBackResult \/ SearchFinished
  BY <1>1, <1>9 DEF LanchKernel, GetBackResult, SearchFinished, AfterSearch, Tried,
                    InCombination
<1>10. CASE GetPerformence
  BY <1>10, OnceScored
<1>11. CASE NextKernelComb
  <2>1. \A i \in 1 .. s : Tried(i)' = Tried(i)
    BY <1>0, <1>11 DEF NextKernelComb, Tried, Unseen
  <2> QED
    BY <1>1, <1>11, <2>1 DEF NextKernelComb, InCombination
<1>12. CASE UNCHANGED scVars
  <2>1. /\ UNCHANGED <<pc, p, pComb, s, kComb, kSeen, measured, rejected>>
        /\ SolutionSpaces[s]' = SolutionSpaces[s] /\ Kernel' = Kernel
    BY <1>12 DEF scVars, Kernel
  <2>2. \A i : Tried(i)' = Tried(i) /\ OnceFor(i)' = OnceFor(i)
    BY <2>1 DEF Tried, OnceFor, ScoredFor, RefusedFor
  <2> QED
    BY <2>1, <2>2 DEF OnceInv, InCombination, Searched
<1> QED
  BY <1>3, <1>4, <1>5, <1>6, <1>7, <1>8, <1>9, <1>10, <1>11, <1>12 DEF Next

(* The walk of a solution configuration leaves none of its combinations    *)
(* out and scores none twice: GetNexComb's contract, and that every way    *)
(* from one combination to the next scores it or has it refused.  A run    *)
(* that exits does so at a kernel that failed to build, or at one refused  *)
(* in RunSolutionOnce, which is the only one of its configuration.         *)
THEOREM EveryCombOnce == Spec => []EachCombOnce
<1>1. Init => OnceInv
  BY DEF Init, OnceInv, InCombination
<1>2. TypeInv /\ SeenInv /\ RejectedInv /\ RecordInv /\ OnceInv /\ [Next]_scVars => OnceInv'
  BY OnceStep DEF RecordInv
<1>3. TypeInv /\ SeenInv /\ OnceInv => EachCombOnce
  <2> SUFFICES ASSUME TypeInv, SeenInv, OnceInv, pc \in {"configs", "verify", "exited"},
                      NEW i \in 1 .. s
               PROVE  LET scored == {j \in DOMAIN measured : measured[j].sol = i}
                          refused == {c \in FirstOf(SolutionSpaces[i]) :
                                        <<p, pComb, i, c>> \in rejected}
                      IN  /\ Tuned(i) = {measured[j].comb : j \in scored} \cup refused
                          /\ Cardinality(scored) + Cardinality(refused)
                               = Cardinality(Tuned(i))
    BY DEF EachCombOnce
  <2>1. s \in Nat /\ s >= 1 /\ (i < s \/ i = s)
    BY Spaces DEF TypeInv, TypeOK
  <2>2. Tried(i) = Tuned(i)
    <3>1. CASE i < s \/ pc # "exited"
      BY <2>1, <3>1 DEF Tried, Tuned, Unfinished, Tuning, SeenInv
    <3>2. CASE i = s /\ pc = "exited" /\ Kernel \notin rejected
      BY <2>1, <3>2 DEF Tried, Tuned, Unfinished
    <3>3. CASE i = s /\ pc = "exited" /\ Kernel \in rejected
      <4>1. FirstOf(SolutionSpaces[s]) = {NoComb}
        BY <3>3 DEF OnceInv, Searched, FirstOf
      <4>2. kSeen = {NoComb}
        BY <2>1, <4>1 DEF SeenInv
      <4> QED
        BY <2>1, <3>3, <4>1, <4>2 DEF Tried, Tuned, Unfinished, Tuning
    <3> QED
      BY <2>1, <3>1, <3>2, <3>3
  <2>3. OnceFor(i)
    BY DEF OnceInv, InCombination
  <2> QED
    BY <2>2, <2>3 DEF OnceFor, ScoredFor, RefusedFor
<1> QED
  BY <1>1, <1>2, <1>3, TypeInductive, SeenInductive, RecordInductive, PTL DEF Spec
=============================================================================
