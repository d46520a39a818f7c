----------------------------- MODULE SearchSpace -----------------------------
(***************************************************************************)
(* AutoTune::SearchSpace (AutoTuning.h): the parameter space of a problem  *)
(* or of a solution configuration, and the odometer that walks it.         *)
(*                                                                         *)
(* A client builds the space with AddOneParam, measures the combination    *)
(* the space then stands at, and calls GetNexComb until it returns FAIL.   *)
(* GetNexComb calls itself once per parameter; its progress lives in the   *)
(* members searchParamIdx and moveCurrIdx, so each level of the recursion  *)
(* is a step of its own here.  Indices are 0-based as in the code:         *)
(* parameter i is searchParams[i + 1].                                     *)
(***************************************************************************)
EXTENDS Integers, Sequences

CONSTANTS
  ParamSpecs,   \* the T_SearchParam values clients pass to AddOneParam
  MaxParams,    \* bound on the parameters of a space
  Garbage,      \* what an uninitialised bool local may read as
  Unset         \* content of a member no constructor initialises

ASSUME SearchAssumption ==
  /\ MaxParams \in Nat \ {0}
  /\ Garbage \subseteq BOOLEAN /\ Garbage # {}
  /\ \A s \in ParamSpecs :
        /\ DOMAIN s = {"ValueArray", "MinValue", "MaxValue", "Step"}
        /\ s.ValueArray \in Seq(Int)
        /\ s.MinValue \in Int /\ s.MaxValue \in Int /\ s.Step \in Int

VARIABLES
  searchParams,    \* the parameter list
  searchParamIdx,  \* the parameter the running GetNexComb is at
  moveCurrIdx,     \* whether that parameter has to move
  getParamIdx,     \* cursor of GetOneParam
  phase,           \* where the client is: build, search, level (inside GetNexComb), done
  ret,             \* what the last call returned
  visited          \* history: the index combinations handed to the client

ssVars == <<searchParams, searchParamIdx, moveCurrIdx, getParamIdx, phase, ret, visited>>

ParamNum == Len(searchParams)
Positions == 1..ParamNum
ValueNum(p) == Len(p.ValueArray)
AtMax(p) == p.CurrIdx >= ValueNum(p) - 1

(* The combination a list of parameters stands at, and all it has.         *)
CombAt(params) == [i \in 1..Len(params) |-> params[i].CurrIdx]
CombsOf(params) ==
  {c \in [1..Len(params) -> UNION {0 .. ValueNum(params[i]) - 1 : i \in 1..Len(params)}] :
      \A i \in 1..Len(params) : c[i] < ValueNum(params[i])}

CurrComb == CombAt(searchParams)
Combs == CombsOf(searchParams)
-----------------------------------------------------------------------------
(* Length of the list generated from a range: C division truncates before  *)
(* ceil sees the quotient, and a quotient that is not positive is refused. *)
RangeLen(s) ==
  LET width == s.MaxValue - s.MinValue
  IN  IF width > 0 /\ s.Step > 0 THEN width \div s.Step
      ELSE IF width < 0 /\ s.Step < 0 THEN (-width) \div (-s.Step)
      ELSE 0

(* The generated list: the statement that should advance val has no effect. *)
RangeValues(s) == [i \in 1..RangeLen(s) |-> s.MinValue]

ValuesOf(s) == IF s.ValueArray = <<>> THEN RangeValues(s) ELSE s.ValueArray

NewParam(s) ==
  [ValueArray |-> ValuesOf(s), CurrIdx |-> 0, CurrValue |-> ValuesOf(s)[1],
   BestIdx |-> Unset, BestValue |-> Unset]
-----------------------------------------------------------------------------
Init ==
  /\ searchParams = <<>>
  /\ searchParamIdx = 0
  /\ moveCurrIdx = TRUE
  /\ getParamIdx = 0
  /\ phase = "build"
  /\ ret = Unset
  /\ visited = {}

AddOneParam(s) ==
  /\ phase = "build"
  /\ ParamNum < MaxParams
  /\ \/ /\ ValuesOf(s) # <<>>
        /\ searchParams' = Append(searchParams, NewParam(s))
        /\ ret' = "SUCCESS"
     \/ /\ ValuesOf(s) = <<>>
        /\ ret' = "FAIL"
        /\ UNCHANGED searchParams
  /\ UNCHANGED <<searchParamIdx, moveCurrIdx, getParamIdx, phase, visited>>

(* The client (RunOneSolutionConfig) takes the initial combination. *)
StartSearch ==
  /\ phase = "build"
  /\ ParamNum > 0
  /\ phase' = "search"
  /\ visited' = {CurrComb}
  /\ UNCHANGED <<searchParams, searchParamIdx, moveCurrIdx, getParamIdx, ret>>

(* GetNexComb() is called. *)
CallGetNexComb ==
  /\ phase = "search"
  /\ phase' = "level"
  /\ UNCHANGED <<searchParams, searchParamIdx, moveCurrIdx, getParamIdx, ret, visited>>

IsLast == searchParamIdx >= ParamNum - 1
(* Mutants: the end test forgets which parameter it is at, or is off by one. *)
ExhaustedAnywhere == AtMax(searchParams[searchParamIdx + 1]) /\ moveCurrIdx
ExhaustedNever ==
  IsLast /\ moveCurrIdx
  /\ searchParams[searchParamIdx + 1].CurrIdx > ValueNum(searchParams[searchParamIdx + 1]) - 1
Exhausted == IsLast /\ AtMax(searchParams[searchParamIdx + 1]) /\ moveCurrIdx

(* Mutant: the value is only read again when the index advances. *)
MovedIndexOnly(p) ==
  IF AtMax(p) THEN [p EXCEPT !.CurrIdx = 0]
  ELSE [p EXCEPT !.CurrIdx = @ + 1, !.CurrValue = p.ValueArray[p.CurrIdx + 2]]
(* One parameter moves to its next value, or back to its first one. *)
Moved(p) ==
  LET next == IF AtMax(p) THEN 0 ELSE p.CurrIdx + 1
  IN  [p EXCEPT !.CurrIdx = next, !.CurrValue = p.ValueArray[next + 1]]

MoveCurrent ==
  searchParams' = IF moveCurrIdx
                  THEN [searchParams EXCEPT ![searchParamIdx + 1] = Moved(@)]
                  ELSE searchParams

(* Mutant: the position is not taken back. *)
ResetWalkKeepsIdx == moveCurrIdx' = TRUE /\ UNCHANGED searchParamIdx
(* The members as every return of GetNexComb leaves them. *)
ResetWalk == searchParamIdx' = 0 /\ moveCurrIdx' = TRUE

(* The last parameter would have to move past its last value. *)
LevelExhausted ==
  /\ phase = "level"
  /\ Exhausted
  /\ ResetWalk
  /\ phase' = "done"
  /\ ret' = "FAIL"
  /\ UNCHANGED <<searchParams, getParamIdx, visited>>

(* The last parameter is reached: its combination is handed out. *)
LevelLast ==
  /\ phase = "level"
  /\ IsLast /\ ~Exhausted
  /\ MoveCurrent
  /\ ResetWalk
  /\ phase' = "search"
  /\ ret' = "SUCCESS"
  /\ visited' = visited \cup {CurrComb'}
  /\ UNCHANGED getParamIdx

(* Recursion into the next parameter.  moveNextIdx is only assigned when   *)
(* the current parameter moved: otherwise its content is garbage.          *)
LevelRecurse ==
  /\ phase = "level"
  /\ ~IsLast
  /\ MoveCurrent
  /\ searchParamIdx' = searchParamIdx + 1
  /\ \E moveNextIdx \in (IF moveCurrIdx THEN {AtMax(searchParams[searchParamIdx + 1])}
                                       ELSE Garbage) :
        moveCurrIdx' = moveNextIdx
  /\ UNCHANGED <<getParamIdx, phase, ret, visited>>

GetNexComb == LevelExhausted \/ LevelLast \/ LevelRecurse

(* Mutant: the loop stops one parameter early. *)
RecordAllButLast ==
  /\ phase = "search"
  /\ searchParams' = [i \in Positions |->
        IF i = ParamNum THEN searchParams[i]
        ELSE [searchParams[i] EXCEPT !.BestIdx = searchParams[i].CurrIdx,
                                     !.BestValue = searchParams[i].CurrValue]]
  /\ UNCHANGED <<searchParamIdx, moveCurrIdx, getParamIdx, phase, ret, visited>>

RecordBestComb ==
  /\ phase = "search"
  /\ searchParams' = [i \in Positions |->
        [searchParams[i] EXCEPT !.BestIdx = searchParams[i].CurrIdx,
                                !.BestValue = searchParams[i].CurrValue]]
  /\ UNCHANGED <<searchParamIdx, moveCurrIdx, getParamIdx, phase, ret, visited>>

(* Mutant: the cursor is not taken back after the last parameter. *)
GetOneParamPastEnd ==
  /\ phase \in {"search", "done"}
  /\ getParamIdx' = getParamIdx + 1
  /\ UNCHANGED <<searchParams, searchParamIdx, moveCurrIdx, phase, ret, visited>>

(* Returns parameter getParamIdx, or NULL after the last one. *)
GetOneParam ==
  /\ phase \in {"search", "done"}
  /\ getParamIdx' = IF getParamIdx >= ParamNum THEN 0 ELSE getParamIdx + 1
  /\ UNCHANGED <<searchParams, searchParamIdx, moveCurrIdx, phase, ret, visited>>

Build == \E s \in ParamSpecs : AddOneParam(s)
Search == StartSearch \/ CallGetNexComb \/ GetNexComb

Next == Build \/ Search \/ RecordBestComb \/ GetOneParam

Spec == Init /\ [][Next]_ssVars

(* The client loops until FAIL: RunOneSolutionConfig's while (true). *)
FairSpec == Spec /\ WF_ssVars(CallGetNexComb) /\ WF_ssVars(GetNexComb)
-----------------------------------------------------------------------------
ParamType ==
  [ValueArray : Seq(Int), CurrIdx : Nat, CurrValue : Int,
   BestIdx : Nat \cup {Unset}, BestValue : Int \cup {Unset}]

(* Types; every index points into its list, so neither ValueArray[CurrIdx] *)
(* nor searchParams[searchParamIdx] reads past an end in the code.         *)
TypeOK ==
  /\ searchParams \in Seq(ParamType)
  /\ ParamNum <= MaxParams
  /\ \A i \in Positions : searchParams[i].CurrIdx < ValueNum(searchParams[i])
  /\ searchParamIdx \in Nat
  /\ phase # "build" => searchParamIdx < ParamNum
  /\ moveCurrIdx \in BOOLEAN
  /\ getParamIdx \in 0..ParamNum
  /\ phase \in {"build", "search", "level", "done"}
  /\ ret \in {Unset, "SUCCESS", "FAIL"}
  /\ visited \subseteq Combs

(* The order of the walk: the first parameter turns fastest, so the        *)
(* highest position where two combinations differ decides.                 *)
Precedes(n, c, d) ==
  \E i \in 1..n : c[i] < d[i] /\ \A j \in i+1 .. n : c[j] = d[j]
UpTo(d) == {c \in Combs : ~Precedes(ParamNum, d, c)}

(* Inside GetNexComb with a move pending, the parameters below             *)
(* searchParamIdx have already wrapped: the combination the call started   *)
(* from still had them at their last value.                                *)
CallComb ==
  [i \in Positions |-> IF i <= searchParamIdx THEN ValueNum(searchParams[i]) - 1
                                              ELSE searchParams[i].CurrIdx]

(* What has been handed out is exactly the part of the space up to where   *)
(* the odometer stands, at every level of the recursion (GetNexComb).      *)
WalkInv ==
  /\ phase # "level" => searchParamIdx = 0 /\ moveCurrIdx
  /\ phase = "build" => visited = {}
  /\ phase = "search" => visited = UpTo(CurrComb)
  /\ phase = "level" /\ moveCurrIdx =>
        /\ visited = UpTo(CallComb)
        /\ \A i \in 1..searchParamIdx : searchParams[i].CurrIdx = 0
  /\ phase = "level" /\ ~moveCurrIdx => visited = UpTo(CurrComb) \ {CurrComb}
  /\ phase = "done" => visited = Combs

(* The value a kernel writer reads is the one the index stands for, also   *)
(* in the middle of a walk and after the search (GetNexComb, AddOneParam). *)
ValueFollowsIndex ==
  \A i \in Positions :
     LET p == searchParams[i]
     IN  /\ p.CurrValue = p.ValueArray[p.CurrIdx + 1]
         /\ p.BestIdx # Unset => p.BestValue = p.ValueArray[p.BestIdx + 1]

(* What RecordBestComb keeps is one combination as a whole, and one that   *)
(* was handed out: never a mixture of two.                                 *)
BestWasVisited ==
  \/ \A i \in Positions : searchParams[i].BestIdx = Unset
  \/ [i \in Positions |-> searchParams[i].BestIdx] \in visited

(* The end of the search is announced only when every combination has been *)
(* handed out (AutoTuning.h:84, "traversal complete").                     *)
FinishedMeansAll == phase = "done" => visited = Combs

ValuesAt(c) == [i \in Positions |-> searchParams[i].ValueArray[c[i] + 1]]

(* A successful GetNexComb yields a new combination of parameter values    *)
(* (AutoTuning.h:77, "get a new parameter combination").                   *)
NewCombination ==
  [][phase = "level" /\ phase' = "search" =>
       ValuesAt(CurrComb)' \notin {ValuesAt(c) : c \in visited}]_ssVars

(* The odometer is an enumeration of the space (Enumeration.tla).          *)
Enum == INSTANCE Enumeration
          WITH None <- {},
               space <- IF phase = "build" THEN {} ELSE Combs,
               seen <- visited,
               finished <- phase = "done"

(* Safety part: no combination twice, no end before the last one.          *)
EnumeratesSpace == Enum!Safety
(* Liveness part: a client that keeps calling GetNexComb is told FAIL.     *)
SearchEnds == Enum!Ends
==============================================================================
