-------------------------- MODULE SearchSpaceProofs --------------------------
(***************************************************************************)
(* The odometer of AutoTuning.h enumerates its space, for any parameters   *)
(* and any number of them.                                                 *)
(***************************************************************************)
EXTENDS SearchSpace, FiniteSets, FiniteSetTheorems, WellFoundedInduction, TLAPS

LEMMA NextNat ==
  ASSUME NEW a \in Nat, NEW b \in Nat, a < b, ~(a + 1 < b)
  PROVE  b = a + 1
OBVIOUS

(* A set of positions that is not empty has a last one: the least tail     *)
(* x..n in the ordering by inclusion starts at it.                         *)
LEMMA LastOf ==
  ASSUME NEW n \in Nat, NEW T \in SUBSET (1..n), T # {}
  PROVE  \E x \in T : \A y \in T : y <= x
<1> DEFINE R == StrictSubsetOrdering(1..n)
           S == FiniteSubsetsOf(1..n)
           U == {x..n : x \in T}
<1>1. IsFiniteSet(1..n)
  BY FS_Interval
<1>2. U \subseteq S
  BY <1>1, FS_Subset DEF FiniteSubsetsOf
<1>3. IsWellFoundedOn(R, S)
  BY FS_StrictSubsetOrderingWellFounded
<1>4. U # {}
  OBVIOUS
<1>5. PICK u \in U : \A v \in U : <<v, u>> \notin R
  <2> HIDE DEF R, S, U
  <2> QED BY <1>2, <1>3, <1>4, WFMin
<1>6. PICK x \in T : u = x..n
  BY <1>5
<1>7. ASSUME NEW y \in T, x < y PROVE FALSE
  <2>1. (y..n) \subseteq (x..n) /\ (y..n) # (x..n)
    BY <1>7
  <2>2. <<y..n, x..n>> \in R
    BY <2>1 DEF StrictSubsetOrdering
  <2> QED BY <2>2, <1>5, <1>6
<1> QED BY <1>7
-----------------------------------------------------------------------------
(* Lists of values and the records built from them.                        *)
LEMMA ValuesType ==
  ASSUME NEW s \in ParamSpecs
  PROVE  /\ ValuesOf(s) \in Seq(Int)
         /\ ValuesOf(s) # <<>> => Len(ValuesOf(s)) > 0 /\ NewParam(s) \in ParamType
<1>0. /\ s.ValueArray \in Seq(Int)
      /\ s.MinValue \in Int /\ s.MaxValue \in Int /\ s.Step \in Int
  BY SearchAssumption DEF SearchAssumption
<1>1. RangeLen(s) \in Nat
  <2> DEFINE w == s.MaxValue - s.MinValue
  <2>1. \A a \in Int, b \in Int : a > 0 /\ b > 0 => a \div b \in Nat
    OBVIOUS
  <2>2. w \in Int /\ -w \in Int /\ -s.Step \in Int
    BY <1>0
  <2>3. CASE w > 0 /\ s.Step > 0
    <3>1. w \div s.Step \in Nat
      BY <1>0, <2>1, <2>2, <2>3
    <3> QED BY <2>3, <3>1 DEF RangeLen
  <2>4. CASE w < 0 /\ s.Step < 0
    <3>1. (-w) \div (-s.Step) \in Nat
      <4>1. -w > 0 /\ -s.Step > 0
        BY <1>0, <2>2, <2>4
      <4> QED BY <2>1, <2>2, <4>1
    <3> QED BY <1>0, <2>2, <2>4, <3>1 DEF RangeLen
  <2> QED BY <2>3, <2>4 DEF RangeLen
<1>2. RangeValues(s) \in Seq(Int)
  BY <1>0, <1>1 DEF RangeValues
<1>3. ValuesOf(s) \in Seq(Int)
  BY <1>0, <1>2 DEF ValuesOf
<1>4. ASSUME ValuesOf(s) # <<>>
      PROVE  Len(ValuesOf(s)) > 0 /\ NewParam(s) \in ParamType
  <2>1. Len(ValuesOf(s)) > 0 /\ ValuesOf(s)[1] \in Int
    BY <1>3, <1>4
  <2> QED BY <1>3, <2>1 DEF NewParam, ParamType
<1> QED BY <1>3, <1>4

(* The combinations of a list, without the detour TLC needs to enumerate    *)
(* them; they depend on the lengths of the value arrays only.              *)
LEMMA CombsAre ==
  ASSUME NEW params \in Seq(ParamType)
  PROVE  \A c : c \in CombsOf(params) <=>
                   /\ c \in [1..Len(params) -> Nat]
                   /\ \A i \in 1..Len(params) : c[i] < ValueNum(params[i])
<1> DEFINE W == UNION {0 .. ValueNum(params[i]) - 1 : i \in 1..Len(params)}
<1>1. \A i \in 1..Len(params) : ValueNum(params[i]) \in Nat
  BY DEF ParamType, ValueNum
<1>2. W \subseteq Nat
  BY <1>1
<1>3. ASSUME NEW c \in [1..Len(params) -> Nat],
             \A i \in 1..Len(params) : c[i] < ValueNum(params[i])
      PROVE  c \in [1..Len(params) -> W]
  <2>1. ASSUME NEW i \in 1..Len(params) PROVE c[i] \in W
    <3>1. c[i] \in 0 .. ValueNum(params[i]) - 1
      BY <1>1, <1>3
    <3> QED BY <3>1
  <2> QED BY <2>1
<1> QED BY <1>2, <1>3 DEF CombsOf

LEMMA SameCombs ==
  ASSUME NEW p \in Seq(ParamType), NEW q \in Seq(ParamType),
         Len(p) = Len(q),
         \A i \in 1..Len(p) : p[i].ValueArray = q[i].ValueArray
  PROVE  CombsOf(p) = CombsOf(q)
BY CombsAre DEF ValueNum

(* One level of GetNexComb changes where one parameter stands, nothing     *)
(* else, and leaves it inside its list.                                    *)
LEMMA MovedType ==
  ASSUME NEW p \in ParamType, p.CurrIdx < ValueNum(p)
  PROVE  /\ Moved(p) \in ParamType
         /\ Moved(p).ValueArray = p.ValueArray
         /\ Moved(p).CurrIdx = IF AtMax(p) THEN 0 ELSE p.CurrIdx + 1
         /\ Moved(p).CurrIdx < ValueNum(p)
<1>1. /\ p.CurrIdx \in Nat
      /\ p.ValueArray \in Seq(Int)
      /\ ValueNum(p) \in Nat
  BY DEF ParamType, ValueNum
<1> DEFINE next == IF AtMax(p) THEN 0 ELSE p.CurrIdx + 1
<1>2. next \in Nat /\ next < ValueNum(p)
  BY <1>1 DEF AtMax
<1>3. p.ValueArray[next + 1] \in Int
  BY <1>1, <1>2 DEF ValueNum
<1>4. Moved(p) = [p EXCEPT !.CurrIdx = next, !.CurrValue = p.ValueArray[next + 1]]
  BY DEF Moved
<1> QED BY <1>2, <1>3, <1>4 DEF ParamType

LEMMA MoveCurrentType ==
  ASSUME TypeOK, phase = "level", MoveCurrent
  PROVE  /\ searchParams' \in Seq(ParamType)
         /\ Len(searchParams') = ParamNum
         /\ \A i \in Positions :
               /\ searchParams'[i].ValueArray = searchParams[i].ValueArray
               /\ searchParams'[i].CurrIdx < ValueNum(searchParams[i])
               /\ searchParams'[i].CurrIdx =
                     IF i = searchParamIdx + 1 /\ moveCurrIdx
                     THEN IF AtMax(searchParams[i]) THEN 0 ELSE searchParams[i].CurrIdx + 1
                     ELSE searchParams[i].CurrIdx
         /\ CombsOf(searchParams') = Combs
<1> DEFINE k == searchParamIdx + 1
<1>1. k \in Positions
  BY DEF TypeOK, Positions, ParamNum
<1>2. searchParams[k] \in ParamType /\ searchParams[k].CurrIdx < ValueNum(searchParams[k])
  BY <1>1 DEF TypeOK, Positions, ParamNum
<1>3. /\ searchParams' \in Seq(ParamType)
      /\ Len(searchParams') = ParamNum
      /\ \A i \in Positions :
            searchParams'[i] = IF i = k /\ moveCurrIdx THEN Moved(searchParams[i])
                               ELSE searchParams[i]
  <2>1. Moved(searchParams[k]) \in ParamType
    BY <1>2, MovedType
  <2> QED BY <1>1, <2>1 DEF MoveCurrent, TypeOK, Positions, ParamNum
<1>4. \A i \in Positions :
        /\ searchParams'[i].ValueArray = searchParams[i].ValueArray
        /\ searchParams'[i].CurrIdx < ValueNum(searchParams[i])
        /\ searchParams'[i].CurrIdx =
              IF i = k /\ moveCurrIdx
              THEN IF AtMax(searchParams[i]) THEN 0 ELSE searchParams[i].CurrIdx + 1
              ELSE searchParams[i].CurrIdx
  BY <1>2, <1>3, MovedType DEF TypeOK
<1>5. CombsOf(searchParams') = Combs
  BY <1>3, <1>4, SameCombs DEF Combs, TypeOK, Positions, ParamNum
<1> QED BY <1>3, <1>4, <1>5
-----------------------------------------------------------------------------
(* Type correctness.  visited only fits Combs because no parameter is added *)
(* once something was handed out, hence the second conjunct.               *)
TypeInv == TypeOK /\ (phase = "build" => visited = {} /\ searchParamIdx = 0)

LEMMA CurrCombType ==
  ASSUME NEW p \in Seq(ParamType), \A i \in 1..Len(p) : p[i].CurrIdx < ValueNum(p[i])
  PROVE  CombAt(p) \in CombsOf(p)
<1>1. CombAt(p) \in [1..Len(p) -> Nat]
  <2>1. ASSUME NEW i \in 1..Len(p) PROVE p[i].CurrIdx \in Nat
    <3>1. p[i] \in ParamType
      OBVIOUS
    <3> QED BY <3>1 DEF ParamType
  <2> QED BY <2>1 DEF CombAt
<1>2. \A i \in 1..Len(p) : CombAt(p)[i] < ValueNum(p[i])
  BY DEF CombAt
<1> QED BY <1>1, <1>2, CombsAre

(* RecordBestComb writes the best fields and nothing else.                 *)
LEMMA RecordType ==
  ASSUME TypeOK, RecordBestComb
  PROVE  /\ searchParams' \in Seq(ParamType)
         /\ Len(searchParams') = ParamNum
         /\ \A i \in Positions : /\ searchParams'[i].ValueArray = searchParams[i].ValueArray
                                  /\ searchParams'[i].CurrIdx = searchParams[i].CurrIdx
<1> USE DEF Positions, ParamNum
<1> DEFINE q(i) == [searchParams[i] EXCEPT !.BestIdx = searchParams[i].CurrIdx,
                                           !.BestValue = searchParams[i].CurrValue]
<1>1. ASSUME NEW i \in Positions
      PROVE  /\ q(i) \in ParamType
             /\ q(i).ValueArray = searchParams[i].ValueArray
             /\ q(i).CurrIdx = searchParams[i].CurrIdx
  <2>1. searchParams[i] \in ParamType
    BY TypeOK DEF TypeOK
  <2> QED BY <2>1 DEF ParamType
<1>2. searchParams' = [i \in Positions |-> q(i)]
  BY RecordBestComb DEF RecordBestComb
<1>3. ParamNum \in Nat
  BY TypeOK DEF TypeOK
<1> HIDE DEF q
<1> QED BY <1>1, <1>2, <1>3

LEMMA TypeInit == Init => TypeInv
BY SearchAssumption DEF Init, TypeInv, TypeOK, ParamNum, Positions, SearchAssumption

LEMMA TypeStep == TypeInv /\ [Next]_ssVars => TypeInv'
<1> SUFFICES ASSUME TypeInv, [Next]_ssVars PROVE TypeInv'
  OBVIOUS
<1> USE DEF TypeInv, ParamNum, Positions
<1>1. ASSUME NEW s \in ParamSpecs, AddOneParam(s) PROVE TypeInv'
  <2>1. CASE ValuesOf(s) # <<>> /\ searchParams' = Append(searchParams, NewParam(s))
    <3>1. NewParam(s) \in ParamType /\ NewParam(s).CurrIdx < ValueNum(NewParam(s))
      BY <2>1, ValuesType DEF NewParam, ValueNum
    <3>2. /\ searchParams' \in Seq(ParamType)
          /\ Len(searchParams') = ParamNum + 1
          /\ \A i \in 1..Len(searchParams') :
                searchParams'[i] = IF i = ParamNum + 1 THEN NewParam(s) ELSE searchParams[i]
      BY <2>1, <3>1 DEF TypeOK
    <3>3. \A i \in 1..Len(searchParams') :
             searchParams'[i].CurrIdx < ValueNum(searchParams'[i])
      BY <3>1, <3>2 DEF TypeOK
    <3> QED BY <1>1, <3>2, <3>3, SearchAssumption DEF AddOneParam, TypeOK, SearchAssumption
  <2>2. CASE UNCHANGED searchParams
    BY <1>1, <2>2 DEF AddOneParam, TypeOK, Combs
  <2> QED BY <1>1, <2>1, <2>2 DEF AddOneParam
<1>2. CASE StartSearch
  <2>1. CurrComb \in Combs
    BY CurrCombType DEF TypeOK, CurrComb, Combs
  <2> QED BY <1>2, <2>1 DEF StartSearch, TypeOK, Combs
<1>3. CASE CallGetNexComb
  BY <1>3 DEF CallGetNexComb, TypeOK, Combs
<1>4. CASE LevelExhausted
  BY <1>4 DEF LevelExhausted, ResetWalk, TypeOK, Combs
<1>5. CASE LevelLast
  <2>1. MoveCurrent /\ phase = "level"
    BY <1>5 DEF LevelLast
  <2>2. CombAt(searchParams)' \in CombsOf(searchParams')
    BY <2>1, MoveCurrentType, CurrCombType DEF ValueNum, CombAt
  <2>3. visited' \subseteq Combs'
    BY <1>5, <2>1, <2>2, MoveCurrentType DEF LevelLast, TypeOK, CurrComb, Combs
  <2> QED BY <1>5, <2>1, <2>3, MoveCurrentType DEF LevelLast, ResetWalk, TypeOK, ValueNum
<1>6. CASE LevelRecurse
  <2>1. MoveCurrent /\ phase = "level"
    BY <1>6 DEF LevelRecurse
  <2>2. moveCurrIdx' \in BOOLEAN
    <3> DEFINE atMax == AtMax(searchParams[searchParamIdx + 1])
    <3>1. CASE moveCurrIdx
      <4>1. moveCurrIdx' = atMax
        BY <1>6, <3>1 DEF LevelRecurse
      <4>2. atMax \in BOOLEAN
        BY DEF AtMax
      <4> QED BY <4>1, <4>2
    <3>2. CASE ~moveCurrIdx
      <4>1. moveCurrIdx' \in Garbage
        BY <1>6, <3>2 DEF LevelRecurse
      <4> QED BY <4>1, SearchAssumption DEF SearchAssumption
    <3> QED BY <3>1, <3>2
  <2>3. visited' \subseteq Combs'
    BY <1>6, <2>1, MoveCurrentType DEF LevelRecurse, TypeOK, Combs
  <2> QED BY <1>6, <2>1, <2>2, <2>3, MoveCurrentType DEF LevelRecurse, IsLast, TypeOK, ValueNum
<1>7. CASE RecordBestComb
  <2>1. Combs' = Combs
    BY <1>7, RecordType, SameCombs DEF TypeOK, Combs
  <2> QED BY <1>7, <2>1, RecordType DEF RecordBestComb, TypeOK, ValueNum
<1>8. CASE GetOneParam
  BY <1>8 DEF GetOneParam, TypeOK, Combs
<1>9. CASE UNCHANGED ssVars
  BY <1>9 DEF ssVars, TypeOK, Combs
<1> QED BY <1>1, <1>2, <1>3, <1>4, <1>5, <1>6, <1>7, <1>8, <1>9
        DEF Next, Build, Search, GetNexComb

(* Every index the odometer or a client uses stays inside its list.        *)
THEOREM TypeCorrect == Spec => []TypeOK
<1>1. Spec => []TypeInv
  BY TypeInit, TypeStep, PTL DEF Spec
<1>2. TypeInv => TypeOK
  BY DEF TypeInv
<1> QED BY <1>1, <1>2, PTL
-----------------------------------------------------------------------------
(* The carry of the odometer: the positions below m wrap and m moves up by *)
(* one.                                                                    *)
Carries(n, num, m, from, to) ==
  /\ \A j \in 1 .. m-1 : from[j] = num[j] - 1 /\ to[j] = 0
  /\ to[m] = from[m] + 1
  /\ \A j \in m+1 .. n : to[j] = from[j]
Below(n, c, num) == \A i \in 1..n : c[i] < num[i]

(* It goes to the next combination of the order: the combinations up to    *)
(* the old one are those before the new one.                               *)
LEMMA CarryIsSuccessor ==
  ASSUME NEW n \in Nat, NEW num \in [1..n -> Nat], NEW m \in 1..n,
         NEW from \in [1..n -> Nat], NEW to \in [1..n -> Nat],
         Carries(n, num, m, from, to),
         NEW c \in [1..n -> Nat], Below(n, c, num)
  PROVE  ~Precedes(n, from, c) <=> ~Precedes(n, to, c) /\ c # to
<1> USE DEF Carries, Below
<1>1. ASSUME Precedes(n, to, c) PROVE Precedes(n, from, c)
  <2>1. PICK i \in 1..n : to[i] < c[i] /\ \A j \in i+1 .. n : to[j] = c[j]
    BY <1>1 DEF Precedes
  <2>2. CASE i > m
    <3>1. from[i] < c[i] /\ \A j \in i+1 .. n : from[j] = c[j]
      BY <2>1, <2>2
    <3> QED BY <3>1 DEF Precedes
  <2>3. CASE i <= m
    <3>1. to[m] <= c[m]
      <4>1. CASE i = m
        BY <2>1, <4>1
      <4>2. CASE i < m
        <5>1. m \in i+1 .. n
          BY <4>2
        <5> QED BY <2>1, <5>1
      <4> QED BY <2>3, <4>1, <4>2
    <3>2. from[m] < c[m]
      BY <3>1
    <3>3. ASSUME NEW j \in m+1 .. n PROVE from[j] = c[j]
      <4>1. j \in i+1 .. n
        BY <2>3
      <4> QED BY <2>1, <4>1
    <3> QED BY <3>2, <3>3 DEF Precedes
  <2> QED BY <2>2, <2>3
<1>2. ASSUME c = to PROVE Precedes(n, from, c)
  BY <1>2 DEF Precedes
<1>3. ASSUME Precedes(n, from, c), c # to PROVE Precedes(n, to, c)
  <2>1. PICK i \in 1..n : from[i] < c[i] /\ \A j \in i+1 .. n : from[j] = c[j]
    BY <1>3 DEF Precedes
  <2>2. i >= m
    BY <2>1
  <2>3. CASE i > m
    <3>1. to[i] < c[i] /\ \A j \in i+1 .. n : to[j] = c[j]
      BY <2>1, <2>3
    <3> QED BY <3>1 DEF Precedes
  <2>4. CASE i = m /\ to[m] < c[m]
    <3>1. \A j \in m+1 .. n : to[j] = c[j]
      BY <2>1, <2>4
    <3> QED BY <2>4, <3>1 DEF Precedes
  <2>5. CASE i = m /\ ~(to[m] < c[m])
    <3> DEFINE D == {j \in 1..n : c[j] # to[j]}
    <3>1. D # {}
      <4>1. \E j \in 1..n : c[j] # to[j]
        BY <1>3
      <4> QED BY <4>1
    <3>2. PICK x \in D : \A y \in D : y <= x
      BY <3>1, LastOf
    <3>3. \A j \in m .. n : c[j] = to[j]
      <4>1. c[m] = to[m]
        <5>1. from[m] < c[m] /\ ~(to[m] < c[m])
          BY <2>1, <2>5
        <5>2. from[m] \in Nat /\ c[m] \in Nat /\ to[m] = from[m] + 1
          OBVIOUS
        <5>3. c[m] = from[m] + 1
          BY <5>1, <5>2, NextNat
        <5> QED BY <5>2, <5>3
      <4>2. ASSUME NEW j \in m+1 .. n PROVE c[j] = to[j]
        BY <2>1, <2>5
      <4>3. ASSUME NEW j \in m .. n PROVE c[j] = to[j]
        <5>1. j = m \/ j \in m+1 .. n
          OBVIOUS
        <5> QED BY <4>1, <4>2, <5>1
      <4> QED BY <4>3
    <3>4. x \in 1 .. m-1
      BY <3>2, <3>3
    <3>5. to[x] < c[x]
      BY <3>2, <3>4
    <3>6. \A j \in x+1 .. n : to[j] = c[j]
      BY <3>2, <3>4
    <3> QED BY <3>4, <3>5, <3>6 DEF Precedes
  <2> QED BY <2>2, <2>3, <2>4, <2>5
<1> QED BY <1>1, <1>2, <1>3

(* Nothing follows the combination that has every parameter at its end.    *)
LEMMA NothingAfterLast ==
  ASSUME NEW n \in Nat, NEW num \in [1..n -> Nat], NEW d \in [1..n -> Nat],
         \A i \in 1..n : d[i] = num[i] - 1,
         NEW c \in [1..n -> Nat], \A i \in 1..n : c[i] < num[i]
  PROVE  ~Precedes(n, d, c)
BY DEF Precedes
-----------------------------------------------------------------------------
(* An uninitialised moveNextIdx is only ever read with three parameters or *)
(* more: there the build must be one in which it reads as FALSE.           *)
NoSpuriousMove == Garbage = {FALSE} \/ MaxParams <= 2

(* The inductive invariant: the search starts where every parameter has    *)
(* its first value, and a move no longer pending means that some parameter *)
(* below has moved.                                                        *)
Inv ==
  /\ TypeInv
  /\ WalkInv
  /\ phase = "build" => \A i \in Positions : searchParams[i].CurrIdx = 0
  /\ phase = "level" /\ ~moveCurrIdx => searchParamIdx > 0

(* The shape of the odometer's data, as the order lemmas want it.          *)
NumAt(p) == [i \in 1..Len(p) |-> ValueNum(p[i])]

LEMMA Shape ==
  ASSUME TypeOK
  PROVE  /\ ParamNum \in Nat
         /\ NumAt(searchParams) \in [Positions -> Nat]
         /\ \A i \in Positions : /\ NumAt(searchParams)[i] = ValueNum(searchParams[i])
                                  /\ searchParams[i].CurrIdx \in Nat
                                  /\ searchParams[i].CurrIdx < ValueNum(searchParams[i])
         /\ CurrComb \in [Positions -> Nat]
         /\ CallComb \in [Positions -> Nat]
<1> USE DEF Positions, ParamNum
<1>1. ASSUME NEW i \in Positions
      PROVE  /\ ValueNum(searchParams[i]) \in Nat
             /\ searchParams[i].CurrIdx \in Nat
             /\ searchParams[i].CurrIdx < ValueNum(searchParams[i])
  <2>1. searchParams[i] \in ParamType /\ searchParams[i].CurrIdx < ValueNum(searchParams[i])
    BY DEF TypeOK
  <2> QED BY <2>1 DEF ParamType, ValueNum
<1>2. searchParamIdx \in Nat /\ ParamNum \in Nat
  BY DEF TypeOK
<1>3. CurrComb \in [Positions -> Nat]
  BY <1>1 DEF CurrComb, CombAt
<1>4. CallComb \in [Positions -> Nat]
  BY <1>1, <1>2 DEF CallComb
<1> QED BY <1>1, <1>2, <1>3, <1>4 DEF NumAt

(* LevelLast and LevelRecurse when the pending move does not carry: what   *)
(* was handed out is now everything before the combination reached.        *)
LEMMA MoveWithoutCarry ==
  ASSUME Inv, phase = "level", moveCurrIdx, MoveCurrent,
         ~AtMax(searchParams[searchParamIdx + 1])
  PROVE  visited = {c \in Combs : /\ ~Precedes(ParamNum, CombAt(searchParams'), c)
                                  /\ c # CombAt(searchParams')}
<1> DEFINE n == ParamNum
           m == searchParamIdx + 1
           from == CallComb
           to == CombAt(searchParams')
           num == NumAt(searchParams)
<1>1. TypeOK /\ WalkInv
  BY DEF Inv, TypeInv
<1>2. m \in 1..n /\ n \in Nat /\ searchParamIdx \in Nat
  BY <1>1 DEF TypeOK, ParamNum
<1>3. num \in [1..n -> Nat] /\ from \in [1..n -> Nat]
  BY <1>1, Shape DEF Positions
<1>4. Len(searchParams') = n /\ \A i \in 1..n :
        searchParams'[i].CurrIdx = IF i = m THEN searchParams[i].CurrIdx + 1
                                            ELSE searchParams[i].CurrIdx
  BY <1>1, MoveCurrentType DEF Positions
<1>5. \A i \in 1..n : searchParams[i].CurrIdx \in Nat
  BY <1>1, Shape DEF Positions
<1>6. /\ to \in [1..n -> Nat]
      /\ \A i \in 1..n : to[i] = IF i = m THEN searchParams[i].CurrIdx + 1
                                           ELSE searchParams[i].CurrIdx
  BY <1>4, <1>5 DEF CombAt
<1>7. \A i \in 1..n : from[i] = IF i < m THEN num[i] - 1 ELSE searchParams[i].CurrIdx
  BY <1>1, <1>2, Shape DEF CallComb, Positions
<1>8. \A j \in 1 .. m-1 : from[j] = num[j] - 1 /\ to[j] = 0
  BY <1>1, <1>2, <1>6, <1>7 DEF WalkInv
<1>9. to[m] = from[m] + 1 /\ \A j \in m+1 .. n : to[j] = from[j]
  BY <1>2, <1>6, <1>7
<1>10. ASSUME NEW c \in Combs
       PROVE  ~Precedes(n, from, c) <=> ~Precedes(n, to, c) /\ c # to
  <2>1. c \in [1..n -> Nat] /\ \A i \in 1..n : c[i] < num[i]
    BY <1>1, CombsAre, Shape DEF TypeOK, Combs, ParamNum, Positions
  <2>2. n \in Nat /\ m \in 1..n
    BY <1>2
  <2>3. Carries(n, num, m, from, to) /\ Below(n, c, num)
    BY <1>8, <1>9, <2>1 DEF Carries, Below
  <2>4. num \in [1..n -> Nat] /\ from \in [1..n -> Nat] /\ to \in [1..n -> Nat]
    BY <1>3, <1>6
  <2> HIDE DEF n, m, from, to, num
  <2> QED BY <2>1, <2>2, <2>3, <2>4, CarryIsSuccessor
<1>11. visited = UpTo(from)
  BY <1>1 DEF WalkInv
<1> QED BY <1>10, <1>11 DEF UpTo

(* No combination precedes itself, and the initial one precedes the rest.  *)
LEMMA PrecedesIrreflexive ==
  ASSUME NEW n \in Nat, NEW c \in [1..n -> Nat]
  PROVE  ~Precedes(n, c, c)
BY DEF Precedes

LEMMA ZeroIsFirst ==
  ASSUME NEW n \in Nat, NEW d \in [1..n -> Nat], \A i \in 1..n : d[i] = 0,
         NEW c \in [1..n -> Nat], c # d
  PROVE  Precedes(n, d, c)
<1> DEFINE D == {j \in 1..n : c[j] # d[j]}
<1>1. \E j \in 1..n : c[j] # d[j]
  OBVIOUS
<1>2. D # {}
  BY <1>1
<1>3. PICK x \in D : \A y \in D : y <= x
  BY <1>2, LastOf
<1>4. d[x] < c[x]
  BY <1>3
<1>5. \A j \in x+1 .. n : d[j] = c[j]
  BY <1>3
<1> QED BY <1>3, <1>4, <1>5 DEF Precedes

(* The combination the last level hands out is a new one, and everything   *)
(* before it in the order was handed out already.                          *)
LEMMA LastStep ==
  ASSUME Inv, LevelLast
  PROVE  /\ Combs' = Combs /\ ParamNum' = ParamNum
         /\ CurrComb' \in Combs /\ CurrComb' \in [Positions -> Nat]
         /\ visited = {c \in Combs : ~Precedes(ParamNum, CurrComb', c) /\ c # CurrComb'}
<1>0. TypeOK /\ TypeInv /\ WalkInv
  BY DEF Inv, TypeInv
<1> USE DEF Positions, ParamNum
<1>1. MoveCurrent /\ phase = "level"
  BY LevelLast DEF LevelLast
<1>2. CurrComb' \in Combs' /\ CurrComb' \in [Positions -> Nat] /\ ParamNum \in Nat
  <2>1. TypeOK' /\ ParamNum' = ParamNum
    <3>1. TypeInv'
      BY LevelLast, <1>0, TypeStep DEF Next, Search, GetNexComb
    <3> QED BY <1>0, <1>1, <3>1, MoveCurrentType DEF TypeInv
  <2>2. CombAt(searchParams') \in CombsOf(searchParams')
    BY <2>1, CurrCombType DEF TypeOK
  <2>3. CombAt(searchParams') \in [1..Len(searchParams') -> Nat]
    BY <2>1, <2>2, CombsAre DEF TypeOK
  <2> QED BY <1>0, <2>1, <2>2, <2>3, Shape DEF CurrComb, Combs, CombAt
<1>3. Combs' = Combs /\ ParamNum' = ParamNum
  BY <1>0, <1>1, MoveCurrentType DEF Combs
<1>4. visited = {c \in Combs : ~Precedes(ParamNum, CurrComb', c) /\ c # CurrComb'}
  <2>1. CASE moveCurrIdx
    <3>1. ~AtMax(searchParams[searchParamIdx + 1])
      BY LevelLast, <2>1 DEF LevelLast, Exhausted
    <3> QED BY <1>1, <2>1, <3>1, MoveWithoutCarry DEF CurrComb, CombAt
  <2>2. CASE ~moveCurrIdx
    <3>1. CurrComb' = CurrComb
      BY <1>1, <2>2 DEF MoveCurrent, CurrComb, CombAt
    <3> QED BY <1>0, <1>1, <2>2, <3>1 DEF WalkInv, UpTo
  <2> QED BY <2>1, <2>2
<1> QED BY <1>2, <1>3, <1>4

LEMMA WalkInit == Init => Inv
BY TypeInit DEF Init, Inv, WalkInv, Positions, ParamNum

LEMMA WalkStep ==
  ASSUME NoSpuriousMove, Inv, [Next]_ssVars
  PROVE  Inv'
<1>0. TypeInv' /\ TypeOK /\ TypeInv /\ WalkInv
  BY TypeStep DEF Inv, TypeInv
<1> USE DEF Positions, ParamNum
<1>1. ASSUME NEW s \in ParamSpecs, AddOneParam(s) PROVE Inv'
  <2>1. phase = "build" /\ phase' = "build"
    BY <1>1 DEF AddOneParam
  <2>2. WalkInv'
    BY <1>0, <1>1, <2>1 DEF AddOneParam, WalkInv
  <2>3. \A i \in Positions' : searchParams'[i].CurrIdx = 0
    <3>1. CASE searchParams' = Append(searchParams, NewParam(s))
      <4>1. ParamNum \in Nat /\ NewParam(s).CurrIdx = 0
        BY <1>0 DEF TypeOK, NewParam
      <4> QED BY <1>0, <2>1, <3>1, <4>1 DEF Inv, TypeOK
    <3>2. CASE UNCHANGED searchParams
      BY <2>1, <3>2 DEF Inv
    <3> QED BY <1>1, <3>1, <3>2 DEF AddOneParam
  <2> QED BY <1>0, <2>1, <2>2, <2>3 DEF Inv
<1>2. CASE StartSearch
  <2>1. \A i \in Positions : CurrComb[i] = 0
    BY <1>2 DEF StartSearch, Inv, CurrComb, CombAt
  <2>2. CurrComb \in Combs /\ CurrComb \in [Positions -> Nat] /\ ParamNum \in Nat
    BY <1>0, Shape, CurrCombType DEF TypeOK, CurrComb, Combs
  <2>3. \A c \in Combs : c \in [Positions -> Nat]
    BY <1>0, CombsAre DEF TypeOK, Combs
  <2>4. UpTo(CurrComb) = {CurrComb}
    BY <2>1, <2>2, <2>3, ZeroIsFirst, PrecedesIrreflexive DEF UpTo
  <2>5. UpTo(CurrComb)' = UpTo(CurrComb)
    BY <1>2 DEF StartSearch, UpTo, Combs, CurrComb, CombAt
  <2>6. WalkInv'
    BY <1>0, <1>2, <2>4, <2>5 DEF StartSearch, WalkInv
  <2> QED BY <1>0, <1>2, <2>6 DEF StartSearch, Inv
<1>3. CASE CallGetNexComb
  <2>1. searchParamIdx = 0 /\ moveCurrIdx /\ visited = UpTo(CurrComb)
    BY <1>0, <1>3 DEF CallGetNexComb, WalkInv
  <2>2. CallComb = CurrComb
    <3>1. \A i \in Positions : ~(i <= searchParamIdx)
      BY <2>1
    <3> QED BY <3>1 DEF CallComb, CurrComb, CombAt
  <2>3. UpTo(CallComb)' = UpTo(CallComb)
    BY <1>3 DEF CallGetNexComb, UpTo, CallComb, Combs
  <2>4. WalkInv'
    BY <1>3, <2>1, <2>2, <2>3 DEF CallGetNexComb, WalkInv
  <2> QED BY <1>0, <1>3, <2>1, <2>4 DEF CallGetNexComb, Inv
<1>4. CASE LevelExhausted
  <2>1. moveCurrIdx /\ phase = "level" /\ searchParamIdx + 1 = ParamNum
    BY <1>0, <1>4 DEF LevelExhausted, Exhausted, IsLast, TypeOK
  <2>2. \A i \in Positions : CallComb[i] = NumAt(searchParams)[i] - 1
    BY <1>0, <1>4, <2>1, Shape DEF LevelExhausted, Exhausted, AtMax, CallComb, TypeOK
  <2>3. ASSUME NEW c \in Combs PROVE ~Precedes(ParamNum, CallComb, c)
    <3>1. c \in [Positions -> Nat] /\ \A i \in Positions : c[i] < NumAt(searchParams)[i]
      BY <1>0, CombsAre, Shape DEF TypeOK, Combs
    <3> QED BY <1>0, <2>2, <3>1, NothingAfterLast, Shape
  <2>4. visited = Combs
    BY <1>0, <2>1, <2>3 DEF WalkInv, UpTo
  <2>5. visited' = Combs'
    BY <1>4, <2>4 DEF LevelExhausted, Combs
  <2>6. WalkInv'
    BY <1>4, <2>5 DEF LevelExhausted, ResetWalk, WalkInv
  <2> QED BY <1>0, <1>4, <2>6 DEF LevelExhausted, Inv
<1>5. CASE LevelLast
  <2>1. Combs' = Combs /\ ParamNum' = ParamNum /\ ParamNum \in Nat
    BY <1>0, <1>5, LastStep DEF TypeOK
  <2>2. CurrComb' \in Combs /\ CurrComb' \in [Positions -> Nat]
    BY <1>5, LastStep
  <2>3. visited = {c \in Combs : ~Precedes(ParamNum, CurrComb', c) /\ c # CurrComb'}
    BY <1>5, LastStep
  <2>4. ~Precedes(ParamNum, CurrComb', CurrComb')
    BY <2>1, <2>2, PrecedesIrreflexive
  <2>5. visited' = {c \in Combs : ~Precedes(ParamNum, CurrComb', c)}
    BY <1>5, <2>2, <2>3, <2>4 DEF LevelLast
  <2>6. visited' = UpTo(CurrComb)'
    BY <2>1, <2>5 DEF UpTo
  <2>7. WalkInv'
    BY <1>5, <2>6 DEF LevelLast, ResetWalk, WalkInv
  <2> QED BY <1>0, <1>5, <2>7 DEF LevelLast, Inv
<1>6. CASE LevelRecurse
  <2>1. MoveCurrent /\ phase = "level" /\ phase' = "level" /\ visited' = visited
    BY <1>6 DEF LevelRecurse
  <2>2. searchParamIdx \in Nat /\ searchParamIdx' = searchParamIdx + 1
           /\ searchParamIdx + 1 < ParamNum
    BY <1>0, <1>6 DEF LevelRecurse, IsLast, TypeOK
  <2>3. Combs' = Combs /\ ParamNum' = ParamNum
    BY <1>0, <2>1, MoveCurrentType DEF Combs
  <2>4. CASE moveCurrIdx /\ AtMax(searchParams[searchParamIdx + 1])
    <3>1. moveCurrIdx'
      BY <1>6, <2>4 DEF LevelRecurse
    <3>2. \A i \in Positions :
            /\ ValueNum(searchParams'[i]) = ValueNum(searchParams[i])
            /\ searchParams'[i].CurrIdx = IF i = searchParamIdx + 1 THEN 0
                                          ELSE searchParams[i].CurrIdx
      BY <1>0, <2>1, <2>4, MoveCurrentType DEF ValueNum
    <3>3. searchParams[searchParamIdx + 1].CurrIdx
             = ValueNum(searchParams[searchParamIdx + 1]) - 1
      BY <1>0, <2>2, <2>4, Shape DEF AtMax
    <3>4. CallComb' = CallComb
      <4>1. \A i \in Positions :
              (IF i <= searchParamIdx' THEN ValueNum(searchParams'[i]) - 1
                                       ELSE searchParams'[i].CurrIdx)
              = (IF i <= searchParamIdx THEN ValueNum(searchParams[i]) - 1
                                        ELSE searchParams[i].CurrIdx)
        BY <2>2, <3>2, <3>3
      <4> QED BY <2>3, <4>1 DEF CallComb
    <3>5. visited' = UpTo(CallComb)'
      BY <1>0, <2>1, <2>3, <2>4, <3>4 DEF WalkInv, UpTo
    <3>6. \A i \in 1..searchParamIdx' : searchParams'[i].CurrIdx = 0
      BY <1>0, <2>1, <2>2, <2>4, <3>2 DEF WalkInv
    <3>7. WalkInv'
      BY <2>1, <3>1, <3>5, <3>6 DEF WalkInv
    <3> QED BY <1>0, <2>1, <3>1, <3>7 DEF Inv
  <2>5. CASE moveCurrIdx /\ ~AtMax(searchParams[searchParamIdx + 1])
    <3>1. ~moveCurrIdx'
      BY <1>6, <2>5 DEF LevelRecurse
    <3>2. visited = {c \in Combs : ~Precedes(ParamNum, CurrComb', c) /\ c # CurrComb'}
      BY <2>1, <2>5, MoveWithoutCarry DEF CurrComb, CombAt
    <3>3. visited' = UpTo(CurrComb)' \ {CurrComb'}
      BY <2>1, <2>3, <3>2 DEF UpTo
    <3>4. WalkInv'
      BY <2>1, <3>1, <3>3 DEF WalkInv
    <3> QED BY <1>0, <2>1, <2>2, <3>4 DEF Inv
  <2>6. CASE ~moveCurrIdx
    <3>1. Garbage = {FALSE}
      <4>1. searchParamIdx > 0
        BY <2>1, <2>6 DEF Inv
      <4>2. MaxParams > 2
        BY <1>0, <2>2, <4>1, SearchAssumption DEF TypeOK, SearchAssumption
      <4>3. ~(MaxParams <= 2)
        BY <4>2, SearchAssumption DEF SearchAssumption
      <4> QED BY <4>3 DEF NoSpuriousMove
    <3>2. ~moveCurrIdx'
      BY <1>6, <2>6, <3>1 DEF LevelRecurse
    <3>3. searchParams' = searchParams
      BY <2>1, <2>6 DEF MoveCurrent
    <3>4. visited' = UpTo(CurrComb)' \ {CurrComb'}
      BY <1>0, <2>1, <2>6, <3>3 DEF WalkInv, UpTo, CurrComb, CombAt, Combs
    <3>5. WalkInv'
      BY <2>1, <3>2, <3>4 DEF WalkInv
    <3> QED BY <1>0, <2>1, <2>2, <3>5 DEF Inv
  <2> QED BY <2>4, <2>5, <2>6
<1>7. CASE RecordBestComb
  <2>1. /\ Len(searchParams') = ParamNum
        /\ \A i \in Positions : /\ searchParams'[i].ValueArray = searchParams[i].ValueArray
                                 /\ searchParams'[i].CurrIdx = searchParams[i].CurrIdx
    BY <1>0, <1>7, RecordType DEF TypeInv
  <2>2. Combs' = Combs
    BY <1>0, <2>1, SameCombs DEF TypeOK, TypeInv, Combs
  <2>3. CurrComb' = CurrComb
    BY <2>1 DEF CurrComb, CombAt
  <2>4. visited' = UpTo(CurrComb)'
    BY <1>0, <1>7, <2>1, <2>2, <2>3 DEF RecordBestComb, WalkInv, UpTo
  <2>5. WalkInv'
    BY <1>0, <1>7, <2>4 DEF RecordBestComb, WalkInv
  <2> QED BY <1>0, <1>7, <2>5 DEF RecordBestComb, Inv
<1>8. CASE GetOneParam \/ UNCHANGED ssVars
  <2>1. UNCHANGED <<searchParams, searchParamIdx, moveCurrIdx, phase, visited>>
    BY <1>8 DEF GetOneParam, ssVars
  <2>2. /\ UpTo(CurrComb)' = UpTo(CurrComb) /\ UpTo(CallComb)' = UpTo(CallComb)
        /\ CurrComb' = CurrComb /\ Combs' = Combs
    BY <2>1 DEF UpTo, CurrComb, CallComb, CombAt, Combs
  <2>3. WalkInv'
    BY <1>0, <2>1, <2>2 DEF WalkInv
  <2> QED BY <1>0, <2>1, <2>3 DEF Inv
<1> QED BY <1>1, <1>2, <1>3, <1>4, <1>5, <1>6, <1>7, <1>8
        DEF Next, Build, Search, GetNexComb

(* The odometer has handed out exactly the part of the space it has moved  *)
(* over, at every level of GetNexComb's recursion.                         *)
THEOREM WalkCorrect ==
  ASSUME NoSpuriousMove
  PROVE  Spec => []WalkInv
<1>1. Init => Inv
  BY WalkInit
<1>2. Inv /\ [Next]_ssVars => Inv'
  BY WalkStep, NoSpuriousMove
<1>3. Inv => WalkInv
  BY DEF Inv
<1> QED BY <1>1, <1>2, <1>3, PTL DEF Spec

(* GetNexComb says FAIL only after every combination (AutoTuning.h:84).    *)
THEOREM FinishedMeansAllCorrect ==
  ASSUME NoSpuriousMove
  PROVE  Spec => []FinishedMeansAll
<1>1. WalkInv => FinishedMeansAll
  BY DEF WalkInv, FinishedMeansAll
<1> QED BY <1>1, WalkCorrect, NoSpuriousMove, PTL

(* The space the search is over, as Enumeration.tla sees it.               *)
Space == IF phase = "build" THEN {} ELSE Combs

(* A step of the odometer is a step of the enumeration, or no step of it:  *)
(* StartSearch starts, LevelLast hands out, LevelExhausted finishes.       *)
LEMMA StepEnumerates ==
  ASSUME NoSpuriousMove, Inv, Inv', [Next]_ssVars
  PROVE  [Enum!Next]_(Enum!eVars)
<1> USE DEF Positions, ParamNum
<1>0. TypeOK /\ TypeInv /\ WalkInv /\ TypeOK' /\ WalkInv'
  BY DEF Inv, TypeInv
<1>1. ASSUME UNCHANGED <<Space, visited, phase = "done">>
      PROVE  [Enum!Next]_(Enum!eVars)
  BY <1>1 DEF Enum!eVars, Space
<1>2. ASSUME NEW s \in ParamSpecs, AddOneParam(s) PROVE UNCHANGED <<Space, visited, phase = "done">>
  BY <1>2 DEF AddOneParam, Space
<1>3. CASE StartSearch
  <2>1. CurrComb \in Combs
    BY <1>0, CurrCombType DEF TypeOK, CurrComb, Combs
  <2>2. Combs' = Combs
    BY <1>3 DEF StartSearch, Combs
  <2>3. Enum!Start
    BY <1>3, <2>1, <2>2 DEF StartSearch, Enum!Start
  <2> QED BY <2>3 DEF Enum!Next
<1>4. CASE CallGetNexComb
  BY <1>1, <1>4 DEF CallGetNexComb, Space, Combs
<1>5. CASE LevelExhausted
  <2>1. Combs' = Combs /\ visited' = visited /\ visited' = Combs'
    BY <1>0, <1>5 DEF LevelExhausted, Combs, WalkInv
  <2>2. Combs # {}
    BY <1>0, CurrCombType DEF TypeOK, CurrComb, Combs
  <2>3. Enum!Finish
    BY <1>5, <2>1, <2>2 DEF LevelExhausted, Enum!Finish
  <2> QED BY <2>3 DEF Enum!Next
<1>6. CASE LevelLast
  <2>1. Combs' = Combs /\ CurrComb' \in Combs \ visited
    BY <1>6, LastStep
  <2>2. Combs # {}
    BY <2>1
  <2>3. phase = "level" /\ phase' = "search" /\ visited' = visited \cup {CurrComb'}
    BY <1>6 DEF LevelLast
  <2>4. Enum!Hand
    BY <2>1, <2>2, <2>3 DEF Enum!Hand
  <2> QED BY <2>4 DEF Enum!Next
<1>7. CASE LevelRecurse
  <2>1. MoveCurrent /\ phase = "level" /\ phase' = "level" /\ visited' = visited
    BY <1>7 DEF LevelRecurse
  <2>2. Combs' = Combs
    BY <1>0, <2>1, MoveCurrentType DEF Combs
  <2> QED BY <1>1, <2>1, <2>2 DEF Space
<1>8. CASE RecordBestComb
  <2>1. Combs' = Combs
    BY <1>0, <1>8, RecordType, SameCombs DEF TypeOK, Combs
  <2> QED BY <1>1, <1>8, <2>1 DEF RecordBestComb, Space
<1>9. CASE GetOneParam \/ UNCHANGED ssVars
  BY <1>1, <1>9 DEF GetOneParam, ssVars, Space, Combs
<1> QED BY <1>1, <1>2, <1>3, <1>4, <1>5, <1>6, <1>7, <1>8, <1>9
        DEF Next, Build, Search, GetNexComb

(* The search implements the abstract enumeration: no combination twice,   *)
(* none left out, and the end announced once.                              *)
THEOREM SearchEnumerates ==
  ASSUME NoSpuriousMove
  PROVE  Spec => EnumeratesSpace
<1>1. Init => Enum!Init
  BY DEF Init, Enum!Init
<1>2. Init => Inv
  BY WalkInit
<1>3. Inv /\ [Next]_ssVars => Inv'
  BY WalkStep, NoSpuriousMove
<1>4. Inv /\ Inv' /\ [Next]_ssVars => [Enum!Next]_(Enum!eVars)
  BY StepEnumerates, NoSpuriousMove
<1> QED BY <1>1, <1>2, <1>3, <1>4, PTL DEF Spec, EnumeratesSpace, Enum!Safety
-----------------------------------------------------------------------------
(* What a step does to the parameters, field by field.  The facts hold for *)
(* whatever an uninitialised bool reads as.                                *)
LEMMA MovedFields ==
  ASSUME TypeOK, phase = "level", MoveCurrent
  PROVE  /\ Len(searchParams') = ParamNum
         /\ \A i \in Positions :
               /\ searchParams'[i].BestIdx = searchParams[i].BestIdx
               /\ searchParams'[i].BestValue = searchParams[i].BestValue
               /\ \/ searchParams'[i] = searchParams[i]
                  \/ searchParams'[i].CurrValue =
                        searchParams[i].ValueArray[searchParams'[i].CurrIdx + 1]
<1> DEFINE k == searchParamIdx + 1
<1>1. k \in Positions
  BY DEF TypeOK, Positions, ParamNum
<1>2. \A p \in ParamType :
         /\ Moved(p).BestIdx = p.BestIdx /\ Moved(p).BestValue = p.BestValue
         /\ Moved(p).CurrValue = p.ValueArray[Moved(p).CurrIdx + 1]
  <2>1. ASSUME NEW p \in ParamType, NEW n, NEW v
        PROVE  LET q == [p EXCEPT !.CurrIdx = n, !.CurrValue = v]
               IN  /\ q.BestIdx = p.BestIdx /\ q.BestValue = p.BestValue
                   /\ q.CurrIdx = n /\ q.CurrValue = v
    BY DEF ParamType
  <2> QED BY <2>1 DEF Moved
<1>3. /\ Len(searchParams') = ParamNum
      /\ \A i \in Positions :
            searchParams'[i] = IF i = k /\ moveCurrIdx THEN Moved(searchParams[i])
                               ELSE searchParams[i]
  BY <1>1 DEF MoveCurrent, TypeOK, Positions, ParamNum
<1>4. \A i \in Positions : searchParams[i] \in ParamType
  BY DEF TypeOK, Positions, ParamNum
<1> QED BY <1>2, <1>3, <1>4

LEMMA RecordedFields ==
  ASSUME TypeOK, RecordBestComb
  PROVE  /\ Len(searchParams') = ParamNum
         /\ \A i \in Positions :
               /\ searchParams'[i].CurrValue = searchParams[i].CurrValue
               /\ searchParams'[i].BestIdx = searchParams[i].CurrIdx
               /\ searchParams'[i].BestValue = searchParams[i].CurrValue
<1> USE DEF Positions, ParamNum
<1> DEFINE q(i) == [searchParams[i] EXCEPT !.BestIdx = searchParams[i].CurrIdx,
                                           !.BestValue = searchParams[i].CurrValue]
<1>1. ASSUME NEW i \in Positions
      PROVE  /\ q(i).CurrValue = searchParams[i].CurrValue
             /\ q(i).BestIdx = searchParams[i].CurrIdx
             /\ q(i).BestValue = searchParams[i].CurrValue
  <2>1. searchParams[i] \in ParamType
    BY TypeOK DEF TypeOK
  <2> QED BY <2>1 DEF ParamType
<1>2. searchParams' = [i \in Positions |-> q(i)]
  BY RecordBestComb DEF RecordBestComb
<1> HIDE DEF q
<1> QED BY <1>1, <1>2, RecordType

LEMMA AddedFields ==
  ASSUME TypeOK, NEW s \in ParamSpecs, AddOneParam(s)
  PROVE  \/ UNCHANGED searchParams
         \/ /\ ParamNum' = ParamNum + 1
            /\ \A i \in Positions' : searchParams'[i] = IF i = ParamNum + 1 THEN NewParam(s)
                                                       ELSE searchParams[i]
<1>1. CASE ValuesOf(s) # <<>> /\ searchParams' = Append(searchParams, NewParam(s))
  <2>1. NewParam(s) \in ParamType
    BY <1>1, ValuesType
  <2> QED BY <1>1, <2>1 DEF TypeOK, Positions, ParamNum
<1> QED BY <1>1 DEF AddOneParam

LEMMA ValueStep == TypeInv /\ ValueFollowsIndex /\ [Next]_ssVars => ValueFollowsIndex'
<1> SUFFICES ASSUME TypeInv, ValueFollowsIndex, [Next]_ssVars PROVE ValueFollowsIndex'
  OBVIOUS
<1>0. TypeOK
  BY DEF TypeInv
<1> USE DEF ValueFollowsIndex
<1>1. ASSUME NEW s \in ParamSpecs, AddOneParam(s) PROVE ValueFollowsIndex'
  <2>1. CASE UNCHANGED searchParams
    BY <2>1 DEF Positions, ParamNum
  <2>2. CASE /\ ParamNum' = ParamNum + 1
             /\ \A i \in Positions' : searchParams'[i] = IF i = ParamNum + 1 THEN NewParam(s)
                                                        ELSE searchParams[i]
    <3>1. /\ NewParam(s).CurrValue = NewParam(s).ValueArray[NewParam(s).CurrIdx + 1]
          /\ NewParam(s).BestIdx = Unset
      BY DEF NewParam
    <3>2. \A i \in Positions' : i = ParamNum + 1 \/ i \in Positions
      BY <1>0, <2>2 DEF Positions, ParamNum, TypeOK
    <3> QED BY <2>2, <3>1, <3>2
  <2> QED BY <1>0, <1>1, <2>1, <2>2, AddedFields
<1>2. ASSUME phase = "level", MoveCurrent PROVE ValueFollowsIndex'
  <2>1. Positions' = Positions
    BY <1>0, <1>2, MovedFields DEF Positions, ParamNum
  <2>2. ASSUME NEW i \in Positions
        PROVE  /\ searchParams'[i].CurrValue =
                     searchParams'[i].ValueArray[searchParams'[i].CurrIdx + 1]
               /\ searchParams'[i].BestIdx # Unset =>
                     searchParams'[i].BestValue =
                        searchParams'[i].ValueArray[searchParams'[i].BestIdx + 1]
    <3>1. searchParams'[i].ValueArray = searchParams[i].ValueArray
      BY <1>0, <1>2, MoveCurrentType
    <3> QED BY <1>0, <1>2, <3>1, MovedFields
  <2> QED BY <2>1, <2>2
<1>3. CASE RecordBestComb
  <2>1. Positions' = Positions
    BY <1>0, <1>3, RecordedFields DEF Positions, ParamNum
  <2> QED BY <1>0, <1>3, <2>1, RecordedFields, RecordType
<1>4. CASE UNCHANGED searchParams
  BY <1>4 DEF Positions, ParamNum
<1> QED BY <1>1, <1>2, <1>3, <1>4
        DEF Next, Build, Search, GetNexComb, StartSearch, CallGetNexComb, LevelExhausted,
            LevelLast, LevelRecurse, GetOneParam, ssVars

(* Whatever the uninitialised bool reads as, the value of a parameter is   *)
(* the one its index stands for, current and best.                         *)
THEOREM ValueFollowsIndexCorrect == Spec => []ValueFollowsIndex
<1>1. Init => ValueFollowsIndex
  BY DEF Init, ValueFollowsIndex, Positions, ParamNum
<1> QED BY <1>1, TypeInit, TypeStep, ValueStep, PTL DEF Spec

(* A best combination is only recorded between two calls, where the space  *)
(* stands at a combination the client was handed; nothing is recorded      *)
(* before the space is complete.                                           *)
BestInv ==
  /\ phase = "build" => \A i \in Positions : searchParams[i].BestIdx = Unset
  /\ phase = "search" => CurrComb \in visited
  /\ BestWasVisited

BestComb == [i \in Positions |-> searchParams[i].BestIdx]

LEMMA BestStep == TypeInv /\ BestInv /\ [Next]_ssVars => BestInv'
<1> SUFFICES ASSUME TypeInv, BestInv, [Next]_ssVars PROVE BestInv'
  OBVIOUS
<1>0. TypeOK /\ BestWasVisited
  BY DEF TypeInv, BestInv
<1>1. ASSUME NEW s \in ParamSpecs, AddOneParam(s) PROVE BestInv'
  <2>1. phase = "build" /\ phase' = "build"
    BY <1>1 DEF AddOneParam
  <2>2. \A i \in Positions' : searchParams'[i].BestIdx = Unset
    <3>1. CASE UNCHANGED searchParams
      BY <2>1, <3>1 DEF BestInv, Positions, ParamNum
    <3>2. CASE /\ ParamNum' = ParamNum + 1
               /\ \A i \in Positions' : searchParams'[i] = IF i = ParamNum + 1 THEN NewParam(s)
                                                          ELSE searchParams[i]
      <4>1. \A i \in Positions' : i = ParamNum + 1 \/ i \in Positions
        BY <1>0, <3>2 DEF Positions, ParamNum, TypeOK
      <4> QED BY <2>1, <3>2, <4>1 DEF BestInv, NewParam
    <3> QED BY <1>0, <1>1, <3>1, <3>2, AddedFields
  <2> QED BY <2>1, <2>2 DEF BestInv, BestWasVisited
<1>2. ASSUME Positions' = Positions,
             \A i \in Positions : searchParams'[i].BestIdx = searchParams[i].BestIdx,
             visited \subseteq visited'
      PROVE  BestWasVisited'
  <2>1. BestComb' = BestComb
    BY <1>2 DEF BestComb
  <2> QED BY <1>0, <1>2, <2>1 DEF BestWasVisited, BestComb
<1>3. CASE StartSearch
  <2>1. UNCHANGED searchParams /\ visited' = {CurrComb} /\ phase = "build" /\ phase' = "search"
    BY <1>3 DEF StartSearch
  <2>2. CurrComb' = CurrComb /\ Positions' = Positions
    BY <2>1 DEF CurrComb, CombAt, Positions, ParamNum
  <2>3. \A i \in Positions' : searchParams'[i].BestIdx = Unset
    BY <2>1, <2>2 DEF BestInv
  <2> QED BY <2>1, <2>2, <2>3 DEF BestInv, BestWasVisited
<1>4. CASE CallGetNexComb \/ LevelExhausted \/ GetOneParam \/ UNCHANGED ssVars
  <2>1. UNCHANGED <<searchParams, visited>>
    BY <1>4 DEF CallGetNexComb, LevelExhausted, GetOneParam, ssVars
  <2>2. phase' = phase \/ phase' \in {"level", "done"}
    BY <1>4 DEF CallGetNexComb, LevelExhausted, GetOneParam, ssVars
  <2>3. CurrComb' = CurrComb /\ Positions' = Positions
    BY <2>1 DEF CurrComb, CombAt, Positions, ParamNum
  <2> QED BY <1>2, <2>1, <2>2, <2>3 DEF BestInv
<1>5. CASE LevelLast \/ LevelRecurse
  <2>1. MoveCurrent /\ phase = "level" /\ visited \subseteq visited'
    BY <1>5 DEF LevelLast, LevelRecurse
  <2>2. BestWasVisited'
    BY <1>0, <1>2, <2>1, MovedFields DEF Positions, ParamNum
  <2>3. phase' = "level" \/ (phase' = "search" /\ CurrComb' \in visited')
    <3>1. CASE LevelLast
      <4>1. phase' = "search" /\ visited' = visited \cup {CurrComb'}
        BY <3>1 DEF LevelLast
      <4> QED BY <4>1
    <3>2. CASE LevelRecurse
      BY <2>1, <3>2 DEF LevelRecurse
    <3> QED BY <1>5, <3>1, <3>2
  <2> QED BY <2>2, <2>3 DEF BestInv
<1>6. CASE RecordBestComb
  <2>1. phase = "search" /\ phase' = "search" /\ visited' = visited
    BY <1>6 DEF RecordBestComb
  <2>2. Len(searchParams') = Len(searchParams)
    BY <1>0, <1>6, RecordType DEF ParamNum
  <2>3. CurrComb' = CurrComb
    BY <1>0, <1>6, <2>2, RecordType DEF CurrComb, CombAt, Positions, ParamNum
  <2>4. BestComb' = CurrComb
    BY <1>0, <1>6, <2>2, RecordedFields DEF BestComb, CurrComb, CombAt, Positions, ParamNum
  <2> QED BY <2>1, <2>3, <2>4 DEF BestInv, BestWasVisited, BestComb
<1> QED BY <1>1, <1>3, <1>4, <1>5, <1>6 DEF Next, Build, Search, GetNexComb

(* Whatever the uninitialised bool reads as, the combination kept as the   *)
(* best is one that was handed out, as a whole.                            *)
THEOREM BestWasVisitedCorrect == Spec => []BestWasVisited
<1>1. Init => BestInv
  BY DEF Init, BestInv, BestWasVisited, Positions, ParamNum
<1>2. BestInv => BestWasVisited
  BY DEF BestInv
<1> QED BY <1>1, <1>2, TypeInit, TypeStep, BestStep, PTL DEF Spec
-----------------------------------------------------------------------------
(* The lists clients write out name each value once.  A list generated     *)
(* from a range does so only if it has one value, since its loop never     *)
(* advances the value it stores.                                           *)
DistinctLists ==
  \A s \in ParamSpecs : \A a, b \in 1 .. Len(ValuesOf(s)) :
     ValuesOf(s)[a] = ValuesOf(s)[b] => a = b

ListsDistinct ==
  \A i \in Positions : \A a, b \in 1 .. ValueNum(searchParams[i]) :
     searchParams[i].ValueArray[a] = searchParams[i].ValueArray[b] => a = b

LEMMA ListsStep ==
  ASSUME DistinctLists, TypeInv, ListsDistinct, [Next]_ssVars
  PROVE  ListsDistinct'
<1>0. TypeOK
  BY DEF TypeInv
<1>1. ASSUME NEW s \in ParamSpecs, AddOneParam(s) PROVE ListsDistinct'
  <2>1. CASE UNCHANGED searchParams
    BY <2>1 DEF ListsDistinct, Positions, ParamNum
  <2>2. CASE /\ ParamNum' = ParamNum + 1
             /\ \A i \in Positions' : searchParams'[i] = IF i = ParamNum + 1 THEN NewParam(s)
                                                        ELSE searchParams[i]
    <3>1. NewParam(s).ValueArray = ValuesOf(s)
      BY DEF NewParam
    <3>2. \A i \in Positions' : i = ParamNum + 1 \/ i \in Positions
      BY <1>0, <2>2 DEF Positions, ParamNum, TypeOK
    <3> QED BY <2>2, <3>1, <3>2 DEF ListsDistinct, DistinctLists, ValueNum
  <2> QED BY <1>0, <1>1, <2>1, <2>2, AddedFields
<1>2. ASSUME Len(searchParams') = ParamNum,
             \A i \in Positions : searchParams'[i].ValueArray = searchParams[i].ValueArray
      PROVE  ListsDistinct'
  BY <1>2 DEF ListsDistinct, Positions, ParamNum, ValueNum
<1>3. ASSUME phase = "level", MoveCurrent PROVE ListsDistinct'
  BY <1>0, <1>2, <1>3, MoveCurrentType
<1>4. CASE RecordBestComb
  BY <1>0, <1>2, <1>4, RecordType
<1>5. CASE UNCHANGED searchParams
  BY <1>5 DEF ListsDistinct, Positions, ParamNum
<1> QED BY <1>1, <1>3, <1>4, <1>5
        DEF Next, Build, Search, GetNexComb, StartSearch, CallGetNexComb, LevelExhausted,
            LevelLast, LevelRecurse, GetOneParam, ssVars

LEMMA NewValues ==
  ASSUME NoSpuriousMove, Inv, ListsDistinct, [Next]_ssVars, phase = "level", phase' = "search"
  PROVE  ValuesAt(CurrComb)' \notin {ValuesAt(c) : c \in visited}
<1>1. LevelLast
  BY DEF Next, Build, Search, GetNexComb, AddOneParam, StartSearch, CallGetNexComb,
         LevelExhausted, LevelRecurse, RecordBestComb, GetOneParam, ssVars
<1>2. TypeOK /\ MoveCurrent
  BY <1>1 DEF Inv, TypeInv, LevelLast
<1>3. CurrComb' \in Combs /\ visited = {c \in Combs : ~Precedes(ParamNum, CurrComb', c) /\ c # CurrComb'}
  BY <1>1, LastStep
<1>4. ASSUME NEW c \in visited, ValuesAt(CurrComb)' = ValuesAt(c) PROVE FALSE
  <2> DEFINE d == CurrComb'
  <2>1. c \in Combs /\ c # d /\ d \in Combs
    BY <1>3
  <2> HIDE DEF d
  <2>2. \A e \in Combs : /\ e \in [Positions -> Nat]
                         /\ \A i \in Positions : e[i] < ValueNum(searchParams[i])
    BY <1>2, CombsAre DEF TypeOK, Combs, Positions, ParamNum
  <2>3. ValuesAt(CurrComb)' = ValuesAt(d)
    <3>1. \A i \in Positions : searchParams'[i].ValueArray = searchParams[i].ValueArray
      BY <1>2, MoveCurrentType DEF Inv
    <3>2. Positions' = Positions
      BY <1>2, MoveCurrentType DEF Positions, ParamNum
    <3> QED BY <3>1, <3>2 DEF ValuesAt, d
  <2>4. ASSUME NEW i \in Positions PROVE c[i] = d[i]
    <3>1. searchParams[i].ValueArray[c[i] + 1] = searchParams[i].ValueArray[d[i] + 1]
      BY <1>4, <2>3 DEF ValuesAt
    <3>2. /\ c[i] \in Nat /\ d[i] \in Nat
          /\ c[i] < ValueNum(searchParams[i]) /\ d[i] < ValueNum(searchParams[i])
      BY <2>1, <2>2
    <3>3. ValueNum(searchParams[i]) \in Nat
      BY <1>2 DEF TypeOK, ParamType, Positions, ParamNum, ValueNum
    <3>4. c[i] + 1 \in 1 .. ValueNum(searchParams[i]) /\ d[i] + 1 \in 1 .. ValueNum(searchParams[i])
      BY <3>2, <3>3
    <3>5. c[i] + 1 = d[i] + 1
      BY <3>1, <3>4 DEF ListsDistinct
    <3> QED BY <3>2, <3>5
  <2> QED BY <2>1, <2>2, <2>4
<1> QED BY <1>4

(* Every successful GetNexComb yields values not tried before, if no list  *)
(* names a value twice: the generated ranges are the only reason why the   *)
(* promise of AutoTuning.h:77 is not kept.                                 *)
THEOREM DistinctListsNewCombination ==
  ASSUME NoSpuriousMove, DistinctLists
  PROVE  Spec => NewCombination
<1>1. Init => Inv /\ ListsDistinct
  <2>1. Init => ListsDistinct
    BY DEF Init, ListsDistinct, Positions, ParamNum
  <2> QED BY <2>1, WalkInit
<1>2. Inv /\ ListsDistinct /\ [Next]_ssVars => (Inv /\ ListsDistinct)'
  BY WalkStep, ListsStep, NoSpuriousMove, DistinctLists DEF Inv
<1>3. Inv /\ ListsDistinct /\ [Next]_ssVars =>
        [phase = "level" /\ phase' = "search" =>
           ValuesAt(CurrComb)' \notin {ValuesAt(c) : c \in visited}]_ssVars
  BY NewValues, NoSpuriousMove
<1> QED BY <1>1, <1>2, <1>3, PTL DEF Spec, NewCombination
=============================================================================
