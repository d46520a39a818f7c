---------------------------- MODULE ReducAddProofs ----------------------------
(***************************************************************************)
(* Proofs about ReducAdd, for every number of groups and lanes, every      *)
(* input and every content of the buffer: the compare-and-swap loop        *)
(* implements the atomic accumulator, no group leaves it without having    *)
(* added, and only what came before the zeroing is lost.                   *)
(***************************************************************************)
EXTENDS ReducAdd, PartialSums, TLAPS

(* What is known of lane l of group g.                                     *)
(* Before its first swap it has not added and all its lanes run.           *)
NotYet(g, l) == pc[g] \in {"zero", "sum", "load"} => g \notin added[l] /\ l \in exec[g]
SumKnown(g, l) == pc[g] \in {"load", "swap"} => sum[g][l] = Shares[g][l]

(* A lane about to swap has added before only if the cell is no number,    *)
(* and one that has swapped and added goes on only in that case.           *)
NoSecondAdd(g, l) ==
  pc[g] = "swap" /\ l \in exec[g] /\ g \in added[l] =>
     \/ c[l] = NaN
     \/ l \notin pend[g] /\ ~FNeq(prev[g][l], rtn[g][l])

(* A lane that leaves has added, but for a cell that held minus zero.      *)
AddsBeforeLeaving(g, l) ==
  /\ pc[g] = "swap" /\ l \in exec[g] \ pend[g] =>
        g \in ever[l] \/ found[l] = MinusZero \/ FNeq(prev[g][l], rtn[g][l])
  /\ pc[g] \in {"swap", "end"} /\ l \notin exec[g] => g \in ever[l] \/ found[l] = MinusZero
  /\ pc[g] = "end" => l \notin exec[g]

(* Minus zero is only where the launch found it, or was read from there.   *)
MinusZeroFound(g, l) ==
  c[l] = MinusZero \/ prev[g][l] = MinusZero \/ rtn[g][l] = MinusZero => found[l] = MinusZero

LaneInv(g, l) ==
  /\ NotYet(g, l) /\ SumKnown(g, l) /\ NoSecondAdd(g, l)
  /\ AddsBeforeLeaving(g, l) /\ MinusZeroFound(g, l)

IInv == TypeOK /\ \A g \in Groups, l \in Lanes : LaneInv(g, l)
-----------------------------------------------------------------------------
(* The rows of a group's tile are rows of the input.                       *)
LEMMA RowsOfTile ==
  ASSUME NEW g \in Groups, NEW n \in 1 .. Tile
  PROVE  g * Tile + n - 1 \in 0 .. ReducSize - 1
<1>1. /\ ReducSize \in Nat /\ TileGroup \in Nat \ {0} /\ Tile \in Nat
      /\ TileGroup * Tile <= ReducSize /\ g \in 0 .. TileGroup - 1
  <2>1. \A a \in Nat, b \in Nat \ {0} : b * (a \div b) <= a /\ a \div b \in Nat
    OBVIOUS
  <2> QED
    BY <2>1, ReducAssumption DEF ReducAssumption, Tile, Groups
<1> DEFINE before == g * Tile
           after == (g + 1) * Tile
           all == TileGroup * Tile
<1>2. before \in Nat /\ after = before + Tile /\ all \in Nat
  BY <1>1
<1>3. after <= all
  BY <1>1
<1> HIDE DEF before, after, all
<1>4. before + n - 1 \in 0 .. ReducSize - 1
  <2>1. all <= ReducSize
    BY <1>1 DEF all
  <2> QED
    BY <1>1, <1>2, <1>3, <2>1
<1> QED
  BY <1>4 DEF before

(* A group's share is the last of the sums of its rows.                    *)
LEMMA TileSumIs ==
  ASSUME NEW g \in Groups, NEW l \in Lanes
  PROVE  \E f : /\ SumsOf(f, [n \in 1 .. Tile |-> Input[g * Tile + n - 1][l]], Tile)
                /\ TileSum(g, l) = f[Tile]
<1> DEFINE row(n) == Input[g * Tile + n - 1][l]
           step == [n \in 1 .. Tile |-> row(n)]
           body(f) == [n \in 0 .. Tile |-> IF n = 0 THEN 0 ELSE f[n - 1] + row(n)]
           acc == CHOOSE f : f = body(f)
<1>1. Tile \in Nat
  <2>1. \A a \in Nat, b \in Nat \ {0} : a \div b \in Nat
    OBVIOUS
  <2> QED BY <2>1, ReducAssumption DEF ReducAssumption, Tile
<1>2. \A n \in 1 .. Tile : step[n] = row(n)
  OBVIOUS
<1> HIDE DEF row, step
<1>3. \A f : SumsOf(f, step, Tile) <=> f = body(f)
  <2>1. ASSUME NEW f, NEW n \in 0 .. Tile
        PROVE  (IF n = 0 THEN 0 ELSE f[n - 1] + step[n])
                 = (IF n = 0 THEN 0 ELSE f[n - 1] + row(n))
    <3>1. n # 0 => n \in 1 .. Tile
      BY <1>1
    <3> QED BY <1>2, <3>1
  <2>2. ASSUME NEW f
        PROVE  [n \in 0 .. Tile |-> IF n = 0 THEN 0 ELSE f[n - 1] + step[n]] = body(f)
    BY <2>1
  <2> QED BY <2>2 DEF SumsOf
<1>4. acc = body(acc)
  <2>1. \E f : f = body(f)
    BY <1>1, <1>3, SumsExist
  <2> HIDE DEF body
  <2> QED BY <2>1
<1>5. SumsOf(acc, step, Tile)
  BY <1>3, <1>4
<1>6. TileSum(g, l) = acc[Tile]
  BY DEF TileSum, row
<1> HIDE DEF acc
<1> QED BY <1>5, <1>6 DEF step, row

LEMMA TileSumIsInt ==
  ASSUME NEW g \in Groups, NEW l \in Lanes
  PROVE  TileSum(g, l) \in Int
<1> DEFINE step == [n \in 1 .. Tile |-> Input[g * Tile + n - 1][l]]
<1>1. PICK f : SumsOf(f, step, Tile) /\ TileSum(g, l) = f[Tile]
  BY TileSumIs
<1>2. Tile \in Nat
  <2>1. \A a \in Nat, b \in Nat \ {0} : a \div b \in Nat
    OBVIOUS
  <2> QED BY <2>1, ReducAssumption DEF ReducAssumption, Tile
<1>3. \A n \in 1 .. Tile : step[n] \in Int
  BY RowsOfTile, ReducAssumption DEF ReducAssumption
<1> HIDE DEF step
<1>4. f[Tile] \in Int
  BY <1>1, <1>2, <1>3, SumsAreNumbers
<1> QED BY <1>1, <1>4

LEMMA SharesAre ==
  /\ Shares \in [Groups -> [Lanes -> Int]]
  /\ \A g \in Groups, l \in Lanes : Shares[g][l] = TileSum(g, l)
  BY TileSumIsInt DEF Shares

LEMMA GroupZero == 0 \in Groups
  BY ReducAssumption DEF ReducAssumption, Groups

LEMMA NumbersOnly == NaN \notin Int /\ MinusZero \notin Int /\ NaN # MinusZero /\ 0 \in Value
  BY FloatAssumption DEF FloatAssumption, Value

(* Adding an integer: the result is a float, never minus zero, and no      *)
(* number stays no number.                                                 *)
LEMMA FAddIs ==
  ASSUME NEW x \in Value, NEW y \in Int
  PROVE  /\ FAdd(x, y) \in Value /\ FAdd(x, y) # MinusZero
         /\ x = NaN => FAdd(x, y) = NaN
  BY NumbersOnly DEF FAdd, Value

(* Different bits that compare equal are the two zeros.                    *)
LEMMA EqualFloats ==
  ASSUME NEW x, NEW y, ~FNeq(x, y), x # y
  PROVE  x = MinusZero \/ y = MinusZero
  BY DEF FNeq

LEMMA SelfCompare == ASSUME NEW x PROVE FNeq(x, x) => x = NaN
  BY DEF FNeq

LEMMA InitHolds == Init => IInv
<1> SUFFICES ASSUME Init PROVE IInv
  OBVIOUS
<1>1. TypeOK
  BY NumbersOnly, ReducAssumption, GroupZero
     DEF Init, TypeOK, ReducAssumption, StartPc, StartPend, AllLanes, Idle, Nobody, Groups
<1>2. ASSUME NEW g \in Groups, NEW l \in Lanes PROVE LaneInv(g, l)
  BY NumbersOnly DEF Init, LaneInv, NotYet, SumKnown, NoSecondAdd, AddsBeforeLeaving, MinusZeroFound,
      StartPc, StartPend, AllLanes, Idle, Nobody
<1> QED
  BY <1>1, <1>2 DEF IInv

LEMMA StoreZeroStep ==
  ASSUME IInv, NEW l \in Lanes, StoreZero(l)
  PROVE  IInv'
<1>1. TypeOK'
  BY NumbersOnly, GroupZero DEF IInv, TypeOK, StoreZero
<1>2. ASSUME NEW g \in Groups, NEW k \in Lanes PROVE LaneInv(g, k)'
  <2>1. LaneInv(g, k) /\ TypeOK
    BY DEF IInv
  <2>2. /\ c'[k] = IF k = l THEN 0 ELSE c[k]
        /\ added'[k] = IF k = l THEN {} ELSE added[k]
        /\ pend'[g] = IF g = 0 THEN pend[0] \ {l} ELSE pend[g]
        /\ pc[0] = "zero"
        /\ UNCHANGED <<pc, exec, sum, prev, rtn, ever, found>>
    BY <2>1, GroupZero DEF StoreZero, TypeOK
  <2> QED
    BY <2>1, <2>2, NumbersOnly DEF LaneInv, NotYet, SumKnown, NoSecondAdd, AddsBeforeLeaving,
       MinusZeroFound
<1> QED
  BY <1>1, <1>2 DEF IInv

LEMMA ZeroedStep ==
  ASSUME IInv, Zeroed
  PROVE  IInv'
<1>1. TypeOK'
  BY GroupZero DEF IInv, TypeOK, Zeroed
<1>2. ASSUME NEW g \in Groups, NEW k \in Lanes PROVE LaneInv(g, k)'
  <2>1. LaneInv(g, k) /\ TypeOK
    BY DEF IInv
  <2>2. /\ pc'[g] = IF g = 0 THEN "sum" ELSE pc[g]
        /\ pc[0] = "zero"
        /\ UNCHANGED <<c, exec, pend, sum, prev, rtn, added, ever, found>>
    BY <2>1, GroupZero DEF Zeroed, TypeOK
  <2> QED
    BY <2>1, <2>2 DEF LaneInv, NotYet, SumKnown, NoSecondAdd, AddsBeforeLeaving, MinusZeroFound
<1> QED
  BY <1>1, <1>2 DEF IInv

LEMMA SumTileStep ==
  ASSUME IInv, NEW h \in Groups, SumTile(h)
  PROVE  IInv'
<1>1. TypeOK'
  BY SharesAre DEF IInv, TypeOK, SumTile
<1>2. ASSUME NEW g \in Groups, NEW k \in Lanes PROVE LaneInv(g, k)'
  <2>1. LaneInv(g, k) /\ TypeOK
    BY DEF IInv
  <2>2. /\ pc'[g] = IF g = h THEN "load" ELSE pc[g]
        /\ sum'[g] = IF g = h THEN Shares[h] ELSE sum[g]
        /\ pend'[g] = IF g = h THEN exec[h] ELSE pend[g]
        /\ pc[h] = "sum"
        /\ UNCHANGED <<c, exec, prev, rtn, added, ever, found>>
    BY <2>1 DEF SumTile, TypeOK
  <2> QED
    BY <2>1, <2>2 DEF LaneInv, NotYet, SumKnown, NoSecondAdd, AddsBeforeLeaving, MinusZeroFound
<1> QED
  BY <1>1, <1>2 DEF IInv

LEMMA LoadStep ==
  ASSUME IInv, NEW h \in Groups, NEW l \in Lanes, Load(h, l)
  PROVE  IInv'
<1>1. TypeOK'
  BY DEF IInv, TypeOK, Load
<1>2. ASSUME NEW g \in Groups, NEW k \in Lanes PROVE LaneInv(g, k)'
  <2>1. LaneInv(g, k) /\ TypeOK
    BY DEF IInv
  <2>2. /\ prev'[g][k] = IF g = h /\ k = l THEN c[l] ELSE prev[g][k]
        /\ pend'[g] = IF g = h THEN pend[h] \ {l} ELSE pend[g]
        /\ pc[h] = "load"
        /\ UNCHANGED <<c, pc, exec, sum, rtn, added, ever, found>>
    BY <2>1 DEF Load, TypeOK
  <2> QED
    BY <2>1, <2>2 DEF LaneInv, NotYet, SumKnown, NoSecondAdd, AddsBeforeLeaving, MinusZeroFound
<1> QED
  BY <1>1, <1>2 DEF IInv

LEMMA LoadedStep ==
  ASSUME IInv, NEW h \in Groups, Loaded(h)
  PROVE  IInv'
<1>1. TypeOK'
  BY DEF IInv, TypeOK, Loaded
<1>2. ASSUME NEW g \in Groups, NEW k \in Lanes PROVE LaneInv(g, k)'
  <2>1. LaneInv(g, k) /\ TypeOK
    BY DEF IInv
  <2>2. /\ pc'[g] = IF g = h THEN "swap" ELSE pc[g]
        /\ pend'[g] = IF g = h THEN exec[h] ELSE pend[g]
        /\ pc[h] = "load"
        /\ UNCHANGED <<c, exec, sum, prev, rtn, added, ever, found>>
    BY <2>1 DEF Loaded, TypeOK
  <2> QED
    BY <2>1, <2>2 DEF LaneInv, NotYet, SumKnown, NoSecondAdd, AddsBeforeLeaving, MinusZeroFound
<1> QED
  BY <1>1, <1>2 DEF IInv

(* The swap of lane l of group h: it adds, or reads what has been added.   *)
LEMMA CompareSwapStep ==
  ASSUME IInv, NEW h \in Groups, NEW l \in Lanes, CompareSwap(h, l)
  PROVE  IInv'
<1> DEFINE hit == c[l] = prev[h][l]
           new == FAdd(prev[h][l], sum[h][l])
<1>1. TypeOK /\ LaneInv(h, l) /\ l \in exec[h] /\ l \in pend[h] /\ pc[h] = "swap"
  BY DEF IInv, CompareSwap, TypeOK
<1>2. new \in Value /\ new # MinusZero /\ (prev[h][l] = NaN => new = NaN)
  BY <1>1, FAddIs DEF TypeOK
<1>3. /\ rtn' = [rtn EXCEPT ![h][l] = c[l]]
      /\ pend' = [pend EXCEPT ![h] = @ \ {l}]
      /\ hit => /\ c' = [c EXCEPT ![l] = new]
               /\ added' = [added EXCEPT ![l] = @ \cup {h}]
               /\ ever' = [ever EXCEPT ![l] = @ \cup {h}]
      /\ ~hit => UNCHANGED <<c, added, ever>>
      /\ UNCHANGED <<pc, exec, sum, prev, launches, early, found>>
  BY DEF CompareSwap, SwapHits, NewVal
<1> HIDE DEF hit, new
<1>4. TypeOK'
  <2>1. c' \in [Lanes -> Value] /\ added' \in [Lanes -> SUBSET Groups] /\ ever' \in [Lanes -> SUBSET Groups]
    <3>1. CASE hit
      <4>1. c \in [Lanes -> Value] /\ c' = [c EXCEPT ![l] = new] /\ new \in Value
        BY <3>1, <1>1, <1>2, <1>3 DEF TypeOK
      <4>2. c' \in [Lanes -> Value]
        BY <4>1
      <4>3. /\ added' = [added EXCEPT ![l] = @ \cup {h}]
            /\ ever' = [ever EXCEPT ![l] = @ \cup {h}]
            /\ added \in [Lanes -> SUBSET Groups] /\ ever \in [Lanes -> SUBSET Groups]
        BY <3>1, <1>1, <1>3 DEF TypeOK
      <4> QED
        BY <4>2, <4>3
    <3>2. CASE ~hit
      BY <3>2, <1>1, <1>3 DEF TypeOK
    <3> QED
      BY <3>1, <3>2
  <2>2. rtn' \in [Groups -> [Lanes -> Value]] /\ pend' \in [Groups -> SUBSET Lanes]
    BY <1>1, <1>3 DEF TypeOK
  <2>3. \A g \in Groups : pend'[g] \subseteq pend[g]
    BY <1>1, <1>3 DEF TypeOK
  <2> QED
    BY <1>1, <1>3, <2>1, <2>2, <2>3 DEF TypeOK
<1>5. ASSUME NEW g \in Groups, NEW k \in Lanes PROVE LaneInv(g, k)'
  <2>1. LaneInv(g, k)
    BY DEF IInv
  <2>2. /\ rtn'[g][k] = IF g = h /\ k = l THEN c[l] ELSE rtn[g][k]
        /\ pend'[g] = IF g = h THEN pend[h] \ {l} ELSE pend[g]
        /\ c'[k] = IF k = l /\ hit THEN new ELSE c[k]
        /\ added'[k] = IF k = l /\ hit THEN added[l] \cup {h} ELSE added[k]
        /\ ever'[k] = IF k = l /\ hit THEN ever[l] \cup {h} ELSE ever[k]
    <3>1. /\ c \in [Lanes -> Value] /\ added \in [Lanes -> SUBSET Groups]
          /\ ever \in [Lanes -> SUBSET Groups]
          /\ rtn \in [Groups -> [Lanes -> Value]] /\ pend \in [Groups -> SUBSET Lanes]
      BY <1>1 DEF TypeOK
    <3>2. rtn'[g][k] = IF g = h /\ k = l THEN c[l] ELSE rtn[g][k]
      BY <3>1, <1>3
    <3>3. pend'[g] = IF g = h THEN pend[h] \ {l} ELSE pend[g]
      BY <3>1, <1>3
    <3>4. CASE hit
      <4>1. c'[k] = IF k = l THEN new ELSE c[k]
        BY <3>1, <3>4, <1>3
      <4>2. added'[k] = IF k = l THEN added[l] \cup {h} ELSE added[k]
        BY <3>1, <3>4, <1>3
      <4>3. ever'[k] = IF k = l THEN ever[l] \cup {h} ELSE ever[k]
        BY <3>1, <3>4, <1>3
      <4> QED
        BY <3>2, <3>3, <3>4, <4>1, <4>2, <4>3
    <3>5. CASE ~hit
      BY <3>2, <3>3, <3>5, <1>3
    <3> QED
      BY <3>4, <3>5
  <2>3. NotYet(g, k)' /\ SumKnown(g, k)'
    BY <1>1, <1>3, <2>1, <2>2 DEF LaneInv, NotYet, SumKnown
  <2>4. NoSecondAdd(g, k)'
    <3> SUFFICES ASSUME pc[g] = "swap", k \in exec[g], g \in added'[k], c'[k] # NaN
                 PROVE  k \notin pend'[g] /\ ~FNeq(prev[g][k], rtn'[g][k])
      BY <1>3 DEF NoSecondAdd
    <3>1. CASE k # l
      BY <3>1, <2>1, <2>2 DEF LaneInv, NoSecondAdd
    <3>2. CASE k = l /\ g = h
      <4>1. CASE hit
        <5>1. new # NaN /\ prev[h][l] # NaN
          BY <3>2, <4>1, <1>2, <2>2
        <5>2. rtn'[g][k] = prev[h][l]
          BY <3>2, <4>1, <2>2 DEF hit
        <5> QED
          BY <3>2, <5>1, <5>2, <2>2, SelfCompare
      <4>2. CASE ~hit
        BY <3>2, <4>2, <1>1, <2>1, <2>2 DEF LaneInv, NoSecondAdd
      <4> QED
        BY <4>1, <4>2
    <3>3. CASE k = l /\ g # h
      <4>1. c[k] # NaN
        BY <3>3, <1>2, <2>2 DEF hit
      <4>2. g \in added[k]
        BY <3>3, <2>2
      <4> QED
        BY <3>3, <4>1, <4>2, <2>1, <2>2 DEF LaneInv, NoSecondAdd
    <3> QED
      BY <3>1, <3>2, <3>3
  <2>5. AddsBeforeLeaving(g, k)'
    <3>1. CASE g = h /\ k = l
      <4>1. CASE hit
        BY <3>1, <4>1, <1>1, <1>3, <2>1, <2>2 DEF LaneInv, AddsBeforeLeaving
      <4>2. CASE ~hit
        <5>1. FNeq(prev[g][k], rtn'[g][k]) \/ found[k] = MinusZero
          BY <3>1, <4>2, <1>1, <2>2, EqualFloats DEF hit, LaneInv, MinusZeroFound
        <5> QED
          BY <3>1, <5>1, <1>1, <1>3, <2>1, <2>2 DEF LaneInv, AddsBeforeLeaving
      <4> QED
        BY <4>1, <4>2
    <3>2. CASE ~(g = h /\ k = l)
      BY <3>2, <1>1, <1>3, <2>1, <2>2 DEF LaneInv, AddsBeforeLeaving
    <3> QED
      BY <3>1, <3>2
  <2>6. MinusZeroFound(g, k)'
    BY <1>2, <1>3, <2>1, <2>2 DEF LaneInv, MinusZeroFound
  <2> QED
    BY <2>3, <2>4, <2>5, <2>6 DEF LaneInv
<1> QED
  BY <1>4, <1>5 DEF IInv

LEMMA BranchStep ==
  ASSUME IInv, NEW h \in Groups, Branch(h)
  PROVE  IInv'
<1>1. TypeOK /\ Retrying(h) \subseteq exec[h] /\ Retrying(h) \subseteq Lanes
      /\ pc[h] = "swap" /\ pend[h] = {}
  BY DEF IInv, TypeOK, Branch, Retrying
<1>2. ASSUME NEW g \in Groups
      PROVE  /\ pc'[g] = IF g # h THEN pc[g] ELSE IF Retrying(h) = {} THEN "end" ELSE "swap"
             /\ exec'[g] = IF g = h THEN Retrying(h) ELSE exec[g]
             /\ pend'[g] = IF g = h THEN Retrying(h) ELSE pend[g]
             /\ \A k \in Lanes :
                  prev'[g][k] = IF g = h /\ k \in Retrying(h) THEN rtn[h][k] ELSE prev[g][k]
  BY <1>1 DEF Branch, TypeOK
<1>3. UNCHANGED <<c, sum, rtn, launches, added, ever, early, found>>
  BY DEF Branch
<1>4. TypeOK'
  <2>1. /\ pc' \in [Groups -> {"zero", "sum", "load", "swap", "end"}]
        /\ exec' \in [Groups -> SUBSET Lanes] /\ pend' \in [Groups -> SUBSET Lanes]
        /\ prev' \in [Groups -> [Lanes -> Value]]
    BY <1>1 DEF Branch, TypeOK
  <2>2. \A g \in Groups : pc'[g] \in {"load", "swap"} => pend'[g] \subseteq exec'[g]
    BY <1>1, <1>2 DEF TypeOK
  <2>3. \A g \in Groups : pc'[g] # "zero" /\ pc'[g] # "load" /\ pc'[g] # "swap" => pend'[g] = {}
    BY <1>1, <1>2 DEF TypeOK
  <2> QED
    BY <1>1, <1>3, <2>1, <2>2, <2>3 DEF TypeOK
<1>5. ASSUME NEW g \in Groups, NEW k \in Lanes PROVE LaneInv(g, k)'
  <2>1. LaneInv(g, k)
    BY DEF IInv
  <2>2. k \in Retrying(g) <=> k \in exec[g] /\ FNeq(prev[g][k], rtn[g][k])
    BY DEF Retrying
  <2>3. NotYet(g, k)' /\ SumKnown(g, k)'
    BY <1>1, <1>2, <1>3, <2>1 DEF LaneInv, NotYet, SumKnown
  <2>4. NoSecondAdd(g, k)'
    BY <1>1, <1>2, <1>3, <2>1, <2>2 DEF LaneInv, NoSecondAdd
  <2>5. AddsBeforeLeaving(g, k)'
    BY <1>1, <1>2, <1>3, <2>1, <2>2 DEF LaneInv, AddsBeforeLeaving
  <2>6. MinusZeroFound(g, k)'
    BY <1>1, <1>2, <1>3, <2>1, <2>2 DEF LaneInv, MinusZeroFound
  <2> QED
    BY <2>3, <2>4, <2>5, <2>6 DEF LaneInv
<1> QED
  BY <1>4, <1>5 DEF IInv

LEMMA LaunchStep ==
  ASSUME IInv, Launch
  PROVE  IInv'
<1>1. TypeOK'
  BY NumbersOnly, GroupZero
     DEF IInv, Launch, TypeOK, StartPc, StartPend, AllLanes, Idle, Nobody
<1>2. ASSUME NEW g \in Groups, NEW l \in Lanes PROVE LaneInv(g, l)'
  BY NumbersOnly DEF Launch, LaneInv, NotYet, SumKnown, NoSecondAdd, AddsBeforeLeaving,
      MinusZeroFound, StartPc, StartPend, AllLanes, Idle, Nobody
<1> QED
  BY <1>1, <1>2 DEF IInv

LEMMA InvInductive == Spec => []IInv
<1>1. ASSUME IInv, [Next]_raVars PROVE IInv'
  <2>1. CASE Launch
    BY <1>1, <2>1, LaunchStep
  <2>2. ASSUME NEW g \in Groups, Wave(g) PROVE IInv'
    <3>1. CASE g = 0 /\ Zeroed
      BY <1>1, <3>1, ZeroedStep
    <3>2. ASSUME g = 0, NEW l \in Lanes, StoreZero(l) PROVE IInv'
      BY <1>1, <3>2, StoreZeroStep
    <3>3. CASE SumTile(g)
      BY <1>1, <3>3, SumTileStep
    <3>4. CASE Loaded(g)
      BY <1>1, <3>4, LoadedStep
    <3>5. CASE Branch(g)
      BY <1>1, <3>5, BranchStep
    <3>6. ASSUME NEW l \in Lanes, Load(g, l) PROVE IInv'
      BY <1>1, <3>6, LoadStep
    <3>7. ASSUME NEW l \in Lanes, CompareSwap(g, l) PROVE IInv'
      BY <1>1, <3>7, CompareSwapStep
    <3> QED
      BY <2>2, <3>1, <3>2, <3>3, <3>4, <3>5, <3>6, <3>7 DEF Wave
  <2>3. CASE UNCHANGED raVars
    BY <1>1, <2>3 DEF IInv, raVars, TypeOK, LaneInv, NotYet, SumKnown, NoSecondAdd,
       AddsBeforeLeaving, MinusZeroFound
  <2> QED
    BY <1>1, <2>1, <2>2, <2>3 DEF Next
<1> QED
  BY <1>1, InitHolds, PTL DEF Spec
-----------------------------------------------------------------------------
(* The type invariant of the kernel's waves.                               *)
THEOREM TypeCorrect == Spec => []TypeOK
<1>1. IInv => TypeOK
  BY DEF IInv
<1> QED
  BY <1>1, InvInductive, PTL

(* A wave that has ended has added its sum to every lane, unless the lane  *)
(* held minus zero when the kernel was launched (ATOMIC_ADD's exit).       *)
THEOREM EveryGroupHasAdded == Spec => []EveryGroupAdds
<1>1. IInv => EveryGroupAdds
  BY DEF IInv, LaneInv, AddsBeforeLeaving, EveryGroupAdds
<1> QED
  BY <1>1, InvInductive, PTL

(* Each step of the waves is a step of the accumulator or none of its      *)
(* concern.                                                                *)
LEMMA StepAccumulates ==
  ASSUME IInv, [Next]_raVars
  PROVE  [Acc!Next]_(Acc!aVars)
<1> USE DEF Acc!aVars
<1>1. CASE Launch
  BY <1>1 DEF Launch, Acc!Next, Acc!Launch, Nobody
<1>2. ASSUME NEW l \in Lanes, StoreZero(l) PROVE Acc!Next
  BY <1>2 DEF StoreZero, Acc!Next, Acc!Zero
<1>3. ASSUME NEW g \in Groups, NEW l \in Lanes, CompareSwap(g, l)
      PROVE  [Acc!Next]_(Acc!aVars)
  <2>1. CASE SwapHits(g, l)
    <3>1. /\ c' = [c EXCEPT ![l] = FAdd(prev[g][l], sum[g][l])]
          /\ added' = [added EXCEPT ![l] = @ \cup {g}]
          /\ c[l] = prev[g][l] /\ pc[g] = "swap" /\ l \in pend[g]
      BY <1>3, <2>1 DEF CompareSwap, NewVal, SwapHits
    <3>2. LaneInv(g, l) /\ l \in exec[g]
      BY <3>1 DEF IInv, TypeOK
    <3>3. sum[g][l] = Shares[g][l] /\ (g \notin added[l] \/ c[l] = NaN)
      BY <3>1, <3>2 DEF LaneInv, SumKnown, NoSecondAdd
    <3>4. FAdd(prev[g][l], sum[g][l]) = Acc!FAdd(c[l], Shares[g][l])
      BY <3>1, <3>3 DEF FAdd, Acc!FAdd
    <3>5. Acc!Add(g, l)
      BY <3>1, <3>3, <3>4 DEF Acc!Add
    <3> QED
      BY <3>5 DEF Acc!Next
  <2>2. CASE ~SwapHits(g, l)
    BY <1>3, <2>2 DEF CompareSwap
  <2> QED
    BY <2>1, <2>2
<1>4. ASSUME NEW g \in Groups,
             \/ Zeroed \/ SumTile(g) \/ Loaded(g) \/ Branch(g) \/ \E l \in Lanes : Load(g, l)
      PROVE  UNCHANGED Acc!aVars
  BY <1>4 DEF Zeroed, SumTile, Loaded, Branch, Load
<1>5. CASE UNCHANGED raVars
  BY <1>5 DEF raVars
<1> QED
  BY <1>1, <1>2, <1>3, <1>4, <1>5 DEF Next, Wave

(* The kernel implements the accumulator: however the waves interleave, no *)
(* group's sum is lost in the compare-and-swap loop or added twice.        *)
THEOREM ImplementsAccumulator == Spec => AddsAtomically
<1>1. Init => Acc!Init
  BY ReducAssumption DEF Init, Acc!Init, Nobody, ReducAssumption, Value, Acc!Value
<1>2. IInv /\ [Next]_raVars => [Acc!Next]_(Acc!aVars)
  BY StepAccumulates
<1> QED
  BY <1>1, <1>2, InvInductive, PTL DEF Spec, AddsAtomically, Acc!Spec
-----------------------------------------------------------------------------
(* The fold that adds up the shares of a set of groups is a sum over that  *)
(* set, in whatever order it takes the groups.                             *)
Column(l) == [g \in Groups |-> Shares[g][l]]

LEMMA ShareOfIsSum ==
  ASSUME NEW l \in Lanes
  PROVE  \E f : /\ NumberSums(f, Column(l), Groups)
                /\ \A gs \in SUBSET Groups : ShareOf(gs, l) = f[gs]
<1>1. IsFiniteSet(Groups)
  BY ReducAssumption, FS_Interval DEF ReducAssumption, Groups
<1>2. \A g \in Groups : Column(l)[g] = Shares[g][l] /\ Column(l)[g] \in Int
  BY SharesAre DEF Column
<1>3. PICK f : SetSumsOf(f, Column(l), Groups)
  BY <1>1, SetSumsExist
<1>4. ASSUME NEW gs \in SUBSET Groups PROVE ShareOf(gs, l) = f[gs]
  <2> DEFINE body(h) == [s \in SUBSET gs |->
                           IF s = {} THEN 0
                           ELSE Shares[CHOOSE g \in s : TRUE][l] + h[s \ {CHOOSE g \in s : TRUE}]]
             iter == CHOOSE h : h = body(h)
  <2>1. ASSUME NEW h PROVE SetSumsOf(h, Column(l), gs) <=> h = body(h)
    <3>1. ASSUME NEW s \in SUBSET gs
          PROVE  (IF s = {} THEN 0 ELSE Column(l)[OneOf(s)] + h[s \ {OneOf(s)}])
                   = (IF s = {} THEN 0
                      ELSE Shares[CHOOSE g \in s : TRUE][l] + h[s \ {CHOOSE g \in s : TRUE}])
      <4>1. OneOf(s) = CHOOSE g \in s : TRUE
        BY DEF OneOf
      <4>2. s # {} => OneOf(s) \in Groups
        BY DEF OneOf
      <4> QED BY <4>1, <4>2, <1>2
    <3>2. [s \in SUBSET gs |-> IF s = {} THEN 0 ELSE Column(l)[OneOf(s)] + h[s \ {OneOf(s)}]]
             = body(h)
      BY <3>1
    <3> QED BY <3>2 DEF SetSumsOf
  <2>2. IsFiniteSet(gs)
    BY <1>1, FS_Subset
  <2>3. iter = body(iter)
    <3>1. PICK h : SetSumsOf(h, Column(l), gs)
      BY <2>2, SetSumsExist
    <3>2. h = body(h)
      BY <2>1, <3>1
    <3> HIDE DEF body
    <3> QED BY <3>2
  <2>4. SetSumsOf(iter, Column(l), gs)
    BY <2>1, <2>3
  <2>5. ShareOf(gs, l) = iter[gs]
    BY DEF ShareOf, MapThenFoldSet
  <2> HIDE DEF iter
  <2>6. \A s \in SUBSET gs : iter[s] = f[s]
    BY <1>1, <1>3, <2>4, SetSumsAgree
  <2> QED BY <2>5, <2>6
<1>5. NumberSums(f, Column(l), Groups)
  BY <1>1, <1>2, <1>3 DEF NumberSums
<1> QED BY <1>4, <1>5

LEMMA ShareOfGrows ==
  ASSUME NEW l \in Lanes, NEW gs \in SUBSET Groups, NEW g \in Groups, g \notin gs
  PROVE  ShareOf(gs \cup {g}, l) = ShareOf(gs, l) + Shares[g][l]
<1>1. PICK f : /\ NumberSums(f, Column(l), Groups)
               /\ \A hs \in SUBSET Groups : ShareOf(hs, l) = f[hs]
  BY ShareOfIsSum
<1>2. (gs \cup {g}) \in SUBSET Groups /\ g \in gs \cup {g} /\ (gs \cup {g}) \ {g} = gs
  OBVIOUS
<1>3. f[gs \cup {g}] = f[(gs \cup {g}) \ {g}] + Column(l)[g]
  BY <1>1, <1>2, SetSumRemove
<1>4. Column(l)[g] = Shares[g][l]
  BY DEF Column
<1> QED BY <1>1, <1>2, <1>3, <1>4

LEMMA ShareOfRest ==
  ASSUME NEW l \in Lanes, NEW gs \in SUBSET Groups
  PROVE  /\ ShareOf(gs, l) \in Int /\ ShareOf({}, l) = 0
         /\ ShareOf(gs, l) = Total(l) - ShareOf(Groups \ gs, l)
<1>1. PICK f : /\ NumberSums(f, Column(l), Groups)
               /\ \A hs \in SUBSET Groups : ShareOf(hs, l) = f[hs]
  BY ShareOfIsSum
<1>2. f[Groups] = f[gs] + f[Groups \ gs]
  BY <1>1, SetSumSplit
<1>3. \A hs \in SUBSET Groups : f[hs] \in Int
  BY <1>1, SetSumsAreNumbers
<1>4. f[{}] = 0
  BY <1>1, SetSumEmpty DEF NumberSums
<1>5. /\ gs \in SUBSET Groups /\ Groups \in SUBSET Groups /\ (Groups \ gs) \in SUBSET Groups
      /\ {} \in SUBSET Groups
  OBVIOUS
<1>6. /\ ShareOf(gs, l) = f[gs] /\ ShareOf(Groups, l) = f[Groups]
      /\ ShareOf(Groups \ gs, l) = f[Groups \ gs] /\ ShareOf({}, l) = f[{}]
  BY <1>1, <1>5
<1>7. f[gs] \in Int /\ f[Groups] \in Int /\ f[Groups \ gs] \in Int
  BY <1>3, <1>5
<1>8. f[gs] = f[Groups] - f[Groups \ gs]
  BY <1>2, <1>7
<1> QED BY <1>4, <1>6, <1>7, <1>8 DEF Total

(* A lane of c that group 0 has yet to zero holds what the launch found    *)
(* and some sums; from then on it holds the sums of added, and the groups  *)
(* that came too soon are in early.                                        *)
LossInv(l) ==
  IF pc[0] = "zero" /\ l \in pend[0]
  THEN ever[l] \subseteq added[l]
  ELSE ever[l] \subseteq early[l] \cup added[l] /\ c[l] = ShareOf(added[l], l)

Losses == \A l \in Lanes : LossInv(l)

LEMMA LossStep == IInv /\ Losses /\ [Next]_raVars => Losses'
<1> SUFFICES ASSUME IInv, Losses, [Next]_raVars PROVE Losses'
  OBVIOUS
<1>0. /\ TypeOK /\ 0 \in Groups
      /\ pc \in [Groups -> {"zero", "sum", "load", "swap", "end"}]
      /\ pend \in [Groups -> SUBSET Lanes] /\ c \in [Lanes -> Value]
      /\ added \in [Lanes -> SUBSET Groups] /\ ever \in [Lanes -> SUBSET Groups]
      /\ early \in [Lanes -> SUBSET Groups]
      /\ \A l \in Lanes : LossInv(l)
  BY GroupZero DEF IInv, TypeOK, Losses
<1>1. CASE Launch
  <2>1. /\ pc'[0] = "zero" /\ pend'[0] = Lanes /\ \A l \in Lanes : ever'[l] = {}
    BY <1>0, <1>1 DEF Launch, StartPc, StartPend, Nobody
  <2> QED BY <2>1 DEF Losses, LossInv
<1>2. ASSUME NEW l \in Lanes, StoreZero(l) PROVE Losses'
  <2>1. /\ pc[0] = "zero" /\ l \in pend[0] /\ pc' = pc /\ ever' = ever
        /\ c' = [c EXCEPT ![l] = 0] /\ pend' = [pend EXCEPT ![0] = @ \ {l}]
        /\ early' = [early EXCEPT ![l] = added[l]]
        /\ added' = [added EXCEPT ![l] = {}]
    BY <1>2 DEF StoreZero
  <2>2. pend'[0] = pend[0] \ {l}
    BY <1>0, <2>1
  <2>3. LossInv(l)'
    <3>1. c'[l] = 0 /\ added'[l] = {} /\ early'[l] = added[l]
      BY <1>0, <2>1
    <3>2. ever[l] \subseteq added[l]
      BY <1>0, <2>1 DEF LossInv
    <3>3. ShareOf({}, l) = 0
      BY ShareOfRest
    <3> QED BY <2>1, <2>2, <3>1, <3>2, <3>3 DEF LossInv
  <2>4. ASSUME NEW k \in Lanes, k # l PROVE LossInv(k)'
    <3>1. c'[k] = c[k] /\ added'[k] = added[k] /\ early'[k] = early[k]
      BY <1>0, <2>1, <2>4
    <3>2. k \in pend'[0] <=> k \in pend[0]
      BY <2>2, <2>4
    <3>3. LossInv(k)
      BY <1>0
    <3>4. ShareOf(added[k], k)' = ShareOf(added[k], k)
      BY <3>1
    <3> QED BY <2>1, <3>1, <3>2, <3>3, <3>4 DEF LossInv
  <2> QED BY <2>3, <2>4 DEF Losses
<1>3. ASSUME NEW g \in Groups, NEW l \in Lanes, CompareSwap(g, l) PROVE Losses'
  <2>1. /\ pc[g] = "swap" /\ l \in pend[g] /\ pc' = pc /\ early' = early
        /\ pend' = [pend EXCEPT ![g] = @ \ {l}]
    BY <1>3 DEF CompareSwap
  <2>2. \A k \in Lanes : pc[0] = "zero" => (k \in pend'[0] <=> k \in pend[0])
    BY <1>0, <2>1
  <2>3. CASE ~SwapHits(g, l)
    <3>1. UNCHANGED <<c, added, ever>>
      BY <1>3, <2>3 DEF CompareSwap
    <3> QED BY <1>0, <2>1, <2>2, <3>1 DEF Losses, LossInv
  <2>4. CASE SwapHits(g, l)
    <3>1. /\ c' = [c EXCEPT ![l] = FAdd(prev[g][l], sum[g][l])]
          /\ added' = [added EXCEPT ![l] = @ \cup {g}]
          /\ ever' = [ever EXCEPT ![l] = @ \cup {g}]
          /\ c[l] = prev[g][l]
      BY <1>3, <2>4 DEF CompareSwap, NewVal, SwapHits
    <3>2. /\ c'[l] = FAdd(c[l], sum[g][l])
          /\ added'[l] = added[l] \cup {g} /\ ever'[l] = ever[l] \cup {g}
      BY <1>0, <3>1
    <3>3. sum[g][l] = Shares[g][l] /\ (g \notin added[l] \/ c[l] = NaN)
      <4>1. LaneInv(g, l) /\ l \in exec[g]
        BY <2>1 DEF IInv, TypeOK
      <4> QED BY <2>1, <4>1 DEF LaneInv, SumKnown, NoSecondAdd
    <3>4. LossInv(l)'
      <4>1. CASE pc[0] = "zero" /\ l \in pend[0]
        <5>1. ever[l] \subseteq added[l]
          BY <1>0, <4>1 DEF LossInv
        <5> QED BY <2>1, <2>2, <3>2, <4>1, <5>1 DEF LossInv
      <4>2. CASE ~(pc[0] = "zero" /\ l \in pend[0])
        <5>1. ever[l] \subseteq early[l] \cup added[l] /\ c[l] = ShareOf(added[l], l)
          BY <1>0, <4>2 DEF LossInv
        <5>2. added[l] \in SUBSET Groups
          BY <1>0
        <5>3. c[l] \in Int
          BY <5>1, <5>2, ShareOfRest
        <5>4. g \notin added[l]
          BY <3>3, <5>3, NumbersOnly
        <5>5. Shares[g][l] \in Int
          BY SharesAre
        <5>6. c'[l] = c[l] + Shares[g][l]
          BY <3>2, <3>3, <5>3, <5>5, NumbersOnly DEF FAdd
        <5>7. ShareOf(added[l] \cup {g}, l) = ShareOf(added[l], l) + Shares[g][l]
          BY <5>2, <5>4, ShareOfGrows
        <5>8. c'[l] = ShareOf(added'[l], l)
          BY <3>2, <5>1, <5>6, <5>7
        <5>9. ever'[l] \subseteq early'[l] \cup added'[l]
          BY <2>1, <3>2, <5>1
        <5>10. ~(pc'[0] = "zero" /\ l \in pend'[0])
          BY <2>1, <2>2, <4>2
        <5> QED BY <5>8, <5>9, <5>10 DEF LossInv
      <4> QED BY <4>1, <4>2
    <3>5. ASSUME NEW k \in Lanes, k # l PROVE LossInv(k)'
      <4>1. c'[k] = c[k] /\ added'[k] = added[k] /\ ever'[k] = ever[k] /\ LossInv(k)
        BY <1>0, <3>1, <3>5
      <4> QED BY <2>1, <2>2, <4>1 DEF LossInv
    <3> QED BY <3>4, <3>5 DEF Losses
  <2> QED BY <2>3, <2>4
<1>4. ASSUME UNCHANGED <<c, added, ever, early>>,
             \A l \in Lanes : pc'[0] = "zero" /\ l \in pend'[0] <=> pc[0] = "zero" /\ l \in pend[0]
      PROVE  Losses'
  BY <1>0, <1>4 DEF Losses, LossInv
<1>5. CASE Zeroed
  <2>1. pc[0] = "zero" /\ pend[0] = {} /\ pend' = pend /\ UNCHANGED <<c, added, ever, early>>
    BY <1>5 DEF Zeroed
  <2> QED BY <1>4, <2>1
<1>6. ASSUME NEW g \in Groups,
             SumTile(g) \/ Loaded(g) \/ Branch(g) \/ \E l \in Lanes : Load(g, l)
      PROVE  Losses'
  <2>1. /\ pc[g] # "zero" /\ UNCHANGED <<c, added, ever, early>>
        /\ \E x, y : pc' = [pc EXCEPT ![g] = x] /\ pend' = [pend EXCEPT ![g] = y] /\ x # "zero"
    <3>1. CASE SumTile(g)
      BY <3>1 DEF SumTile
    <3>2. CASE Loaded(g)
      BY <3>2 DEF Loaded
    <3>3. CASE Branch(g)
      <4>1. /\ pc[g] = "swap" /\ UNCHANGED <<c, added, ever, early>>
            /\ pend' = [pend EXCEPT ![g] = Retrying(g)]
            /\ pc' = [pc EXCEPT ![g] = IF Retrying(g) = {} THEN "end" ELSE "swap"]
        BY <3>3 DEF Branch
      <4>2. (IF Retrying(g) = {} THEN "end" ELSE "swap") # "zero"
        OBVIOUS
      <4> QED BY <4>1, <4>2
    <3>4. ASSUME NEW l \in Lanes, Load(g, l)
          PROVE  /\ pc[g] # "zero" /\ UNCHANGED <<c, added, ever, early>>
                 /\ \E x, y : pc' = [pc EXCEPT ![g] = x] /\ pend' = [pend EXCEPT ![g] = y]
                              /\ x # "zero"
      <4>1. /\ pc[g] = "load" /\ pc' = pc /\ UNCHANGED <<c, added, ever, early>>
            /\ pend' = [pend EXCEPT ![g] = pend[g] \ {l}]
        BY <3>4 DEF Load
      <4>2. pc' = [pc EXCEPT ![g] = "load"]
        BY <1>0, <4>1
      <4> QED BY <4>1, <4>2
    <3> QED BY <1>6, <3>1, <3>2, <3>3, <3>4
  <2>2. PICK x, y : pc' = [pc EXCEPT ![g] = x] /\ pend' = [pend EXCEPT ![g] = y] /\ x # "zero"
    BY <2>1
  <2>3. CASE g = 0
    <3>1. pc[0] # "zero" /\ pc'[0] # "zero"
      BY <1>0, <2>1, <2>2, <2>3
    <3> QED BY <1>4, <2>1, <3>1
  <2>4. CASE g # 0
    <3>1. pc'[0] = pc[0] /\ pend'[0] = pend[0]
      BY <1>0, <2>2, <2>4
    <3> QED BY <1>4, <2>1, <3>1
  <2> QED BY <2>3, <2>4
<1>7. CASE UNCHANGED raVars
  <2>1. UNCHANGED <<c, added, ever, early, pc, pend>>
    BY <1>7 DEF raVars
  <2> QED BY <1>4, <2>1
<1> QED BY <1>1, <1>2, <1>3, <1>5, <1>6, <1>7 DEF Next, Wave

(* At the end of a launch a lane of c lacks exactly the sums of the groups *)
(* that added before group 0 had stored its zero and were not there again  *)
(* afterwards: for any number of groups and whatever the input is.         *)
THEOREM OnlyEarlySharesAreLost == Spec => []LossIsEarlyShares
<1>1. Init => Losses
  <2>1. Init => pc[0] = "zero" /\ pend[0] = Lanes /\ \A l \in Lanes : ever[l] = {}
    BY GroupZero DEF Init, StartPc, StartPend, Nobody
  <2> QED BY <2>1 DEF Losses, LossInv
<1>2. ASSUME IInv, Losses, AllEnded, NEW l \in Lanes, found[l] # MinusZero
      PROVE  c[l] = Total(l) - ShareOf(early[l] \ added[l], l)
  <2>1. pc[0] = "end"
    BY <1>2, GroupZero DEF AllEnded
  <2>2. ever[l] \subseteq early[l] \cup added[l] /\ c[l] = ShareOf(added[l], l)
    BY <1>2, <2>1 DEF Losses, LossInv
  <2>3. added[l] \in SUBSET Groups /\ early[l] \in SUBSET Groups
    BY <1>2 DEF IInv, TypeOK
  <2>4. \A g \in Groups : g \in ever[l]
    BY <1>2 DEF AllEnded, IInv, LaneInv, AddsBeforeLeaving
  <2>5. Groups \ added[l] = early[l] \ added[l]
    BY <2>2, <2>3, <2>4
  <2>6. ShareOf(added[l], l) = Total(l) - ShareOf(Groups \ added[l], l)
    BY <2>3, ShareOfRest
  <2> QED BY <2>2, <2>5, <2>6
<1>3. IInv /\ Losses => LossIsEarlyShares
  BY <1>2 DEF LossIsEarlyShares
<1> QED
  BY <1>1, <1>3, InvInductive, LossStep, PTL DEF Spec
-----------------------------------------------------------------------------
(* The host adds up the rows one after the other; the device adds up tiles *)
(* of them.                                                                *)
RowsOf(l) == [j \in 1 .. ReducSize |-> Input[j - 1][l]]

LEMMA HostSumIs ==
  ASSUME NEW l \in Lanes
  PROVE  \E f : SumsOf(f, RowsOf(l), ReducSize) /\ HostSum(l) = f[ReducSize]
<1> DEFINE body(f) == [j \in 0 .. ReducSize |-> IF j = 0 THEN 0 ELSE f[j - 1] + Input[j - 1][l]]
           tmp == CHOOSE f : f = body(f)
<1>1. ReducSize \in Nat
  BY ReducAssumption DEF ReducAssumption
<1>2. \A j \in 1 .. ReducSize : RowsOf(l)[j] = Input[j - 1][l]
  BY DEF RowsOf
<1>3. \A f : SumsOf(f, RowsOf(l), ReducSize) <=> f = body(f)
  <2>1. ASSUME NEW f, NEW j \in 0 .. ReducSize
        PROVE  (IF j = 0 THEN 0 ELSE f[j - 1] + RowsOf(l)[j])
                 = (IF j = 0 THEN 0 ELSE f[j - 1] + Input[j - 1][l])
    <3>1. j # 0 => j \in 1 .. ReducSize
      BY <1>1
    <3> QED BY <1>2, <3>1
  <2>2. ASSUME NEW f
        PROVE  [j \in 0 .. ReducSize |-> IF j = 0 THEN 0 ELSE f[j - 1] + RowsOf(l)[j]] = body(f)
    BY <2>1
  <2> QED BY <2>2 DEF SumsOf
<1>4. tmp = body(tmp)
  <2>1. PICK f : SumsOf(f, RowsOf(l), ReducSize)
    BY <1>1, SumsExist
  <2>2. f = body(f)
    BY <1>3, <2>1
  <2> HIDE DEF body
  <2> QED BY <2>2
<1>5. SumsOf(tmp, RowsOf(l), ReducSize)
  BY <1>3, <1>4
<1>6. HostSum(l) = tmp[ReducSize]
  BY DEF HostSum
<1> HIDE DEF tmp
<1> QED BY <1>5, <1>6

(* One more tile: the host's sum grows by the sum of the tile.             *)
LEMMA HostAddsTile ==
  ASSUME NEW g \in Groups, NEW l \in Lanes, NEW h, SumsOf(h, RowsOf(l), ReducSize)
  PROVE  h[(g + 1) * Tile] = h[g * Tile] + TileSum(g, l)
<1> DEFINE before == g * Tile
           after == (g + 1) * Tile
           row == [n \in 1 .. Tile |-> Input[before + n - 1][l]]
<1>1. /\ ReducSize \in Nat /\ Tile \in Nat /\ g \in Nat
      /\ \A j \in 0 .. ReducSize - 1 : Input[j][l] \in Int
  <2>1. \A a \in Nat, b \in Nat \ {0} : a \div b \in Nat
    OBVIOUS
  <2>2. \A j \in 0 .. ReducSize - 1 : Input[j] \in [Lanes -> Int]
    BY ReducAssumption DEF ReducAssumption
  <2> QED BY <2>1, <2>2, ReducAssumption DEF ReducAssumption, Tile, Groups
<1>2. before \in Nat /\ after = before + Tile
  BY <1>1
<1>3. PICK f : SumsOf(f, row, Tile) /\ TileSum(g, l) = f[Tile]
  BY TileSumIs
<1>4. \A n \in 1 .. Tile : before + n - 1 \in 0 .. ReducSize - 1
  BY RowsOfTile
<1> HIDE DEF before, after
<1>5. \A n \in 1 .. Tile : /\ row[n] = Input[before + n - 1][l] /\ row[n] \in Int
                           /\ before + n \in 1 .. ReducSize
                           /\ RowsOf(l)[before + n] = row[n]
  <2> TAKE n \in 1 .. Tile
  <2>1. before + n \in 1 .. ReducSize /\ (before + n) - 1 = before + n - 1
    BY <1>1, <1>2, <1>4
  <2> QED BY <1>1, <1>4, <2>1 DEF RowsOf
<1>6. \A j \in 1 .. ReducSize : RowsOf(l)[j] \in Int
  <2> TAKE j \in 1 .. ReducSize
  <2>1. j - 1 \in 0 .. ReducSize - 1
    BY <1>1
  <2> QED BY <1>1, <2>1 DEF RowsOf
<1> HIDE DEF row
<1>7. /\ f[0] = 0 /\ \A n \in 1 .. Tile : f[n] = f[n - 1] + row[n]
      /\ \A n \in 0 .. Tile : f[n] \in Int
  <2>1. \A n \in 1 .. Tile : row[n] \in Int
    BY <1>5
  <2> QED BY <1>1, <1>3, <2>1, SumsAreNumbers
<1>8. /\ \A j \in 1 .. ReducSize : h[j] = h[j - 1] + RowsOf(l)[j]
      /\ \A j \in 0 .. ReducSize : h[j] \in Int
  BY <1>1, <1>6, SumsAreNumbers
<1>9. \A n \in 0 .. Tile : before + n \in 0 .. ReducSize
  <2>1. Tile > 0
    BY ReducAssumption DEF ReducAssumption
  <2>2. before + Tile \in 1 .. ReducSize
    BY <1>1, <1>5, <2>1
  <2> QED BY <1>1, <1>2, <2>2
<1>10. \A n \in 0 .. Tile : h[before + n] = h[before] + f[n]
  <2> DEFINE S == {n \in 0 .. Tile : h[before + n] = h[before] + f[n]}
  <2>1. 0 \in S
    <3>1. before + 0 = before /\ h[before] \in Int /\ 0 \in 0 .. Tile
      BY <1>1, <1>2, <1>8, <1>9
    <3> QED BY <3>1, <1>7
  <2>2. ASSUME NEW n \in 1 .. Tile, n - 1 \in S PROVE n \in S
    <3>1. h[before + n] = h[(before + n) - 1] + RowsOf(l)[before + n]
      BY <1>5, <1>8
    <3>2. (before + n) - 1 = before + (n - 1)
      BY <1>2
    <3>3. h[before + (n - 1)] = h[before] + f[n - 1]
      BY <2>2
    <3>4. f[n] = f[n - 1] + row[n] /\ RowsOf(l)[before + n] = row[n]
      BY <1>5, <1>7
    <3>5. h[before] \in Int /\ f[n - 1] \in Int /\ row[n] \in Int /\ n - 1 \in 0 .. Tile /\ n \in 0 .. Tile
      <4>1. n - 1 \in 0 .. Tile /\ 0 \in 0 .. Tile /\ before + 0 = before
        BY <1>1, <1>2
      <4>2. before \in 0 .. ReducSize
        BY <1>9, <4>1
      <4> QED BY <1>5, <1>7, <1>8, <4>1, <4>2
    <3>6. h[before + n] = h[before] + f[n]
      <4>1. h[before + n] = (h[before] + f[n - 1]) + row[n]
        BY <3>1, <3>2, <3>3, <3>4
      <4> QED BY <3>4, <3>5, <4>1
    <3> QED BY <3>5, <3>6
  <2> HIDE DEF S
  <2>3. \A n \in 0 .. Tile : n \in S
    BY <1>1, <2>1, <2>2, AllUpTo
  <2> QED BY <2>3 DEF S
<1>11. h[after] = h[before] + f[Tile]
  BY <1>1, <1>2, <1>10
<1> QED BY <1>3, <1>11 DEF before, after

(* If the groups' tiles make up all the rows, the host's sum of a column   *)
(* is the sum of the groups' shares.                                       *)
LEMMA HostSumIsTotal ==
  ASSUME TileGroup * Tile = ReducSize, NEW l \in Lanes
  PROVE  HostSum(l) = Total(l)
<1>1. PICK h : SumsOf(h, RowsOf(l), ReducSize) /\ HostSum(l) = h[ReducSize]
  BY HostSumIs
<1>2. PICK f : /\ NumberSums(f, Column(l), Groups)
               /\ \A gs \in SUBSET Groups : ShareOf(gs, l) = f[gs]
  BY ShareOfIsSum
<1> DEFINE S == {k \in 0 .. TileGroup : h[k * Tile] = f[0 .. k - 1]}
<1>3. TileGroup \in Nat /\ Tile \in Nat /\ ReducSize \in Nat /\ Groups = 0 .. TileGroup - 1
  <2>1. \A a \in Nat, b \in Nat \ {0} : a \div b \in Nat
    OBVIOUS
  <2> QED BY <2>1, ReducAssumption DEF ReducAssumption, Tile, Groups
<1>4. 0 \in S
  <2>1. 0 * Tile = 0 /\ (0 .. 0 - 1) = {}
    BY <1>3
  <2>2. f[{}] = 0
    BY <1>2, SetSumEmpty DEF NumberSums
  <2>3. h[0] = 0
    <3>1. 0 \in 0 .. ReducSize
      BY <1>3
    <3> QED BY <1>1, <3>1 DEF SumsOf
  <2> QED BY <1>3, <2>1, <2>2, <2>3
<1>5. ASSUME NEW k \in 1 .. TileGroup, k - 1 \in S PROVE k \in S
  <2>1. k - 1 \in Groups /\ (k - 1) + 1 = k
    BY <1>3
  <2>2. h[k * Tile] = h[(k - 1) * Tile] + TileSum(k - 1, l)
    <3>1. h[((k - 1) + 1) * Tile] = h[(k - 1) * Tile] + TileSum(k - 1, l)
      BY <1>1, <2>1, HostAddsTile
    <3> QED BY <2>1, <3>1
  <2>3. /\ 0 .. k - 1 \in SUBSET Groups /\ k - 1 \in 0 .. k - 1
        /\ (0 .. k - 1) \ {k - 1} = 0 .. (k - 1) - 1
    BY <1>3
  <2>4. f[0 .. k - 1] = f[0 .. (k - 1) - 1] + Column(l)[k - 1]
    <3> DEFINE A == 0 .. k - 1
               B == 0 .. (k - 1) - 1
    <3>1. A \in SUBSET Groups /\ k - 1 \in A /\ A \ {k - 1} = B
      BY <2>3
    <3> HIDE DEF A, B
    <3>2. f[A] = f[A \ {k - 1}] + Column(l)[k - 1]
      BY <1>2, <3>1, SetSumRemove
    <3>3. f[A] = f[B] + Column(l)[k - 1]
      BY <3>1, <3>2
    <3> QED BY <3>3 DEF A, B
  <2>5. Column(l)[k - 1] = TileSum(k - 1, l)
    BY <2>1, SharesAre DEF Column
  <2>6. h[(k - 1) * Tile] = f[0 .. (k - 1) - 1]
    BY <1>5
  <2>7. h[k * Tile] = f[0 .. k - 1]
    BY <2>2, <2>4, <2>5, <2>6
  <2> QED BY <1>3, <2>7
<1> HIDE DEF S
<1>6. \A k \in 0 .. TileGroup : k \in S
  BY <1>3, <1>4, <1>5, AllUpTo
<1>7. h[TileGroup * Tile] = f[0 .. TileGroup - 1]
  <2>1. TileGroup \in S
    BY <1>3, <1>6
  <2> QED BY <2>1 DEF S
<1>8. Total(l) = f[Groups]
  BY <1>2 DEF Total
<1> QED BY <1>1, <1>3, <1>7, <1>8

(* Where no group's addition was wiped out by the zeroing, the device's    *)
(* result is the host's.                                                   *)
VerifiedUnlessEarly ==
  AllEnded => \A l \in Lanes :
     found[l] # MinusZero /\ early[l] \subseteq added[l] => c[l] = HostSum(l)

(* ReducAdd.cpp's Verify can only fail for what the missing order between  *)
(* the zeroing and the other groups wipes out, or a minus zero, as long as *)
(* the number of groups divides the number of rows.                        *)
THEOREM VerifyFailsOnlyIfEarly ==
  ASSUME TileGroup * Tile = ReducSize
  PROVE  Spec => []VerifiedUnlessEarly
<1>1. ASSUME TypeOK, LossIsEarlyShares, AllEnded,
             NEW l \in Lanes, found[l] # MinusZero, early[l] \subseteq added[l]
      PROVE  c[l] = HostSum(l)
  <2>1. c[l] = Total(l) - ShareOf(early[l] \ added[l], l)
    BY <1>1 DEF LossIsEarlyShares
  <2>2. early[l] \ added[l] = {}
    BY <1>1
  <2>3. ShareOf({}, l) = 0 /\ Total(l) \in Int
    <3>1. Groups \in SUBSET Groups /\ {} \in SUBSET Groups
      OBVIOUS
    <3> QED BY <3>1, ShareOfRest DEF Total
  <2>4. c[l] = Total(l)
    <3>1. ShareOf(early[l] \ added[l], l) = 0
      BY <2>2, <2>3
    <3>2. Total(l) - 0 = Total(l)
      BY <2>3
    <3> QED BY <2>1, <3>1, <3>2
  <2> QED BY <2>4, HostSumIsTotal
<1>2. TypeOK /\ LossIsEarlyShares => VerifiedUnlessEarly
  BY <1>1 DEF VerifiedUnlessEarly
<1> QED BY <1>2, TypeCorrect, OnlyEarlySharesAreLost, PTL
=============================================================================
