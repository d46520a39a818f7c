------------------------------- MODULE ReducAdd -------------------------------
(***************************************************************************)
(* The reduction kernel the generator writes for method 3                  *)
(* (ReducAddKernelWriter.h) as its work groups run it, launched the way    *)
(* ReducAdd.cpp does: one wave per group; group g sums rows g * Tile to    *)
(* (g + 1) * Tile - 1 of the input, each lane its own column, and adds the *)
(* sum to c[lane], which all groups share, by compare and swap.  Group 0   *)
(* sets c to 0 before it starts; nothing orders that with the other groups.*)
(*                                                                         *)
(* A memory instruction of a wave reaches memory lane by lane; a step that *)
(* only touches registers of its own wave is joined with its neighbours.   *)
(***************************************************************************)
EXTENDS DeviceFloat, FiniteSets, Folds

CONSTANTS
  ReducSize,     \* rows of the input
  TileGroup,     \* number of groups
  Lanes,         \* the threads of a wave
  Input,         \* the input, [row][lane]
  FoundInC,      \* what a lane of c may hold when the buffer has been allocated
  MaxLaunches    \* bound on warm-up and measured launches

Tile == ReducSize \div TileGroup
Groups == 0 .. TileGroup - 1

ASSUME ReducAssumption ==
  /\ ReducSize \in Nat /\ TileGroup \in Nat \ {0} /\ Tile > 0
  /\ Input \in [0 .. ReducSize - 1 -> [Lanes -> Int]]
  /\ FoundInC \subseteq Value
  /\ MaxLaunches \in Nat

VARIABLES
  c,          \* the buffer c
  pc,         \* where each wave is: zero, sum, load, swap, end
  exec,       \* the lanes of each wave that still loop
  pend,       \* those whose memory access has not been performed yet
  sum,        \* v_sum
  prev,       \* v_tmp1, the value a lane expects in memory
  rtn,        \* v_rtn, the value its compare and swap found
  launches,
  added,      \* history: the groups whose sum c[lane] holds, since it was zeroed
  ever,       \* history: those that have added to it in this launch
  early,      \* history: those that added before group 0 had zeroed it
  found       \* history: c as this launch found it

raVars == <<c, pc, exec, pend, sum, prev, rtn, launches, added, ever, early, found>>

Idle == [g \in Groups |-> [l \in Lanes |-> 0]]
Nobody == [l \in Lanes |-> {}]

(* for (Tile) { v_sum += v_a; } over the rows of group g.                  *)
TileSum(g, l) ==
  LET acc[n \in 0 .. Tile] == IF n = 0 THEN 0 ELSE acc[n - 1] + Input[g * Tile + n - 1][l]
  IN  acc[Tile]
Shares == [g \in Groups |-> [l \in Lanes |-> TileSum(g, l)]]
-----------------------------------------------------------------------------
(* The waves of a launch: group 0 starts with the zeroing, the others      *)
(* branch to END_INIT.                                                     *)
StartPc == [g \in Groups |-> IF g = 0 THEN "zero" ELSE "sum"]
StartPend == [g \in Groups |-> IF g = 0 THEN Lanes ELSE {}]
AllLanes == [g \in Groups |-> Lanes]

Init ==
  /\ c \in [Lanes -> FoundInC]
  /\ pc = StartPc /\ exec = AllLanes /\ pend = StartPend
  /\ sum = Idle /\ prev = Idle /\ rtn = Idle
  /\ launches = 1
  /\ added = Nobody /\ ever = Nobody /\ early = Nobody
  /\ found = c

(* c[lane] = 0: one lane's store of group 0 is performed.                  *)
StoreZero(l) ==
  /\ pc[0] = "zero" /\ l \in pend[0]
  /\ c' = [c EXCEPT ![l] = 0]
  /\ pend' = [pend EXCEPT ![0] = @ \ {l}]
  /\ early' = [early EXCEPT ![l] = added[l]]
  /\ added' = [added EXCEPT ![l] = {}]
  /\ UNCHANGED <<pc, exec, sum, prev, rtn, launches, ever, found>>

(* s_waitcnt vmcnt(0) and END_INIT.                                        *)
Zeroed ==
  /\ pc[0] = "zero" /\ pend[0] = {}
  /\ pc' = [pc EXCEPT ![0] = "sum"]
  /\ UNCHANGED <<c, exec, pend, sum, prev, rtn, launches, added, ever, early, found>>

(* ADD_LOOP, and the first load of c is issued.                            *)
SumTile(g) ==
  /\ pc[g] = "sum"
  /\ sum' = [sum EXCEPT ![g] = Shares[g]]
  /\ pc' = [pc EXCEPT ![g] = "load"]
  /\ pend' = [pend EXCEPT ![g] = exec[g]]
  /\ UNCHANGED <<c, exec, prev, rtn, launches, added, ever, early, found>>

(* prevVal = source, lane by lane.                                         *)
Load(g, l) ==
  /\ pc[g] = "load" /\ l \in pend[g]
  /\ prev' = [prev EXCEPT ![g][l] = c[l]]
  /\ pend' = [pend EXCEPT ![g] = @ \ {l}]
  /\ UNCHANGED <<c, pc, exec, sum, rtn, launches, added, ever, early, found>>

(* The wait after the load; ATOMIC_ADD is reached.                         *)
Loaded(g) ==
  /\ pc[g] = "load" /\ pend[g] = {}
  /\ pc' = [pc EXCEPT ![g] = "swap"]
  /\ pend' = [pend EXCEPT ![g] = exec[g]]
  /\ UNCHANGED <<c, exec, sum, prev, rtn, launches, added, ever, early, found>>

NewVal(g, l) == FAdd(prev[g][l], sum[g][l])

(* atomic_cmpxchg(source, prevVal, newVal), lane by lane; it compares bits.*)
SwapAlways(g, l) == TRUE          \* mutant: a plain store, not a swap
SwapHits(g, l) == c[l] = prev[g][l]
CompareSwap(g, l) ==
  /\ pc[g] = "swap" /\ l \in pend[g]
  /\ rtn' = [rtn EXCEPT ![g][l] = c[l]]
  /\ pend' = [pend EXCEPT ![g] = @ \ {l}]
  /\ IF SwapHits(g, l)
     THEN /\ c' = [c EXCEPT ![l] = NewVal(g, l)]
          /\ added' = [added EXCEPT ![l] = @ \cup {g}]
          /\ ever' = [ever EXCEPT ![l] = @ \cup {g}]
     ELSE UNCHANGED <<c, added, ever>>
  /\ UNCHANGED <<pc, exec, sum, prev, launches, early, found>>

(* v_cmpx_neq_f32 leaves the lanes that have to try again; prevVal is what *)
(* they found; s_cbranch_execnz.                                           *)
RetryNone(g) == {}                \* mutant: one attempt only
RetryAll(g) ==                    \* mutant: v_cmp for v_cmpx, no lane is masked
  IF \E l \in exec[g] : FNeq(prev[g][l], rtn[g][l]) THEN exec[g] ELSE {}
Retrying(g) == {l \in exec[g] : FNeq(prev[g][l], rtn[g][l])}
BranchKeepsPrev(g) ==             \* mutant: prevVal is not refreshed
  /\ pc[g] = "swap" /\ pend[g] = {}
  /\ exec' = [exec EXCEPT ![g] = Retrying(g)]
  /\ pend' = [pend EXCEPT ![g] = Retrying(g)]
  /\ pc' = [pc EXCEPT ![g] = IF Retrying(g) = {} THEN "end" ELSE "swap"]
  /\ UNCHANGED <<c, sum, prev, rtn, launches, added, ever, early, found>>
BranchStaleMask(g) ==             \* mutant: the next swap is issued for all lanes
  /\ pc[g] = "swap" /\ pend[g] = {}
  /\ exec' = [exec EXCEPT ![g] = Retrying(g)]
  /\ prev' = [prev EXCEPT ![g] = rtn[g]]
  /\ pend' = [pend EXCEPT ![g] = exec[g]]
  /\ pc' = [pc EXCEPT ![g] = IF Retrying(g) = {} THEN "end" ELSE "swap"]
  /\ UNCHANGED <<c, sum, rtn, launches, added, ever, early, found>>
Branch(g) ==
  /\ pc[g] = "swap" /\ pend[g] = {}
  /\ exec' = [exec EXCEPT ![g] = Retrying(g)]
  /\ prev' = [prev EXCEPT ![g] =
                [l \in Lanes |-> IF l \in Retrying(g) THEN rtn[g][l] ELSE prev[g][l]]]
  /\ pend' = [pend EXCEPT ![g] = Retrying(g)]
  /\ pc' = [pc EXCEPT ![g] = IF Retrying(g) = {} THEN "end" ELSE "swap"]
  /\ UNCHANGED <<c, sum, rtn, launches, added, ever, early, found>>

AllEnded == \A g \in Groups : pc[g] = "end"

(* The next launch (warm-up, then RepeatTime ones) of the same buffers:    *)
(* the host only waits for the last one, it does not touch c.              *)
Launch ==
  /\ AllEnded
  /\ launches < MaxLaunches
  /\ launches' = launches + 1
  /\ pc' = StartPc /\ exec' = AllLanes /\ pend' = StartPend
  /\ sum' = Idle /\ prev' = Idle /\ rtn' = Idle
  /\ added' = Nobody /\ ever' = Nobody /\ early' = Nobody
  /\ found' = c
  /\ UNCHANGED c

Wave(g) ==
  \/ g = 0 /\ (Zeroed \/ \E l \in Lanes : StoreZero(l))
  \/ SumTile(g) \/ Loaded(g) \/ Branch(g)
  \/ \E l \in Lanes : Load(g, l) \/ CompareSwap(g, l)

Next == Launch \/ \E g \in Groups : Wave(g)

Spec == Init /\ [][Next]_raVars

(* All groups are resident, so the device runs every wave, and the memory  *)
(* serves every lane; the host launches when the last launch has ended.    *)
FairSpec == Spec /\ WF_raVars(Launch) /\ \A g \in Groups : WF_raVars(Wave(g))
-----------------------------------------------------------------------------
TypeOK ==
  /\ c \in [Lanes -> Value]
  /\ pc \in [Groups -> {"zero", "sum", "load", "swap", "end"}]
  /\ exec \in [Groups -> SUBSET Lanes] /\ pend \in [Groups -> SUBSET Lanes]
  /\ \A g \in Groups : pc[g] \in {"load", "swap"} => pend[g] \subseteq exec[g]
  /\ \A g \in Groups : pc[g] # "zero" /\ pc[g] # "load" /\ pc[g] # "swap" => pend[g] = {}
  /\ sum \in [Groups -> [Lanes -> Int]]
  /\ prev \in [Groups -> [Lanes -> Value]] /\ rtn \in [Groups -> [Lanes -> Value]]
  /\ launches \in Nat
  /\ added \in [Lanes -> SUBSET Groups] /\ ever \in [Lanes -> SUBSET Groups]
  /\ early \in [Lanes -> SUBSET Groups] /\ found \in [Lanes -> Value]

(* The compare-and-swap loop adds like one atomic step per group and lane: *)
(* nothing is lost, nothing is added twice (ATOMIC_ADD).                   *)
Acc == INSTANCE Accumulator
         WITH Adders <- Groups, Cells <- Lanes, Share <- Shares, cell <- c, added <- added
AddsAtomically == Acc!Spec

(* A group does not end before it has added to every lane, except where it *)
(* mistook a zero for the minus zero the buffer held: the swap compares    *)
(* bits, the loop's exit compares floats.                                  *)
EveryGroupAdds ==
  \A g \in Groups, l \in Lanes :
     pc[g] = "end" => g \in ever[l] \/ found[l] = MinusZero

ShareOf(gs, l) == MapThenFoldSet(LAMBDA x, y : x + y, 0, LAMBDA g : Shares[g][l],
                                 LAMBDA s : CHOOSE g \in s : TRUE, gs)
Total(l) == ShareOf(Groups, l)

(* At the end of a launch a lane of c is the sum of its column, less       *)
(* exactly the shares of the groups that added before group 0 zeroed it    *)
(* and did not add again.                                                  *)
LossIsEarlyShares ==
  AllEnded => \A l \in Lanes :
     found[l] # MinusZero => c[l] = Total(l) - ShareOf(early[l] \ added[l], l)

(* Every launch ends, also when the buffer held no number: a group cannot  *)
(* leave its loop then until group 0 has zeroed the lane.                  *)
LaunchesEnd == <>(launches = MaxLaunches /\ AllEnded)

(* ReducAdd.cpp: Host sums every row, Verify compares c with that.         *)
HostSum(l) == LET tmp[j \in 0 .. ReducSize] == IF j = 0 THEN 0 ELSE tmp[j - 1] + Input[j - 1][l]
              IN  tmp[ReducSize]
Verify == AllEnded => \A l \in Lanes : c[l] = HostSum(l)
=============================================================================
