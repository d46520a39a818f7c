--------------------------- MODULE SignalSlotProofs ---------------------------
(***************************************************************************)
(* Proofs about SignalSlot, for every number of work waves, lanes,         *)
(* iterations and flag bits.  What the prefetch wave keeps of the indices  *)
(* it fetched is right in every order of the waves; the protocol of the    *)
(* count and of the signal words is right when the sleeps do what they are *)
(* there for (Ordered).                                                    *)
(***************************************************************************)
EXTENDS SignalSlot, PartialSums, FiniteSetTheorems, TLAPS

(* The sleeps order the steps of different waves.                          *)
Ordered == Races \subseteq {"permute"}

Initialised == {w \in Waves : wpc[w] \in {"work", "done"}}
Owned(l) == \E w \in Initialised : idx[w] = l

(* The bits of the indices on the stack differ, from each other, from      *)
(* those of the lost indices and from that of 0.                           *)
StackBits ==
  \A i \in 1 .. Depth : stack[i] # 0 =>
    /\ Bit(stack[i]) # 0
    /\ \A j \in 1 .. Depth : i # j => Bit(stack[i]) # Bit(stack[j])
LostBits ==
  \A x \in lost : Bit(x) # 0 /\ \A i \in 1 .. Depth : Bit(stack[i]) # Bit(x)
FlagInv == FlagsAreFetched /\ StackBits /\ LostBits

(* The count, and the words it hands out: one for each wave ahead.         *)
ZeroFirst == Registered # {} => zeroed
HandedOut ==
  \A w \in Registered : ahead[w] \subseteq Waves \ {w} /\ idx[w] = Cardinality(ahead[w])
SentLast == \A w \in Waves : w \notin Initialised => sent[w] = 0

(* The prefetch wave has not begun before every wave is initialised.       *)
NotBegun == Initialised # Waves => fpc = "count" /\ fetched = {} /\ got = <<>>

(* A word holds what a wave sent, once a wave owns it, however many do, or *)
(* what was found in it.                                                   *)
WordsHold ==
  \A l \in Lanes :
    IF Owned(l) THEN sig[l] = 0 \/ \E w \in Waves : sig[l] \in 1 .. landed[w]
    ELSE sig[l] = found[l]
SentOrFound(i) ==
  \/ \E w \in Waves : i \in 1 .. landed[w]
  \/ \E l \in Lanes : found[l] = i /\ \A w \in Waves : idx[w] # l
GotHold == \A l \in DOMAIN got : got[l] = 0 \/ SentOrFound(got[l])
FetchedHold == \A i \in fetched : SentOrFound(i)

SlotInv ==
  /\ ZeroFirst /\ HandedOut /\ SentLast /\ NotBegun
  /\ CountIsActive /\ EndsAfterWork
  /\ WordsHold /\ GotHold /\ FetchedHold
-----------------------------------------------------------------------------
(* Arithmetic of the count modulo CountMod.                                *)
LEMMA ModSmall ==
  ASSUME NEW m \in Nat \ {0}, NEW a \in 0 .. m - 1
  PROVE  a % m = a
  OBVIOUS

LEMMA ModRange ==
  ASSUME NEW m \in Nat \ {0}, NEW a \in Nat
  PROVE  a % m \in 0 .. m - 1
  OBVIOUS

LEMMA ModDown ==
  ASSUME NEW m \in Nat \ {0}, NEW a \in 1 .. m - 1
  PROVE  (a + m - 1) % m = a - 1
<1>1. (a - 1 + m) % m = (a - 1) % m
  OBVIOUS
<1>2. a + m - 1 = a - 1 + m
  OBVIOUS
<1> QED
  BY <1>1, <1>2, ModSmall

LEMMA SignalsAreNat == Signals \subseteq Nat /\ 0 .. LoopCnt \subseteq Signals
  BY SlotAssumption DEF Signals, SlotAssumption

LEMMA BitRange ==
  ASSUME NEW i \in Nat
  PROVE  Bit(i) \in 0 .. Bits - 1
  BY ModRange, SlotAssumption DEF Bit, SlotAssumption

LEMMA BitOfZero == Bit(0) = 0 /\ 0 \in 0 .. Bits - 1
  BY ModSmall, SlotAssumption DEF Bit, SlotAssumption

(* The index a prefetch is made for is one that was loaded.                *)
LEMMA FirstIsFresh ==
  ASSUME TypeOK, Fresh # {}
  PROVE  \E l \in DOMAIN got : /\ FirstFresh = got[l] /\ Bit(got[l]) \notin Flagged
                               /\ got[l] \in Signals
<1>1. PICK S \in SUBSET Lanes : got \in [S -> Signals]
  BY DEF TypeOK
<1>2. Fresh \in SUBSET Nat
  <2>1. Lanes \subseteq Nat
    BY SlotAssumption DEF Lanes, SlotAssumption
  <2> QED BY <1>1, <2>1 DEF Fresh
<1>3. \E l \in Fresh : \A k \in Fresh : l <= k
  BY <1>2, LeastNumber
<1> DEFINE first == CHOOSE l \in Fresh : \A k \in Fresh : l <= k
<1>4. first \in Fresh
  BY <1>3
<1> HIDE DEF first
<1>5. FirstFresh = got[first]
  BY DEF FirstFresh, first
<1> QED
  BY <1>1, <1>4, <1>5 DEF Fresh

(* The stack after a push: its entries move up and the last one is new.    *)
LEMMA PushedStack ==
  ASSUME stack \in Seq(Signals), Len(stack) = Depth,
         NEW i \in Signals, NEW s \in Pushed(i)
  PROVE  /\ s \in Seq(Signals) /\ Len(s) = Depth
         /\ \A j \in 1 .. Depth - 1 : s[j] = stack[j + 1]
         /\ s[Depth] = i \/ s[Depth] = 0
<1>1. Depth \in Nat \ {0} /\ 0 \in Signals
  BY SlotAssumption, SignalsAreNat DEF SlotAssumption
<1>2. PICK x \in {i, 0} : s = Append(Tail(stack), x)
  BY DEF Pushed
<1> DEFINE t == Tail(stack)
<1>3. t \in Seq(Signals) /\ Len(t) = Depth - 1 /\ \A j \in 1 .. Depth - 1 : t[j] = stack[j + 1]
  BY <1>1
<1> HIDE DEF t
<1>4. x \in Signals
  BY <1>1
<1>5. s = Append(t, x)
  BY <1>2 DEF t
<1> QED
  BY <1>1, <1>3, <1>4, <1>5
-----------------------------------------------------------------------------
LEMMA TypeInit ==
  ASSUME Init
  PROVE  TypeOK
<1> USE SlotAssumption DEF SlotAssumption
<1>1. sig \in [Lanes -> Signals] /\ found \in [Lanes -> Signals]
  <2>1. FoundWords \subseteq [Lanes -> Signals]
    BY DEF Signals
  <2> QED BY <2>1 DEF Init
<1>2. 0 \in Signals /\ 0 .. LoopCnt \subseteq Nat /\ 0 \in 0 .. LoopCnt /\ 0 \in 0 .. CountMod - 1
  BY SignalsAreNat
<1>3. \E S \in SUBSET Lanes : got \in [S -> Signals]
  <2>1. got \in [{} -> Signals] /\ {} \in SUBSET Lanes
    BY DEF Init
  <2> QED BY <2>1
<1>4. stack \in Seq(Signals) /\ Len(stack) = Depth
  BY <1>2 DEF Init
<1>5. /\ count \in 0 .. CountMod - 1 /\ idx \in [Waves -> 0 .. CountMod - 1]
      /\ zeroed \in BOOLEAN /\ wpc \in [Waves -> {"add", "init", "work", "done"}]
  BY <1>2 DEF Init
<1>6. /\ sent \in [Waves -> 0 .. LoopCnt] /\ landed \in [Waves -> 0 .. LoopCnt]
      /\ \A w \in Waves : landed[w] <= sent[w]
      /\ ahead \in [Waves -> SUBSET Waves]
  BY <1>2 DEF Init
<1> QED
  BY <1>1, <1>3, <1>4, <1>5, <1>6 DEF TypeOK, Init

(* What the fetch keeps stays a set of bits and a stack of signals.        *)
LEMMA FetchType ==
  ASSUME TypeOK, FetchNew
  PROVE  /\ flags' \subseteq 0 .. Bits - 1 /\ stack' \in Seq(Signals) /\ Len(stack') = Depth
         /\ fetched' \subseteq Signals /\ lost' \subseteq Signals
<1>1. FirstFresh \in Signals
  BY FirstIsFresh DEF FetchNew
<1>2. FirstFresh \in Nat
  BY <1>1, SignalsAreNat
<1>3. flags' \subseteq 0 .. Bits - 1
  BY <1>2, BitRange, BitOfZero DEF FetchNew, Reflag, Flagged, TypeOK
<1>4. stack' \in Seq(Signals) /\ Len(stack') = Depth
  BY <1>1, PushedStack DEF FetchNew, TypeOK
<1> QED
  BY <1>1, <1>3, <1>4 DEF FetchNew, TypeOK

LEMMA TypeStep ==
  ASSUME TypeOK, [Next]_slVars
  PROVE  TypeOK'
<1> USE SlotAssumption DEF SlotAssumption, work, prefetch
<1>0. /\ count \in Nat /\ CountMod \in Nat \ {0}
      /\ 0 .. LoopCnt \subseteq Signals /\ 0 \in Signals
  BY SignalsAreNat DEF TypeOK
<1>1. CASE ZeroCount
  BY <1>0, <1>1 DEF ZeroCount, TypeOK
<1>2. ASSUME NEW w \in Waves, Register(w) PROVE TypeOK'
  <2>1. count' \in 0 .. CountMod - 1
    BY <1>0, <1>2, ModRange DEF Register
  <2>2. ahead' \in [Waves -> SUBSET Waves]
    BY <1>2 DEF Register, TypeOK, Active
  <2> QED
    BY <1>2, <2>1, <2>2 DEF Register, HandOut, TypeOK
<1>3. ASSUME NEW w \in Waves, InitSignal(w) PROVE TypeOK'
  <2>1. sig' \in [Lanes -> Signals]
    BY <1>0, <1>3 DEF InitSignal, SignalCleared, TypeOK
  <2> QED
    BY <1>3, <2>1 DEF InitSignal, TypeOK
<1>4. ASSUME NEW w \in Waves, SendSignal(w) PROVE TypeOK'
  BY <1>4 DEF SendSignal, TypeOK
<1>5. ASSUME NEW w \in Waves, LandSignal(w) PROVE TypeOK'
  <2>1. landed[w] + 1 \in 0 .. LoopCnt
    BY <1>5 DEF LandSignal, TypeOK
  <2>2. sig' \in [Lanes -> Signals]
    BY <1>0, <1>5, <2>1 DEF LandSignal, TypeOK
  <2>3. landed' \in [Waves -> 0 .. LoopCnt] /\ \A v \in Waves : landed'[v] <= sent'[v]
    BY <1>5, <2>1 DEF LandSignal, TypeOK
  <2> QED
    BY <1>5, <2>2, <2>3 DEF LandSignal, TypeOK
<1>6. ASSUME NEW w \in Waves, Deregister(w) PROVE TypeOK'
  <2>1. count + CountMod - 1 \in Nat
    BY <1>0
  <2>2. count' \in 0 .. CountMod - 1
    BY <1>0, <1>6, <2>1, ModRange DEF Deregister, CountDown
  <2> QED
    BY <1>6, <2>2 DEF Deregister, TypeOK
<1>7. CASE ReadCount
  <2>1. got' \in [{} -> Signals] /\ {} \in SUBSET Lanes
    BY <1>7 DEF ReadCount
  <2>2. \E S \in SUBSET Lanes : got' \in [S -> Signals]
    BY <2>1
  <2> QED
    BY <1>7, <2>2 DEF ReadCount, TypeOK
<1>8. ASSUME NEW l \in Lanes, ReadSignal(l) PROVE TypeOK'
  <2>1. PICK S \in SUBSET Lanes : got \in [S -> Signals]
    BY DEF TypeOK
  <2>2. got' \in [S \cup {l} -> Signals] /\ S \cup {l} \in SUBSET Lanes
    BY <1>8, <2>1 DEF ReadSignal, TypeOK
  <2>3. \E T \in SUBSET Lanes : got' \in [T -> Signals]
    BY <2>2
  <2> QED
    BY <1>8, <2>3 DEF ReadSignal, TypeOK
<1>9. CASE FetchNew
  BY <1>9, FetchType DEF FetchNew, TypeOK
<1>10. CASE NothingNew
  BY <1>10, BitOfZero DEF NothingNew, Flagged, TypeOK
<1>11. CASE UNCHANGED slVars
  BY <1>11 DEF slVars, TypeOK
<1> QED
  BY <1>1, <1>2, <1>3, <1>4, <1>5, <1>6, <1>7, <1>8, <1>9, <1>10, <1>11
     DEF Next, Work, Prefetch

(* Whatever the order of the waves, the count stays within its register,   *)
(* every word holds a signal, and no wave has more stores landed than it   *)
(* has made (the registers and words of f_init_signal_slot and test_func). *)
THEOREM TypeCorrect == Spec => []TypeOK
<1>1. TypeOK /\ [Next]_slVars => TypeOK'
  BY TypeStep
<1> QED
  BY <1>1, TypeInit, PTL DEF Spec
-----------------------------------------------------------------------------
(* A push replaces the oldest index by the new one, on the stack or, if it *)
(* is overwritten there, among the lost ones.                              *)
LEMMA PushedIndices ==
  ASSUME TypeOK, FlagInv, FetchNew, FirstFresh # 0
  PROVE  OnStack' \cup lost' = (OnStack \ {stack[1]}) \cup lost \cup {FirstFresh}
<1> DEFINE n == FirstFresh
<1>1. n \in Signals
  BY FirstIsFresh DEF FetchNew
<1>2. /\ \A j \in 1 .. Depth - 1 : stack'[j] = stack[j + 1]
      /\ stack'[Depth] = n \/ stack'[Depth] = 0
      /\ Depth \in Nat \ {0}
  BY <1>1, PushedStack, SlotAssumption DEF FetchNew, TypeOK, SlotAssumption
<1>3. lost' = lost \cup ({n} \ {stack'[Depth]}) /\ n # 0
  BY DEF FetchNew
<1> HIDE DEF n
<1>4. ASSUME NEW y \in OnStack' PROVE y = n \/ y \in OnStack \ {stack[1]}
  <2>1. PICK i \in 1 .. Depth : y = stack'[i] /\ y # 0
    BY <1>4 DEF OnStack
  <2>2. CASE i = Depth
    BY <1>2, <2>1, <2>2
  <2>3. CASE i # Depth
    <3>1. i \in 1 .. Depth - 1 /\ i + 1 \in 1 .. Depth /\ i + 1 # 1 /\ 1 \in 1 .. Depth
      BY <1>2, <2>3
    <3>2. y = stack[i + 1]
      BY <1>2, <2>1, <3>1
    <3>3. y # stack[1]
      BY <2>1, <3>1, <3>2 DEF FlagInv, FlagsAreFetched
    <3> QED
      BY <2>1, <3>1, <3>2, <3>3 DEF OnStack
  <2> QED
    BY <2>2, <2>3
<1>5. ASSUME NEW y \in OnStack \ {stack[1]} PROVE y \in OnStack'
  <2>1. PICK j \in 1 .. Depth : y = stack[j] /\ y # 0 /\ j # 1
    BY <1>5 DEF OnStack
  <2>2. j - 1 \in 1 .. Depth - 1 /\ j - 1 \in 1 .. Depth /\ (j - 1) + 1 = j
    BY <1>2, <2>1
  <2>3. y = stack'[j - 1]
    BY <1>2, <2>1, <2>2
  <2> QED
    BY <2>1, <2>2, <2>3 DEF OnStack
<1>6. n \in OnStack' \cup lost'
  <2>1. Depth \in 1 .. Depth
    BY <1>2
  <2>2. CASE stack'[Depth] = n
    BY <1>3, <2>1, <2>2 DEF OnStack
  <2>3. CASE stack'[Depth] # n
    BY <1>3, <2>3
  <2> QED
    BY <2>2, <2>3
<1> QED
  BY <1>3, <1>4, <1>5, <1>6 DEF n

(* It keeps the bits apart: the index it brings has a bit no flag is set   *)
(* for, and the bit it clears was only the oldest one's.                   *)
LEMMA FetchFlags ==
  ASSUME TypeOK, FlagInv, FetchNew
  PROVE  FlagInv'
<1> DEFINE n == FirstFresh
<1>1. n \in Signals /\ Bit(n) \notin Flagged
  BY FirstIsFresh DEF FetchNew
<1>2. Bit(n) # 0 /\ Bit(n) \notin flags /\ n # 0
  BY <1>1, BitOfZero DEF Flagged
<1>3. /\ \A j \in 1 .. Depth - 1 : stack'[j] = stack[j + 1]
      /\ stack'[Depth] = n \/ stack'[Depth] = 0
      /\ Depth \in Nat \ {0}
  BY <1>1, PushedStack, SlotAssumption DEF FetchNew, TypeOK, SlotAssumption
<1>4. /\ flags' = ((flags \cup {0}) \ {Bit(stack[1])}) \cup {Bit(n)}
      /\ fetched' = fetched \cup {n}
      /\ lost' = lost \cup ({n} \ {stack'[Depth]})
  BY DEF FetchNew, Reflag, Flagged
<1>5. OnStack' \cup lost' = (OnStack \ {stack[1]}) \cup lost \cup {n}
  BY <1>2, PushedIndices
<1> HIDE DEF n
<1>6. /\ flags \ {0} = {Bit(i) : i \in OnStack \cup lost}
      /\ OnStack \cup lost \subseteq fetched
  BY DEF FlagInv, FlagsAreFetched
<1>7. /\ \A j \in 1 .. Depth : Bit(stack[j]) # Bit(n)
      /\ \A x \in lost : Bit(x) # Bit(n)
  <2>1. \A x \in OnStack \cup lost : Bit(x) # Bit(n)
    BY <1>2, <1>6
  <2>2. \A j \in 1 .. Depth : stack[j] = 0 \/ stack[j] \in OnStack
    BY DEF OnStack
  <2> QED
    BY <1>2, <2>1, <2>2, BitOfZero
<1>8. \A j \in 1 .. Depth - 1 :
        j + 1 \in 1 .. Depth /\ j + 1 # 1 /\ \A k \in 1 .. Depth - 1 : j # k => j + 1 # k + 1
  BY <1>3
<1>9. \A j \in 1 .. Depth : j = Depth \/ j \in 1 .. Depth - 1
  BY <1>3
<1>10. StackBits'
  <2> SUFFICES ASSUME NEW i \in 1 .. Depth, stack'[i] # 0
               PROVE  /\ Bit(stack'[i]) # 0
                      /\ \A j \in 1 .. Depth : i # j => Bit(stack'[i]) # Bit(stack'[j])
    BY DEF StackBits, Bit
  <2>1. CASE i = Depth
    <3>1. stack'[i] = n /\ \A j \in 1 .. Depth : i # j => j \in 1 .. Depth - 1
      BY <1>3, <2>1
    <3> QED
      BY <1>2, <1>3, <1>7, <1>8, <3>1
  <2>2. CASE i # Depth
    <3>1. i \in 1 .. Depth - 1 /\ stack'[i] = stack[i + 1]
      BY <1>3, <2>2
    <3>2. /\ Bit(stack[i + 1]) # 0
          /\ \A j \in 1 .. Depth - 1 : i # j => Bit(stack[i + 1]) # Bit(stack[j + 1])
      BY <1>8, <3>1 DEF FlagInv, StackBits
    <3>3. Bit(stack'[Depth]) # Bit(stack[i + 1])
      BY <1>3, <1>7, <1>8, <3>1, <3>2, BitOfZero
    <3> QED
      BY <1>3, <1>9, <3>1, <3>2, <3>3
  <2> QED
    BY <2>1, <2>2
<1>11. LostBits'
  <2> SUFFICES ASSUME NEW x \in lost', NEW i \in 1 .. Depth
               PROVE  Bit(x) # 0 /\ Bit(stack'[i]) # Bit(x)
    BY SlotAssumption DEF LostBits, Bit, SlotAssumption
  <2>1. CASE x \in lost
    <3>1. Bit(x) # 0 /\ Bit(x) # Bit(n) /\ \A j \in 1 .. Depth : Bit(stack[j]) # Bit(x)
      BY <1>7, <2>1 DEF FlagInv, LostBits
    <3> QED
      BY <1>3, <1>8, <1>9, <3>1, BitOfZero
  <2>2. CASE x \notin lost
    <3>1. x = n /\ stack'[Depth] = 0
      BY <1>3, <1>4, <2>2
    <3> QED
      BY <1>2, <1>3, <1>7, <1>8, <1>9, <3>1, BitOfZero
  <2> QED
    BY <2>1, <2>2
<1>12. flags' \ {0} = {Bit(i) : i \in OnStack' \cup lost'}
  <2> DEFINE kept == (OnStack \ {stack[1]}) \cup lost
  <2>1. \A y \in kept : Bit(y) # Bit(stack[1]) /\ Bit(y) # 0
    <3>1. 1 \in 1 .. Depth
      BY <1>3
    <3>2. ASSUME NEW y \in OnStack, y # stack[1] PROVE Bit(y) # Bit(stack[1]) /\ Bit(y) # 0
      <4>1. PICK j \in 1 .. Depth : y = stack[j] /\ y # 0 /\ j # 1
        BY <3>2 DEF OnStack
      <4> QED
        BY <3>1, <4>1 DEF FlagInv, StackBits
    <3> QED
      BY <3>1, <3>2 DEF FlagInv, LostBits
  <2>2. flags' \ {0} = ((flags \ {0}) \ {Bit(stack[1])}) \cup {Bit(n)}
    BY <1>2, <1>4
  <2>3. (flags \ {0}) \ {Bit(stack[1])} = {Bit(i) : i \in kept}
    BY <1>6, <2>1
  <2>4. OnStack' \cup lost' = kept \cup {n}
    BY <1>5
  <2> HIDE DEF kept
  <2>5. flags' \ {0} = {Bit(i) : i \in kept \cup {n}}
    BY <2>2, <2>3
  <2> QED
    BY <2>4, <2>5
<1>13. OnStack' \cup lost' \subseteq fetched'
  BY <1>4, <1>5, <1>6
<1>14. \A i, j \in 1 .. Depth : i # j /\ stack'[i] # 0 => stack'[i] # stack'[j]
  BY <1>10 DEF StackBits, Bit
<1>15. FlagsAreFetched'
  BY <1>12, <1>13, <1>14 DEF FlagsAreFetched, Bit
<1> QED
  BY <1>10, <1>11, <1>15 DEF FlagInv

LEMMA FlagStep ==
  ASSUME TypeOK, FlagInv, [Next]_slVars
  PROVE  FlagInv'
<1> USE DEF prefetch
<1>1. ASSUME flags' \ {0} = flags \ {0}, UNCHANGED <<stack, fetched, lost>> PROVE FlagInv'
  BY <1>1 DEF FlagInv, FlagsAreFetched, StackBits, LostBits, OnStack, Bit
<1>2. CASE ZeroCount
  BY <1>1, <1>2 DEF ZeroCount
<1>3. ASSUME NEW w \in Waves, Work(w) \/ LandSignal(w) PROVE FlagInv'
  BY <1>1, <1>3 DEF Work, Register, InitSignal, SendSignal, LandSignal, Deregister
<1>4. CASE ReadCount \/ \E l \in Lanes : ReadSignal(l)
  BY <1>1, <1>4 DEF ReadCount, ReadSignal
<1>5. CASE FetchNew
  BY <1>5, FetchFlags
<1>6. CASE NothingNew
  BY <1>1, <1>6 DEF NothingNew, Flagged
<1>7. CASE UNCHANGED slVars
  BY <1>1, <1>7 DEF slVars
<1> QED
  BY <1>2, <1>3, <1>4, <1>5, <1>6, <1>7 DEF Next, Prefetch

(* The flag word and the index stack of test_func stay together, in every  *)
(* order of the waves, whatever words are read and also when the permuted  *)
(* stack overwrites the newest index: no index is on the stack twice, each *)
(* was fetched, and a flag is set for the indices on the stack and those   *)
(* overwritten, and for no other.                                          *)
THEOREM FlagsCorrect == Spec => []FlagsAreFetched
<1>1. Init => FlagInv
  <2>1. ASSUME Init PROVE /\ \A i \in 1 .. Depth : stack[i] = 0
                          /\ flags = {} /\ fetched = {} /\ lost = {} /\ OnStack = {}
    BY <2>1 DEF Init, OnStack
  <2> QED
    BY <2>1 DEF FlagInv, FlagsAreFetched, StackBits, LostBits
<1>2. TypeOK /\ FlagInv /\ [Next]_slVars => FlagInv'
  BY FlagStep
<1>3. FlagInv => FlagsAreFetched
  BY DEF FlagInv
<1> QED
  BY <1>1, <1>2, <1>3, TypeCorrect, PTL DEF Spec
-----------------------------------------------------------------------------
LEMMA SomeWaves ==
  ASSUME NEW S \in SUBSET Waves
  PROVE  IsFiniteSet(S) /\ Cardinality(S) \in Nat /\ Cardinality(S) <= N
<1>1. IsFiniteSet(Waves) /\ Cardinality(Waves) = N
  BY FS_Interval, SlotAssumption DEF Waves, SlotAssumption
<1>2. IsFiniteSet(S) /\ Cardinality(S) <= N
  BY <1>1, FS_Subset
<1> QED
  BY <1>2, FS_CardinalityType

LEMMA SomeWave == 0 \in Waves
  BY SlotAssumption DEF Waves, SlotAssumption

(* Which waves a step moves from one set to another.                       *)
LEMMA WavesMoved ==
  ASSUME TypeOK, NEW w \in Waves
  PROVE  /\ Register(w) =>
              /\ w \notin Registered /\ w \notin Active
              /\ Registered' = Registered \cup {w} /\ Active' = Active \cup {w}
              /\ Initialised' = Initialised
         /\ InitSignal(w) =>
              /\ w \in Active /\ w \notin Initialised /\ Registered' = Registered
              /\ Active' = Active /\ Initialised' = Initialised \cup {w}
         /\ Deregister(w) =>
              /\ w \in Active /\ Registered' = Registered /\ Active' = Active \ {w}
              /\ Initialised' = Initialised
  BY DEF TypeOK, Register, InitSignal, Deregister, Registered, Active, Initialised

LEMMA WavesKept ==
  ASSUME UNCHANGED wpc
  PROVE  Registered' = Registered /\ Active' = Active /\ Initialised' = Initialised
  BY DEF Registered, Active, Initialised

(* The atomic add hands out the number of waves that are active.           *)
LEMMA RegisterStep ==
  ASSUME Ordered, TypeOK, SlotInv, NEW w \in Waves, Register(w)
  PROVE  (ZeroFirst /\ HandedOut /\ SentLast /\ CountIsActive)'
<1>1. zeroed /\ zeroed'
  BY DEF Register, ZeroedFirst, Ordered
<1>2. /\ w \notin Registered /\ w \notin Active
      /\ Registered' = Registered \cup {w} /\ Active' = Active \cup {w}
      /\ Initialised' = Initialised
  BY WavesMoved
<1>3. Active \in SUBSET Waves /\ Active' \in SUBSET Waves /\ Registered \in SUBSET Waves
  BY <1>2 DEF Active, Registered
<1>4. count = Cardinality(Active)
  BY <1>1 DEF SlotInv, CountIsActive
<1>5. /\ Cardinality(Active') = Cardinality(Active) + 1
      /\ Cardinality(Active) \in Nat /\ Cardinality(Active') <= N
  BY <1>2, <1>3, SomeWaves, FS_AddElement
<1>6. count + 1 \in 0 .. CountMod - 1 /\ CountMod \in Nat \ {0}
  BY <1>4, <1>5, SlotAssumption DEF SlotAssumption
<1>7. count' = count + 1
  BY <1>6, ModSmall DEF Register
<1>8. CountIsActive'
  BY <1>4, <1>5, <1>7 DEF CountIsActive
<1>9. HandedOut'
  <2>1. idx'[w] = count /\ ahead'[w] = Active
    BY DEF Register, HandOut, TypeOK
  <2>2. \A v \in Registered : idx'[v] = idx[v] /\ ahead'[v] = ahead[v]
    BY <1>2, <1>3 DEF Register, HandOut, TypeOK
  <2>3. Active \subseteq Waves \ {w}
    BY <1>2, <1>3
  <2> QED
    BY <1>2, <1>4, <2>1, <2>2, <2>3 DEF SlotInv, HandedOut
<1> QED
  BY <1>1, <1>2, <1>8, <1>9 DEF SlotInv, ZeroFirst, SentLast, Register

LEMMA DeregisterStep ==
  ASSUME TypeOK, SlotInv, NEW w \in Waves, Deregister(w)
  PROVE  (ZeroFirst /\ HandedOut /\ SentLast /\ CountIsActive)'
<1>1. /\ w \in Active /\ Registered' = Registered /\ Active' = Active \ {w}
      /\ Initialised' = Initialised
  BY WavesMoved
<1>2. w \in Registered
  BY <1>1 DEF Active, Registered
<1>3. zeroed /\ zeroed'
  BY <1>2 DEF SlotInv, ZeroFirst, Deregister
<1>4. Active \in SUBSET Waves
  BY DEF Active
<1>5. count = Cardinality(Active)
  BY <1>3 DEF SlotInv, CountIsActive
<1>6. /\ Cardinality(Active') = Cardinality(Active) - 1
      /\ Cardinality(Active) \in Nat /\ Cardinality(Active) <= N
      /\ Cardinality(Active') \in Nat
  BY <1>1, <1>4, SomeWaves, FS_RemoveElement
<1>7. count \in 1 .. CountMod - 1 /\ CountMod \in Nat \ {0}
  BY <1>5, <1>6, SlotAssumption DEF SlotAssumption
<1>8. count' = count - 1
  BY <1>7, ModDown DEF Deregister, CountDown
<1>9. CountIsActive'
  BY <1>5, <1>6, <1>8 DEF CountIsActive
<1> QED
  BY <1>1, <1>3, <1>9 DEF SlotInv, ZeroFirst, HandedOut, SentLast, Deregister

(* The steps that leave the count alone, and wave 0's store of 0.          *)
LEMMA CountStep ==
  ASSUME Ordered, TypeOK, SlotInv, [Next]_slVars
  PROVE  (ZeroFirst /\ HandedOut /\ SentLast /\ CountIsActive)'
<1> DEFINE Counted == ZeroFirst /\ HandedOut /\ SentLast /\ CountIsActive
<1> USE DEF work, prefetch
<1>1. ASSUME UNCHANGED <<count, zeroed, wpc, idx, sent, ahead>> PROVE Counted'
  BY <1>1, WavesKept DEF SlotInv, ZeroFirst, HandedOut, SentLast, CountIsActive
<1>2. CASE ZeroCount
  <2>1. Registered = {}
    BY <1>2 DEF ZeroCount, SlotInv, ZeroFirst
  <2>2. Active = {}
    BY <2>1 DEF Active, Registered
  <2>3. Cardinality({}) = 0
    BY FS_EmptySet
  <2>4. UNCHANGED wpc
    BY <1>2 DEF ZeroCount
  <2> QED
    BY <1>2, <2>1, <2>2, <2>3, <2>4, WavesKept
       DEF ZeroCount, SlotInv, ZeroFirst, HandedOut, SentLast, CountIsActive
<1>3. ASSUME NEW w \in Waves, Register(w) PROVE Counted'
  BY <1>3, RegisterStep
<1>4. ASSUME NEW w \in Waves, InitSignal(w) PROVE Counted'
  <2>1. /\ Registered' = Registered /\ Active' = Active
        /\ Initialised' = Initialised \cup {w}
    BY <1>4, WavesMoved
  <2> QED
    BY <1>4, <2>1 DEF InitSignal, SlotInv, ZeroFirst, HandedOut, SentLast, CountIsActive
<1>5. ASSUME NEW w \in Waves, SendSignal(w) PROVE Counted'
  <2>1. w \in Initialised /\ UNCHANGED wpc
    BY <1>5 DEF SendSignal, Initialised
  <2>2. SentLast'
    BY <1>5, <2>1, WavesKept DEF SendSignal, SlotInv, SentLast, TypeOK
  <2> QED
    BY <1>5, <2>1, <2>2, WavesKept DEF SendSignal, SlotInv, ZeroFirst, HandedOut, CountIsActive
<1>6. ASSUME NEW w \in Waves, Deregister(w) PROVE Counted'
  BY <1>6, DeregisterStep
<1>7. ASSUME NEW w \in Waves, LandSignal(w) PROVE Counted'
  BY <1>1, <1>7 DEF LandSignal
<1>8. CASE Prefetch
  BY <1>1, <1>8 DEF Prefetch, ReadCount, ReadSignal, FetchNew, NothingNew
<1>9. CASE UNCHANGED slVars
  BY <1>1, <1>9 DEF slVars
<1> QED
  BY <1>2, <1>3, <1>4, <1>5, <1>6, <1>7, <1>8, <1>9 DEF Next, Work
-----------------------------------------------------------------------------
(* The prefetch wave begins when every wave is initialised, and ends when  *)
(* the count of 0 it reads means that every wave is done.                  *)
LEMMA BegunStep ==
  ASSUME Ordered, TypeOK, SlotInv, [Next]_slVars
  PROVE  NotBegun' /\ EndsAfterWork'
<1> USE DEF work, prefetch
<1>1. ASSUME UNCHANGED prefetch, Initialised \subseteq Initialised'
      PROVE  NotBegun'
  <2>1. Initialised' \subseteq Waves /\ Initialised \subseteq Waves
    BY DEF Initialised
  <2> QED
    BY <1>1, <2>1 DEF SlotInv, NotBegun
<1>2. ASSUME UNCHANGED <<fpc, wpc>> PROVE EndsAfterWork'
  BY <1>2 DEF SlotInv, EndsAfterWork, AllDone
<1>3. ASSUME NEW w \in Waves, Register(w) \/ InitSignal(w) \/ Deregister(w)
      PROVE  NotBegun' /\ EndsAfterWork'
  <2>1. Initialised \subseteq Initialised'
    BY <1>3, WavesMoved
  <2>2. wpc[w] # "done" /\ UNCHANGED prefetch
    BY <1>3 DEF Register, InitSignal, Deregister
  <2>3. fpc' # "ended"
    BY <2>2 DEF SlotInv, EndsAfterWork, AllDone
  <2> QED
    BY <1>1, <2>1, <2>2, <2>3 DEF EndsAfterWork
<1>4. ASSUME NEW w \in Waves, ZeroCount \/ SendSignal(w) \/ LandSignal(w)
      PROVE  NotBegun' /\ EndsAfterWork'
  BY <1>1, <1>2, <1>4, WavesKept DEF ZeroCount, SendSignal, LandSignal
<1>5. CASE ReadCount
  <2>1. \A w \in Waves : wpc[w] \in {"work", "done"}
    BY <1>5 DEF ReadCount, InitializedFirst, Ordered
  <2>2. Initialised = Waves /\ Initialised' = Waves
    BY <1>5, <2>1 DEF Initialised, ReadCount
  <2>3. ASSUME count = 0 PROVE AllDone'
    <3>1. Registered = Waves
      BY <2>1 DEF Registered
    <3>2. zeroed
      BY <3>1, SomeWave DEF SlotInv, ZeroFirst
    <3>3. Cardinality(Active) = 0 /\ Active \in SUBSET Waves
      BY <2>3, <3>2 DEF SlotInv, CountIsActive, Active
    <3>4. Active = {}
      BY <3>3, SomeWaves, FS_EmptySet
    <3> QED
      BY <1>5, <2>1, <3>4 DEF Active, AllDone, ReadCount
  <2>4. fpc' = "ended" => count = 0
    BY <1>5 DEF ReadCount
  <2> QED
    BY <2>2, <2>3, <2>4 DEF NotBegun, EndsAfterWork
<1>6. CASE (\E l \in Lanes : ReadSignal(l)) \/ FetchNew \/ NothingNew
  <2>1. fpc = "signals" /\ fpc' # "ended" /\ UNCHANGED wpc
    BY <1>6 DEF ReadSignal, FetchNew, NothingNew
  <2>2. Initialised = Waves
    BY <2>1 DEF SlotInv, NotBegun
  <2> QED
    BY <2>1, <2>2, WavesKept DEF NotBegun, EndsAfterWork
<1>7. CASE UNCHANGED slVars
  BY <1>1, <1>2, <1>7, WavesKept DEF slVars
<1> QED
  BY <1>3, <1>4, <1>5, <1>6, <1>7, SomeWave DEF Next, Work, Prefetch

(* Every word handed out is a lane's, and the words of two waves differ if *)
(* the waves the one had ahead of it, and that one, are ahead of the other.*)
LEMMA WordsHandedOut ==
  ASSUME SlotInv
  PROVE  WordsApart /\ \A w \in Initialised : idx[w] \in Lanes
<1>1. Registered \in SUBSET Waves /\ Initialised \in SUBSET Registered
  BY DEF Registered, Initialised
<1>2. ASSUME NEW w \in Registered PROVE idx[w] \in Lanes
  <2>1. ahead[w] \in SUBSET Waves /\ ahead[w] \subseteq Waves \ {w} /\ w \in Waves
    BY <1>1 DEF SlotInv, HandedOut
  <2>2. IsFiniteSet(Waves) /\ Cardinality(Waves) \in Nat /\ Cardinality(Waves) <= N
    BY SomeWaves
  <2>3. /\ IsFiniteSet(Waves \ {w}) /\ Cardinality(Waves \ {w}) = Cardinality(Waves) - 1
    BY <2>1, <2>2, FS_RemoveElement
  <2>4. Cardinality(ahead[w]) <= Cardinality(Waves \ {w}) /\ Cardinality(ahead[w]) \in Nat
    BY <2>1, <2>3, FS_Subset, SomeWaves
  <2> QED
    BY <2>2, <2>3, <2>4, SlotAssumption DEF SlotInv, HandedOut, Lanes, SlotAssumption
<1>3. ASSUME NEW v \in Registered, NEW w \in Registered, ahead[v] \cup {v} \subseteq ahead[w]
      PROVE  idx[v] # idx[w]
  <2>1. /\ ahead[v] \in SUBSET Waves /\ v \notin ahead[v] /\ ahead[w] \in SUBSET Waves
        /\ idx[v] = Cardinality(ahead[v]) /\ idx[w] = Cardinality(ahead[w])
    BY DEF SlotInv, HandedOut
  <2>2. /\ IsFiniteSet(ahead[v]) /\ Cardinality(ahead[v]) \in Nat
        /\ IsFiniteSet(ahead[w]) /\ Cardinality(ahead[w]) \in Nat
    BY <2>1, SomeWaves
  <2>3. Cardinality(ahead[v] \cup {v}) = Cardinality(ahead[v]) + 1
    BY <2>1, <2>2, FS_AddElement
  <2>4. Cardinality(ahead[v] \cup {v}) <= Cardinality(ahead[w])
    BY <1>3, <2>2, FS_Subset
  <2> QED
    BY <2>1, <2>2, <2>3, <2>4
<1> QED
  BY <1>1, <1>2, <1>3 DEF WordsApart

LEMMA InitWords ==
  ASSUME TypeOK, SlotInv, NEW w \in Waves, InitSignal(w)
  PROVE  WordsHold'
<1>1. Initialised' = Initialised \cup {w}
  BY WavesMoved
<1>2. \A l \in Lanes : sig'[l] = IF l = idx[w] THEN 0 ELSE sig[l]
  BY DEF InitSignal, SignalCleared
<1>3. UNCHANGED <<landed, idx, found>>
  BY DEF InitSignal
<1>4. ASSUME NEW l \in Lanes
      PROVE  IF Owned(l)' THEN sig'[l] = 0 \/ \E v \in Waves : sig'[l] \in 1 .. landed'[v]
             ELSE sig'[l] = found'[l]
  <2>1. Owned(l)' <=> Owned(l) \/ l = idx[w]
    BY <1>1, <1>3 DEF Owned
  <2> QED
    BY <1>2, <1>3, <2>1 DEF SlotInv, WordsHold
<1> QED
  BY <1>4 DEF WordsHold

LEMMA LandWords ==
  ASSUME TypeOK, SlotInv, NEW w \in Waves, LandSignal(w)
  PROVE  WordsHold'
<1>1. w \in Initialised
  BY SlotAssumption DEF LandSignal, SlotInv, SentLast, TypeOK, SlotAssumption
<1>2. \A l \in Lanes : sig'[l] = IF l = idx[w] THEN landed[w] + 1 ELSE sig[l]
  BY DEF LandSignal
<1>3. \A v \in Waves : landed'[v] = IF v = w THEN landed[w] + 1 ELSE landed[v]
  BY DEF LandSignal, TypeOK
<1>4. UNCHANGED <<idx, found, wpc>> /\ Initialised' = Initialised
  BY WavesKept DEF LandSignal, work, prefetch
<1>5. \A v \in Waves : landed[v] \in Nat
  BY SlotAssumption DEF TypeOK, SlotAssumption
<1>6. ASSUME NEW l \in Lanes
      PROVE  IF Owned(l)' THEN sig'[l] = 0 \/ \E v \in Waves : sig'[l] \in 1 .. landed'[v]
             ELSE sig'[l] = found'[l]
  <2>1. Owned(l)' <=> Owned(l)
    BY <1>4 DEF Owned
  <2>2. CASE l = idx[w]
    <3>1. Owned(l)'
      BY <1>1, <2>1, <2>2 DEF Owned
    <3>2. sig'[l] = landed'[w] /\ landed'[w] \in 1 .. landed'[w]
      BY <1>2, <1>3, <1>5, <2>2
    <3> QED
      BY <3>1, <3>2
  <2>3. CASE l # idx[w]
    <3>1. sig'[l] = sig[l]
      BY <1>2, <2>3
    <3>2. ASSUME NEW v \in Waves, sig[l] \in 1 .. landed[v] PROVE sig'[l] \in 1 .. landed'[v]
      BY <1>3, <1>5, <3>1, <3>2
    <3> QED
      BY <1>4, <2>1, <3>1, <3>2 DEF SlotInv, WordsHold
  <2> QED
    BY <2>2, <2>3
<1> QED
  BY <1>6 DEF WordsHold

(* What has been sent or found stays so while no word is handed out.       *)
LEMMA StaysSentOrFound ==
  ASSUME TypeOK, [Next]_slVars, UNCHANGED idx, NEW i, SentOrFound(i)
  PROVE  SentOrFound(i)'
<1>1. UNCHANGED found
  BY DEF Next, Work, Prefetch, slVars, ZeroCount, Register, InitSignal, SendSignal,
         LandSignal, Deregister, ReadCount, ReadSignal, FetchNew, NothingNew
<1>2. ASSUME NEW v \in Waves PROVE landed'[v] \in Nat /\ landed[v] \in Nat /\ landed[v] <= landed'[v]
  <2>1. landed[v] \in 0 .. LoopCnt /\ LoopCnt \in Nat
    BY SlotAssumption DEF TypeOK, SlotAssumption
  <2>2. CASE UNCHANGED landed
    BY <2>1, <2>2
  <2>3. ASSUME NEW w \in Waves, LandSignal(w)
        PROVE  landed'[v] = landed[v] \/ landed'[v] = landed[v] + 1
    BY <2>3 DEF LandSignal, TypeOK
  <2>4. UNCHANGED landed \/ \E w \in Waves : LandSignal(w)
    BY DEF Next, Work, Prefetch, slVars, work, ZeroCount, Register, InitSignal, SendSignal,
           Deregister, ReadCount, ReadSignal, FetchNew, NothingNew
  <2> QED
    BY <2>1, <2>2, <2>3, <2>4
<1> QED
  BY <1>1, <1>2 DEF SentOrFound

LEMMA WordStep ==
  ASSUME Ordered, TypeOK, SlotInv, [Next]_slVars
  PROVE  (WordsHold /\ GotHold /\ FetchedHold)'
<1> USE DEF work, prefetch
<1>1. ASSUME UNCHANGED <<sig, wpc, idx, landed, found>> PROVE WordsHold'
  BY <1>1, WavesKept DEF SlotInv, WordsHold, Owned
<1>2. ASSUME UNCHANGED <<idx, got, fetched>> PROVE GotHold' /\ FetchedHold'
  BY <1>2, StaysSentOrFound DEF SlotInv, GotHold, FetchedHold
<1>3. CASE ZeroCount
  BY <1>1, <1>2, <1>3 DEF ZeroCount
<1>4. ASSUME NEW w \in Waves, Register(w) PROVE (WordsHold /\ GotHold /\ FetchedHold)'
  <2>1. w \notin Initialised /\ Initialised' = Initialised /\ w \in Waves
    BY <1>4, WavesMoved DEF Initialised, Registered
  <2>2. \A v \in Initialised : idx'[v] = idx[v]
    BY <1>4, <2>1 DEF Register, HandOut, TypeOK, Initialised
  <2>3. WordsHold'
    BY <1>4, <2>1, <2>2 DEF Register, SlotInv, WordsHold, Owned
  <2>4. got = <<>> /\ fetched = {}
    BY <2>1 DEF SlotInv, NotBegun
  <2>5. DOMAIN got' = {} /\ fetched' = {}
    BY <1>4, <2>4 DEF Register
  <2> QED
    BY <2>3, <2>5 DEF GotHold, FetchedHold
<1>5. ASSUME NEW w \in Waves, InitSignal(w) PROVE (WordsHold /\ GotHold /\ FetchedHold)'
  BY <1>2, <1>5, InitWords DEF InitSignal
<1>6. ASSUME NEW w \in Waves, SendSignal(w) PROVE (WordsHold /\ GotHold /\ FetchedHold)'
  BY <1>1, <1>2, <1>6 DEF SendSignal
<1>7. ASSUME NEW w \in Waves, LandSignal(w) PROVE (WordsHold /\ GotHold /\ FetchedHold)'
  BY <1>2, <1>7, LandWords DEF LandSignal
<1>8. ASSUME NEW w \in Waves, Deregister(w) PROVE (WordsHold /\ GotHold /\ FetchedHold)'
  <2>1. Initialised' = Initialised
    BY <1>8, WavesMoved
  <2>2. WordsHold'
    BY <1>8, <2>1 DEF Deregister, SlotInv, WordsHold, Owned
  <2> QED
    BY <1>2, <1>8, <2>2 DEF Deregister
<1>9. CASE ReadCount
  <2>1. DOMAIN got' = {} /\ UNCHANGED <<idx, fetched>>
    BY <1>9 DEF ReadCount
  <2> QED
    BY <1>1, <1>9, <2>1, StaysSentOrFound DEF ReadCount, SlotInv, GotHold, FetchedHold
<1>10. ASSUME NEW l \in Lanes, ReadSignal(l) PROVE (WordsHold /\ GotHold /\ FetchedHold)'
  <2>1. Initialised = Waves
    BY <1>10 DEF ReadSignal, SlotInv, NotBegun
  <2>2. ASSUME Owned(l) PROVE sig[l] = 0 \/ SentOrFound(sig[l])
    BY <2>2 DEF SlotInv, WordsHold, SentOrFound
  <2>3. ASSUME ~Owned(l) PROVE SentOrFound(sig[l])
    BY <2>1, <2>3 DEF Owned, SlotInv, WordsHold, SentOrFound
  <2>4. sig[l] = 0 \/ SentOrFound(sig[l])
    BY <2>2, <2>3
  <2>5. /\ DOMAIN got' = DOMAIN got \cup {l}
        /\ \A k \in DOMAIN got' : got'[k] = IF k = l THEN sig[l] ELSE got[k]
    BY <1>10 DEF ReadSignal
  <2>6. UNCHANGED <<sig, wpc, idx, landed, found, fetched>>
    BY <1>10 DEF ReadSignal
  <2> QED
    BY <1>1, <2>4, <2>5, <2>6, StaysSentOrFound DEF SlotInv, GotHold, FetchedHold
<1>11. CASE FetchNew
  <2>1. PICK l \in DOMAIN got : FirstFresh = got[l] /\ Bit(got[l]) \notin Flagged
    BY <1>11, FirstIsFresh DEF FetchNew
  <2>2. SentOrFound(FirstFresh)
    BY <2>1, BitOfZero DEF Flagged, SlotInv, GotHold
  <2> DEFINE n == FirstFresh
  <2>3. fetched' = fetched \cup {n} /\ UNCHANGED <<sig, wpc, idx, landed, found, got>>
    BY <1>11 DEF FetchNew
  <2>4. SentOrFound(n)
    BY <2>2
  <2> HIDE DEF n
  <2> QED
    BY <1>1, <2>3, <2>4, StaysSentOrFound DEF SlotInv, GotHold, FetchedHold
<1>12. CASE NothingNew
  BY <1>1, <1>2, <1>12 DEF NothingNew
<1>13. CASE UNCHANGED slVars
  BY <1>1, <1>2, <1>13 DEF slVars
<1> QED
  BY <1>3, <1>4, <1>5, <1>6, <1>7, <1>8, <1>9, <1>10, <1>11, <1>12, <1>13
     DEF Next, Work, Prefetch
-----------------------------------------------------------------------------
LEMMA SlotInit ==
  ASSUME Init
  PROVE  SlotInv
<1>1. \A w \in Waves : wpc[w] = "add"
  BY DEF Init
<1>2. Registered = {} /\ Initialised = {} /\ ~zeroed
  BY <1>1 DEF Registered, Initialised, Init
<1>3. DOMAIN got = {} /\ fetched = {} /\ fpc = "count" /\ sig = found /\ got = <<>>
  BY DEF Init
<1>4. ZeroFirst /\ HandedOut /\ NotBegun /\ CountIsActive /\ EndsAfterWork
  BY <1>1, <1>2, <1>3
     DEF ZeroFirst, HandedOut, NotBegun, CountIsActive, EndsAfterWork
<1>5. SentLast
  BY DEF Init, SentLast
<1>6. WordsHold /\ GotHold /\ FetchedHold
  <2>1. \A l \in Lanes : ~Owned(l)
    BY <1>2 DEF Owned
  <2> QED
    BY <1>3, <2>1 DEF WordsHold, GotHold, FetchedHold
<1> QED
  BY <1>4, <1>5, <1>6 DEF SlotInv

LEMMA SlotInductive ==
  ASSUME Ordered
  PROVE  Spec => []SlotInv
<1>1. TypeOK /\ SlotInv /\ [Next]_slVars => SlotInv'
  BY Ordered, CountStep, BegunStep, WordStep DEF SlotInv
<1> QED
  BY <1>1, SlotInit, TypeCorrect, PTL DEF Spec

(* f_init_signal_slot and f_deinit_signal_slot keep the count at the       *)
(* number of active waves, whatever the launch before left in the slot.    *)
THEOREM CountCorrect ==
  ASSUME Ordered
  PROVE  Spec => []CountIsActive
<1>1. SlotInv => CountIsActive
  BY DEF SlotInv
<1> QED
  BY <1>1, SlotInductive, Ordered, PTL

(* The atomic add of f_init_signal_slot gives every wave a word that the   *)
(* prefetch wave reads, and two waves the same word only when the first of *)
(* them, or one that it had found active, had left in between.             *)
THEOREM WordsCorrect ==
  ASSUME Ordered
  PROVE  Spec => []WordsApart
<1>1. SlotInv => WordsApart
  BY WordsHandedOut
<1> QED
  BY <1>1, SlotInductive, Ordered, PTL

(* The prefetch loop of test_func is not left while a work wave is active. *)
THEOREM PrefetchStays ==
  ASSUME Ordered
  PROVE  Spec => []EndsAfterWork
<1>1. SlotInv => EndsAfterWork
  BY DEF SlotInv
<1> QED
  BY <1>1, SlotInductive, Ordered, PTL

(* What is fetched was sent in this launch or found in a word no wave of   *)
(* it owns, although nothing clears the words between launches.            *)
THEOREM FetchesCorrect ==
  ASSUME Ordered
  PROVE  Spec => []FetchedIsSentOrFound
<1>1. SlotInv => FetchedIsSentOrFound
  BY DEF SlotInv, FetchedHold, SentOrFound, FetchedIsSentOrFound
<1> QED
  BY <1>1, SlotInductive, Ordered, PTL
=============================================================================
