------------------------------ MODULE SignalSlot ------------------------------
(***************************************************************************)
(* The signal slot of one compute unit (KernelWriter.h) as the             *)
(* ProducerConsumer kernel uses it: the work waves of the unit register by *)
(* an atomic add to the wave count in word 0, which also hands each of     *)
(* them a signal word, and send the index they work on through that word;  *)
(* one prefetch wave polls the words, fetches an index it has not fetched  *)
(* lately, and ends when the count is 0.                                   *)
(*                                                                         *)
(* One wave of each wave id runs on the unit, which is what the kernel     *)
(* relies on for its launch of 1 + N groups per unit; wave 0 zeroes the    *)
(* count.  Word l + 1 is the word of lane l of the prefetch wave.  Only    *)
(* sleeps order certain steps of different waves: Races names the orders   *)
(* that are not taken for granted.                                         *)
(***************************************************************************)
EXTENDS Integers, Sequences, FiniteSets

CONSTANTS
  N,             \* work waves on the compute unit
  L,             \* lanes of the prefetch wave (32)
  LoopCnt,       \* iterations of a work wave (32)
  Bits,          \* bits of a flag word (32)
  Depth,         \* lanes of v_fetch_idx_stack in use (8)
  CountMod,      \* the count is kept modulo this (2^32)
  FoundCounts,   \* what a launch may find in word 0
  FoundWords,    \* and in the signal words
  Races          \* see below

Waves == 0 .. N - 1
Lanes == 0 .. L - 1

(* "zero": wave 0's store of 0 may reach memory after a wave has added.    *)
(* "fetch": the prefetch wave may look before every wave is initialised.   *)
(* "permute": ds_bpermute may return after the v_writelane that follows,   *)
(* to the same register and without an s_waitcnt between them.             *)
ASSUME SlotAssumption ==
  /\ N \in Nat \ {0} /\ L \in Nat /\ N <= L
  /\ LoopCnt \in Nat \ {0} /\ Bits \in Nat \ {0} /\ Depth \in Nat \ {0}
  /\ CountMod \in Nat /\ N < CountMod
  /\ FoundCounts \subseteq 0 .. CountMod - 1 /\ FoundWords \subseteq [Lanes -> Nat]
  /\ Races \subseteq {"zero", "fetch", "permute"}

VARIABLES
  count,      \* word 0: the wave count
  sig,        \* the signal word of each lane
  zeroed,     \* wave 0's store of 0 has reached word 0
  wpc,        \* work waves: add, init, work, done
  idx,        \* s_sig_idx: the lane whose word a wave writes
  sent,       \* v_signal - 1: signals stored
  landed,     \* how many of them have reached memory
  fpc,        \* prefetch wave: count, signals, ended
  got,        \* v_signal: the lanes loaded so far
  flags,      \* s_fetched_data_flag, as the set of its bits
  stack,      \* v_fetch_idx_stack, lane 0 first
  ahead,      \* history: the waves that were active when a wave registered
  fetched,    \* history: the indices fetched in this launch
  lost,       \* history: those a late permute overwrote on the stack
  found       \* history: the signal words when the launch began

work == <<wpc, idx, sent, landed, ahead>>
prefetch == <<fpc, got, flags, stack, fetched, lost>>
slVars == <<count, sig, zeroed, work, prefetch, found>>

BitBeyond(i) == i                   \* mutant: a flag beyond the word
Bit(i) == i % Bits
Registered == {w \in Waves : wpc[w] # "add"}
Active == {w \in Waves : wpc[w] \in {"init", "work"}}
AllDone == \A w \in Waves : wpc[w] = "done"

(* The orders the sleeps are there for.                                    *)
ZeroedFirst == zeroed \/ "zero" \in Races
NoSleep == TRUE                      \* mutant: no s_sleep before the prefetch loop
InitializedFirst == "fetch" \in Races \/ \A w \in Waves : wpc[w] \in {"work", "done"}
-----------------------------------------------------------------------------
(* A launch finds the slot as the one before left it, or, the first one,   *)
(* as it was allocated: InitDev copies nothing to d_sig.                   *)
Init ==
  /\ count \in FoundCounts
  /\ sig \in FoundWords /\ found = sig
  /\ zeroed = FALSE
  /\ wpc = [w \in Waves |-> "add"]
  /\ idx = [w \in Waves |-> 0]
  /\ sent = [w \in Waves |-> 0] /\ landed = [w \in Waves |-> 0]
  /\ ahead = [w \in Waves |-> {}]
  /\ fpc = "count" /\ got = <<>>
  /\ flags = {} /\ stack = [i \in 1 .. Depth |-> 0] /\ fetched = {} /\ lost = {}

(* f_init_signal_slot.  Wave 0's s_store_dword reaches the count: it is    *)
(* not waited for before the atomic.                                       *)
ZeroCount ==
  /\ ~zeroed
  /\ count' = 0
  /\ zeroed' = TRUE
  /\ UNCHANGED <<sig, work, prefetch, found>>

HandOutSame(w) == [idx EXCEPT ![w] = 0]    \* mutant: no use of the old count
HandOut(w) == [idx EXCEPT ![w] = count]

(* s_atomic_op(OP_ADD) returns the count before the addition.              *)
Register(w) ==
  /\ wpc[w] = "add" /\ ZeroedFirst
  /\ idx' = HandOut(w)
  /\ count' = (count + 1) % CountMod
  /\ wpc' = [wpc EXCEPT ![w] = "init"]
  /\ ahead' = [ahead EXCEPT ![w] = Active]
  /\ UNCHANGED <<sig, zeroed, sent, landed, prefetch, found>>

SignalKept(w) == sig                \* mutant: the signal word is not cleared
SignalCleared(w) == [l \in Lanes |-> IF l = idx[w] THEN 0 ELSE sig[l]]

(* Wave 0's wait for the atomic also waits for its store.  An index beyond *)
(* the lanes writes past the words the prefetch wave reads.                *)
InitSignal(w) ==
  /\ wpc[w] = "init" /\ (w = 0 => zeroed)
  /\ sig' = SignalCleared(w)
  /\ wpc' = [wpc EXCEPT ![w] = "work"]
  /\ UNCHANGED <<count, zeroed, idx, sent, landed, ahead, prefetch, found>>

(* The work loop: the store is not waited for.                             *)
SendSignal(w) ==
  /\ wpc[w] = "work" /\ sent[w] < LoopCnt
  /\ sent' = [sent EXCEPT ![w] = @ + 1]
  /\ UNCHANGED <<count, sig, zeroed, wpc, idx, landed, ahead, prefetch, found>>

(* A wave's stores reach its word in their order.                          *)
LandSignal(w) ==
  /\ landed[w] < sent[w]
  /\ landed' = [landed EXCEPT ![w] = @ + 1]
  /\ sig' = [l \in Lanes |-> IF l = idx[w] THEN landed[w] + 1 ELSE sig[l]]
  /\ UNCHANGED <<count, zeroed, wpc, idx, sent, ahead, prefetch, found>>

CountKept == count                  \* mutant: no f_deinit_signal_slot
CountDown == (count + CountMod - 1) % CountMod

(* f_deinit_signal_slot, after the loop and the store of the sum.          *)
Deregister(w) ==
  /\ wpc[w] = "work" /\ sent[w] = LoopCnt
  /\ count' = CountDown
  /\ wpc' = [wpc EXCEPT ![w] = "done"]
  /\ UNCHANGED <<sig, zeroed, idx, sent, landed, ahead, prefetch, found>>

(* The prefetch loop: no active wave, no more prefetching.                 *)
ReadCount ==
  /\ fpc = "count" /\ InitializedFirst
  /\ fpc' = IF count = 0 THEN "ended" ELSE "signals"
  /\ got' = <<>>
  /\ UNCHANGED <<count, sig, zeroed, work, flags, stack, fetched, lost, found>>

(* One lane of the flat_load_dword of the signal words.                    *)
ReadSignal(l) ==
  /\ fpc = "signals" /\ l \notin DOMAIN got
  /\ got' = [k \in DOMAIN got \cup {l} |-> IF k = l THEN sig[l] ELSE got[k]]
  /\ UNCHANGED <<count, sig, zeroed, work, fpc, flags, stack, fetched, lost, found>>

(* Bit 0 is set so that a word holding 0 asks for nothing.                 *)
Flagged == flags \cup {0}
Fresh == {l \in DOMAIN got : Bit(got[l]) \notin Flagged}
FirstFresh == got[CHOOSE l \in Fresh : \A k \in Fresh : l <= k]

ReflagSwapped(i) ==                \* mutant: bitset0 and bitset1 in each other's place
  (Flagged \ {Bit(i)}) \cup {Bit(stack[1])}
Reflag(i) == (Flagged \ {Bit(stack[1])}) \cup {Bit(i)}

(* Every lane takes its upper neighbour's index and lane 7 the new one,    *)
(* which a late ds_bpermute overwrites with the 0 of lane 8.               *)
Pushed(i) == {Append(Tail(stack), i)}
               \cup (IF "permute" \in Races THEN {Append(Tail(stack), 0)} ELSE {})

FetchNew ==
  /\ fpc = "signals" /\ DOMAIN got = Lanes /\ Fresh # {}
  /\ flags' = Reflag(FirstFresh)
  /\ stack' \in Pushed(FirstFresh)
  /\ fetched' = fetched \cup {FirstFresh}
  /\ lost' = lost \cup ({FirstFresh} \ {stack'[Depth]})
  /\ fpc' = "count"
  /\ UNCHANGED <<count, sig, zeroed, work, got, found>>

NothingNew ==
  /\ fpc = "signals" /\ DOMAIN got = Lanes /\ Fresh = {}
  /\ flags' = Flagged
  /\ fpc' = "count"
  /\ UNCHANGED <<count, sig, zeroed, work, got, stack, fetched, lost, found>>

Work(w) == Register(w) \/ InitSignal(w) \/ SendSignal(w) \/ Deregister(w)
Prefetch == ReadCount \/ (\E l \in Lanes : ReadSignal(l)) \/ FetchNew \/ NothingNew
Next ==
  \/ ZeroCount \/ Prefetch
  \/ \E w \in Waves : Work(w) \/ LandSignal(w)

Spec == Init /\ [][Next]_slVars

(* The waves of a unit are resident together, and stores land.             *)
FairSpec ==
  /\ Spec
  /\ WF_slVars(ZeroCount) /\ WF_slVars(Prefetch)
  /\ \A w \in Waves : WF_slVars(Work(w)) /\ WF_slVars(LandSignal(w))
-----------------------------------------------------------------------------
Signals == {ws[l] : ws \in FoundWords, l \in Lanes} \cup 0 .. LoopCnt

TypeOK ==
  /\ count \in 0 .. CountMod - 1
  /\ sig \in [Lanes -> Signals] /\ found \in [Lanes -> Signals]
  /\ zeroed \in BOOLEAN
  /\ wpc \in [Waves -> {"add", "init", "work", "done"}]
  /\ idx \in [Waves -> 0 .. CountMod - 1]
  /\ sent \in [Waves -> 0 .. LoopCnt]
  /\ landed \in [Waves -> 0 .. LoopCnt] /\ \A w \in Waves : landed[w] <= sent[w]
  /\ ahead \in [Waves -> SUBSET Waves]
  /\ fpc \in {"count", "signals", "ended"}
  /\ \E S \in SUBSET Lanes : got \in [S -> Signals]
  /\ flags \subseteq 0 .. Bits - 1
  /\ stack \in Seq(Signals) /\ Len(stack) = Depth
  /\ fetched \subseteq Signals /\ lost \subseteq Signals

(* The count f_init_signal_slot and f_deinit_signal_slot keep is the       *)
(* number of active waves, from the moment it has been zeroed.             *)
CountIsActive == zeroed => count = Cardinality(Active)

(* Every word handed out is one the prefetch wave reads, and a wave is     *)
(* handed the word of another only if that one, or a wave that was active  *)
(* when that one registered, has left since: the count f_init_signal_slot  *)
(* takes the word from goes down when f_deinit_signal_slot runs before the *)
(* last wave has registered, which nothing prevents.                       *)
WordsApart ==
  \A w \in Registered :
    /\ idx[w] \in Lanes
    /\ \A v \in Registered : ahead[v] \cup {v} \subseteq ahead[w] => idx[v] # idx[w]

(* The prefetch wave stays as long as there is a wave to prefetch for:     *)
(* "exit the prefetch if the number of active waves is 0".                 *)
EndsAfterWork == fpc = "ended" => AllDone

(* The flags never come apart from the indices they stand for: the index   *)
(* stack holds no index twice, only indices that were fetched, and a flag  *)
(* is set exactly for an index on the stack or for one that was lost from  *)
(* it, when ds_bpermute returned after the v_writelane.  So an index is    *)
(* not fetched again while it is on the stack, and one that has left it is *)
(* passed over only for a flag it shares, or because it was lost: then its *)
(* flag stays set for the rest of the launch.                              *)
OnStack == {stack[i] : i \in 1 .. Depth} \ {0}
FlagsAreFetched ==
  /\ \A i, j \in 1 .. Depth : i # j /\ stack[i] # 0 => stack[i] # stack[j]
  /\ OnStack \cup lost \subseteq fetched
  /\ flags \ {0} = {Bit(i) : i \in OnStack \cup lost}

(* Every index fetched was sent by a wave of this launch or was already in *)
(* a word that no wave of this launch owns: nothing else is left over from *)
(* the buffer's allocation or the launch before.                           *)
FetchedIsSentOrFound ==
  \A i \in fetched :
    \/ \E w \in Waves : i \in 1 .. landed[w]
    \/ \E l \in Lanes : found[l] = i /\ \A w \in Waves : idx[w] # l

(* When the work waves are done, the prefetch wave ends.                   *)
FetchEnds == AllDone ~> fpc = "ended"
=============================================================================
