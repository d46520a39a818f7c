# Verification of auto_gen

`auto_gen` generates GPU kernels for AMD GCN hardware as assembly text, builds
and launches them through OpenCL, and searches the parameters of problems and
kernels for the fastest combination. This directory holds TLA+ models of its
core, the TLC configurations that check them on small instances, and proofs,
checked by TLAPS, of what holds for every instance.

All paths below are relative to `src/Benchmark/`.

## 1. The system

| Component | State it keeps | Operations | Status |
|---|---|---|---|
| Parameter search, `AutoTuning.h` | list of parameters, each with index, value and recorded best; position inside `GetNexComb`; cursor of `GetOneParam` | `AddOneParam`, `GetNexComb`, `RecordBestComb`, `GetOneParam` | modelled |
| Register allocator and two-pass writer, `KernelWriterBasic.h`, `KernelWriter.h` | which SGPRs and VGPRs are taken, high-water marks, LDS bytes, the text | `newSgpr`, `newVgpr`, `delVar`, `clrVar`, `writeCodeObj`, `GenKernelString` | partly |
| Instruction emitters, `KernelWriterBasic.h` | none but the text | one function per instruction | not modelled |
| ReducAdd kernel and host, `ReducAdd.cpp`, `ReducAddKernelWriter.h` | device buffers, registers and exec mask of every wave | the generated kernel; `Host`, `Verify` | partly (method 3, the one `ReducAdd.cpp:20` selects) |
| Tuning run, `ProblemControl.cpp/.h` | current problem, solution and combination, times, best records, runtime object | `RunProblem` ... `RunSolutionOnce`, `SetupSolution`, `LaunchSolution`, `GetPerformence` | modelled |
| OpenCL runtime, `RuntimeControl.h` | program, binary target file; list of streams, device | `CreatSolution` and what it calls; `InitRuntime`, streams | building partly, streams not (they never change) |
| ProducerConsumer kernel and signal slots, `KernelWriter.h`, `ProducerConsumer*.h` | wave count and signal words of each compute unit in global memory; flags and index stack of the prefetch wave | `f_init_signal_slot`, `f_deinit_signal_slot`, the work and the prefetch loop | partly |
| Backend engine, `BackendEngine/` | a second runtime (HSA, OpenCL): ring of packets, completion signals, lifetime of loaded code | `SetupDispatch`, `Launch`, `Wait`, `Memcpy` | partly; its test modelled |
| VectorAdd, `Isa*` demos, `SampleConfig.h`, utilities, `main.cpp`, vendored code | - | - | not modelled, section 7 |

`main` runs `InitRuntime`, one `RunProblem` and `CleanRuntime`. For each problem
combination (a `SearchSpace` walk) `RunSolution` makes the solution
configurations and walks the `SearchSpace` of each. For each kernel combination
the solution's `GenerateSolution` runs a `KernelWriter`, which writes an
assembly file; `RuntimeControl` calls the assembler and loads the binary; the
kernel is launched once to warm up and `RepeatTime` times for its score; the
result is copied back. `Verify` compares it with the host's after all kernels
of the problem. Everything on the host is one thread that calls and waits; the
concurrency is on the device, between the waves of a kernel.

What makes this code hard:

* `GetNexComb` recurses, and keeps where it is in *members*: every return path
  has to put them back. It also reads an uninitialised local.
* The generator runs twice over one allocator. The second text is only right if
  the first run leaves nothing behind but the high-water marks.
* Work groups of ReducAdd add to shared memory by a compare-and-swap loop under
  an exec mask, compare bits in one place and floats in another, and race with
  the group that zeroes the result.
* The signal slot of a compute unit is shared by waves that only sleeps order; its
  wave count is also the allocator of its signal words and the end condition of the
  prefetch wave, and the host never initialises it.
* A dispatch of the backend engine outlives the calls that made it: the code it runs,
  the packet it sits in and the result copied back each have a lifetime of their own.
* The tuning run reuses one file name, one runtime object, one best time and one
  host buffer for many kernels: the hazards are stale state and half-failed
  steps.

What would make each part right: the search hands out every combination once and
says so when it is done; live variables never share a register, and the header
covers what the text uses; a reduction loses no share and adds none twice; the wave
count is the number of active waves, what is prefetched was sent, and the prefetch
wave ends with the work; every score and record belongs to the kernel it is
attributed to, and every problem is verified on its own result; what is copied back
is the result of the dispatch just waited for.

## 2. Modules

`DeviceFloat`, `Accumulator`, `Enumeration` and `OffloadedCall` are small specifications
that the others use or implement. `MC*` modules give the constants values for TLC,
`*Proofs` modules hold the theorems; `PartialSums` holds lemmas several of them share.

**Enumeration**: what a client relies on. A space is fixed and a first member
handed out, then members never handed out before, and the end is announced when
none is left.

**OffloadedCall**: blocking calls. One call is open at a time, it runs at least once while
it is open and never otherwise, and its own result is what it returns.

**SearchSpace** (`AutoTuning.h`). Variables have the code's names; `searchParams`
is the parameter list, 0-based index `i` at position `i + 1`. `phase` says where
the client is. `GetNexComb` is one action per recursion level: `LevelRecurse`,
`LevelLast`, `LevelExhausted` (the return with `FAIL`). `visited` is a history
variable. `ValuesOf` follows the two branches of `AddOneParam`, including the
statement `val + newParam->Step;` that has no effect. `moveNextIdx` is assigned
only when the current parameter moves; otherwise its content is any member of the
constant `Garbage`. C++ allows either value; the repository's build sets no
optimisation level, and compiled that way it reads `FALSE` (the return statement
missing at line 121 passes the callee's value through in the same build). The
main run takes `{FALSE}`, the run `SearchSpaceGarbage` both, and each theorem that
needs the former says so.

**KernelWriter** (`KernelWriter.h`, `KernelWriterBasic.h`). `writeProgram` is any
sequence of allocator and LDS calls; the dry pass chooses it (`prog`), the final
pass replays it. `mem` covers `SgprState`, `VgprState` and the integer behind
them as one run of cells, because the search for a free range checks where a
range starts and not where it ends. `NewVar` is `newSgpr`/`newVgpr`,
`NewVarFails` the null pointer the caller dereferences, `DelVar` is `delVar`,
`WriteCodeObj` the header, `EndProgram` the end of a pass with `clrVar`.
Names, comments and the text of instructions are abstracted away.

**ReducAdd** (`ReducAddKernelWriter.h`, `ReducAdd.cpp`) over **DeviceFloat** (the
float values the properties tell apart: integers, NaN and minus zero). Each wave has a
`pc`; a memory instruction reaches memory lane by lane (`StoreZero`, `Load`,
`CompareSwap`, tracked in `pend`) and ends at the next `s_waitcnt` (`Zeroed`,
`Loaded`, `Branch`). `Branch` is `v_cmpx_neq_f32` with its effect on `exec`.
`Launch` starts the kernel again on the same buffers, as the warm-up and measured
launches do. **Accumulator** is the specification of the loop: each group adds its share
to each lane in one step, and zeroing clears all shares.

**SolutionCtrl** (`ProblemControl.cpp`, `RuntimeControl.h`). `pc` is the place in
the nested loops; one action per stretch of code between the places where the
outcome is open. `kComb` and `pComb` are the combinations of the two spaces, and
`GetNexComb` is used by the contract `Enumeration` states (any combination not
handed out yet). `bin` is the binary file every combination overwrites, `prog`
what was loaded from it. `times` carries, as history, which kernel each launch
ran. A tool that fails leaves the file as it was or removed. `exited` stands for
the program's own exits (`FATAL`, `DevCheckErr`) on the way of `SetupSolution`.
`best` is the average times `RepeatTime`, which orders kernels the same way.

**SignalSlot** (`KernelWriter.h` 226-404, `ProducerConsumerKernelWriter.h`): the slot
of one compute unit. `count` is word 0, `sig` the signal words. A work wave takes its
word from the count it read in its atomic add (`Register`), clears it (`InitSignal`),
sends an index per iteration (`SendSignal`, and `LandSignal` when the store, which
nothing waits for, reaches memory) and counts itself out (`Deregister`), which waits for
no other wave: one may leave before another has registered. The prefetch
wave reads the count (`ReadCount`), then the words lane by lane (`ReadSignal`), and
either fetches the first index whose flag is not set (`FetchNew`: flags, index stack)
or finds none. Wave 0's zeroing of the count (`ZeroCount`) is a step of its own. The
constant `Races` names the orders that only `s_sleep` and `s_nop` keep: `zero` (the
zeroing is late), `fetch` (the prefetch wave looks before the work waves are there)
and `permute` (the result of `ds_bpermute`, which no `s_waitcnt` waits for, overwrites
the `v_writelane` that follows). Properties are checked with the sleeps effective and
`permute` open; `SignalSlotHang` opens `zero`. `ahead` (who was active when a wave
registered), `fetched` and `lost` (the indices a late permute overwrote) are history.

**BackendStream** (`BackendEngineHSA.cpp`, `BackendEngineOCL.cpp`, `test/test_ocl.cpp`):
the client's calls (`CreateKernel`, `SetupDispatch`, the iterations of `Launch`,
`Wait`, `Memcpy`) on either engine, and the device as the code uses it: the packet
processor follows the ring up to the doorbell, an OpenCL queue runs in order. `code`
counts the references that keep the loaded code alive; `DeletesCode` says on which
engine the client deletes its code object before dispatching, as the test does.
`DispatchIsCall` maps a dispatch, from its setup to its copy, to a call of `OffloadedCall`.

`SearchSpace` is composed with its abstraction by `INSTANCE Enumeration` and
`SolutionCtrl` uses that abstraction in place of the odometer.

## 3. Runs

| Run | Instance | Result |
|---|---|---|
| `SearchSpace` | up to 3 parameters out of 8 specifications (1, 2, 3 values, ranges that are accepted, refused and descending), `Garbage = {FALSE}` | passes, 118k states |
| `KernelWriter` | 8 SGPRs, 4 VGPRs, 5 calls after the default registers, sizes 1 and 2, alignments 1 and 2, LDS requests of 4 and 8 | passes, 340k states |
| `ReducAdd` | 4 rows, 2 groups, 2 lanes, 2 launches, the buffer found holding 0, 3, NaN or minus zero per lane | passes, 22k states |
| `SolutionCtrl` | 2 problem and 2 solution configurations, each once with 2 combinations and once without parameters; all six source types; failing generators and tools; 2 launches of 1 or 2 time units | passes, 1.5M states |
| `SearchSpaceGarbage` | as the first, `Garbage = BOOLEAN` | `FinishedMeansAll` violated |
| `SearchSpaceRange` | one parameter given as a range | `NewCombination` violated |
| `ReducAddVerify` | as `ReducAdd`, the buffer found holding 0 | `Verify` violated |
| `SolutionCtrlStale` | as `SolutionCtrl`, assembly files only, one launch | `MeasuresCurrent` violated |
| `SignalSlot` | 3 work waves, 3 prefetch lanes, 1 iteration, 4 flag bits, a stack of 2, count modulo 4; count found 0 or 3, words found with indices of their own and some that share bits with the signals; `Races = {"permute"}` | passes, 541k states |
| `SignalSlotHang` | 2 work waves, 1 iteration, a clear slot, `Races = {"zero"}` | `FetchEnds` violated |
| `BackendStream` | both engines, 3 dispatches of 1 to 3 iterations, a ring of 2 packets, the code object deleted on OpenCL only | passes, 2.6k states |
| `BackendStreamDeleted` | one dispatch, the code object deleted on both engines | `CopiesResult` violated |

Why the bounds are enough. *SearchSpace*: the recursion has a first, a middle and a
last level, and carries run through none, one or two parameters; three is also the
first length at which garbage can be read and do harm. *KernelWriter*: the vector
file is so small that five calls fill it, run past its end into the integer behind
it, free and reuse registers and fail to allocate, in either pass. In the
repository the files have 800 and 256 cells; the sizes only decide how long that
takes. *ReducAdd*: the rows of the input are powers of two, so that every set of
shares has a sum of its own; two groups and two lanes give every order of zeroing,
reading and swapping, and lanes that leave the loop at different times; the second
launch starts from what the first left. Sums in the repository's test are of
integers small enough to be exact. *SolutionCtrl*: two of each is what it takes to
see a value survive a combination, a solution configuration or a problem.
*SignalSlot*: three waves are what it takes for two active ones to share a word, when a
third has left before the last registers; the words they then leave to nobody show what
a word found at launch does. Those words hold an index of their own, one that shares its
bit with signal 1 and one that shares it with the 0 of an empty word, which the code's
32 iterations over 32 bits do too (index 32 shares bit 0). When all three waves use word
0, three indices overflow a stack of two, so that flags are cleared again. `CountMod = 4`
lets the count wrap. With one iteration, a wave's store still lands after it has left,
in a word that may have its next owner; the instance of two waves and three iterations,
1.3M states, passes as well.
*BackendStream*: the third dispatch reuses the packet of the first.
`MaxParams`, `MaxOps`, `MaxLaunches`, `Times`, `RepeatTime`, `LoopCnt` and
`MaxDispatches` are the bounds.

What the properties say (each is stated in a comment beside it):

* `WalkInv`: at every recursion level, what has been handed out is exactly the
  combinations up to the odometer's position. `EnumeratesSpace`: the odometer
  implements `Enumeration`. `ValueFollowsIndex`, `BestWasVisited`: values and records
  never come apart from their index, nor mix two combinations.
* `Disjoint`, `Marked`, `StaysInFile`: who holds which register, also past the end
  of an array. `Reproduced`, `DryRunDecides`, `DefaultsInPlace`: the final pass
  repeats the dry one. `HeaderCovers`, `LdsExact`: the header is what the text needs.
* `AddsAtomically`: the loop implements `Accumulator`. `EveryGroupAdds`,
  `LossIsEarlyShares`: when a group ends it has added, and what is missing in the
  end is exactly what was added before the zeroing.
* `TimesOfLoaded`, `BestIsLeast`, `RecordIsFastest`, `EachCombOnce`,
  `VerifiesThisProblem`: times, records and results belong to the right kernel and problem.
  `EachCombOnce`: a tuned configuration has had each combination scored once or refused,
  and one at which the run is cut short all but the one it ended with.
  `HeldAccounted`: exactly which device buffers and runtime objects a run has not
  given back, including the ones the code leaks.
* `CountIsActive`: the count is the number of active waves. `WordsApart`: every word it
  hands out is one the prefetch wave reads, and a wave is handed another's word only if
  that one, or one it had found active, has left since. `EndsAfterWork`, `FetchEnds`: the prefetch wave ends after the last
  work wave, and does end. `FetchedIsSentOrFound`: what it fetches was sent in this
  launch or found in a word nobody owns. `FlagsAreFetched`: the flags stand exactly for
  the fetched indices that are on the stack or that a late permute lost from it.
* `CopiesResult`, `RunsAccounted`, `ClientEnds`: what is copied back is the dispatch's
  own result, an OpenCL dispatch ran as often as asked and an HSA one once, nothing is
  left to run, and no wait is for ever. `DispatchIsCall`: either engine implements
  `OffloadedCall`.

### Fairness

`SearchEnds` assumes that the client goes on calling `GetNexComb` and each call
runs (weak fairness of both): `RunOneSolutionConfig` does so in `while (true)`.
`RunEnds` assumes weak fairness of the whole next-state relation: one thread whose
calls return. `LaunchesEnd` assumes weak fairness of each wave and of the host's
next launch: ReducAdd starts `TileGroup` groups, few enough to be resident
together, so the hardware schedules each of them; without that the groups that
spin on NaN could keep group 0, whose zeroing lets them go, from running.
`FetchEnds` assumes weak fairness of each work wave, of the prefetch wave and of the
stores' arrival: a unit's waves are resident together, which the kernel relies on
anyway. `ClientEnds` assumes weak fairness of the client, one thread, and of the
device, which works on what it is given.
`KernelWriter` has no liveness property. Deadlock is checked in the `SearchSpace` runs; it is
off in the others, whose systems end. Weak fairness of a whole wave is enough:
while a wave has not ended some step of it is enabled, or a step it waits for is.

## 4. Findings

1. `AutoTuning.h:93` (`SearchSpaceGarbage`): `moveNextIdx` is read at line 120 also
   when nothing has assigned it. With three parameters the walk may then move a
   parameter it should not, and report completion with combinations missing. The
   repository's own build is not affected (run `SearchSpace`).
2. `AutoTuning.h:162` (`SearchSpaceRange`): a range yields a list that repeats its
   minimum, so that "a new combination" is not new.
3. `ReducAddKernelWriter.h:145` (`ReducAddVerify`): nothing orders group 0's zeroing
   before the other groups' adds. A group that is early loses its share, and the
   program's own verification fails. `LossIsEarlyShares` shows that nothing else is lost.
4. `RuntimeControl.h:432` (`SolutionCtrlStale`): the assembler's exit status is
   dropped, and the binary an earlier combination left is measured under the
   current one's name.
5. `KernelWriter.h:259` (`SignalSlotHang`): wave 0's zeroing of the wave count is not
   ordered before the other waves' adds. A registration it overwrites is missing when
   the waves leave: the count wraps below 0 and the prefetch wave polls for ever.
6. `BackendEngine/test/test_ocl.cpp:79` (`BackendStreamDeleted`): the test deletes the
   code object before it dispatches the kernel. On OpenCL the kernel keeps its program;
   on HSA, which the test uses, the executable is destroyed and the result may be anything.

Shown by properties that hold rather than by counterexamples: a refused kernel
keeps its device buffers and a finished search keeps its runtime (`HeldAccounted`);
a solution configuration that never beats an earlier one never records a best
combination (`RecordIsFastest`); an overlong vector range leaves a mark `clrVar`
does not clear, the only way for the final pass to fail after the dry one
(`DryRunDecides`); minus zero in the buffer makes a group leave without having
added (`EveryGroupAdds`); `Launch(iter)` of an HSA stream rings `iter` times for one
packet and the dispatch runs once (`RunsAccounted`); `OCLStream::Wait` only flushes,
and the result is right because the copy that follows blocks on the same queue
(`CopiesResult`); two active waves do share a signal word, but only when a third has left
before the later of them registered (`WordsApart`), which the length of the work loop makes
unlikely; an index that a late `ds_bpermute` overwrites on the stack keeps its flag for the
rest of the launch, so that no index of that bit is fetched again (`FlagsAreFetched`); a
refusal in `RunSolutionOnce` ends the whole run, where in a search it only costs the refused
combination (`EachCombOnce`).

Observed and not checked: `BestScore` (`ProblemControl.cpp:182`) is overwritten by every
combination, so it holds the last one's time. The index 32 shares bit 0 with the empty
word, so it is never fetched.

## 5. Proofs

`tlapm` checks every theorem to the last leaf. They hold for all values of the
constants that satisfy the modules' assumptions.

**SearchSpaceProofs.** `TypeCorrect` (no index leaves its list) holds whatever the
uninitialised bool contains. `WalkCorrect`, `FinishedMeansAllCorrect` and
`SearchEnumerates` assume `NoSpuriousMove`: the bool reads false, or there are at
most two parameters (then only the last level could read it, and it does not
recurse). The inductive invariant is `Inv`, in essence `WalkInv`: while a
`GetNexComb` is under way with a carry pending, the parameters below its level have
wrapped, and the combinations handed out are those up to `CallComb`, the
combination the call started from. The type invariant is not enough for the end of
the search, and "handed out is a set of combinations" is not inductive: one has to
know *which* set. The arithmetic core is `CarryIsSuccessor`: the combination after
the carry is the immediate successor in the order in which the first parameter
turns fastest; `LastOf` finds the highest position where two combinations differ.
`SearchEnumerates` is the refinement of `Enumeration`, step by step (`StepEnumerates`).
`ValueFollowsIndexCorrect` and `BestWasVisitedCorrect` need no such assumption: also a walk
that the bool leads astray keeps values with their indices and records whole combinations.
For the second one has to know that between two calls the space stands at a combination
the client was handed (`BestInv`). `DistinctListsNewCombination` says when the comment
that `NewCombination` states is right: when no list repeats a value (`DistinctLists`). The ranges that
`AddOneParam` generates do, and finding 2 has no other cause.

**KernelWriterProofs.** The inductive invariant `IInv` joins `TypeOK`, `Disjoint`
and `DryRunDecides` with: every cell of a live variable is marked (`HeldMarked`) and
every marked cell but one is held (`MarkedHeld`); the live variables are exactly
those the calls made so far leave, at the recorded indices (`LiveExplained`); each index was the
first fit (`SpotsFirst`); the high-water marks cover every index
of the program (`MarksCover`), and the header was computed from marks that do, in the final
pass (`HeaderMarks`). `LiveExplained` is what lets the final pass be compared
with the dry one: two passes that have made the same calls have the same marks, so the first
free range is the same. `Disjoint`, `Marked`, `StaysInFile`, `Reproduced`,
`HeaderCovers` and `DryRunDecides` follow. `DefaultsStayInPlace` is a computation of the
first-fit search from an empty allocator (`FirstOf`), for register files of any size:
`DefaultsKept` says that no generator deletes a default register. `LdsReserved` compares the
header with the sum of the requests (`LdsInv`): the counter that serves both passes holds
what the dry pass asked for when the header is written.

**ReducAddProofs.** The invariant has one part per group and lane (`LaneInv`): a
group that has not reached its swaps has not added, its register holds its share, a
lane whose swap hit is not retried, and a lane leaves only after a hit or over minus
zero. From it follow `TypeCorrect`, `EveryGroupHasAdded` and
`ImplementsAccumulator`, the refinement: a swap that hits adds the share of a group
that is not in `added`, every other step but the zeroing leaves `c` alone. The sums
are recursive functions; that they are defined and are numbers is proved with
`PartialSums`. `OnlyEarlySharesAreLost` adds what a cell holds, lane by lane (`LossInv`): a
lane not yet zeroed has lost nothing, and afterwards it holds the sum of the shares added since,
all others being early. The fold over a set of groups is shown to be a sum that grows
by one share at a time and splits over two parts (`ShareOfGrows`, `ShareOfRest`).
`VerifyFailsOnlyIfEarly` takes this to the host: where the tiles cover the rows, as
the sizes of `ReducAdd.cpp:77` and `:142` do, a lane without early shares and without minus
zero in the buffer holds exactly the host's sum, so that finding 3 has no other cause.

**SignalSlotProofs.** `TypeCorrect` and `FlagsCorrect` hold for every setting of
`Races`: the order of the waves cannot part the flags from what was fetched. Their
invariant is `FlagInv`, which adds that the bits of the indices on the stack differ
(`StackBits`) and that no index on it has the bit of a lost one (`LostBits`): otherwise
clearing a flag would clear another index's. `CountCorrect`, `WordsCorrect`,
`PrefetchStays` and `FetchesCorrect` assume `Ordered`, that is, only the race `permute`:
the zeroing comes before the adds and the prefetch wave's first look after them; the run
`SignalSlotHang` shows that they need the former. They assume nothing of when waves leave.
The invariant `SlotInv` says that a wave's word is numbered by how many waves were active
when it registered (`HandedOut`), so that of two waves of which the later found the earlier
and all that one had found, the later has the higher number; that nothing is prefetched
before every wave is initialised (`NotBegun`), and that a word holds what its owners,
however many, left in it, or what was found in it (`WordsHold`).

**SolutionCtrlProofs.** For any sequences of configurations with any finite spaces:
`TypeCorrect` (with `Placed`: where a configuration is used one is chosen, and what is
given back has been taken), `TimesBelong`, `VerifiesOwnResult` (`ResultInv`),
`BestTimeCorrect` and `RecordsCorrect` (`RecordInv`: the best time is that of a kernel
scored for this problem, and nothing is scored or recorded for configurations to come),
`ResourcesAccounted` and `EveryCombOnce`. The last two need to know how far the walks
have come (`SeenInv`) and that a kernel refused lies behind that point (`RejectedInv`):
then a new refusal is new, and counting is adding one element to a set. `HeldInv` and `OnceInv` are
`HeldAccounted` and `EachCombOnce` at every point of the run; `OnceInv` adds that a run
which ends at a refusal was not in a search. `ToolsWorkMeasuresCurrent`:
if the build tools do not fail, what is measured is the current combination's kernel, so that
finding 4 has no other cause. The assumption on the constants is
`ControlAssumption` (numbered configurations, finite spaces, at least one launch).

**BackendStreamProofs.** For any number of dispatches, iterations and ring packets: `TypeCorrect`
and `RunsCorrect` hold whatever becomes of the code object; `ResultCorrect` and
`ImplementsCalls`, the refinement of `OffloadedCall`, assume that an HSA client keeps it
(`BackendStreamDeleted` shows that they need it). On HSA the invariant (`HsaInv`) says where the one
packet in flight is: it lies in the ring, is being run or has been, with read index,
doorbell and signal to match. That an iteration of `Launch` may make it valid again after
it has been taken does no harm because the doorbell stays where it is. On OpenCL
(`OclInv`) what runs, what is queued and what has run add up to the
iterations done, and a read is always the last command. `MemInv`, `CodeInv`, `HostInv` and
`OpenInv` follow the result from the device to the client. `NoWaitInVain` is the part of
`ClientEnds` that is a safety property: while the client waits, the device has something to do,
since a packet stays valid from the store of its header until it is taken (`ValidInv`).

**PartialSums.** The library's induction theorems cannot be instantiated by the
installed provers. What the proofs need of induction is had from well-foundedness of
strict inclusion of finite sets, applied to the initial segment up to the least
counterexample, or to the least subset that is one. Sums over a sequence and folds over a
finite set exist, are numbers, and do not depend on the order (`SetSumsExist`, `SetSumRemove`,
`SetSumSplit`).

Every safety property of a passing run is a theorem. Only model-checked: all liveness
(`SearchEnds`, `LaunchesEnd`, `RunEnds`, `FetchEnds`, `ClientEnds`), which is out of this
prover's reach, as it needs ENABLED; and the violations of section 4, which are single behaviours.

## 6. Checking

    tlc -workers 2 -config SearchSpace.cfg MCSearchSpace.tla
    tlapm SearchSpaceProofs.tla

and likewise for the other configurations and proof modules. `PROJECT.json` lists
runs, theorems, the lines each definition models, the hazards with the
properties that cover them, and for each property a mutant of the code that breaks it
(operators marked "Mutant" in the modules; no behaviour uses them).

## 7. Not modelled

* *Instruction emitters*: about 2,000 lines that check operands and format one
  instruction each; no order or state. What an instruction does is modelled where a kernel
  needs it.
* *Text, metadata, signature, names* of a kernel; `newImm`, `newLaber`.
* *ReducAdd methods 1 and 2*: `ReducAdd.cpp:20` sets the method to 3 and nothing else
  assigns it, so these branches of the generator are not reached. The address
  arithmetic of method 3 is abstracted to row and lane.
* *VectorAdd and the Isa demos*: kernels without interaction between threads.
* *Streams of the runtime*: the list only changes for runtime objects made with a stream
  of their own, and the one kind the program makes is `RuntimeCtrlOcl(false)`
  (`ProblemControl.cpp:56`, `:81`): every launch uses stream 0.
* *Signal slots*: the address of a unit's slot (hardware id), the sums the work waves
  compute, debug stores; `f_send_signal` and `f_s_pend_signal`, which the kernel does not
  call. One wave of each id per unit is assumed, as the kernel's launch does, and that the
  scalar load of the count sees the atomics (a comment in the code marks this as not
  fully tested).
* *Backend engine*: device discovery, allocation, compilers and argument packing, which
  are system calls in a row.
* *Error exits* of copies, allocations and launches (`DevCheckFunc`): the program
  stops. Only those in `SetupSolution` are modelled.
* *Overflow* of the registers that hold sums and addresses: the test's numbers are far
  from it.
* *SampleConfig, main, feifei utilities, vendored SDK, glog, Linux headers*: records,
  plumbing, or third-party code.

Nearly all lines of the repository are vendored headers (`LinuxInclude`, the SDK
utilities, glog); the lines the models cover are a large part of `Benchmark/` and a small one
of the whole.

## 8. Plan

1. *Proofs*: what of the other liveness properties is safety: that a state from which the
   system cannot go on is an end (as `NoWaitInVain` says of `BackendStream`), and measures
   that every step lowers.
2. *Signal slots*: the race `fetch` as a run of its own.
3. *Operand checks* of the emitters, as predicates over operand kinds, with what their
   callers do with a refusal.
