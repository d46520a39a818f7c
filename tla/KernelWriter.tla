----------------------------- MODULE KernelWriter -----------------------------
(***************************************************************************)
(* The kernel generator: KernelWriter::GenKernelString (KernelWriter.h)    *)
(* over the register allocator of KernelWriterBasic (KernelWriterBasic.h). *)
(*                                                                         *)
(* The text of a kernel starts with a header that says how many registers  *)
(* and how much LDS the kernel uses, which is only known once its body has *)
(* been written.  GenKernelString therefore writes everything twice: the   *)
(* first text is thrown away and only leaves its high-water marks.         *)
(*                                                                         *)
(* A generator's writeProgram is any sequence of newSgpr, newVgpr, delVar  *)
(* and LDS requests; it is the same sequence both times.  The dry pass     *)
(* chooses it, the final pass replays it.                                  *)
(***************************************************************************)
EXTENDS Integers, Sequences

CONSTANTS
  MaxSgpr, MaxVgpr,   \* MAX_SGPR_COUNT, MAX_VGPR_COUNT
  Requests,           \* the [len, align] generators ask for
  LdsSizes,           \* the LDS byte counts they ask for
  MaxOps              \* bound on the calls of one writeProgram

ASSUME WriterAssumption ==
  /\ MaxSgpr \in Nat \ {0} /\ MaxVgpr \in Nat \ {0} /\ MaxOps \in Nat
  /\ Requests \subseteq [len : Nat \ {0}, align : Nat \ {0}]
  /\ LdsSizes \subseteq Nat

VARIABLES
  mem,            \* SgprState, VgprState and the member behind them: 1 is taken
  live,           \* the variables not deleted
  sgprCountMax, vgprCountMax, ldsByteCount,
  pass,           \* dry, final, done, or crashed on a nullptr variable
  place,          \* where in writeContent: defaults (before the header) or body
  prog,           \* the calls of this generator, in order
  step,           \* how many of them this pass has made
  spots,          \* history: the register index each call got in the dry pass
  header          \* the .amd_kernel_code_t block last written

kwVars == <<mem, live, sgprCountMax, vgprCountMax, ldsByteCount, pass, place,
            prog, step, spots, header>>

Files == {"s", "v"}
Size(f) == IF f = "s" THEN MaxSgpr ELSE MaxVgpr

(* The two arrays lie one behind the other, followed by the int sgprCount, *)
(* which nothing sets; the int after that one is sgprCountMax, never 0     *)
(* once the first variable exists.  The search for a free range does not   *)
(* stop at the end of its array, so it sees all of them.                   *)
SgprCountCell == MaxSgpr + MaxVgpr
Cells == 0 .. SgprCountCell
CellOf(f, i) == IF f = "s" THEN i ELSE MaxSgpr + i
Range(f, i, len) == {CellOf(f, i + j) : j \in 0 .. len - 1}
CellsOf(v) == Range(v.file, v.idx, v.len)

NewOp(f, r) == [op |-> "new", file |-> f, len |-> r.len, align |-> r.align]
DelOp(n) == [op |-> "del", id |-> n]
LdsOp(b) == [op |-> "lds", bytes |-> b]

(* initialDefaultGprs: kernel arguments, group ids, thread ids.            *)
One == [len |-> 1, align |-> 1]
Defaults == <<NewOp("s", [len |-> 2, align |-> 1]), NewOp("s", One), NewOp("s", One),
              NewOp("s", One), NewOp("v", One), NewOp("v", One)>>

NoHeader == [sgpr |-> 0, vgpr |-> 0, sgranules |-> 0, vgranules |-> 0, lds |-> 0]
-----------------------------------------------------------------------------
Init ==
  /\ mem = [c \in Cells |-> 0]
  /\ live = {}
  /\ sgprCountMax = 0 /\ vgprCountMax = 0 /\ ldsByteCount = 0
  /\ pass = "dry" /\ place = "defaults"
  /\ prog = <<>> /\ step = 0 /\ spots = <<>>
  /\ header = NoHeader

(* The calls that may come next: the default registers, then anything in   *)
(* the dry pass and the same again in the final one.                       *)
IsNext(o) ==
  /\ pass \in {"dry", "final"}
  /\ IF place = "defaults" THEN step < Len(Defaults) /\ o = Defaults[step + 1]
     ELSE IF pass = "dry" THEN step < Len(Defaults) + MaxOps
     ELSE step < Len(prog) /\ o = prog[step + 1]

(* Bookkeeping of one call; spot is what it returned.                      *)
Called(o, spot) ==
  /\ step' = step + 1
  /\ IF pass = "dry" THEN prog' = Append(prog, o) /\ spots' = Append(spots, spot)
                     ELSE UNCHANGED <<prog, spots>>

(* Mutants: only the first register of a range is looked at; the alignment *)
(* is not.                                                                 *)
FitsFirst(f, len, align) ==
  {i \in 0 .. Size(f) - 1 : i % align = 0 /\ mem[CellOf(f, i)] = 0
                             /\ Range(f, i, len) \subseteq Cells}
FitsUnaligned(f, len, align) ==
  {i \in 0 .. Size(f) - 1 : \A c \in Range(f, i, len) : c \in Cells /\ mem[c] = 0}

(* The indices newSgpr and newVgpr accept.                                 *)
Fits(f, len, align) ==
  {i \in 0 .. Size(f) - 1 :
     /\ i % align = 0
     /\ \A c \in Range(f, i, len) : c \in Cells /\ mem[c] = 0}

Take(cells) == mem' = [c \in Cells |-> IF c \in cells THEN 1 ELSE mem[c]]
(* Mutant: the last register of a variable is not given back. *)
ReleaseAllButLast(cells) ==
  mem' = [c \in Cells |-> IF c \in cells /\ c + 1 \in cells THEN 0 ELSE mem[c]]
Release(cells) == mem' = [c \in Cells |-> IF c \in cells THEN 0 ELSE mem[c]]

(* Mutants: the mark is the last register, not the number of registers; it *)
(* adds up what was ever asked for.                                        *)
RaisedBySum(max, i, len) == max + len
RaisedToLast(max, i, len) == IF i + len - 1 > max THEN i + len - 1 ELSE max
Raised(max, i, len) == IF i + len > max THEN i + len ELSE max

(* newSgpr (f = "s") and newVgpr (f = "v"): the first range that fits.     *)
NewVar(f, r) ==
  /\ IsNext(NewOp(f, r))
  /\ \E i \in Fits(f, r.len, r.align) :
        /\ \A j \in Fits(f, r.len, r.align) : i <= j
        /\ Take(Range(f, i, r.len))
        /\ live' = live \cup {[id |-> step + 1, file |-> f, idx |-> i, len |-> r.len,
                               align |-> r.align]}
        /\ sgprCountMax' = IF f = "s" THEN Raised(sgprCountMax, i, r.len) ELSE sgprCountMax
        /\ vgprCountMax' = IF f = "v" THEN Raised(vgprCountMax, i, r.len) ELSE vgprCountMax
        /\ Called(NewOp(f, r), i)
  /\ UNCHANGED <<ldsByteCount, pass, place, header>>

(* No range fits: nullptr, which the generator hands to getVar.            *)
NewVarFails(f, r) ==
  /\ IsNext(NewOp(f, r))
  /\ Fits(f, r.len, r.align) = {}
  /\ pass' = "crashed"
  /\ UNCHANGED <<mem, live, sgprCountMax, vgprCountMax, ldsByteCount, place, prog,
                 step, spots, header>>

(* delVar, of a variable of the body that exists.                          *)
DelVar(v) ==
  /\ place = "body"
  /\ v.id > Len(Defaults)
  /\ IsNext(DelOp(v.id))
  /\ Release(CellsOf(v))
  /\ live' = live \ {v}
  /\ Called(DelOp(v.id), 0)
  /\ UNCHANGED <<sgprCountMax, vgprCountMax, ldsByteCount, pass, place, header>>

(* Mutant: the second request replaces the first. *)
AddLdsSet(b) ==
  /\ place = "body"
  /\ IsNext(LdsOp(b))
  /\ ldsByteCount' = b
  /\ Called(LdsOp(b), 0)
  /\ UNCHANGED <<mem, live, sgprCountMax, vgprCountMax, pass, place, header>>

(* ldsByteCount += bytes: the only thing a generator does to it.           *)
AddLds(b) ==
  /\ place = "body"
  /\ IsNext(LdsOp(b))
  /\ ldsByteCount' = ldsByteCount + b
  /\ Called(LdsOp(b), 0)
  /\ UNCHANGED <<mem, live, sgprCountMax, vgprCountMax, pass, place, header>>

(* writeCodeObj, between the default registers and the program.            *)
WriteCodeObj ==
  /\ pass \in {"dry", "final"}
  /\ place = "defaults"
  /\ step = Len(Defaults)
  /\ place' = "body"
  /\ header' = [sgpr |-> sgprCountMax + 6, vgpr |-> vgprCountMax,
                sgranules |-> (sgprCountMax + 6 - 1) \div 8,
                vgranules |-> (vgprCountMax - 1) \div 4, lds |-> ldsByteCount]
  /\ UNCHANGED <<mem, live, sgprCountMax, vgprCountMax, ldsByteCount, pass, prog, step, spots>>

(* Mutants: clrVar forgets one of the arrays, or everything. *)
ClearedSgprOnly == [c \in Cells |-> IF c >= MaxSgpr THEN mem[c] ELSE 0]
ClearedNothing == mem
(* clrVar: both arrays are zeroed, the members behind them are not.        *)
Cleared == [c \in Cells |-> IF c = SgprCountCell THEN mem[c] ELSE 0]

(* The end of _writeProgram: s_endpgm and clrVar, then the other pass.     *)
EndProgram ==
  /\ pass \in {"dry", "final"}
  /\ place = "body"
  /\ pass = "final" => step = Len(prog)
  /\ mem' = Cleared
  /\ live' = {}
  /\ pass' = IF pass = "dry" THEN "final" ELSE "done"
  /\ place' = "defaults"
  /\ step' = 0
  /\ UNCHANGED <<sgprCountMax, vgprCountMax, ldsByteCount, prog, spots, header>>

Next ==
  \/ \E f \in Files, r \in Requests \cup {One, [len |-> 2, align |-> 1]} :
        NewVar(f, r) \/ NewVarFails(f, r)
  \/ \E v \in live : DelVar(v)
  \/ \E b \in LdsSizes : AddLds(b)
  \/ WriteCodeObj
  \/ EndProgram

Spec == Init /\ [][Next]_kwVars
-----------------------------------------------------------------------------
VarType == [id : Nat, file : Files, idx : Nat, len : Nat \ {0}, align : Nat \ {0}]

(* Types; the high-water marks never exceed the cells there are.           *)
TypeOK ==
  /\ mem \in [Cells -> {0, 1}]
  /\ live \subseteq VarType
  /\ sgprCountMax \in 0 .. MaxSgpr + MaxVgpr + 1
  /\ vgprCountMax \in 0 .. MaxVgpr + 1
  /\ ldsByteCount \in Nat
  /\ pass \in {"dry", "final", "done", "crashed"}
  /\ place \in {"defaults", "body"}
  /\ step \in 0 .. Len(prog)
  /\ Len(spots) = Len(prog)

(* No register belongs to two variables (newSgpr, newVgpr, delVar).        *)
Disjoint == \A u, v \in live : u # v => CellsOf(u) \cap CellsOf(v) = {}

(* A register is marked exactly while a variable holds it; only the cell   *)
(* behind VgprState can stay marked without an owner, since clrVar misses  *)
(* it.                                                                     *)
Marked ==
  \A c \in Cells : \/ (mem[c] = 1) = (\E v \in live : c \in CellsOf(v))
                   \/ c = SgprCountCell

(* A variable only runs past the end of its array if it is longer than its *)
(* alignment (newSgpr, newVgpr check the start of a range, not its end).   *)
StaysInFile ==
  \A v \in live : v.idx + v.len > Size(v.file) =>
                     v.len > v.align \/ Size(v.file) % v.align # 0

(* The registers the hardware loads before the first instruction are the   *)
(* ones the default variables name, in the final text as in the dry one.   *)
Loaded == <<0, 2, 3, 4, 0, 1>>
DefaultsInPlace ==
  place = "body" /\ pass # "crashed" =>
     \A i \in 1 .. Len(Defaults) : \E v \in live : v.id = i /\ v.idx = Loaded[i]

(* The final text uses the registers the dry one used.                     *)
Reproduced == pass = "final" => \A v \in live : v.idx = spots[v.id]

(* The header of the final text covers every register the text names, by   *)
(* count and by granules (writeCodeObj).                                   *)
HeaderCovers ==
  pass = "final" /\ place = "body" =>
     \A v \in live :
        IF v.file = "s"
        THEN v.idx + v.len + 6 <= header.sgpr /\ v.idx + v.len + 6 <= 8 * (header.sgranules + 1)
        ELSE v.idx + v.len <= header.vgpr /\ v.idx + v.len <= 4 * (header.vgranules + 1)

(* The LDS the header of the final text reserves is what its program asks  *)
(* for: not what the dry pass and the final one have asked for together.   *)
LdsAsked(ops) ==
  LET sum[n \in 0 .. Len(ops)] ==
        IF n = 0 THEN 0 ELSE sum[n - 1] + (IF ops[n].op = "lds" THEN ops[n].bytes ELSE 0)
  IN  sum[Len(ops)]
LdsExact == pass = "final" /\ place = "body" => header.lds = LdsAsked(prog)

(* A generator that got through the dry pass gets through the final one,   *)
(* unless a vector variable ran into the cell clrVar misses.               *)
DryRunDecides ==
  pass = "crashed" /\ Len(prog) > step => mem[SgprCountCell] = 1
=============================================================================
