-------------------------- MODULE KernelWriterProofs --------------------------
(***************************************************************************)
(* Proofs about KernelWriter: its type invariant, the register allocator's *)
(* invariants, and that the final text of a kernel uses the registers the  *)
(* dry one used and fits the header, for all sizes of the register files   *)
(* and all generators; where the default registers are; how much LDS the   *)
(* header reserves.                                                        *)
(*                                                                         *)
(* The two passes are related through the calls they have in common: the   *)
(* variables alive after the first k calls are a function of the calls and *)
(* of the registers the dry pass gave them.                                *)
(***************************************************************************)
EXTENDS KernelWriter, TLAPS

Sums == INSTANCE PartialSums

OpType == [op : {"new"}, file : Files, len : Nat \ {0}, align : Nat \ {0}]
            \cup [op : {"del"}, id : Nat] \cup [op : {"lds"}, bytes : Nat]

(* The calls whose variable is alive after the first k calls.              *)
LiveAt(pr, k) ==
  {n \in 1 .. k : pr[n].op = "new" /\ \A m \in n + 1 .. k : pr[m] # DelOp(n)}

VarAt(pr, sp, n) == [id |-> n, file |-> pr[n].file, idx |-> sp[n], len |-> pr[n].len,
                     align |-> pr[n].align]
VarsAt(pr, sp, k) == {VarAt(pr, sp, n) : n \in LiveAt(pr, k)}

(* The ranges that no variable of vs touches, and the first of them.       *)
FreeIn(vs, f, len, align) ==
  {i \in 0 .. Size(f) - 1 :
     /\ i % align = 0
     /\ \A c \in Range(f, i, len) : c \in Cells /\ \A v \in vs : c \notin CellsOf(v)}
FirstFree(vs, f, len, align, i) ==
  /\ i \in FreeIn(vs, f, len, align)
  /\ \A j \in FreeIn(vs, f, len, align) : i <= j

(* How far the calls have come.                                            *)
StepInv ==
  /\ prog \in Seq(OpType) /\ spots \in Seq(Nat)
  /\ pass = "dry" => step = Len(prog)
  /\ place = "defaults" => step <= 6
  /\ place = "body" => step >= 6
  /\ pass = "final" => Len(prog) >= 6
  /\ \A i \in 1 .. 6 : i <= Len(prog) => prog[i] = Defaults[i]

(* The marks in memory and the variables that hold them.                   *)
HeldMarked == \A v \in live : \A c \in CellsOf(v) : c \in Cells /\ mem[c] = 1
MarkedHeld ==
  \A c \in Cells : mem[c] = 1 /\ (c # SgprCountCell \/ pass = "dry")
                     => \E v \in live : c \in CellsOf(v)

(* The calls so far explain what is alive, and how each got its register.  *)
LiveExplained == live = VarsAt(prog, spots, step)
SpotsFirst ==
  \A n \in 1 .. Len(prog) : prog[n].op = "new" =>
     FirstFree(VarsAt(prog, spots, n - 1), prog[n].file, prog[n].len, prog[n].align, spots[n])

(* The marks cover all that the dry pass has handed out; so does the       *)
(* header once the final pass has written it.                              *)
Covered(n, s, v) ==
  spots[n] + prog[n].len <= IF prog[n].file = "s" THEN s ELSE v
MarksCover ==
  \A n \in 1 .. Len(prog) : prog[n].op = "new" => Covered(n, sgprCountMax, vgprCountMax)
HeaderMarks ==
  pass = "final" /\ place = "body" =>
     /\ header.sgpr \in Int /\ header.vgpr \in Int
     /\ header.sgranules = (header.sgpr - 1) \div 8
     /\ header.vgranules = (header.vgpr - 1) \div 4
     /\ \A n \in 1 .. Len(prog) : prog[n].op = "new" =>
          Covered(n, header.sgpr - 6, header.vgpr)

IInv ==
  /\ TypeOK /\ StepInv
  /\ Disjoint /\ HeldMarked /\ MarkedHeld
  /\ LiveExplained /\ SpotsFirst
  /\ MarksCover /\ HeaderMarks
  /\ DryRunDecides
-----------------------------------------------------------------------------
LEMMA SizeNat == \A f \in Files : Size(f) \in Nat \ {0}
  BY WriterAssumption DEF WriterAssumption, Files, Size

(* Requests make operations.                                               *)
LEMMA NewOpType ==
  ASSUME NEW f \in Files, NEW r \in Requests \cup {One, [len |-> 2, align |-> 1]}
  PROVE  /\ NewOp(f, r) \in OpType
         /\ r.len \in Nat \ {0} /\ r.align \in Nat \ {0}
         /\ NewOp(f, r).op = "new" /\ NewOp(f, r).file = f
         /\ NewOp(f, r).len = r.len /\ NewOp(f, r).align = r.align
<1>1. r \in [len : Nat \ {0}, align : Nat \ {0}]
  BY WriterAssumption DEF WriterAssumption, One
<1> QED
  BY <1>1 DEF NewOp, OpType

LEMMA OpFields ==
  ASSUME NEW o \in OpType, o.op = "new"
  PROVE  o.file \in Files /\ o.len \in Nat \ {0} /\ o.align \in Nat \ {0}
  BY DEF OpType

(* What a range of cells is, in arithmetic.                                *)
LEMMA RangeIs ==
  ASSUME NEW f \in Files, NEW i \in Nat, NEW len \in Nat \ {0}
  PROVE  \A c : c \in Range(f, i, len) <=>
                  c \in Int /\ CellOf(f, i) <= c /\ c < CellOf(f, i) + len
<1>1. CellOf(f, i) \in Nat /\ \A j \in Nat : CellOf(f, i + j) = CellOf(f, i) + j
  BY WriterAssumption DEF WriterAssumption, CellOf, Files
<1>2. ASSUME NEW c, c \in Range(f, i, len)
      PROVE  c \in Int /\ CellOf(f, i) <= c /\ c < CellOf(f, i) + len
  <2>1. PICK j \in 0 .. len - 1 : c = CellOf(f, i + j)
    BY <1>2 DEF Range
  <2>2. j \in Nat /\ 0 <= j /\ j < len /\ c = CellOf(f, i) + j
    BY <2>1, <1>1
  <2> QED
    BY <2>2, <1>1
<1>3. ASSUME NEW c \in Int, CellOf(f, i) <= c, c < CellOf(f, i) + len
      PROVE  c \in Range(f, i, len)
  <2>1. c - CellOf(f, i) \in 0 .. len - 1
    BY <1>1, <1>3
  <2>2. c = CellOf(f, i + (c - CellOf(f, i)))
    BY <1>1, <2>1
  <2> QED
    BY <2>1, <2>2 DEF Range
<1> QED
  BY <1>2, <1>3

(* The variables alive depend on the first calls only.                     *)
LEMMA VarsAgree ==
  ASSUME NEW pr, NEW sp, NEW pr2, NEW sp2, NEW k \in Nat,
         \A n \in 1 .. k : pr2[n] = pr[n] /\ sp2[n] = sp[n]
  PROVE  VarsAt(pr2, sp2, k) = VarsAt(pr, sp, k)
<1>1. LiveAt(pr2, k) = LiveAt(pr, k)
  BY DEF LiveAt
<1>2. \A n \in LiveAt(pr, k) : VarAt(pr2, sp2, n) = VarAt(pr, sp, n)
  BY DEF LiveAt, VarAt
<1> QED
  BY <1>1, <1>2 DEF VarsAt

LEMMA NoVarsAtFirst == ASSUME NEW pr, NEW sp PROVE VarsAt(pr, sp, 0) = {}
  BY DEF VarsAt, LiveAt

(* One more call: a new variable, or one less, or neither.                 *)
LEMMA VarsNew ==
  ASSUME NEW pr, NEW sp, NEW k \in Nat, pr[k + 1].op = "new"
  PROVE  VarsAt(pr, sp, k + 1) = VarsAt(pr, sp, k) \cup {VarAt(pr, sp, k + 1)}
<1>1. LiveAt(pr, k + 1) = LiveAt(pr, k) \cup {k + 1}
  <2>1. \A n \in 1 .. k : pr[k + 1] # DelOp(n)
    BY DEF DelOp
  <2>2. \A n \in 1 .. k : (n + 1 .. k + 1) = (n + 1 .. k) \cup {k + 1}
    OBVIOUS
  <2>3. \A n \in 1 .. k : n \in LiveAt(pr, k + 1) <=> n \in LiveAt(pr, k)
    BY <2>1, <2>2 DEF LiveAt
  <2>4. k + 1 \in LiveAt(pr, k + 1)
    BY DEF LiveAt
  <2>5. LiveAt(pr, k + 1) \subseteq 1 .. k + 1 /\ LiveAt(pr, k) \subseteq 1 .. k
    BY DEF LiveAt
  <2> QED
    BY <2>3, <2>4, <2>5
<1> QED
  BY <1>1 DEF VarsAt

LEMMA VarsOther ==
  ASSUME NEW pr, NEW sp, NEW k \in Nat, pr[k + 1].op # "new"
  PROVE  VarsAt(pr, sp, k + 1) = {v \in VarsAt(pr, sp, k) : pr[k + 1] # DelOp(v.id)}
<1>1. LiveAt(pr, k + 1) = {n \in LiveAt(pr, k) : pr[k + 1] # DelOp(n)}
  <2>2. \A n \in 1 .. k : (n + 1 .. k + 1) = (n + 1 .. k) \cup {k + 1}
    OBVIOUS
  <2>3. \A n \in 1 .. k : n \in LiveAt(pr, k + 1) <=> n \in LiveAt(pr, k) /\ pr[k + 1] # DelOp(n)
    BY <2>2 DEF LiveAt
  <2>4. k + 1 \notin LiveAt(pr, k + 1)
    BY DEF LiveAt
  <2>5. LiveAt(pr, k + 1) \subseteq 1 .. k + 1 /\ LiveAt(pr, k) \subseteq 1 .. k
    BY DEF LiveAt
  <2> QED
    BY <2>3, <2>4, <2>5
<1>2. \A n : VarAt(pr, sp, n).id = n
  BY DEF VarAt
<1> QED
  BY <1>1, <1>2 DEF VarsAt

(* One call: what it adds to the history of both passes.                   *)
LEMMA CallFacts ==
  ASSUME TypeOK, StepInv, NEW o \in OpType, NEW spot \in Nat, IsNext(o), Called(o, spot),
         pass' = pass, place' = place
  PROVE  /\ StepInv'
         /\ step \in Nat /\ step' = step + 1 /\ step' \in 0 .. Len(prog')
         /\ Len(spots') = Len(prog')
         /\ prog'[step + 1] = o
         /\ pass = "dry" => /\ Len(prog') = Len(prog) + 1 /\ spots'[step + 1] = spot
                           /\ step = Len(prog)
         /\ pass # "dry" => prog' = prog /\ spots' = spots /\ step + 1 \in 1 .. Len(prog)
         /\ \A n \in 1 .. Len(prog) : prog'[n] = prog[n] /\ spots'[n] = spots[n]
<1>1. CASE pass = "dry"
  <2>1. /\ prog' = Append(prog, o) /\ spots' = Append(spots, spot) /\ step' = step + 1
        /\ step = Len(prog) /\ Len(spots) = Len(prog)
    BY <1>1 DEF Called, StepInv, TypeOK
  <2>2. prog \in Seq(OpType) /\ spots \in Seq(Nat)
    BY DEF StepInv
  <2>3. /\ prog' \in Seq(OpType) /\ spots' \in Seq(Nat)
        /\ Len(prog') = Len(prog) + 1 /\ Len(spots') = Len(prog) + 1
        /\ prog'[Len(prog) + 1] = o /\ spots'[Len(prog) + 1] = spot
        /\ \A n \in 1 .. Len(prog) : prog'[n] = prog[n] /\ spots'[n] = spots[n]
        /\ Len(prog) \in Nat
    BY <2>1, <2>2
  <2>4. \A i \in 1 .. 6 : i <= Len(prog') => prog'[i] = Defaults[i]
    <3>1. CASE place = "defaults"
      <4>1. step < 6 /\ o = Defaults[step + 1]
        BY <1>1, <3>1 DEF IsNext, Defaults
      <4> QED
        BY <4>1, <2>1, <2>3 DEF StepInv
    <3>2. CASE place = "body"
      BY <3>2, <2>1, <2>3 DEF StepInv
    <3> QED
      BY <3>1, <3>2 DEF TypeOK
  <2>5. place = "defaults" => step < 6
    BY <1>1 DEF IsNext, Defaults
  <2>6. StepInv'
    BY <2>1, <2>3, <2>4, <2>5, <1>1 DEF StepInv
  <2> QED
    BY <1>1, <2>1, <2>3, <2>6
<1>2. CASE pass = "final"
  <2>1. step' = step + 1 /\ prog' = prog /\ spots' = spots /\ step \in Nat
    BY <1>2 DEF Called, TypeOK
  <2>2. step < Len(prog) /\ prog[step + 1] = o
    <3>1. CASE place = "defaults"
      <4>1. step < 6 /\ o = Defaults[step + 1]
        BY <1>2, <3>1 DEF IsNext, Defaults
      <4> QED
        BY <4>1, <2>1, <1>2 DEF StepInv
    <3>2. CASE place = "body"
      BY <1>2, <3>2 DEF IsNext
    <3> QED
      BY <3>1, <3>2 DEF TypeOK
  <2>3. Len(prog) \in Nat
    BY DEF StepInv
  <2>4. place = "defaults" => step < 6
    BY <1>2 DEF IsNext, Defaults
  <2>5. StepInv'
    BY <2>1, <2>3, <2>4, <1>2 DEF StepInv
  <2> QED
    BY <2>1, <2>2, <2>3, <2>5, <1>2 DEF TypeOK
<1> QED
  BY <1>1, <1>2 DEF IsNext

(* What fits in memory is what no variable touches, except for the cell    *)
(* clrVar misses.                                                          *)
LEMMA FitsFree ==
  ASSUME TypeOK, HeldMarked, MarkedHeld,
         NEW f \in Files, NEW len \in Nat \ {0}, NEW align \in Nat \ {0}
  PROVE  /\ Fits(f, len, align) \subseteq FreeIn(live, f, len, align)
         /\ \A q \in FreeIn(live, f, len, align) :
              \/ q \in Fits(f, len, align)
              \/ /\ SgprCountCell \in Range(f, q, len)
                 /\ mem[SgprCountCell] = 1 /\ pass # "dry"
<1>1. \A c \in Cells : mem[c] = 0 => \A v \in live : c \notin CellsOf(v)
  BY DEF HeldMarked
<1>2. \A c \in Cells : (\A v \in live : c \notin CellsOf(v)) =>
          mem[c] = 0 \/ (c = SgprCountCell /\ mem[c] = 1 /\ pass # "dry")
  BY DEF MarkedHeld, TypeOK
<1>3. ASSUME NEW q \in FreeIn(live, f, len, align), q \notin Fits(f, len, align)
      PROVE  /\ SgprCountCell \in Range(f, q, len)
             /\ mem[SgprCountCell] = 1 /\ pass # "dry"
  <2>1. PICK c \in Range(f, q, len) : ~(c \in Cells /\ mem[c] = 0)
    BY <1>3 DEF Fits, FreeIn
  <2>2. c \in Cells /\ \A v \in live : c \notin CellsOf(v)
    BY <1>3, <2>1 DEF FreeIn
  <2> QED
    BY <2>1, <2>2, <1>2
<1>4. Fits(f, len, align) \subseteq FreeIn(live, f, len, align)
  BY <1>1 DEF Fits, FreeIn
<1> QED
  BY <1>3, <1>4

(* In the final pass the first fit is the first free range, or there is    *)
(* none: a range that reaches the missed cell cannot be moved up.          *)
LEMMA FirstFitIsFree ==
  ASSUME TypeOK, HeldMarked, MarkedHeld,
         NEW f \in Files, NEW len \in Nat \ {0}, NEW align \in Nat \ {0},
         NEW i \in Fits(f, len, align), \A j \in Fits(f, len, align) : i <= j,
         pass = "dry" \/ \E q : FirstFree(live, f, len, align, q)
  PROVE  FirstFree(live, f, len, align, i)
<1>1. i \in FreeIn(live, f, len, align)
  BY FitsFree
<1>2. CASE pass = "dry"
  BY <1>1, <1>2, FitsFree DEF FirstFree
<1>3. ASSUME NEW q, FirstFree(live, f, len, align, q), pass # "dry"
      PROVE  i = q
  <2>1. q \in FreeIn(live, f, len, align) /\ q <= i
    BY <1>1, <1>3 DEF FirstFree
  <2>2. CASE q \in Fits(f, len, align)
    <3>1. i <= q
      BY <2>2
    <3>2. i \in Int /\ q \in Int
      BY <2>1, SizeNat DEF Fits, FreeIn
    <3> QED
      BY <2>1, <3>1, <3>2
  <2>3. CASE q \notin Fits(f, len, align)
    <3>1. SgprCountCell \in Range(f, q, len)
      BY <2>1, <2>3, FitsFree
    <3>2. i \in Nat /\ q \in Nat /\ q # i
      BY <2>1, <2>3, SizeNat DEF Fits, FreeIn
    <3>3. CellOf(f, q) < CellOf(f, i) /\ CellOf(f, i) \in Int /\ CellOf(f, q) \in Int
      BY <3>2, <2>1, WriterAssumption DEF CellOf, WriterAssumption
    <3>4. SgprCountCell < CellOf(f, q) + len
      BY <3>1, <3>2, RangeIs
    <3>5. CellOf(f, i) + len - 1 \in Range(f, i, len)
      BY <3>2, <3>3, RangeIs
    <3>6. CellOf(f, i) + len - 1 \in Cells
      BY <3>5 DEF Fits
    <3>7. CellOf(f, i) + len - 1 <= SgprCountCell
      BY <3>6, WriterAssumption DEF Cells, SgprCountCell, WriterAssumption
    <3>8. SgprCountCell \in Int
      BY WriterAssumption DEF SgprCountCell, WriterAssumption
    <3> QED
      BY <3>3, <3>4, <3>7, <3>8
  <2> QED
    BY <2>2, <2>3
<1> QED
  BY <1>2, <1>3

(* The history of the calls made before is not touched by one more.        *)
LEMMA CallKeepsVars ==
  ASSUME StepInv, \A n \in 1 .. Len(prog) : prog'[n] = prog[n] /\ spots'[n] = spots[n]
  PROVE  \A k \in 0 .. Len(prog) : VarsAt(prog', spots', k) = VarsAt(prog, spots, k)
<1> TAKE k \in 0 .. Len(prog)
<1>1. k \in Nat /\ \A n \in 1 .. k : n \in 1 .. Len(prog)
  BY DEF StepInv
<1> QED
  BY <1>1, VarsAgree

LEMMA NewVarStep ==
  ASSUME IInv, NEW f \in Files, NEW r \in Requests \cup {One, [len |-> 2, align |-> 1]},
         NewVar(f, r)
  PROVE  IInv'
<1> DEFINE o == NewOp(f, r)
<1>0. /\ o \in OpType /\ r.len \in Nat \ {0} /\ r.align \in Nat \ {0}
      /\ o.op = "new" /\ o.file = f /\ o.len = r.len /\ o.align = r.align
  BY NewOpType
<1>1. PICK i \in Fits(f, r.len, r.align) :
        /\ \A j \in Fits(f, r.len, r.align) : i <= j
        /\ Take(Range(f, i, r.len))
        /\ live' = live \cup {[id |-> step + 1, file |-> f, idx |-> i, len |-> r.len,
                               align |-> r.align]}
        /\ sgprCountMax' = IF f = "s" THEN Raised(sgprCountMax, i, r.len) ELSE sgprCountMax
        /\ vgprCountMax' = IF f = "v" THEN Raised(vgprCountMax, i, r.len) ELSE vgprCountMax
        /\ Called(o, i)
  BY DEF NewVar
<1>2. /\ pass' = pass /\ place' = place /\ header' = header
      /\ ldsByteCount' = ldsByteCount /\ IsNext(o) /\ pass \in {"dry", "final"}
  BY DEF NewVar, IsNext
<1>3. i \in Nat /\ i < Size(f) /\ i % r.align = 0
      /\ \A c \in Range(f, i, r.len) : c \in Cells /\ mem[c] = 0
  BY <1>0, SizeNat DEF Fits
<1> DEFINE v == [id |-> step + 1, file |-> f, idx |-> i, len |-> r.len, align |-> r.align]
<1>4. /\ StepInv'
      /\ step \in Nat /\ step' = step + 1 /\ step' \in 0 .. Len(prog')
      /\ Len(spots') = Len(prog')
      /\ prog'[step + 1] = o
      /\ pass = "dry" => /\ Len(prog') = Len(prog) + 1 /\ spots'[step + 1] = i
                        /\ step = Len(prog)
      /\ pass # "dry" => prog' = prog /\ spots' = spots /\ step + 1 \in 1 .. Len(prog)
      /\ \A n \in 1 .. Len(prog) : prog'[n] = prog[n] /\ spots'[n] = spots[n]
  <2> HIDE DEF o
  <2> QED BY <1>0, <1>1, <1>2, <1>3, CallFacts DEF IInv
<1>5. \A k \in 0 .. Len(prog) : VarsAt(prog', spots', k) = VarsAt(prog, spots, k)
  BY <1>4, CallKeepsVars DEF IInv
<1>6. live = VarsAt(prog, spots, step) /\ step \in 0 .. Len(prog) /\ Len(prog) \in Nat
  BY DEF IInv, LiveExplained, TypeOK, StepInv
<1>7. pass # "dry" => FirstFree(live, f, r.len, r.align, spots[step + 1])
  <2>1. CASE pass # "dry"
    <3>1. step + 1 \in 1 .. Len(prog) /\ prog[step + 1] = o /\ step + 1 - 1 = step
      BY <2>1, <1>4
    <3> QED
      BY <3>1, <1>0, <1>6 DEF IInv, SpotsFirst
  <2> QED
    BY <2>1
<1>8. FirstFree(live, f, r.len, r.align, i)
  BY <1>0, <1>1, <1>7, FirstFitIsFree DEF IInv
<1>9. spots'[step + 1] = i
  <2>1. CASE pass = "dry"
    BY <2>1, <1>4
  <2>2. CASE pass # "dry"
    <3>1. spots[step + 1] \in Int
      BY <2>2, <1>7, SizeNat DEF FirstFree, FreeIn
    <3> QED
      BY <2>2, <3>1, <1>3, <1>4, <1>7, <1>8 DEF FirstFree
  <2> QED
    BY <2>1, <2>2
<1>10. v = VarAt(prog', spots', step + 1)
  BY <1>0, <1>4, <1>9 DEF VarAt
<1>11. LiveExplained'
  <2>1. VarsAt(prog', spots', step + 1)
          = VarsAt(prog', spots', step) \cup {VarAt(prog', spots', step + 1)}
    <3>1. step \in Nat /\ prog'[step + 1].op = "new"
      BY <1>0, <1>4
    <3> HIDE DEF v, o
    <3> QED
      BY <3>1, VarsNew
  <2>2. live' = live \cup {v}
    BY <1>1
  <2> HIDE DEF v
  <2> QED
    BY <2>1, <2>2, <1>4, <1>5, <1>6, <1>10 DEF LiveExplained
<1>12. SpotsFirst'
  <2> SUFFICES ASSUME NEW n \in 1 .. Len(prog'), prog'[n].op = "new"
               PROVE  FirstFree(VarsAt(prog', spots', n - 1), prog'[n].file, prog'[n].len,
                                prog'[n].align, spots'[n])
    BY DEF SpotsFirst, FirstFree, FreeIn, Size
  <2>1. CASE n \in 1 .. Len(prog)
    <3>1. n - 1 \in 0 .. Len(prog)
      BY <2>1, <1>6
    <3> QED
      BY <2>1, <3>1, <1>4, <1>5 DEF IInv, SpotsFirst
  <2>2. CASE n \notin 1 .. Len(prog)
    <3>1. n = step + 1 /\ n - 1 = step
      BY <2>2, <1>4, <1>6
    <3>2. VarsAt(prog', spots', n - 1) = live
      BY <3>1, <1>5, <1>6
    <3> QED
      BY <3>1, <3>2, <1>0, <1>4, <1>8, <1>9
  <2> QED
    BY <2>1, <2>2
<1>13. CellsOf(v) = Range(f, i, r.len)
  BY DEF CellsOf
<1>14. /\ \A c \in Cells : mem'[c] = IF c \in CellsOf(v) THEN 1 ELSE mem[c]
       /\ mem' \in [Cells -> {0, 1}]
       /\ live' = live \cup {v}
       /\ \A c \in CellsOf(v) : c \in Cells /\ mem[c] = 0
  <2>1. mem \in [Cells -> {0, 1}]
    BY DEF IInv, TypeOK
  <2> HIDE DEF v
  <2> QED
    BY <1>1, <1>3, <1>13, <2>1 DEF Take, v
<1> HIDE DEF v
<1>15. HeldMarked'
  BY <1>14 DEF HeldMarked, IInv
<1>16. MarkedHeld'
  BY <1>14, <1>2 DEF MarkedHeld, IInv
<1>17. Disjoint'
  <2>1. \A u \in live : CellsOf(u) \cap CellsOf(v) = {}
    BY <1>14 DEF HeldMarked, IInv
  <2> QED
    BY <1>14, <2>1 DEF Disjoint, IInv
<1> USE DEF v
<1>18. TypeOK'
  <2>1. v \in VarType
    BY <1>0, <1>3, <1>4 DEF VarType
  <2>2. CellOf(f, i) + r.len - 1 \in Cells
    <3>1. CellOf(f, i) \in Int
      BY <1>3, WriterAssumption DEF CellOf, WriterAssumption
    <3>2. CellOf(f, i) + r.len - 1 \in Range(f, i, r.len)
      BY <3>1, <1>0, <1>3, RangeIs
    <3> QED
      BY <3>2, <1>3
  <2>3. f = "s" => i + r.len <= MaxSgpr + MaxVgpr + 1
    BY <2>2, <1>0, <1>3, WriterAssumption DEF CellOf, Cells, SgprCountCell, WriterAssumption
  <2>4. f = "v" => i + r.len <= MaxVgpr + 1
    BY <2>2, <1>0, <1>3, WriterAssumption DEF CellOf, Cells, SgprCountCell, WriterAssumption
  <2>5. /\ sgprCountMax' \in 0 .. MaxSgpr + MaxVgpr + 1
        /\ vgprCountMax' \in 0 .. MaxVgpr + 1
    BY <2>3, <2>4, <1>0, <1>1, <1>3, WriterAssumption
       DEF IInv, TypeOK, Raised, WriterAssumption
  <2>6. live' \subseteq VarType
    BY <2>1, <1>1 DEF IInv, TypeOK
  <2> QED
    BY <2>5, <2>6, <1>2, <1>4, <1>14 DEF IInv, TypeOK
<1>19. MarksCover'
  <2>1. /\ sgprCountMax \in Nat /\ vgprCountMax \in Nat
        /\ sgprCountMax' \in Nat /\ vgprCountMax' \in Nat
        /\ sgprCountMax' >= sgprCountMax /\ vgprCountMax' >= vgprCountMax
        /\ f = "s" => i + r.len <= sgprCountMax'
        /\ f # "s" => i + r.len <= vgprCountMax'
    BY <1>0, <1>1, <1>3, WriterAssumption DEF IInv, TypeOK, Raised, WriterAssumption, Files
  <2> SUFFICES ASSUME NEW n \in 1 .. Len(prog'), prog'[n].op = "new"
               PROVE  spots'[n] + prog'[n].len
                        <= IF prog'[n].file = "s" THEN sgprCountMax' ELSE vgprCountMax'
    BY DEF MarksCover, Covered
  <2>2. CASE n = step + 1
    <3>1. spots'[n] = i
      BY <2>2, <1>9
    <3>2. prog'[n].len = r.len /\ prog'[n].file = f
      BY <2>2, <1>0, <1>4
    <3>3. i + r.len <= IF f = "s" THEN sgprCountMax' ELSE vgprCountMax'
      BY <2>1
    <3> QED
      BY ONLY <3>1, <3>2, <3>3
  <2>3. CASE n # step + 1
    <3>1. n \in 1 .. Len(prog)
      BY <2>3, <1>4, <1>6, <1>2
    <3>2. spots[n] \in Int /\ prog[n] \in OpType /\ prog'[n] = prog[n] /\ spots'[n] = spots[n]
      <4>1. prog'[n] = prog[n] /\ spots'[n] = spots[n]
        BY <3>1, <1>4
      <4>2. prog \in Seq(OpType) /\ spots \in Seq(Nat) /\ Len(spots) = Len(prog)
        BY DEF IInv, StepInv, TypeOK
      <4>3. spots[n] \in Nat /\ prog[n] \in OpType
        BY ONLY <3>1, <4>2
      <4> QED
        BY <4>1, <4>3
    <3>3. prog[n].len \in Nat
      BY <3>2, OpFields
    <3>4. spots[n] + prog[n].len <= IF prog[n].file = "s" THEN sgprCountMax ELSE vgprCountMax
      BY <3>1, <3>2 DEF IInv, MarksCover, Covered
    <3> QED
      BY <3>2, <3>3, <3>4, <2>1
  <2> QED
    BY <2>2, <2>3
<1>20. HeaderMarks'
  BY <1>2, <1>4 DEF IInv, HeaderMarks, Covered
<1>21. DryRunDecides'
  BY <1>2 DEF DryRunDecides
<1> QED
  BY <1>4, <1>11, <1>12, <1>15, <1>16, <1>17, <1>18, <1>19, <1>20, <1>21 DEF IInv

(* The conjuncts that a call without a new variable leaves as they are.    *)
LEMMA OtherCall ==
  ASSUME IInv, NEW o \in OpType, o.op # "new", IsNext(o), Called(o, 0),
         pass' = pass, place' = place, header' = header,
         sgprCountMax' = sgprCountMax, vgprCountMax' = vgprCountMax
  PROVE  /\ StepInv' /\ SpotsFirst' /\ MarksCover' /\ HeaderMarks' /\ DryRunDecides'
         /\ step' \in 0 .. Len(prog') /\ Len(spots') = Len(prog')
         /\ VarsAt(prog', spots', step') = {v \in live : o # DelOp(v.id)}
<1>1. /\ StepInv'
      /\ step \in Nat /\ step' = step + 1 /\ step' \in 0 .. Len(prog')
      /\ Len(spots') = Len(prog')
      /\ prog'[step + 1] = o
      /\ pass = "dry" => Len(prog') = Len(prog) + 1 /\ step = Len(prog)
      /\ pass # "dry" => prog' = prog /\ spots' = spots /\ step + 1 \in 1 .. Len(prog)
      /\ \A n \in 1 .. Len(prog) : prog'[n] = prog[n] /\ spots'[n] = spots[n]
  BY CallFacts DEF IInv
<1>2. \A k \in 0 .. Len(prog) : VarsAt(prog', spots', k) = VarsAt(prog, spots, k)
  BY <1>1, CallKeepsVars DEF IInv
<1>3. live = VarsAt(prog, spots, step) /\ step \in 0 .. Len(prog) /\ Len(prog) \in Nat
  BY DEF IInv, LiveExplained, TypeOK, StepInv
<1>4. pass \in {"dry", "final"}
  BY DEF IsNext
<1>5. ASSUME NEW n \in 1 .. Len(prog'), prog'[n].op = "new"
      PROVE  /\ n \in 1 .. Len(prog) /\ n - 1 \in 0 .. Len(prog)
             /\ prog[n].op = "new" /\ prog'[n] = prog[n] /\ spots'[n] = spots[n]
  <2>1. n # step + 1
    BY <1>1, <1>5
  <2>2. n \in 1 .. Len(prog) /\ n - 1 \in 0 .. Len(prog)
    BY <1>1, <1>3, <1>4, <2>1
  <2> QED
    BY <2>2, <1>1, <1>5
<1>6. SpotsFirst'
  BY <1>2, <1>5 DEF IInv, SpotsFirst, FirstFree, FreeIn, Size
<1>7. MarksCover'
  BY <1>5 DEF IInv, MarksCover, Covered
<1>8. HeaderMarks'
  BY <1>1 DEF IInv, HeaderMarks, Covered
<1>9. VarsAt(prog', spots', step + 1) = {v \in VarsAt(prog', spots', step) : o # DelOp(v.id)}
  BY <1>1, VarsOther
<1>10. DryRunDecides'
  BY <1>4 DEF DryRunDecides
<1> QED
  BY <1>1, <1>2, <1>3, <1>6, <1>7, <1>8, <1>9, <1>10

LEMMA DelVarStep ==
  ASSUME IInv, NEW v \in live, DelVar(v)
  PROVE  IInv'
<1> DEFINE o == DelOp(v.id)
<1>1. /\ IsNext(o) /\ Release(CellsOf(v)) /\ live' = live \ {v} /\ Called(o, 0)
      /\ UNCHANGED <<sgprCountMax, vgprCountMax, ldsByteCount, pass, place, header>>
  BY DEF DelVar
<1>2. live \subseteq VarType /\ v \in VarType /\ mem \in [Cells -> {0, 1}]
  BY DEF IInv, TypeOK
<1>3. o \in OpType /\ o.op # "new"
  BY <1>2 DEF DelOp, OpType, VarType
<1>4. /\ StepInv' /\ SpotsFirst' /\ MarksCover' /\ HeaderMarks' /\ DryRunDecides'
      /\ step' \in 0 .. Len(prog') /\ Len(spots') = Len(prog')
      /\ VarsAt(prog', spots', step') = {u \in live : o # DelOp(u.id)}
  <2> HIDE DEF o
  <2> QED BY <1>1, <1>3, OtherCall
<1>5. \A u \in live : u.id = v.id => u = v
  BY DEF IInv, LiveExplained, VarsAt, VarAt
<1>6. \A u \in live : o = DelOp(u.id) <=> u = v
  <2>1. \A a, b : DelOp(a) = DelOp(b) <=> a = b
    BY DEF DelOp
  <2> QED
    BY <2>1, <1>5
<1>7. LiveExplained'
  BY <1>1, <1>4, <1>6 DEF LiveExplained
<1>8. /\ \A c \in Cells : mem'[c] = IF c \in CellsOf(v) THEN 0 ELSE mem[c]
      /\ mem' \in [Cells -> {0, 1}]
  BY <1>1, <1>2 DEF Release
<1>9. HeldMarked'
  BY <1>1, <1>8 DEF IInv, HeldMarked, Disjoint
<1>10. MarkedHeld'
  BY <1>1, <1>8 DEF IInv, MarkedHeld
<1>11. Disjoint'
  BY <1>1 DEF IInv, Disjoint
<1>12. TypeOK'
  BY <1>1, <1>2, <1>4, <1>8 DEF IInv, TypeOK
<1> QED
  BY <1>4, <1>7, <1>9, <1>10, <1>11, <1>12 DEF IInv

LEMMA AddLdsStep ==
  ASSUME IInv, NEW b \in LdsSizes, AddLds(b)
  PROVE  IInv'
<1> DEFINE o == LdsOp(b)
<1>1. /\ IsNext(o) /\ Called(o, 0) /\ ldsByteCount' = ldsByteCount + b
      /\ UNCHANGED <<mem, live, sgprCountMax, vgprCountMax, pass, place, header>>
  BY DEF AddLds
<1>2. b \in Nat
  BY WriterAssumption DEF WriterAssumption
<1>3. o \in OpType /\ o.op # "new" /\ \A n : o # DelOp(n)
  BY <1>2 DEF LdsOp, DelOp, OpType
<1>4. /\ StepInv' /\ SpotsFirst' /\ MarksCover' /\ HeaderMarks' /\ DryRunDecides'
      /\ step' \in 0 .. Len(prog') /\ Len(spots') = Len(prog')
      /\ VarsAt(prog', spots', step') = {u \in live : o # DelOp(u.id)}
  <2> HIDE DEF o
  <2> QED BY <1>1, <1>3, OtherCall
<1>5. LiveExplained'
  BY <1>1, <1>3, <1>4 DEF LiveExplained
<1>6. HeldMarked' /\ MarkedHeld' /\ Disjoint'
  BY <1>1 DEF IInv, HeldMarked, MarkedHeld, Disjoint
<1>7. TypeOK'
  BY <1>1, <1>2, <1>4 DEF IInv, TypeOK
<1> QED
  BY <1>4, <1>5, <1>6, <1>7 DEF IInv

(* The final pass can only be refused a variable the dry pass got when the *)
(* missed cell is marked.                                                  *)
LEMMA NewVarFailsStep ==
  ASSUME IInv, NEW f \in Files, NEW r \in Requests \cup {One, [len |-> 2, align |-> 1]},
         NewVarFails(f, r)
  PROVE  IInv'
<1> DEFINE o == NewOp(f, r)
<1>0. /\ o \in OpType /\ r.len \in Nat \ {0} /\ r.align \in Nat \ {0}
      /\ o.op = "new" /\ o.file = f /\ o.len = r.len /\ o.align = r.align
  BY NewOpType
<1>1. /\ IsNext(o) /\ Fits(f, r.len, r.align) = {} /\ pass' = "crashed"
      /\ UNCHANGED <<mem, live, sgprCountMax, vgprCountMax, ldsByteCount, place, prog,
                     step, spots, header>>
  BY DEF NewVarFails
<1>2. DryRunDecides'
  <2> SUFFICES ASSUME Len(prog) > step PROVE mem[SgprCountCell] = 1
    BY <1>1 DEF DryRunDecides
  <2>1. step \in Nat /\ Len(prog) \in Nat /\ step + 1 \in 1 .. Len(prog) /\ step + 1 - 1 = step
    BY DEF IInv, TypeOK, StepInv
  <2>2. pass = "final"
    BY <1>1, <2>1 DEF IsNext, IInv, StepInv
  <2>3. prog[step + 1] = o
    <3>1. CASE place = "defaults"
      <4>1. step < 6 /\ o = Defaults[step + 1]
        BY <1>1, <2>2, <3>1 DEF IsNext, Defaults
      <4> QED
        BY <4>1, <2>1 DEF IInv, StepInv
    <3>2. CASE place = "body"
      BY <1>1, <2>2, <3>2 DEF IsNext
    <3> QED
      BY <3>1, <3>2 DEF IInv, TypeOK
  <2>4. FirstFree(live, f, r.len, r.align, spots[step + 1])
    BY <1>0, <2>1, <2>3 DEF IInv, SpotsFirst, LiveExplained
  <2>5. spots[step + 1] \in FreeIn(live, f, r.len, r.align)
    BY <2>4 DEF FirstFree
  <2> QED
    BY <1>0, <1>1, <2>5, FitsFree DEF IInv
<1>3. StepInv' /\ MarkedHeld' /\ HeaderMarks'
  BY <1>1 DEF IInv, StepInv, MarkedHeld, HeaderMarks
<1>4. TypeOK' /\ Disjoint' /\ HeldMarked' /\ LiveExplained'
  BY <1>1 DEF IInv, TypeOK, Disjoint, HeldMarked, LiveExplained
<1>5. SpotsFirst' /\ MarksCover'
  BY <1>1 DEF IInv, SpotsFirst, FirstFree, FreeIn, Size, MarksCover, Covered
<1> QED
  BY <1>2, <1>3, <1>4, <1>5 DEF IInv

LEMMA WriteCodeObjStep ==
  ASSUME IInv, WriteCodeObj
  PROVE  IInv'
<1>1. /\ pass \in {"dry", "final"} /\ place' = "body" /\ step = 6
      /\ header' = [sgpr |-> sgprCountMax + 6, vgpr |-> vgprCountMax,
                    sgranules |-> (sgprCountMax + 6 - 1) \div 8,
                    vgranules |-> (vgprCountMax - 1) \div 4, lds |-> ldsByteCount]
      /\ UNCHANGED <<mem, live, sgprCountMax, vgprCountMax, ldsByteCount, pass, prog, step,
                     spots>>
  BY DEF WriteCodeObj, Defaults
<1>2. StepInv' /\ MarkedHeld' /\ DryRunDecides'
  BY <1>1 DEF IInv, StepInv, MarkedHeld, DryRunDecides
<1>3. HeaderMarks'
  <2>1. sgprCountMax \in Int /\ vgprCountMax \in Int
    BY WriterAssumption DEF IInv, TypeOK, WriterAssumption
  <2>2. sgprCountMax + 6 - 6 = sgprCountMax
    BY <2>1
  <2> QED
    BY <1>1, <2>1, <2>2 DEF IInv, HeaderMarks, MarksCover, Covered
<1>4. TypeOK' /\ Disjoint' /\ HeldMarked' /\ LiveExplained'
  BY <1>1 DEF IInv, TypeOK, Disjoint, HeldMarked, LiveExplained
<1>5. SpotsFirst' /\ MarksCover'
  BY <1>1 DEF IInv, SpotsFirst, FirstFree, FreeIn, Size, MarksCover, Covered
<1> QED
  BY <1>2, <1>3, <1>4, <1>5 DEF IInv

LEMMA EndProgramStep ==
  ASSUME IInv, EndProgram
  PROVE  IInv'
<1>1. /\ pass \in {"dry", "final"} /\ place = "body" /\ mem' = Cleared /\ live' = {}
      /\ pass' = (IF pass = "dry" THEN "final" ELSE "done")
      /\ place' = "defaults" /\ step' = 0
      /\ UNCHANGED <<sgprCountMax, vgprCountMax, ldsByteCount, prog, spots, header>>
  BY DEF EndProgram
<1>2. StepInv'
  BY <1>1 DEF IInv, StepInv
<1>3. MarkedHeld'
  BY <1>1 DEF MarkedHeld, Cleared
<1>4. DryRunDecides' /\ HeaderMarks' /\ HeldMarked' /\ Disjoint'
  BY <1>1 DEF DryRunDecides, HeaderMarks, HeldMarked, Disjoint
<1>5. LiveExplained'
  BY <1>1, NoVarsAtFirst DEF LiveExplained
<1>6. SpotsFirst' /\ MarksCover'
  BY <1>1 DEF IInv, SpotsFirst, FirstFree, FreeIn, Size, MarksCover, Covered
<1>7. TypeOK'
  <2>1. mem' \in [Cells -> {0, 1}]
    BY <1>1 DEF IInv, TypeOK, Cleared
  <2>2. Len(prog) \in Nat
    BY DEF IInv, StepInv
  <2> QED
    BY <1>1, <2>1, <2>2 DEF IInv, TypeOK
<1> QED
  BY <1>2, <1>3, <1>4, <1>5, <1>6, <1>7 DEF IInv

LEMMA InitHolds == Init => IInv
<1> SUFFICES ASSUME Init PROVE IInv
  OBVIOUS
<1>1. TypeOK
  BY WriterAssumption DEF Init, TypeOK, WriterAssumption
<1>2. StepInv /\ SpotsFirst /\ MarksCover
  BY DEF Init, StepInv, SpotsFirst, MarksCover
<1>3. HeaderMarks /\ DryRunDecides /\ HeldMarked /\ Disjoint
  BY DEF Init, HeaderMarks, DryRunDecides, HeldMarked, Disjoint
<1>4. MarkedHeld /\ LiveExplained
  BY NoVarsAtFirst DEF Init, MarkedHeld, LiveExplained
<1> QED
  BY <1>1, <1>2, <1>3, <1>4 DEF IInv

LEMMA InvInductive == Spec => []IInv
<1>1. ASSUME IInv, [Next]_kwVars PROVE IInv'
  <2>1. ASSUME NEW f \in Files, NEW r \in Requests \cup {One, [len |-> 2, align |-> 1]},
               NewVar(f, r)
        PROVE  IInv'
    BY <1>1, <2>1, NewVarStep
  <2>2. ASSUME NEW f \in Files, NEW r \in Requests \cup {One, [len |-> 2, align |-> 1]},
               NewVarFails(f, r)
        PROVE  IInv'
    BY <1>1, <2>2, NewVarFailsStep
  <2>3. ASSUME NEW v \in live, DelVar(v) PROVE IInv'
    BY <1>1, <2>3, DelVarStep
  <2>4. ASSUME NEW b \in LdsSizes, AddLds(b) PROVE IInv'
    BY <1>1, <2>4, AddLdsStep
  <2>5. CASE WriteCodeObj
    BY <1>1, <2>5, WriteCodeObjStep
  <2>6. CASE EndProgram
    BY <1>1, <2>6, EndProgramStep
  <2>7. CASE UNCHANGED kwVars
    <3>1. TypeOK' /\ StepInv' /\ Disjoint' /\ HeldMarked' /\ MarkedHeld' /\ LiveExplained'
      BY <1>1, <2>7 DEF IInv, kwVars, TypeOK, StepInv, Disjoint, HeldMarked, MarkedHeld,
                        LiveExplained
    <3>2. SpotsFirst' /\ MarksCover' /\ HeaderMarks' /\ DryRunDecides'
      BY <1>1, <2>7 DEF IInv, kwVars, SpotsFirst, FirstFree, FreeIn, Size, MarksCover, Covered,
                        HeaderMarks, DryRunDecides
    <3> QED
      BY <3>1, <3>2 DEF IInv
  <2> QED
    BY <1>1, <2>1, <2>2, <2>3, <2>4, <2>5, <2>6, <2>7 DEF Next
<1> QED
  BY <1>1, InitHolds, PTL DEF Spec
-----------------------------------------------------------------------------
(* The type invariant of the generator, for register files of any size:    *)
(* the high-water marks stay within the memory newSgpr and newVgpr reach.  *)
THEOREM TypeCorrect == Spec => []TypeOK
<1>1. IInv => TypeOK
  BY DEF IInv
<1> QED
  BY <1>1, InvInductive, PTL

(* newSgpr, newVgpr and delVar never let two variables share a register,   *)
(* although a range may run from one array into the other.                 *)
THEOREM AllocationDisjoint == Spec => []Disjoint
<1>1. IInv => Disjoint
  BY DEF IInv
<1> QED
  BY <1>1, InvInductive, PTL

(* A register is marked exactly while a variable holds it: delVar and      *)
(* clrVar lose no register, but for the one cell clrVar does not reach.    *)
THEOREM MarksExact == Spec => []Marked
<1>1. IInv => Marked
  BY DEF IInv, Marked, HeldMarked, MarkedHeld, TypeOK
<1> QED
  BY <1>1, InvInductive, PTL

(* Two multiples of a: the smaller one plus a is not past the larger one.  *)
LEMMA NextMultiple ==
  ASSUME NEW a \in Nat \ {0}, NEW i \in Nat, NEW n \in Nat, i % a = 0, n % a = 0, i < n
  PROVE  i + a <= n
<1> DEFINE q == i \div a
           r == n \div a
<1>1. q \in Int /\ r \in Int /\ i = a * q /\ n = a * r
  OBVIOUS
<1> HIDE DEF q, r
<1>2. q < r
  <2>1. CASE q >= r
    <3>1. a * (q - r) >= 0
      BY <1>1, <2>1
    <3>2. a * (q - r) = a * q - a * r
      BY <1>1
    <3> QED
      BY <1>1, <3>1, <3>2
  <2> QED
    BY <1>1, <2>1
<1>3. a * (r - q - 1) >= 0
  BY <1>1, <1>2
<1>4. a * (r - q - 1) = a * r - a * q - a
  BY <1>1
<1> QED
  BY <1>1, <1>3, <1>4

(* A variable leaves its own array only if it is longer than its alignment *)
(* or the alignment does not divide the array (the search checks where a   *)
(* range starts, not where it ends).                                       *)
THEOREM AlignedStaysInFile == Spec => []StaysInFile
<1>1. ASSUME IInv, NEW v \in live, v.idx + v.len > Size(v.file),
             v.len <= v.align, Size(v.file) % v.align = 0
      PROVE  FALSE
  <2>1. PICK n \in LiveAt(prog, step) : v = VarAt(prog, spots, n)
    BY <1>1 DEF IInv, LiveExplained, VarsAt
  <2>2. n \in 1 .. Len(prog) /\ prog[n].op = "new"
    BY <2>1, <1>1 DEF LiveAt, IInv, TypeOK, StepInv
  <2>3. v.idx \in FreeIn(VarsAt(prog, spots, n - 1), v.file, v.len, v.align)
    BY <2>1, <2>2, <1>1 DEF IInv, SpotsFirst, FirstFree, VarAt
  <2>4. v \in VarType
    BY <1>1 DEF IInv, TypeOK
  <2>5. /\ Size(v.file) \in Nat /\ v.align \in Nat \ {0} /\ v.idx \in Nat /\ v.len \in Nat
        /\ v.idx % v.align = 0 /\ v.idx < Size(v.file)
    BY <2>3, <2>4, SizeNat DEF VarType, FreeIn
  <2>6. v.idx + v.align <= Size(v.file)
    BY <2>5, <1>1, NextMultiple
  <2> QED
    BY <2>5, <2>6, <1>1
<1>2. ASSUME IInv PROVE StaysInFile
  <2>1. \A v \in live : v.len \in Int /\ v.align \in Int
    BY <1>2 DEF IInv, TypeOK, VarType
  <2> QED
    BY <1>1, <1>2, <2>1 DEF StaysInFile
<1> QED
  BY <1>2, InvInductive, PTL

(* The final text names the registers the dry one named: every variable of *)
(* the second pass gets the index it had in the first.                     *)
THEOREM FinalReproducesDry == Spec => []Reproduced
<1>1. IInv => Reproduced
  BY DEF IInv, Reproduced, LiveExplained, VarsAt, VarAt
<1> QED
  BY <1>1, InvInductive, PTL

(* The header of the final text, written before its body, covers every     *)
(* register the body names, in registers and in granules.                  *)
THEOREM HeaderSuffices == Spec => []HeaderCovers
<1>1. ASSUME IInv, pass = "final", place = "body", NEW v \in live
      PROVE  IF v.file = "s"
             THEN v.idx + v.len + 6 <= header.sgpr /\ v.idx + v.len + 6 <= 8 * (header.sgranules + 1)
             ELSE v.idx + v.len <= header.vgpr /\ v.idx + v.len <= 4 * (header.vgranules + 1)
  <2>1. PICK n \in LiveAt(prog, step) : v = VarAt(prog, spots, n)
    BY <1>1 DEF IInv, LiveExplained, VarsAt
  <2>2. n \in 1 .. Len(prog) /\ prog[n].op = "new"
    BY <2>1, <1>1 DEF LiveAt, IInv, TypeOK, StepInv
  <2>3. /\ header.sgpr \in Int /\ header.vgpr \in Int
        /\ header.sgranules = (header.sgpr - 1) \div 8
        /\ header.vgranules = (header.vgpr - 1) \div 4
        /\ v.idx + v.len <= IF v.file = "s" THEN header.sgpr - 6 ELSE header.vgpr
    BY <2>1, <2>2, <1>1 DEF IInv, HeaderMarks, Covered, VarAt
  <2>4. v.idx \in Int /\ v.len \in Int
    BY <1>1 DEF IInv, TypeOK, VarType
  <2>5. \A x \in Int : x <= 8 * ((x - 1) \div 8 + 1) /\ x <= 4 * ((x - 1) \div 4 + 1)
    OBVIOUS
  <2>6. /\ header.sgpr <= 8 * (header.sgranules + 1)
        /\ header.vgpr <= 4 * (header.vgranules + 1)
        /\ header.sgranules \in Int /\ header.vgranules \in Int
    BY <2>3, <2>5
  <2> QED
    BY <2>3, <2>4, <2>6
<1>2. IInv => HeaderCovers
  BY <1>1 DEF HeaderCovers
<1> QED
  BY <1>2, InvInductive, PTL

(* A generator that got all its registers in the dry pass gets them in the *)
(* final one, unless a vector variable ran into the cell clrVar misses.    *)
THEOREM DryRunSuffices == Spec => []DryRunDecides
<1>1. IInv => DryRunDecides
  BY DEF IInv
<1> QED
  BY <1>1, InvInductive, PTL
-----------------------------------------------------------------------------
(* The default registers.  Their calls come first in every pass and no     *)
(* generator deletes what they return, so the first-fit search of an empty *)
(* allocator decides where they are.                                       *)
DefaultsKept == \A m \in 1 .. Len(prog) : \A i \in 1 .. 6 : prog[m] # DelOp(i)

LEMMA FirstOf ==
  ASSUME NEW vs, NEW f \in Files, NEW i, FirstFree(vs, f, 1, 1, i), NEW k \in Nat,
         \A j \in Nat : j < k => \E v \in vs : CellOf(f, j) \in CellsOf(v),
         \A v \in vs : CellOf(f, k) \notin CellsOf(v)
  PROVE  i = k /\ k < Size(f)
<1>1. /\ i \in Nat /\ i < Size(f) /\ Size(f) \in Nat
      /\ \A c \in Range(f, i, 1) : \A v \in vs : c \notin CellsOf(v)
  BY SizeNat DEF FirstFree, FreeIn
<1>2. \A j \in Nat : Range(f, j, 1) = {CellOf(f, j)}
  BY DEF Range
<1>3. k <= i
  BY <1>1, <1>2
<1>4. k < Size(f)
  BY <1>1, <1>3
<1>5. k % 1 = 0 /\ CellOf(f, k) \in Cells
  BY <1>4, WriterAssumption DEF WriterAssumption, CellOf, Cells, SgprCountCell, Size, Files
<1>6. k \in FreeIn(vs, f, 1, 1)
  <2>1. k \in 0 .. Size(f) - 1
    BY <1>1, <1>4
  <2>2. \A c \in Range(f, k, 1) : c \in Cells /\ \A v \in vs : c \notin CellsOf(v)
    BY <1>2, <1>5
  <2> QED BY <2>1, <2>2, <1>5 DEF FreeIn
<1> QED
  BY <1>1, <1>3, <1>4, <1>6 DEF FirstFree

LEMMA DefaultSpots ==
  ASSUME IInv, Len(prog) >= 6
  PROVE  \A i \in 1 .. 6 : spots[i] = Loaded[i]
<1> DEFINE V(k) == VarsAt(prog, spots, k)
           w(n) == VarAt(prog, spots, n)
<1>1. /\ Len(prog) \in Nat
      /\ prog[1] = NewOp("s", [len |-> 2, align |-> 1])
      /\ prog[2] = NewOp("s", One) /\ prog[3] = NewOp("s", One) /\ prog[4] = NewOp("s", One)
      /\ prog[5] = NewOp("v", One) /\ prog[6] = NewOp("v", One)
  BY DEF IInv, StepInv, Defaults
<1>2. /\ prog[1].op = "new" /\ prog[1].file = "s" /\ prog[1].len = 2 /\ prog[1].align = 1
      /\ \A n \in 2 .. 6 : /\ prog[n].op = "new" /\ prog[n].len = 1 /\ prog[n].align = 1
                           /\ prog[n].file = IF n <= 4 THEN "s" ELSE "v"
  <2>1. \A n \in 2 .. 6 : n \in {2, 3, 4, 5, 6}
    OBVIOUS
  <2> QED BY <1>1, <2>1 DEF NewOp, One
<1>3. \A n \in 1 .. 6 :
         FirstFree(V(n - 1), prog[n].file, prog[n].len, prog[n].align, spots[n])
  BY <1>1, <1>2 DEF IInv, SpotsFirst
<1>4. \A n \in 1 .. 6 : CellsOf(w(n)) = Range(prog[n].file, spots[n], prog[n].len)
  BY DEF CellsOf, VarAt
<1>5. /\ V(0) = {} /\ V(1) = {w(1)} /\ V(2) = {w(1), w(2)} /\ V(3) = {w(1), w(2), w(3)}
      /\ V(4) = {w(1), w(2), w(3), w(4)} /\ V(5) = {w(1), w(2), w(3), w(4), w(5)}
  <2>1. V(0) = {}
    BY NoVarsAtFirst
  <2>2. ASSUME NEW k \in 0 .. 4 PROVE V(k + 1) = V(k) \cup {w(k + 1)}
    <3>1. prog[k + 1].op = "new" /\ k \in Nat
      BY <1>2
    <3> QED BY <3>1, VarsNew
  <2>3. \A k \in {0, 1, 2, 3, 4} : V(k + 1) = V(k) \cup {w(k + 1)}
    BY <2>2
  <2> HIDE DEF V, w
  <2>4. /\ V(1) = V(0) \cup {w(1)} /\ V(2) = V(1) \cup {w(2)} /\ V(3) = V(2) \cup {w(3)}
        /\ V(4) = V(3) \cup {w(4)} /\ V(5) = V(4) \cup {w(5)}
    BY <2>3
  <2> QED BY <2>1, <2>4
<1> HIDE DEF V, w
<1>6. /\ MaxSgpr \in Nat \ {0} /\ MaxVgpr \in Nat \ {0}
      /\ Size("s") = MaxSgpr /\ Size("v") = MaxVgpr
  BY WriterAssumption DEF WriterAssumption, Size
<1>16. /\ CellOf("s", 0) = 0 /\ CellOf("s", 1) = 1 /\ CellOf("s", 2) = 2
       /\ CellOf("s", 3) = 3 /\ CellOf("s", 4) = 4
       /\ CellOf("v", 0) = MaxSgpr /\ CellOf("v", 1) = MaxSgpr + 1
  BY <1>6 DEF CellOf
<1>7. "s" \in Files /\ "v" \in Files
  BY DEF Files
<1>8. spots[1] = 0 /\ CellsOf(w(1)) = {0, 1}
  <2>1. Range("s", 0, 2) = {0, 1}
    <3>1. \A c : c \in Range("s", 0, 2) <=> c \in Int /\ 0 <= c /\ c < 0 + 2
      <4>1. CellOf("s", 0) = 0 /\ 0 \in Nat /\ 2 \in Nat \ {0}
        BY <1>16
      <4>2. \A c : c \in Range("s", 0, 2) <=>
                      c \in Int /\ CellOf("s", 0) <= c /\ c < CellOf("s", 0) + 2
        BY <4>1, <1>7, RangeIs
      <4> QED BY <4>1, <4>2
    <3> QED BY <3>1
  <2>2. {0, 1} \subseteq Cells
    BY <1>6 DEF Cells, SgprCountCell
  <2>3. 0 \in FreeIn(V(0), "s", 2, 1)
    <3>1. 0 \in 0 .. Size("s") - 1 /\ 0 % 1 = 0
      BY <1>6
    <3> QED BY <2>1, <2>2, <3>1, <1>5 DEF FreeIn
  <2>6. FirstFree(V(0), "s", 2, 1, spots[1])
    BY <1>2, <1>3
  <2>7. spots[1] \in FreeIn(V(0), "s", 2, 1) /\ spots[1] <= 0
    BY <2>3, <2>6 DEF FirstFree
  <2>4. spots[1] \in 0 .. Size("s") - 1 /\ spots[1] <= 0
    BY <2>7 DEF FreeIn
  <2>5. spots[1] = 0
    BY <2>4, <1>6
  <2> QED BY <2>1, <2>5, <1>2, <1>4
<1>9. ASSUME NEW f \in Files, NEW j \in Nat PROVE Range(f, j, 1) = {CellOf(f, j)}
  BY DEF Range
<1>10. spots[2] = 2 /\ CellsOf(w(2)) = {2} /\ 2 < MaxSgpr
  <2>1. FirstFree(V(1), "s", 1, 1, spots[2])
    BY <1>2, <1>3
  <2>2. \A j \in Nat : j < 2 => \E v \in V(1) : CellOf("s", j) \in CellsOf(v)
    <3>1. \A j \in Nat : j < 2 => j \in {0, 1}
      OBVIOUS
    <3> QED BY <3>1, <1>16, <1>5, <1>8
  <2>3. \A v \in V(1) : CellOf("s", 2) \notin CellsOf(v)
    <3>1. CellOf("s", 2) = 2
      BY <1>16
    <3> QED BY <3>1, <1>5, <1>8
  <2>4. spots[2] = 2 /\ 2 < Size("s")
    BY <2>1, <2>2, <2>3, <1>7, FirstOf
  <2>5. CellsOf(w(2)) = {CellOf("s", 2)}
    BY <2>4, <1>2, <1>4, <1>7, <1>9
  <2> QED BY <2>4, <2>5, <1>6, <1>16
<1>11. spots[3] = 3 /\ CellsOf(w(3)) = {3} /\ 3 < MaxSgpr
  <2>1. FirstFree(V(2), "s", 1, 1, spots[3])
    BY <1>2, <1>3
  <2>2. \A j \in Nat : j < 3 => \E v \in V(2) : CellOf("s", j) \in CellsOf(v)
    <3>1. \A j \in Nat : j < 3 => j \in {0, 1, 2}
      OBVIOUS
    <3> QED BY <3>1, <1>16, <1>5, <1>8, <1>10
  <2>3. \A v \in V(2) : CellOf("s", 3) \notin CellsOf(v)
    <3>1. CellOf("s", 3) = 3
      BY <1>16
    <3> QED BY <3>1, <1>5, <1>8, <1>10
  <2>4. spots[3] = 3 /\ 3 < Size("s")
    BY <2>1, <2>2, <2>3, <1>7, FirstOf
  <2>5. CellsOf(w(3)) = {CellOf("s", 3)}
    BY <2>4, <1>2, <1>4, <1>7, <1>9
  <2> QED BY <2>4, <2>5, <1>6, <1>16
<1>12. spots[4] = 4 /\ CellsOf(w(4)) = {4} /\ 4 < MaxSgpr
  <2>1. FirstFree(V(3), "s", 1, 1, spots[4])
    BY <1>2, <1>3
  <2>2. \A j \in Nat : j < 4 => \E v \in V(3) : CellOf("s", j) \in CellsOf(v)
    <3>1. \A j \in Nat : j < 4 => j \in {0, 1, 2, 3}
      OBVIOUS
    <3> QED BY <3>1, <1>16, <1>5, <1>8, <1>10, <1>11
  <2>3. \A v \in V(3) : CellOf("s", 4) \notin CellsOf(v)
    <3>1. CellOf("s", 4) = 4
      BY <1>16
    <3> QED BY <3>1, <1>5, <1>8, <1>10, <1>11
  <2>4. spots[4] = 4 /\ 4 < Size("s")
    BY <2>1, <2>2, <2>3, <1>7, FirstOf
  <2>5. CellsOf(w(4)) = {CellOf("s", 4)}
    BY <2>4, <1>2, <1>4, <1>7, <1>9
  <2> QED BY <2>4, <2>5, <1>6, <1>16
<1>13. spots[5] = 0 /\ CellsOf(w(5)) = {MaxSgpr}
  <2>1. FirstFree(V(4), "v", 1, 1, spots[5])
    BY <1>2, <1>3
  <2>2. \A v \in V(4) : CellOf("v", 0) \notin CellsOf(v)
    BY <1>5, <1>6, <1>16, <1>8, <1>10, <1>11, <1>12
  <2>4. \A j \in Nat : j < 0 => \E v \in V(4) : CellOf("v", j) \in CellsOf(v)
    <3>1. \A j \in Nat : ~(j < 0)
      OBVIOUS
    <3> QED BY <3>1
  <2>6. 0 \in Nat
    OBVIOUS
  <2>3. spots[5] = 0
    BY <2>1, <2>2, <2>4, <2>6, <1>7, FirstOf
  <2>5. CellsOf(w(5)) = {CellOf("v", 0)}
    BY <2>3, <1>2, <1>4, <1>7, <1>9
  <2> QED BY <2>3, <2>5, <1>16
<1>14. spots[6] = 1
  <2>1. FirstFree(V(5), "v", 1, 1, spots[6])
    BY <1>2, <1>3
  <2>2. CellOf("v", 0) = MaxSgpr /\ CellOf("v", 1) = MaxSgpr + 1
    BY <1>16
  <2>3. \A v \in V(5) : CellOf("v", 1) \notin CellsOf(v)
    BY <2>2, <1>5, <1>6, <1>8, <1>10, <1>11, <1>12, <1>13
  <2>4. \A j \in Nat : j < 1 => \E v \in V(5) : CellOf("v", j) \in CellsOf(v)
    <3>1. \A j \in Nat : j < 1 => j = 0
      OBVIOUS
    <3> QED BY <3>1, <2>2, <1>5, <1>13
  <2> QED BY <2>1, <2>3, <2>4, <1>7, FirstOf
<1>15. \A i \in 1 .. 6 : i \in {1, 2, 3, 4, 5, 6}
  OBVIOUS
<1> QED
  BY <1>8, <1>10, <1>11, <1>12, <1>13, <1>14, <1>15 DEF Loaded

LEMMA DefaultsKeptStep == IInv /\ DefaultsKept /\ [Next]_kwVars => DefaultsKept'
<1> SUFFICES ASSUME IInv, DefaultsKept, [Next]_kwVars PROVE DefaultsKept'
  OBVIOUS
<1>1. ASSUME NEW o, NEW spot, Called(o, spot), \A i \in 1 .. 6 : o # DelOp(i)
      PROVE  DefaultsKept'
  <2>1. CASE prog' = Append(prog, o)
    <3>1. prog \in Seq(OpType)
      BY DEF IInv, StepInv
    <3>2. \A m \in 1 .. Len(prog') : prog'[m] = o \/ (m \in 1 .. Len(prog) /\ prog'[m] = prog[m])
      BY <2>1, <3>1
    <3> QED BY <1>1, <3>2 DEF DefaultsKept
  <2>2. CASE prog' = prog
    BY <2>2 DEF DefaultsKept
  <2> QED BY <1>1, <2>1, <2>2 DEF Called
<1>2. ASSUME NEW f \in Files, NEW r \in Requests \cup {One, [len |-> 2, align |-> 1]},
             NewVar(f, r)
      PROVE  DefaultsKept'
  <2>1. PICK spot : Called(NewOp(f, r), spot)
    BY <1>2 DEF NewVar
  <2>2. \A i \in 1 .. 6 : NewOp(f, r) # DelOp(i)
    BY DEF NewOp, DelOp
  <2> QED BY <1>1, <2>1, <2>2
<1>3. ASSUME NEW v \in live, DelVar(v) PROVE DefaultsKept'
  <2>1. Called(DelOp(v.id), 0) /\ v.id > 6
    BY <1>3 DEF DelVar, Defaults
  <2>2. \A i \in 1 .. 6 : DelOp(v.id) # DelOp(i)
    <3>1. \A i : DelOp(i).id = i
      BY DEF DelOp
    <3>2. \A i \in 1 .. 6 : v.id # i
      BY <2>1
    <3> QED BY <3>1, <3>2
  <2> QED BY <1>1, <2>1, <2>2
<1>4. ASSUME NEW b \in LdsSizes, AddLds(b) PROVE DefaultsKept'
  <2>1. Called(LdsOp(b), 0)
    BY <1>4 DEF AddLds
  <2>2. \A i \in 1 .. 6 : LdsOp(b) # DelOp(i)
    BY DEF LdsOp, DelOp
  <2> QED BY <1>1, <2>1, <2>2
<1>5. CASE UNCHANGED prog
  BY <1>5 DEF DefaultsKept
<1> QED
  BY <1>2, <1>3, <1>4, <1>5 DEF Next, NewVarFails, WriteCodeObj, EndProgram, kwVars

(* The registers the hardware loads are the default variables' own, in     *)
(* both texts, for register files of any size: a file too small for them   *)
(* stops the generator before it writes a body (initialDefaultGprs).       *)
THEOREM DefaultsStayInPlace == Spec => []DefaultsInPlace
<1>1. ASSUME IInv, DefaultsKept, place = "body", pass # "crashed",
             NEW i \in 1 .. 6
      PROVE  \E v \in live : v.id = i /\ v.idx = Loaded[i]
  <2>1. step >= 6 /\ step <= Len(prog) /\ step \in Nat /\ Len(prog) \in Nat
    BY <1>1 DEF IInv, StepInv, TypeOK
  <2>2. Len(prog) >= 6
    BY <2>1
  <2>3. prog[i].op = "new"
    <3>1. prog[i] = Defaults[i] /\ i \in {1, 2, 3, 4, 5, 6}
      BY <1>1, <2>2 DEF IInv, StepInv
    <3> QED BY <3>1 DEF Defaults, NewOp
  <2>4. \A m \in i + 1 .. step : prog[m] # DelOp(i)
    BY <1>1, <2>1 DEF DefaultsKept
  <2>5. i \in LiveAt(prog, step)
    BY <2>1, <2>3, <2>4 DEF LiveAt
  <2>6. VarAt(prog, spots, i) \in live
    BY <1>1, <2>5 DEF IInv, LiveExplained, VarsAt
  <2>7. spots[i] = Loaded[i]
    BY <1>1, <2>2, DefaultSpots
  <2> QED BY <2>6, <2>7 DEF VarAt
<1>2. IInv /\ DefaultsKept => DefaultsInPlace
  BY <1>1 DEF DefaultsInPlace, Defaults
<1>3. Init => DefaultsKept
  BY DEF Init, DefaultsKept
<1> QED
  BY <1>2, <1>3, InvInductive, DefaultsKeptStep, PTL DEF Spec
-----------------------------------------------------------------------------
(* The LDS of the calls, one after the other, is a partial sum.            *)
BytesOf(o) == IF o.op = "lds" THEN o.bytes ELSE 0
BytesAt(ops) == [n \in 1 .. Len(ops) |-> BytesOf(ops[n])]

LEMMA LdsAskedIsSum ==
  ASSUME NEW ops \in Seq(OpType)
  PROVE  \E f : Sums!SumsOf(f, BytesAt(ops), Len(ops)) /\ LdsAsked(ops) = f[Len(ops)]
<1> DEFINE body(f) == [n \in 0 .. Len(ops) |->
                         IF n = 0 THEN 0
                         ELSE f[n - 1] + (IF ops[n].op = "lds" THEN ops[n].bytes ELSE 0)]
           sum == CHOOSE f : f = body(f)
<1>1. Len(ops) \in Nat
  OBVIOUS
<1>2. \A n \in 1 .. Len(ops) :
         BytesAt(ops)[n] = IF ops[n].op = "lds" THEN ops[n].bytes ELSE 0
  BY DEF BytesAt, BytesOf
<1>3. \A f : Sums!SumsOf(f, BytesAt(ops), Len(ops)) <=> f = body(f)
  <2>1. ASSUME NEW f, NEW n \in 0 .. Len(ops)
        PROVE  (IF n = 0 THEN 0 ELSE f[n - 1] + BytesAt(ops)[n])
                 = (IF n = 0 THEN 0
                    ELSE f[n - 1] + (IF ops[n].op = "lds" THEN ops[n].bytes ELSE 0))
    <3>1. n # 0 => n \in 1 .. Len(ops)
      BY <1>1
    <3> QED BY <1>2, <3>1
  <2>2. ASSUME NEW f
        PROVE  [n \in 0 .. Len(ops) |-> IF n = 0 THEN 0 ELSE f[n - 1] + BytesAt(ops)[n]] = body(f)
    BY <2>1
  <2> QED BY <2>2 DEF Sums!SumsOf
<1>4. sum = body(sum)
  <2>1. \E f : f = body(f)
    BY <1>1, <1>3, Sums!SumsExist
  <2> HIDE DEF body
  <2> QED BY <2>1
<1>5. Sums!SumsOf(sum, BytesAt(ops), Len(ops))
  BY <1>3, <1>4
<1>6. LdsAsked(ops) = sum[Len(ops)]
  BY DEF LdsAsked
<1> HIDE DEF sum
<1> QED BY <1>5, <1>6

LEMMA BytesType == ASSUME NEW o \in OpType PROVE BytesOf(o) \in Nat
BY DEF OpType, BytesOf

(* One more call adds what it asks for.                                    *)
LEMMA LdsAskedMore ==
  ASSUME NEW ops \in Seq(OpType), NEW o \in OpType
  PROVE  LdsAsked(Append(ops, o)) = LdsAsked(ops) + BytesOf(o)
<1> DEFINE n == Len(ops)
           more == Append(ops, o)
<1>1. n \in Nat /\ more \in Seq(OpType) /\ Len(more) = n + 1 /\ more[n + 1] = o
      /\ \A i \in 1 .. n : more[i] = ops[i] /\ ops[i] \in OpType
  OBVIOUS
<1>2. PICK f : Sums!SumsOf(f, BytesAt(ops), n) /\ LdsAsked(ops) = f[n]
  BY LdsAskedIsSum
<1>3. PICK g : Sums!SumsOf(g, BytesAt(more), n + 1) /\ LdsAsked(more) = g[n + 1]
  BY <1>1, LdsAskedIsSum
<1> HIDE DEF n, more
<1>4. /\ \A i \in 1 .. n : BytesAt(ops)[i] = BytesOf(ops[i]) /\ BytesAt(more)[i] = BytesOf(ops[i])
      /\ BytesAt(more)[n + 1] = BytesOf(o)
  BY <1>1 DEF BytesAt, n
<1>5. /\ \A i \in 1 .. n : BytesAt(ops)[i] \in Int
      /\ \A i \in 1 .. n + 1 : BytesAt(more)[i] \in Int
  <2>1. \A i \in 1 .. n : BytesOf(ops[i]) \in Int
    BY <1>1, BytesType
  <2>2. BytesOf(o) \in Int
    BY BytesType
  <2>3. \A i \in 1 .. n + 1 : i = n + 1 \/ i \in 1 .. n
    BY <1>1
  <2> QED BY <2>1, <2>2, <2>3, <1>4
<1>6. f[0] = 0 /\ \A i \in 1 .. n : f[i] = f[i - 1] + BytesAt(ops)[i]
  <2>1. n \in Nat /\ Sums!SumsOf(f, BytesAt(ops), n)
    BY <1>1, <1>2
  <2>2. \A i \in 1 .. n : BytesAt(ops)[i] \in Int
    BY <1>5
  <2> QED BY <2>1, <2>2, Sums!SumsAreNumbers
<1>7. g[0] = 0 /\ \A i \in 1 .. n + 1 : g[i] = g[i - 1] + BytesAt(more)[i]
  <2>1. n + 1 \in Nat
    BY <1>1
  <2> QED BY <2>1, <1>3, <1>5, Sums!SumsAreNumbers
<1>8. g[n] = f[n]
  <2> DEFINE S == {i \in 0 .. n : g[i] = f[i]}
  <2>1. 0 \in S
    BY <1>1, <1>6, <1>7
  <2>2. ASSUME NEW i \in 1 .. n, i - 1 \in S PROVE i \in S
    <3>1. i \in 1 .. n + 1 /\ i \in 0 .. n
      BY <1>1
    <3>2. g[i - 1] = f[i - 1] /\ BytesAt(more)[i] = BytesAt(ops)[i]
      BY <2>2, <1>4
    <3> QED BY <3>1, <3>2, <1>6, <1>7
  <2> HIDE DEF S
  <2>3. \A i \in 0 .. n : i \in S
    BY <2>1, <2>2, <1>1, Sums!AllUpTo
  <2>4. n \in S
    BY <2>3, <1>1
  <2> QED BY <2>4 DEF S
<1>9. g[n + 1] = g[n] + BytesOf(o)
  <2>1. n + 1 \in 1 .. n + 1 /\ (n + 1) - 1 = n
    BY <1>1
  <2> QED BY <2>1, <1>4, <1>7
<1> QED BY <1>2, <1>3, <1>8, <1>9 DEF more

LEMMA LdsAskedNumber ==
  ASSUME NEW ops \in Seq(OpType)
  PROVE  LdsAsked(ops) \in Nat /\ (ops = <<>> => LdsAsked(ops) = 0)
<1>1. PICK f : Sums!SumsOf(f, BytesAt(ops), Len(ops)) /\ LdsAsked(ops) = f[Len(ops)]
  BY LdsAskedIsSum
<1>2. Len(ops) \in Nat /\ Len(ops) \in 0 .. Len(ops) /\ \A i \in 1 .. Len(ops) : ops[i] \in OpType
  OBVIOUS
<1>3. \A i \in 1 .. Len(ops) : BytesAt(ops)[i] \in Nat
  BY <1>2, BytesType DEF BytesAt
<1>4. \A i \in 1 .. Len(ops) : BytesAt(ops)[i] \in Int
  BY <1>3
<1>5. f[0] = 0 /\ \A i \in 0 .. Len(ops) : f[i] \in Nat
  BY <1>1, <1>2, <1>3, <1>4, Sums!SumsAreNumbers
<1> QED BY <1>1, <1>2, <1>5

(* What the counter stands at before the header of the final text: the dry *)
(* pass's requests, and nothing of the final pass yet.                     *)
LdsInv ==
  /\ pass = "dry" => ldsByteCount = LdsAsked(prog)
  /\ pass = "final" /\ place = "defaults" => ldsByteCount = LdsAsked(prog)
  /\ LdsExact

LEMMA LdsStep == IInv /\ LdsInv /\ [Next]_kwVars => LdsInv'
<1> SUFFICES ASSUME IInv, LdsInv, [Next]_kwVars PROVE LdsInv'
  OBVIOUS
<1>0. prog \in Seq(OpType) /\ LdsAsked(prog) \in Nat
  BY LdsAskedNumber DEF IInv, StepInv
<1>1. ASSUME NEW o \in OpType, NEW spot, Called(o, spot),
             UNCHANGED <<pass, place, header>>,
             \/ UNCHANGED ldsByteCount /\ BytesOf(o) = 0
             \/ place = "body" /\ ldsByteCount' = ldsByteCount + BytesOf(o)
      PROVE  LdsInv'
  <2>1. BytesOf(o) \in Nat
    BY BytesType
  <2>2. CASE pass = "dry"
    <3>1. prog' = Append(prog, o)
      BY <1>1, <2>2 DEF Called
    <3>2. LdsAsked(prog') = LdsAsked(prog) + BytesOf(o)
      BY <1>0, <3>1, LdsAskedMore
    <3>3. ldsByteCount' = LdsAsked(prog')
      BY <1>0, <1>1, <2>1, <2>2, <3>2 DEF LdsInv
    <3> QED BY <1>1, <2>2, <3>3 DEF LdsInv, LdsExact
  <2>3. CASE pass # "dry"
    <3>1. prog' = prog
      BY <1>1, <2>3 DEF Called
    <3> QED BY <1>1, <2>3, <3>1 DEF LdsInv, LdsExact
  <2> QED BY <2>2, <2>3
<1>2. ASSUME NEW f \in Files, NEW r \in Requests \cup {One, [len |-> 2, align |-> 1]},
             NewVar(f, r)
      PROVE  LdsInv'
  <2>1. PICK i : Called(NewOp(f, r), i)
    BY <1>2 DEF NewVar
  <2>2. NewOp(f, r) \in OpType /\ BytesOf(NewOp(f, r)) = 0
    BY NewOpType DEF BytesOf
  <2>3. UNCHANGED <<pass, place, header, ldsByteCount>>
    BY <1>2 DEF NewVar
  <2> QED BY <1>1, <2>1, <2>2, <2>3
<1>3. ASSUME NEW v \in live, DelVar(v) PROVE LdsInv'
  <2>1. Called(DelOp(v.id), 0) /\ UNCHANGED <<pass, place, header, ldsByteCount>>
    BY <1>3 DEF DelVar
  <2>2. DelOp(v.id) \in OpType /\ BytesOf(DelOp(v.id)) = 0
    <3>1. v.id \in Nat
      BY <1>3 DEF IInv, TypeOK, VarType
    <3> QED BY <3>1 DEF OpType, DelOp, BytesOf
  <2> QED BY <1>1, <2>1, <2>2
<1>4. ASSUME NEW b \in LdsSizes, AddLds(b) PROVE LdsInv'
  <2>1. Called(LdsOp(b), 0) /\ UNCHANGED <<pass, place, header>> /\ place = "body"
        /\ ldsByteCount' = ldsByteCount + b
    BY <1>4 DEF AddLds
  <2>2. LdsOp(b) \in OpType /\ BytesOf(LdsOp(b)) = b
    <3>1. b \in Nat
      BY WriterAssumption DEF WriterAssumption
    <3> QED BY <3>1 DEF OpType, LdsOp, BytesOf
  <2> QED BY <1>1, <2>1, <2>2
<1>5. CASE WriteCodeObj
  <2>1. header'.lds = ldsByteCount /\ place = "defaults" /\ UNCHANGED <<pass, prog, ldsByteCount>>
    BY <1>5 DEF WriteCodeObj
  <2>2. place' = "body"
    BY <1>5 DEF WriteCodeObj
  <2> QED BY <2>1, <2>2 DEF LdsInv, LdsExact
<1>6. CASE EndProgram
  <2>1. place' = "defaults" /\ UNCHANGED <<prog, ldsByteCount>>
        /\ (pass = "dry" \/ pass' = "done") /\ pass' # "dry"
    BY <1>6 DEF EndProgram
  <2> QED BY <2>1 DEF LdsInv, LdsExact
<1>7. ASSUME NEW f \in Files, NEW r \in Requests \cup {One, [len |-> 2, align |-> 1]},
             NewVarFails(f, r)
      PROVE  LdsInv'
  BY <1>7 DEF NewVarFails, LdsInv, LdsExact
<1>8. CASE UNCHANGED kwVars
  BY <1>8 DEF kwVars, LdsInv, LdsExact
<1> QED BY <1>2, <1>3, <1>4, <1>5, <1>6, <1>7, <1>8 DEF Next

(* The final text reserves the LDS its program asks for, once: the header  *)
(* is written when the counter holds the dry pass's requests only, however *)
(* much the final pass adds to it afterwards (ldsByteCount, writeCodeObj). *)
THEOREM LdsReserved == Spec => []LdsExact
<1>1. Init => LdsInv
  <2>1. <<>> \in Seq(OpType)
    OBVIOUS
  <2>2. LdsAsked(<<>>) = 0
    BY <2>1, LdsAskedNumber
  <2> QED BY <2>2 DEF Init, LdsInv, LdsExact
<1>2. LdsInv => LdsExact
  BY DEF LdsInv
<1> QED
  BY <1>1, <1>2, InvInductive, LdsStep, PTL DEF Spec
=============================================================================
