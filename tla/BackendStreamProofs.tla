------------------------- MODULE BackendStreamProofs --------------------------
(***************************************************************************)
(* Proofs about BackendStream, for any number of dispatches and of         *)
(* iterations and a ring of any size: on either engine, what the client    *)
(* copies back is the result of the dispatch it has waited for, every      *)
(* dispatch has run as often as RunsAccounted says, and together these are *)
(* the blocking calls of OffloadedCall.                                    *)
(***************************************************************************)
EXTENDS BackendStream, TLAPS

(* No dispatch is under way.                                               *)
Idle == cpc \in {"code", "setup", "end"}

(* What the client knows of its dispatch.                                  *)
ClientInv ==
  /\ cpc = "code" => d = 0
  /\ cpc \in {"launch", "doorbell", "wait", "copy", "copying"} => d >= 1
  /\ d >= 1 => asked[d] = iter[2] /\ iter[2] >= 1
  /\ cpc = "doorbell" => engine = "HSA" /\ iter[1] < iter[2]
  /\ cpc = "copying" => engine = "OCL"
  /\ d >= 1 /\ cpc \notin {"launch", "doorbell"} => iter[1] = iter[2]
  /\ asked \in [Dispatches -> Nat] /\ ran \in [Dispatches -> Nat]
  /\ iter \in Nat \X Nat

(* The dispatch at hand, on HSA: its packet lies in the ring, is being     *)
(* run, or has been.                                                       *)
Lies == readIndex = d - 1 /\ running = 0 /\ signal[d] = 1 /\ ran[d] = 0
Runs == readIndex = d /\ running = d /\ signal[d] = 1 /\ ran[d] = 0
HasRun == readIndex = d /\ running = 0 /\ signal[d] = 0 /\ ran[d] = 1
Rung == doorbell = d - 1

HsaInv ==
  engine = "HSA" =>
    /\ queue = <<>> /\ writeIndex = d /\ running \in {0, d}
    /\ \A k \in Dispatches : k < d => ran[k] = 1 /\ signal[k] = 0
    /\ \A k \in Dispatches : k > d => ran[k] = 0 /\ signal[k] = 0
    /\ d = 0 => readIndex = 0 /\ doorbell = -1
    /\ d >= 1 =>
         /\ ring[Slot(d - 1)].body = d
         /\ \/ Lies /\ doorbell = d - 2 /\ cpc \in {"launch", "doorbell"} /\ iter[1] = 0
            \/ Rung /\ (Lies \/ Runs) /\ cpc \in {"launch", "doorbell", "wait"}
               /\ (cpc = "launch" => iter[1] >= 1)
            \/ Rung /\ HasRun /\ (cpc = "launch" => iter[1] >= 1)

(* On OpenCL: every iteration enqueued waits, runs, or has run; a read     *)
(* waits behind them.                                                      *)
Busy == IF running = 0 THEN 0 ELSE 1
Reading == IF cpc = "copying" THEN 1 ELSE 0

OclInv ==
  engine = "OCL" =>
    /\ writeIndex = 0 /\ doorbell = -1 /\ readIndex = 0
    /\ signal = [k \in Dispatches |-> 0]
    /\ running \in {0, d} /\ queue \in Seq({0, d})
    /\ \A k \in Dispatches : k < d => ran[k] = asked[k]
    /\ \A k \in Dispatches : k > d => ran[k] = 0
    /\ d = 0 => queue = <<>>
    /\ d >= 1 => ran[d] + Busy + Len(queue) = iter[1] + Reading
    /\ Idle => queue = <<>> /\ running = 0
    /\ \A i \in 1 .. Len(queue) : queue[i] = 0 <=> cpc = "copying" /\ i = Len(queue)
    /\ cpc = "copying" => queue # <<>>

(* The code stays loaded, but for an HSA executable that is destroyed.     *)
CodeInv == cpc # "code" => code >= 1 \/ (engine = "HSA" /\ "HSA" \in DeletesCode)

(* A run of the dispatch at hand leaves its output.                        *)
MemInv == d >= 1 /\ ran[d] >= 1 => mem = d

TypeInv == TypeOK /\ ClientInv /\ HsaInv /\ OclInv /\ code \in Int
(* The client has the result of every dispatch it is through with.         *)
HostInv == Idle => host = d
ResultInv == CodeInv /\ MemInv /\ HostInv
-----------------------------------------------------------------------------
LEMMA Slots == \A i \in Int : Slot(i) \in 0 .. QueueSize - 1
  BY StreamAssumption DEF StreamAssumption, Slot

LEMMA Facts ==
  ASSUME TypeInv
  PROVE  /\ engine = "OCL" \/ engine = "HSA"
         /\ d \in Nat /\ d <= MaxDispatches /\ (d >= 1 => d \in Dispatches)
         /\ iter = <<iter[1], iter[2]>> /\ iter[1] \in Nat /\ iter[2] \in Nat /\ iter[1] <= iter[2]
         /\ asked \in [Dispatches -> Nat] /\ ran \in [Dispatches -> Nat]
         /\ signal \in [Dispatches -> 0 .. 1]
         /\ MaxDispatches \in Nat /\ 0 \in 0 .. MaxDispatches
  BY StreamAssumption DEF StreamAssumption, TypeInv, TypeOK, ClientInv, Dispatches

LEMMA OneMore ==
  ASSUME NEW a \in Nat, NEW b \in Nat, NEW l \in Nat, NEW i \in Nat, a + b + l = i
  PROVE  a + b + (l + 1) = i + 1
  OBVIOUS

LEMMA InitHolds == Init => TypeInv /\ ResultInv
<1> SUFFICES ASSUME Init PROVE TypeInv /\ ResultInv
  OBVIOUS
<1>1. TypeOK
  <2>1. /\ ring \in [0 .. QueueSize - 1 -> [body : 0 .. MaxDispatches, valid : BOOLEAN]]
        /\ signal \in [Dispatches -> 0 .. 1]
    BY StreamAssumption DEF StreamAssumption, Init
  <2>2. iter[1] \in Nat /\ iter[1] <= iter[2] /\ queue \in Seq(0 .. MaxDispatches)
    BY DEF Init
  <2>3. /\ engine \in Engines /\ cpc = "code" /\ code = 0 /\ d = 0
        /\ writeIndex = 0 /\ doorbell = -1 /\ readIndex = 0 /\ running = 0 /\ mem = 0 /\ host = 0
    BY DEF Init
  <2>4. 0 \in 0 .. MaxDispatches /\ 0 \in Nat /\ 0 \in 0 .. 2 /\ -1 < 0 /\ 0 <= 0
    BY StreamAssumption DEF StreamAssumption
  <2>5. doorbell < writeIndex /\ readIndex <= writeIndex
    BY <2>3
  <2> QED
    BY <2>1, <2>2, <2>3, <2>4, <2>5, Zenon DEF TypeOK
<1>2. ClientInv
  BY DEF Init, ClientInv
<1>3. HsaInv
  BY StreamAssumption DEF StreamAssumption, Init, HsaInv, Dispatches
<1>4. OclInv
  BY StreamAssumption DEF StreamAssumption, Init, OclInv, Idle, Dispatches
<1> QED
  BY <1>1, <1>2, <1>3, <1>4 DEF Init, TypeInv, ResultInv, CodeInv, MemInv, HostInv

LEMMA CreateKernelStep ==
  ASSUME TypeInv, CreateKernel
  PROVE  TypeInv'
<1> USE DEF CreateKernel, client, hsa, device
<1>1. code' \in 0 .. 2
  BY Facts
<1>2. TypeOK' /\ code' \in Int
  BY <1>1 DEF TypeInv, TypeOK
<1>3. ClientInv'
  BY DEF TypeInv, ClientInv
<1>4. d = 0
  BY DEF TypeInv, ClientInv
<1>5. HsaInv'
  BY <1>4 DEF TypeInv, HsaInv
<1>6. OclInv'
  BY <1>4 DEF TypeInv, OclInv, Idle, Reading, Busy
<1> QED
  BY <1>2, <1>3, <1>5, <1>6 DEF TypeInv

LEMMA SetupDispatchStep ==
  ASSUME TypeInv, SetupDispatch
  PROVE  TypeInv'
<1>1. /\ cpc = "setup" /\ cpc' = "launch" /\ d < MaxDispatches /\ d' = d + 1
      /\ UNCHANGED <<engine, code, queue, doorbell, readIndex, running, ran, mem, host>>
  BY DEF SetupDispatch, device
<1>2. PICK n \in Iters : iter' = <<0, n>> /\ asked' = [asked EXCEPT ![d + 1] = n]
  BY DEF SetupDispatch
<1>3. n \in Nat /\ n >= 1 /\ d + 1 \in Dispatches /\ d \in Nat
  BY <1>1, Facts, StreamAssumption DEF StreamAssumption, Dispatches
<1>4. /\ iter'[1] = 0 /\ iter'[2] = n /\ iter' \in Nat \X Nat
      /\ asked' \in [Dispatches -> Nat] /\ asked'[d + 1] = n
      /\ \A k \in Dispatches : k # d + 1 => asked'[k] = asked[k]
  BY <1>2, <1>3, Facts
<1>5. ClientInv'
  BY <1>1, <1>3, <1>4 DEF TypeInv, ClientInv
<1>6. CASE engine = "HSA"
  <2>1. /\ signal' = [signal EXCEPT ![d + 1] = 1]
        /\ ring' = [ring EXCEPT ![Slot(writeIndex)].body = d + 1]
        /\ writeIndex' = writeIndex + 1
    BY <1>6 DEF SetupDispatch
  <2>2. writeIndex = d /\ running \in {0, d} /\ queue = <<>>
    BY <1>6 DEF TypeInv, HsaInv
  <2>3. Slot(d) \in 0 .. QueueSize - 1
    BY <1>3, Slots
  <2>4. /\ signal' \in [Dispatches -> 0 .. 1] /\ signal'[d + 1] = 1
        /\ \A k \in Dispatches : k # d + 1 => signal'[k] = signal[k]
    BY <1>3, <2>1, Facts
  <2>5. /\ ring' \in [0 .. QueueSize - 1 -> [body : 0 .. MaxDispatches, valid : BOOLEAN]]
        /\ ring'[Slot(d)].body = d + 1
    <3>1. d + 1 \in 0 .. MaxDispatches
      BY <1>1, <1>3, Facts
    <3>2. ring \in [0 .. QueueSize - 1 -> [body : 0 .. MaxDispatches, valid : BOOLEAN]]
      BY DEF TypeInv, TypeOK
    <3> QED
      BY <2>1, <2>2, <2>3, <3>1, <3>2
  <2>6. readIndex = d /\ doorbell = d - 1 /\ running = 0
    BY <1>1, <1>3, <1>6 DEF TypeInv, HsaInv, Rung, HasRun
  <2>7. TypeOK'
    BY <1>1, <1>3, <1>4, <2>1, <2>2, <2>4, <2>5, <2>6, Facts DEF TypeInv, TypeOK
  <2>8. \A k \in Dispatches : k <= d => ran[k] = 1 /\ signal[k] = 0
    BY <1>1, <1>3, <1>6 DEF TypeInv, HsaInv, HasRun, Dispatches
  <2>9. HsaInv'
    <3>1. \A k \in Dispatches : k > d => ran[k] = 0 /\ signal[k] = 0
      BY <1>6 DEF TypeInv, HsaInv
    <3>2. Lies' /\ doorbell' = d' - 2 /\ d' - 1 = d
      BY <1>1, <1>3, <2>4, <2>6, <3>1 DEF Lies
    <3>3. \A k \in Dispatches : k < d + 1 => k <= d /\ k # d + 1
      BY <1>3 DEF Dispatches
    <3>4. \A k \in Dispatches : k > d + 1 => k > d /\ k # d + 1
      BY <1>3 DEF Dispatches
    <3> QED
      BY <1>1, <1>3, <1>4, <2>1, <2>2, <2>4, <2>5, <2>6, <2>8, <3>1, <3>2, <3>3, <3>4 DEF HsaInv
  <2> QED
    BY <1>1, <1>5, <1>6, <2>7, <2>9 DEF TypeInv, OclInv
<1>7. CASE engine = "OCL"
  <2>1. UNCHANGED <<signal, ring, writeIndex>>
    BY <1>7 DEF SetupDispatch
  <2>2. queue = <<>> /\ running = 0
    BY <1>1, <1>7 DEF TypeInv, OclInv, Idle
  <2>3. TypeOK'
    BY <1>1, <1>3, <1>4, <2>1, Facts DEF TypeInv, TypeOK
  <2>4. OclInv'
    <3>1. \A k \in Dispatches : k <= d => ran[k] = asked[k]
      BY <1>1, <1>3, <1>7, <2>2, Facts DEF TypeInv, OclInv, ClientInv, Busy, Reading, Dispatches
    <3>2. \A k \in Dispatches : (k < d + 1 => k <= d /\ k # d + 1) /\ (k > d + 1 => k > d)
      BY <1>3 DEF Dispatches
    <3>3. ran[d + 1] = 0 /\ Len(queue) = 0
      BY <1>3, <1>7, <2>2 DEF TypeInv, OclInv
    <3> QED
      BY <1>1, <1>3, <1>4, <1>7, <2>1, <2>2, <3>1, <3>2, <3>3 DEF TypeInv, OclInv, Idle, Busy, Reading
  <2> QED
    BY <1>1, <1>5, <1>7, <2>3, <2>4 DEF TypeInv, HsaInv
<1> QED
  BY <1>6, <1>7, Facts

LEMMA EnqueueKernelStep ==
  ASSUME TypeInv, EnqueueKernel
  PROVE  TypeInv'
<1>1. /\ engine = "OCL" /\ cpc = "launch" /\ iter[1] < iter[2] /\ queue' = Append(queue, d)
      /\ iter' = <<iter[1] + 1, iter[2]>>
      /\ UNCHANGED <<engine, cpc, d, asked, code, ring, writeIndex, doorbell, readIndex, signal,
                     running, ran, mem, host>>
  BY Facts DEF EnqueueKernel, Looping, hsa, device
<1>2. iter'[1] = iter[1] + 1 /\ iter'[2] = iter[2] /\ iter' \in Nat \X Nat /\ iter'[1] <= iter'[2]
  BY <1>1, Facts
<1>3. queue \in Seq({0, d}) /\ d >= 1 /\ d \in Nat /\ d \in 0 .. MaxDispatches
  BY <1>1, Facts DEF TypeInv, OclInv, ClientInv
<1>4. /\ queue' \in Seq({0, d}) /\ Len(queue') = Len(queue) + 1 /\ Len(queue) \in Nat
      /\ \A i \in 1 .. Len(queue') : queue'[i] = IF i = Len(queue') THEN d ELSE queue[i]
  BY <1>1, <1>3
<1>5. TypeOK'
  <2>1. queue' \in Seq(0 .. MaxDispatches)
    BY <1>1, <1>3 DEF TypeInv, TypeOK
  <2> QED
    BY <1>1, <1>2, <2>1 DEF TypeInv, TypeOK
<1>6. ClientInv'
  BY <1>1, <1>2 DEF TypeInv, ClientInv
<1>7. OclInv'
  <2>1. \A i \in 1 .. Len(queue') : queue'[i] # 0
    BY <1>1, <1>3, <1>4 DEF TypeInv, OclInv
  <2>2. ran[d] + Busy + Len(queue') = iter'[1] + Reading
    <3>1. ran[d] \in Nat /\ Busy \in Nat /\ iter[1] \in Nat
      BY <1>3, Facts DEF Busy
    <3>2. ran[d] + Busy + Len(queue) = iter[1] + Reading
      BY <1>1, <1>3 DEF TypeInv, OclInv
    <3>3. Reading = 0
      BY <1>1 DEF Reading
    <3>4. ran[d] + Busy + Len(queue) = iter[1]
      BY <3>1, <3>2, <3>3
    <3>5. Len(queue') = Len(queue) + 1 /\ Len(queue) \in Nat
      BY <1>4
    <3>6. ran[d] + Busy + (Len(queue) + 1) = iter[1] + 1
      BY <3>1, <3>4, <3>5, OneMore
    <3>7. iter'[1] + Reading = iter[1] + 1
      BY <1>2, <3>1, <3>3
    <3> QED
      BY <3>5, <3>6, <3>7
  <2>3. Busy' = Busy /\ Reading' = Reading
    BY <1>1 DEF Busy, Reading
  <2> QED
    BY <1>1, <1>3, <1>4, <2>1, <2>2, <2>3 DEF TypeInv, OclInv, Idle
<1> QED
  BY <1>1, <1>5, <1>6, <1>7 DEF TypeInv, HsaInv

LEMMA StoreHeaderStep ==
  ASSUME TypeInv, StoreHeader
  PROVE  TypeInv'
<1>1. /\ engine = "HSA" /\ cpc = "launch" /\ iter[1] < iter[2] /\ cpc' = "doorbell"
      /\ ring' = [ring EXCEPT ![Slot(writeIndex - 1)].valid = TRUE]
      /\ UNCHANGED <<engine, d, iter, asked, code, queue, writeIndex, doorbell, readIndex,
                     signal, running, ran, mem, host>>
  BY DEF StoreHeader, Looping, PacketIndex, device
<1>2. writeIndex = d /\ d \in Nat /\ d >= 1
  BY <1>1, Facts DEF TypeInv, HsaInv, ClientInv
<1>3. Slot(d - 1) \in 0 .. QueueSize - 1
  BY <1>2, Slots
<1>4. /\ ring' \in [0 .. QueueSize - 1 -> [body : 0 .. MaxDispatches, valid : BOOLEAN]]
      /\ ring'[Slot(d - 1)].body = ring[Slot(d - 1)].body
  <2>1. ring \in [0 .. QueueSize - 1 -> [body : 0 .. MaxDispatches, valid : BOOLEAN]]
    BY DEF TypeInv, TypeOK
  <2> QED
    BY <1>1, <1>2, <1>3, <2>1
<1>5. TypeOK'
  BY <1>1, <1>4 DEF TypeInv, TypeOK
<1>6. ClientInv'
  BY <1>1, Facts DEF TypeInv, ClientInv
<1>7. HsaInv'
  BY <1>1, <1>2, <1>4 DEF TypeInv, HsaInv, Lies, Runs, HasRun, Rung
<1> QED
  BY <1>1, <1>5, <1>6, <1>7 DEF TypeInv, OclInv

LEMMA RingDoorbellStep ==
  ASSUME TypeInv, RingDoorbell
  PROVE  TypeInv'
<1>1. /\ engine = "HSA" /\ cpc = "doorbell" /\ cpc' = "launch"
      /\ doorbell' = writeIndex - 1 /\ iter' = <<iter[1] + 1, iter[2]>>
      /\ UNCHANGED <<engine, d, asked, code, queue, ring, writeIndex, readIndex,
                     signal, running, ran, mem, host>>
  BY DEF RingDoorbell, RingWith, PacketIndex, device
<1>2. writeIndex = d /\ d \in Nat /\ d >= 1 /\ iter[1] < iter[2]
  BY <1>1, Facts DEF TypeInv, HsaInv, ClientInv
<1>3. /\ iter'[1] = iter[1] + 1 /\ iter'[2] = iter[2] /\ iter' \in Nat \X Nat
      /\ iter'[1] <= iter'[2] /\ iter'[1] >= 1 /\ iter'[1] \in Nat
  BY <1>1, <1>2, Facts
<1>4. TypeOK'
  BY <1>1, <1>2, <1>3 DEF TypeInv, TypeOK
<1>5. ClientInv'
  BY <1>1, <1>3 DEF TypeInv, ClientInv
<1>6. HsaInv'
  BY <1>1, <1>2, <1>3 DEF TypeInv, HsaInv, Lies, Runs, HasRun, Rung
<1> QED
  BY <1>1, <1>4, <1>5, <1>6 DEF TypeInv, OclInv

LEMMA LaunchReturnsStep ==
  ASSUME TypeInv, LaunchReturns
  PROVE  TypeInv'
<1>1. /\ cpc = "launch" /\ cpc' = "wait" /\ iter[1] = iter[2]
      /\ UNCHANGED <<engine, d, iter, asked, code, queue, ring, writeIndex, doorbell, readIndex,
                     signal, running, ran, mem, host>>
  BY DEF LaunchReturns, Launched, hsa, device
<1>2. d >= 1 /\ d \in Nat /\ iter[1] \in Nat /\ iter[2] >= 1 /\ iter[1] # 0
  BY <1>1, Facts DEF TypeInv, ClientInv
<1>3. TypeOK'
  BY <1>1 DEF TypeInv, TypeOK
<1>4. ClientInv'
  BY <1>1, <1>2 DEF TypeInv, ClientInv
<1>5. HsaInv'
  BY <1>1, <1>2 DEF TypeInv, HsaInv, Lies, Runs, HasRun, Rung
<1>6. OclInv'
  BY <1>1, <1>2 DEF TypeInv, OclInv, Idle, Busy, Reading
<1> QED
  BY <1>1, <1>3, <1>4, <1>5, <1>6 DEF TypeInv

LEMMA WaitStep ==
  ASSUME TypeInv, Wait
  PROVE  TypeInv'
<1>1. /\ cpc = "wait" /\ cpc' = "copy" /\ (engine = "HSA" => signal[d] = 0)
      /\ UNCHANGED <<engine, d, iter, asked, code, queue, ring, writeIndex, doorbell, readIndex,
                     signal, running, ran, mem, host>>
  BY DEF Wait, SignalIsZero, hsa, device
<1>2. d >= 1 /\ d \in Nat
  BY <1>1, Facts DEF TypeInv, ClientInv
<1>3. TypeOK'
  BY <1>1 DEF TypeInv, TypeOK
<1>4. ClientInv'
  BY <1>1, <1>2 DEF TypeInv, ClientInv
<1>5. HsaInv'
  <2>1. engine = "HSA" => Rung /\ HasRun
    BY <1>1, <1>2 DEF TypeInv, HsaInv, Lies, Runs, HasRun
  <2> QED
    BY <1>1, <1>2, <2>1 DEF TypeInv, HsaInv, HasRun, Rung
<1>6. OclInv'
  BY <1>1, <1>2 DEF TypeInv, OclInv, Idle, Busy, Reading
<1> QED
  BY <1>1, <1>3, <1>4, <1>5, <1>6 DEF TypeInv

LEMMA MemcpyStep ==
  ASSUME TypeInv, Memcpy
  PROVE  TypeInv'
<1>1. /\ cpc = "copy"
      /\ UNCHANGED <<engine, d, iter, asked, code, ring, writeIndex, doorbell, readIndex,
                     signal, running, ran, mem>>
  BY DEF Memcpy, hsa, device
<1>2. d >= 1 /\ d \in Nat /\ d \in 0 .. MaxDispatches /\ iter[1] = iter[2]
  BY <1>1, Facts DEF TypeInv, ClientInv
<1>3. CASE engine = "HSA"
  <2>1. cpc' = "setup" /\ host' = mem /\ queue' = queue
    BY <1>3 DEF Memcpy, CopiesAtOnce
  <2>2. TypeOK'
    BY <1>1, <2>1 DEF TypeInv, TypeOK
  <2>3. ClientInv'
    BY <1>1, <1>2, <2>1 DEF TypeInv, ClientInv
  <2>4. HsaInv'
    BY <1>1, <1>2, <2>1 DEF TypeInv, HsaInv, HasRun, Rung
  <2> QED
    BY <1>1, <1>3, <2>2, <2>3, <2>4 DEF TypeInv, OclInv
<1>4. CASE engine = "OCL"
  <2>1. cpc' = "copying" /\ queue' = Append(queue, 0) /\ host' = host
    BY <1>4 DEF Memcpy, CopiesAtOnce
  <2>2. queue \in Seq({0, d})
    BY <1>4 DEF TypeInv, OclInv
  <2>3. /\ queue' \in Seq({0, d}) /\ Len(queue') = Len(queue) + 1 /\ Len(queue) \in Nat
        /\ \A i \in 1 .. Len(queue') : queue'[i] = IF i = Len(queue') THEN 0 ELSE queue[i]
        /\ queue' # <<>>
    BY <2>1, <2>2
  <2>4. TypeOK'
    <3>1. queue' \in Seq(0 .. MaxDispatches)
      BY <1>2, <2>1, Facts DEF TypeInv, TypeOK
    <3> QED
      BY <1>1, <2>1, <3>1 DEF TypeInv, TypeOK
  <2>5. ClientInv'
    BY <1>1, <1>2, <1>4, <2>1 DEF TypeInv, ClientInv
  <2>6. OclInv'
    <3>1. \A i \in 1 .. Len(queue) : queue[i] # 0
      BY <1>1, <1>4 DEF TypeInv, OclInv
    <3>2. \A i \in 1 .. Len(queue') : queue'[i] = 0 <=> i = Len(queue')
      BY <2>3, <3>1
    <3>3. Busy' = Busy /\ Reading = 0 /\ Reading' = 1
      BY <1>1, <2>1 DEF Busy, Reading
    <3>4. ran[d] \in Nat /\ Busy \in Nat /\ iter[1] \in Nat
      BY <1>2, Facts DEF Busy
    <3>5. ran[d] + Busy + Len(queue) = iter[1] + Reading
      BY <1>2, <1>4 DEF TypeInv, OclInv
    <3>6. ran[d] + Busy + Len(queue') = iter[1] + 1
      <4>1. Len(queue') = Len(queue) + 1 /\ Len(queue) \in Nat
        BY <2>3
      <4>2. Reading = 0
        BY <3>3
      <4>3. ran[d] + Busy + Len(queue) = iter[1]
        BY <3>4, <3>5, <4>2
      <4>4. ran[d] + Busy + (Len(queue) + 1) = iter[1] + 1
        BY <3>4, <4>1, <4>3, OneMore
      <4> QED
        BY <4>1, <4>4
    <3>7. ~Idle'
      BY <2>1 DEF Idle
    <3> QED
      BY <1>1, <1>2, <1>4, <2>1, <2>3, <3>2, <3>3, <3>6, <3>7 DEF TypeInv, OclInv
  <2> QED
    BY <1>1, <1>4, <2>4, <2>5, <2>6 DEF TypeInv, HsaInv
<1> QED
  BY <1>3, <1>4, Facts

LEMMA FinishStep ==
  ASSUME TypeInv, Finish
  PROVE  TypeInv'
<1>1. /\ cpc = "setup" /\ cpc' = "end"
      /\ UNCHANGED <<engine, d, iter, asked, code, queue, ring, writeIndex, doorbell, readIndex,
                     signal, running, ran, mem, host>>
  BY DEF Finish, hsa, device
<1>2. TypeOK'
  BY <1>1 DEF TypeInv, TypeOK
<1>3. ClientInv'
  BY <1>1 DEF TypeInv, ClientInv
<1>4. HsaInv'
  BY <1>1 DEF TypeInv, HsaInv, Lies, Runs, HasRun, Rung
<1>5. OclInv'
  BY <1>1 DEF TypeInv, OclInv, Idle, Busy, Reading
<1> QED
  BY <1>1, <1>2, <1>3, <1>4, <1>5 DEF TypeInv

LEMMA TakePacketStep ==
  ASSUME TypeInv, TakePacket
  PROVE  TypeInv'
<1>1. /\ running = 0 /\ readIndex <= doorbell
      /\ running' = ring[Slot(readIndex)].body
      /\ ring' = [ring EXCEPT ![Slot(readIndex)].valid = FALSE]
      /\ readIndex' = readIndex + 1
      /\ UNCHANGED <<engine, cpc, d, iter, asked, code, queue, writeIndex, doorbell, signal,
                     ran, mem, host>>
  BY DEF TakePacket, client
<1>2. engine = "HSA" /\ d \in Nat
  BY <1>1, Facts DEF TypeInv, OclInv
<1>3. d >= 1 /\ Rung /\ Lies /\ cpc \in {"launch", "doorbell", "wait"}
      /\ (cpc = "launch" => iter[1] >= 1) /\ ring[Slot(d - 1)].body = d
  BY <1>1, <1>2 DEF TypeInv, HsaInv, HasRun, Lies, Runs, Rung
<1>4. Slot(d - 1) \in 0 .. QueueSize - 1 /\ readIndex = d - 1
  BY <1>2, <1>3, Slots DEF Lies
<1>5. /\ ring' \in [0 .. QueueSize - 1 -> [body : 0 .. MaxDispatches, valid : BOOLEAN]]
      /\ ring'[Slot(d - 1)].body = d
  <2>1. ring \in [0 .. QueueSize - 1 -> [body : 0 .. MaxDispatches, valid : BOOLEAN]]
    BY DEF TypeInv, TypeOK
  <2> QED
    BY <1>1, <1>3, <1>4, <2>1
<1>6. Runs' /\ running' = d /\ readIndex' = d /\ d \in 0 .. MaxDispatches
  BY <1>1, <1>2, <1>3, <1>4, Facts DEF Lies, Runs
<1>7. writeIndex = d
  BY <1>2 DEF TypeInv, HsaInv
<1>8. TypeOK'
  BY <1>1, <1>2, <1>5, <1>6, <1>7 DEF TypeInv, TypeOK
<1>9. ClientInv'
  BY <1>1 DEF TypeInv, ClientInv
<1>10. HsaInv'
  BY <1>1, <1>2, <1>3, <1>5, <1>6, <1>7 DEF TypeInv, HsaInv, Rung
<1> QED
  BY <1>1, <1>2, <1>8, <1>9, <1>10 DEF TypeInv, OclInv

LEMMA TakeCommandStep ==
  ASSUME TypeInv, TakeCommand
  PROVE  TypeInv'
<1>1. /\ running = 0 /\ queue # <<>> /\ Head(queue) # 0 /\ running' = Head(queue)
      /\ queue' = Tail(queue)
      /\ UNCHANGED <<engine, cpc, d, iter, asked, code, ring, writeIndex, doorbell, readIndex,
                     signal, ran, mem, host>>
  BY DEF TakeCommand, client, hsa
<1>2. engine = "OCL" /\ d \in Nat
  BY <1>1, Facts DEF TypeInv, HsaInv
<1>3. queue \in Seq({0, d}) /\ Head(queue) = queue[1] /\ Len(queue) \in Nat /\ Len(queue) >= 1
  BY <1>1, <1>2 DEF TypeInv, OclInv
<1>4. /\ running' = d /\ d # 0 /\ d >= 1 /\ d \in 0 .. MaxDispatches
      /\ queue' \in Seq({0, d}) /\ Len(queue') = Len(queue) - 1
      /\ \A i \in 1 .. Len(queue') : queue'[i] = queue[i + 1] /\ i + 1 \in 1 .. Len(queue)
  <2>1. queue[1] \in {0, d}
    BY <1>3
  <2> QED
    BY <1>1, <1>2, <1>3, <2>1, Facts
<1>5. TypeOK'
  <2>1. queue' \in Seq(0 .. MaxDispatches)
    BY <1>1 DEF TypeInv, TypeOK
  <2> QED
    BY <1>1, <1>4, <2>1 DEF TypeInv, TypeOK
<1>6. ClientInv'
  BY <1>1 DEF TypeInv, ClientInv
<1>7. OclInv'
  <2>1. ~Idle /\ ~Idle'
    BY <1>1, <1>2 DEF TypeInv, OclInv, Idle
  <2>2. cpc = "copying" => queue' # <<>>
    <3>1. cpc = "copying" => Len(queue) # 1
      BY <1>1, <1>2, <1>3 DEF TypeInv, OclInv
    <3> QED
      BY <1>3, <1>4, <3>1
  <2>3. \A i \in 1 .. Len(queue') : queue'[i] = 0 <=> cpc = "copying" /\ i = Len(queue')
    <3>1. \A i \in 1 .. Len(queue) : queue[i] = 0 <=> cpc = "copying" /\ i = Len(queue)
      BY <1>2 DEF TypeInv, OclInv
    <3> QED
      BY <1>3, <1>4, <3>1
  <2>4. ran[d] + Busy' + Len(queue') = iter[1] + Reading
    <3>1. Busy = 0 /\ Busy' = 1
      BY <1>1, <1>4 DEF Busy
    <3>2. ran[d] \in Nat /\ Reading \in Nat /\ iter[1] \in Nat
      BY <1>4, Facts DEF Reading
    <3>3. ran[d] + Busy + Len(queue) = iter[1] + Reading
      BY <1>2, <1>4 DEF TypeInv, OclInv
    <3> QED
      BY <1>3, <1>4, <3>1, <3>2, <3>3
  <2>5. Reading' = Reading
    BY <1>1 DEF Reading
  <2> QED
    BY <1>1, <1>2, <1>4, <2>1, <2>2, <2>3, <2>4, <2>5 DEF TypeInv, OclInv
<1> QED
  BY <1>1, <1>2, <1>5, <1>6, <1>7 DEF TypeInv, HsaInv

LEMMA KernelEndsStep ==
  ASSUME TypeInv, KernelEnds
  PROVE  TypeInv'
<1>1. /\ running # 0 /\ running' = 0
      /\ mem' \in {running} \cup (IF code = 0 THEN {Garbage} ELSE {})
      /\ ran' = [ran EXCEPT ![running] = @ + 1]
      /\ signal' = IF engine = "HSA" THEN [signal EXCEPT ![running] = @ - 1] ELSE signal
      /\ UNCHANGED <<engine, cpc, d, iter, asked, code, queue, ring, writeIndex, doorbell,
                     readIndex, host>>
  BY DEF KernelEnds, client
<1>2. running = d /\ d >= 1 /\ d \in Nat /\ d \in Dispatches /\ d \in 0 .. MaxDispatches
  BY <1>1, Facts DEF TypeInv, HsaInv, OclInv
<1>3. /\ ran' \in [Dispatches -> Nat] /\ ran'[d] = ran[d] + 1 /\ ran[d] \in Nat
      /\ \A k \in Dispatches : k # d => ran'[k] = ran[k]
  BY <1>1, <1>2, Facts
<1>4. ClientInv'
  BY <1>1, <1>3 DEF TypeInv, ClientInv
<1>5. mem' \in {Garbage} \cup 0 .. MaxDispatches
  BY <1>1, <1>2
<1>6. CASE engine = "HSA"
  <2>1. Rung /\ Runs /\ cpc \in {"launch", "doorbell", "wait"} /\ (cpc = "launch" => iter[1] >= 1)
    BY <1>1, <1>2, <1>6 DEF TypeInv, HsaInv, Lies, HasRun
  <2>2. /\ signal' \in [Dispatches -> 0 .. 1] /\ signal'[d] = 0
        /\ \A k \in Dispatches : k # d => signal'[k] = signal[k]
    <3>1. signal[d] = 1
      BY <2>1 DEF Runs
    <3> QED
      BY <1>1, <1>2, <1>6, <3>1, Facts
  <2>3. TypeOK'
    BY <1>1, <1>2, <1>5, <2>2, Facts DEF TypeInv, TypeOK
  <2>4. Rung' /\ HasRun'
    BY <1>1, <1>3, <2>1, <2>2 DEF Rung, Runs, HasRun
  <2>5. HsaInv'
    BY <1>1, <1>2, <1>3, <1>6, <2>1, <2>2, <2>4 DEF TypeInv, HsaInv
  <2> QED
    BY <1>1, <1>4, <1>6, <2>3, <2>5 DEF TypeInv, OclInv
<1>7. CASE engine = "OCL"
  <2>1. signal' = signal
    BY <1>1, <1>7
  <2>2. TypeOK'
    BY <1>1, <1>2, <1>5, <2>1, Facts DEF TypeInv, TypeOK
  <2>3. OclInv'
    <3>1. ~Idle /\ ~Idle'
      BY <1>1, <1>7 DEF TypeInv, OclInv, Idle
    <3>2. Busy = 1 /\ Busy' = 0 /\ Reading' = Reading
      BY <1>1 DEF Busy, Reading
    <3>3. ran[d] + Busy + Len(queue) = iter[1] + Reading
      BY <1>2, <1>7 DEF TypeInv, OclInv
    <3>4. ran'[d] + Busy' + Len(queue) = iter[1] + Reading
      <4>1. Len(queue) \in Nat
        BY DEF TypeInv, TypeOK
      <4> QED
        BY <1>3, <3>2, <3>3, <4>1
    <3> QED
      BY <1>1, <1>2, <1>3, <1>7, <2>1, <3>1, <3>2, <3>4 DEF TypeInv, OclInv
  <2> QED
    BY <1>1, <1>4, <1>7, <2>2, <2>3 DEF TypeInv, HsaInv
<1> QED
  BY <1>6, <1>7, Facts

LEMMA ReadBufferStep ==
  ASSUME TypeInv, ReadBuffer
  PROVE  /\ TypeInv'
         /\ ran[d] = asked[d] /\ d >= 1
<1>1. /\ queue # <<>> /\ Head(queue) = 0 /\ running = 0 /\ queue' = Tail(queue)
      /\ host' = mem /\ cpc' = "setup"
      /\ UNCHANGED <<engine, d, iter, asked, code, ring, writeIndex, doorbell, readIndex, signal,
                     running, ran, mem>>
  BY DEF ReadBuffer, hsa, device
<1>2. engine = "OCL" /\ d \in Nat
  BY <1>1, Facts DEF TypeInv, HsaInv
<1>3. queue \in Seq({0, d}) /\ Head(queue) = queue[1] /\ Len(queue) \in Nat /\ Len(queue) >= 1
  BY <1>1, <1>2 DEF TypeInv, OclInv
<1>4. cpc = "copying" /\ Len(queue) = 1
  <2>1. \A i \in 1 .. Len(queue) : queue[i] = 0 => cpc = "copying" /\ i = Len(queue)
    BY <1>2 DEF TypeInv, OclInv
  <2>2. 1 \in 1 .. Len(queue) /\ queue[1] = 0
    BY <1>1, <1>3
  <2> QED
    BY <2>1, <2>2
<1>5. queue' = <<>> /\ Len(queue') = 0 /\ queue' \in Seq({0, d})
  BY <1>1, <1>3, <1>4
<1>6. d >= 1 /\ iter[1] = iter[2] /\ asked[d] = iter[2] /\ iter[2] >= 1
  BY <1>4, Facts DEF TypeInv, ClientInv
<1>7. ran[d] = iter[1]
  <2>1. Busy = 0 /\ Reading = 1 /\ ran[d] \in Nat /\ iter[1] \in Nat
    BY <1>1, <1>4, <1>6, Facts DEF Busy, Reading
  <2>2. ran[d] + Busy + Len(queue) = iter[1] + Reading
    BY <1>2, <1>6 DEF TypeInv, OclInv
  <2> QED
    BY <1>4, <2>1, <2>2
<1>8. TypeOK'
  <2>1. queue' \in Seq(0 .. MaxDispatches)
    BY <1>5
  <2> QED
    BY <1>1, <2>1 DEF TypeInv, TypeOK
<1>9. ClientInv'
  BY <1>1, <1>6 DEF TypeInv, ClientInv
<1>10. OclInv'
  <2>1. Busy' = 0 /\ Reading' = 0 /\ ran[d] \in Nat
    BY <1>1, <1>6, Facts DEF Busy, Reading
  <2>2. ran[d] + Busy' + Len(queue') = iter[1] + Reading'
    BY <1>5, <1>7, <2>1
  <2> QED
    BY <1>1, <1>2, <1>5, <1>6, <2>2 DEF TypeInv, OclInv
<1> QED
  BY <1>1, <1>2, <1>6, <1>7, <1>8, <1>9, <1>10 DEF TypeInv, HsaInv

LEMMA TypeStep == TypeInv /\ [Next]_bsVars => TypeInv'
<1> SUFFICES ASSUME TypeInv, [Next]_bsVars PROVE TypeInv'
  OBVIOUS
<1>1. CASE Client
  BY <1>1, CreateKernelStep, SetupDispatchStep, EnqueueKernelStep, StoreHeaderStep,
     RingDoorbellStep, LaunchReturnsStep, WaitStep, MemcpyStep, FinishStep DEF Client
<1>2. CASE Device
  BY <1>2, TakePacketStep, TakeCommandStep, KernelEndsStep, ReadBufferStep DEF Device
<1>3. CASE UNCHANGED bsVars
  <2>1. UNCHANGED <<engine, cpc, d, iter, asked, code, queue, ring, writeIndex, doorbell,
                    readIndex, signal, running, ran, mem, host>>
    BY <1>3 DEF bsVars, client, hsa, device
  <2>2. TypeOK' /\ code' \in Int
    BY <2>1 DEF TypeInv, TypeOK
  <2>3. ClientInv'
    BY <2>1 DEF TypeInv, ClientInv
  <2>4. HsaInv'
    BY <2>1 DEF TypeInv, HsaInv, Lies, Runs, HasRun, Rung
  <2>5. OclInv'
    BY <2>1 DEF TypeInv, OclInv, Idle, Busy, Reading
  <2> QED
    BY <2>2, <2>3, <2>4, <2>5 DEF TypeInv
<1> QED
  BY <1>1, <1>2, <1>3 DEF Next

LEMMA TypeInductive == Spec => []TypeInv
  BY InitHolds, TypeStep, PTL DEF Spec

(* Every variable of the client, the two runtimes and the device keeps its *)
(* type: no packet index or signal ever leaves its range, however often    *)
(* HSAStream::Launch rings the doorbell.                                   *)
THEOREM TypeCorrect == Spec => []TypeOK
<1>1. TypeInv => TypeOK
  BY DEF TypeInv
<1> QED
  BY <1>1, TypeInductive, PTL

(* When the client is through with a dispatch, an OpenCL dispatch has run  *)
(* as often as Launch was told and an HSA dispatch once, whatever becomes  *)
(* of the code object.                                                     *)
THEOREM RunsCorrect == Spec => []RunsAccounted
<1>1. TypeInv => RunsAccounted
  <2> SUFFICES ASSUME TypeInv, cpc \in {"setup", "end"}
               PROVE  /\ running = 0 /\ queue = <<>>
                      /\ \A k \in 1 .. d : ran[k] = IF engine = "HSA" THEN 1 ELSE asked[k]
    BY DEF RunsAccounted
  <2>1. \A k \in 1 .. d : k \in Dispatches /\ (k < d \/ k = d)
    BY Facts DEF Dispatches
  <2>2. CASE engine = "HSA"
    <3>1. d >= 1 => HasRun
      BY <2>2 DEF TypeInv, HsaInv
    <3>2. running = 0 /\ queue = <<>>
      BY <2>2, <3>1, Facts DEF TypeInv, HsaInv, HasRun
    <3>3. ASSUME NEW k \in 1 .. d PROVE ran[k] = 1
      <4>1. d >= 1
        BY Facts
      <4> QED
        BY <2>1, <2>2, <3>1, <4>1 DEF TypeInv, HsaInv, HasRun
    <3> QED
      BY <2>2, <3>2, <3>3
  <2>3. CASE engine = "OCL"
    <3>1. running = 0 /\ queue = <<>>
      BY <2>3 DEF TypeInv, OclInv, Idle
    <3>2. ASSUME d >= 1 PROVE ran[d] = asked[d]
      <4>1. Busy = 0 /\ Reading = 0 /\ Len(queue) = 0
        BY <3>1 DEF Busy, Reading
      <4>2. ran[d] + Busy + Len(queue) = iter[1] + Reading
        BY <2>3, <3>2 DEF TypeInv, OclInv
      <4>3. asked[d] = iter[1] /\ ran[d] \in Nat /\ iter[1] \in Nat
        BY <3>2, Facts DEF TypeInv, ClientInv
      <4> QED
        BY <4>1, <4>2, <4>3
    <3>3. ASSUME NEW k \in 1 .. d PROVE ran[k] = asked[k]
      <4>1. d >= 1
        BY Facts
      <4> QED
        BY <2>1, <2>3, <3>2, <4>1 DEF TypeInv, OclInv
    <3> QED
      BY <2>3, <3>1, <3>3
  <2> QED
    BY <2>2, <2>3, Facts
<1> QED
  BY <1>1, TypeInductive, PTL
-----------------------------------------------------------------------------
(* Whether the code is still loaded.                                       *)
LEMMA CodeStep == TypeInv /\ CodeInv /\ [Next]_bsVars => CodeInv'
<1> SUFFICES ASSUME TypeInv, CodeInv, [Next]_bsVars PROVE CodeInv'
  OBVIOUS
<1>1. CASE CreateKernel
  <2>1. engine' = engine
    BY <1>1 DEF CreateKernel
  <2>2. code' = (IF engine = "OCL" THEN 2 ELSE 1) - (IF engine \in DeletesCode THEN 1 ELSE 0)
    BY <1>1 DEF CreateKernel
  <2> QED
    BY <2>1, <2>2, Facts DEF CodeInv
<1>2. ASSUME UNCHANGED <<engine, code>>, cpc # "code" PROVE CodeInv'
  BY <1>2 DEF CodeInv
<1>3. CASE SetupDispatch \/ EnqueueKernel \/ StoreHeader \/ RingDoorbell \/ LaunchReturns \/ Wait
           \/ Memcpy \/ Finish
  BY <1>2, <1>3 DEF SetupDispatch, EnqueueKernel, Looping, StoreHeader, RingDoorbell,
     LaunchReturns, Wait, Memcpy, Finish
<1>4. CASE TakePacket \/ TakeCommand \/ KernelEnds
  <2>1. UNCHANGED <<engine, code, cpc>>
    BY <1>4 DEF TakePacket, TakeCommand, KernelEnds, client
  <2> QED
    BY <2>1 DEF CodeInv
<1>5. CASE ReadBuffer
  <2>1. UNCHANGED <<engine, code>> /\ d >= 1
    BY <1>5, ReadBufferStep DEF ReadBuffer
  <2> QED
    BY <1>2, <2>1, Facts DEF TypeInv, ClientInv
<1>6. CASE UNCHANGED bsVars
  BY <1>6 DEF bsVars, client, CodeInv
<1> QED
  BY <1>1, <1>3, <1>4, <1>5, <1>6 DEF Next, Client, Device

(* A kernel whose code is loaded leaves its own output.                    *)
LEMMA MemStep ==
  ASSUME "HSA" \notin DeletesCode
  PROVE  TypeInv /\ CodeInv /\ MemInv /\ [Next]_bsVars => MemInv'
<1> SUFFICES ASSUME TypeInv, CodeInv, MemInv, [Next]_bsVars PROVE MemInv'
  OBVIOUS
<1>1. CASE SetupDispatch
  <2>1. d' = d + 1 /\ ran' = ran /\ d + 1 \in Dispatches /\ d \in Nat
    BY <1>1, Facts DEF SetupDispatch, device, Dispatches
  <2>2. ran[d + 1] = 0
    <3>1. d + 1 > d
      BY <2>1
    <3> QED
      BY <2>1, <3>1, Facts DEF TypeInv, HsaInv, OclInv
  <2> QED
    BY <2>1, <2>2 DEF MemInv
<1>2. ASSUME UNCHANGED <<d, ran, mem>> PROVE MemInv'
  BY <1>2 DEF MemInv
<1>3. CASE CreateKernel \/ EnqueueKernel \/ StoreHeader \/ RingDoorbell \/ LaunchReturns \/ Wait
           \/ Memcpy \/ Finish
  BY <1>2, <1>3 DEF CreateKernel, EnqueueKernel, StoreHeader, RingDoorbell,
     LaunchReturns, Wait, Memcpy, Finish, device
<1>4. CASE TakePacket \/ TakeCommand \/ ReadBuffer \/ UNCHANGED bsVars
  BY <1>2, <1>4 DEF TakePacket, TakeCommand, ReadBuffer, bsVars, client, device
<1>5. CASE KernelEnds
  <2>1. running = d /\ d >= 1
    BY <1>5, Facts DEF KernelEnds, TypeInv, HsaInv, OclInv
  <2>2. code # 0
    BY <2>1, Facts DEF CodeInv, TypeInv, ClientInv
  <2> QED
    BY <1>5, <2>1, <2>2 DEF KernelEnds, client, MemInv
<1> QED
  BY <1>1, <1>3, <1>4, <1>5 DEF Next, Client, Device

LEMMA CopyStep == TypeInv /\ MemInv /\ HostInv /\ [Next]_bsVars => HostInv'
<1> SUFFICES ASSUME TypeInv, MemInv, HostInv, [Next]_bsVars PROVE HostInv'
  OBVIOUS
<1>1. ASSUME UNCHANGED <<d, host>>, Idle' => Idle PROVE HostInv'
  BY <1>1 DEF HostInv
<1>2. CASE CreateKernel \/ Finish
  BY <1>1, <1>2 DEF CreateKernel, Finish, Idle
<1>3. CASE SetupDispatch \/ EnqueueKernel \/ StoreHeader \/ RingDoorbell \/ LaunchReturns \/ Wait
  BY <1>3 DEF SetupDispatch, EnqueueKernel, Looping, StoreHeader, RingDoorbell, LaunchReturns, Wait,
     HostInv, Idle
<1>4. CASE Memcpy
  <2>1. cpc = "copy" /\ d' = d
    BY <1>4 DEF Memcpy, CopiesAtOnce
  <2>2. CASE engine = "HSA"
    <3>1. d >= 1 /\ HasRun
      BY <2>1, <2>2 DEF TypeInv, ClientInv, HsaInv
    <3>2. mem = d
      BY <3>1 DEF HasRun, MemInv
    <3> QED
      BY <1>4, <2>1, <2>2, <3>2 DEF Memcpy, CopiesAtOnce, HostInv
  <2>3. CASE engine = "OCL"
    BY <1>4, <2>3 DEF Memcpy, CopiesAtOnce, HostInv, Idle
  <2> QED
    BY <2>2, <2>3, Facts
<1>5. CASE TakePacket \/ TakeCommand \/ KernelEnds \/ UNCHANGED bsVars
  <2>1. UNCHANGED <<cpc, d, host>>
    BY <1>5 DEF TakePacket, TakeCommand, KernelEnds, bsVars, client
  <2> QED
    BY <1>1, <2>1 DEF Idle
<1>6. CASE ReadBuffer
  <2>1. ran[d] = asked[d] /\ d >= 1 /\ asked[d] >= 1
    BY <1>6, ReadBufferStep DEF TypeInv, ClientInv
  <2>2. d' = d /\ host' = mem /\ mem = d
    BY <1>6, <2>1 DEF ReadBuffer, MemInv
  <2> QED
    BY <2>2 DEF HostInv
<1> QED
  BY <1>2, <1>3, <1>4, <1>5, <1>6 DEF Next, Client, Device

(* What is copied back after Wait is the output of the dispatch waited     *)
(* for, on either engine, as long as an HSA client keeps its code object:  *)
(* although OCLStream::Wait does not wait, and although HSAStream::Launch  *)
(* may leave a packet marked valid for the next dispatch to find.          *)
THEOREM ResultCorrect ==
  ASSUME "HSA" \notin DeletesCode
  PROVE  Spec => []CopiesResult
<1>1. Init => TypeInv /\ ResultInv
  BY InitHolds
<1>2. TypeInv /\ ResultInv /\ [Next]_bsVars => ResultInv'
  BY CodeStep, MemStep, CopyStep DEF ResultInv
<1>3. ResultInv => CopiesResult
  BY DEF ResultInv, HostInv, CopiesResult, Idle
<1> QED
  BY <1>1, <1>2, <1>3, TypeInductive, PTL DEF Spec
-----------------------------------------------------------------------------
(* Until its result is copied, the client has that of the dispatch before. *)
OpenInv == ~Idle => host = d - 1

LEMMA OpenStep == TypeInv /\ HostInv /\ OpenInv /\ [Next]_bsVars => OpenInv'
<1> SUFFICES ASSUME TypeInv, HostInv, OpenInv, [Next]_bsVars PROVE OpenInv'
  OBVIOUS
<1>1. ASSUME UNCHANGED <<d, host>>, Idle => Idle' PROVE OpenInv'
  BY <1>1 DEF OpenInv
<1>2. CASE SetupDispatch
  <2>1. d' = d + 1 /\ host' = host /\ host = d /\ d \in Nat
    BY <1>2, Facts DEF SetupDispatch, HostInv, Idle
  <2> QED
    BY <2>1 DEF OpenInv
<1>3. CASE CreateKernel \/ Finish \/ ReadBuffer
  BY <1>3 DEF CreateKernel, Finish, ReadBuffer, OpenInv, Idle
<1>4. CASE EnqueueKernel \/ StoreHeader \/ RingDoorbell \/ LaunchReturns \/ Wait
  BY <1>1, <1>4 DEF EnqueueKernel, Looping, StoreHeader, RingDoorbell, LaunchReturns, Wait, Idle
<1>5. CASE Memcpy
  BY <1>1, <1>5 DEF Memcpy, OpenInv, Idle
<1>6. CASE TakePacket \/ TakeCommand \/ KernelEnds \/ UNCHANGED bsVars
  <2>1. UNCHANGED <<cpc, d, host>>
    BY <1>6 DEF TakePacket, TakeCommand, KernelEnds, bsVars, client
  <2> QED
    BY <1>1, <2>1 DEF Idle
<1> QED
  BY <1>2, <1>3, <1>4, <1>5, <1>6 DEF Next, Client, Device

LEMMA StepIsCall ==
  ASSUME TypeInv, MemInv, HostInv, OpenInv, [Next]_bsVars
  PROVE  [Calls!Next]_(Calls!ocVars)
<1>1. CASE SetupDispatch
  <2>1. host = d /\ d < MaxDispatches /\ d' = d + 1 /\ UNCHANGED <<running, ran, host>>
    BY <1>1 DEF SetupDispatch, device, HostInv, Idle
  <2> QED
    BY <2>1 DEF Calls!Next, Calls!Call, Calls!Open
<1>2. ASSUME ~Idle, d \in Nat PROVE Calls!Open
  BY <1>2 DEF OpenInv, Calls!Open
<1>3. CASE TakePacket \/ TakeCommand
  <2>1. running = 0 /\ running' # 0 /\ UNCHANGED <<d, ran, host>> /\ running' \in {0, d} /\ ~Idle
    <3>1. CASE TakePacket
      <4>1. running = 0 /\ UNCHANGED <<engine, cpc, d, ran, host>> /\ readIndex <= doorbell
            /\ running' = ring[Slot(readIndex)].body /\ d \in Nat
        BY <3>1, Facts DEF TakePacket, client
      <4>2. engine = "HSA"
        BY <4>1, Facts DEF TypeInv, OclInv
      <4>3. readIndex = d - 1 /\ ring[Slot(d - 1)].body = d /\ d >= 1
            /\ cpc \in {"launch", "doorbell", "wait"}
        BY <4>1, <4>2 DEF TypeInv, HsaInv, HasRun, Lies, Runs, Rung
      <4> QED
        BY <4>1, <4>3 DEF Idle
    <3>2. CASE TakeCommand
      <4>1. running = 0 /\ UNCHANGED <<engine, cpc, d, ran, host>> /\ queue # <<>>
            /\ running' = Head(queue) /\ Head(queue) # 0
        BY <3>2 DEF TakeCommand, client
      <4>2. engine = "OCL"
        BY <4>1, Facts DEF TypeInv, HsaInv
      <4>3. queue \in Seq({0, d}) /\ ~Idle
        BY <4>1, <4>2 DEF TypeInv, OclInv
      <4> QED
        BY <4>1, <4>3
    <3> QED
      BY <1>3, <3>1, <3>2
  <2>2. Calls!Open
    BY <1>2, <2>1, Facts
  <2> QED
    BY <2>1, <2>2 DEF Calls!Next, Calls!Start
<1>4. CASE KernelEnds
  BY <1>4 DEF KernelEnds, client, Calls!Next, Calls!End
<1>5. CASE Memcpy /\ engine = "HSA"
  <2>1. cpc = "copy" /\ host' = mem /\ UNCHANGED <<d, running, ran>>
    BY <1>5 DEF Memcpy, CopiesAtOnce, device
  <2>2. d >= 1 /\ HasRun
    BY <1>5, <2>1 DEF TypeInv, ClientInv, HsaInv
  <2>3. running = 0 /\ ran[d] > 0 /\ mem = d
    BY <2>2 DEF HasRun, MemInv
  <2>4. Calls!Open
    BY <1>2, <2>1, Facts DEF Idle
  <2> QED
    BY <2>1, <2>3, <2>4 DEF Calls!Next, Calls!Return
<1>6. CASE ReadBuffer
  <2>1. ran[d] = asked[d] /\ d >= 1 /\ asked[d] >= 1
    BY <1>6, ReadBufferStep DEF TypeInv, ClientInv
  <2>2. running = 0 /\ host' = mem /\ mem = d /\ ran[d] > 0 /\ UNCHANGED <<d, running, ran>>
    BY <1>6, <2>1, Facts DEF ReadBuffer, device, MemInv
  <2>3. queue # <<>> /\ engine = "OCL"
    BY <1>6, Facts DEF ReadBuffer, TypeInv, HsaInv
  <2>4. Calls!Open
    BY <1>2, <2>3, Facts DEF TypeInv, OclInv
  <2> QED
    BY <2>2, <2>4 DEF Calls!Next, Calls!Return
<1>7. ASSUME UNCHANGED <<d, running, ran, host>> PROVE UNCHANGED Calls!ocVars
  BY <1>7 DEF Calls!ocVars
<1>8. CASE CreateKernel \/ EnqueueKernel \/ StoreHeader \/ RingDoorbell \/ LaunchReturns \/ Wait
           \/ Finish \/ UNCHANGED bsVars
  BY <1>7, <1>8 DEF CreateKernel, EnqueueKernel, StoreHeader, RingDoorbell, LaunchReturns, Wait,
     Finish, bsVars, client, device
<1>9. CASE Memcpy /\ engine = "OCL"
  BY <1>7, <1>9 DEF Memcpy, CopiesAtOnce, device
<1> QED
  BY <1>1, <1>3, <1>4, <1>5, <1>6, <1>8, <1>9, Facts DEF Next, Client, Device

(* Seen by its client, either engine implements blocking calls: a run of a *)
(* dispatch lies between its setup and its copy, one at least, and the     *)
(* copy returns its result.                                                *)
THEOREM ImplementsCalls ==
  ASSUME "HSA" \notin DeletesCode
  PROVE  Spec => DispatchIsCall
<1>1. Init => TypeInv /\ ResultInv /\ OpenInv /\ Calls!Init
  BY InitHolds DEF Init, OpenInv, Idle, Calls!Init, Dispatches
<1>2. TypeInv /\ ResultInv /\ OpenInv /\ [Next]_bsVars => ResultInv' /\ OpenInv'
  BY CodeStep, MemStep, CopyStep, OpenStep DEF ResultInv
<1>3. TypeInv /\ ResultInv /\ OpenInv /\ [Next]_bsVars => [Calls!Next]_(Calls!ocVars)
  BY StepIsCall DEF ResultInv
<1> QED
  BY <1>1, <1>2, <1>3, TypeInductive, PTL DEF Spec, DispatchIsCall, Calls!Spec
-----------------------------------------------------------------------------
(* A wait is never for nothing: while the signal HSAStream::Wait polls is  *)
(* not zero, the device runs a kernel or has a packet to take, and while   *)
(* the OpenCL client blocks in its read, a kernel runs or a command is in  *)
(* the queue.                                                              *)
WaitsForDevice ==
  /\ engine = "HSA" /\ cpc = "wait" /\ ~SignalIsZero =>
       running # 0 \/ (readIndex <= doorbell /\ ring[Slot(readIndex)].valid)
  /\ cpc = "copying" => running # 0 \/ queue # <<>>

(* The packet stays valid from the store of its header until it is taken.  *)
ValidInv ==
  engine = "HSA" /\ d >= 1 /\ Lies /\ (cpc = "doorbell" \/ iter[1] >= 1) =>
    ring[Slot(d - 1)].valid

LEMMA ValidStep == TypeInv /\ ValidInv /\ [Next]_bsVars => ValidInv'
<1> SUFFICES ASSUME TypeInv, ValidInv, [Next]_bsVars, engine = "HSA" PROVE ValidInv'
  <2>1. ASSUME [Next]_bsVars PROVE engine' = engine
    <3>1. CASE CreateKernel \/ SetupDispatch \/ EnqueueKernel \/ StoreHeader
      BY <3>1 DEF CreateKernel, SetupDispatch, EnqueueKernel, StoreHeader
    <3>2. CASE RingDoorbell \/ LaunchReturns \/ Wait \/ Memcpy \/ Finish
      BY <3>2 DEF RingDoorbell, LaunchReturns, Wait, Memcpy, Finish
    <3>3. CASE TakePacket \/ TakeCommand \/ KernelEnds \/ ReadBuffer \/ UNCHANGED bsVars
      BY <3>3 DEF TakePacket, TakeCommand, KernelEnds, ReadBuffer, bsVars
    <3> QED
      BY <2>1, <3>1, <3>2, <3>3 DEF Next, Client, Device
  <2> QED
    BY <2>1 DEF ValidInv
<1>1. ASSUME UNCHANGED <<engine, d, ring, readIndex, running, signal, ran>>,
             cpc' = "doorbell" => cpc = "doorbell",
             iter' = iter \/ (cpc = "doorbell" /\ Lies)
      PROVE  ValidInv'
  BY <1>1 DEF ValidInv, Lies
<1>2. CASE SetupDispatch
  <2>1. cpc' = "launch" /\ \E n \in Iters : iter' = <<0, n>>
    BY <1>2 DEF SetupDispatch
  <2>2. iter'[1] = 0
    BY <2>1
  <2> QED
    BY <2>1, <2>2 DEF ValidInv
<1>3. CASE StoreHeader
  <2>1. /\ ring' = [ring EXCEPT ![Slot(PacketIndex)].valid = TRUE] /\ d' = d
    BY <1>3 DEF StoreHeader
  <2>2. PacketIndex = d - 1 /\ d \in Nat
    BY Facts DEF PacketIndex, TypeInv, HsaInv
  <2>3. Slot(d - 1) \in 0 .. QueueSize - 1
    BY <2>2, Slots
  <2>4. ring \in [0 .. QueueSize - 1 -> [body : 0 .. MaxDispatches, valid : BOOLEAN]]
    BY DEF TypeInv, TypeOK
  <2>5. ring'[Slot(d - 1)].valid
    BY <2>1, <2>2, <2>3, <2>4
  <2> QED
    BY <2>1, <2>5 DEF ValidInv
<1>4. CASE RingDoorbell
  <2>1. /\ cpc = "doorbell" /\ cpc' = "launch"
        /\ UNCHANGED <<engine, d, ring, readIndex, running, signal, ran>>
    BY <1>4 DEF RingDoorbell, device
  <2> QED
    BY <2>1 DEF ValidInv, Lies
<1>5. CASE TakePacket
  <2>1. readIndex' = readIndex + 1 /\ d' = d /\ readIndex <= doorbell
    BY <1>5 DEF TakePacket, client
  <2>2. readIndex = d - 1 /\ d \in Nat
    <3>1. d >= 1
      BY <2>1, Facts DEF TypeInv, HsaInv
    <3> QED
      BY <2>1, <3>1, Facts DEF TypeInv, HsaInv, Lies, Runs, HasRun, Rung
  <2> QED
    BY <2>1, <2>2 DEF ValidInv, Lies
<1>6. CASE KernelEnds
  <2>1. running = d /\ d >= 1 /\ d \in Dispatches
    BY <1>6, Facts DEF KernelEnds, TypeInv, HsaInv
  <2>2. ran'[d] = ran[d] + 1 /\ ran[d] \in Nat /\ d' = d
    BY <1>6, <2>1, Facts DEF KernelEnds, client
  <2> QED
    BY <2>2 DEF ValidInv, Lies
<1>7. CASE CreateKernel \/ LaunchReturns \/ Wait \/ Memcpy \/ Finish
  BY <1>1, <1>7 DEF CreateKernel, LaunchReturns, Wait, Memcpy, Finish, hsa, device
<1>8. CASE UNCHANGED bsVars
  BY <1>1, <1>8 DEF bsVars, client, hsa, device
<1>9. ~EnqueueKernel /\ ~TakeCommand /\ ~ReadBuffer
  BY DEF EnqueueKernel, TakeCommand, ReadBuffer, TypeInv, HsaInv
<1> QED
  BY <1>2, <1>3, <1>4, <1>5, <1>6, <1>7, <1>8, <1>9 DEF Next, Client, Device

(* No doorbell is lost and no packet overwritten: the system cannot come   *)
(* to a point where the client waits and the device has nothing to do.     *)
THEOREM NoWaitInVain == Spec => []WaitsForDevice
<1>1. Init => ValidInv
  BY DEF Init, ValidInv
<1>2. TypeInv /\ ValidInv => WaitsForDevice
  <2> SUFFICES ASSUME TypeInv, ValidInv PROVE WaitsForDevice
    OBVIOUS
  <2>1. ASSUME engine = "HSA", cpc = "wait", ~SignalIsZero, running = 0
        PROVE  readIndex <= doorbell /\ ring[Slot(readIndex)].valid
    <3>1. d >= 1 /\ iter[1] >= 1 /\ d \in Nat
      BY <2>1, Facts DEF TypeInv, ClientInv
    <3>2. Rung /\ Lies
      BY <2>1, <3>1 DEF TypeInv, HsaInv, HasRun, Runs, SignalIsZero
    <3> QED
      BY <2>1, <3>1, <3>2 DEF ValidInv, Lies, Rung
  <2>2. cpc = "copying" => queue # <<>>
    BY DEF TypeInv, ClientInv, OclInv
  <2> QED
    BY <2>1, <2>2 DEF WaitsForDevice
<1> QED
  BY <1>1, <1>2, ValidStep, TypeInductive, PTL DEF Spec
=============================================================================
