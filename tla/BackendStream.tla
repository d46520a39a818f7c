---------------------------- MODULE BackendStream ----------------------------
(***************************************************************************)
(* A stream of the backend engine (BackendEngineHSA.cpp,                   *)
(* BackendEngineOCL.cpp) and a client that uses it the way                 *)
(* test/test_ocl.cpp does: compile, make the kernel object, delete the     *)
(* code object, then set up a dispatch, launch it, wait, and copy the      *)
(* result back.  Launch takes a number of iterations, and the client may   *)
(* go on to another dispatch.  The device and the two runtimes are         *)
(* external: an HSA queue is a ring of packets that the packet processor   *)
(* takes in order up to the doorbell, an OpenCL queue runs its commands in *)
(* order (the stream is made without is_async).                            *)
(***************************************************************************)
EXTENDS Integers, Sequences, FiniteSets

CONSTANTS
  Engines,        \* the engines BackendEngine::Get may return
  DeletesCode,    \* those whose client deletes the code object before it dispatches
  Iters,          \* what Launch is called with
  QueueSize,      \* packets of an HSA queue
  MaxDispatches,
  Garbage

ASSUME StreamAssumption ==
  /\ Engines \subseteq {"OCL", "HSA"} /\ DeletesCode \subseteq Engines
  /\ Iters \subseteq Nat \ {0}
  /\ QueueSize \in Nat \ {0} /\ MaxDispatches \in Nat \ {0}
  /\ Garbage \notin 0 .. MaxDispatches

VARIABLES
  engine,
  cpc,        \* the client: code, setup, launch, wait, copy, copying, end
  code,       \* references to the loaded program or executable
  d,          \* dispatches set up so far; the number of the current one
  iter,       \* i of Launch's loop, and how many iterations it was called with
  queue,      \* OpenCL: the commands in the queue, 0 the read
  ring,       \* HSA: [body, valid] of each packet of the ring
  writeIndex, doorbell, readIndex,
  signal,     \* HSA: the completion signal of each dispatch
  running,    \* what the device is running: 0 is nothing
  ran,        \* history: runs of each dispatch
  asked,      \* history: the iterations it was launched with
  mem,        \* d_mem_c: the dispatch whose output it holds
  host        \* h_c_dev

client == <<cpc, d, iter, asked>>
hsa == <<ring, writeIndex, doorbell, readIndex, signal>>
device == <<running, ran, mem>>
bsVars == <<engine, client, code, queue, hsa, device, host>>

Dispatches == 1 .. MaxDispatches
Slot(index) == index % QueueSize
-----------------------------------------------------------------------------
Init ==
  /\ engine \in Engines
  /\ cpc = "code" /\ code = 0 /\ d = 0 /\ iter = <<0, 0>>
  /\ queue = <<>>
  /\ ring = [s \in 0 .. QueueSize - 1 |-> [body |-> 0, valid |-> FALSE]]
  /\ writeIndex = 0 /\ doorbell = -1 /\ readIndex = 0
  /\ signal = [k \in Dispatches |-> 0]
  /\ running = 0 /\ ran = [k \in Dispatches |-> 0] /\ asked = [k \in Dispatches |-> 0]
  /\ mem = 0 /\ host = 0

(* The compiler, CreateKernelObject, and delete code_obj.  An OpenCL       *)
(* kernel retains its program; the HSA kernel object is a bare handle, and *)
(* ~HSACodeObject destroys the executable behind it.                       *)
CreateKernel ==
  /\ cpc = "code"
  /\ code' = (IF engine = "OCL" THEN 2 ELSE 1) - (IF engine \in DeletesCode THEN 1 ELSE 0)
  /\ cpc' = "setup"
  /\ UNCHANGED <<engine, d, iter, asked, queue, hsa, device, host>>

(* HSAStream::SetupDispatch: a new signal, a packet id, and the packet but *)
(* for its header.  OCLStream's sets the arguments.                        *)
SetupDispatch ==
  /\ cpc = "setup" /\ d < MaxDispatches
  /\ d' = d + 1
  /\ \E n \in Iters : iter' = <<0, n>> /\ asked' = [asked EXCEPT ![d + 1] = n]
  /\ IF engine = "HSA"
     THEN /\ signal' = [signal EXCEPT ![d + 1] = 1]
          /\ ring' = [ring EXCEPT ![Slot(writeIndex)].body = d + 1]
          /\ writeIndex' = writeIndex + 1
     ELSE UNCHANGED <<signal, ring, writeIndex>>
  /\ cpc' = "launch"
  /\ UNCHANGED <<engine, code, queue, doorbell, readIndex, device, host>>

Looping == cpc = "launch" /\ iter[1] < iter[2]
LaunchedLess == iter[1] + 1 = iter[2]      \* mutant: the loop ends one too early
Launched == iter[1] = iter[2]

(* One iteration of OCLStream::Launch.                                     *)
EnqueueKernel ==
  /\ engine = "OCL" /\ Looping /\ ~Launched
  /\ queue' = Append(queue, d)
  /\ iter' = <<iter[1] + 1, iter[2]>>
  /\ UNCHANGED <<engine, cpc, d, asked, code, hsa, device, host>>

PacketAfter == writeIndex           \* mutant: the index of the next packet
PacketIndex == writeIndex - 1

(* One iteration of HSAStream::Launch: the header makes the packet valid,  *)
(* then the doorbell is rung with the one packet_index of the dispatch.    *)
StoreHeader ==
  /\ engine = "HSA" /\ Looping
  /\ ring' = [ring EXCEPT ![Slot(PacketIndex)].valid = TRUE]
  /\ cpc' = "doorbell"
  /\ UNCHANGED <<engine, d, iter, asked, code, queue, writeIndex, doorbell, readIndex,
                 signal, device, host>>

NoDoorbell == doorbell              \* mutant: the doorbell is not rung
RingWith == PacketIndex
RingDoorbell ==
  /\ engine = "HSA" /\ cpc = "doorbell"
  /\ doorbell' = RingWith
  /\ iter' = <<iter[1] + 1, iter[2]>>
  /\ cpc' = "launch"
  /\ UNCHANGED <<engine, d, asked, code, queue, ring, writeIndex, readIndex, signal,
                 device, host>>

LaunchReturns ==
  /\ cpc = "launch" /\ Launched
  /\ cpc' = "wait"
  /\ UNCHANGED <<engine, d, iter, asked, code, queue, hsa, device, host>>

NoWait == TRUE                      \* mutant: HSAStream::Wait returns at once
SignalIsZero == signal[d] = 0

(* HSAStream::Wait waits for the current signal; OCLStream::Wait flushes   *)
(* the queue and returns.                                                  *)
Wait ==
  /\ cpc = "wait"
  /\ engine = "HSA" => SignalIsZero
  /\ cpc' = "copy"
  /\ UNCHANGED <<engine, d, iter, asked, code, queue, hsa, device, host>>

(* Memcpy to the host: hsa_memory_copy is not ordered with the queue,      *)
(* clEnqueueReadBuffer is a blocking command of it.                        *)
NoBlocking == TRUE                  \* mutant: the read does not wait for the queue
CopiesAtOnce == engine = "HSA"
Memcpy ==
  /\ cpc = "copy"
  /\ IF CopiesAtOnce
     THEN host' = mem /\ cpc' = "setup" /\ UNCHANGED queue
     ELSE queue' = Append(queue, 0) /\ cpc' = "copying" /\ UNCHANGED host
  /\ UNCHANGED <<engine, d, iter, asked, code, hsa, device>>

Finish ==
  /\ cpc = "setup" /\ d > 0
  /\ cpc' = "end"
  /\ UNCHANGED <<engine, d, iter, asked, code, queue, hsa, device, host>>

(* The packet processor takes the next packet: it is valid and the         *)
(* doorbell has been rung for it; the barrier bit keeps them in order.     *)
TakePacket ==
  /\ running = 0 /\ readIndex <= doorbell /\ ring[Slot(readIndex)].valid
  /\ running' = ring[Slot(readIndex)].body
  /\ ring' = [ring EXCEPT ![Slot(readIndex)].valid = FALSE]
  /\ readIndex' = readIndex + 1
  /\ UNCHANGED <<engine, client, code, queue, writeIndex, doorbell, signal, ran, mem, host>>

TakeCommand ==
  /\ running = 0 /\ queue # <<>> /\ Head(queue) # 0
  /\ running' = Head(queue)
  /\ queue' = Tail(queue)
  /\ UNCHANGED <<engine, client, code, hsa, ran, mem, host>>

(* A kernel ends; one that was not there may have written anything.        *)
KernelEnds ==
  /\ running # 0
  /\ mem' \in {running} \cup (IF code = 0 THEN {Garbage} ELSE {})
  /\ ran' = [ran EXCEPT ![running] = @ + 1]
  /\ signal' = IF engine = "HSA" THEN [signal EXCEPT ![running] = @ - 1] ELSE signal
  /\ running' = 0
  /\ UNCHANGED <<engine, client, code, queue, ring, writeIndex, doorbell, readIndex, host>>

ReadBuffer ==
  /\ queue # <<>> /\ Head(queue) = 0 /\ running = 0
  /\ queue' = Tail(queue)
  /\ host' = mem
  /\ cpc' = "setup"
  /\ UNCHANGED <<engine, d, iter, asked, code, hsa, device>>

Client ==
  \/ CreateKernel \/ SetupDispatch \/ EnqueueKernel \/ StoreHeader \/ RingDoorbell
  \/ LaunchReturns \/ Wait \/ Memcpy \/ Finish
Device == TakePacket \/ TakeCommand \/ KernelEnds \/ ReadBuffer

Next == Client \/ Device
Spec == Init /\ [][Next]_bsVars

(* The client is one thread; the device works on what it is given.         *)
FairSpec == Spec /\ WF_bsVars(Client) /\ WF_bsVars(Device)
-----------------------------------------------------------------------------
TypeOK ==
  /\ engine \in Engines
  /\ cpc \in {"code", "setup", "launch", "doorbell", "wait", "copy", "copying", "end"}
  /\ code \in 0 .. 2 /\ d \in 0 .. MaxDispatches
  /\ iter[1] \in Nat /\ iter[1] <= iter[2]
  /\ queue \in Seq(0 .. MaxDispatches)
  /\ ring \in [0 .. QueueSize - 1 -> [body : 0 .. MaxDispatches, valid : BOOLEAN]]
  /\ writeIndex \in Nat /\ readIndex <= writeIndex /\ doorbell < writeIndex
  /\ signal \in [Dispatches -> 0 .. 1]
  /\ running \in 0 .. MaxDispatches
  /\ mem \in {Garbage} \cup 0 .. MaxDispatches /\ host \in {Garbage} \cup 0 .. MaxDispatches

(* What is copied back after Wait is the output of the dispatch just       *)
(* waited for: the test's comparison with the host's sums.                 *)
CopiesResult == cpc \in {"setup", "end"} => host = d

(* By then the device has run an OpenCL dispatch as often as Launch was    *)
(* told, but an HSA dispatch once: Launch(iter) rings iter times for the   *)
(* same packet.  Nothing is left to run.                                   *)
RunsAccounted ==
  cpc \in {"setup", "end"} =>
    /\ running = 0 /\ queue = <<>>
    /\ \A k \in 1 .. d : ran[k] = IF engine = "HSA" THEN 1 ELSE asked[k]

(* Setting up, launching, waiting and copying are together a call: the     *)
(* device works on a dispatch only between its setup and its copy, and the *)
(* result copied is that of the dispatch, on an engine that works apart    *)
(* from the client and one whose Wait only flushes.                        *)
Calls == INSTANCE OffloadedCall WITH MaxCalls <- MaxDispatches, call <- d
DispatchIsCall == Calls!Spec

(* The client gets through: no wait or read of it is for ever.             *)
ClientEnds == <>(cpc = "end")
=============================================================================
