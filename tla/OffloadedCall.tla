----------------------------- MODULE OffloadedCall -----------------------------
(***************************************************************************)
(* What a client of an asynchronous engine wants to see: calls that are    *)
(* made one after the other, run while they are open and at no other time, *)
(* at least once, and return their own result when no run is left.         *)
(***************************************************************************)
EXTENDS Naturals

CONSTANT MaxCalls

VARIABLES
  call,       \* the last call made
  running,    \* the call a run of which is under way, or 0
  ran,        \* how often each call has run
  host        \* the result that has been returned

ocVars == <<call, running, ran, host>>

Init ==
  /\ call = 0 /\ running = 0 /\ host = 0
  /\ ran = [k \in 1 .. MaxCalls |-> 0]

Open == host # call

Call ==
  /\ ~Open /\ call < MaxCalls
  /\ call' = call + 1
  /\ UNCHANGED <<running, ran, host>>

Start ==
  /\ Open /\ running = 0
  /\ running' = call
  /\ UNCHANGED <<call, ran, host>>

End ==
  /\ running # 0
  /\ ran' = [ran EXCEPT ![running] = @ + 1]
  /\ running' = 0
  /\ UNCHANGED <<call, host>>

Return ==
  /\ Open /\ running = 0 /\ ran[call] > 0
  /\ host' = call
  /\ UNCHANGED <<call, running, ran>>

Next == Call \/ Start \/ End \/ Return
Spec == Init /\ [][Next]_ocVars
================================================================================
