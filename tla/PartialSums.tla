------------------------------ MODULE PartialSums ------------------------------
(***************************************************************************)
(* Facts about recursive functions that the proofs of several components   *)
(* share: the function that adds up a sequence of numbers and the one that *)
(* folds a finite set of them exist and yield numbers, and the fold does   *)
(* not depend on the order in which it takes the elements.                 *)
(*                                                                         *)
(* Induction is by the least counterexample: an initial segment, or a      *)
(* subset, that no smaller one is a counterexample within.                 *)
(***************************************************************************)
EXTENDS Integers, FiniteSets, FiniteSetTheorems, WellFoundedInduction, TLAPS

LEMMA LeastUpTo ==
  ASSUME NEW n \in Nat, NEW T \in SUBSET (0 .. n), T # {}
  PROVE  \E x \in T : \A y \in T : x <= y
<1> DEFINE R == StrictSubsetOrdering(0 .. n)
           U == {0 .. x : x \in T}
<1>1. U \subseteq FiniteSubsetsOf(0 .. n)
  <2>1. IsFiniteSet(0 .. n) /\ \A x \in 0 .. n : 0 .. x \in SUBSET (0 .. n)
    BY FS_Interval
  <2> QED BY <2>1, FS_Subset DEF FiniteSubsetsOf
<1>2. IsWellFoundedOn(R, FiniteSubsetsOf(0 .. n))
  BY FS_StrictSubsetOrderingWellFounded
<1>3. PICK u \in U : \A v \in U : <<v, u>> \notin R
  <2>1. U # {}
    OBVIOUS
  <2> HIDE DEF R, U
  <2> QED BY <2>1, <1>1, <1>2, WFMin
<1>4. PICK x \in T : u = 0 .. x
  BY <1>3
<1>5. ASSUME NEW y \in T, y < x PROVE FALSE
  <2>1. (0 .. y) \subseteq (0 .. x) /\ (0 .. y) # (0 .. x)
    BY <1>5
  <2>2. <<0 .. y, 0 .. x>> \in R
    BY <2>1 DEF StrictSubsetOrdering
  <2> QED BY <2>2, <1>3, <1>4
<1> QED
  BY <1>5

(* Every set of numbers that is not empty has a least one.                 *)
LEMMA LeastNumber ==
  ASSUME NEW T \in SUBSET Nat, T # {}
  PROVE  \E x \in T : \A y \in T : x <= y
<1>1. PICK n \in T : TRUE
  OBVIOUS
<1>2. PICK x \in T \cap 0 .. n : \A y \in T \cap 0 .. n : x <= y
  <2>1. T \cap 0 .. n # {} /\ n \in Nat
    BY <1>1
  <2> QED BY <2>1, LeastUpTo
<1> QED
  BY <1>1, <1>2

(* What holds of 0 and is passed on by each number up to n holds up to n.  *)
LEMMA AllUpTo ==
  ASSUME NEW n \in Nat, NEW S, 0 \in S, \A i \in 1 .. n : i - 1 \in S => i \in S
  PROVE  \A i \in 0 .. n : i \in S
<1> SUFFICES ASSUME (0 .. n) \ S # {} PROVE FALSE
  OBVIOUS
<1>1. PICK x \in (0 .. n) \ S : \A y \in (0 .. n) \ S : x <= y
  <2> DEFINE T == (0 .. n) \ S
  <2>1. T \in SUBSET (0 .. n) /\ T # {}
    OBVIOUS
  <2> HIDE DEF T
  <2>2. \E x \in T : \A y \in T : x <= y
    BY <2>1, LeastUpTo
  <2> QED BY <2>2 DEF T
<1>2. x \in 1 .. n /\ x - 1 \in 0 .. n
  BY <1>1
<1>3. x - 1 \in S
  BY <1>1, <1>2
<1> QED
  BY <1>1, <1>2, <1>3

(* The sums of the first elements of a function on 1 .. n.                 *)
SumsOf(f, step, n) == f = [i \in 0 .. n |-> IF i = 0 THEN 0 ELSE f[i - 1] + step[i]]

LEMMA SumsExist ==
  ASSUME NEW n \in Nat, NEW step
  PROVE  \E f : SumsOf(f, step, n)
<1> DEFINE S == {k \in 0 .. n : \E f : SumsOf(f, step, k)}
<1>1. 0 \in S
  <2> DEFINE f == [i \in 0 .. 0 |-> 0]
  <2>1. SumsOf(f, step, 0)
    BY DEF SumsOf
  <2> QED BY <2>1
<1>2. ASSUME NEW k \in 1 .. n, k - 1 \in S PROVE k \in S
  <2>1. PICK f : SumsOf(f, step, k - 1)
    BY <1>2
  <2> DEFINE g == [i \in 0 .. k |-> IF i = k THEN f[k - 1] + step[k] ELSE f[i]]
  <2>2. \A i \in 0 .. k : g[i] = IF i = 0 THEN 0 ELSE g[i - 1] + step[i]
    <3>1. ASSUME NEW i \in 0 .. k - 1 PROVE g[i] = IF i = 0 THEN 0 ELSE g[i - 1] + step[i]
      <4>1. f[i] = IF i = 0 THEN 0 ELSE f[i - 1] + step[i]
        BY <2>1, <3>1 DEF SumsOf
      <4> QED BY <3>1, <4>1
    <3>2. g[k] = g[k - 1] + step[k] /\ k # 0
      OBVIOUS
    <3> QED BY <3>1, <3>2
  <2>3. SumsOf(g, step, k)
    BY <2>2 DEF SumsOf
  <2> QED BY <2>3
<1> HIDE DEF S
<1>3. n \in S
  BY <1>1, <1>2, AllUpTo
<1> QED
  BY <1>3 DEF S

LEMMA SumsAreNumbers ==
  ASSUME NEW n \in Nat, NEW step, \A i \in 1 .. n : step[i] \in Int,
         NEW f, SumsOf(f, step, n)
  PROVE  /\ f[0] = 0 /\ \A i \in 1 .. n : f[i] = f[i - 1] + step[i]
         /\ \A i \in 0 .. n : f[i] \in Int
         /\ (\A i \in 1 .. n : step[i] \in Nat) => \A i \in 0 .. n : f[i] \in Nat
<1>1. f[0] = 0 /\ \A i \in 1 .. n : f[i] = f[i - 1] + step[i]
  <2>1. \A i \in 0 .. n : f[i] = IF i = 0 THEN 0 ELSE f[i - 1] + step[i]
    BY DEF SumsOf
  <2> QED BY <2>1
<1>2. \A i \in 0 .. n : f[i] \in Int
  <2> DEFINE S == {k \in 0 .. n : f[k] \in Int}
  <2>1. 0 \in S /\ \A i \in 1 .. n : i - 1 \in S => i \in S
    BY <1>1
  <2> HIDE DEF S
  <2>2. \A i \in 0 .. n : i \in S
    BY <2>1, AllUpTo
  <2> QED BY <2>2 DEF S
<1>3. ASSUME \A i \in 1 .. n : step[i] \in Nat PROVE \A i \in 0 .. n : f[i] \in Nat
  <2> DEFINE S == {k \in 0 .. n : f[k] \in Nat}
  <2>1. 0 \in S /\ \A i \in 1 .. n : i - 1 \in S => i \in S
    BY <1>1, <1>3
  <2> HIDE DEF S
  <2>2. \A i \in 0 .. n : i \in S
    BY <2>1, AllUpTo
  <2> QED BY <2>2 DEF S
<1> QED
  BY <1>1, <1>2, <1>3
-----------------------------------------------------------------------------
(* Sums over finite sets, as a fold computes them: of a function on the    *)
(* subsets of a set that takes one element after the other out.            *)
OneOf(T) == CHOOSE x \in T : TRUE
SetSumsOf(f, s, S) ==
  f = [T \in SUBSET S |-> IF T = {} THEN 0 ELSE s[OneOf(T)] + f[T \ {OneOf(T)}]]

(* What holds of a set as soon as it holds of its proper subsets holds of  *)
(* every subset of a finite set.                                           *)
LEMMA AllSubsets ==
  ASSUME NEW S, IsFiniteSet(S), NEW Q,
         \A T \in SUBSET S : (\A U \in SUBSET T : U # T => U \in Q) => T \in Q
  PROVE  \A T \in SUBSET S : T \in Q
<1> DEFINE R == StrictSubsetOrdering(S)
           B == (SUBSET S) \ Q
<1> SUFFICES ASSUME B # {} PROVE FALSE
  OBVIOUS
<1>1. B \subseteq FiniteSubsetsOf(S)
  BY FS_Subset DEF FiniteSubsetsOf
<1>2. IsWellFoundedOn(R, FiniteSubsetsOf(S))
  BY FS_StrictSubsetOrderingWellFounded
<1>3. PICK T \in B : \A V \in B : <<V, T>> \notin R
  <2> HIDE DEF R, B
  <2> QED BY <1>1, <1>2, WFMin
<1>4. ASSUME NEW U \in SUBSET T, U # T PROVE U \in Q
  <2>1. U \in SUBSET S /\ T \in SUBSET S
    BY <1>4
  <2>2. <<U, T>> \in R
    BY <2>1, <1>4 DEF StrictSubsetOrdering
  <2> QED BY <2>1, <2>2, <1>3
<1> QED BY <1>3, <1>4

LEMMA SetSumEmpty ==
  ASSUME NEW S, NEW s, NEW f, SetSumsOf(f, s, S)
  PROVE  f[{}] = 0
<1>1. {} \in SUBSET S
  OBVIOUS
<1>2. \A U \in SUBSET S : f[U] = IF U = {} THEN 0 ELSE s[OneOf(U)] + f[U \ {OneOf(U)}]
  BY DEF SetSumsOf
<1> QED BY <1>1, <1>2

LEMMA SetSumStep ==
  ASSUME NEW S, NEW s, NEW f, SetSumsOf(f, s, S), NEW T \in SUBSET S, T # {}
  PROVE  /\ OneOf(T) \in T
         /\ T \ {OneOf(T)} \in SUBSET S /\ T \ {OneOf(T)} # T
         /\ f[T] = s[OneOf(T)] + f[T \ {OneOf(T)}]
<1>1. \A U \in SUBSET S : f[U] = IF U = {} THEN 0 ELSE s[OneOf(U)] + f[U \ {OneOf(U)}]
  BY DEF SetSumsOf
<1>2. OneOf(T) \in T
  BY DEF OneOf
<1> QED BY <1>1, <1>2

(* There is one such function at most, and a smaller set's is a part of it. *)
LEMMA SetSumsAgree ==
  ASSUME NEW S, IsFiniteSet(S), NEW s, NEW f, SetSumsOf(f, s, S),
         NEW T \in SUBSET S, NEW g, SetSumsOf(g, s, T)
  PROVE  \A U \in SUBSET T : g[U] = f[U]
<1> DEFINE Q == {U \in SUBSET T : g[U] = f[U]}
<1>1. IsFiniteSet(T)
  BY FS_Subset
<1>2. ASSUME NEW U \in SUBSET T, \A V \in SUBSET U : V # U => V \in Q PROVE U \in Q
  <2>1. CASE U = {}
    <3>1. g[U] = 0 /\ f[U] = 0
      BY <2>1, SetSumEmpty
    <3> QED BY <3>1
  <2>2. CASE U # {}
    <3>1. /\ g[U] = s[OneOf(U)] + g[U \ {OneOf(U)}]
          /\ OneOf(U) \in U /\ U \ {OneOf(U)} # U
      BY <2>2, SetSumStep
    <3>2. f[U] = s[OneOf(U)] + f[U \ {OneOf(U)}]
      BY <2>2, SetSumStep
    <3>3. U \ {OneOf(U)} \in Q
      BY <1>2, <3>1
    <3> QED BY <3>1, <3>2, <3>3
  <2> QED BY <2>1, <2>2
<1> HIDE DEF Q
<1>3. \A U \in SUBSET T : U \in Q
  BY <1>1, <1>2, AllSubsets
<1> QED BY <1>3 DEF Q

LEMMA SetSumsExist ==
  ASSUME NEW S, IsFiniteSet(S), NEW s
  PROVE  \E f : SetSumsOf(f, s, S)
<1> DEFINE Q == {T \in SUBSET S : \E f : SetSumsOf(f, s, T)}
           part(U) == CHOOSE f : SetSumsOf(f, s, U)
<1>1. ASSUME NEW T \in SUBSET S, \A U \in SUBSET T : U # T => U \in Q PROVE T \in Q
  <2> DEFINE h(U) == IF U = {} THEN 0 ELSE s[OneOf(U)] + part(U \ {OneOf(U)})[U \ {OneOf(U)}]
             g == [U \in SUBSET T |-> h(U)]
  <2>1. ASSUME NEW U \in SUBSET T, U # T PROVE SetSumsOf(part(U), s, U)
    <3>1. \E f : SetSumsOf(f, s, U)
      BY <1>1, <2>1
    <3> QED BY <3>1
  <2>2. ASSUME NEW U \in SUBSET T, U # T PROVE part(U)[U] = h(U)
    <3>1. SetSumsOf(part(U), s, U) /\ U \in SUBSET U /\ IsFiniteSet(U)
      BY <2>1, <2>2, FS_Subset
    <3>2. CASE U = {}
      BY <3>1, <3>2, SetSumEmpty
    <3>3. CASE U # {}
      <4> DEFINE V == U \ {OneOf(U)}
      <4>1. V \in SUBSET U /\ V # U /\ part(U)[U] = s[OneOf(U)] + part(U)[V]
        BY <3>1, <3>3, SetSumStep
      <4>2. V \in SUBSET T /\ V # T
        BY <2>2, <4>1
      <4>3. SetSumsOf(part(V), s, V) /\ V \in SUBSET V
        BY <2>1, <4>2
      <4> HIDE DEF part, V
      <4>4. part(V)[V] = part(U)[V]
        BY <3>1, <4>1, <4>3, SetSumsAgree
      <4> QED BY <3>3, <4>1, <4>4 DEF V
    <3> QED BY <3>2, <3>3
  <2>3. ASSUME NEW U \in SUBSET T
        PROVE  h(U) = IF U = {} THEN 0 ELSE s[OneOf(U)] + g[U \ {OneOf(U)}]
    <3>1. CASE U = {}
      BY <3>1
    <3>2. CASE U # {}
      <4> DEFINE V == U \ {OneOf(U)}
      <4>1. OneOf(U) \in U
        BY <3>2 DEF OneOf
      <4>2. V \in SUBSET T /\ V # T
        BY <4>1
      <4>3. part(V)[V] = h(V)
        BY <2>2, <4>2
      <4>4. g[V] = h(V)
        <5> HIDE DEF h, V
        <5> QED BY <4>2
      <4>5. h(U) = s[OneOf(U)] + part(V)[V]
        BY <3>2
      <4> HIDE DEF h, g, part
      <4> QED BY <3>2, <4>3, <4>4, <4>5
    <3> QED BY <3>1, <3>2
  <2>4. SetSumsOf(g, s, T)
    <3> HIDE DEF h
    <3>1. \A U \in SUBSET T : h(U) = IF U = {} THEN 0 ELSE s[OneOf(U)] + g[U \ {OneOf(U)}]
      BY <2>3
    <3> QED BY <3>1 DEF SetSumsOf
  <2> HIDE DEF g
  <2> QED BY <2>4
<1> HIDE DEF Q
<1>2. S \in Q
  BY <1>1, AllSubsets
<1> QED BY <1>2 DEF Q

NumberSums(f, s, S) == IsFiniteSet(S) /\ (\A x \in S : s[x] \in Int) /\ SetSumsOf(f, s, S)

LEMMA SetSumsAreNumbers ==
  ASSUME NEW S, NEW s, NEW f, NumberSums(f, s, S)
  PROVE  \A T \in SUBSET S : f[T] \in Int
<1>0. IsFiniteSet(S) /\ (\A x \in S : s[x] \in Int) /\ SetSumsOf(f, s, S)
  BY DEF NumberSums
<1> DEFINE Q == {T \in SUBSET S : f[T] \in Int}
<1>1. ASSUME NEW T \in SUBSET S, \A U \in SUBSET T : U # T => U \in Q PROVE T \in Q
  <2>1. CASE T = {}
    <3>1. f[T] = 0
      BY <1>0, <2>1, SetSumEmpty
    <3> QED BY <3>1
  <2>2. CASE T # {}
    <3>1. OneOf(T) \in T /\ T \ {OneOf(T)} # T /\ f[T] = s[OneOf(T)] + f[T \ {OneOf(T)}]
      BY <1>0, <2>2, SetSumStep
    <3>2. f[T \ {OneOf(T)}] \in Int /\ s[OneOf(T)] \in Int
      BY <1>0, <1>1, <3>1
    <3> QED BY <3>1, <3>2
  <2> QED BY <2>1, <2>2
<1> HIDE DEF Q
<1>2. \A T \in SUBSET S : T \in Q
  BY <1>0, <1>1, AllSubsets
<1> QED BY <1>2 DEF Q

(* Whichever element the fold takes out first, the sum is the same.        *)
LEMMA SetSumRemove ==
  ASSUME NEW S, NEW s, NEW f, NumberSums(f, s, S),
         NEW T \in SUBSET S, NEW x \in T
  PROVE  f[T] = f[T \ {x}] + s[x]
<1> DEFINE Q == {U \in SUBSET S : \A y \in U : f[U] = f[U \ {y}] + s[y]}
<1>0. \A U \in SUBSET S : f[U] \in Int
  BY SetSumsAreNumbers
<1>3. IsFiniteSet(S) /\ (\A y \in S : s[y] \in Int) /\ SetSumsOf(f, s, S)
  BY DEF NumberSums
<1>1. ASSUME NEW U \in SUBSET S, \A V \in SUBSET U : V # U => V \in Q PROVE U \in Q
  <2>1. ASSUME NEW y \in U PROVE f[U] = f[U \ {y}] + s[y]
    <3> DEFINE z == OneOf(U)
    <3>1. z \in U /\ f[U] = s[z] + f[U \ {z}]
      <4>1. U # {}
        OBVIOUS
      <4> QED BY <1>3, <4>1, SetSumStep
    <3> HIDE DEF z
    <3>2. /\ f[U \ {z}] \in Int /\ f[U \ {y}] \in Int /\ f[(U \ {y}) \ {z}] \in Int
          /\ s[z] \in Int /\ s[y] \in Int
      BY <1>0, <1>3, <3>1
    <3>3. CASE z = y
      BY <3>1, <3>2, <3>3
    <3>4. CASE z # y
      <4>1. U \ {z} \in Q /\ y \in U \ {z}
        BY <1>1, <3>1, <3>4
      <4>2. U \ {y} \in Q /\ z \in U \ {y}
        BY <1>1, <3>1, <3>4
      <4>3. (U \ {z}) \ {y} = (U \ {y}) \ {z}
        OBVIOUS
      <4>4. f[U \ {z}] = f[(U \ {y}) \ {z}] + s[y]
        BY <4>1, <4>3
      <4>5. f[U \ {y}] = f[(U \ {y}) \ {z}] + s[z]
        BY <4>2
      <4> QED BY <3>1, <3>2, <4>4, <4>5
    <3> QED BY <3>3, <3>4
  <2> QED BY <2>1
<1> HIDE DEF Q
<1>2. \A U \in SUBSET S : U \in Q
  BY <1>1, <1>3, AllSubsets
<1> QED BY <1>2 DEF Q

(* The sum over a set is that over a part of it plus that over the rest.   *)
LEMMA SetSumSplit ==
  ASSUME NEW S, NEW s, NEW f, NumberSums(f, s, S), NEW A \in SUBSET S
  PROVE  f[S] = f[A] + f[S \ A]
<1> DEFINE Q == {U \in SUBSET S : f[S] = f[U] + f[S \ U]}
<1>0. \A U \in SUBSET S : f[U] \in Int
  BY SetSumsAreNumbers
<1>3. IsFiniteSet(S) /\ (\A x \in S : s[x] \in Int) /\ SetSumsOf(f, s, S)
  BY DEF NumberSums
<1>1. ASSUME NEW U \in SUBSET S, \A V \in SUBSET U : V # U => V \in Q PROVE U \in Q
  <2>1. CASE U = {}
    <3>1. f[U] = 0 /\ S \ U = S /\ f[S] \in Int
      BY <2>1, <1>0, <1>3, SetSumEmpty
    <3> QED BY <3>1
  <2>2. CASE U # {}
    <3>1. PICK x \in U : TRUE
      BY <2>2
    <3> DEFINE rest == S \ (U \ {x})
    <3>2. f[U] = f[U \ {x}] + s[x]
      BY SetSumRemove
    <3>3. rest \in SUBSET S /\ x \in rest /\ rest \ {x} = S \ U
      OBVIOUS
    <3>4. f[rest] = f[S \ U] + s[x]
      <4>1. f[rest] = f[rest \ {x}] + s[x]
        BY <3>3, SetSumRemove
      <4> QED BY <3>3, <4>1
    <3>5. U \ {x} \in Q
      BY <1>1
    <3>6. f[S] = f[U \ {x}] + f[rest]
      BY <3>5
    <3>7. /\ f[S] \in Int /\ f[U] \in Int /\ f[U \ {x}] \in Int /\ f[S \ U] \in Int
          /\ f[rest] \in Int /\ s[x] \in Int
      BY <1>0, <1>3
    <3> HIDE DEF rest
    <3>8. f[S] = f[U] + f[S \ U]
      BY <3>2, <3>4, <3>6, <3>7
    <3> QED BY <3>8
  <2> QED BY <2>1, <2>2
<1> HIDE DEF Q
<1>2. \A U \in SUBSET S : U \in Q
  BY <1>1, <1>3, AllSubsets
<1> QED BY <1>2 DEF Q
=============================================================================
