----------------------------- MODULE Inductions -----------------------------
(***************************************************************************)
(* Induction as facts about sets, and what follows from it for the forms   *)
(* of recursion the models use: a walk over a sequence, and the sum of a   *)
(* function over a finite set.  A set stands for the predicate, so every   *)
(* lemma is first-order and can be cited.                                  *)
(***************************************************************************)
EXTENDS Integers, FiniteSets, Functions, FiniteSetTheorems, WellFoundedInduction, TLAPS

\* A set of naturals that is not empty has a least member.
LEMMA LeastNatural ==
  ASSUME NEW T \in SUBSET Nat, T # {}
  PROVE  \E x \in T : \A y \in T : x <= y
<1> DEFINE R == OpToRel(<, Nat)
<1>1. IsWellFoundedOn(R, Nat)
  BY Zenon, NatLessThanWellFounded
<1>2. \A a, b \in Nat : a < b => <<a, b>> \in R
  BY DEF OpToRel
<1> HIDE DEF R
<1>3. PICK x \in T : \A y \in T : ~(<<y, x>> \in R)
  BY <1>1, WFMin, Zenon
<1>4. \A y \in T : ~(y < x)
  BY Zenon, <1>2, <1>3
<1> QED BY <1>4

\* Induction over the naturals.
LEMMA NatSetInduction ==
  ASSUME NEW S, 0 \in S, \A n \in Nat : n \in S => n + 1 \in S
  PROVE  Nat \subseteq S
<1> SUFFICES ASSUME Nat \ S # {} PROVE FALSE
  OBVIOUS
<1>1. PICK x \in Nat \ S : \A y \in Nat \ S : x <= y
  BY Zenon, LeastNatural
<1>2. x # 0 /\ x - 1 \in Nat
  BY <1>1
<1>3. x - 1 \in S
  BY <1>1, <1>2
<1> QED BY <1>1, <1>2, <1>3

\* Induction over the steps of a loop.
LEMMA UpToInduction ==
  ASSUME NEW n \in Nat, NEW S, 0 \in S, \A i \in 1 .. n : i - 1 \in S => i \in S
  PROVE  0 .. n \subseteq S
<1> DEFINE T == {i \in Nat : i <= n => i \in S}
<1>1. 0 \in T
  OBVIOUS
<1>2. ASSUME NEW i \in Nat, i \in T PROVE i + 1 \in T
  <2> SUFFICES ASSUME i + 1 <= n PROVE i + 1 \in S
    OBVIOUS
  <2>1. i + 1 \in 1 .. n /\ (i + 1) - 1 = i /\ i \in S
    BY <1>2
  <2> QED BY <2>1
<1>3. Nat \subseteq T
  <2> HIDE DEF T
  <2> QED BY <1>1, <1>2, NatSetInduction
<1> QED BY <1>3

\* Induction over a finite set, one element at a time.
LEMMA FiniteSetInduction ==
  ASSUME NEW S, IsFiniteSet(S), NEW F, {} \in F,
         \A T \in SUBSET S, x \in S : T \in F /\ x \notin T => T \union {x} \in F
  PROVE  S \in F
<1> DEFINE Q == {n \in Nat : \A T \in SUBSET S : Cardinality(T) = n => T \in F}
<1>1. \A T \in SUBSET S : IsFiniteSet(T) /\ Cardinality(T) \in Nat
  BY FS_Subset, FS_CardinalityType
<1>2. 0 \in Q
  BY Zenon, <1>1, FS_EmptySet
<1>3. ASSUME NEW n \in Nat, n \in Q PROVE n + 1 \in Q
  <2> SUFFICES ASSUME NEW T \in SUBSET S, Cardinality(T) = n + 1 PROVE T \in F
    OBVIOUS
  <2>0. n + 1 # 0 /\ Cardinality({}) = 0 /\ IsFiniteSet(T)
    BY <1>1, FS_EmptySet
  <2>1. T # {}
    BY Zenon, <2>0
  <2>2. PICK x \in T : TRUE
    BY <2>1
  <2>3. Cardinality(T \ {x}) = n
    <3>1. Cardinality(T \ {x}) = IF x \in T THEN Cardinality(T) - 1 ELSE Cardinality(T)
      BY <2>0, FS_RemoveElement, Zenon
    <3> QED BY <2>2, <3>1
  <2>4. T \ {x} \in F
    BY <1>3, <2>3
  <2>5. T = (T \ {x}) \union {x} /\ x \notin T \ {x} /\ x \in S
    BY <2>2
  <2>6. T \ {x} \in SUBSET S
    OBVIOUS
  <2> QED BY <2>4, <2>5, <2>6
<1>4. Nat \subseteq Q
  <2> HIDE DEF Q
  <2> QED BY <1>2, <1>3, NatSetInduction
<1> QED BY <1>1, <1>4

\* A loop that takes a state of T to a state of T has its sequence of states.
IsWalk(f, n, T, x, step) ==
  /\ f \in [0 .. n -> T]
  /\ \A i \in 0 .. n : f[i] = IF i = 0 THEN x ELSE step[i][f[i - 1]]

LEMMA WalkExists ==
  ASSUME NEW n \in Nat, NEW T, NEW x \in T, NEW step \in [1 .. n -> [T -> T]]
  PROVE  \E f : IsWalk(f, n, T, x, step)
<1> DEFINE Walk(k) == {f \in [0 .. k -> T] :
                         \A i \in 0 .. k : f[i] = IF i = 0 THEN x ELSE step[i][f[i - 1]]}
           S == {k \in Nat : Walk(k) # {}}
<1>1. 0 \in S
  <2>1. [i \in 0 .. 0 |-> x] \in Walk(0)
    OBVIOUS
  <2> QED BY <2>1
<1>2. ASSUME NEW k \in 1 .. n, k - 1 \in S PROVE k \in S
  <2>1. PICK f : f \in Walk(k - 1)
    BY <1>2
  <2> DEFINE g == [i \in 0 .. k |-> IF i = k THEN step[k][f[k - 1]] ELSE f[i]]
  <2>2. k - 1 \in 0 .. k - 1 /\ f \in [0 .. k - 1 -> T] /\ f[k - 1] \in T
    BY <2>1
  <2>3. step[k][f[k - 1]] \in T
    BY <2>2
  <2>4. g \in [0 .. k -> T]
    BY <2>2, <2>3
  <2>5. \A i \in 0 .. k : g[i] = IF i = 0 THEN x ELSE step[i][g[i - 1]]
    BY <2>1
  <2> HIDE DEF g
  <2>6. g \in Walk(k)
    BY <2>4, <2>5
  <2> QED BY <2>6
<1>3. n \in S
  <2>1. 0 .. n \subseteq S
    <3> HIDE DEF S
    <3> QED BY Zenon, <1>1, <1>2, UpToInduction
  <2> QED BY <2>1
<1>4. PICK f : f \in Walk(n)
  BY <1>3
<1> QED BY <1>4 DEF IsWalk

\* A set of integers that is finite and not empty has a greatest member.
LEMMA GreatestExists ==
  ASSUME NEW S \in SUBSET Int, IsFiniteSet(S), S # {}
  PROVE  \E x \in S : \A y \in S : x >= y
<1> DEFINE F == {T \in SUBSET S : T # {} => \E x \in T : \A y \in T : x >= y}
<1>1. {} \in F
  OBVIOUS
<1>2. ASSUME NEW T \in SUBSET S, NEW x \in S, T \in F, x \notin T PROVE T \union {x} \in F
  <2>1. CASE T = {}
    <3>1. \A y \in T \union {x} : x >= y
      BY <2>1
    <3> QED BY <3>1
  <2>2. CASE T # {}
    <3>1. PICK t \in T : \A y \in T : t >= y
      BY <1>2, <2>2
    <3>2. CASE x >= t
      <4>1. \A y \in T \union {x} : x >= y
        BY <3>1, <3>2
      <4> QED BY <4>1
    <3>3. CASE ~(x >= t)
      <4>1. \A y \in T \union {x} : t >= y
        BY <3>1, <3>3
      <4> QED BY <4>1
    <3> QED BY <3>2, <3>3
  <2> QED BY <2>1, <2>2
<1>3. S \in F
  <2> HIDE DEF F
  <2> QED BY Zenon, <1>1, <1>2, FiniteSetInduction
<1> QED BY <1>3

-----------------------------------------------------------------------------
(***************************************************************************)
(* Sums.                                                                   *)
(***************************************************************************)
Picked(s) == CHOOSE x \in s : TRUE

IsIter(f, fun, S) ==
  f = [s \in SUBSET S |-> IF s = {} THEN 0 ELSE fun[Picked(s)] + f[s \ {Picked(s)}]]

Iter(fun, S) == CHOOSE f : IsIter(f, fun, S)

LEMMA SumIsIter ==
  ASSUME NEW fun, NEW S PROVE SumFunctionOnSet(fun, S) = Iter(fun, S)[S]
  BY DEF SumFunctionOnSet, FoldFunctionOnSet, MapThenFoldSet, Iter, IsIter, Picked

\* The recursion of a sum is well founded on a finite set.
LEMMA IterExists ==
  ASSUME NEW fun, NEW S, IsFiniteSet(S) PROVE IsIter(Iter(fun, S), fun, S)
<1> DEFINE Sub(n) == {s \in SUBSET S : Cardinality(s) <= n}
           Body(f, s) == IF s = {} THEN 0 ELSE fun[Picked(s)] + f[s \ {Picked(s)}]
           Q == {n \in Nat : \E f : f = [s \in Sub(n) |-> Body(f, s)]}
<1>1. \A s \in SUBSET S : IsFiniteSet(s) /\ Cardinality(s) \in Nat /\ Cardinality(s) <= Cardinality(S)
  BY FS_Subset, FS_CardinalityType
<1>2. \A s \in SUBSET S : s # {} => Picked(s) \in s /\ Cardinality(s \ {Picked(s)}) = Cardinality(s) - 1
  <2> SUFFICES ASSUME NEW s \in SUBSET S, s # {}
               PROVE  Picked(s) \in s /\ Cardinality(s \ {Picked(s)}) = Cardinality(s) - 1
    OBVIOUS
  <2>1. Picked(s) \in s
    BY DEF Picked
  <2>2. IsFiniteSet(s)
    BY <1>1
  <2> QED BY Zenon, <2>1, <2>2, FS_RemoveElement
<1>3. 0 \in Q
  <2> DEFINE f == [s \in Sub(0) |-> 0]
  <2>1. \A s \in Sub(0) : s = {}
    <3> SUFFICES ASSUME NEW s \in Sub(0), s # {} PROVE FALSE
      OBVIOUS
    <3>1. s \ {Picked(s)} \in SUBSET S
      OBVIOUS
    <3>2. Cardinality(s \ {Picked(s)}) \in Nat /\ Cardinality(s) <= 0 /\ Cardinality(s) \in Nat
      BY <1>1, <3>1
    <3> QED BY <1>2, <3>2
  <2>2. f = [s \in Sub(0) |-> Body(f, s)]
    BY <2>1
  <2> QED BY Zenon, <2>2
<1>4. ASSUME NEW n \in Nat, n \in Q PROVE n + 1 \in Q
  <2>1. PICK f : f = [s \in Sub(n) |-> Body(f, s)]
    BY Zenon, <1>4
  <2> DEFINE g == [s \in Sub(n + 1) |-> IF s \in Sub(n) THEN f[s] ELSE Body(f, s)]
  <2>2. ASSUME NEW s \in Sub(n + 1), s # {} PROVE s \ {Picked(s)} \in Sub(n) /\ s \ {Picked(s)} \in Sub(n + 1)
    <3>1. s \ {Picked(s)} \in SUBSET S
      OBVIOUS
    <3>2. Cardinality(s) \in Nat /\ Cardinality(s \ {Picked(s)}) = Cardinality(s) - 1 /\ Cardinality(s) <= n + 1
      BY <1>1, <1>2, <2>2
    <3> QED BY <3>1, <3>2
  <2>3. \A s \in Sub(n) : f[s] = Body(f, s)
    BY Zenon, <2>1
  <2>4. \A s \in Sub(n + 1) : s # {} => g[s \ {Picked(s)}] = f[s \ {Picked(s)}]
    BY <2>2
  <2>5. \A s \in Sub(n + 1) : g[s] = Body(f, s)
    BY <2>3
  <2>6. \A s \in Sub(n + 1) : Body(g, s) = Body(f, s)
    <3> HIDE DEF Sub, g
    <3> QED BY <2>4
  <2> HIDE DEF Sub
  <2>7. g = [s \in Sub(n + 1) |-> Body(g, s)]
    BY Zenon, <2>5, <2>6
  <2>8. n + 1 \in Nat
    OBVIOUS
  <2> HIDE DEF g, Body
  <2> QED BY <2>7, <2>8
<1>5. Nat \subseteq Q
  <2> HIDE DEF Q
  <2> QED BY <1>3, <1>4, NatSetInduction
<1>6. Cardinality(S) \in Q /\ Sub(Cardinality(S)) = SUBSET S
  BY Zenon, <1>1, <1>5, FS_CardinalityType
<1>7. PICK f : f = [s \in SUBSET S |-> Body(f, s)]
  BY Zenon, <1>6
<1>8. IsIter(f, fun, S)
  BY Zenon, <1>7 DEF IsIter
<1> QED BY <1>8 DEF Iter

\* The sum over a set takes the picked element off first.
LEMMA SumPicked ==
  ASSUME NEW fun, NEW S, IsFiniteSet(S)
  PROVE  /\ SumFunctionOnSet(fun, {}) = 0
         /\ S # {} => SumFunctionOnSet(fun, S) =
                        fun[Picked(S)] + SumFunctionOnSet(fun, S \ {Picked(S)})
<1> DEFINE Q == {n \in Nat : \A V \in SUBSET S : \A U \in SUBSET V :
                   Cardinality(U) <= n => Iter(fun, V)[U] = SumFunctionOnSet(fun, U)}
<1>1. \A V \in SUBSET S : /\ IsFiniteSet(V) /\ Cardinality(V) \in Nat
                          /\ IsIter(Iter(fun, V), fun, V)
                          /\ SumFunctionOnSet(fun, V) = Iter(fun, V)[V]
  BY FS_Subset, FS_CardinalityType, IterExists, SumIsIter
<1>2. \A V \in SUBSET S : \A U \in SUBSET V :
        Iter(fun, V)[U] = IF U = {} THEN 0 ELSE fun[Picked(U)] + Iter(fun, V)[U \ {Picked(U)}]
  BY Zenon, <1>1 DEF IsIter
<1>3. SumFunctionOnSet(fun, {}) = 0
  BY Zenon, <1>1, <1>2
<1>4. \A U \in SUBSET S : U # {} =>
        Cardinality(U \ {Picked(U)}) \in Nat /\ Cardinality(U \ {Picked(U)}) = Cardinality(U) - 1
  <2> SUFFICES ASSUME NEW U \in SUBSET S, U # {}
               PROVE  Cardinality(U \ {Picked(U)}) \in Nat /\ Cardinality(U \ {Picked(U)}) = Cardinality(U) - 1
    BY Zenon
  <2>1. Picked(U) \in U
    BY DEF Picked
  <2>2. IsFiniteSet(U) /\ U \ {Picked(U)} \in SUBSET S
    BY <1>1
  <2>3. Cardinality(U \ {Picked(U)}) = Cardinality(U) - 1
    BY Zenon, <2>1, <2>2, FS_RemoveElement
  <2> QED BY <1>1, <2>2, <2>3
<1>5. 0 \in Q
  <2> SUFFICES ASSUME NEW V \in SUBSET S, NEW U \in SUBSET V, Cardinality(U) <= 0
               PROVE  Iter(fun, V)[U] = SumFunctionOnSet(fun, U)
    OBVIOUS
  <2>1. U \in SUBSET S /\ Cardinality(U) \in Nat
    BY <1>1
  <2>2. U = {}
    <3>1. Cardinality(U) = 0 /\ IsFiniteSet(U)
      BY <1>1, <2>1
    <3> QED BY <3>1, FS_EmptySet, Zenon
  <2> QED BY Zenon, <1>2, <1>3, <2>2
<1>6. ASSUME NEW n \in Nat, n \in Q PROVE n + 1 \in Q
  <2> SUFFICES ASSUME NEW V \in SUBSET S, NEW U \in SUBSET V, Cardinality(U) <= n + 1
               PROVE  Iter(fun, V)[U] = SumFunctionOnSet(fun, U)
    OBVIOUS
  <2>1. U \in SUBSET S /\ Cardinality(U) \in Nat
    BY <1>1
  <2>2. CASE U = {}
    BY <1>2, <1>3, <2>2
  <2>3. CASE U # {}
    <3> DEFINE W == U \ {Picked(U)}
    <3>1. W \in SUBSET V /\ W \in SUBSET U /\ Cardinality(W) <= n
      BY <1>4, <2>1, <2>3
    <3>2. Iter(fun, V)[W] = SumFunctionOnSet(fun, W) /\ Iter(fun, U)[W] = SumFunctionOnSet(fun, W)
      BY <1>6, <2>1, <3>1
    <3>3. Iter(fun, V)[U] = fun[Picked(U)] + Iter(fun, V)[W]
      BY Zenon, <1>2, <2>3
    <3>4. Iter(fun, U)[U] = fun[Picked(U)] + Iter(fun, U)[W]
      BY <1>2, <2>1, <2>3
    <3> QED BY <1>1, <2>1, <3>2, <3>3, <3>4
  <2> QED BY <2>2, <2>3
<1>7. Nat \subseteq Q
  <2> HIDE DEF Q
  <2> QED BY <1>5, <1>6, NatSetInduction
<1>8. ASSUME S # {}
      PROVE  SumFunctionOnSet(fun, S) = fun[Picked(S)] + SumFunctionOnSet(fun, S \ {Picked(S)})
  <2>1. S \ {Picked(S)} \in SUBSET S /\ S \in SUBSET S
    OBVIOUS
  <2>2. Cardinality(S \ {Picked(S)}) \in Nat
    BY <1>1, <2>1
  <2>3. Iter(fun, S)[S \ {Picked(S)}] = SumFunctionOnSet(fun, S \ {Picked(S)})
    BY <1>7, <2>1, <2>2
  <2> QED BY <1>1, <1>2, <1>8, <2>1, <2>3
<1> QED BY <1>3, <1>8

\* Any element may be taken off first.
LEMMA SumRemove ==
  ASSUME NEW S, IsFiniteSet(S), NEW fun, \A x \in S : fun[x] \in Nat
  PROVE  /\ SumFunctionOnSet(fun, S) \in Nat
         /\ \A x \in S : SumFunctionOnSet(fun, S) = fun[x] + SumFunctionOnSet(fun, S \ {x})
<1> DEFINE Sum(U) == SumFunctionOnSet(fun, U)
           Q == {n \in Nat : \A U \in SUBSET S : Cardinality(U) <= n =>
                   Sum(U) \in Nat /\ \A x \in U : Sum(U) = fun[x] + Sum(U \ {x})}
<1>1. \A U \in SUBSET S : /\ IsFiniteSet(U) /\ Cardinality(U) \in Nat
                          /\ U # {} => Sum(U) = fun[Picked(U)] + Sum(U \ {Picked(U)})
  BY FS_Subset, FS_CardinalityType, SumPicked
<1>2. Sum({}) = 0
  BY Zenon, SumPicked
<1>3. \A U \in SUBSET S : U # {} => Picked(U) \in U
  BY DEF Picked
<1> HIDE DEF Sum
<1>4. \A U \in SUBSET S : \A x \in U : Cardinality(U \ {x}) = Cardinality(U) - 1
  <2> SUFFICES ASSUME NEW U \in SUBSET S, NEW x \in U PROVE Cardinality(U \ {x}) = Cardinality(U) - 1
    BY Zenon
  <2>1. IsFiniteSet(U)
    BY Zenon, <1>1
  <2> QED BY Zenon, <2>1, FS_RemoveElement
<1>5. 0 \in Q
  <2> SUFFICES ASSUME NEW U \in SUBSET S, Cardinality(U) <= 0
               PROVE  Sum(U) \in Nat /\ \A x \in U : Sum(U) = fun[x] + Sum(U \ {x})
    OBVIOUS
  <2>1. IsFiniteSet(U) /\ Cardinality(U) \in Nat
    BY Zenon, <1>1
  <2>2. Cardinality(U) = 0
    BY <2>1
  <2>3. U = {}
    BY <2>1, <2>2, FS_EmptySet, Zenon
  <2> QED BY <1>2, <2>3
<1>6. ASSUME NEW n \in Nat, n \in Q PROVE n + 1 \in Q
  <2> SUFFICES ASSUME NEW U \in SUBSET S, Cardinality(U) <= n + 1, U # {}
               PROVE  Sum(U) \in Nat /\ \A x \in U : Sum(U) = fun[x] + Sum(U \ {x})
    BY <1>2
  <2> DEFINE c == Picked(U)
             R == U \ {c}
  <2>1. c \in U
    BY <1>3
  <2>2. \A x \in U : /\ U \ {x} \in SUBSET S /\ Cardinality(U \ {x}) <= n
                     /\ Sum(U \ {x}) \in Nat
                     /\ \A y \in U \ {x} : Sum(U \ {x}) = fun[y] + Sum((U \ {x}) \ {y})
    <3> SUFFICES ASSUME NEW x \in U
                 PROVE  /\ U \ {x} \in SUBSET S /\ Cardinality(U \ {x}) <= n
                        /\ Sum(U \ {x}) \in Nat
                        /\ \A y \in U \ {x} : Sum(U \ {x}) = fun[y] + Sum((U \ {x}) \ {y})
      BY Zenon
    <3>1. U \ {x} \in SUBSET S /\ Cardinality(U \ {x}) <= n
      <4>1. Cardinality(U) \in Nat /\ Cardinality(U \ {x}) = Cardinality(U) - 1
        BY Zenon, <1>1, <1>4
      <4> QED BY <4>1
    <3> QED BY Zenon, <1>6, <3>1
  <2>3. Sum(U) = fun[c] + Sum(R) /\ fun[c] \in Nat /\ Sum(R) \in Nat
    BY Zenon, <1>1, <2>1, <2>2
  <2> HIDE DEF c
  <2>4. ASSUME NEW x \in U, x # c PROVE Sum(U) = fun[x] + Sum(U \ {x})
    <3> DEFINE W == (U \ {x}) \ {c}
    <3>1. W = R \ {x} /\ x \in R /\ c \in U \ {x}
      BY <2>1, <2>4
    <3>2. W \in SUBSET S /\ fun[x] \in Nat /\ Sum(U \ {x}) \in Nat
      BY Zenon, <2>1, <2>2
    <3>3. Sum(R) = fun[x] + Sum(W)
      BY <2>1, <2>2, <3>1
    <3>4. Sum(U \ {x}) = fun[c] + Sum(W)
      BY <2>2, <3>1
    <3>5. Sum(W) \in Nat
      <4>1. Cardinality(W) <= n
        <5>1. Cardinality(R) \in Nat /\ Cardinality(R \ {x}) = Cardinality(R) - 1 /\ Cardinality(R) <= n
          BY Zenon, <1>1, <1>4, <2>1, <2>2, <3>1
        <5> QED BY <3>1, <5>1
      <4> QED BY <1>6, <3>2, <4>1
    <3> QED BY <2>3, <3>2, <3>3, <3>4, <3>5
  <2> QED BY <2>3, <2>4
<1>7. Nat \subseteq Q
  <2> HIDE DEF Q
  <2> QED BY <1>5, <1>6, NatSetInduction
<1>8. S \in SUBSET S /\ Cardinality(S) \in Q
  BY Zenon, <1>1, <1>7
<1>9. Sum(S) \in Nat /\ \A x \in S : Sum(S) = fun[x] + Sum(S \ {x})
  BY <1>8
<1> QED BY <1>9 DEF Sum

LEMMA SumAdd ==
  ASSUME NEW S, IsFiniteSet(S), NEW x, x \notin S, NEW fun, \A y \in S \union {x} : fun[y] \in Nat
  PROVE  SumFunctionOnSet(fun, S \union {x}) = fun[x] + SumFunctionOnSet(fun, S)
<1>1. IsFiniteSet(S \union {x}) /\ (S \union {x}) \ {x} = S
  BY FS_AddElement
<1>2. x \in S \union {x}
  OBVIOUS
<1> QED BY <1>1, <1>2, SumRemove

\* Only the values on the set count.
LEMMA SumEqual ==
  ASSUME NEW S, IsFiniteSet(S), NEW fun, NEW gun, \A x \in S : fun[x] \in Nat /\ gun[x] = fun[x]
  PROVE  SumFunctionOnSet(gun, S) = SumFunctionOnSet(fun, S)
<1> DEFINE F == {T \in SUBSET S : SumFunctionOnSet(gun, T) = SumFunctionOnSet(fun, T)}
<1>1. {} \in F
  BY Zenon, FS_EmptySet, SumPicked
<1>2. ASSUME NEW T \in SUBSET S, NEW x \in S, T \in F, x \notin T PROVE T \union {x} \in F
  <2>1. IsFiniteSet(T)
    BY FS_Subset
  <2>2. /\ SumFunctionOnSet(gun, T \union {x}) = gun[x] + SumFunctionOnSet(gun, T)
        /\ SumFunctionOnSet(fun, T \union {x}) = fun[x] + SumFunctionOnSet(fun, T)
    BY Zenon, <1>2, <2>1, SumAdd
  <2> QED BY <1>2, <2>2
<1>3. S \in F
  <2> HIDE DEF F
  <2> QED BY Zenon, <1>1, <1>2, FiniteSetInduction
<1> QED BY <1>3

\* A part may be taken off at once.
LEMMA SumSplit ==
  ASSUME NEW S, IsFiniteSet(S), NEW T \in SUBSET S, NEW fun, \A x \in S : fun[x] \in Nat
  PROVE  /\ SumFunctionOnSet(fun, T) \in Nat /\ SumFunctionOnSet(fun, S \ T) \in Nat
         /\ SumFunctionOnSet(fun, S) = SumFunctionOnSet(fun, T) + SumFunctionOnSet(fun, S \ T)
<1> DEFINE F == {U \in SUBSET T : SumFunctionOnSet(fun, S) =
                                    SumFunctionOnSet(fun, U) + SumFunctionOnSet(fun, S \ U)}
<1>1. \A U \in SUBSET S : IsFiniteSet(U) /\ SumFunctionOnSet(fun, U) \in Nat
  BY Zenon, FS_Subset, SumRemove
<1>2. {} \in F
  <2>1. SumFunctionOnSet(fun, {}) = 0 /\ S \ {} = S
    BY Zenon, SumPicked
  <2> QED BY <1>1, <2>1
<1>3. ASSUME NEW U \in SUBSET T, NEW x \in T, U \in F, x \notin U PROVE U \union {x} \in F
  <2>1. /\ U \in SUBSET S /\ S \ U \in SUBSET S /\ S \ (U \union {x}) \in SUBSET S
        /\ x \in S \ U /\ S \ (U \union {x}) = (S \ U) \ {x}
    BY <1>3
  <2>2. SumFunctionOnSet(fun, U \union {x}) = fun[x] + SumFunctionOnSet(fun, U)
    BY Zenon, <1>1, <1>3, <2>1, SumAdd
  <2>3. SumFunctionOnSet(fun, S \ U) = fun[x] + SumFunctionOnSet(fun, S \ (U \union {x}))
    BY <1>1, <2>1, SumRemove
  <2>4. fun[x] \in Nat /\ SumFunctionOnSet(fun, U) \in Nat
        /\ SumFunctionOnSet(fun, S \ (U \union {x})) \in Nat
    BY <1>1, <2>1
  <2> QED BY <1>3, <2>2, <2>3, <2>4
<1>4. T \in F
  <2>1. IsFiniteSet(T)
    BY <1>1
  <2> HIDE DEF F
  <2> QED BY Zenon, <1>2, <1>3, <2>1, FiniteSetInduction
<1> QED BY <1>1, <1>4

\* A sum grows with its values.
LEMMA SumLeq ==
  ASSUME NEW S, IsFiniteSet(S), NEW fun, NEW gun,
         \A x \in S : fun[x] \in Nat /\ gun[x] \in Nat /\ fun[x] <= gun[x]
  PROVE  SumFunctionOnSet(fun, S) <= SumFunctionOnSet(gun, S)
<1> DEFINE F == {T \in SUBSET S : SumFunctionOnSet(fun, T) <= SumFunctionOnSet(gun, T)}
<1>1. \A U \in SUBSET S : IsFiniteSet(U) /\ SumFunctionOnSet(fun, U) \in Nat /\ SumFunctionOnSet(gun, U) \in Nat
  BY Zenon, FS_Subset, SumRemove
<1>2. {} \in F
  <2>1. SumFunctionOnSet(fun, {}) = 0 /\ SumFunctionOnSet(gun, {}) = 0
    BY Zenon, FS_EmptySet, SumPicked
  <2> QED BY <2>1
<1>3. ASSUME NEW T \in SUBSET S, NEW x \in S, T \in F, x \notin T PROVE T \union {x} \in F
  <2>1. /\ SumFunctionOnSet(gun, T \union {x}) = gun[x] + SumFunctionOnSet(gun, T)
        /\ SumFunctionOnSet(fun, T \union {x}) = fun[x] + SumFunctionOnSet(fun, T)
    BY <1>1, <1>3, SumAdd
  <2> QED BY <1>1, <1>3, <2>1
<1>4. S \in F
  <2> HIDE DEF F
  <2> QED BY Zenon, <1>2, <1>3, FiniteSetInduction
<1> QED BY <1>4

-----------------------------------------------------------------------------
(***************************************************************************)
(* Counting the elements with keys up to its own numbers the elements of a *)
(* finite set, in the order of their keys.                                 *)
(***************************************************************************)
Place(S, key, x) == Cardinality({y \in S : key[y] <= key[x]})

\* The places are 1 to the size of the set, each taken once.
LEMMA Places ==
  ASSUME NEW S, IsFiniteSet(S), NEW key \in [S -> Int], \A x, y \in S : key[x] = key[y] => x = y
  PROVE  /\ \A x \in S : Place(S, key, x) \in 1 .. Cardinality(S)
         /\ \A i \in 1 .. Cardinality(S) : \E x \in S : Place(S, key, x) = i
         /\ \A x, y \in S : Place(S, key, x) = Place(S, key, y) => x = y
         /\ \A x, y \in S : Place(S, key, x) < Place(S, key, y) => key[x] < key[y]
<1> DEFINE Below(x) == {y \in S : key[y] <= key[x]}
           rank == [x \in S |-> Place(S, key, x)]
           n == Cardinality(S)
<1>1. n \in Nat /\ \A x \in S : /\ Below(x) \in SUBSET S /\ IsFiniteSet(Below(x))
                                /\ Cardinality(Below(x)) \in Nat /\ Cardinality(Below(x)) <= n
  BY FS_Subset, FS_CardinalityType
<1>2. \A x \in S : Place(S, key, x) = Cardinality(Below(x)) /\ rank[x] = Place(S, key, x)
  BY DEF Place
<1>3. \A x \in S : rank[x] \in 1 .. n
  <2> SUFFICES ASSUME NEW x \in S PROVE rank[x] \in 1 .. n
    OBVIOUS
  <2>1. x \in Below(x)
    OBVIOUS
  <2>2. Cardinality(Below(x)) # 0
    <3> HIDE DEF Below
    <3> QED BY <1>1, <2>1, FS_EmptySet, Zenon
  <2>3. Cardinality(Below(x)) \in Nat /\ Cardinality(Below(x)) <= n
    BY <1>1
  <2> HIDE DEF Below
  <2> QED BY <1>1, <1>2, <2>2, <2>3
<1>4. ASSUME NEW x \in S, NEW y \in S, rank[x] = rank[y], key[x] <= key[y] PROVE x = y
  <2>1. Below(x) \in SUBSET Below(y) /\ y \in Below(y)
    BY <1>4
  <2>2. IsFiniteSet(Below(y)) /\ Cardinality(Below(y)) = Cardinality(Below(x))
    BY <1>1, <1>2, <1>4
  <2>3. Below(y) = Below(x)
    <3> HIDE DEF Below
    <3> QED BY <2>1, <2>2, FS_Subset
  <2>4. key[y] <= key[x]
    BY <2>1, <2>3
  <2>5. key[x] = key[y]
    BY <1>4, <2>4
  <2> QED BY <2>5
<1> HIDE DEF rank
<1>5. \A x, y \in S : rank[x] = rank[y] => x = y
  <2> SUFFICES ASSUME NEW x \in S, NEW y \in S, rank[x] = rank[y] PROVE x = y
    OBVIOUS
  <2>1. key[x] <= key[y] \/ key[y] <= key[x]
    OBVIOUS
  <2> QED BY <1>4, <2>1
<1>6. rank \in Injection(S, 1 .. n)
  <2>1. rank \in [S -> 1 .. n]
    BY <1>3 DEF rank
  <2> QED BY <1>5, <2>1 DEF Injection, IsInjective
<1>7. IsFiniteSet(1 .. n) /\ Cardinality(1 .. n) = n
  <2>1. 1 \in Int /\ n \in Int
    BY <1>1
  <2>2. IsFiniteSet(1 .. n) /\ Cardinality(1 .. n) = IF 1 > n THEN 0 ELSE n - 1 + 1
    BY <2>1, FS_Interval, Zenon
  <2> HIDE DEF n
  <2> QED BY <1>1, <2>2
<1>8. rank \in Surjection(S, 1 .. n)
  BY <1>6, <1>7, FS_Injection
<1>9. \A i \in 1 .. n : \E x \in S : rank[x] = i
  BY <1>8 DEF Surjection
<1>10. \A x \in S : Place(S, key, x) = rank[x]
  BY Zenon, <1>2
<1>11. ASSUME NEW x \in S, NEW y \in S, ~(key[x] < key[y]) PROVE rank[y] <= rank[x]
  <2>1. key[x] \in Int /\ key[y] \in Int
    OBVIOUS
  <2>2. Below(y) \in SUBSET Below(x)
    BY <1>11, <2>1
  <2>3. IsFiniteSet(Below(x)) /\ rank[x] = Cardinality(Below(x)) /\ rank[y] = Cardinality(Below(y))
    BY <1>1, <1>2
  <2> HIDE DEF Below
  <2> QED BY <2>2, <2>3, FS_Subset
<1>12. \A x, y \in S : rank[x] < rank[y] => key[x] < key[y]
  BY <1>3, <1>11
<1> HIDE DEF Below
<1> QED BY <1>3, <1>5, <1>9, <1>10, <1>12
=============================================================================
