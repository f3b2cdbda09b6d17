---------------------------- MODULE Forces_proofs ----------------------------
(***************************************************************************)
(* The forces of the mortar methods and of the common plane, for meshes,   *)
(* pairs, quadrature rules, gaps and velocities of any number and size.    *)
(*                                                                         *)
(* Forces are sums over corners, nodes, points and planes.  What such sums *)
(* are is proved first: induction over the finite sets that are added up.  *)
(***************************************************************************)
EXTENDS Forces, FiniteSetTheorems, TLAPS

(* Induction over finite sets and numbers, with a set of what is good instead of an operator. *)

\* What holds for the empty set, and for a set when it holds for all that lack one of its elements, holds for a
\* finite set: of sets that fail, one has no smaller one below it.
LEMMA SetInduction ==
  ASSUME NEW T, IsFiniteSet(T), NEW Good, {} \in Good,
         \A U \in SUBSET T : U # {} /\ (\A x \in U : U \ {x} \in Good) => U \in Good
  PROVE  T \in Good
<1> DEFINE R == StrictSubsetOrdering(T)
           Bad == {U \in SUBSET T : U \notin Good}
<1> SUFFICES ASSUME T \notin Good PROVE FALSE
  OBVIOUS
<1>1. IsWellFoundedOn(R, FiniteSubsetsOf(T))
  BY FS_StrictSubsetOrderingWellFounded
<1>2. FiniteSubsetsOf(T) = SUBSET T
  BY FS_FiniteSubsetsOfFinite
<1>3. Bad \subseteq SUBSET T /\ Bad # {}
  OBVIOUS
<1>4. \A U \in SUBSET T : \A x \in U : <<U \ {x}, U>> \in R
  BY DEF StrictSubsetOrdering
<1> HIDE DEF R, Bad
<1>5. PICK U \in Bad : \A V \in Bad : ~(<<V, U>> \in R)
  BY <1>1, <1>2, <1>3, WFMin
<1>6. U \in SUBSET T /\ U \notin Good
  BY DEF Bad
<1>7. PICK x \in U : U \ {x} \notin Good
  BY <1>6
<1>8. U \ {x} \in Bad
  BY <1>6, <1>7 DEF Bad
<1> QED BY <1>4, <1>5, <1>6, <1>8

\* Induction over the natural numbers, by their order.
LEMMA NumberInduction ==
  ASSUME NEW Good, 0 \in Good, \A n \in Nat : n \in Good => n + 1 \in Good
  PROVE  \A n \in Nat : n \in Good
<1> DEFINE R == OpToRel(<, Nat)
           Bad == {n \in Nat : n \notin Good}
<1> SUFFICES ASSUME Bad # {} PROVE FALSE
  OBVIOUS
<1>1. \A x, y \in Nat : <<y, x>> \in R <=> y < x
  BY DEF OpToRel
<1>2. IsWellFoundedOn(R, Nat)
  BY NatLessThanWellFounded
<1>3. Bad \subseteq Nat
  OBVIOUS
<1> HIDE DEF R
<1>4. PICK n \in Bad : \A m \in Bad : ~(<<m, n>> \in R)
  <2> HIDE DEF Bad
  <2> QED BY <1>2, <1>3, WFMin
<1>5. n \in Nat /\ n # 0
  OBVIOUS
<1>6. n - 1 \in Nat /\ n - 1 + 1 = n /\ n - 1 < n
  BY <1>5
<1>7. n - 1 \notin Bad
  BY <1>1, <1>4, <1>5, <1>6
<1> QED BY <1>6, <1>7

-----------------------------------------------------------------------------
(* Sums over finite sets. *)

some(s) == CHOOSE x \in s : TRUE

\* g sums up f on the subsets of T with up to k elements.
SumsUpTo(g, f, T, k) ==
  \A s \in SUBSET T : Cardinality(s) <= k => g[s] = IF s = {} THEN 0 ELSE f[some(s)] + g[s \ {some(s)}]
Summation(f, T) ==
  CHOOSE g : g = [s \in SUBSET T |-> IF s = {} THEN 0 ELSE f[some(s)] + g[s \ {some(s)}]]

\* A sum is the value of its recursive definition at the whole set.
LEMMA SumIs == ASSUME NEW f, NEW T PROVE SumFunctionOnSet(f, T) = Summation(f, T)[T]
BY DEF SumFunctionOnSet, FoldFunctionOnSet, MapThenFoldSet, Summation, some

\* The recursive definition of a sum has a value at every subset of a finite set.
LEMMA SumsExist ==
  ASSUME NEW f, NEW T, IsFiniteSet(T)
  PROVE  \A s \in SUBSET T :
           Summation(f, T)[s] = IF s = {} THEN 0 ELSE f[some(s)] + Summation(f, T)[s \ {some(s)}]
<1> DEFINE next(g) == [s \in SUBSET T |-> IF s = {} THEN 0 ELSE f[some(s)] + g[s \ {some(s)}]]
           Good == {k \in Nat : \E g : g = [s \in SUBSET T |-> g[s]] /\ SumsUpTo(g, f, T, k)}
<1>1. \A s \in SUBSET T : Cardinality(s) \in Nat /\ (Cardinality(s) = 0 <=> s = {}) /\ Cardinality(s) <= Cardinality(T)
  <2> SUFFICES ASSUME NEW s \in SUBSET T
               PROVE  Cardinality(s) \in Nat /\ (Cardinality(s) = 0 <=> s = {}) /\ Cardinality(s) <= Cardinality(T)
    OBVIOUS
  <2>1. IsFiniteSet(s) /\ Cardinality(s) <= Cardinality(T)
    BY FS_Subset
  <2> QED BY <2>1, FS_CardinalityType, FS_EmptySet
<1>2. \A s \in SUBSET T : s # {} => /\ some(s) \in s /\ s \ {some(s)} \in SUBSET T
                                    /\ Cardinality(s \ {some(s)}) = Cardinality(s) - 1
  <2> SUFFICES ASSUME NEW s \in SUBSET T, s # {}
               PROVE  some(s) \in s /\ Cardinality(s \ {some(s)}) = Cardinality(s) - 1
    OBVIOUS
  <2>1. some(s) \in s
    BY DEF some
  <2>2. IsFiniteSet(s)
    BY FS_Subset
  <2> QED BY <2>1, <2>2, FS_RemoveElement
<1>3. 0 \in Good
  <2> DEFINE g == [s \in SUBSET T |-> 0]
  <2>1. SumsUpTo(g, f, T, 0)
    BY <1>1 DEF SumsUpTo
  <2>2. g = [s \in SUBSET T |-> g[s]]
    OBVIOUS
  <2> QED BY <2>1, <2>2
<1>4. ASSUME NEW k \in Nat, k \in Good PROVE k + 1 \in Good
  <2>1. PICK g : SumsUpTo(g, f, T, k)
    BY <1>4
  <2> DEFINE h == next(g)
  <2>2. h = [s \in SUBSET T |-> h[s]]
    OBVIOUS
  <2>3. \A s \in SUBSET T : h[s] = IF s = {} THEN 0 ELSE f[some(s)] + g[s \ {some(s)}]
    OBVIOUS
  <2> HIDE DEF h
  <2>4. \A s \in SUBSET T : Cardinality(s) <= k => h[s] = g[s]
    BY <2>1, <2>3 DEF SumsUpTo
  <2>5. ASSUME NEW s \in SUBSET T, Cardinality(s) <= k + 1, s # {}
        PROVE  h[s] = f[some(s)] + h[s \ {some(s)}]
    <3>1. s \ {some(s)} \in SUBSET T /\ Cardinality(s \ {some(s)}) <= k
      BY <1>1, <1>2, <2>5
    <3> QED BY <2>3, <2>4, <2>5, <3>1
  <2>6. SumsUpTo(h, f, T, k + 1)
    BY <2>3, <2>5 DEF SumsUpTo
  <2> QED BY <2>2, <2>6
<1>5. Cardinality(T) \in Nat /\ Cardinality(T) \in Good
  <2>1. Cardinality(T) \in Nat
    BY <1>1
  <2> HIDE DEF Good
  <2> QED BY <1>3, <1>4, <2>1, NumberInduction
<1>6. PICK g : g = [s \in SUBSET T |-> g[s]] /\ SumsUpTo(g, f, T, Cardinality(T))
  BY <1>5
<1>7. g = next(g)
  <2>1. \A s \in SUBSET T : g[s] = IF s = {} THEN 0 ELSE f[some(s)] + g[s \ {some(s)}]
    BY <1>1, <1>6 DEF SumsUpTo
  <2>2. g = [s \in SUBSET T |-> g[s]]
    BY <1>6
  <2> QED BY <2>1, <2>2
<1> DEFINE h == Summation(f, T)
<1>8. h = next(h)
  BY <1>7 DEF Summation
<1> HIDE DEF h
<1>9. \A s \in SUBSET T : h[s] = IF s = {} THEN 0 ELSE f[some(s)] + h[s \ {some(s)}]
  BY <1>8
<1> QED BY <1>9 DEF h

\* That value is the sum over the subset, whatever set it is taken as a subset of.
LEMMA SumOfSubset ==
  ASSUME NEW f, NEW T, IsFiniteSet(T), NEW U \in SUBSET T
  PROVE  Summation(f, T)[U] = SumFunctionOnSet(f, U)
<1> DEFINE Good == {V \in SUBSET T : \A W \in SUBSET T : V \subseteq W => Summation(f, W)[V] = Summation(f, T)[V]}
<1>1. ASSUME NEW W \in SUBSET T, NEW V \in SUBSET W
      PROVE  Summation(f, W)[V] = IF V = {} THEN 0 ELSE f[some(V)] + Summation(f, W)[V \ {some(V)}]
  <2>1. IsFiniteSet(W)
    BY FS_Subset
  <2> QED BY <2>1, SumsExist
<1>2. {} \in Good
  BY <1>1
<1>3. ASSUME NEW V \in SUBSET T, V # {}, \A x \in V : V \ {x} \in Good
      PROVE  V \in Good
  <2>1. some(V) \in V
    BY <1>3 DEF some
  <2>2. V \ {some(V)} \in Good
    BY <1>3, <2>1
  <2>3. ASSUME NEW W \in SUBSET T, V \subseteq W PROVE Summation(f, W)[V] = Summation(f, T)[V]
    <3>1. Summation(f, W)[V \ {some(V)}] = Summation(f, T)[V \ {some(V)}]
      BY <2>2, <2>3
    <3> QED BY <1>1, <1>3, <2>3, <3>1
  <2> QED BY <2>3
<1>4. U \in Good
  <2>1. IsFiniteSet(U)
    BY FS_Subset
  <2>2. \A V \in SUBSET U : V # {} /\ (\A x \in V : V \ {x} \in Good) => V \in Good
    BY <1>3
  <2> HIDE DEF Good
  <2> QED BY <1>2, <2>1, <2>2, SetInduction
<1>5. Summation(f, U)[U] = Summation(f, T)[U]
  BY <1>4
<1> QED BY <1>5, SumIs

\* The sum of nothing.
LEMMA SumEmpty == ASSUME NEW f PROVE SumFunctionOnSet(f, {}) = 0
<1>1. IsFiniteSet({})
  BY FS_EmptySet
<1> DEFINE h == Summation(f, {})
<1>2. \A s \in SUBSET {} : h[s] = IF s = {} THEN 0 ELSE f[some(s)] + h[s \ {some(s)}]
  BY <1>1, SumsExist
<1> HIDE DEF h
<1>3. h[{}] = 0
  BY <1>2
<1> QED BY <1>3, SumIs DEF h

\* A sum is that of the element the definition chooses and of the rest.
LEMMA SumStep ==
  ASSUME NEW f, NEW T, IsFiniteSet(T), T # {}
  PROVE  some(T) \in T /\ SumFunctionOnSet(f, T) = f[some(T)] + SumFunctionOnSet(f, T \ {some(T)})
<1>1. some(T) \in T
  BY DEF some
<1> DEFINE h == Summation(f, T)
<1>2. \A s \in SUBSET T : h[s] = IF s = {} THEN 0 ELSE f[some(s)] + h[s \ {some(s)}]
  BY SumsExist
<1>3. h[T \ {some(T)}] = SumFunctionOnSet(f, T \ {some(T)})
  BY SumOfSubset
<1>4. h[T] = SumFunctionOnSet(f, T)
  BY SumOfSubset
<1> HIDE DEF h
<1>5. h[T] = f[some(T)] + h[T \ {some(T)}]
  BY <1>2
<1> QED BY <1>1, <1>3, <1>4, <1>5

\* Sums of integers are integers.
LEMMA SumInt ==
  ASSUME NEW f, NEW T, IsFiniteSet(T), \A x \in T : f[x] \in Int
  PROVE  SumFunctionOnSet(f, T) \in Int
<1> DEFINE Good == {U \in SUBSET T : SumFunctionOnSet(f, U) \in Int}
<1>1. {} \in Good
  BY SumEmpty
<1>2. ASSUME NEW U \in SUBSET T, U # {}, \A x \in U : U \ {x} \in Good
      PROVE  U \in Good
  <2>1. IsFiniteSet(U)
    BY FS_Subset
  <2>2. some(U) \in U /\ SumFunctionOnSet(f, U) = f[some(U)] + SumFunctionOnSet(f, U \ {some(U)})
    BY <1>2, <2>1, SumStep
  <2> QED BY <1>2, <2>2
<1> HIDE DEF Good
<1>3. T \in Good
  BY <1>1, <1>2, SetInduction
<1> QED BY <1>3 DEF Good

\* Any element may be taken out of a sum.
LEMMA SumRemove ==
  ASSUME NEW f, NEW T, IsFiniteSet(T), \A x \in T : f[x] \in Int, NEW e \in T
  PROVE  SumFunctionOnSet(f, T) = f[e] + SumFunctionOnSet(f, T \ {e})
<1> DEFINE Good == {U \in SUBSET T : \A x \in U : SumFunctionOnSet(f, U) = f[x] + SumFunctionOnSet(f, U \ {x})}
<1>1. {} \in Good
  OBVIOUS
<1>2. ASSUME NEW U \in SUBSET T, U # {}, \A x \in U : U \ {x} \in Good
      PROVE  U \in Good
  <2> DEFINE c == some(U)
  <2>1. IsFiniteSet(U)
    BY FS_Subset
  <2>2. c \in U /\ SumFunctionOnSet(f, U) = f[c] + SumFunctionOnSet(f, U \ {c})
    BY <1>2, <2>1, SumStep
  <2> HIDE DEF c
  <2>3. ASSUME NEW x \in U, x # c
        PROVE  SumFunctionOnSet(f, U) = f[x] + SumFunctionOnSet(f, U \ {x})
    <3>1. SumFunctionOnSet(f, U \ {c}) = f[x] + SumFunctionOnSet(f, (U \ {c}) \ {x})
      BY <1>2, <2>2, <2>3
    <3>2. SumFunctionOnSet(f, U \ {x}) = f[c] + SumFunctionOnSet(f, (U \ {x}) \ {c})
      BY <1>2, <2>2, <2>3
    <3>3. (U \ {c}) \ {x} = (U \ {x}) \ {c}
      OBVIOUS
    <3>4. SumFunctionOnSet(f, (U \ {c}) \ {x}) \in Int
      <4>1. IsFiniteSet((U \ {c}) \ {x})
        BY <2>1, FS_RemoveElement
      <4>2. \A y \in (U \ {c}) \ {x} : f[y] \in Int
        OBVIOUS
      <4> QED BY <4>1, <4>2, SumInt
    <3>5. f[x] \in Int /\ f[c] \in Int
      BY <2>2
    <3>6. PICK r \in Int : r = SumFunctionOnSet(f, (U \ {c}) \ {x})
      BY <3>4
    <3>7. SumFunctionOnSet(f, U \ {c}) = f[x] + r
      BY <3>1, <3>6
    <3>8. SumFunctionOnSet(f, U \ {x}) = f[c] + r
      BY <3>2, <3>3, <3>6
    <3>9. SumFunctionOnSet(f, U) = f[c] + (f[x] + r)
      BY <2>2, <3>7
    <3> QED BY <3>5, <3>6, <3>8, <3>9
  <2> QED BY <2>2, <2>3
<1> HIDE DEF Good
<1>3. T \in Good
  BY <1>1, <1>2, SetInduction
<1> QED BY <1>3 DEF Good

\* What a step of an induction over the elements of a sum needs.
LEMMA SumLess ==
  ASSUME NEW f, NEW T, IsFiniteSet(T), \A x \in T : f[x] \in Int, NEW U \in SUBSET T
  PROVE  /\ SumFunctionOnSet(f, U) \in Int
         /\ \A x \in U : /\ SumFunctionOnSet(f, U) = f[x] + SumFunctionOnSet(f, U \ {x})
                         /\ SumFunctionOnSet(f, U \ {x}) \in Int /\ f[x] \in Int
<1>1. IsFiniteSet(U) /\ \A x \in U : f[x] \in Int
  BY FS_Subset
<1>2. SumFunctionOnSet(f, U) \in Int
  BY <1>1, SumInt
<1>3. ASSUME NEW x \in U
      PROVE  /\ SumFunctionOnSet(f, U) = f[x] + SumFunctionOnSet(f, U \ {x})
             /\ SumFunctionOnSet(f, U \ {x}) \in Int
  <2>1. IsFiniteSet(U \ {x}) /\ \A y \in U \ {x} : f[y] \in Int
    BY <1>1, FS_RemoveElement
  <2> QED BY <1>1, <2>1, SumInt, SumRemove
<1> QED BY <1>1, <1>2, <1>3

\* A sum depends on the values it adds up.
LEMMA SumSame ==
  ASSUME NEW f, NEW g, NEW T, IsFiniteSet(T), \A x \in T : f[x] = g[x]
  PROVE  SumFunctionOnSet(f, T) = SumFunctionOnSet(g, T)
<1> DEFINE Good == {U \in SUBSET T : SumFunctionOnSet(f, U) = SumFunctionOnSet(g, U)}
<1>1. {} \in Good
  BY SumEmpty
<1>2. ASSUME NEW U \in SUBSET T, U # {}, \A x \in U : U \ {x} \in Good
      PROVE  U \in Good
  <2>1. IsFiniteSet(U)
    BY FS_Subset
  <2>2. some(U) \in U /\ SumFunctionOnSet(f, U) = f[some(U)] + SumFunctionOnSet(f, U \ {some(U)})
    BY <1>2, <2>1, SumStep
  <2>3. SumFunctionOnSet(g, U) = g[some(U)] + SumFunctionOnSet(g, U \ {some(U)})
    BY <1>2, <2>1, SumStep
  <2>4. SumFunctionOnSet(f, U \ {some(U)}) = SumFunctionOnSet(g, U \ {some(U)}) /\ f[some(U)] = g[some(U)]
    BY <1>2, <2>2
  <2>5. SumFunctionOnSet(f, U) = SumFunctionOnSet(g, U)
    BY <2>2, <2>3, <2>4, Zenon
  <2> QED BY <2>5
<1> HIDE DEF Good
<1>3. T \in Good
  BY <1>1, <1>2, SetInduction
<1> QED BY <1>3 DEF Good

\* Sums are linear.
LEMMA SumLinear ==
  ASSUME NEW T, IsFiniteSet(T), NEW c \in Int, NEW f, NEW g, NEW h,
         \A x \in T : f[x] \in Int /\ g[x] \in Int /\ h[x] = f[x] + c * g[x]
  PROVE  SumFunctionOnSet(h, T) = SumFunctionOnSet(f, T) + c * SumFunctionOnSet(g, T)
<1> DEFINE Good == {U \in SUBSET T : SumFunctionOnSet(h, U) = SumFunctionOnSet(f, U) + c * SumFunctionOnSet(g, U)}
<1>0. \A x \in T : h[x] \in Int
  OBVIOUS
<1>1. {} \in Good
  BY SumEmpty
<1>2. ASSUME NEW U \in SUBSET T, U # {}, \A x \in U : U \ {x} \in Good
      PROVE  U \in Good
  <2>1. PICK x \in U : TRUE
    BY <1>2
  <2>2. PICK a, b, d, p, q, r :
          /\ a = f[x] /\ b = g[x] /\ d = h[x] /\ p = SumFunctionOnSet(f, U \ {x})
          /\ q = SumFunctionOnSet(g, U \ {x}) /\ r = SumFunctionOnSet(h, U \ {x})
    OBVIOUS
  <2>3. SumFunctionOnSet(f, U) = a + p /\ a \in Int /\ p \in Int
    BY <2>1, <2>2, SumLess
  <2>4. SumFunctionOnSet(g, U) = b + q /\ b \in Int /\ q \in Int
    BY <2>1, <2>2, SumLess
  <2>5. SumFunctionOnSet(h, U) = d + r
    BY <1>0, <2>1, <2>2, SumLess
  <2>6. r = p + c * q
    BY <1>2, <2>1, <2>2
  <2>7. d = a + c * b
    BY <2>2, <2>1
  <2>8. c * (b + q) = c * b + c * q /\ c * b \in Int /\ c * q \in Int
    BY <2>4
  <2>9. d + r = a + p + c * (b + q)
    BY <2>3, <2>6, <2>7, <2>8
  <2>10. SumFunctionOnSet(h, U) = SumFunctionOnSet(f, U) + c * SumFunctionOnSet(g, U)
    BY <2>3, <2>4, <2>5, <2>9
  <2> QED BY <2>10
<1> HIDE DEF Good
<1>3. T \in Good
  BY <1>1, <1>2, SetInduction
<1> QED BY <1>3 DEF Good

\* A sum of zeros.
LEMMA SumZero ==
  ASSUME NEW T, IsFiniteSet(T), NEW f, \A x \in T : f[x] = 0
  PROVE  SumFunctionOnSet(f, T) = 0
<1>1. SumFunctionOnSet(f, T) = SumFunctionOnSet(f, T) + 1 * SumFunctionOnSet(f, T)
  <2>1. \A x \in T : f[x] \in Int /\ f[x] = f[x] + 1 * f[x]
    OBVIOUS
  <2> QED BY <2>1, SumLinear
<1>2. PICK s \in Int : s = SumFunctionOnSet(f, T)
  BY SumInt
<1>3. s = s + s
  BY <1>1, <1>2
<1>4. s = 0
  BY <1>3
<1> QED BY <1>2, <1>4

\* The sum of sums.
LEMMA SumPlus ==
  ASSUME NEW T, IsFiniteSet(T), NEW f, NEW g, NEW h,
         \A x \in T : f[x] \in Int /\ g[x] \in Int /\ h[x] = f[x] + g[x]
  PROVE  SumFunctionOnSet(h, T) = SumFunctionOnSet(f, T) + SumFunctionOnSet(g, T)
<1>1. SumFunctionOnSet(h, T) = SumFunctionOnSet(f, T) + 1 * SumFunctionOnSet(g, T)
  BY SumLinear
<1>2. SumFunctionOnSet(g, T) \in Int
  BY SumInt
<1> QED BY <1>1, <1>2

\* A factor may be taken out of a sum.
LEMMA SumTimes ==
  ASSUME NEW T, IsFiniteSet(T), NEW c \in Int, NEW f, NEW h,
         \A x \in T : f[x] \in Int /\ h[x] = c * f[x]
  PROVE  SumFunctionOnSet(h, T) = c * SumFunctionOnSet(f, T)
<1>1. PICK zero : \A x \in T : zero[x] = 0
  <2> WITNESS [x \in T |-> 0]
  <2> QED OBVIOUS
<1>2. SumFunctionOnSet(h, T) = SumFunctionOnSet(zero, T) + c * SumFunctionOnSet(f, T)
  <2>1. \A x \in T : zero[x] \in Int /\ f[x] \in Int /\ h[x] = zero[x] + c * f[x]
    BY <1>1
  <2> QED BY <2>1, SumLinear
<1>3. SumFunctionOnSet(zero, T) = 0 /\ SumFunctionOnSet(f, T) \in Int
  BY <1>1, SumInt, SumZero
<1> QED BY <1>2, <1>3

\* A sum of numbers none of which is negative.
LEMMA SumNonneg ==
  ASSUME NEW T, IsFiniteSet(T), NEW f, \A x \in T : f[x] \in Int /\ f[x] >= 0
  PROVE  SumFunctionOnSet(f, T) \in Int /\ SumFunctionOnSet(f, T) >= 0
<1> DEFINE Good == {U \in SUBSET T : SumFunctionOnSet(f, U) >= 0}
<1>1. {} \in Good
  BY SumEmpty
<1>2. ASSUME NEW U \in SUBSET T, U # {}, \A x \in U : U \ {x} \in Good
      PROVE  U \in Good
  <2>1. PICK x \in U : TRUE
    BY <1>2
  <2>2. /\ SumFunctionOnSet(f, U) = f[x] + SumFunctionOnSet(f, U \ {x})
        /\ SumFunctionOnSet(f, U \ {x}) \in Int /\ f[x] \in Int
    BY <2>1, SumLess
  <2>3. SumFunctionOnSet(f, U \ {x}) >= 0 /\ f[x] >= 0
    BY <1>2, <2>1
  <2>4. SumFunctionOnSet(f, U) >= 0
    BY <2>2, <2>3
  <2> QED BY <2>4
<1> HIDE DEF Good
<1>3. T \in Good
  BY <1>1, <1>2, SetInduction
<1> QED BY <1>3, SumInt DEF Good

\* A sum with one term.
LEMMA SumOne ==
  ASSUME NEW T, IsFiniteSet(T), NEW f, NEW e \in T, f[e] \in Int, \A x \in T : x # e => f[x] = 0
  PROVE  SumFunctionOnSet(f, T) = f[e]
<1>1. SumFunctionOnSet(f, T) = f[e] + SumFunctionOnSet(f, T \ {e})
  BY SumRemove
<1>2. IsFiniteSet(T \ {e})
  BY FS_RemoveElement
<1>3. SumFunctionOnSet(f, T \ {e}) = 0
  BY <1>2, SumZero
<1> QED BY <1>1, <1>3

\* Terms that are zero may be left out.
LEMMA SumWithout ==
  ASSUME NEW T, IsFiniteSet(T), NEW U \in SUBSET T, NEW f, \A x \in U : f[x] \in Int, \A x \in T \ U : f[x] = 0
  PROVE  SumFunctionOnSet(f, T) = SumFunctionOnSet(f, U)
<1> DEFINE D == T \ U
           Good == {E \in SUBSET D : SumFunctionOnSet(f, U \cup E) = SumFunctionOnSet(f, U)}
<1>1. {} \in Good
  <2>1. U \cup {} = U
    OBVIOUS
  <2> QED BY <2>1
<1>2. ASSUME NEW E \in SUBSET D, E # {}, \A x \in E : E \ {x} \in Good
      PROVE  E \in Good
  <2>1. PICK x \in E : TRUE
    BY <1>2
  <2>2. x \in U \cup E /\ U \cup E \in SUBSET T /\ (U \cup E) \ {x} = U \cup (E \ {x}) /\ f[x] = 0
    BY <2>1
  <2>3. /\ SumFunctionOnSet(f, U \cup E) = f[x] + SumFunctionOnSet(f, (U \cup E) \ {x})
        /\ SumFunctionOnSet(f, (U \cup E) \ {x}) \in Int
    <3>1. \A y \in T : f[y] \in Int
      OBVIOUS
    <3> QED BY <2>2, <3>1, SumLess
  <2>4. SumFunctionOnSet(f, (U \cup E) \ {x}) = SumFunctionOnSet(f, U)
    BY <1>2, <2>1, <2>2
  <2>5. SumFunctionOnSet(f, U \cup E) = SumFunctionOnSet(f, U)
    BY <2>2, <2>3, <2>4
  <2> QED BY <2>5
<1>3. IsFiniteSet(D)
  BY FS_Difference
<1> HIDE DEF Good
<1>4. D \in Good
  BY <1>1, <1>2, <1>3, SetInduction
<1>5. U \cup D = T
  OBVIOUS
<1> QED BY <1>4, <1>5 DEF Good

\* Terms may be added up by groups: those that at puts at n, for all n.
LEMMA SumByGroups ==
  ASSUME NEW T, IsFiniteSet(T), NEW N, IsFiniteSet(N), NEW f, \A x \in T : f[x] \in Int,
         NEW at, \A x \in T : at[x] \in N,
         NEW h, \A n \in N : h[n] = SumFunctionOnSet(f, {x \in T : at[x] = n})
  PROVE  SumFunctionOnSet(h, N) = SumFunctionOnSet(f, T)
<1> DEFINE Groups(U) == [n \in N |-> SumFunctionOnSet(f, {x \in U : at[x] = n})]
           Good == {U \in SUBSET T : SumFunctionOnSet(Groups(U), N) = SumFunctionOnSet(f, U)}
<1>1. {} \in Good
  <2>1. \A n \in N : Groups({})[n] = 0
    <3> SUFFICES ASSUME NEW n \in N PROVE Groups({})[n] = 0
      OBVIOUS
    <3>1. {x \in {} : at[x] = n} = {}
      OBVIOUS
    <3> QED BY <3>1, SumEmpty
  <2>2. SumFunctionOnSet(Groups({}), N) = 0
    <3> HIDE DEF Groups
    <3> QED BY <2>1, SumZero
  <2>3. SumFunctionOnSet(f, {}) = 0
    BY SumEmpty
  <2> QED BY <2>2, <2>3
<1>2. ASSUME NEW U \in SUBSET T, U # {}, \A x \in U : U \ {x} \in Good
      PROVE  U \in Good
  <2>1. PICK x \in U : TRUE
    BY <1>2
  <2> DEFINE V == U \ {x}
             one == [n \in N |-> IF n = at[x] THEN f[x] ELSE 0]
  <2>2. f[x] \in Int /\ at[x] \in N
    BY <2>1
  <2>3. ASSUME NEW n \in N
        PROVE  Groups(V)[n] \in Int /\ one[n] \in Int /\ Groups(U)[n] = Groups(V)[n] + one[n]
    <3> DEFINE A == {y \in U : at[y] = n}
               B == {y \in V : at[y] = n}
    <3>1. A \in SUBSET T /\ B \in SUBSET T
      OBVIOUS
    <3>2. Groups(U)[n] = SumFunctionOnSet(f, A) /\ Groups(V)[n] = SumFunctionOnSet(f, B)
      OBVIOUS
    <3>3. SumFunctionOnSet(f, B) \in Int
      <4> HIDE DEF A, B
      <4> QED BY <3>1, SumLess
    <3>4. CASE n = at[x]
      <4>1. x \in A /\ A \ {x} = B
        BY <2>1, <3>4
      <4>2. one[n] = f[x]
        BY <3>4
      <4>3. SumFunctionOnSet(f, A) = f[x] + SumFunctionOnSet(f, B)
        <5> HIDE DEF A, B
        <5> QED BY <3>1, <4>1, SumLess
      <4> HIDE DEF A, B, Groups, one
      <4> QED BY <2>2, <3>2, <3>3, <4>2, <4>3
    <3>5. CASE n # at[x]
      <4>1. A = B
        BY <3>5
      <4>2. one[n] = 0
        BY <3>5
      <4> HIDE DEF A, B, Groups, one
      <4> QED BY <3>2, <3>3, <4>1, <4>2
    <3> QED BY <3>4, <3>5
  <2>4. SumFunctionOnSet(one, N) = f[x]
    <3>1. one[at[x]] = f[x] /\ \A n \in N : n # at[x] => one[n] = 0
      BY <2>2
    <3> HIDE DEF one
    <3> QED BY <2>2, <3>1, SumOne
  <2>5. SumFunctionOnSet(Groups(U), N) = SumFunctionOnSet(Groups(V), N) + SumFunctionOnSet(one, N)
    <3> HIDE DEF Groups, V, one
    <3> QED BY <2>3, SumPlus
  <2>6. SumFunctionOnSet(Groups(V), N) = SumFunctionOnSet(f, V)
    BY <1>2, <2>1
  <2>7. SumFunctionOnSet(f, U) = f[x] + SumFunctionOnSet(f, V) /\ SumFunctionOnSet(f, V) \in Int
    BY <2>1, SumLess
  <2>8. SumFunctionOnSet(Groups(U), N) = SumFunctionOnSet(f, U)
    <3> HIDE DEF Groups, V, one
    <3> QED BY <2>2, <2>4, <2>5, <2>6, <2>7
  <2> QED BY <2>8
<1>3. SumFunctionOnSet(Groups(T), N) = SumFunctionOnSet(f, T)
  <2>1. T \in Good
    <3> HIDE DEF Good
    <3> QED BY <1>1, <1>2, SetInduction
  <2> QED BY <2>1
<1>4. SumFunctionOnSet(h, N) = SumFunctionOnSet(Groups(T), N)
  <2>1. \A n \in N : h[n] = Groups(T)[n]
    OBVIOUS
  <2> HIDE DEF Groups
  <2> QED BY <2>1, SumSame
<1> QED BY <1>3, <1>4

GroupOf(T, at, n) == {x \in T : at[x] = n}

\* The same with a name for the groups.
LEMMA SumOfGroups ==
  ASSUME NEW T, IsFiniteSet(T), NEW N, IsFiniteSet(N), NEW f, \A x \in T : f[x] \in Int,
         NEW at, \A x \in T : at[x] \in N,
         NEW h, \A n \in N : h[n] = SumFunctionOnSet(f, GroupOf(T, at, n))
  PROVE  SumFunctionOnSet(h, N) = SumFunctionOnSet(f, T)
<1>1. \A n \in N : h[n] = SumFunctionOnSet(f, {x \in T : at[x] = n})
  BY DEF GroupOf
<1> QED BY <1>1, SumByGroups

\* A table of numbers with its rows f and its columns t.
IsTable(f, t, A, B) == \A x \in A : \A y \in B : f[x][y] \in Int /\ t[y][x] = f[x][y]
SumsOf(f, A, B, g) == \A x \in A : g[x] = SumFunctionOnSet(f[x], B)

\* The order of two sums does not matter.
LEMMA SumTransposed ==
  ASSUME NEW A, IsFiniteSet(A), NEW B, IsFiniteSet(B), NEW f, NEW t, IsTable(f, t, A, B),
         NEW g, SumsOf(f, A, B, g), NEW h, SumsOf(t, B, A, h)
  PROVE  SumFunctionOnSet(g, A) = SumFunctionOnSet(h, B)
<1> SUFFICES ASSUME \A x \in A : \A y \in B : f[x][y] \in Int, \A x \in A : \A y \in B : t[y][x] = f[x][y],
                    \A x \in A : g[x] = SumFunctionOnSet(f[x], B), \A y \in B : h[y] = SumFunctionOnSet(t[y], A)
             PROVE  SumFunctionOnSet(g, A) = SumFunctionOnSet(h, B)
  BY DEF IsTable, SumsOf
<1> DEFINE Cols(U) == [b \in B |-> SumFunctionOnSet(t[b], U)]
           Good == {U \in SUBSET A : SumFunctionOnSet(g, U) = SumFunctionOnSet(Cols(U), B)}
<1>0. \A a \in A : g[a] \in Int
  <2> SUFFICES ASSUME NEW a \in A PROVE g[a] \in Int
    OBVIOUS
  <2>1. \A y \in B : f[a][y] \in Int
    OBVIOUS
  <2>2. SumFunctionOnSet(f[a], B) \in Int
    BY <2>1, SumInt
  <2> QED BY <2>2
<1>1. {} \in Good
  <2>1. \A b \in B : Cols({})[b] = 0
    BY SumEmpty
  <2>2. SumFunctionOnSet(Cols({}), B) = 0
    <3> HIDE DEF Cols
    <3> QED BY <2>1, SumZero
  <2>3. SumFunctionOnSet(g, {}) = 0
    BY SumEmpty
  <2> QED BY <2>2, <2>3
<1>2. ASSUME NEW U \in SUBSET A, U # {}, \A x \in U : U \ {x} \in Good
      PROVE  U \in Good
  <2>1. PICK x \in U : TRUE
    BY <1>2
  <2> DEFINE V == U \ {x}
  <2>2. \A b \in B : f[x][b] \in Int /\ t[b][x] = f[x][b]
    BY <2>1
  <2>3. ASSUME NEW b \in B
        PROVE  Cols(V)[b] \in Int /\ f[x][b] \in Int /\ Cols(U)[b] = Cols(V)[b] + f[x][b]
    <3>1. \A a \in A : t[b][a] \in Int
      OBVIOUS
    <3>2. Cols(U)[b] = SumFunctionOnSet(t[b], U) /\ Cols(V)[b] = SumFunctionOnSet(t[b], V)
      OBVIOUS
    <3>3. SumFunctionOnSet(t[b], U) = t[b][x] + SumFunctionOnSet(t[b], V) /\ SumFunctionOnSet(t[b], V) \in Int
      BY <2>1, <3>1, SumLess
    <3> HIDE DEF Cols, V
    <3>4. PICK s \in Int, y \in Int : s = SumFunctionOnSet(t[b], V) /\ y = f[x][b]
      BY <2>2, <3>3
    <3>5. y + s = s + y
      OBVIOUS
    <3> QED BY <2>2, <3>2, <3>3, <3>4, <3>5
  <2>5. SumFunctionOnSet(Cols(U), B) = SumFunctionOnSet(Cols(V), B) + SumFunctionOnSet(f[x], B)
    <3> HIDE DEF Cols, V
    <3>1. PICK cu, cv, r : cu = Cols(U) /\ cv = Cols(V) /\ r = f[x]
      OBVIOUS
    <3>2. \A b \in B : cv[b] \in Int /\ r[b] \in Int /\ cu[b] = cv[b] + r[b]
      BY <2>3, <3>1
    <3>3. SumFunctionOnSet(cu, B) = SumFunctionOnSet(cv, B) + SumFunctionOnSet(r, B)
      BY <3>2, SumPlus
    <3> QED BY <3>1, <3>3
  <2>6. SumFunctionOnSet(Cols(V), B) = SumFunctionOnSet(g, V)
    BY <1>2, <2>1
  <2>7. SumFunctionOnSet(g, U) = g[x] + SumFunctionOnSet(g, V) /\ SumFunctionOnSet(g, V) \in Int /\ g[x] \in Int
    BY <1>0, <2>1, SumLess
  <2>8. g[x] = SumFunctionOnSet(f[x], B)
    BY <2>1
  <2>9. SumFunctionOnSet(g, U) = SumFunctionOnSet(Cols(U), B)
    <3> HIDE DEF Cols, V
    <3> QED BY <2>5, <2>6, <2>7, <2>8
  <2> QED BY <2>9
<1>3. SumFunctionOnSet(g, A) = SumFunctionOnSet(Cols(A), B)
  <2>1. A \in Good
    <3> HIDE DEF Good
    <3> QED BY <1>1, <1>2, SetInduction
  <2> QED BY <2>1
<1>4. SumFunctionOnSet(h, B) = SumFunctionOnSet(Cols(A), B)
  <2>1. \A b \in B : h[b] = Cols(A)[b]
    OBVIOUS
  <2> HIDE DEF Cols
  <2> QED BY <2>1, SumSame
<1> QED BY <1>3, <1>4

LEMMA ImageFinite ==
  ASSUME NEW S, IsFiniteSet(S), NEW f
  PROVE  IsFiniteSet({f[x] : x \in S})
<1> DEFINE T == {f[x] : x \in S}
           g == [x \in S |-> f[x]]
<1>1. g \in Surjection(S, T)
  BY DEF Surjection
<1> QED BY <1>1, FS_Surjection

-----------------------------------------------------------------------------
(* The common plane: what a plane adds to the forces. *)

\* What is known of a plane.
LEMMA PlaneFacts ==
  ASSUME NEW p \in Planes
  PROVE  /\ IsFiniteSet(DOMAIN p.face1) /\ p.on1 \in [DOMAIN p.face1 -> Nat]
         /\ IsFiniteSet(DOMAIN p.face2) /\ p.on2 \in [DOMAIN p.face2 -> Nat]
         /\ SumFunction(p.on1) = SumFunction(p.on2)
         /\ \A a \in DOMAIN p.face1 : p.face1[a] \in PlaneNodes
         /\ \A a \in DOMAIN p.face2 : p.face2[a] \in PlaneNodes
<1>1. /\ IsFiniteSet(DOMAIN p.face1) /\ p.on1 \in [DOMAIN p.face1 -> Nat]
      /\ IsFiniteSet(DOMAIN p.face2) /\ p.on2 \in [DOMAIN p.face2 -> Nat]
      /\ SumFunction(p.on1) = SumFunction(p.on2)
  BY PlaneAssumption DEF PlaneAssumption
<1>2. Range(p.face1) \cup Range(p.face2) \subseteq PlaneNodes
  BY DEF PlaneNodes
<1>3. (\A a \in DOMAIN p.face1 : p.face1[a] \in Range(p.face1)) /\ (\A a \in DOMAIN p.face2 : p.face2[a] \in Range(p.face2))
  BY DEF Range
<1> QED BY <1>1, <1>2, <1>3

\* Finitely many planes have finitely many nodes.
LEMMA NodesFinite == IsFiniteSet(PlaneNodes)
<1> DEFINE nodes == [p \in Planes |-> Range(p.face1) \cup Range(p.face2)]
           All == {nodes[p] : p \in Planes}
<1>1. IsFiniteSet(All)
  <2>1. IsFiniteSet(Planes)
    BY PlaneAssumption DEF PlaneAssumption
  <2> HIDE DEF nodes
  <2> QED BY <2>1, ImageFinite
<1>2. \A A \in All : IsFiniteSet(A)
  <2> SUFFICES ASSUME NEW p \in Planes PROVE IsFiniteSet(nodes[p])
    OBVIOUS
  <2>1. IsFiniteSet(Range(p.face1)) /\ IsFiniteSet(Range(p.face2))
    BY PlaneFacts, ImageFinite DEF Range
  <2> QED BY <2>1, FS_Union
<1>3. PlaneNodes = UNION All
  BY DEF PlaneNodes
<1> HIDE DEF All
<1> QED BY <1>1, <1>2, <1>3, FS_UNION

\* Adding one vector at some corners.
LEMMA ScaledSum ==
  ASSUME NEW D, IsFiniteSet(D), NEW phi, \A a \in D : phi[a] \in Int, NEW vec, \A d \in 1 .. 3 : vec[d] \in Int,
         NEW c \in Int, NEW d \in 1 .. 3
  PROVE  Sum3([a \in D |-> Scaled3(c * phi[a], vec)])[d] = c * SumFunctionOnSet(phi, D) * vec[d]
<1> DEFINE F == [a \in D |-> Scaled3(c * phi[a], vec)]
           g == [a \in DOMAIN F |-> F[a][d]]
<1>1. Sum3(F)[d] = SumFunctionOnSet(g, D) /\ DOMAIN g = D
  BY DEF Sum3, SumFunction
<1>2. \A a \in D : g[a] = (c * vec[d]) * phi[a]
  <2> SUFFICES ASSUME NEW a \in D PROVE g[a] = (c * vec[d]) * phi[a]
    OBVIOUS
  <2>1. g[a] = (c * phi[a]) * vec[d]
    BY DEF Scaled3
  <2>2. phi[a] \in Int /\ vec[d] \in Int
    OBVIOUS
  <2> HIDE DEF g
  <2> QED BY <2>1, <2>2
<1> HIDE DEF g, F
<1>3. c * vec[d] \in Int
  OBVIOUS
<1>4. SumFunctionOnSet(g, D) = (c * vec[d]) * SumFunctionOnSet(phi, D)
  BY <1>2, <1>3, SumTimes
<1>5. PICK s \in Int : s = SumFunctionOnSet(phi, D)
  BY SumInt
<1>6. (c * vec[d]) * s = c * s * vec[d]
  OBVIOUS
<1> QED BY <1>1, <1>4, <1>5, <1>6 DEF F

CornersOf(face, n) == GroupOf(DOMAIN face, face, n)

\* The shape functions of the corners of a face that are one node.
LEMMA CornersSum ==
  ASSUME NEW face, IsFiniteSet(DOMAIN face), NEW phi \in [DOMAIN face -> Nat], NEW n
  PROVE  /\ IsFiniteSet(CornersOf(face, n)) /\ CornersOf(face, n) \subseteq DOMAIN face
         /\ SumFunctionOnSet(phi, CornersOf(face, n)) \in Nat
<1>1. IsFiniteSet(CornersOf(face, n)) /\ CornersOf(face, n) \subseteq DOMAIN face
  BY FS_Subset DEF CornersOf, GroupOf
<1>2. \A a \in CornersOf(face, n) : phi[a] \in Int /\ phi[a] >= 0
  BY <1>1
<1>3. SumFunctionOnSet(phi, CornersOf(face, n)) \in Int /\ SumFunctionOnSet(phi, CornersOf(face, n)) >= 0
  BY <1>1, <1>2, SumNonneg
<1> QED BY <1>1, <1>3

\* The shape function of a node: that of face 2 less that of face 1.
LEMMA ShapeFacts ==
  ASSUME NEW p \in Planes, NEW n
  PROVE  /\ ShapeAt(p, n) \in Int
         /\ ShapeAt(p, n) = SumFunctionOnSet(p.on2, CornersOf(p.face2, n)) - SumFunctionOnSet(p.on1, CornersOf(p.face1, n))
         /\ SumFunctionOnSet(p.on2, CornersOf(p.face2, n)) \in Nat /\ SumFunctionOnSet(p.on1, CornersOf(p.face1, n)) \in Nat
<1>1. SumFunctionOnSet(p.on2, CornersOf(p.face2, n)) \in Nat /\ SumFunctionOnSet(p.on1, CornersOf(p.face1, n)) \in Nat
  BY PlaneFacts, CornersSum
<1>2. ShapeAt(p, n) = SumFunctionOnSet(p.on2, CornersOf(p.face2, n)) - SumFunctionOnSet(p.on1, CornersOf(p.face1, n))
  BY DEF ShapeAt, CornersOf, GroupOf
<1> QED BY <1>1, <1>2

\* The force on each node grows by its shape functions times the vector.
LEMMA ForceAdded ==
  ASSUME NEW p \in Planes, NEW f, NEW vec, \A d \in 1 .. 3 : vec[d] \in Int, NEW n \in PlaneNodes
  PROVE  \A d \in 1 .. 3 : f[n][d] \in Int => WithForces(f, p, vec)[n][d] = f[n][d] + ShapeAt(p, n) * vec[d]
<1> SUFFICES ASSUME NEW d \in 1 .. 3, f[n][d] \in Int
             PROVE  WithForces(f, p, vec)[n][d] = f[n][d] + ShapeAt(p, n) * vec[d]
  OBVIOUS
<1> DEFINE A1 == Sum3([a \in CornersOf(p.face1, n) |-> Scaled3(-p.on1[a], vec)])
           A2 == Sum3([a \in CornersOf(p.face2, n) |-> Scaled3(p.on2[a], vec)])
<1>1. WithForces(f, p, vec)[n] = Plus3(f[n], Plus3(A1, A2))
  BY DEF WithForces, CornersOf, GroupOf
<1>2. \A a \in CornersOf(p.face1, n) : p.on1[a] \in Int /\ -p.on1[a] = (-1) * p.on1[a]
  BY PlaneFacts DEF CornersOf, GroupOf
<1>3. \A a \in CornersOf(p.face2, n) : p.on2[a] \in Int /\ p.on2[a] = 1 * p.on2[a]
  BY PlaneFacts DEF CornersOf, GroupOf
<1>4. A1 = Sum3([a \in CornersOf(p.face1, n) |-> Scaled3((-1) * p.on1[a], vec)])
  <2>1. [a \in CornersOf(p.face1, n) |-> Scaled3(-p.on1[a], vec)] = [a \in CornersOf(p.face1, n) |-> Scaled3((-1) * p.on1[a], vec)]
    BY <1>2
  <2> QED BY <2>1
<1>5. A2 = Sum3([a \in CornersOf(p.face2, n) |-> Scaled3(1 * p.on2[a], vec)])
  <2>1. [a \in CornersOf(p.face2, n) |-> Scaled3(p.on2[a], vec)] = [a \in CornersOf(p.face2, n) |-> Scaled3(1 * p.on2[a], vec)]
    BY <1>3
  <2> QED BY <2>1
<1>6. IsFiniteSet(CornersOf(p.face1, n)) /\ IsFiniteSet(CornersOf(p.face2, n))
  BY PlaneFacts, CornersSum
<1> HIDE DEF A1, A2
<1>7. PICK s1 \in Nat, s2 \in Nat :
        s1 = SumFunctionOnSet(p.on1, CornersOf(p.face1, n)) /\ s2 = SumFunctionOnSet(p.on2, CornersOf(p.face2, n))
  BY ShapeFacts
<1>8. A1[d] = (-1) * s1 * vec[d]
  BY <1>2, <1>4, <1>6, <1>7, ScaledSum
<1>9. A2[d] = 1 * s2 * vec[d]
  BY <1>3, <1>5, <1>6, <1>7, ScaledSum
<1>10. ShapeAt(p, n) = s2 - s1
  BY <1>7, ShapeFacts
<1>11. WithForces(f, p, vec)[n][d] = f[n][d] + (A1[d] + A2[d])
  BY <1>1 DEF Plus3
<1>12. PICK v \in Int : v = vec[d]
  OBVIOUS
<1>13. (-1) * s1 * v + 1 * s2 * v = (s2 - s1) * v
  OBVIOUS
<1> QED BY <1>8, <1>9, <1>10, <1>11, <1>12, <1>13

\* The shape functions of a face, times values at its nodes, by corners and by nodes.
LEMMA ByNodes ==
  ASSUME NEW face, IsFiniteSet(DOMAIN face), NEW phi \in [DOMAIN face -> Nat],
         \A a \in DOMAIN face : face[a] \in PlaneNodes, NEW val, \A n \in PlaneNodes : val[n] \in Int
  PROVE  SumFunctionOnSet([n \in PlaneNodes |-> SumFunctionOnSet(phi, CornersOf(face, n)) * val[n]], PlaneNodes)
           = SumFunctionOnSet([a \in DOMAIN face |-> phi[a] * val[face[a]]], DOMAIN face)
<1> DEFINE T == DOMAIN face
           f == [a \in T |-> phi[a] * val[face[a]]]
           h == [n \in PlaneNodes |-> SumFunctionOnSet(phi, CornersOf(face, n)) * val[n]]
<1>1. \A a \in T : f[a] \in Int
  BY SMT
<1>2. \A n \in PlaneNodes : h[n] = SumFunctionOnSet(f, GroupOf(T, face, n))
  <2> SUFFICES ASSUME NEW n \in PlaneNodes PROVE h[n] = SumFunctionOnSet(f, CornersOf(face, n))
    BY DEF CornersOf, GroupOf
  <2>1. \A a \in CornersOf(face, n) : phi[a] \in Int /\ f[a] = val[n] * phi[a]
    BY DEF CornersOf, GroupOf
  <2>2. IsFiniteSet(CornersOf(face, n)) /\ SumFunctionOnSet(phi, CornersOf(face, n)) \in Nat
    BY CornersSum
  <2>3. h[n] = SumFunctionOnSet(phi, CornersOf(face, n)) * val[n]
    OBVIOUS
  <2> HIDE DEF f, h, T
  <2>4. SumFunctionOnSet(f, CornersOf(face, n)) = val[n] * SumFunctionOnSet(phi, CornersOf(face, n))
    BY <2>1, <2>2, SumTimes
  <2> QED BY <2>2, <2>3, <2>4
<1>3. \A a \in T : face[a] \in PlaneNodes
  OBVIOUS
<1> HIDE DEF f, h
<1>4. SumFunctionOnSet(h, PlaneNodes) = SumFunctionOnSet(f, T)
  <2>1. IsFiniteSet(T)
    OBVIOUS
  <2> HIDE DEF T
  <2> QED BY <1>1, <1>2, <1>3, <2>1, NodesFinite, SumOfGroups
<1> QED BY <1>4 DEF f, h

\* The shape functions of both faces, times values at the nodes: those at face 2 less those at face 1.
AtFace(val, face, on) == SumFunctionOnSet([a \in DOMAIN face |-> on[a] * val[face[a]]], DOMAIN face)

\* Of all nodes it is what the corners of face 2 give less what those of face 1 do.
LEMMA ShapesAtNodes ==
  ASSUME NEW p \in Planes, NEW val, \A n \in PlaneNodes : val[n] \in Int
  PROVE  /\ AtFace(val, p.face1, p.on1) \in Int /\ AtFace(val, p.face2, p.on2) \in Int
         /\ SumFunctionOnSet([n \in PlaneNodes |-> ShapeAt(p, n) * val[n]], PlaneNodes)
              = AtFace(val, p.face2, p.on2) - AtFace(val, p.face1, p.on1)
<1> DEFINE h1 == [n \in PlaneNodes |-> SumFunctionOnSet(p.on1, CornersOf(p.face1, n)) * val[n]]
           h2 == [n \in PlaneNodes |-> SumFunctionOnSet(p.on2, CornersOf(p.face2, n)) * val[n]]
           h == [n \in PlaneNodes |-> ShapeAt(p, n) * val[n]]
<1>1. \A n \in PlaneNodes : h2[n] \in Int /\ h1[n] \in Int /\ h[n] = h2[n] + (-1) * h1[n]
  <2> SUFFICES ASSUME NEW n \in PlaneNodes PROVE h2[n] \in Int /\ h1[n] \in Int /\ h[n] = h2[n] + (-1) * h1[n]
    OBVIOUS
  <2>1. PICK s1 \in Nat, s2 \in Nat :
          s1 = SumFunctionOnSet(p.on1, CornersOf(p.face1, n)) /\ s2 = SumFunctionOnSet(p.on2, CornersOf(p.face2, n))
    BY ShapeFacts
  <2>2. ShapeAt(p, n) = s2 - s1
    BY <2>1, ShapeFacts
  <2>3. h1[n] = s1 * val[n] /\ h2[n] = s2 * val[n] /\ h[n] = (s2 - s1) * val[n]
    BY <2>1, <2>2
  <2> HIDE DEF h1, h2, h
  <2> QED BY <2>3
<1> HIDE DEF h1, h2, h
<1>2. SumFunctionOnSet(h, PlaneNodes) = SumFunctionOnSet(h2, PlaneNodes) + (-1) * SumFunctionOnSet(h1, PlaneNodes)
  BY <1>1, NodesFinite, SumLinear
<1>3. SumFunctionOnSet(h1, PlaneNodes) \in Int /\ SumFunctionOnSet(h2, PlaneNodes) \in Int
  BY <1>1, NodesFinite, SumInt
<1>4. SumFunctionOnSet(h1, PlaneNodes) = AtFace(val, p.face1, p.on1)
  BY PlaneFacts, ByNodes DEF AtFace, h1
<1>5. SumFunctionOnSet(h2, PlaneNodes) = AtFace(val, p.face2, p.on2)
  BY PlaneFacts, ByNodes DEF AtFace, h2
<1>6. SumFunctionOnSet(h, PlaneNodes) = AtFace(val, p.face2, p.on2) - AtFace(val, p.face1, p.on1)
  BY <1>2, <1>3, <1>4, <1>5
<1> QED BY <1>3, <1>4, <1>5, <1>6 DEF h

\* A plane adds nothing to the sum of the forces: the shape functions of either face add up to the same.
LEMMA ShapesCancel ==
  ASSUME NEW p \in Planes
  PROVE  SumFunctionOnSet([n \in PlaneNodes |-> ShapeAt(p, n)], PlaneNodes) = 0
<1> DEFINE one == [n \in PlaneNodes |-> 1]
           h == [n \in PlaneNodes |-> ShapeAt(p, n)]
<1>1. \A n \in PlaneNodes : one[n] = 1
  OBVIOUS
<1> HIDE DEF one
<1>2. \A n \in PlaneNodes : h[n] = [m \in PlaneNodes |-> ShapeAt(p, m) * one[m]][n]
  BY <1>1, ShapeFacts
<1>3. AtFace(one, p.face1, p.on1) = SumFunction(p.on1)
  <2>1. \A a \in DOMAIN p.face1 : [b \in DOMAIN p.face1 |-> p.on1[b] * one[p.face1[b]]][a] = p.on1[a]
    BY <1>1, PlaneFacts
  <2> QED BY <2>1, PlaneFacts, SumSame DEF AtFace, SumFunction
<1>4. AtFace(one, p.face2, p.on2) = SumFunction(p.on2)
  <2>1. \A a \in DOMAIN p.face2 : [b \in DOMAIN p.face2 |-> p.on2[b] * one[p.face2[b]]][a] = p.on2[a]
    BY <1>1, PlaneFacts
  <2> QED BY <2>1, PlaneFacts, SumSame DEF AtFace, SumFunction
<1> DEFINE g == [m \in PlaneNodes |-> ShapeAt(p, m) * one[m]]
<1>5. \A n \in PlaneNodes : one[n] \in Int
  BY <1>1
<1>6. SumFunctionOnSet(g, PlaneNodes) = AtFace(one, p.face2, p.on2) - AtFace(one, p.face1, p.on1)
      /\ AtFace(one, p.face1, p.on1) \in Int
  BY <1>5, ShapesAtNodes
<1>7. SumFunctionOnSet(h, PlaneNodes) = SumFunctionOnSet(g, PlaneNodes)
  <2>1. \A n \in PlaneNodes : h[n] = g[n]
    BY <1>2
  <2> HIDE DEF h, g
  <2> QED BY <2>1, NodesFinite, SumSame
<1>8. SumFunction(p.on1) = SumFunction(p.on2)
  BY PlaneFacts
<1> HIDE DEF h, g
<1>9. SumFunctionOnSet(h, PlaneNodes) = 0
  BY <1>3, <1>4, <1>6, <1>7, <1>8
<1> QED BY <1>9 DEF h

\* The input of an update.
InputsFine ==
  /\ scheme \in Schemes /\ gapOf \in Gaps /\ velocity \in Motions /\ thickness \in Thicknesses
  /\ scheme.kinematic = "element" => \A e \in DOMAIN thickness : thickness[e] > 0

\* How a quotient of numbers is bounded.
LEMMA QuotientBounds ==
  ASSUME NEW a \in Int, NEW b \in Nat \ {0}
  PROVE  a \div b \in Int /\ (a >= 0 => a \div b >= 0) /\ (a >= b => a \div b >= 1)
OBVIOUS

\* What is known of the options, the gaps and the velocities.
LEMMA SchemeFacts ==
  ASSUME InputsFine
  PROVE  /\ scheme.tied \in BOOLEAN /\ scheme.kinematic \in {"constant", "element"}
         /\ scheme.rate \in {"none", "constant", "percent"} /\ scheme.residualGap \in Int
         /\ \A p \in Planes : gapOf[p] \in Int /\ p.area \in Nat /\ \A d \in 1 .. 3 : Normal[p][d] \in Int
         /\ \A n \in PlaneNodes : \A d \in 1 .. 3 : velocity[n][d] \in Int
<1>1. scheme \in [tied : BOOLEAN, kinematic : {"constant", "element"}, rate : {"none", "constant", "percent"},
                  viscous : BOOLEAN, vote : BOOLEAN, residualGap : Int]
  BY PlaneAssumption DEF PlaneAssumption, InputsFine
<1>2. \A p \in Planes : gapOf[p] \in Int
  BY PlaneAssumption DEF PlaneAssumption, InputsFine
<1>3. \A n \in PlaneNodes : \A d \in 1 .. 3 : velocity[n][d] \in Int
  BY PlaneAssumption DEF PlaneAssumption, InputsFine
<1>4. \A p \in Planes : p.area \in Nat /\ \A d \in 1 .. 3 : Normal[p][d] \in Int
  BY PlaneAssumption DEF PlaneAssumption
<1> QED BY <1>1, <1>2, <1>3, <1>4

\* What is known of an element.
LEMMA SideFacts ==
  ASSUME InputsFine, NEW p \in Planes, NEW e \in {p.side1, p.side2}
  PROVE  /\ FaceRadius[e] \in Nat /\ RatePenalty[e] \in Nat /\ RatePercent[e] \in Nat /\ ViscousCoeff[e] \in Nat
         /\ PenaltyStiffness[e] \in Nat \ {0} /\ MatMod[e] \in Nat
         /\ thickness[e] \in Int /\ thickness[e] <= MatMod[e]
         /\ scheme.kinematic = "element" => thickness[e] > 0
<1>1. e \in Sides
  BY DEF Sides
<1>2. thickness \in Thicknesses
  BY DEF InputsFine
<1>3. /\ {FaceRadius[e], RatePenalty[e], RatePercent[e], ViscousCoeff[e]} \subseteq Nat
      /\ PenaltyStiffness[e] \in Nat \ {0} /\ MatMod[e] \in Nat
      /\ e \in DOMAIN thickness /\ thickness[e] \in Int /\ thickness[e] <= MatMod[e]
  BY <1>1, <1>2, PlaneAssumption DEF PlaneAssumption
<1> QED BY <1>3 DEF InputsFine

\* A stiffness is not negative: neither spring is zero.
LEMMA SpringFacts ==
  ASSUME InputsFine, NEW p \in Planes
  PROVE  Stiffness(p) \in Nat
<1> DEFINE spring(side) == PenaltyScale * (IF scheme.kinematic = "constant" THEN PenaltyStiffness[side]
                                                                              ELSE MatMod[side] \div thickness[side])
<1>1. PenaltyScale \in Nat \ {0}
  BY PlaneAssumption DEF PlaneAssumption
<1>2. ASSUME NEW e \in {p.side1, p.side2}
      PROVE  spring(e) \in Nat \ {0}
  <2>1. CASE scheme.kinematic = "constant"
    <3>1. spring(e) = PenaltyScale * PenaltyStiffness[e] /\ PenaltyStiffness[e] \in Nat \ {0}
      BY <2>1, SideFacts
    <3> HIDE DEF spring
    <3> QED BY <1>1, <3>1
  <2>2. CASE scheme.kinematic # "constant"
    <3>1. thickness[e] \in Int /\ thickness[e] > 0 /\ MatMod[e] \in Nat /\ MatMod[e] >= thickness[e]
      BY <2>2, SchemeFacts, SideFacts
    <3>2. PICK q \in Int : q = MatMod[e] \div thickness[e] /\ q >= 1
      BY <3>1, QuotientBounds
    <3>3. spring(e) = PenaltyScale * q
      BY <2>2, <3>2
    <3> HIDE DEF spring
    <3> QED BY <1>1, <3>2, <3>3
  <2> QED BY <2>1, <2>2
<1>3. Stiffness(p) = ComputePenaltyStiffnessPerArea(spring(p.side1), spring(p.side2))
  BY DEF Stiffness
<1>4. spring(p.side1) \in Nat \ {0} /\ spring(p.side2) \in Nat \ {0}
  BY <1>2
<1> HIDE DEF spring
<1>5. PICK k1 \in Nat \ {0}, k2 \in Nat \ {0} : k1 = spring(p.side1) /\ k2 = spring(p.side2)
  BY <1>4
<1>6. Stiffness(p) = (k1 * k2) \div (k1 + k2)
  BY <1>3, <1>5 DEF ComputePenaltyStiffnessPerArea
<1>7. k1 * k2 \in Nat /\ k1 + k2 \in Nat \ {0}
  BY <1>5
<1> QED BY <1>6, <1>7, QuotientBounds

\* Nor is the stiffness against a rate.
LEMMA RateFacts ==
  ASSUME InputsFine, NEW p \in Planes
  PROVE  RateStiffness(p) \in Nat
<1>1. PICK k \in Nat : k = Stiffness(p)
  BY SpringFacts
<1>2. RatePenalty[p.side1] \in Nat /\ RatePenalty[p.side2] \in Nat
  BY SideFacts
<1>3. PICK r1 \in Nat, r2 \in Nat : r1 = RatePercent[p.side1] /\ r2 = RatePercent[p.side2]
  BY SideFacts
<1>4. k * (r1 + r2) \in Nat
  OBVIOUS
<1>5. (RatePenalty[p.side1] + RatePenalty[p.side2]) \div 2 \in Nat
  BY <1>2
<1>6. (k * (r1 + r2)) \div 2 \in Nat
  BY <1>4
<1>7. (Stiffness(p) * (RatePercent[p.side1] + RatePercent[p.side2])) \div 2 \in Nat
  BY <1>1, <1>3, <1>6
<1> QED BY <1>5, <1>7, SchemeFacts DEF RateStiffness

\* The velocity of a face at the overlap centroid is that of its nodes, by their shape functions.
LEMMA VelocityFacts ==
  ASSUME InputsFine, NEW p \in Planes, NEW d \in 1 .. 3
  PROVE  /\ VelocityOn(p.face1, p.on1)[d] = AtFace([n \in PlaneNodes |-> velocity[n][d]], p.face1, p.on1)
         /\ VelocityOn(p.face2, p.on2)[d] = AtFace([n \in PlaneNodes |-> velocity[n][d]], p.face2, p.on2)
         /\ VelocityGap(p)[d] = VelocityOn(p.face1, p.on1)[d] - VelocityOn(p.face2, p.on2)[d]
         /\ VelocityOn(p.face1, p.on1)[d] \in Int /\ VelocityOn(p.face2, p.on2)[d] \in Int
         /\ VelocityGap(p)[d] \in Int
<1> DEFINE val == [n \in PlaneNodes |-> velocity[n][d]]
<1>1. ASSUME NEW face, IsFiniteSet(DOMAIN face), NEW phi, \A a \in DOMAIN face : face[a] \in PlaneNodes
      PROVE  VelocityOn(face, phi)[d] = AtFace(val, face, phi)
  <2> DEFINE F == [a \in DOMAIN face |-> Scaled3(phi[a], velocity[face[a]])]
             g == [a \in DOMAIN F |-> F[a][d]]
             h == [a \in DOMAIN face |-> phi[a] * val[face[a]]]
  <2>1. VelocityOn(face, phi)[d] = SumFunctionOnSet(g, DOMAIN face)
    BY DEF VelocityOn, GalerkinEval, Sum3, SumFunction
  <2>2. \A a \in DOMAIN face : g[a] = h[a]
    BY <1>1 DEF Scaled3
  <2>3. AtFace(val, face, phi) = SumFunctionOnSet(h, DOMAIN face)
    BY DEF AtFace
  <2> HIDE DEF g, h
  <2> QED BY <1>1, <2>1, <2>2, <2>3, SumSame
<1>2. \A n \in PlaneNodes : val[n] \in Int
  BY SchemeFacts
<1> HIDE DEF val
<1>3. AtFace(val, p.face1, p.on1) \in Int /\ AtFace(val, p.face2, p.on2) \in Int
  BY <1>2, ShapesAtNodes
<1>4. VelocityOn(p.face1, p.on1)[d] = AtFace(val, p.face1, p.on1) /\ VelocityOn(p.face2, p.on2)[d] = AtFace(val, p.face2, p.on2)
  BY <1>1, PlaneFacts
<1>5. VelocityGap(p)[d] = VelocityOn(p.face1, p.on1)[d] - VelocityOn(p.face2, p.on2)[d]
  BY DEF VelocityGap, Apart
<1> QED BY <1>3, <1>4, <1>5 DEF val

\* The vectors the two loops add.
ClosingSpeed(p) == dotProd(VelocityGap(p), Normal[p])
RateOf(p) == IF scheme.rate = "none" THEN 0 ELSE ComputeGapRatePressure(p, ClosingSpeed(p))
NormalVector(p) == Scaled3((kinematicPressure(p) + RateOf(p)) * p.area, Normal[p])
ViscosityOf(p) == (ViscousCoeff[p.side1] + ViscousCoeff[p.side2]) \div 2
TangentialVector(p) == Scaled3(ViscosityOf(p), Tangential(p))

\* A rate adds a pressure to what is closing and nothing else; the tangential vector is what is left of the gap
\* velocity.
LEMMA PressureFacts ==
  ASSUME InputsFine, NEW p \in Planes
  PROVE  /\ kinematicPressure(p) \in Int /\ ClosingSpeed(p) \in Int /\ RateOf(p) \in Int /\ ViscosityOf(p) \in Nat
         /\ RateOf(p) <= 0 /\ RateOf(p) * ClosingSpeed(p) >= 0
         /\ \A d \in 1 .. 3 : NormalVector(p)[d] = (kinematicPressure(p) + RateOf(p)) * p.area * Normal[p][d]
         /\ \A d \in 1 .. 3 : TangentialVector(p)[d] = ViscosityOf(p) * Tangential(p)[d]
         /\ \A d \in 1 .. 3 : Tangential(p)[d] = VelocityGap(p)[d] - ClosingSpeed(p) * Normal[p][d]
         /\ \A d \in 1 .. 3 : NormalVector(p)[d] \in Int /\ TangentialVector(p)[d] \in Int /\ Tangential(p)[d] \in Int
<1>1. kinematicPressure(p) \in Int
  <2>1. Stiffness(p) \in Nat /\ gapOf[p] \in Int /\ scheme.residualGap \in Int
    BY SchemeFacts, SpringFacts
  <2> QED BY <2>1 DEF kinematicPressure
<1>2. ClosingSpeed(p) \in Int
  <2>1. \A d \in 1 .. 3 : VelocityGap(p)[d] \in Int /\ Normal[p][d] \in Int
    BY SchemeFacts, VelocityFacts
  <2>2. VelocityGap(p)[1] \in Int /\ VelocityGap(p)[2] \in Int /\ VelocityGap(p)[3] \in Int
    BY <2>1
  <2>3. Normal[p][1] \in Int /\ Normal[p][2] \in Int /\ Normal[p][3] \in Int
    BY <2>1
  <2> QED BY <2>2, <2>3 DEF ClosingSpeed, dotProd
<1>3. RateOf(p) \in Int /\ RateOf(p) <= 0 /\ RateOf(p) * ClosingSpeed(p) >= 0
  <2>1. PICK r \in Nat, v \in Int : r = RateStiffness(p) /\ v = ClosingSpeed(p)
    BY <1>2, RateFacts
  <2>2. CASE scheme.rate # "none" /\ v <= 0
    <3>1. RateOf(p) = v * r
      BY <2>1, <2>2 DEF RateOf, ComputeGapRatePressure
    <3>2. v * r \in Int /\ v * r <= 0 /\ v * v >= 0
      BY <2>2
    <3>3. v * r * v = r * (v * v) /\ r * (v * v) >= 0
      <4>1. PICK w \in Nat : w = v * v
        BY <3>2
      <4> QED BY <4>1
    <3> QED BY <2>1, <3>1, <3>2, <3>3
  <2>3. CASE ~(scheme.rate # "none" /\ v <= 0)
    <3>1. RateOf(p) = 0
      BY <2>1, <2>3 DEF RateOf, ComputeGapRatePressure
    <3> QED BY <2>1, <3>1
  <2> QED BY <2>2, <2>3
<1>4. ViscosityOf(p) \in Nat
  <2>1. ViscousCoeff[p.side1] \in Nat /\ ViscousCoeff[p.side2] \in Nat
    BY SideFacts
  <2> QED BY <2>1 DEF ViscosityOf
<1>5. ASSUME NEW d \in 1 .. 3
      PROVE  /\ NormalVector(p)[d] = (kinematicPressure(p) + RateOf(p)) * p.area * Normal[p][d]
             /\ TangentialVector(p)[d] = ViscosityOf(p) * Tangential(p)[d]
             /\ Tangential(p)[d] = VelocityGap(p)[d] - ClosingSpeed(p) * Normal[p][d]
             /\ NormalVector(p)[d] \in Int /\ TangentialVector(p)[d] \in Int /\ Tangential(p)[d] \in Int
  <2>1. NormalVector(p)[d] = (kinematicPressure(p) + RateOf(p)) * p.area * Normal[p][d]
    BY DEF NormalVector, Scaled3
  <2>2. TangentialVector(p)[d] = ViscosityOf(p) * Tangential(p)[d]
    BY DEF TangentialVector, Scaled3
  <2>3. Tangential(p)[d] = VelocityGap(p)[d] - ClosingSpeed(p) * Normal[p][d]
    BY DEF Tangential, Apart, Scaled3, ClosingSpeed
  <2>4. p.area \in Nat /\ Normal[p][d] \in Int /\ VelocityGap(p)[d] \in Int
    BY SchemeFacts, VelocityFacts
  <2>5. PICK k \in Int, c \in Int, r \in Int, m \in Nat, a \in Nat, u \in Int, g \in Int :
          /\ k = kinematicPressure(p) /\ c = ClosingSpeed(p) /\ r = RateOf(p) /\ m = ViscosityOf(p)
          /\ a = p.area /\ u = Normal[p][d] /\ g = VelocityGap(p)[d]
    BY <1>1, <1>2, <1>3, <1>4, <2>4
  <2>6. NormalVector(p)[d] = (k + r) * a * u /\ Tangential(p)[d] = g - c * u
    BY <2>1, <2>3, <2>5
  <2>7. (k + r) * a * u \in Int /\ g - c * u \in Int
    OBVIOUS
  <2>8. m * (g - c * u) \in Int
    OBVIOUS
  <2> QED BY <2>1, <2>2, <2>3, <2>5, <2>6, <2>7, <2>8
<1> QED BY <1>1, <1>2, <1>3, <1>4, <1>5

\* The work a vector does at the nodes of a plane is less by its product with the velocity gap.
Work(F) == SumFunctionOnSet([n \in PlaneNodes |-> dotProd(F[n], velocity[n])], PlaneNodes)

\* What a plane adds to the forces does work at the gap velocity, negated.
LEMMA WorkDone ==
  ASSUME InputsFine, NEW p \in Planes, NEW c, \A d \in 1 .. 3 : c[d] \in Int,
         NEW F, NEW G, \A n \in PlaneNodes : \A d \in 1 .. 3 : F[n][d] \in Int /\ G[n][d] = F[n][d] + ShapeAt(p, n) * c[d]
  PROVE  Work(F) \in Int /\ Work(G) = Work(F) - dotProd(c, VelocityGap(p))
<1> DEFINE val(d) == [n \in PlaneNodes |-> velocity[n][d]]
           s(d) == [n \in PlaneNodes |-> ShapeAt(p, n) * val(d)[n]]
           f == [n \in PlaneNodes |-> dotProd(F[n], velocity[n])]
           g == [n \in PlaneNodes |-> dotProd(G[n], velocity[n])]
           f1 == [n \in PlaneNodes |-> f[n] + c[1] * s(1)[n]]
           f2 == [n \in PlaneNodes |-> f1[n] + c[2] * s(2)[n]]
<1>1. ASSUME NEW d \in 1 .. 3
      PROVE  SumFunctionOnSet(s(d), PlaneNodes) = -VelocityGap(p)[d] /\ VelocityGap(p)[d] \in Int
  <2>1. \A n \in PlaneNodes : val(d)[n] \in Int
    BY SchemeFacts
  <2>2. /\ AtFace(val(d), p.face1, p.on1) \in Int /\ AtFace(val(d), p.face2, p.on2) \in Int
        /\ SumFunctionOnSet(s(d), PlaneNodes) = AtFace(val(d), p.face2, p.on2) - AtFace(val(d), p.face1, p.on1)
    <3> HIDE DEF val
    <3> QED BY <2>1, ShapesAtNodes
  <2>3. VelocityGap(p)[d] = AtFace(val(d), p.face1, p.on1) - AtFace(val(d), p.face2, p.on2)
    BY VelocityFacts
  <2> HIDE DEF s, val
  <2> QED BY <2>2, <2>3
<1>2. ASSUME NEW n \in PlaneNodes
      PROVE  /\ f[n] \in Int /\ s(1)[n] \in Int /\ s(2)[n] \in Int /\ s(3)[n] \in Int
             /\ g[n] = f[n] + c[1] * s(1)[n] + c[2] * s(2)[n] + c[3] * s(3)[n]
  <2>1. PICK k \in Int : k = ShapeAt(p, n)
    BY ShapeFacts
  <2>2. PICK v1 \in Int, v2 \in Int, v3 \in Int : v1 = velocity[n][1] /\ v2 = velocity[n][2] /\ v3 = velocity[n][3]
    BY SchemeFacts
  <2>3. PICK x1 \in Int, x2 \in Int, x3 \in Int : x1 = F[n][1] /\ x2 = F[n][2] /\ x3 = F[n][3]
    OBVIOUS
  <2>4. PICK c1 \in Int, c2 \in Int, c3 \in Int : c1 = c[1] /\ c2 = c[2] /\ c3 = c[3]
    OBVIOUS
  <2>5. G[n][1] = x1 + k * c1 /\ G[n][2] = x2 + k * c2 /\ G[n][3] = x3 + k * c3
    BY <2>1, <2>3, <2>4
  <2>6. f[n] = x1 * v1 + x2 * v2 + x3 * v3
    BY <2>2, <2>3 DEF dotProd
  <2>7. g[n] = (x1 + k * c1) * v1 + (x2 + k * c2) * v2 + (x3 + k * c3) * v3
    BY <2>2, <2>5 DEF dotProd
  <2>8. s(1)[n] = k * v1 /\ s(2)[n] = k * v2 /\ s(3)[n] = k * v3
    BY <2>1, <2>2
  <2>9. (x1 + k * c1) * v1 + (x2 + k * c2) * v2 + (x3 + k * c3) * v3
          = (x1 * v1 + x2 * v2 + x3 * v3) + c1 * (k * v1) + c2 * (k * v2) + c3 * (k * v3)
    OBVIOUS
  <2>10. k * v1 \in Int /\ k * v2 \in Int /\ k * v3 \in Int /\ x1 * v1 + x2 * v2 + x3 * v3 \in Int
    OBVIOUS
  <2> HIDE DEF f, g, s
  <2> QED BY <2>4, <2>6, <2>7, <2>8, <2>9, <2>10
<1>3. c[1] \in Int /\ c[2] \in Int /\ c[3] \in Int
  OBVIOUS
<1>4. \A n \in PlaneNodes : /\ f[n] \in Int /\ f1[n] \in Int /\ f2[n] \in Int
                           /\ f1[n] = f[n] + c[1] * s(1)[n] /\ f2[n] = f1[n] + c[2] * s(2)[n]
                           /\ g[n] = f2[n] + c[3] * s(3)[n]
                           /\ s(1)[n] \in Int /\ s(2)[n] \in Int /\ s(3)[n] \in Int
  <2> SUFFICES ASSUME NEW n \in PlaneNodes
               PROVE  /\ f[n] \in Int /\ f1[n] \in Int /\ f2[n] \in Int
                      /\ f1[n] = f[n] + c[1] * s(1)[n] /\ f2[n] = f1[n] + c[2] * s(2)[n]
                      /\ g[n] = f2[n] + c[3] * s(3)[n]
                      /\ s(1)[n] \in Int /\ s(2)[n] \in Int /\ s(3)[n] \in Int
    OBVIOUS
  <2>1. f1[n] = f[n] + c[1] * s(1)[n] /\ f2[n] = f1[n] + c[2] * s(2)[n]
    OBVIOUS
  <2> HIDE DEF f, f1, f2, g, s
  <2>2. PICK a \in Int, b1 \in Int, b2 \in Int, b3 \in Int, c1 \in Int, c2 \in Int, c3 \in Int :
          /\ a = f[n] /\ b1 = s(1)[n] /\ b2 = s(2)[n] /\ b3 = s(3)[n] /\ c1 = c[1] /\ c2 = c[2] /\ c3 = c[3]
    BY <1>2, <1>3
  <2>3. g[n] = a + c1 * b1 + c2 * b2 + c3 * b3
    BY <1>2, <2>2
  <2>4. f1[n] = a + c1 * b1 /\ f2[n] = a + c1 * b1 + c2 * b2
    BY <2>1, <2>2
  <2>5. a + c1 * b1 \in Int /\ a + c1 * b1 + c2 * b2 \in Int
    OBVIOUS
  <2> QED BY <1>2, <2>1, <2>2, <2>3, <2>4, <2>5
<1> HIDE DEF f, f1, f2, g, s
<1>5. SumFunctionOnSet(f1, PlaneNodes) = SumFunctionOnSet(f, PlaneNodes) + c[1] * SumFunctionOnSet(s(1), PlaneNodes)
  BY <1>3, <1>4, NodesFinite, SumLinear
<1>6. SumFunctionOnSet(f2, PlaneNodes) = SumFunctionOnSet(f1, PlaneNodes) + c[2] * SumFunctionOnSet(s(2), PlaneNodes)
  BY <1>3, <1>4, NodesFinite, SumLinear
<1>7. SumFunctionOnSet(g, PlaneNodes) = SumFunctionOnSet(f2, PlaneNodes) + c[3] * SumFunctionOnSet(s(3), PlaneNodes)
  BY <1>3, <1>4, NodesFinite, SumLinear
<1>8. PICK w \in Int : w = SumFunctionOnSet(f, PlaneNodes)
  BY <1>4, NodesFinite, SumInt
<1>9. PICK c1 \in Int, c2 \in Int, c3 \in Int : c1 = c[1] /\ c2 = c[2] /\ c3 = c[3]
  BY <1>3
<1>10. PICK v1 \in Int, v2 \in Int, v3 \in Int :
         v1 = VelocityGap(p)[1] /\ v2 = VelocityGap(p)[2] /\ v3 = VelocityGap(p)[3]
  BY <1>1
<1>11. SumFunctionOnSet(s(1), PlaneNodes) = -v1 /\ SumFunctionOnSet(s(2), PlaneNodes) = -v2
       /\ SumFunctionOnSet(s(3), PlaneNodes) = -v3
  BY <1>1, <1>10
<1>12. SumFunctionOnSet(g, PlaneNodes) = w + c1 * (-v1) + c2 * (-v2) + c3 * (-v3)
  BY <1>5, <1>6, <1>7, <1>8, <1>9, <1>11
<1>13. dotProd(c, VelocityGap(p)) = c1 * v1 + c2 * v2 + c3 * v3
  BY <1>9, <1>10 DEF dotProd
<1>14. w + c1 * (-v1) + c2 * (-v2) + c3 * (-v3) = w - (c1 * v1 + c2 * v2 + c3 * v3)
  OBVIOUS
<1>15. Work(F) = SumFunctionOnSet(f, PlaneNodes) /\ Work(G) = SumFunctionOnSet(g, PlaneNodes)
  BY DEF Work, f, g
<1> QED BY <1>8, <1>12, <1>13, <1>14, <1>15

-----------------------------------------------------------------------------
(* The inductive invariant of the common plane. *)

ForcesFine == \A n \in PlaneNodes : \A d \in 1 .. 3 : force[n][d] \in Int
PlanesFine ==
  /\ pending \subseteq Planes
  /\ DOMAIN inContact = Planes /\ DOMAIN pressure = Planes
  /\ \A p \in Planes : inContact[p] \in BOOLEAN /\ pressure[p] \in Int
  /\ loop = "normal" => \A p \in pending : inContact[p] /\ pressure[p] = 0
ForcesCancel ==
  /\ DOMAIN force = PlaneNodes
  /\ \A d \in 1 .. 3 : SumFunctionOnSet([n \in PlaneNodes |-> force[n][d]], PlaneNodes) = 0

\* A node of face 1 alone, whose planes agree on the normal.
OfFace1(p, n) ==
  /\ n \in Range(p.face1) \ UNION {Range(r.face2) : r \in Planes}
  /\ \A q \in Planes : n \in Range(q.face1) => Normal[q] = Normal[p]
NeverPulled ==
  ~scheme.tied => \A p \in Planes : \A n : OfFace1(p, n) => dotProd(force[n], Normal[p]) >= 0

\* The forces less the springs.
Damping == [n \in PlaneNodes |-> Apart(force[n], SpringForce(n))]
Dissipates == Work(Damping) <= 0

PlaneIInv == InputsFine /\ ForcesFine /\ PlanesFine /\ ForcesCancel /\ NeverPulled /\ Dissipates

\* What both kernels do to the forces.
Adds(p, vec) ==
  /\ DOMAIN force' = PlaneNodes
  /\ \A n \in PlaneNodes : \A d \in 1 .. 3 : force'[n][d] = force[n][d] + ShapeAt(p, n) * vec[d]

\* Forces stay integers.
LEMMA AddsFine ==
  ASSUME ForcesFine, NEW p \in Planes, NEW vec, \A d \in 1 .. 3 : vec[d] \in Int, Adds(p, vec)
  PROVE  ForcesFine'
<1> SUFFICES ASSUME NEW n \in PlaneNodes, NEW d \in 1 .. 3 PROVE force'[n][d] \in Int
  BY DEF ForcesFine
<1>1. force'[n][d] = force[n][d] + ShapeAt(p, n) * vec[d]
  BY DEF Adds
<1>2. PICK a \in Int, s \in Int, c \in Int : a = force[n][d] /\ s = ShapeAt(p, n) /\ c = vec[d]
  BY ShapeFacts DEF ForcesFine
<1>3. a + s * c \in Int
  OBVIOUS
<1> QED BY <1>1, <1>2, <1>3

\* What both kernels add to the forces cancels.
LEMMA AddsCancel ==
  ASSUME ForcesFine, ForcesCancel, NEW p \in Planes, NEW vec, \A d \in 1 .. 3 : vec[d] \in Int, Adds(p, vec)
  PROVE  ForcesCancel'
<1>1. DOMAIN force' = PlaneNodes
  BY DEF Adds
<1>2. ASSUME NEW d \in 1 .. 3
      PROVE  SumFunctionOnSet([n \in PlaneNodes |-> force'[n][d]], PlaneNodes) = 0
  <2> DEFINE f == [n \in PlaneNodes |-> force[n][d]]
             g == [n \in PlaneNodes |-> force'[n][d]]
             s == [n \in PlaneNodes |-> ShapeAt(p, n)]
  <2>1. \A n \in PlaneNodes : f[n] \in Int /\ s[n] \in Int /\ g[n] = f[n] + vec[d] * s[n]
    <3> SUFFICES ASSUME NEW n \in PlaneNodes PROVE f[n] \in Int /\ s[n] \in Int /\ g[n] = f[n] + vec[d] * s[n]
      OBVIOUS
    <3>1. PICK a \in Int, k \in Int, c \in Int : a = force[n][d] /\ k = ShapeAt(p, n) /\ c = vec[d]
      BY ShapeFacts DEF ForcesFine
    <3>2. force'[n][d] = a + k * c
      BY <3>1 DEF Adds
    <3> QED BY <3>1, <3>2
  <2>2. SumFunctionOnSet(f, PlaneNodes) = 0
    BY DEF ForcesCancel
  <2>3. SumFunctionOnSet(s, PlaneNodes) = 0
    BY ShapesCancel
  <2> HIDE DEF f, g, s
  <2>4. SumFunctionOnSet(g, PlaneNodes) = SumFunctionOnSet(f, PlaneNodes) + vec[d] * SumFunctionOnSet(s, PlaneNodes)
    BY <2>1, NodesFinite, SumLinear
  <2>5. SumFunctionOnSet(g, PlaneNodes) = 0
    BY <2>2, <2>3, <2>4
  <2> QED BY <2>5 DEF g
<1> QED BY <1>1, <1>2 DEF ForcesCancel

\* On a node of face 1 alone the shape functions count against the vector; on one the plane does not touch they are zero.
LEMMA ShapeOnFace1 ==
  ASSUME NEW p \in Planes, NEW q \in Planes, NEW n, OfFace1(p, n)
  PROVE  ShapeAt(q, n) <= 0 /\ (ShapeAt(q, n) # 0 => Normal[q] = Normal[p])
<1>1. n \notin Range(q.face2)
  BY DEF OfFace1
<1>2. CornersOf(q.face2, n) = {}
  BY <1>1 DEF CornersOf, GroupOf, Range
<1>3. SumFunctionOnSet(q.on2, CornersOf(q.face2, n)) = 0
  BY <1>2, SumEmpty
<1>4. CASE n \in Range(q.face1)
  <2>1. Normal[q] = Normal[p]
    BY <1>4 DEF OfFace1
  <2> QED BY <1>3, <2>1, ShapeFacts
<1>5. CASE n \notin Range(q.face1)
  <2>1. CornersOf(q.face1, n) = {}
    BY <1>5 DEF CornersOf, GroupOf, Range
  <2>2. SumFunctionOnSet(q.on1, CornersOf(q.face1, n)) = 0
    BY <2>1, SumEmpty
  <2> QED BY <1>3, <2>2, ShapeFacts
<1> QED BY <1>4, <1>5

\* A vector against the normal pushes the nodes of face 1 along it.
LEMMA AddsPush ==
  ASSUME InputsFine, ForcesFine, NeverPulled, scheme' = scheme,
         NEW q \in Planes, NEW vec, \A d \in 1 .. 3 : vec[d] \in Int, Adds(q, vec),
         ~scheme.tied => dotProd(vec, Normal[q]) <= 0
  PROVE  NeverPulled'
<1> SUFFICES ASSUME ~scheme.tied, NEW p \in Planes, NEW n, OfFace1(p, n) PROVE dotProd(force'[n], Normal[p]) >= 0
  BY DEF NeverPulled, OfFace1
<1>1. n \in PlaneNodes
  BY DEF OfFace1, PlaneNodes
<1>2. PICK s \in Int : s = ShapeAt(q, n) /\ s <= 0 /\ (s # 0 => Normal[q] = Normal[p])
  BY ShapeFacts, ShapeOnFace1
<1>3. PICK x1 \in Int, x2 \in Int, x3 \in Int : x1 = force[n][1] /\ x2 = force[n][2] /\ x3 = force[n][3]
  BY <1>1 DEF ForcesFine
<1>4. PICK c1 \in Int, c2 \in Int, c3 \in Int : c1 = vec[1] /\ c2 = vec[2] /\ c3 = vec[3]
  OBVIOUS
<1>5. PICK u1 \in Int, u2 \in Int, u3 \in Int : u1 = Normal[p][1] /\ u2 = Normal[p][2] /\ u3 = Normal[p][3]
  BY SchemeFacts
<1>6. force'[n][1] = x1 + s * c1 /\ force'[n][2] = x2 + s * c2 /\ force'[n][3] = x3 + s * c3
  <2>1. \A d \in 1 .. 3 : force'[n][d] = force[n][d] + s * vec[d]
    BY <1>1, <1>2 DEF Adds
  <2> QED BY <1>3, <1>4, <2>1
<1>7. x1 * u1 + x2 * u2 + x3 * u3 >= 0
  <2>1. dotProd(force[n], Normal[p]) >= 0
    BY DEF NeverPulled
  <2> QED BY <1>3, <1>5, <2>1 DEF dotProd
<1>8. dotProd(force'[n], Normal[p]) = (x1 + s * c1) * u1 + (x2 + s * c2) * u2 + (x3 + s * c3) * u3
  BY <1>5, <1>6 DEF dotProd
<1>9. CASE s = 0
  BY <1>7, <1>8, <1>9
<1>10. CASE s # 0
  <2>1. dotProd(vec, Normal[p]) <= 0
    BY <1>2, <1>10
  <2>2. PICK w \in Int : w = c1 * u1 + c2 * u2 + c3 * u3 /\ w <= 0
    BY <1>4, <1>5, <2>1 DEF dotProd
  <2>3. s * w >= 0
    BY <1>2, <2>2
  <2>4. (x1 + s * c1) * u1 + (x2 + s * c2) * u2 + (x3 + s * c3) * u3 = (x1 * u1 + x2 * u2 + x3 * u3) + s * w
    BY <2>2
  <2> QED BY <1>7, <1>8, <2>3, <2>4
<1> QED BY <1>9, <1>10

\* The springs at a node: of the planes in a set, with some pressures.
SpringOf(q, pr, n, d) == pr[q] * q.area * ShapeAt(q, n) * Normal[q][d]
SpringSum(C, pr, n, d) == SumFunctionOnSet([q \in C |-> SpringOf(q, pr, n, d)], C)

\* The spring of a plane without pressure adds nothing.
LEMMA SpringOfFacts ==
  ASSUME NEW q \in Planes, NEW pr, pr[q] \in Int, NEW n, NEW d \in 1 .. 3
  PROVE  SpringOf(q, pr, n, d) \in Int /\ (pr[q] = 0 => SpringOf(q, pr, n, d) = 0)
<1>1. PICK a \in Nat, s \in Int, u \in Int : a = q.area /\ s = ShapeAt(q, n) /\ u = Normal[q][d]
  BY ShapeFacts, PlaneAssumption DEF PlaneAssumption
<1>2. PICK k \in Int : k = pr[q]
  OBVIOUS
<1>3. k * a * s * u \in Int
  OBVIOUS
<1>4. k = 0 => k * a * s * u = 0
  OBVIOUS
<1> QED BY <1>1, <1>2, <1>3, <1>4 DEF SpringOf

\* Springs add up.
LEMMA SpringSumFacts ==
  ASSUME NEW C \in SUBSET Planes, NEW pr, \A q \in C : pr[q] \in Int, NEW n, NEW d \in 1 .. 3
  PROVE  /\ SpringSum(C, pr, n, d) \in Int
         /\ \A q \in C : SpringSum(C, pr, n, d) = SpringOf(q, pr, n, d) + SpringSum(C \ {q}, pr, n, d)
<1> DEFINE f(D) == [q \in D |-> SpringOf(q, pr, n, d)]
<1>1. IsFiniteSet(C)
  BY FS_Subset, PlaneAssumption DEF PlaneAssumption
<1>2. \A q \in C : f(C)[q] \in Int /\ f(C)[q] = SpringOf(q, pr, n, d)
  BY SpringOfFacts
<1>3. SpringSum(C, pr, n, d) = SumFunctionOnSet(f(C), C)
  BY DEF SpringSum
<1>4. SpringSum(C, pr, n, d) \in Int
  <2> HIDE DEF f
  <2> QED BY <1>1, <1>2, <1>3, SumInt
<1>5. ASSUME NEW q \in C
      PROVE  SpringSum(C, pr, n, d) = SpringOf(q, pr, n, d) + SpringSum(C \ {q}, pr, n, d)
  <2>1. \A x \in C \ {q} : f(C)[x] = f(C \ {q})[x]
    OBVIOUS
  <2>2. SpringSum(C \ {q}, pr, n, d) = SumFunctionOnSet(f(C \ {q}), C \ {q})
    BY DEF SpringSum
  <2>3. IsFiniteSet(C \ {q})
    BY <1>1, FS_RemoveElement
  <2> HIDE DEF f
  <2>4. SumFunctionOnSet(f(C), C \ {q}) = SumFunctionOnSet(f(C \ {q}), C \ {q})
    BY <2>1, <2>3, SumSame
  <2>5. SumFunctionOnSet(f(C), C) = f(C)[q] + SumFunctionOnSet(f(C), C \ {q})
    BY <1>1, <1>2, SumRemove
  <2> QED BY <1>2, <1>3, <2>2, <2>4, <2>5
<1> QED BY <1>4, <1>5

\* They depend on the pressures of their planes.
LEMMA SpringSumSame ==
  ASSUME NEW C \in SUBSET Planes, NEW pr, NEW ps, \A q \in C : ps[q] = pr[q], NEW n, NEW d \in 1 .. 3
  PROVE  SpringSum(C, ps, n, d) = SpringSum(C, pr, n, d)
<1> DEFINE f == [q \in C |-> SpringOf(q, pr, n, d)]
           g == [q \in C |-> SpringOf(q, ps, n, d)]
<1>1. IsFiniteSet(C)
  BY FS_Subset, PlaneAssumption DEF PlaneAssumption
<1>2. \A q \in C : g[q] = f[q]
  BY DEF SpringOf
<1> HIDE DEF f, g
<1>3. SumFunctionOnSet(g, C) = SumFunctionOnSet(f, C)
  BY <1>1, <1>2, SumSame
<1> QED BY <1>3 DEF SpringSum, f, g

PlanesInContact == {q \in Planes : inContact[q]}

\* The springs of the planes in contact.
LEMMA SpringForceIs ==
  ASSUME NEW n, NEW d \in 1 .. 3
  PROVE  SpringForce(n)[d] = SpringSum(PlanesInContact, pressure, n, d)
<1> DEFINE F == [p \in PlanesInContact |-> Scaled3(pressure[p] * p.area * ShapeAt(p, n), Normal[p])]
           g == [p \in DOMAIN F |-> F[p][d]]
           h == [p \in PlanesInContact |-> SpringOf(p, pressure, n, d)]
<1>1. SpringForce(n)[d] = SumFunctionOnSet(g, PlanesInContact)
  BY DEF SpringForce, Sum3, SumFunction, PlanesInContact
<1>2. \A p \in PlanesInContact : g[p] = h[p]
  BY DEF Scaled3, SpringOf
<1>3. IsFiniteSet(PlanesInContact)
  BY FS_Subset, PlaneAssumption DEF PlaneAssumption, PlanesInContact
<1>4. SpringSum(PlanesInContact, pressure, n, d) = SumFunctionOnSet(h, PlanesInContact)
  BY DEF SpringSum
<1> HIDE DEF g, h
<1> QED BY <1>1, <1>2, <1>3, <1>4, SumSame

\* Their forces are integers.
LEMMA SpringForceFine ==
  ASSUME PlanesFine, NEW n, NEW d \in 1 .. 3
  PROVE  SpringForce(n)[d] \in Int
<1>1. PlanesInContact \in SUBSET Planes /\ \A q \in PlanesInContact : pressure[q] \in Int
  BY DEF PlanesInContact, PlanesFine
<1>2. SpringSum(PlanesInContact, pressure, n, d) \in Int
  BY <1>1, SpringSumFacts
<1>3. SpringForce(n)[d] = SpringSum(PlanesInContact, pressure, n, d)
  BY SpringForceIs
<1> QED BY <1>2, <1>3

\* The same after a step.
LEMMA SpringForceIsNext ==
  ASSUME NEW n, NEW d \in 1 .. 3
  PROVE  SpringForce(n)'[d] = SpringSum(PlanesInContact', pressure', n, d)
<1> DEFINE F == [p \in PlanesInContact' |-> Scaled3(pressure'[p] * p.area * ShapeAt(p, n), Normal[p])]
           g == [p \in DOMAIN F |-> F[p][d]]
           h == [p \in PlanesInContact' |-> SpringOf(p, pressure', n, d)]
<1>1. SpringForce(n)'[d] = SumFunctionOnSet(g, PlanesInContact')
  BY DEF SpringForce, Sum3, SumFunction, PlanesInContact
<1>2. \A p \in PlanesInContact' : g[p] = h[p]
  BY DEF Scaled3, SpringOf
<1>3. IsFiniteSet(PlanesInContact')
  BY FS_Subset, PlaneAssumption DEF PlaneAssumption, PlanesInContact
<1>4. SpringSum(PlanesInContact', pressure', n, d) = SumFunctionOnSet(h, PlanesInContact')
  BY DEF SpringSum
<1> HIDE DEF g, h
<1> QED BY <1>1, <1>2, <1>3, <1>4, SumSame

\* A step that leaves the springs alone and does no work.
LEMMA SameSprings ==
  ASSUME Dissipates, velocity' = velocity, force' = force,
         \A n \in PlaneNodes : \A d \in 1 .. 3 : SpringForce(n)'[d] = SpringForce(n)[d]
  PROVE  Dissipates'
<1>1. \A n \in PlaneNodes : Damping'[n] = Damping[n]
  <2> SUFFICES ASSUME NEW n \in PlaneNodes PROVE Damping'[n] = Damping[n]
    OBVIOUS
  <2>1. \A d \in 1 .. 3 : force'[n][d] - SpringForce(n)'[d] = force[n][d] - SpringForce(n)[d]
    OBVIOUS
  <2>2. Damping'[n] = [d \in 1 .. 3 |-> force'[n][d] - SpringForce(n)'[d]]
    BY DEF Damping, Apart
  <2>3. Damping[n] = [d \in 1 .. 3 |-> force[n][d] - SpringForce(n)[d]]
    BY DEF Damping, Apart
  <2> QED BY <2>1, <2>2, <2>3
<1>2. [n \in PlaneNodes |-> dotProd(Damping'[n], velocity'[n])] = [n \in PlaneNodes |-> dotProd(Damping[n], velocity[n])]
  BY <1>1
<1>3. Work(Damping)' = Work(Damping)
  BY <1>2 DEF Work
<1> QED BY <1>3 DEF Dissipates

\* A step that adds a vector to the forces, part of it to the springs, does the work of the rest.
LEMMA AddsWork ==
  ASSUME InputsFine, ForcesFine, PlanesFine, Dissipates, velocity' = velocity,
         NEW p \in Planes, NEW vec, NEW spring, \A d \in 1 .. 3 : vec[d] \in Int /\ spring[d] \in Int, Adds(p, vec),
         \A n \in PlaneNodes : \A d \in 1 .. 3 : SpringForce(n)'[d] = SpringForce(n)[d] + ShapeAt(p, n) * spring[d],
         dotProd(Apart(vec, spring), VelocityGap(p)) \in Nat
  PROVE  Dissipates'
<1> DEFINE c == Apart(vec, spring)
           G == [n \in PlaneNodes |-> Apart(force'[n], SpringForce(n)')]
<1>1. \A d \in 1 .. 3 : c[d] \in Int /\ c[d] = vec[d] - spring[d]
  BY DEF Apart
<1>2. ASSUME NEW n \in PlaneNodes, NEW d \in 1 .. 3
      PROVE  Damping[n][d] \in Int /\ G[n][d] = Damping[n][d] + ShapeAt(p, n) * c[d]
  <2>1. PICK x \in Int, y \in Int, s \in Int, v \in Int, u \in Int :
          x = force[n][d] /\ y = SpringForce(n)[d] /\ s = ShapeAt(p, n) /\ v = vec[d] /\ u = spring[d]
    BY ShapeFacts, SpringForceFine DEF ForcesFine
  <2>2. Damping[n][d] = x - y
    BY <2>1 DEF Damping, Apart
  <2>3. force'[n][d] = x + s * v
    BY <2>1 DEF Adds
  <2>4. SpringForce(n)'[d] = y + s * u
    BY <2>1
  <2>5. G[n][d] = (x + s * v) - (y + s * u)
    BY <2>3, <2>4 DEF Apart
  <2>6. (x + s * v) - (y + s * u) = (x - y) + s * (v - u)
    OBVIOUS
  <2> HIDE DEF G, c
  <2> QED BY <1>1, <2>1, <2>2, <2>5, <2>6
<1>3. Work(Damping)' = Work(G)
  BY DEF Work, Damping
<1> HIDE DEF G, c
<1>4. Work(Damping) \in Int /\ Work(G) = Work(Damping) - dotProd(c, VelocityGap(p))
  BY <1>1, <1>2, WorkDone
<1>5. dotProd(c, VelocityGap(p)) \in Nat
  BY DEF c
<1> QED BY <1>3, <1>4, <1>5 DEF Dissipates

InputsKept == scheme' = scheme /\ gapOf' = gapOf /\ velocity' = velocity /\ thickness' = thickness

\* A step that leaves the input alone.
LEMMA KeptFine == ASSUME InputsFine, InputsKept PROVE InputsFine'
BY DEF InputsFine, InputsKept

\* A step that leaves the forces alone.
LEMMA ForceKept ==
  ASSUME InputsKept, force' = force
  PROVE  (ForcesFine => ForcesFine') /\ (ForcesCancel => ForcesCancel') /\ (NeverPulled => NeverPulled')
<1>1. ForcesFine => ForcesFine'
  BY DEF ForcesFine
<1>2. ForcesCancel => ForcesCancel'
  BY DEF ForcesCancel
<1>3. NeverPulled => NeverPulled'
  BY DEF NeverPulled, OfFace1, InputsKept
<1> QED BY <1>1, <1>2, <1>3

\* The first state has no forces.
LEMMA InitHolds == ASSUME PlaneInit PROVE PlaneIInv
<1>1. InputsFine
  BY DEF PlaneInit, InputsFine
<1>2. \A n \in PlaneNodes : \A d \in 1 .. 3 : force[n][d] = 0
  <2>1. force = [n \in PlaneNodes |-> Zero3]
    BY DEF PlaneInit
  <2>2. \A d \in 1 .. 3 : Zero3[d] = 0
    BY DEF Zero3
  <2> QED BY <2>1, <2>2
<1>3. ForcesFine
  BY <1>2 DEF ForcesFine
<1>4. PlanesFine
  <2>1. inContact = [p \in Planes |-> TRUE] /\ pressure = [p \in Planes |-> 0] /\ pending = Planes
    BY DEF PlaneInit
  <2> QED BY <2>1 DEF PlanesFine
<1>5. ForcesCancel
  <2>1. DOMAIN force = PlaneNodes
    BY DEF PlaneInit
  <2>2. ASSUME NEW d \in 1 .. 3 PROVE SumFunctionOnSet([n \in PlaneNodes |-> force[n][d]], PlaneNodes) = 0
    <3> DEFINE f == [n \in PlaneNodes |-> force[n][d]]
    <3>1. \A n \in PlaneNodes : f[n] = 0
      BY <1>2
    <3> HIDE DEF f
    <3>2. SumFunctionOnSet(f, PlaneNodes) = 0
      BY <3>1, NodesFinite, SumZero
    <3> QED BY <3>2 DEF f
  <2> QED BY <2>1, <2>2 DEF ForcesCancel
<1>6. NeverPulled
  <2> SUFFICES ASSUME NEW p \in Planes, NEW n, OfFace1(p, n) PROVE dotProd(force[n], Normal[p]) >= 0
    BY DEF NeverPulled
  <2>1. n \in PlaneNodes
    BY DEF OfFace1, PlaneNodes
  <2>2. force[n][1] = 0 /\ force[n][2] = 0 /\ force[n][3] = 0
    BY <1>2, <2>1
  <2>3. PICK u1 \in Int, u2 \in Int, u3 \in Int : u1 = Normal[p][1] /\ u2 = Normal[p][2] /\ u3 = Normal[p][3]
    BY <1>1, SchemeFacts
  <2> QED BY <2>2, <2>3 DEF dotProd
<1>7. Dissipates
  <2>1. ASSUME NEW n \in PlaneNodes, NEW d \in 1 .. 3 PROVE Damping[n][d] = 0
    <3> DEFINE f == [q \in PlanesInContact |-> SpringOf(q, pressure, n, d)]
    <3>1. \A q \in PlanesInContact : f[q] = 0
      BY SpringOfFacts DEF PlanesInContact, PlaneInit
    <3>2. IsFiniteSet(PlanesInContact)
      BY FS_Subset, PlaneAssumption DEF PlaneAssumption, PlanesInContact
    <3>3. SpringForce(n)[d] = SumFunctionOnSet(f, PlanesInContact)
      BY SpringForceIs DEF SpringSum
    <3> HIDE DEF f
    <3>4. SpringForce(n)[d] = 0
      BY <3>1, <3>2, <3>3, SumZero
    <3> QED BY <1>2, <3>4 DEF Damping, Apart
  <2> DEFINE h == [n \in PlaneNodes |-> dotProd(Damping[n], velocity[n])]
  <2>2. ASSUME NEW n \in PlaneNodes PROVE h[n] = 0
    <3>1. Damping[n][1] = 0 /\ Damping[n][2] = 0 /\ Damping[n][3] = 0
      BY <2>1
    <3>2. velocity[n][1] \in Int /\ velocity[n][2] \in Int /\ velocity[n][3] \in Int
      BY <1>1, SchemeFacts
    <3> QED BY <3>1, <3>2 DEF dotProd
  <2>3. Work(Damping) = SumFunctionOnSet(h, PlaneNodes)
    BY DEF Work
  <2> HIDE DEF h
  <2>4. Work(Damping) = 0
    BY <2>2, <2>3, NodesFinite, SumZero
  <2> QED BY <2>4 DEF Dissipates
<1> QED BY <1>1, <1>3, <1>4, <1>5, <1>6, <1>7 DEF PlaneIInv

\* A plane out of reach of its tolerance adds nothing, and has no spring.
LEMMA OutOfReachHolds == ASSUME PlaneIInv, NEW p \in Planes, OutOfReach(p) PROVE PlaneIInv'
<1>1. /\ InputsKept /\ force' = force /\ pressure' = pressure /\ loop' = loop /\ loop = "normal"
      /\ p \in pending /\ pending' = pending \ {p} /\ inContact' = [inContact EXCEPT ![p] = FALSE]
  BY DEF OutOfReach, NextPlane, InputsKept, inputVars
<1>2. InputsFine' /\ ForcesFine' /\ ForcesCancel' /\ NeverPulled'
  BY <1>1, KeptFine, ForceKept DEF PlaneIInv
<1>3. PlanesFine'
  BY <1>1 DEF PlaneIInv, PlanesFine
<1>4. inContact[p] /\ pressure[p] = 0 /\ p \in PlanesInContact /\ PlanesInContact' = PlanesInContact \ {p}
  BY <1>1 DEF PlaneIInv, PlanesFine, PlanesInContact
<1>5. ASSUME NEW n \in PlaneNodes, NEW d \in 1 .. 3 PROVE SpringForce(n)'[d] = SpringForce(n)[d]
  <2>1. PlanesInContact \in SUBSET Planes /\ \A q \in PlanesInContact : pressure[q] \in Int
    BY DEF PlanesInContact, PlaneIInv, PlanesFine
  <2>2. SpringSum(PlanesInContact, pressure, n, d)
          = SpringOf(p, pressure, n, d) + SpringSum(PlanesInContact \ {p}, pressure, n, d)
    <3>1. \A q \in PlanesInContact : SpringSum(PlanesInContact, pressure, n, d)
            = SpringOf(q, pressure, n, d) + SpringSum(PlanesInContact \ {q}, pressure, n, d)
      BY <2>1, SpringSumFacts
    <3> QED BY <1>4, <3>1
  <2>3. SpringOf(p, pressure, n, d) = 0
    BY <1>4, SpringOfFacts
  <2>4. SpringSum(PlanesInContact \ {p}, pressure, n, d) \in Int
    <3>1. PlanesInContact \ {p} \in SUBSET Planes /\ \A q \in PlanesInContact \ {p} : pressure[q] \in Int
      BY <2>1
    <3> QED BY <3>1, SpringSumFacts
  <2>5. SpringForce(n)'[d] = SpringSum(PlanesInContact', pressure', n, d)
    BY SpringForceIsNext
  <2>6. SpringForce(n)[d] = SpringSum(PlanesInContact, pressure, n, d)
    BY SpringForceIs
  <2> QED BY <1>1, <1>4, <2>2, <2>3, <2>4, <2>5, <2>6
<1>6. Dissipates'
  BY <1>1, <1>5, SameSprings DEF PlaneIInv, InputsKept
<1> QED BY <1>2, <1>3, <1>6 DEF PlaneIInv

\* WithForces adds what Adds says.
LEMMA WithForcesAdds ==
  ASSUME ForcesFine, NEW p \in Planes, NEW vec, \A d \in 1 .. 3 : vec[d] \in Int, force' = WithForces(force, p, vec)
  PROVE  Adds(p, vec)
<1>1. DOMAIN force' = PlaneNodes
  BY DEF WithForces
<1>2. \A n \in PlaneNodes : \A d \in 1 .. 3 : force'[n][d] = force[n][d] + ShapeAt(p, n) * vec[d]
  BY ForceAdded DEF ForcesFine
<1> QED BY <1>1, <1>2 DEF Adds

\* A plane within its tolerance adds its spring, and a rate term that damps.
LEMMA ApplyNormalHolds == ASSUME PlaneIInv, NEW p \in Planes, ApplyNormal(p) PROVE PlaneIInv'
<1> DEFINE vec == NormalVector(p)
           spring == Scaled3(kinematicPressure(p) * p.area, Normal[p])
<1>1. /\ InputsKept /\ inContact' = inContact /\ loop' = loop /\ loop = "normal"
      /\ p \in pending /\ pending' = pending \ {p} /\ gapOf[p] <= getGapTol(p)
      /\ pressure' = [pressure EXCEPT ![p] = kinematicPressure(p)]
      /\ force' = WithForces(force, p, vec)
  BY DEF ApplyNormal, NextPlane, InputsKept, inputVars, NormalVector, RateOf, ClosingSpeed
<1>2. InputsFine /\ ForcesFine /\ PlanesFine /\ ForcesCancel /\ NeverPulled /\ Dissipates
  BY DEF PlaneIInv
<1>3. InputsFine'
  BY <1>1, <1>2, KeptFine
<1>4. \A d \in 1 .. 3 : vec[d] \in Int
  BY <1>2, PressureFacts
<1>5. Adds(p, vec)
  BY <1>1, <1>2, <1>4, WithForcesAdds
<1>6. ForcesFine' /\ ForcesCancel'
  BY <1>2, <1>4, <1>5, AddsFine, AddsCancel
<1>7. kinematicPressure(p) \in Int
  BY <1>2, PressureFacts
<1>8. PlanesFine'
  BY <1>1, <1>2, <1>7 DEF PlanesFine
<1>9. PICK u1 \in Int, u2 \in Int, u3 \in Int : u1 = Normal[p][1] /\ u2 = Normal[p][2] /\ u3 = Normal[p][3]
  BY <1>2, SchemeFacts
<1>10. PICK k \in Int, r \in Int, a \in Nat : k = kinematicPressure(p) /\ r = RateOf(p) /\ a = p.area /\ r <= 0
  BY <1>2, SchemeFacts, PressureFacts
<1>11. vec[1] = (k + r) * a * u1 /\ vec[2] = (k + r) * a * u2 /\ vec[3] = (k + r) * a * u3
  <2>1. \A d \in 1 .. 3 : vec[d] = (k + r) * a * Normal[p][d]
    BY <1>2, <1>10, PressureFacts
  <2> QED BY <1>9, <2>1
<1>12. ~scheme.tied => dotProd(vec, Normal[p]) <= 0
  <2> SUFFICES ASSUME ~scheme.tied PROVE dotProd(vec, Normal[p]) <= 0
    OBVIOUS
  <2>1. k <= 0
    <3>1. MaxRadius(p) \in Nat
      <4>1. FaceRadius[p.side1] \in Nat /\ FaceRadius[p.side2] \in Nat
        BY <1>2, SideFacts
      <4> QED BY <4>1 DEF MaxRadius, Larger
    <3>2. PICK m \in Nat, t \in Nat : m = MaxRadius(p) /\ t = GapTolRatio
      BY <3>1, PlaneAssumption DEF PlaneAssumption
    <3>3. t * m \in Nat
      OBVIOUS
    <3>4. PICK g \in Int, h \in Int, s \in Nat : g = gapOf[p] /\ h = scheme.residualGap /\ s = Stiffness(p)
      BY <1>2, SchemeFacts, SpringFacts
    <3>5. getGapTol(p) = h - t * m
      BY <3>2, <3>4 DEF getGapTol
    <3>6. g <= h
      BY <1>1, <3>3, <3>4, <3>5
    <3>7. k = (g - h) * s
      BY <1>10, <3>4 DEF kinematicPressure
    <3> QED BY <3>4, <3>6, <3>7
  <2>2. dotProd(vec, Normal[p]) = (k + r) * a * u1 * u1 + (k + r) * a * u2 * u2 + (k + r) * a * u3 * u3
    BY <1>9, <1>11 DEF dotProd
  <2>3. PICK w \in Int : w = (k + r) * a /\ w <= 0
    BY <1>10, <2>1
  <2>4. w * u1 * u1 <= 0 /\ w * u2 * u2 <= 0 /\ w * u3 * u3 <= 0
    <3>1. ASSUME NEW u \in Int PROVE w * u * u <= 0
      <4>1. PICK v \in Nat : v = u * u
        OBVIOUS
      <4>2. w * u * u = w * v /\ w * v <= 0
        BY <2>3, <4>1
      <4> QED BY <4>2
    <3> QED BY <3>1
  <2>5. w * u1 * u1 \in Int /\ w * u2 * u2 \in Int /\ w * u3 * u3 \in Int
    OBVIOUS
  <2> QED BY <2>2, <2>3, <2>4, <2>5
<1>13. NeverPulled'
  BY <1>1, <1>2, <1>4, <1>5, <1>12, AddsPush DEF InputsKept
<1>14. \A d \in 1 .. 3 : spring[d] = k * a * Normal[p][d] /\ spring[d] \in Int
  BY <1>2, <1>10, SchemeFacts DEF Scaled3
<1>15. ASSUME NEW n \in PlaneNodes, NEW d \in 1 .. 3
       PROVE  SpringForce(n)'[d] = SpringForce(n)[d] + ShapeAt(p, n) * spring[d]
  <2> DEFINE C == PlanesInContact
  <2>1. p \in C /\ PlanesInContact' = C /\ C \in SUBSET Planes /\ pressure[p] = 0 /\ pressure'[p] = k
        /\ (\A q \in C : pressure[q] \in Int /\ pressure'[q] \in Int) /\ (\A q \in C \ {p} : pressure'[q] = pressure[q])
    BY <1>1, <1>2, <1>10 DEF PlanesInContact, PlanesFine
  <2>2. SpringForce(n)'[d] = SpringSum(C, pressure', n, d)
    BY <2>1, SpringForceIsNext
  <2>3. SpringForce(n)[d] = SpringSum(C, pressure, n, d)
    BY SpringForceIs
  <2> HIDE DEF C
  <2>4. SpringSum(C, pressure', n, d) = SpringOf(p, pressure', n, d) + SpringSum(C \ {p}, pressure', n, d)
    <3>1. \A q \in C : SpringSum(C, pressure', n, d) = SpringOf(q, pressure', n, d) + SpringSum(C \ {q}, pressure', n, d)
      BY <2>1, SpringSumFacts
    <3> QED BY <2>1, <3>1
  <2>5. SpringSum(C, pressure, n, d) = SpringOf(p, pressure, n, d) + SpringSum(C \ {p}, pressure, n, d)
    <3>1. \A q \in C : SpringSum(C, pressure, n, d) = SpringOf(q, pressure, n, d) + SpringSum(C \ {q}, pressure, n, d)
      BY <2>1, SpringSumFacts
    <3> QED BY <2>1, <3>1
  <2>6. SpringSum(C \ {p}, pressure', n, d) = SpringSum(C \ {p}, pressure, n, d)
    BY <2>1, SpringSumSame
  <2>7. SpringSum(C \ {p}, pressure, n, d) \in Int
    <3>1. C \ {p} \in SUBSET Planes /\ \A q \in C \ {p} : pressure[q] \in Int
      BY <2>1
    <3> QED BY <3>1, SpringSumFacts
  <2>8. SpringOf(p, pressure, n, d) = 0
    BY <2>1, SpringOfFacts
  <2>9. PICK s \in Int, u \in Int : s = ShapeAt(p, n) /\ u = Normal[p][d]
    BY <1>2, ShapeFacts, SchemeFacts
  <2>10. SpringOf(p, pressure', n, d) = k * a * s * u
    BY <1>10, <2>1, <2>9 DEF SpringOf
  <2>11. spring[d] = k * a * u
    BY <1>14, <2>9
  <2>12. k * a * s * u = s * (k * a * u) /\ k * a * s * u \in Int
    OBVIOUS
  <2> HIDE DEF spring
  <2> QED BY <2>2, <2>3, <2>4, <2>5, <2>6, <2>7, <2>8, <2>9, <2>10, <2>11, <2>12
<1>16. dotProd(Apart(vec, spring), VelocityGap(p)) \in Nat
  <2>1. PICK v1 \in Int, v2 \in Int, v3 \in Int :
          v1 = VelocityGap(p)[1] /\ v2 = VelocityGap(p)[2] /\ v3 = VelocityGap(p)[3]
    <3>1. \A d \in 1 .. 3 : VelocityGap(p)[d] \in Int
      BY <1>2, VelocityFacts
    <3> QED BY <3>1
  <2>2. ClosingSpeed(p) = v1 * u1 + v2 * u2 + v3 * u3
    BY <1>9, <2>1 DEF ClosingSpeed, dotProd
  <2>3. spring[1] = k * a * u1 /\ spring[2] = k * a * u2 /\ spring[3] = k * a * u3
    BY <1>9, <1>14
  <2>4. /\ Apart(vec, spring)[1] = (k + r) * a * u1 - k * a * u1
        /\ Apart(vec, spring)[2] = (k + r) * a * u2 - k * a * u2
        /\ Apart(vec, spring)[3] = (k + r) * a * u3 - k * a * u3
    BY <1>11, <2>3 DEF Apart
  <2>5. dotProd(Apart(vec, spring), VelocityGap(p)) = ((k + r) * a * u1 - k * a * u1) * v1
          + ((k + r) * a * u2 - k * a * u2) * v2 + ((k + r) * a * u3 - k * a * u3) * v3
    BY <2>1, <2>4 DEF dotProd
  <2>6. PICK v \in Int : v = v1 * u1 + v2 * u2 + v3 * u3
    OBVIOUS
  <2>7. ((k + r) * a * u1 - k * a * u1) * v1 + ((k + r) * a * u2 - k * a * u2) * v2
          + ((k + r) * a * u3 - k * a * u3) * v3 = a * (r * v)
    BY <2>6
  <2>8. r * v >= 0
    BY <1>2, <1>10, <2>2, <2>6, PressureFacts
  <2>9. a * (r * v) \in Nat
    <3>1. PICK w \in Nat : w = r * v
      BY <2>8
    <3> QED BY <3>1
  <2> QED BY <2>5, <2>7, <2>9
<1>17. Dissipates'
  <2>1. \A d \in 1 .. 3 : vec[d] \in Int /\ spring[d] \in Int
    BY <1>4, <1>14
  <2>2. velocity' = velocity
    BY <1>1 DEF InputsKept
  <2> HIDE DEF vec, spring
  <2> QED BY <1>2, <1>5, <1>15, <1>16, <2>1, <2>2, AddsWork
<1> QED BY <1>3, <1>6, <1>8, <1>13, <1>17 DEF PlaneIInv

\* What the tangential velocity takes out: the square of the gap less that of its normal part.
LEMMA Lagrange ==
  ASSUME NEW v1 \in Int, NEW v2 \in Int, NEW v3 \in Int, NEW u1 \in Int, NEW u2 \in Int, NEW u3 \in Int,
         u1 * u1 + u2 * u2 + u3 * u3 = 1
  PROVE  LET c == v1 * u1 + v2 * u2 + v3 * u3
         IN  (v1 - c * u1) * v1 + (v2 - c * u2) * v2 + (v3 - c * u3) * v3 >= 0
<1> DEFINE c == v1 * u1 + v2 * u2 + v3 * u3
           w == v1 * v1 + v2 * v2 + v3 * v3
           n == u1 * u1 + u2 * u2 + u3 * u3
           x == v1 * u2 - v2 * u1
           y == v2 * u3 - v3 * u2
           z == v3 * u1 - v1 * u3
<1>1. (v1 - c * u1) * v1 + (v2 - c * u2) * v2 + (v3 - c * u3) * v3 = w - c * c
  <2>1. PICK k \in Int : k = c
    OBVIOUS
  <2>2. (v1 - k * u1) * v1 + (v2 - k * u2) * v2 + (v3 - k * u3) * v3
          = (v1 * v1 + v2 * v2 + v3 * v3) - k * (v1 * u1 + v2 * u2 + v3 * u3)
    OBVIOUS
  <2> QED BY <2>1, <2>2
<1>2. n * w - c * c = x * x + y * y + z * z
  OBVIOUS
<1>3. x * x >= 0 /\ y * y >= 0 /\ z * z >= 0
  <2>1. ASSUME NEW a \in Int PROVE a * a >= 0
    OBVIOUS
  <2>2. x \in Int /\ y \in Int /\ z \in Int
    OBVIOUS
  <2> QED BY <2>1, <2>2
<1>4. x \in Int /\ y \in Int /\ z \in Int /\ w \in Int /\ c \in Int
  OBVIOUS
<1>5. n = 1
  OBVIOUS
<1> HIDE DEF n, x, y, z, w, c
<1>6. w - c * c >= 0
  <2>1. PICK a \in Int, b \in Int, d \in Int, e \in Int : a = x * x /\ b = y * y /\ d = z * z /\ e = c * c
    BY <1>4
  <2>2. 1 * w - e = a + b + d /\ a >= 0 /\ b >= 0 /\ d >= 0
    BY <1>2, <1>3, <1>5, <2>1
  <2> QED BY <1>4, <2>1, <2>2
<1> QED BY <1>1, <1>6 DEF c

\* The viscous force is along what it is multiplied with, whose product with the gap velocity is its square.
LEMMA ApplyTangentialHolds == ASSUME PlaneIInv, NEW p \in Planes, ApplyTangential(p) PROVE PlaneIInv'
<1> DEFINE vec == TangentialVector(p)
<1>1. /\ InputsKept /\ inContact' = inContact /\ pressure' = pressure /\ loop' = loop /\ loop = "tangential"
      /\ pending' = pending \ {p} /\ force' = IF inContact[p] THEN WithForces(force, p, vec) ELSE force
  BY DEF ApplyTangential, NextPlane, InputsKept, inputVars, TangentialVector, ViscosityOf
<1>2. InputsFine /\ ForcesFine /\ PlanesFine /\ ForcesCancel /\ NeverPulled /\ Dissipates
  BY DEF PlaneIInv
<1>3. InputsFine' /\ PlanesFine'
  <2>1. PlanesFine'
    BY <1>1, <1>2 DEF PlanesFine
  <2> QED BY <1>1, <1>2, <2>1, KeptFine
<1>4. ASSUME NEW n \in PlaneNodes, NEW d \in 1 .. 3 PROVE SpringForce(n)'[d] = SpringForce(n)[d]
  <2>1. PlanesInContact' = PlanesInContact
    BY <1>1 DEF PlanesInContact
  <2> QED BY <1>1, <2>1, SpringForceIs, SpringForceIsNext
<1>5. CASE ~inContact[p]
  <2>1. force' = force
    BY <1>1, <1>5
  <2>2. ForcesFine' /\ ForcesCancel' /\ NeverPulled'
    BY <1>1, <1>2, <2>1, ForceKept
  <2>3. Dissipates'
    BY <1>1, <1>2, <1>4, <2>1, SameSprings DEF InputsKept
  <2> QED BY <1>3, <2>2, <2>3 DEF PlaneIInv
<1>6. CASE inContact[p]
  <2>1. \A d \in 1 .. 3 : vec[d] \in Int
    BY <1>2, PressureFacts
  <2>2. Adds(p, vec)
    BY <1>1, <1>2, <1>6, <2>1, WithForcesAdds
  <2>3. ForcesFine' /\ ForcesCancel'
    BY <1>2, <2>1, <2>2, AddsFine, AddsCancel
  <2>4. PICK u1 \in Int, u2 \in Int, u3 \in Int : u1 = Normal[p][1] /\ u2 = Normal[p][2] /\ u3 = Normal[p][3]
    BY <1>2, SchemeFacts
  <2>5. PICK v1 \in Int, v2 \in Int, v3 \in Int :
          v1 = VelocityGap(p)[1] /\ v2 = VelocityGap(p)[2] /\ v3 = VelocityGap(p)[3]
    <3>1. \A d \in 1 .. 3 : VelocityGap(p)[d] \in Int
      BY <1>2, VelocityFacts
    <3> QED BY <3>1
  <2>6. PICK c \in Int, m \in Nat : c = ClosingSpeed(p) /\ m = ViscosityOf(p)
    BY <1>2, PressureFacts
  <2>7. c = v1 * u1 + v2 * u2 + v3 * u3
    BY <2>4, <2>5, <2>6 DEF ClosingSpeed, dotProd
  <2>8. vec[1] = m * (v1 - c * u1) /\ vec[2] = m * (v2 - c * u2) /\ vec[3] = m * (v3 - c * u3)
    <3>1. \A d \in 1 .. 3 : vec[d] = m * (VelocityGap(p)[d] - c * Normal[p][d])
      BY <1>2, <2>6, PressureFacts
    <3> QED BY <2>4, <2>5, <3>1
  <2>9. u1 * u1 + u2 * u2 + u3 * u3 = 1
    <3>1. Norm2(Normal[p]) = 1
      BY PlaneAssumption DEF PlaneAssumption
    <3> QED BY <2>4, <3>1 DEF Norm2, dotProd
  <2>10. dotProd(vec, Normal[p]) <= 0
    <3>1. dotProd(vec, Normal[p]) = m * (v1 - c * u1) * u1 + m * (v2 - c * u2) * u2 + m * (v3 - c * u3) * u3
      BY <2>4, <2>8 DEF dotProd
    <3>2. m * (v1 - c * u1) * u1 + m * (v2 - c * u2) * u2 + m * (v3 - c * u3) * u3
            = m * ((v1 * u1 + v2 * u2 + v3 * u3) - c * (u1 * u1 + u2 * u2 + u3 * u3))
      OBVIOUS
    <3>3. m * ((v1 * u1 + v2 * u2 + v3 * u3) - c * (u1 * u1 + u2 * u2 + u3 * u3)) = 0
      <4>1. (v1 * u1 + v2 * u2 + v3 * u3) - c * (u1 * u1 + u2 * u2 + u3 * u3) = 0
        BY <2>7, <2>9
      <4> QED BY <4>1
    <3> QED BY <3>1, <3>2, <3>3
  <2>11. NeverPulled'
    BY <1>1, <1>2, <2>1, <2>2, <2>10, AddsPush DEF InputsKept
  <2> DEFINE spring == [d \in 1 .. 3 |-> 0]
  <2>12. \A n \in PlaneNodes : \A d \in 1 .. 3 : SpringForce(n)'[d] = SpringForce(n)[d] + ShapeAt(p, n) * spring[d]
    <3> SUFFICES ASSUME NEW n \in PlaneNodes, NEW d \in 1 .. 3
                 PROVE  SpringForce(n)'[d] = SpringForce(n)[d] + ShapeAt(p, n) * spring[d]
      OBVIOUS
    <3>1. PICK s \in Int, x \in Int : s = ShapeAt(p, n) /\ x = SpringForce(n)[d]
      BY <1>2, ShapeFacts, SpringForceFine
    <3>2. x + s * 0 = x
      OBVIOUS
    <3> QED BY <1>4, <3>1, <3>2
  <2>13. dotProd(Apart(vec, spring), VelocityGap(p)) \in Nat
    <3>1. /\ Apart(vec, spring)[1] = m * (v1 - c * u1) /\ Apart(vec, spring)[2] = m * (v2 - c * u2)
          /\ Apart(vec, spring)[3] = m * (v3 - c * u3)
      BY <2>8 DEF Apart
    <3>2. dotProd(Apart(vec, spring), VelocityGap(p))
            = m * (v1 - c * u1) * v1 + m * (v2 - c * u2) * v2 + m * (v3 - c * u3) * v3
      BY <2>5, <3>1 DEF dotProd
    <3>3. PICK e \in Int : e = (v1 - c * u1) * v1 + (v2 - c * u2) * v2 + (v3 - c * u3) * v3
      OBVIOUS
    <3>4. e >= 0
      BY <2>7, <2>9, <3>3, Lagrange
    <3>5. m * (v1 - c * u1) * v1 + m * (v2 - c * u2) * v2 + m * (v3 - c * u3) * v3 = m * e
      BY <3>3
    <3>6. m * e \in Nat
      BY <3>4
    <3> QED BY <3>2, <3>5, <3>6
  <2>14. Dissipates'
    <3>1. \A d \in 1 .. 3 : vec[d] \in Int /\ spring[d] \in Int
      BY <2>1
    <3>2. velocity' = velocity
      BY <1>1 DEF InputsKept
    <3> HIDE DEF vec, spring
    <3> QED BY <1>2, <2>2, <2>12, <2>13, <3>1, <3>2, AddsWork
  <2> QED BY <1>3, <2>3, <2>11, <2>14 DEF PlaneIInv
<1> QED BY <1>5, <1>6

\* The vote and the ends of the loops change no force.
LEMMA QuietHolds ==
  ASSUME PlaneIInv, InputsKept, force' = force, inContact' = inContact, pressure' = pressure,
         pending' \subseteq Planes, loop' # "normal" \/ (loop' = loop /\ pending' = pending)
  PROVE  PlaneIInv'
<1>1. InputsFine' /\ ForcesFine' /\ ForcesCancel' /\ NeverPulled'
  BY KeptFine, ForceKept DEF PlaneIInv
<1>2. PlanesFine'
  BY DEF PlaneIInv, PlanesFine
<1>3. ASSUME NEW n \in PlaneNodes, NEW d \in 1 .. 3 PROVE SpringForce(n)'[d] = SpringForce(n)[d]
  <2>1. PlanesInContact' = PlanesInContact
    BY DEF PlanesInContact
  <2> QED BY <2>1, SpringForceIs, SpringForceIsNext
<1>4. Dissipates'
  BY <1>3, SameSprings DEF PlaneIInv, InputsKept
<1> QED BY <1>1, <1>2, <1>4 DEF PlaneIInv

\* Every step of an update keeps the invariant.
LEMMA PlaneStepHolds == ASSUME PlaneIInv, [PlaneNext]_planeVars PROVE PlaneIInv'
<1>0. pending \subseteq Planes
  BY DEF PlaneIInv, PlanesFine
<1>1. ASSUME NEW p \in Planes, OutOfReach(p) PROVE PlaneIInv'
  BY <1>1, OutOfReachHolds
<1>2. ASSUME NEW p \in Planes, ApplyNormal(p) PROVE PlaneIInv'
  BY <1>2, ApplyNormalHolds
<1>3. ASSUME NEW p \in Planes, ApplyTangential(p) PROVE PlaneIInv'
  BY <1>3, ApplyTangentialHolds
<1>4. ASSUME NEW p \in Planes, Vote(p) PROVE PlaneIInv'
  <2>1. /\ InputsKept /\ force' = force /\ inContact' = inContact /\ pressure' = pressure
        /\ pending' \subseteq Planes /\ loop' # "normal"
    BY <1>0, <1>4 DEF Vote, NextPlane, InputsKept, inputVars
  <2> QED BY <2>1, QuietHolds
<1>5. CASE EndNormal
  <2>1. /\ InputsKept /\ force' = force /\ inContact' = inContact /\ pressure' = pressure
        /\ pending' \subseteq Planes /\ loop' # "normal"
    BY <1>5 DEF EndNormal, InputsKept, inputVars
  <2> QED BY <2>1, QuietHolds
<1>6. CASE EndTangential
  <2>1. /\ InputsKept /\ force' = force /\ inContact' = inContact /\ pressure' = pressure
        /\ pending' \subseteq Planes /\ loop' # "normal"
    BY <1>6 DEF EndTangential, InputsKept, inputVars
  <2> QED BY <2>1, QuietHolds
<1>7. CASE EndVote
  <2>1. /\ InputsKept /\ force' = force /\ inContact' = inContact /\ pressure' = pressure
        /\ pending' \subseteq Planes /\ loop' # "normal"
    BY <1>0, <1>7 DEF EndVote, InputsKept, inputVars
  <2> QED BY <2>1, QuietHolds
<1>8. CASE UNCHANGED planeVars
  <2>1. /\ InputsKept /\ force' = force /\ inContact' = inContact /\ pressure' = pressure
        /\ pending' = pending /\ loop' = loop
    BY <1>8 DEF planeVars, InputsKept
  <2> QED BY <1>0, <2>1, QuietHolds
<1> QED BY <1>1, <1>2, <1>3, <1>4, <1>5, <1>6, <1>7, <1>8 DEF PlaneNext

\* What the invariant says of the forces once the update is over.
LEMMA PlaneInvGives ==
  ASSUME PlaneIInv PROVE Sum3(force) = Zero3 /\ PenaltyNeverPulls /\ DampingDissipates
<1>1. Sum3(force) = Zero3
  <2>1. \A d \in 1 .. 3 : Sum3(force)[d] = 0
    BY DEF PlaneIInv, ForcesCancel, Sum3, SumFunction
  <2>2. Sum3(force) = [d \in 1 .. 3 |-> Sum3(force)[d]]
    BY DEF Sum3
  <2>3. Zero3 = [d \in 1 .. 3 |-> 0]
    BY DEF Zero3
  <2> QED BY <2>1, <2>2, <2>3
<1>2. PenaltyNeverPulls
  BY DEF PlaneIInv, NeverPulled, OfFace1, PenaltyNeverPulls
<1>3. DampingDissipates
  <2> DEFINE f == [n \in PlaneNodes |-> dotProd(Apart(force[n], SpringForce(n)), velocity[n])]
  <2>1. Work(Damping) = SumFunctionOnSet(f, PlaneNodes)
    <3>1. f = [n \in PlaneNodes |-> dotProd(Damping[n], velocity[n])]
      BY DEF Damping
    <3> HIDE DEF f
    <3> QED BY <3>1 DEF Work
  <2>2. SumFunction(f) = SumFunctionOnSet(f, PlaneNodes)
    BY DEF SumFunction
  <2>3. Work(Damping) <= 0
    BY DEF PlaneIInv, Dissipates
  <2> QED BY <2>1, <2>2, <2>3 DEF DampingDissipates
<1> QED BY <1>1, <1>2, <1>3

-----------------------------------------------------------------------------
(* The time step vote. *)

\* A finite set of integers has a least one, and it is what Min chooses.
LEMMA MinIs ==
  ASSUME NEW S, IsFiniteSet(S), S # {}, \A x \in S : x \in Int
  PROVE  Min(S) \in S /\ \A x \in S : Min(S) <= x
<1> DEFINE Good == {U \in SUBSET S : U # {} => \E m \in U : \A x \in U : m <= x}
<1>1. {} \in Good
  OBVIOUS
<1>2. ASSUME NEW U \in SUBSET S, U # {}, \A x \in U : U \ {x} \in Good
      PROVE  U \in Good
  <2>1. PICK x \in U : U \ {x} \in Good
    BY <1>2
  <2>2. CASE U \ {x} = {}
    BY <2>1, <2>2
  <2>3. CASE U \ {x} # {}
    <3>1. PICK m \in U \ {x} : \A y \in U \ {x} : m <= y
      BY <2>1, <2>3
    <3>2. CASE m <= x
      BY <3>1, <3>2
    <3>3. CASE ~(m <= x)
      <4>1. \A y \in U : x <= y
        BY <2>1, <3>1, <3>3
      <4> QED BY <2>1, <4>1
    <3> QED BY <3>2, <3>3
  <2> QED BY <2>2, <2>3
<1>3. S \in Good
  <2> HIDE DEF Good
  <2> QED BY <1>1, <1>2, SetInduction
<1>4. \E m \in S : \A x \in S : m <= x
  BY <1>3
<1> QED BY <1>4 DEF Min

\* The step is one of those it is chosen from, and no longer than any of them.
LEMMA MinFacts ==
  ASSUME NEW old \in Int, old > 0, LargeDt \in Int, LargeDt > 0, NEW dts, IsFiniteSet(dts), \A d \in dts : d \in Int
  PROVE  /\ atomicMin(old, dts) \in 1 .. old
         /\ \A d \in dts : d > 0 => atomicMin(old, dts) <= d
<1> DEFINE S == {old, LargeDt} \cup {d \in dts : d > 0}
<1>1. IsFiniteSet(S)
  <2>1. IsFiniteSet({d \in dts : d > 0})
    BY FS_Subset
  <2>2. IsFiniteSet({old, LargeDt})
    <3>1. IsFiniteSet({old})
      BY FS_Singleton
    <3>2. IsFiniteSet({old} \cup {LargeDt})
      BY <3>1, FS_AddElement
    <3>3. {old, LargeDt} = {old} \cup {LargeDt}
      OBVIOUS
    <3> QED BY <3>2, <3>3
  <2> QED BY <2>1, <2>2, FS_Union
<1>2. old \in S /\ \A x \in S : x \in Int /\ x > 0
  OBVIOUS
<1>3. \A d \in dts : d > 0 => d \in S
  OBVIOUS
<1>4. atomicMin(old, dts) = Min(S)
  BY DEF atomicMin
<1> HIDE DEF S
<1>5. PICK m : m = Min(S)
  OBVIOUS
<1>6. m \in S /\ \A x \in S : m <= x
  <2>1. S # {} /\ \A x \in S : x \in Int
    BY <1>2
  <2> QED BY <1>1, <1>5, <2>1, MinIs
<1>7. m \in Int /\ m > 0 /\ m <= old
  BY <1>2, <1>6
<1> QED BY <1>3, <1>4, <1>5, <1>6, <1>7

\* Largest of three, for the bound of an overlap.
LEMMA MaxFacts ==
  ASSUME NEW a \in Int, NEW b \in Int, NEW c \in Int
  PROVE  /\ Max({a, b, c}) \in Int
         /\ \A o \in Int : o <= Max({a, b, c}) <=> (o <= a \/ o <= b \/ o <= c)
<1>1. \E m \in {a, b, c} : \A x \in {a, b, c} : m >= x
  BY SMT
<1>2. Max({a, b, c}) \in {a, b, c} /\ \A x \in {a, b, c} : Max({a, b, c}) >= x
  BY <1>1 DEF Max
<1>3. PICK m : m = Max({a, b, c})
  OBVIOUS
<1> QED BY <1>2, <1>3

\* How fast a face moves along the overlap normal, and how far it may.
Along1(p) == dotProd(VelocityOn(p.face1, p.on1), Normal[p])
Along2(p) == dotProd(VelocityOn(p.face2, p.on2), Normal[p])

\* How fast a face moves along the normal is an integer.
LEMMA SpeedFacts ==
  ASSUME InputsFine, NEW p \in Planes
  PROVE  /\ Along1(p) \in Int /\ Along2(p) \in Int /\ gapOf[p] \in Int
         /\ dotProd(VelocityGap(p), Normal[p]) = Along1(p) - Along2(p)
         /\ \A c \in Int : dotProd(Scaled3(c, Normal[p]), Normal[p]) = c
         /\ MaxDelta(p.side1) \in Int /\ MaxDelta(p.side2) \in Int
         /\ thickness[p.side1] > 0 => MaxDelta(p.side1) > 0 /\ -Along1(p) <= TimestepScale * MaxDelta(p.side1)
         /\ thickness[p.side2] > 0 => MaxDelta(p.side2) > 0 /\ Along2(p) <= TimestepScale * MaxDelta(p.side2)
<1>0. \A d \in 1 .. 3 :
        /\ VelocityOn(p.face1, p.on1)[d] \in Int /\ VelocityOn(p.face2, p.on2)[d] \in Int
        /\ VelocityGap(p)[d] = VelocityOn(p.face1, p.on1)[d] - VelocityOn(p.face2, p.on2)[d]
  BY VelocityFacts
<1>1. PICK a1 \in Int, a2 \in Int, a3 \in Int :
        /\ a1 = VelocityOn(p.face1, p.on1)[1] /\ a2 = VelocityOn(p.face1, p.on1)[2] /\ a3 = VelocityOn(p.face1, p.on1)[3]
  BY <1>0
<1>2. PICK b1 \in Int, b2 \in Int, b3 \in Int :
        /\ b1 = VelocityOn(p.face2, p.on2)[1] /\ b2 = VelocityOn(p.face2, p.on2)[2] /\ b3 = VelocityOn(p.face2, p.on2)[3]
  BY <1>0
<1>3. PICK n1 \in Int, n2 \in Int, n3 \in Int : n1 = Normal[p][1] /\ n2 = Normal[p][2] /\ n3 = Normal[p][3]
  BY SchemeFacts
<1>4. Along1(p) = a1 * n1 + a2 * n2 + a3 * n3 /\ Along2(p) = b1 * n1 + b2 * n2 + b3 * n3
  BY <1>1, <1>2, <1>3 DEF Along1, Along2, dotProd
<1>5. VelocityGap(p)[1] = a1 - b1 /\ VelocityGap(p)[2] = a2 - b2 /\ VelocityGap(p)[3] = a3 - b3
  BY <1>0, <1>1, <1>2
<1>6. dotProd(VelocityGap(p), Normal[p]) = (a1 - b1) * n1 + (a2 - b2) * n2 + (a3 - b3) * n3
  BY <1>3, <1>5 DEF dotProd
<1>7. (a1 - b1) * n1 + (a2 - b2) * n2 + (a3 - b3) * n3 = (a1 * n1 + a2 * n2 + a3 * n3) - (b1 * n1 + b2 * n2 + b3 * n3)
  OBVIOUS
<1>8. n1 * n1 + n2 * n2 + n3 * n3 = 1
  BY <1>3, PlaneAssumption DEF PlaneAssumption, Norm2, dotProd
<1>9. ASSUME NEW c \in Int PROVE dotProd(Scaled3(c, Normal[p]), Normal[p]) = c
  <2>1. dotProd(Scaled3(c, Normal[p]), Normal[p]) = (c * n1) * n1 + (c * n2) * n2 + (c * n3) * n3
    BY <1>3 DEF dotProd, Scaled3
  <2>2. (c * n1) * n1 + (c * n2) * n2 + (c * n3) * n3 = c * (n1 * n1 + n2 * n2 + n3 * n3)
    OBVIOUS
  <2> QED BY <1>8, <2>1, <2>2
<1>10. thickness[p.side1] \in Int /\ thickness[p.side2] \in Int
  BY SideFacts
<1>11. PenFrac \in Nat \ {0} /\ TimestepScale \in Nat \ {0}
  BY PlaneAssumption DEF PlaneAssumption
<1>12. MaxDelta(p.side1) = PenFrac * thickness[p.side1] /\ MaxDelta(p.side2) = PenFrac * thickness[p.side2]
  BY DEF MaxDelta
<1>13. /\ MaxDelta(p.side1) \in Int /\ (thickness[p.side1] > 0 => MaxDelta(p.side1) > 0)
       /\ MaxDelta(p.side2) \in Int /\ (thickness[p.side2] > 0 => MaxDelta(p.side2) > 0)
  BY <1>10, <1>11, <1>12
<1>14. /\ thickness[p.side1] > 0 => -Along1(p) <= TimestepScale * MaxDelta(p.side1)
       /\ thickness[p.side2] > 0 => Along2(p) <= TimestepScale * MaxDelta(p.side2)
  <2>1. velocity \in Motions /\ thickness \in Thicknesses
    BY DEF InputsFine
  <2> QED BY <1>12, <2>1, PlaneAssumption DEF PlaneAssumption, Along1, Along2, VelocityOn
<1> QED BY <1>4, <1>6, <1>7, <1>9, <1>13, <1>14, SchemeFacts

\* Planes the vote says something of, and what it says of a step.
ParallelThick(p) == Parallel(p) /\ thickness[p.side1] > 0 /\ thickness[p.side2] > 0
Limited(p, t) ==
  \/ OverlapAfter(p, t) <= Max({OverlapAfter(p, 0), MaxDelta(p.side1), MaxDelta(p.side2)})
  \/ OverlapAfter(p, t) - OverlapAfter(p, 0) <= TimestepScale * (MaxDelta(p.side1) + MaxDelta(p.side2))

\* How deep the overlap of a plane is after a time.
LEMMA OverlapFacts ==
  ASSUME InputsFine, NEW p \in Planes, NEW t \in Int
  PROVE  /\ OverlapAfter(p, t) \in Int /\ OverlapAfter(p, 0) = -gapOf[p]
         /\ OverlapAfter(p, t) = OverlapAfter(p, 0) + t * (Along2(p) - Along1(p))
<1>1. PICK g \in Int, s1 \in Int, s2 \in Int : g = gapOf[p] /\ s1 = Along1(p) /\ s2 = Along2(p)
  BY SpeedFacts
<1>2. dotProd(VelocityGap(p), Normal[p]) = s1 - s2
  BY <1>1, SpeedFacts
<1>3. OverlapAfter(p, t) = -(g + t * (s1 - s2)) /\ OverlapAfter(p, 0) = -(g + 0 * (s1 - s2))
  BY <1>1, <1>2 DEF OverlapAfter
<1>4. 0 * (s1 - s2) = 0 /\ t * (s1 - s2) = -(t * (s2 - s1)) /\ t * (s1 - s2) \in Int /\ t * (s2 - s1) \in Int
  OBVIOUS
<1> QED BY <1>1, <1>3, <1>4

\* A step that is short enough for a plane stays so when it is shortened.
LEMMA ShorterLimited ==
  ASSUME InputsFine, NEW p \in Planes, NEW t \in Nat, NEW u \in Nat, u <= t, Limited(p, t)
  PROVE  Limited(p, u)
<1>0. /\ OverlapAfter(p, 0) \in Int /\ OverlapAfter(p, t) \in Int /\ OverlapAfter(p, u) \in Int
      /\ Along1(p) \in Int /\ Along2(p) \in Int
  <2>1. 0 \in Int /\ t \in Int /\ u \in Int
    OBVIOUS
  <2> QED BY <2>1, OverlapFacts, SpeedFacts
<1>1. PICK o0 \in Int, ot \in Int, ou \in Int, s \in Int :
        /\ o0 = OverlapAfter(p, 0) /\ ot = OverlapAfter(p, t) /\ ou = OverlapAfter(p, u) /\ s = Along2(p) - Along1(p)
  BY <1>0
<1>2. ot = o0 + t * s /\ ou = o0 + u * s
  BY <1>1, OverlapFacts
<1>3. PICK d1 \in Int, d2 \in Int : d1 = MaxDelta(p.side1) /\ d2 = MaxDelta(p.side2)
  BY SpeedFacts
<1>4. \A o \in Int : o <= Max({o0, d1, d2}) <=> (o <= o0 \/ o <= d1 \/ o <= d2)
  BY MaxFacts
<1>5. CASE s <= 0
  <2>1. u * s <= 0
    BY <1>5
  <2>2. ou <= o0
    BY <1>2, <2>1
  <2> QED BY <1>1, <1>3, <1>4, <2>2 DEF Limited
<1>6. CASE s > 0
  <2>1. u * s <= t * s
    BY <1>6
  <2>2. ou <= ot
    BY <1>2, <2>1
  <2>3. CASE ot <= Max({o0, d1, d2})
    <3>1. ou <= Max({o0, d1, d2})
      BY <1>4, <2>2, <2>3
    <3> QED BY <1>1, <1>3, <3>1 DEF Limited
  <2>4. CASE ot - o0 <= TimestepScale * (d1 + d2)
    <3>1. PICK c \in Int : c = TimestepScale * (d1 + d2)
      BY PlaneAssumption DEF PlaneAssumption
    <3>2. ou - o0 <= c
      BY <2>2, <2>4, <3>1
    <3> QED BY <1>1, <1>3, <3>1, <3>2 DEF Limited
  <2> QED BY <1>1, <1>3, <2>3, <2>4 DEF Limited
<1> QED BY <1>5, <1>6

\* What the vote projects on the normals of the faces, when those are parallel.
LEMMA Projections ==
  ASSUME InputsFine, NEW p \in Planes, Parallel(p), dt \in Nat
  PROVE  /\ dotProd(Projected(p), p.normal2) = -OverlapAfter(p, dt)
         /\ dotProd(Projected(p), p.normal1) = OverlapAfter(p, dt)
         /\ dotProd(VelocityOn(p.face1, p.on1), p.normal1) = -Along1(p)
         /\ dotProd(VelocityOn(p.face2, p.on2), p.normal2) = Along2(p)
<1>0. \A d \in 1 .. 3 : VelocityOn(p.face1, p.on1)[d] \in Int /\ VelocityGap(p)[d] \in Int /\ Normal[p][d] \in Int
  BY SchemeFacts, VelocityFacts
<1>1. PICK a1 \in Int, a2 \in Int, a3 \in Int :
        /\ a1 = VelocityOn(p.face1, p.on1)[1] /\ a2 = VelocityOn(p.face1, p.on1)[2] /\ a3 = VelocityOn(p.face1, p.on1)[3]
  BY <1>0
<1>2. PICK v1 \in Int, v2 \in Int, v3 \in Int :
        v1 = VelocityGap(p)[1] /\ v2 = VelocityGap(p)[2] /\ v3 = VelocityGap(p)[3]
  BY <1>0
<1>3. PICK n1 \in Int, n2 \in Int, n3 \in Int : n1 = Normal[p][1] /\ n2 = Normal[p][2] /\ n3 = Normal[p][3]
  BY <1>0
<1>4. PICK g \in Int : g = gapOf[p]
  BY SpeedFacts
<1>5. p.normal2 = Normal[p] /\ p.normal1[1] = -n1 /\ p.normal1[2] = -n2 /\ p.normal1[3] = -n3
  BY <1>3 DEF Parallel, Scaled3
<1>6. /\ Projected(p)[1] = g * n1 + dt * v1 /\ Projected(p)[2] = g * n2 + dt * v2 /\ Projected(p)[3] = g * n3 + dt * v3
  BY <1>2, <1>3, <1>4 DEF Projected, Plus3, Scaled3, GapVector
<1>7. g * (n1 * n1 + n2 * n2 + n3 * n3) = g
  <2>1. n1 * n1 + n2 * n2 + n3 * n3 = 1
    BY <1>3, PlaneAssumption DEF PlaneAssumption, Norm2, dotProd
  <2> QED BY <2>1
<1>8. PICK w \in Int : w = v1 * n1 + v2 * n2 + v3 * n3
  OBVIOUS
<1>9. (g * n1 + dt * v1) * n1 + (g * n2 + dt * v2) * n2 + (g * n3 + dt * v3) * n3
        = g * (n1 * n1 + n2 * n2 + n3 * n3) + dt * (v1 * n1 + v2 * n2 + v3 * n3)
  OBVIOUS
<1>10. OverlapAfter(p, dt) = -(g + dt * w)
  BY <1>2, <1>3, <1>4, <1>8 DEF OverlapAfter, dotProd
<1>11. dotProd(Projected(p), p.normal2) = g + dt * w
  BY <1>3, <1>5, <1>6, <1>7, <1>8, <1>9 DEF dotProd
<1>12. dotProd(Projected(p), p.normal1) = -(g + dt * w)
  <2>1. (g * n1 + dt * v1) * (-n1) + (g * n2 + dt * v2) * (-n2) + (g * n3 + dt * v3) * (-n3)
          = -((g * n1 + dt * v1) * n1 + (g * n2 + dt * v2) * n2 + (g * n3 + dt * v3) * n3)
    OBVIOUS
  <2> QED BY <1>5, <1>6, <1>7, <1>8, <1>9, <2>1 DEF dotProd
<1>13. dotProd(VelocityOn(p.face1, p.on1), p.normal1) = -Along1(p)
  <2>1. a1 * (-n1) + a2 * (-n2) + a3 * (-n3) = -(a1 * n1 + a2 * n2 + a3 * n3)
    OBVIOUS
  <2> QED BY <1>1, <1>3, <1>5, <2>1 DEF Along1, dotProd
<1>14. dotProd(VelocityOn(p.face2, p.on2), p.normal2) = Along2(p)
  BY <1>5 DEF Along2
<1>15. dt * w \in Int
  OBVIOUS
<1> QED BY <1>10, <1>11, <1>12, <1>13, <1>14, <1>15

\* A step no longer than what a face may take, at its velocity.
LEMMA QuotientStep ==
  ASSUME NEW a \in Int, NEW v \in Int, v > 0, v <= a, NEW t \in Int, t <= a \div v
  PROVE  a \div v > 0 /\ t * v <= a
<1>1. a \div v >= 1 /\ a \div v \in Int /\ (a \div v) * v <= a
  BY SMT
<1>2. t * v <= (a \div v) * v
  BY <1>1
<1> QED BY <1>1, <1>2

\* A step that passes the vote of a plane lets its overlap grow no more than it may.
LEMMA VoteLimits ==
  ASSUME InputsFine, NEW p \in Planes, ParallelThick(p), dt \in Nat, NEW t \in Nat, t <= dt,
         \A d \in VoteCheck2(p) : d > 0 => t <= d
  PROVE  Limited(p, t)
<1>1. PICK s1 \in Int, s2 \in Int, d1 \in Int, d2 \in Int :
        /\ s1 = Along1(p) /\ s2 = Along2(p) /\ d1 = MaxDelta(p.side1) /\ d2 = MaxDelta(p.side2)
  BY SpeedFacts
<1>2. d1 > 0 /\ d2 > 0 /\ -s1 <= TimestepScale * d1 /\ s2 <= TimestepScale * d2
  BY <1>1, SpeedFacts DEF ParallelThick
<1>3. PICK c1 \in Int, c2 \in Int : c1 = TimestepScale * d1 /\ c2 = TimestepScale * d2 /\ TimestepScale * (d1 + d2) = c1 + c2
                                    /\ c1 >= 0 /\ c2 >= 0
  <2>1. PICK k \in Nat : k = TimestepScale
    BY PlaneAssumption DEF PlaneAssumption
  <2>2. k * (d1 + d2) = k * d1 + k * d2 /\ k * d1 >= 0 /\ k * d2 >= 0
    BY <1>2
  <2> QED BY <2>1, <2>2
<1>4. dt \in Int /\ t \in Int /\ 0 \in Int
  OBVIOUS
<1>5. PICK o0 \in Int, od \in Int, ot \in Int :
        o0 = OverlapAfter(p, 0) /\ od = OverlapAfter(p, dt) /\ ot = OverlapAfter(p, t)
  BY <1>4, OverlapFacts
<1>6. od = o0 + dt * (s2 - s1) /\ ot = o0 + t * (s2 - s1)
  BY <1>1, <1>4, <1>5, OverlapFacts
<1>7. \A o \in Int : o <= Max({o0, d1, d2}) <=> (o <= o0 \/ o <= d1 \/ o <= d2)
  BY MaxFacts
<1>8. ot <= o0 \/ ot <= d1 \/ ot <= d2 \/ ot - o0 <= c1 + c2 => Limited(p, t)
  BY <1>1, <1>3, <1>5, <1>7 DEF Limited
<1>9. CASE s2 - s1 <= 0
  <2>1. t * (s2 - s1) <= 0
    BY <1>9
  <2> QED BY <1>6, <1>8, <2>1
<1>10. CASE s2 - s1 > 0
  <2>1. t * (s2 - s1) <= dt * (s2 - s1)
    BY <1>10
  <2>2. ot <= od
    BY <1>6, <2>1
  <2>3. CASE od <= d1 \/ od <= d2
    BY <1>8, <2>2, <2>3
  <2>4. CASE od > d1 /\ od > d2
    <3>1. ASSUME s1 < 0 PROVE t * (-s1) <= c1
      <4>1. Nears1(p) /\ Larger(0, MaxDelta(p.side1)) = d1
        BY <1>1, <1>2, <3>1 DEF Nears1, Along1, Larger
      <4>2. ExceedsThen1(p)
        BY <1>5, <2>4, <4>1, Projections DEF ExceedsThen1, ParallelThick
      <4>3. Dt1(p, ExceedsThen1(p)) = c1 \div (-s1)
        BY <1>1, <1>3, <3>1, <4>2, Projections DEF Dt1, DtOf, ParallelThick
      <4>4. c1 \div (-s1) > 0 => t <= c1 \div (-s1)
        BY <4>3 DEF VoteCheck2
      <4>5. -s1 \in Int /\ -s1 > 0 /\ -s1 <= c1
        BY <1>2, <1>3, <3>1
      <4>6. c1 \div (-s1) >= 1
        BY <4>5, SMT
      <4> QED BY <4>4, <4>5, <4>6, QuotientStep
    <3>2. ASSUME s2 > 0 PROVE t * s2 <= c2
      <4>1. Nears2(p) /\ Larger(0, MaxDelta(p.side2)) = d2
        BY <1>1, <1>2, <3>2 DEF Nears2, Along2, Larger
      <4>2. ExceedsThen2(p)
        BY <1>5, <2>4, <4>1, Projections DEF ExceedsThen2, ParallelThick
      <4>3. Dt2(p, ExceedsThen2(p)) = c2 \div s2
        BY <1>1, <1>3, <3>2, <4>2, Projections DEF Dt2, DtOf, ParallelThick
      <4>4. c2 \div s2 > 0 => t <= c2 \div s2
        BY <4>3 DEF VoteCheck2
      <4>5. s2 \in Int /\ s2 > 0 /\ s2 <= c2
        BY <1>2, <1>3, <3>2
      <4>6. c2 \div s2 >= 1
        BY <4>5, SMT
      <4> QED BY <4>4, <4>5, <4>6, QuotientStep
    <3>3. t * (s2 - s1) = t * s2 + t * (-s1) /\ t * s2 \in Int /\ t * (-s1) \in Int
      OBVIOUS
    <3>4. (s1 >= 0 => t * (-s1) <= 0) /\ (s2 <= 0 => t * s2 <= 0)
      OBVIOUS
    <3>5. t * (s2 - s1) <= c1 + c2
      BY <1>3, <3>1, <3>2, <3>3, <3>4
    <3> QED BY <1>6, <1>8, <3>5
  <2> QED BY <2>3, <2>4
<1> QED BY <1>9, <1>10

-----------------------------------------------------------------------------
(* The inductive invariant of the vote. *)

Steps == 1 .. HostDt
VoteIInv ==
  /\ InputsFine /\ pending \subseteq Planes
  /\ dt \in Steps /\ dtTemp \in Steps \X Steps
  /\ ~Over => dt = HostDt
  /\ loop = "vote" => \A p \in Planes \ pending : ParallelThick(p) => Limited(p, dtTemp[2])
  /\ Over /\ scheme.vote => \A p \in Planes : ParallelThick(p) => Limited(p, dt)

\* What is asked of a step depends on the input alone.
LEMMA LimitedKept ==
  ASSUME InputsKept, NEW p, NEW t
  PROVE  ParallelThick(p)' = ParallelThick(p) /\ Limited(p, t)' = Limited(p, t)
<1>1. \A u : OverlapAfter(p, u)' = OverlapAfter(p, u)
  BY DEF InputsKept, OverlapAfter, VelocityGap, VelocityOn
<1>2. MaxDelta(p.side1)' = MaxDelta(p.side1) /\ MaxDelta(p.side2)' = MaxDelta(p.side2)
  BY DEF InputsKept, MaxDelta
<1> QED BY <1>1, <1>2 DEF InputsKept, ParallelThick, Parallel, Limited

\* The first state has voted for nothing.
LEMMA VoteInitHolds == ASSUME PlaneInit PROVE VoteIInv
<1>1. HostDt \in Nat \ {0}
  BY PlaneAssumption DEF PlaneAssumption
<1> QED BY <1>1 DEF PlaneInit, VoteIInv, InputsFine, Steps, Over

\* What a plane votes for are integers.
LEMMA VotesAre ==
  ASSUME InputsFine, NEW p \in Planes
  PROVE  /\ IsFiniteSet(VoteCheck1(p)) /\ \A d \in VoteCheck1(p) : d \in Int
         /\ IsFiniteSet(VoteCheck2(p)) /\ \A d \in VoteCheck2(p) : d \in Int
<1>1. LargeDt \in Int
  BY PlaneAssumption DEF PlaneAssumption
<1>2. ASSUME NEW c \in Int, NEW v \in Int
      PROVE  (v > 0 => c \div v \in Int) /\ (v < 0 => -(c \div (-v)) \in Int)
  BY SMT
<1>3. ASSUME NEW e \in {p.side1, p.side2}, NEW v \in Int PROVE DtOf(MaxDelta(e), v) \in Int
  <2>1. PICK c \in Int : c = TimestepScale * MaxDelta(e)
    BY SideFacts, PlaneAssumption DEF PlaneAssumption, MaxDelta
  <2> QED BY <1>1, <1>2, <2>1 DEF DtOf
<1>4. /\ dotProd(VelocityOn(p.face1, p.on1), p.normal1) \in Int
      /\ dotProd(VelocityOn(p.face2, p.on2), p.normal2) \in Int
  <2>1. \A d \in 1 .. 3 : VelocityOn(p.face1, p.on1)[d] \in Int /\ VelocityOn(p.face2, p.on2)[d] \in Int
    BY VelocityFacts
  <2>2. \A d \in 1 .. 3 : p.normal1[d] \in Int /\ p.normal2[d] \in Int
    BY PlaneAssumption DEF PlaneAssumption
  <2>3. ASSUME NEW u, NEW n, \A d \in 1 .. 3 : u[d] \in Int /\ n[d] \in Int PROVE dotProd(u, n) \in Int
    BY <2>3 DEF dotProd
  <2> QED BY <2>1, <2>2, <2>3
<1>5. \A exceeds \in BOOLEAN : Dt1(p, exceeds) \in Int /\ Dt2(p, exceeds) \in Int
  BY <1>1, <1>3, <1>4 DEF Dt1, Dt2
<1>6. ASSUME NEW a, NEW b PROVE IsFiniteSet({a, b})
  <2>1. IsFiniteSet({a} \cup {b})
    BY FS_Singleton, FS_AddElement
  <2> QED BY <2>1
<1>7. IsFiniteSet({})
  BY FS_EmptySet
<1>8. ExceedsNow1(p) \in BOOLEAN /\ ExceedsNow2(p) \in BOOLEAN /\ ExceedsThen1(p) \in BOOLEAN /\ ExceedsThen2(p) \in BOOLEAN
  BY DEF ExceedsNow1, ExceedsNow2, ExceedsThen1, ExceedsThen2
<1>9. Dt1(p, ExceedsNow1(p)) \in Int /\ Dt2(p, ExceedsNow2(p)) \in Int
  BY <1>5, <1>8
<1>10. Dt1(p, ExceedsThen1(p)) \in Int /\ Dt2(p, ExceedsThen2(p)) \in Int
  BY <1>5, <1>8
<1> QED BY <1>6, <1>7, <1>9, <1>10 DEF VoteCheck1, VoteCheck2

\* A vote is short enough for its plane, and for those that have voted.
LEMMA VoteHolds == ASSUME VoteIInv, NEW p \in Planes, Vote(p) PROVE VoteIInv'
<1>1. /\ InputsKept /\ loop' = loop /\ dt' = dt /\ loop = "vote" /\ pending' = pending \ {p}
      /\ dtTemp' = <<atomicMin(dtTemp[1], VoteCheck1(p)), atomicMin(dtTemp[2], VoteCheck2(p))>>
  BY DEF Vote, NextPlane, InputsKept, inputVars
<1>2. InputsFine /\ InputsFine' /\ pending' \subseteq Planes /\ ~Over
  BY <1>1, KeptFine DEF VoteIInv, Over
<1>3. LargeDt \in Int /\ LargeDt > 0 /\ HostDt \in Nat
  BY PlaneAssumption DEF PlaneAssumption
<1>4. PICK t1 \in Nat, t2 \in Nat : t1 = dtTemp[1] /\ t2 = dtTemp[2] /\ t1 > 0 /\ t2 > 0 /\ t1 <= HostDt /\ t2 <= HostDt
  BY <1>3 DEF VoteIInv, Steps
<1>5. dt = HostDt
  BY <1>2 DEF VoteIInv
<1>6. /\ IsFiniteSet(VoteCheck1(p)) /\ \A d \in VoteCheck1(p) : d \in Int
      /\ IsFiniteSet(VoteCheck2(p)) /\ \A d \in VoteCheck2(p) : d \in Int
  BY <1>2, VotesAre
<1>7. PICK u1, u2 : u1 = atomicMin(t1, VoteCheck1(p)) /\ u2 = atomicMin(t2, VoteCheck2(p))
  OBVIOUS
<1>8. u1 \in 1 .. t1
  BY <1>3, <1>4, <1>6, <1>7, MinFacts
<1>9. u2 \in 1 .. t2 /\ \A d \in VoteCheck2(p) : d > 0 => u2 <= d
  BY <1>3, <1>4, <1>6, <1>7, MinFacts
<1>10. dtTemp' = <<u1, u2>>
  BY <1>1, <1>4, <1>7
<1>11. dtTemp' \in Steps \X Steps /\ dtTemp'[2] = u2 /\ dt' \in Steps
  BY <1>1, <1>3, <1>4, <1>8, <1>9, <1>10 DEF Steps, VoteIInv
<1>12. ASSUME NEW q \in Planes \ pending', ParallelThick(q) PROVE Limited(q, u2)
  <2>1. u2 \in Nat /\ u2 <= t2 /\ u2 <= dt
    BY <1>3, <1>4, <1>5, <1>9
  <2>2. CASE q = p
    BY <1>2, <1>3, <1>5, <1>9, <1>12, <2>1, <2>2, VoteLimits
  <2>3. CASE q # p
    <3>1. Limited(q, t2)
      BY <1>1, <1>4, <1>12, <2>3 DEF VoteIInv
    <3> QED BY <1>2, <1>4, <2>1, <3>1, ShorterLimited
  <2> QED BY <2>2, <2>3
<1>13. \A q \in Planes \ pending' : ParallelThick(q)' => Limited(q, dtTemp'[2])
  BY <1>1, <1>11, <1>12, LimitedKept
<1>14. \A q, t : Limited(q, t)' = Limited(q, t)
  BY <1>1, LimitedKept
<1> QED BY <1>1, <1>2, <1>5, <1>11, <1>13, <1>14 DEF VoteIInv, Over

\* Before the vote the steps stay those of the host.
LEMMA NoVoteHolds ==
  ASSUME VoteIInv, InputsKept, dt' = dt, dtTemp' = dtTemp, pending' \subseteq Planes, ~Over,
         \/ loop' = loop /\ loop # "vote"
         \/ loop' = "vote" /\ pending' = Planes
         \/ loop' = "tangential"
         \/ loop' = "over" /\ ~scheme.vote
  PROVE  VoteIInv'
<1>1. InputsFine' /\ scheme' = scheme
  BY KeptFine DEF VoteIInv, InputsKept
<1>2. dt' = HostDt /\ dt' \in Steps /\ dtTemp' \in Steps \X Steps
  BY DEF VoteIInv
<1>3. loop' = "vote" => Planes \ pending' = {}
  OBVIOUS
<1>4. ~(Over' /\ scheme'.vote)
  BY <1>1 DEF Over
<1> QED BY <1>1, <1>2, <1>3, <1>4 DEF VoteIInv

\* The end of the votes takes the shorter of both, or the step of the host.
LEMMA EndVoteHolds == ASSUME VoteIInv, EndVote PROVE VoteIInv'
<1>1. InputsKept /\ pending' = pending /\ pending = {} /\ loop = "vote" /\ loop' = "over" /\ dtTemp' = dtTemp
      /\ dt' = Min({dtTemp[1], dtTemp[2]})
  BY DEF EndVote, InputsKept, inputVars
<1>2. HostDt \in Nat
  BY PlaneAssumption DEF PlaneAssumption
<1>3. PICK t1 \in Nat, t2 \in Nat : t1 = dtTemp[1] /\ t2 = dtTemp[2] /\ t1 > 0 /\ t2 > 0 /\ t1 <= HostDt /\ t2 <= HostDt
  BY <1>2 DEF VoteIInv, Steps
<1>4. dt' \in {t1, t2} /\ dt' <= t1 /\ dt' <= t2
  <2> DEFINE S == {t1, t2}
  <2>1. IsFiniteSet({t1} \cup {t2})
    BY FS_Singleton, FS_AddElement
  <2>2. IsFiniteSet(S) /\ S # {} /\ (\A x \in S : x \in Int) /\ t1 \in S /\ t2 \in S
    BY <2>1
  <2>3. dt' = Min(S)
    BY <1>1, <1>3
  <2>4. Min(S) \in S /\ \A x \in S : Min(S) <= x
    <3> HIDE DEF S
    <3> QED BY <2>2, MinIs
  <2> QED BY <2>2, <2>3, <2>4
<1>5. dt' \in Steps /\ dt' \in Nat
  BY <1>2, <1>3, <1>4 DEF Steps
<1>6. InputsFine /\ InputsFine'
  BY <1>1, KeptFine DEF VoteIInv
<1>7. ASSUME NEW p \in Planes, ParallelThick(p) PROVE Limited(p, dt')
  <2>1. Limited(p, t2)
    BY <1>1, <1>3, <1>7 DEF VoteIInv
  <2> QED BY <1>3, <1>4, <1>5, <1>6, <2>1, ShorterLimited
<1>8. \A p, t : ParallelThick(p)' = ParallelThick(p) /\ Limited(p, t)' = Limited(p, t)
  BY <1>1, LimitedKept
<1>9. dtTemp' \in Steps \X Steps /\ pending' \subseteq Planes
  BY <1>1 DEF VoteIInv
<1> QED BY <1>1, <1>5, <1>6, <1>7, <1>8, <1>9 DEF VoteIInv, Over

\* Every step of an update keeps the invariant of the vote.
LEMMA VoteStepHolds == ASSUME VoteIInv, [PlaneNext]_planeVars PROVE VoteIInv'
<1>0. pending \subseteq Planes
  BY DEF VoteIInv
<1>1. ASSUME NEW p \in Planes, OutOfReach(p) \/ ApplyNormal(p) \/ ApplyTangential(p) PROVE VoteIInv'
  <2>1. InputsKept /\ dt' = dt /\ dtTemp' = dtTemp /\ pending' \subseteq Planes /\ ~Over /\ loop' = loop /\ loop # "vote"
    BY <1>0, <1>1 DEF OutOfReach, ApplyNormal, ApplyTangential, NextPlane, InputsKept, inputVars, Over
  <2> QED BY <2>1, NoVoteHolds
<1>2. ASSUME NEW p \in Planes, Vote(p) PROVE VoteIInv'
  BY <1>2, VoteHolds
<1>3. CASE EndNormal \/ EndTangential
  <2>1. InputsKept /\ dt' = dt /\ dtTemp' = dtTemp /\ pending' = Planes /\ ~Over
    BY <1>3 DEF EndNormal, EndTangential, InputsKept, inputVars, Over
  <2>2. loop' = "tangential" \/ loop' = "vote" \/ (loop' = "over" /\ ~scheme.vote)
    BY <1>3 DEF EndNormal, EndTangential
  <2> QED BY <2>1, <2>2, NoVoteHolds
<1>4. CASE EndVote
  BY <1>4, EndVoteHolds
<1>5. CASE UNCHANGED planeVars
  <2>1. /\ InputsKept /\ dt' = dt /\ dtTemp' = dtTemp /\ pending' = pending /\ loop' = loop /\ scheme' = scheme
    BY <1>5 DEF planeVars, InputsKept
  <2>2. InputsFine'
    BY <2>1, KeptFine DEF VoteIInv
  <2>3. \A p, t : ParallelThick(p)' = ParallelThick(p) /\ Limited(p, t)' = Limited(p, t)
    BY <2>1, LimitedKept
  <2> QED BY <2>1, <2>2, <2>3 DEF VoteIInv, Over
<1> QED BY <1>1, <1>2, <1>3, <1>4, <1>5 DEF PlaneNext

\* What it says once the update is over.
LEMMA VoteInvGives == ASSUME VoteIInv PROVE VoteLimitsGrowth
<1> SUFFICES ASSUME Over, scheme.vote
             PROVE  /\ dt \in 1 .. HostDt
                    /\ \A p \in {q \in Planes : Parallel(q) /\ thickness[q.side1] > 0 /\ thickness[q.side2] > 0} :
                         \/ OverlapAfter(p, dt) <= Max({OverlapAfter(p, 0), MaxDelta(p.side1), MaxDelta(p.side2)})
                         \/ OverlapAfter(p, dt) - OverlapAfter(p, 0) <= TimestepScale * (MaxDelta(p.side1) + MaxDelta(p.side2))
  BY DEF VoteLimitsGrowth
<1>1. dt \in Steps /\ \A p \in Planes : ParallelThick(p) => Limited(p, dt)
  BY DEF VoteIInv
<1> QED BY <1>1 DEF Steps, ParallelThick, Limited

LEMMA SumSingle ==
  ASSUME NEW f, NEW x, f[x] \in Int
  PROVE  SumFunctionOnSet(f, {x}) = f[x]
<1>1. IsFiniteSet({x}) /\ x \in {x} /\ \A y \in {x} : f[y] \in Int
  BY FS_Singleton
<1>2. SumFunctionOnSet(f, {x}) = f[x] + SumFunctionOnSet(f, {x} \ {x})
  BY <1>1, SumRemove
<1>3. {x} \ {x} = {}
  OBVIOUS
<1>4. SumFunctionOnSet(f, {}) = 0
  BY SumEmpty
<1> QED BY <1>2, <1>3, <1>4

\* The two coordinates of an index into a matrix that is stored as an array.
LEMMA IndexOf ==
  ASSUME NEW N \in Nat \ {0}, NEW a \in Nat, NEW b \in 0 .. (N - 1)
  PROVE  (N * a + b) \div N = a /\ (N * a + b) % N = b
OBVIOUS

\* Faces have finitely many corners, and meshes finitely many nodes.
LEMMA CornersFinite == IsFiniteSet(Corners) /\ IsFiniteSet(AllNodes) /\ Corners \subseteq Nat
BY FS_Interval, MortarAssumption DEF Corners, AllNodes, MortarAssumption

\* What is known of a pair.
LEMMA PairFacts ==
  ASSUME NEW p \in AllPairs
  PROVE  /\ p.face1 \in DOMAIN Faces1 /\ p.face2 \in DOMAIN Faces2 /\ IsFiniteSet(DOMAIN p.rule)
         /\ \A a \in Corners : NodeOf(Faces1[p.face1], a) \in AllNodes
         /\ \A a \in Corners : NodeOf(Faces2[p.face2], a) \in AllNodes /\ NodeOf(Faces2[p.face2], a) \in NonmortarNodes
<1>1. p.face1 \in DOMAIN Faces1 /\ p.face2 \in DOMAIN Faces2 /\ IsFiniteSet(DOMAIN p.rule)
  BY MortarAssumption DEF MortarAssumption
<1>2. IsFace(Faces1[p.face1]) /\ IsFace(Faces2[p.face2])
  BY <1>1, MortarAssumption DEF MortarAssumption
<1>3. \A a \in Corners : a + 1 \in 1 .. NumFaceVert
  BY MortarAssumption DEF Corners, MortarAssumption
<1>4. \A a \in Corners : NodeOf(Faces2[p.face2], a) \in Range(Faces2[p.face2])
  BY <1>2, <1>3 DEF IsFace, NodeOf, Range
<1>5. Range(Faces2[p.face2]) \subseteq NonmortarNodes
  BY <1>1 DEF NonmortarNodes
<1> QED BY <1>1, <1>2, <1>4, <1>5 DEF IsFace

\* A point of a quadrature rule.
LEMMA PointFacts ==
  ASSUME NEW p \in AllPairs, NEW i \in DOMAIN p.rule
  PROVE  /\ p.rule[i].wt \in Int
         /\ \A a \in Corners : p.rule[i].mortar[a + 1] \in Int /\ p.rule[i].nonmortar[a + 1] \in Int
         /\ SumFunctionOnSet([a \in Corners |-> p.rule[i].mortar[a + 1]], Corners)
              = SumFunctionOnSet([a \in Corners |-> p.rule[i].nonmortar[a + 1]], Corners)
         /\ SumFunctionOnSet([a \in Corners |-> p.rule[i].nonmortar[a + 1]], Corners) = SumFunction(p.rule[i].nonmortar)
<1>1. /\ p.rule[i].wt \in Int
      /\ p.rule[i].mortar \in [1 .. NumFaceVert -> Int] /\ p.rule[i].nonmortar \in [1 .. NumFaceVert -> Int]
      /\ SumFunction(p.rule[i].mortar) = SumFunction(p.rule[i].nonmortar)
  BY MortarAssumption DEF MortarAssumption
<1>2. NumFaceVert \in Nat \ {0}
  BY MortarAssumption DEF MortarAssumption
<1>3. \A a \in Corners : a + 1 \in 1 .. NumFaceVert
  BY <1>2 DEF Corners
<1>4. ASSUME NEW phi, DOMAIN phi = 1 .. NumFaceVert, \A x \in 1 .. NumFaceVert : phi[x] \in Int
      PROVE  SumFunctionOnSet([a \in Corners |-> phi[a + 1]], Corners) = SumFunction(phi)
  <2> DEFINE h == [a \in Corners |-> phi[a + 1]]
             before == [x \in 1 .. NumFaceVert |-> x - 1]
             places == 1 .. NumFaceVert
  <2>1. \A a \in Corners : h[a] = SumFunctionOnSet(phi, GroupOf(places, before, a))
    <3> SUFFICES ASSUME NEW a \in Corners PROVE h[a] = SumFunctionOnSet(phi, GroupOf(places, before, a))
      OBVIOUS
    <3>1. GroupOf(places, before, a) = {a + 1}
      BY <1>2 DEF Corners, GroupOf
    <3>2. phi[a + 1] \in Int
      BY <1>3, <1>4
    <3> QED BY <3>1, <3>2, SumSingle
  <2>2. \A x \in places : before[x] \in Corners
    BY <1>2 DEF Corners
  <2>3. IsFiniteSet(places) /\ \A x \in places : phi[x] \in Int
    BY <1>2, <1>4, FS_Interval
  <2>4. SumFunction(phi) = SumFunctionOnSet(phi, places)
    BY <1>4 DEF SumFunction
  <2> HIDE DEF h, before, places
  <2>5. SumFunctionOnSet(h, Corners) = SumFunctionOnSet(phi, places)
    <3>1. IsFiniteSet(Corners)
      BY CornersFinite
    <3>2. IsFiniteSet(places)
      BY <2>3
    <3>3. \A x \in places : phi[x] \in Int
      BY <2>3
    <3> QED BY <2>1, <2>2, <3>1, <3>2, <3>3, SumOfGroups
  <2> QED BY <2>4, <2>5 DEF h
<1>5. \A a \in Corners : p.rule[i].mortar[a + 1] \in Int /\ p.rule[i].nonmortar[a + 1] \in Int
  BY <1>1, <1>3
<1>6. SumFunctionOnSet([a \in Corners |-> p.rule[i].nonmortar[a + 1]], Corners) = SumFunction(p.rule[i].nonmortar)
  BY <1>1, <1>4
<1>7. SumFunctionOnSet([a \in Corners |-> p.rule[i].mortar[a + 1]], Corners) = SumFunction(p.rule[i].mortar)
  BY <1>1, <1>4
<1> QED BY <1>1, <1>5, <1>6, <1>7

\* What a point adds to a weight.
ShapeOf(ip, mortar, a) == IF mortar THEN ip.mortar[a + 1] ELSE ip.nonmortar[a + 1]
Terms(rule, a, b, mortar) == [i \in DOMAIN rule |-> rule[i].wt * ShapeOf(rule[i], mortar, a) * rule[i].nonmortar[b + 1]]

\* A weight is a sum over the points of the rule.
LEMMA WeightIs ==
  ASSUME NEW p \in AllPairs, NEW a \in Corners, NEW b \in Corners, NEW mortar \in BOOLEAN
  PROVE  /\ Weight(p.rule, a, b, mortar) = SumFunctionOnSet(Terms(p.rule, a, b, mortar), DOMAIN p.rule)
         /\ \A i \in DOMAIN p.rule : Terms(p.rule, a, b, mortar)[i] \in Int
         /\ Weight(p.rule, a, b, mortar) \in Int
<1>1. Weight(p.rule, a, b, mortar) = SumFunctionOnSet(Terms(p.rule, a, b, mortar), DOMAIN p.rule)
  <2> DEFINE f == [i \in DOMAIN p.rule |-> p.rule[i].wt *
                     (IF mortar THEN p.rule[i].mortar[a + 1] ELSE p.rule[i].nonmortar[a + 1]) * p.rule[i].nonmortar[b + 1]]
  <2>1. Weight(p.rule, a, b, mortar) = SumFunctionOnSet(f, DOMAIN p.rule)
    BY DEF Weight, SumFunction
  <2>2. f = Terms(p.rule, a, b, mortar)
    BY DEF Terms, ShapeOf
  <2> HIDE DEF f
  <2> QED BY <2>1, <2>2
<1>2. ASSUME NEW i \in DOMAIN p.rule PROVE Terms(p.rule, a, b, mortar)[i] \in Int
  <2>1. PICK w \in Int, x \in Int, y \in Int :
          w = p.rule[i].wt /\ x = ShapeOf(p.rule[i], mortar, a) /\ y = p.rule[i].nonmortar[b + 1]
    BY PointFacts DEF ShapeOf
  <2>2. w * x * y \in Int
    OBVIOUS
  <2> QED BY <2>1, <2>2 DEF Terms
<1>3. IsFiniteSet(DOMAIN p.rule)
  BY PairFacts
<1> QED BY <1>1, <1>2, <1>3, SumInt

\* The places of the array hold the weights they are meant for.
LEMMA WeightsAre ==
  ASSUME NEW p \in AllPairs, NEW a \in Corners, NEW b \in Corners
  PROVE  /\ getMortarNonmortarWt(MortarWeights[p], a, b) = Weight(p.rule, a, b, TRUE)
         /\ getNonmortarMortarWt(MortarWeights[p], a, b) = Weight(p.rule, b, a, TRUE)
         /\ getNonmortarNonmortarWt(MortarWeights[p], a, b) = Weight(p.rule, a, b, FALSE)
<1>1. PICK N \in Nat \ {0} : N = NumFaceVert
  BY MortarAssumption DEF MortarAssumption
<1>2. PICK S \in Nat \ {0} : S = Square4 /\ S = N * N
  BY <1>1 DEF Square4
<1>3. ASSUME NEW c \in 0 .. (N - 1), NEW e \in 0 .. (N - 1)
      PROVE  /\ MortarWeights[p][S + N * c + e] = Weight(p.rule, c, e, TRUE)
             /\ MortarWeights[p][N * c + e] = Weight(p.rule, c, e, FALSE)
  <2>1. N * c \in Nat /\ N * c + e \in 0 .. (S - 1)
    <3>1. N * c \in Nat /\ N * c <= N * (N - 1)
      OBVIOUS
    <3>2. N * (N - 1) = S - N
      BY <1>2
    <3> QED BY <1>2, <3>1, <3>2
  <2>2. (N * c + e) \div N = c /\ (N * c + e) % N = e
    BY IndexOf
  <2>3. (S * 0 + (N * c + e)) % S = N * c + e /\ (S * 1 + (N * c + e)) % S = N * c + e
    BY <1>2, <2>1, IndexOf
  <2>4. (N * (N + c) + e) % N = e
    BY IndexOf
  <2>5. S + N * c + e = N * (N + c) + e /\ S * 1 + (N * c + e) = S + N * c + e /\ S * 0 + (N * c + e) = N * c + e
    BY <1>2, <2>1
  <2>6. PICK k \in 0 .. (S - 1) : k = N * c + e
    BY <2>1
  <2>7. k \div N = c /\ k % N = e /\ k % S = k /\ (S + k) % S = k /\ (S + k) % N = e
    <3>1. S + N * c + e = S + k
      BY <1>2, <2>1, <2>6
    <3> QED BY <2>2, <2>3, <2>4, <2>5, <2>6, <3>1
  <2>8. \A j \in 0 .. (2 * S - 1) : MortarWeights[p][j] = Weight(p.rule, (j % S) \div N, j % N, j >= S)
    BY <1>1, <1>2 DEF MortarWeights, ComputeMortarWeights, NumWts
  <2>9. S + k \in 0 .. (2 * S - 1) /\ k \in 0 .. (2 * S - 1) /\ (S + k >= S) = TRUE /\ (k >= S) = FALSE
    BY <1>2, <2>6
  <2>10. MortarWeights[p][S + k] = Weight(p.rule, ((S + k) % S) \div N, (S + k) % N, S + k >= S)
    BY <2>8, <2>9
  <2>11. MortarWeights[p][k] = Weight(p.rule, (k % S) \div N, k % N, k >= S)
    BY <2>8, <2>9
  <2>12. MortarWeights[p][S + k] = Weight(p.rule, c, e, TRUE)
    BY <2>7, <2>9, <2>10
  <2>13. MortarWeights[p][k] = Weight(p.rule, c, e, FALSE)
    BY <2>7, <2>9, <2>11
  <2>14. S + N * c + e = S + k
    BY <1>2, <2>1, <2>6
  <2> QED BY <2>6, <2>12, <2>13, <2>14
<1>4. a \in 0 .. (N - 1) /\ b \in 0 .. (N - 1)
  BY <1>1 DEF Corners
<1> QED BY <1>1, <1>2, <1>3, <1>4 DEF getMortarNonmortarWt, getNonmortarMortarWt, getNonmortarNonmortarWt

\* Shape functions add up to the same on either face, and so do the weights of a nonmortar node.
LEMMA WeightsBalance ==
  ASSUME NEW p \in AllPairs, NEW b \in Corners
  PROVE  SumFunctionOnSet([a \in Corners |-> Weight(p.rule, a, b, TRUE)], Corners)
           = SumFunctionOnSet([a \in Corners |-> Weight(p.rule, a, b, FALSE)], Corners)
<1> DEFINE R == DOMAIN p.rule
           f(m) == [a \in Corners |-> Terms(p.rule, a, b, m)]
           g(m) == [a \in Corners |-> Weight(p.rule, a, b, m)]
           col(m, i) == [a \in Corners |-> f(m)[a][i]]
           columns(m) == [i \in R |-> col(m, i)]
           h(m) == [i \in R |-> SumFunctionOnSet(col(m, i), Corners)]
           shapes(m, i) == [a \in Corners |-> ShapeOf(p.rule[i], m, a)]
<1>1. IsFiniteSet(Corners)
  BY CornersFinite
<1>2. IsFiniteSet(R)
  BY PairFacts
<1>3. ASSUME NEW m \in BOOLEAN PROVE SumFunctionOnSet(g(m), Corners) = SumFunctionOnSet(h(m), R)
  <2>1. \A a \in Corners : f(m)[a] = Terms(p.rule, a, b, m)
    OBVIOUS
  <2>2. \A a \in Corners : \A i \in R : Terms(p.rule, a, b, m)[i] \in Int
    BY WeightIs
  <2>3. \A a \in Corners : \A i \in R : f(m)[a][i] \in Int
    BY <2>1, <2>2
  <2>4. \A a \in Corners : g(m)[a] = SumFunctionOnSet(f(m)[a], R)
    BY <2>1, WeightIs
  <2>5. \A a \in Corners : \A i \in R : columns(m)[i][a] = f(m)[a][i]
    OBVIOUS
  <2>6. \A i \in R : h(m)[i] = SumFunctionOnSet(columns(m)[i], Corners)
    OBVIOUS
  <2> HIDE DEF f, g, h, R, columns
  <2>7. IsTable(f(m), columns(m), Corners, R) /\ SumsOf(f(m), Corners, R, g(m)) /\ SumsOf(columns(m), R, Corners, h(m))
    BY <2>3, <2>4, <2>5, <2>6 DEF IsTable, SumsOf
  <2> QED BY <1>1, <1>2, <2>7, SumTransposed
<1>4. ASSUME NEW i \in R, NEW m \in BOOLEAN
      PROVE  h(m)[i] = (p.rule[i].wt * p.rule[i].nonmortar[b + 1]) * SumFunctionOnSet(shapes(m, i), Corners)
  <2>1. p.rule[i].wt \in Int /\ p.rule[i].nonmortar[b + 1] \in Int
    BY PointFacts
  <2>2. ASSUME NEW a \in Corners
        PROVE  /\ shapes(m, i)[a] \in Int
               /\ col(m, i)[a] = (p.rule[i].wt * p.rule[i].nonmortar[b + 1]) * shapes(m, i)[a]
    <3>1. PICK w \in Int, x \in Int, y \in Int :
            w = p.rule[i].wt /\ x = ShapeOf(p.rule[i], m, a) /\ y = p.rule[i].nonmortar[b + 1]
      BY PointFacts DEF ShapeOf
    <3>2. col(m, i)[a] = w * x * y
      BY <3>1 DEF Terms
    <3>3. shapes(m, i)[a] = x
      BY <3>1
    <3>4. w * x * y = (w * y) * x
      OBVIOUS
    <3> QED BY <3>1, <3>2, <3>3, <3>4
  <2>3. p.rule[i].wt * p.rule[i].nonmortar[b + 1] \in Int
    BY <2>1
  <2>4. h(m)[i] = SumFunctionOnSet(col(m, i), Corners)
    OBVIOUS
  <2> HIDE DEF shapes, col, h
  <2>5. SumFunctionOnSet(col(m, i), Corners)
          = (p.rule[i].wt * p.rule[i].nonmortar[b + 1]) * SumFunctionOnSet(shapes(m, i), Corners)
    BY <1>1, <2>2, <2>3, SumTimes
  <2> QED BY <2>4, <2>5
<1>5. \A i \in R : SumFunctionOnSet(shapes(TRUE, i), Corners) = SumFunctionOnSet(shapes(FALSE, i), Corners)
  <2> SUFFICES ASSUME NEW i \in R
               PROVE  SumFunctionOnSet(shapes(TRUE, i), Corners) = SumFunctionOnSet(shapes(FALSE, i), Corners)
    OBVIOUS
  <2>1. shapes(TRUE, i) = [a \in Corners |-> p.rule[i].mortar[a + 1]]
        /\ shapes(FALSE, i) = [a \in Corners |-> p.rule[i].nonmortar[a + 1]]
    BY DEF ShapeOf
  <2>2. SumFunctionOnSet([a \in Corners |-> p.rule[i].mortar[a + 1]], Corners)
          = SumFunctionOnSet([a \in Corners |-> p.rule[i].nonmortar[a + 1]], Corners)
    BY PointFacts
  <2> HIDE DEF shapes
  <2> QED BY <2>1, <2>2
<1>6. \A i \in R : h(TRUE)[i] = h(FALSE)[i]
  <2> SUFFICES ASSUME NEW i \in R PROVE h(TRUE)[i] = h(FALSE)[i]
    OBVIOUS
  <2> HIDE DEF h, shapes
  <2> QED BY <1>4, <1>5
<1> HIDE DEF h, g, R
<1>7. SumFunctionOnSet(h(TRUE), R) = SumFunctionOnSet(h(FALSE), R)
  BY <1>2, <1>6, SumSame
<1>8. SumFunctionOnSet(g(TRUE), Corners) = SumFunctionOnSet(g(FALSE), Corners)
  BY <1>3, <1>7
<1> QED BY <1>8 DEF g

\* Nodal normals are integers.
LEMMA NormalsFine ==
  ASSUME NEW n \in NonmortarNodes, NEW d \in 1 .. 3
  PROVE  NodalNormals[n][d] \in Int
<1> DEFINE A == {g \in DOMAIN Faces2 : n \in Range(Faces2[g])}
           F == [f \in A |-> ElementNormals[f]]
           h == [k \in DOMAIN F |-> F[k][d]]
<1>1. NodalNormals[n][d] = SumFunctionOnSet(h, A)
  BY DEF NodalNormals, Sum3, SumFunction
<1>2. \A k \in A : h[k] \in Int
  BY MortarAssumption DEF MortarAssumption
<1>3. IsFiniteSet(A)
  BY FS_Subset, MortarAssumption DEF MortarAssumption
<1> HIDE DEF h, A
<1> QED BY <1>1, <1>2, <1>3, SumInt

\* So is the contact force of a corner.
LEMMA ContactForceFine ==
  ASSUME NEW p \in AllPairs, NEW b \in Corners, NEW d \in 1 .. 3
  PROVE  ContactForce(p, b)[d] \in Int
<1>1. NodeOf(Faces2[p.face2], b) \in NonmortarNodes
  BY PairFacts
<1>2. PICK x \in Int, y \in Int : x = PressureAt(p.face2, b) /\ y = NormalAt(p.face2, b)[d]
  BY <1>1, NormalsFine, MortarAssumption DEF MortarAssumption, PressureAt, NormalAt
<1>3. x * y \in Int
  OBVIOUS
<1> QED BY <1>2, <1>3 DEF ContactForce, Scaled3

\* The sum of Sum3 over the corners at each node.
LEMMA OverNodes ==
  ASSUME NEW face, \A a \in Corners : NodeOf(face, a) \in AllNodes, NEW F, NEW d \in 1 .. 3,
         \A a \in Corners : F[a][d] \in Int
  PROVE  /\ SumFunctionOnSet([n \in AllNodes |-> Sum3([a \in CornersAt(face, n) |-> F[a]])[d]], AllNodes)
              = SumFunctionOnSet([a \in Corners |-> F[a][d]], Corners)
         /\ \A n \in AllNodes : Sum3([a \in CornersAt(face, n) |-> F[a]])[d] \in Int
<1> DEFINE f == [a \in Corners |-> F[a][d]]
           node == [a \in Corners |-> NodeOf(face, a)]
           h == [n \in AllNodes |-> Sum3([a \in CornersAt(face, n) |-> F[a]])[d]]
<1>1. IsFiniteSet(Corners) /\ IsFiniteSet(AllNodes)
  BY CornersFinite
<1>2. ASSUME NEW n \in AllNodes
      PROVE  h[n] = SumFunctionOnSet(f, GroupOf(Corners, node, n)) /\ h[n] \in Int
  <2> DEFINE A == CornersAt(face, n)
             G == [a \in A |-> F[a]]
             k == [a \in DOMAIN G |-> G[a][d]]
  <2>1. A = GroupOf(Corners, node, n) /\ A \subseteq Corners
    BY DEF CornersAt, GroupOf
  <2>2. h[n] = SumFunctionOnSet(k, A)
    BY DEF Sum3, SumFunction
  <2>3. \A a \in A : k[a] = f[a] /\ k[a] \in Int
    BY <2>1
  <2>4. IsFiniteSet(A)
    BY <1>1, <2>1, FS_Subset
  <2> HIDE DEF A, k, f, h, node
  <2> QED BY <2>1, <2>2, <2>3, <2>4, SumSame, SumInt
<1>3. \A a \in Corners : f[a] \in Int /\ node[a] \in AllNodes
  OBVIOUS
<1>4. \A n \in AllNodes : h[n] = Sum3([a \in CornersAt(face, n) |-> F[a]])[d]
  OBVIOUS
<1> HIDE DEF f, h, node
<1>5. SumFunctionOnSet(h, AllNodes) = SumFunctionOnSet(f, Corners)
  BY <1>1, <1>2, <1>3, SumOfGroups
<1> QED BY <1>2, <1>4, <1>5 DEF f, h

\* The forces on one face of a pair.
FaceForces(m, p, mortar) == [a \in Corners |-> ForceOnCorner(m, p, MortarWeights[p], mortar, a)]

SingleTerms(p, mortar, d, a) ==
  [b \in Corners |-> (IF mortar THEN Weight(p.rule, a, b, TRUE) ELSE -Weight(p.rule, a, b, FALSE)) * ContactForce(p, b)[d]]

\* The force on a corner is a sum over the corners of the nonmortar face.
LEMMA SingleForceIs ==
  ASSUME NEW p \in AllPairs, NEW mortar \in BOOLEAN, NEW a \in Corners, NEW d \in 1 .. 3
  PROVE  /\ SingleForce(p, MortarWeights[p], mortar, a)[d] = SumFunctionOnSet(SingleTerms(p, mortar, d, a), Corners)
         /\ \A b \in Corners : SingleTerms(p, mortar, d, a)[b] \in Int
         /\ SingleForce(p, MortarWeights[p], mortar, a)[d] \in Int
<1> DEFINE w == MortarWeights[p]
           F == [b \in Corners |->
                  Scaled3(IF mortar THEN getMortarNonmortarWt(w, a, b) ELSE -getNonmortarNonmortarWt(w, a, b), ContactForce(p, b))]
           k == [b \in DOMAIN F |-> F[b][d]]
<1>1. SingleForce(p, w, mortar, a)[d] = SumFunctionOnSet(k, Corners)
  BY DEF SingleForce, Sum3, SumFunction
<1>2. ASSUME NEW b \in Corners PROVE k[b] = SingleTerms(p, mortar, d, a)[b]
  <2>1. k[b] = (IF mortar THEN getMortarNonmortarWt(w, a, b) ELSE -getNonmortarNonmortarWt(w, a, b)) * ContactForce(p, b)[d]
    BY DEF Scaled3
  <2>2. getMortarNonmortarWt(w, a, b) = Weight(p.rule, a, b, TRUE) /\ getNonmortarNonmortarWt(w, a, b) = Weight(p.rule, a, b, FALSE)
    BY WeightsAre
  <2> HIDE DEF k, w
  <2> QED BY <2>1, <2>2 DEF SingleTerms
<1>3. ASSUME NEW b \in Corners PROVE SingleTerms(p, mortar, d, a)[b] \in Int
  <2>1. PICK x \in Int, y \in Int, c \in Int :
          x = Weight(p.rule, a, b, TRUE) /\ y = Weight(p.rule, a, b, FALSE) /\ c = ContactForce(p, b)[d]
    BY WeightIs, ContactForceFine
  <2>2. x * c \in Int /\ (-y) * c \in Int
    OBVIOUS
  <2> QED BY <2>1, <2>2 DEF SingleTerms
<1>4. IsFiniteSet(Corners)
  BY CornersFinite
<1> HIDE DEF k
<1>5. SumFunctionOnSet(k, Corners) = SumFunctionOnSet(SingleTerms(p, mortar, d, a), Corners)
  BY <1>2, <1>4, SumSame
<1> QED BY <1>1, <1>3, <1>4, <1>5, SumInt

\* Over a face, each contact force comes times the sum of the weights of its node.
LEMMA SingleFaceForce ==
  ASSUME NEW p \in AllPairs, NEW mortar \in BOOLEAN, NEW d \in 1 .. 3
  PROVE  SumFunctionOnSet([a \in Corners |-> SingleForce(p, MortarWeights[p], mortar, a)[d]], Corners)
           = (IF mortar THEN 1 ELSE -1) *
             SumFunctionOnSet([b \in Corners |->
               ContactForce(p, b)[d] * SumFunctionOnSet([a \in Corners |-> Weight(p.rule, a, b, FALSE)], Corners)], Corners)
<1> DEFINE f(m) == [a \in Corners |-> SingleTerms(p, m, d, a)]
           g(m) == [a \in Corners |-> SingleForce(p, MortarWeights[p], m, a)[d]]
           col(b) == [a \in Corners |-> f(mortar)[a][b]]
           columns(m) == [b \in Corners |-> [a \in Corners |-> f(m)[a][b]]]
           h(m) == [b \in Corners |-> SumFunctionOnSet([a \in Corners |-> f(m)[a][b]], Corners)]
           weights(b) == [a \in Corners |-> Weight(p.rule, a, b, mortar)]
           sums == [b \in Corners |->
                     ContactForce(p, b)[d] * SumFunctionOnSet([a \in Corners |-> Weight(p.rule, a, b, FALSE)], Corners)]
           sign == IF mortar THEN 1 ELSE -1
<1>1. IsFiniteSet(Corners)
  BY CornersFinite
<1>2. \A a \in Corners : \A b \in Corners : f(mortar)[a][b] \in Int
  <2>1. \A a \in Corners : \A b \in Corners : SingleTerms(p, mortar, d, a)[b] \in Int
    BY SingleForceIs
  <2> QED BY <2>1
<1>3. \A a \in Corners : g(mortar)[a] = SumFunctionOnSet(f(mortar)[a], Corners)
  BY SingleForceIs
<1>4. /\ \A a \in Corners : \A b \in Corners : columns(mortar)[b][a] = f(mortar)[a][b]
      /\ \A b \in Corners : h(mortar)[b] = SumFunctionOnSet(columns(mortar)[b], Corners)
  OBVIOUS
<1>5. SumFunctionOnSet(g(mortar), Corners) = SumFunctionOnSet(h(mortar), Corners)
  <2> HIDE DEF f, g, h, columns
  <2>1. /\ IsTable(f(mortar), columns(mortar), Corners, Corners) /\ SumsOf(f(mortar), Corners, Corners, g(mortar))
        /\ SumsOf(columns(mortar), Corners, Corners, h(mortar))
    BY <1>2, <1>3, <1>4 DEF IsTable, SumsOf
  <2> QED BY <1>1, <2>1, SumTransposed
<1>6. ASSUME NEW b \in Corners PROVE sums[b] \in Int /\ h(mortar)[b] = sign * sums[b]
  <2>1. PICK c \in Int : c = ContactForce(p, b)[d]
    BY ContactForceFine
  <2>2. ASSUME NEW a \in Corners PROVE weights(b)[a] \in Int /\ col(b)[a] = (sign * c) * weights(b)[a]
    <3>1. PICK x \in Int, y \in Int : x = Weight(p.rule, a, b, TRUE) /\ y = Weight(p.rule, a, b, FALSE)
      BY WeightIs
    <3>2. col(b)[a] = (IF mortar THEN x ELSE -y) * c
      BY <2>1, <3>1 DEF SingleTerms
    <3>3. weights(b)[a] = IF mortar THEN x ELSE y
      BY <3>1
    <3>4. x * c = (1 * c) * x /\ (-y) * c = ((-1) * c) * y
      OBVIOUS
    <3> HIDE DEF col, weights
    <3> QED BY <3>2, <3>3, <3>4
  <2>3. sign * c \in Int
    OBVIOUS
  <2>4. SumFunctionOnSet(weights(b), Corners) = SumFunctionOnSet([a \in Corners |-> Weight(p.rule, a, b, FALSE)], Corners)
    <3>2. CASE mortar
      <4>1. weights(b) = [a \in Corners |-> Weight(p.rule, a, b, TRUE)]
        BY <3>2
      <4> HIDE DEF weights
      <4> QED BY <4>1, WeightsBalance
    <3>3. CASE ~mortar
      <4>1. weights(b) = [a \in Corners |-> Weight(p.rule, a, b, FALSE)]
        BY <3>3
      <4> HIDE DEF weights
      <4> QED BY <4>1
    <3> QED BY <3>2, <3>3
  <2>5. h(mortar)[b] = SumFunctionOnSet(col(b), Corners)
    OBVIOUS
  <2>6. sums[b] = c * SumFunctionOnSet([a \in Corners |-> Weight(p.rule, a, b, FALSE)], Corners)
    BY <2>1
  <2> HIDE DEF col, weights, h, sums
  <2>7. SumFunctionOnSet(col(b), Corners) = (sign * c) * SumFunctionOnSet(weights(b), Corners)
    BY <1>1, <2>2, <2>3, SumTimes
  <2>8. SumFunctionOnSet(weights(b), Corners) \in Int
    BY <1>1, <2>2, SumInt
  <2>9. PICK s \in Int : s = SumFunctionOnSet(weights(b), Corners)
    BY <2>8
  <2>10. (1 * c) * s = 1 * (c * s) /\ ((-1) * c) * s = (-1) * (c * s) /\ c * s \in Int
    OBVIOUS
  <2> QED BY <2>4, <2>5, <2>6, <2>7, <2>9, <2>10
<1>7. sign \in Int
  OBVIOUS
<1> HIDE DEF h, sums, sign, g
<1>8. SumFunctionOnSet(h(mortar), Corners) = sign * SumFunctionOnSet(sums, Corners)
  BY <1>1, <1>6, <1>7, SumTimes
<1> QED BY <1>5, <1>8 DEF g, sums, sign

LEMMA CornerForceFine ==
  ASSUME NEW m \in {"single", "weights", "aligned"}, NEW p \in AllPairs, NEW mortar \in BOOLEAN, NEW a \in Corners, NEW d \in 1 .. 3
  PROVE  ForceOnCorner(m, p, MortarWeights[p], mortar, a)[d] \in Int
<1>1. CASE m = "aligned"
  <2>1. PICK c \in Int : c = ContactForce(p, a)[d]
    BY ContactForceFine
  <2>2. AlignedForce(p, mortar, a)[d] = (IF mortar THEN 1 ELSE -1) * c
    BY <2>1 DEF AlignedForce, Scaled3
  <2>3. 1 * c \in Int /\ (-1) * c \in Int
    OBVIOUS
  <2> QED BY <1>1, <2>2, <2>3 DEF ForceOnCorner
<1>2. CASE m # "aligned"
  <2>1. ForceOnCorner(m, p, MortarWeights[p], mortar, a) = SingleForce(p, MortarWeights[p], mortar, a)
    BY <1>2 DEF ForceOnCorner
  <2> QED BY <2>1, SingleForceIs
<1> QED BY <1>1, <1>2

\* The forces on the two faces of a pair cancel.
LEMMA FacesCancel ==
  ASSUME NEW m \in {"single", "weights", "aligned"}, NEW p \in AllPairs, NEW d \in 1 .. 3
  PROVE  SumFunctionOnSet([a \in Corners |-> FaceForces(m, p, TRUE)[a][d]], Corners)
           + SumFunctionOnSet([a \in Corners |-> FaceForces(m, p, FALSE)[a][d]], Corners) = 0
<1> DEFINE f(mortar) == [a \in Corners |-> FaceForces(m, p, mortar)[a][d]]
<1>1. IsFiniteSet(Corners)
  BY CornersFinite
<1>2. ASSUME NEW mortar \in BOOLEAN PROVE SumFunctionOnSet(f(mortar), Corners) \in Int
  <2>1. \A a \in Corners : f(mortar)[a] \in Int
    BY CornerForceFine DEF FaceForces
  <2> HIDE DEF f
  <2> QED BY <1>1, <2>1, SumInt
<1>3. CASE m = "aligned"
  <2>1. ASSUME NEW a \in Corners PROVE f(TRUE)[a] \in Int /\ f(FALSE)[a] = (-1) * f(TRUE)[a]
    <3>1. PICK c \in Int : c = ContactForce(p, a)[d]
      BY ContactForceFine
    <3>2. f(TRUE)[a] = 1 * c /\ f(FALSE)[a] = (-1) * c
      BY <1>3, <3>1 DEF FaceForces, ForceOnCorner, AlignedForce, Scaled3
    <3>3. PICK x, y : x = f(TRUE)[a] /\ y = f(FALSE)[a]
      OBVIOUS
    <3>4. x = 1 * c /\ y = (-1) * c
      BY <3>2, <3>3, Zenon
    <3>5. x \in Int /\ y = (-1) * x
      BY <3>4
    <3> HIDE DEF f
    <3> QED BY <3>3, <3>5, Zenon
  <2>2. PICK g, h : g = f(TRUE) /\ h = f(FALSE)
    OBVIOUS
  <2> HIDE DEF f
  <2>3. \A a \in Corners : g[a] \in Int /\ h[a] = (-1) * g[a]
    BY <2>1, <2>2, Zenon
  <2>4. SumFunctionOnSet(h, Corners) = (-1) * SumFunctionOnSet(g, Corners)
    BY <1>1, <2>3, SumTimes
  <2>5. SumFunctionOnSet(g, Corners) \in Int
    BY <1>1, <2>3, SumInt
  <2>6. SumFunctionOnSet(g, Corners) + SumFunctionOnSet(h, Corners) = 0
    BY <2>4, <2>5
  <2> QED BY <2>2, <2>6, Zenon DEF f
<1>4. CASE m # "aligned"
  <2> DEFINE s == SumFunctionOnSet([b \in Corners |->
               ContactForce(p, b)[d] * SumFunctionOnSet([a \in Corners |-> Weight(p.rule, a, b, FALSE)], Corners)], Corners)
  <2>1. ASSUME NEW mortar \in BOOLEAN
        PROVE  SumFunctionOnSet(f(mortar), Corners) = (IF mortar THEN 1 ELSE -1) * s
    <3>1. f(mortar) = [a \in Corners |-> SingleForce(p, MortarWeights[p], mortar, a)[d]]
      BY <1>4 DEF FaceForces, ForceOnCorner
    <3>2. SumFunctionOnSet([a \in Corners |-> SingleForce(p, MortarWeights[p], mortar, a)[d]], Corners)
            = (IF mortar THEN 1 ELSE -1) * s
      BY SingleFaceForce
    <3> HIDE DEF f, s
    <3> QED BY <3>1, <3>2
  <2>2. s \in Int
    <3> DEFINE sum == [b \in Corners |->
                 ContactForce(p, b)[d] * SumFunctionOnSet([a \in Corners |-> Weight(p.rule, a, b, FALSE)], Corners)]
    <3>1. ASSUME NEW b \in Corners PROVE sum[b] \in Int
      <4> DEFINE g == [a \in Corners |-> Weight(p.rule, a, b, FALSE)]
      <4>1. \A a \in Corners : g[a] \in Int
        BY WeightIs
      <4>2. sum[b] = ContactForce(p, b)[d] * SumFunctionOnSet(g, Corners)
        OBVIOUS
      <4> HIDE DEF g, sum
      <4>3. SumFunctionOnSet(g, Corners) \in Int
        BY <1>1, <4>1, SumInt
      <4> QED BY <4>2, <4>3, ContactForceFine
    <3> HIDE DEF sum
    <3>2. SumFunctionOnSet(sum, Corners) \in Int
      BY <1>1, <3>1, SumInt
    <3> QED BY <3>2 DEF sum
  <2>3. SumFunctionOnSet(f(TRUE), Corners) = 1 * s /\ SumFunctionOnSet(f(FALSE), Corners) = (-1) * s
    <3> HIDE DEF f, s
    <3> QED BY <2>1
  <2>4. PICK x, y, z : x = SumFunctionOnSet(f(TRUE), Corners) /\ y = SumFunctionOnSet(f(FALSE), Corners) /\ z = s
    OBVIOUS
  <2> HIDE DEF f, s
  <2>5. z \in Int /\ x = 1 * z /\ y = (-1) * z
    BY <2>2, <2>3, <2>4, Zenon
  <2>6. x + y = 0
    BY <2>5
  <2> QED BY <2>4, <2>6, Zenon DEF f
<1> QED BY <1>3, <1>4

\* So do all forces of a pair.
LEMMA PairBalances ==
  ASSUME NEW m \in {"single", "weights", "aligned"}, NEW p \in AllPairs, NEW d \in 1 .. 3
  PROVE  /\ \A n \in AllNodes : ForcesOfPair(m, p)[n][d] \in Int
         /\ SumFunctionOnSet([n \in AllNodes |-> ForcesOfPair(m, p)[n][d]], AllNodes) = 0
<1> DEFINE face(mortar) == IF mortar THEN Faces1[p.face1] ELSE Faces2[p.face2]
           at(mortar) == [n \in AllNodes |-> Sum3([a \in CornersAt(face(mortar), n) |-> FaceForces(m, p, mortar)[a]])[d]]
           f == [n \in AllNodes |-> ForcesOfPair(m, p)[n][d]]
<1>1. ASSUME NEW mortar \in BOOLEAN
      PROVE  /\ SumFunctionOnSet(at(mortar), AllNodes) = SumFunctionOnSet([a \in Corners |-> FaceForces(m, p, mortar)[a][d]], Corners)
             /\ \A n \in AllNodes : at(mortar)[n] \in Int
  <2>1. \A a \in Corners : NodeOf(face(mortar), a) \in AllNodes
    BY PairFacts
  <2>2. \A a \in Corners : FaceForces(m, p, mortar)[a][d] \in Int
    BY CornerForceFine DEF FaceForces
  <2>3. \A n \in AllNodes : at(mortar)[n] = Sum3([a \in CornersAt(face(mortar), n) |-> FaceForces(m, p, mortar)[a]])[d]
    OBVIOUS
  <2>4. PICK g, F : g = face(mortar) /\ F = FaceForces(m, p, mortar)
    OBVIOUS
  <2>5. /\ SumFunctionOnSet([n \in AllNodes |-> Sum3([a \in CornersAt(g, n) |-> F[a]])[d]], AllNodes)
             = SumFunctionOnSet([a \in Corners |-> F[a][d]], Corners)
        /\ \A n \in AllNodes : Sum3([a \in CornersAt(g, n) |-> F[a]])[d] \in Int
    <3>1. \A a \in Corners : NodeOf(g, a) \in AllNodes /\ F[a][d] \in Int
      BY <2>1, <2>2, <2>4
    <3> QED BY <3>1, OverNodes
  <2>6. at(mortar) = [n \in AllNodes |-> Sum3([a \in CornersAt(g, n) |-> F[a]])[d]]
    BY <2>4
  <2> QED BY <2>4, <2>5, <2>6
<1>2. \A n \in AllNodes : f[n] = at(TRUE)[n] + at(FALSE)[n]
  <2> SUFFICES ASSUME NEW n \in AllNodes PROVE f[n] = at(TRUE)[n] + at(FALSE)[n]
    OBVIOUS
  <2> DEFINE On(g, mortar) == Sum3([a \in CornersAt(g, n) |-> ForceOnCorner(m, p, MortarWeights[p], mortar, a)])
  <2>1. ForcesOfPair(m, p)[n] = Plus3(On(Faces1[p.face1], TRUE), On(Faces2[p.face2], FALSE))
    BY DEF ForcesOfPair
  <2>2. ASSUME NEW g, NEW mortar \in BOOLEAN
        PROVE  On(g, mortar) = Sum3([a \in CornersAt(g, n) |-> FaceForces(m, p, mortar)[a]])
    <3>1. \A a \in CornersAt(g, n) : a \in Corners
      BY DEF CornersAt
    <3>2. [a \in CornersAt(g, n) |-> ForceOnCorner(m, p, MortarWeights[p], mortar, a)]
            = [a \in CornersAt(g, n) |-> FaceForces(m, p, mortar)[a]]
      BY <3>1 DEF FaceForces
    <3> QED BY <3>2
  <2> HIDE DEF On
  <2>3. f[n] = On(Faces1[p.face1], TRUE)[d] + On(Faces2[p.face2], FALSE)[d]
    BY <2>1 DEF Plus3
  <2>4. at(TRUE)[n] = On(Faces1[p.face1], TRUE)[d] /\ at(FALSE)[n] = On(Faces2[p.face2], FALSE)[d]
    BY <2>2
  <2> HIDE DEF f, at
  <2> QED BY <2>3, <2>4
<1>3. IsFiniteSet(AllNodes)
  BY CornersFinite
<1>4. \A n \in AllNodes : at(TRUE)[n] \in Int /\ at(FALSE)[n] \in Int
  <2> HIDE DEF at
  <2> QED BY <1>1
<1>5. \A n \in AllNodes : f[n] \in Int /\ f[n] = ForcesOfPair(m, p)[n][d]
  <2> SUFFICES ASSUME NEW n \in AllNodes PROVE f[n] \in Int /\ f[n] = ForcesOfPair(m, p)[n][d]
    OBVIOUS
  <2>1. f[n] = ForcesOfPair(m, p)[n][d]
    OBVIOUS
  <2>2. PICK x, y : x = at(TRUE)[n] /\ y = at(FALSE)[n]
    OBVIOUS
  <2> HIDE DEF f, at
  <2>3. x \in Int /\ y \in Int /\ f[n] = x + y
    BY <1>2, <1>4, <2>2, Zenon
  <2> QED BY <2>1, <2>3
<1> HIDE DEF at, f
<1>6. SumFunctionOnSet(f, AllNodes) = SumFunctionOnSet(at(TRUE), AllNodes) + SumFunctionOnSet(at(FALSE), AllNodes)
  BY <1>2, <1>3, <1>4, SumPlus
<1>7. SumFunctionOnSet(f, AllNodes) = 0
  <2>1. /\ SumFunctionOnSet(at(TRUE), AllNodes) = SumFunctionOnSet([a \in Corners |-> FaceForces(m, p, TRUE)[a][d]], Corners)
        /\ SumFunctionOnSet(at(FALSE), AllNodes) = SumFunctionOnSet([a \in Corners |-> FaceForces(m, p, FALSE)[a][d]], Corners)
    BY <1>1
  <2> QED BY <1>6, <2>1, FacesCancel
<1> QED BY <1>5, <1>7 DEF f

-----------------------------------------------------------------------------
(* The inductive invariant of the mortar methods. *)

Cancels(f) ==
  \A d \in 1 .. 3 :
    /\ \A n \in AllNodes : f[n][d] \in Int
    /\ SumFunctionOnSet([n \in AllNodes |-> f[n][d]], AllNodes) = 0

ResponsesFine == method \in {"single", "weights", "aligned"} => Cancels(response)

MortarIInv ==
  /\ method \in Methods
  /\ pairs \in Seq(AllPairs) /\ atPair \in Nat \ {0}
  /\ DOMAIN response = AllNodes
  /\ ResponsesFine

\* Forces that are cleared cancel.
LEMMA NoResponse ==
  ASSUME NEW f, f = [n \in AllNodes |-> Zero3]
  PROVE  DOMAIN f = AllNodes /\ Cancels(f)
<1>1. \A n \in AllNodes : \A d \in 1 .. 3 : f[n][d] = 0
  BY DEF Zero3
<1>2. ASSUME NEW d \in 1 .. 3 PROVE SumFunctionOnSet([n \in AllNodes |-> f[n][d]], AllNodes) = 0
  <2> DEFINE g == [n \in AllNodes |-> f[n][d]]
  <2>1. \A n \in AllNodes : g[n] = 0
    BY <1>1
  <2>2. IsFiniteSet(AllNodes)
    BY CornersFinite
  <2> HIDE DEF g
  <2>3. SumFunctionOnSet(g, AllNodes) = 0
    BY <2>1, <2>2, SumZero
  <2> QED BY <2>3 DEF g
<1> QED BY <1>1, <1>2 DEF Cancels

\* The first state of the mortar methods.
LEMMA MortarInitHolds == ASSUME MortarInit PROVE MortarIInv
<1>1. DOMAIN response = AllNodes /\ ResponsesFine
  BY NoResponse DEF MortarInit, ResponsesFine
<1>2. <<>> \in Seq(AllPairs)
  OBVIOUS
<1> QED BY <1>1, <1>2 DEF MortarInit, MortarIInv

\* A pair of any method but the one with Enzyme adds forces that cancel.
LEMMA AddForcesHolds ==
  ASSUME MortarIInv, NEW p \in AllPairs, response' = AddForces(p), method' = method
  PROVE  DOMAIN response' = AllNodes /\ ResponsesFine'
<1>1. DOMAIN response' = AllNodes
  BY DEF AddForces
<1>2. ASSUME method \in {"single", "weights", "aligned"}, NEW d \in 1 .. 3
      PROVE  /\ \A n \in AllNodes : response'[n][d] \in Int
             /\ SumFunctionOnSet([n \in AllNodes |-> response'[n][d]], AllNodes) = 0
  <2> DEFINE f == [n \in AllNodes |-> response[n][d]]
             g == [n \in AllNodes |-> ForcesOfPair(method, p)[n][d]]
             h == [n \in AllNodes |-> response'[n][d]]
  <2>1. Kernel[method][p].forces = ForcesOfPair(method, p)
    <3>1. method \in Methods
      BY DEF MortarIInv
    <3>2. Kernel[method][p] = [gaps |-> GapsOfPair(method, p), forces |-> ForcesOfPair(method, p), J |-> BlockJ(method, p)]
      BY <3>1 DEF Kernel
    <3> QED BY <3>2
  <2>2. \A n \in AllNodes : h[n] = f[n] + g[n]
    BY <2>1 DEF AddForces, Plus3
  <2>3. (\A n \in AllNodes : f[n] \in Int) /\ SumFunctionOnSet(f, AllNodes) = 0
    BY <1>2 DEF MortarIInv, ResponsesFine, Cancels
  <2>4. (\A n \in AllNodes : g[n] \in Int) /\ SumFunctionOnSet(g, AllNodes) = 0
    BY <1>2, PairBalances
  <2>5. \A n \in AllNodes : h[n] = response'[n][d]
    OBVIOUS
  <2>6. IsFiniteSet(AllNodes)
    BY CornersFinite
  <2> HIDE DEF f, g, h
  <2>7. \A n \in AllNodes : f[n] \in Int /\ g[n] \in Int /\ h[n] = f[n] + g[n]
    BY <2>2, <2>3, <2>4
  <2>8. SumFunctionOnSet(h, AllNodes) = SumFunctionOnSet(f, AllNodes) + SumFunctionOnSet(g, AllNodes)
    BY <2>6, <2>7, SumPlus
  <2>9. SumFunctionOnSet(h, AllNodes) = 0
    BY <2>3, <2>4, <2>8
  <2>10. \A n \in AllNodes : response'[n][d] \in Int
    BY <2>5, <2>7
  <2> QED BY <2>9, <2>10 DEF h
<1> QED BY <1>1, <1>2 DEF ResponsesFine, Cancels

\* Every step of the mortar methods keeps the invariant.
LEMMA MortarStepHolds == ASSUME MortarIInv, [MortarNext]_mortarVars PROVE MortarIInv'
<1>0. method \in Methods /\ pairs \in Seq(AllPairs) /\ atPair \in Nat \ {0} /\ DOMAIN response = AllNodes /\ ResponsesFine
  BY DEF MortarIInv
<1>1. CASE BeginUpdate
  <2>1. response' = [n \in AllNodes |-> Zero3] /\ pairs' \in PairLists /\ atPair' = 1 /\ method' = method
    BY <1>1 DEF BeginUpdate
  <2>2. DOMAIN response' = AllNodes /\ ResponsesFine'
    BY <2>1, NoResponse DEF ResponsesFine
  <2>3. pairs' \in Seq(AllPairs)
    BY <2>1, MortarAssumption DEF MortarAssumption
  <2> QED BY <1>0, <2>1, <2>2, <2>3 DEF MortarIInv
<1>2. ASSUME response' = response, method' = method, pairs' = pairs, atPair' \in {atPair, atPair + 1, 1}
      PROVE  MortarIInv'
  <2>1. ResponsesFine'
    BY <1>0, <1>2 DEF ResponsesFine
  <2> QED BY <1>0, <1>2, <2>1 DEF MortarIInv
<1>3. CASE ComputeGaps
  BY <1>2, <1>3 DEF ComputeGaps
<1>4. CASE Allocate
  BY <1>2, <1>4 DEF Allocate
<1>5. CASE ReserveEnzyme
  BY <1>2, <1>5 DEF ReserveEnzyme
<1>6. ASSUME response' = AddForces(pairs[atPair]), atPair <= Len(pairs), NextPair PROVE MortarIInv'
  <2>1. pairs[atPair] \in AllPairs
    BY <1>0, <1>6
  <2>2. method' = method /\ pairs' = pairs /\ atPair' = atPair + 1
    BY <1>6 DEF NextPair
  <2>3. DOMAIN response' = AllNodes /\ ResponsesFine'
    BY <1>6, <2>1, <2>2, AddForcesHolds
  <2> QED BY <1>0, <2>2, <2>3 DEF MortarIInv
<1>7. CASE ApplyPair
  BY <1>6, <1>7 DEF ApplyPair
<1>8. CASE ApplyPairEnzyme
  BY <1>2, <1>6, <1>8 DEF ApplyPairEnzyme, NextPair
<1>9. CASE AssembleWeights
  BY <1>2, <1>9 DEF AssembleWeights, NextPair
<1>10. CASE EndUpdate
  BY <1>2, <1>10 DEF EndUpdate
<1>11. CASE UNCHANGED mortarVars
  BY <1>2, <1>11 DEF mortarVars
<1> QED BY <1>1, <1>3, <1>4, <1>5, <1>7, <1>8, <1>9, <1>10, <1>11 DEF MortarNext

\* What it says of the forces of an update.
LEMMA MortarInvGives == ASSUME MortarIInv PROVE MortarForcesBalance
<1> SUFFICES ASSUME method # "enzyme" PROVE Sum3(response) = Zero3
  BY DEF MortarForcesBalance
<1>1. method \in {"single", "weights", "aligned"}
  BY MortarAssumption DEF MortarIInv, MortarAssumption
<1>2. \A d \in 1 .. 3 : Sum3(response)[d] = 0
  BY <1>1 DEF MortarIInv, ResponsesFine, Cancels, Sum3, SumFunction
<1>3. Sum3(response) = [d \in 1 .. 3 |-> Sum3(response)[d]]
  BY DEF Sum3
<1>4. Zero3 = [d \in 1 .. 3 |-> 0]
  BY DEF Zero3
<1> QED BY <1>2, <1>3, <1>4

-----------------------------------------------------------------------------
(* The gaps: what weights and points give is the same. *)

\* The nodes of a face along the normal of a node, and with the residual gap.
AlongNormal(face, n) == [b \in Corners |-> dotProd(NodalNormals[n], Position[NodeOf(face, b)])]
WithResidual(face, n) == [b \in Corners |-> dotProd(NodalNormals[n], Position[NodeOf(face, b)]) + ResidualGap]

\* Positions along a nodal normal are integers.
LEMMA AlongFacts ==
  ASSUME NEW n \in NonmortarNodes, NEW x \in AllNodes
  PROVE  dotProd(NodalNormals[n], Position[x]) \in Int
<1>1. \A d \in 1 .. 3 : NodalNormals[n][d] \in Int /\ Position[x][d] \in Int
  BY NormalsFine, MortarAssumption DEF MortarAssumption
<1>2. ASSUME NEW u, NEW v, \A d \in 1 .. 3 : u[d] \in Int /\ v[d] \in Int PROVE dotProd(u, v) \in Int
  BY <1>2 DEF dotProd
<1> QED BY <1>1, <1>2

\* A point of a face along a normal is the sum of its nodes along the normal.
LEMMA PointAlong ==
  ASSUME NEW face, \A b \in Corners : NodeOf(face, b) \in AllNodes,
         NEW phi, \A b \in Corners : phi[b + 1] \in Int, NEW n \in NonmortarNodes
  PROVE  /\ \A d \in 1 .. 3 : Sum3([b \in Corners |-> Scaled3(phi[b + 1], Position[NodeOf(face, b)])])[d] \in Int
         /\ dotProd(NodalNormals[n], Sum3([b \in Corners |-> Scaled3(phi[b + 1], Position[NodeOf(face, b)])]))
              = SumFunctionOnSet([b \in Corners |-> phi[b + 1] * AlongNormal(face, n)[b]], Corners)
<1> DEFINE F == [b \in Corners |-> Scaled3(phi[b + 1], Position[NodeOf(face, b)])]
           f(d) == [b \in Corners |-> phi[b + 1] * Position[NodeOf(face, b)][d]]
           g == [b \in Corners |-> phi[b + 1] * AlongNormal(face, n)[b]]
<1>1. ASSUME NEW d \in 1 .. 3 PROVE Sum3(F)[d] = SumFunctionOnSet(f(d), Corners) /\ \A b \in Corners : f(d)[b] \in Int
  <2> DEFINE k == [b \in DOMAIN F |-> F[b][d]]
  <2>1. Sum3(F)[d] = SumFunctionOnSet(k, Corners)
    BY DEF Sum3, SumFunction
  <2>2. \A b \in Corners : k[b] = f(d)[b]
    BY DEF Scaled3
  <2>3. \A b \in Corners : Position[NodeOf(face, b)][d] \in Int /\ phi[b + 1] \in Int
    BY MortarAssumption DEF MortarAssumption
  <2>4. \A b \in Corners : f(d)[b] = phi[b + 1] * Position[NodeOf(face, b)][d]
    OBVIOUS
  <2>5. IsFiniteSet(Corners)
    BY CornersFinite
  <2> HIDE DEF k, f, F
  <2>6. \A b \in Corners : f(d)[b] \in Int
    BY <2>3, <2>4
  <2> QED BY <2>1, <2>2, <2>5, <2>6, SumSame
<1>2. PICK n1 \in Int, n2 \in Int, n3 \in Int : n1 = NodalNormals[n][1] /\ n2 = NodalNormals[n][2] /\ n3 = NodalNormals[n][3]
  BY NormalsFine
<1> DEFINE t1 == [b \in Corners |-> n1 * f(1)[b]]
           t2 == [b \in Corners |-> t1[b] + n2 * f(2)[b]]
           t3 == [b \in Corners |-> t2[b] + n3 * f(3)[b]]
<1>3. \A b \in Corners : f(1)[b] \in Int /\ f(2)[b] \in Int /\ f(3)[b] \in Int
  <2> HIDE DEF f
  <2> QED BY <1>1
<1>4. \A b \in Corners : g[b] = t3[b]
  <2> SUFFICES ASSUME NEW b \in Corners PROVE g[b] = t3[b]
    OBVIOUS
  <2>1. PICK x1 \in Int, x2 \in Int, x3 \in Int, s \in Int :
          /\ x1 = Position[NodeOf(face, b)][1] /\ x2 = Position[NodeOf(face, b)][2] /\ x3 = Position[NodeOf(face, b)][3]
          /\ s = phi[b + 1]
    BY MortarAssumption DEF MortarAssumption
  <2>2. g[b] = s * (n1 * x1 + n2 * x2 + n3 * x3)
    BY <1>2, <2>1 DEF AlongNormal, dotProd
  <2>3. t3[b] = n1 * (s * x1) + n2 * (s * x2) + n3 * (s * x3)
    BY <2>1
  <2>4. s * (n1 * x1 + n2 * x2 + n3 * x3) = n1 * (s * x1) + n2 * (s * x2) + n3 * (s * x3)
    OBVIOUS
  <2> QED BY <2>2, <2>3, <2>4
<1>5. \A b \in Corners : t1[b] = n1 * f(1)[b] /\ t2[b] = t1[b] + n2 * f(2)[b] /\ t3[b] = t2[b] + n3 * f(3)[b]
  OBVIOUS
<1>6. IsFiniteSet(Corners)
  BY CornersFinite
<1>7. dotProd(NodalNormals[n], Sum3(F)) = n1 * Sum3(F)[1] + n2 * Sum3(F)[2] + n3 * Sum3(F)[3]
  BY <1>2 DEF dotProd
<1> HIDE DEF F, f, g, t1, t2, t3
<1>8. \A b \in Corners : t1[b] \in Int /\ t2[b] \in Int
  BY <1>3, <1>5
<1>9. SumFunctionOnSet(t1, Corners) = n1 * SumFunctionOnSet(f(1), Corners)
  BY <1>3, <1>5, <1>6, SumTimes
<1>10. SumFunctionOnSet(t2, Corners) = SumFunctionOnSet(t1, Corners) + n2 * SumFunctionOnSet(f(2), Corners)
  BY <1>3, <1>5, <1>6, <1>8, SumLinear
<1>11. SumFunctionOnSet(t3, Corners) = SumFunctionOnSet(t2, Corners) + n3 * SumFunctionOnSet(f(3), Corners)
  BY <1>3, <1>5, <1>6, <1>8, SumLinear
<1>12. SumFunctionOnSet(g, Corners) = SumFunctionOnSet(t3, Corners)
  BY <1>4, <1>6, SumSame
<1>13. \A d \in 1 .. 3 : Sum3(F)[d] \in Int
  BY <1>1, <1>6, SumInt
<1>14. Sum3(F)[1] = SumFunctionOnSet(f(1), Corners) /\ Sum3(F)[2] = SumFunctionOnSet(f(2), Corners) /\ Sum3(F)[3] = SumFunctionOnSet(f(3), Corners)
  BY <1>1
<1>15. dotProd(NodalNormals[n], Sum3(F)) = SumFunctionOnSet(g, Corners)
  BY <1>7, <1>9, <1>10, <1>11, <1>12, <1>14
<1> QED BY <1>13, <1>15 DEF F, g

\* The gap at a point, as sums over the corners of either face.
ShapeSum(ip, mortar, val) == SumFunctionOnSet([b \in Corners |-> ShapeOf(ip, mortar, b) * val[b]], Corners)

\* A sum over the corners with the shape functions of a point.
LEMMA ShapeSumFine ==
  ASSUME NEW p \in AllPairs, NEW i \in DOMAIN p.rule, NEW mortar \in BOOLEAN, NEW val, \A b \in Corners : val[b] \in Int
  PROVE  ShapeSum(p.rule[i], mortar, val) \in Int
<1> DEFINE f == [b \in Corners |-> ShapeOf(p.rule[i], mortar, b) * val[b]]
<1>1. \A b \in Corners : ShapeOf(p.rule[i], mortar, b) \in Int
  BY PointFacts DEF ShapeOf
<1>2. \A b \in Corners : f[b] \in Int
  <2> SUFFICES ASSUME NEW b \in Corners PROVE f[b] \in Int
    OBVIOUS
  <2>1. PICK x \in Int, y \in Int : x = ShapeOf(p.rule[i], mortar, b) /\ y = val[b]
    BY <1>1
  <2>2. x * y \in Int
    OBVIOUS
  <2> QED BY <2>1, <2>2
<1>3. IsFiniteSet(Corners)
  BY CornersFinite
<1> HIDE DEF f
<1>4. SumFunctionOnSet(f, Corners) \in Int
  BY <1>2, <1>3, SumInt
<1> QED BY <1>4 DEF f, ShapeSum

\* Values at the nodes of a face, each times what the corners there weigh.
Spreads(N, face, w, v, h, f) ==
  /\ \A b \in Corners : NodeOf(face, b) \in N /\ w[b] \in Int /\ f[b] = w[b] * v[NodeOf(face, b)]
  /\ \A m \in N : v[m] \in Int /\ h[m] = SumFunctionOnSet(w, CornersAt(face, m)) * v[m]

\* Added up over the nodes, they are the values at the corners, each times what its corner weighs.
LEMMA SpreadOverNodes ==
  ASSUME NEW N, IsFiniteSet(N), NEW face, NEW w, NEW v, NEW h, NEW f, Spreads(N, face, w, v, h, f)
  PROVE  /\ SumFunctionOnSet(h, N) = SumFunctionOnSet(f, Corners)
         /\ \A m \in N : h[m] \in Int
<1> SUFFICES ASSUME \A b \in Corners : NodeOf(face, b) \in N, \A b \in Corners : w[b] \in Int,
                    \A m \in N : v[m] \in Int,
                    \A m \in N : h[m] = SumFunctionOnSet(w, CornersAt(face, m)) * v[m],
                    \A b \in Corners : f[b] = w[b] * v[NodeOf(face, b)]
             PROVE  /\ SumFunctionOnSet(h, N) = SumFunctionOnSet(f, Corners)
                    /\ \A m \in N : h[m] \in Int
  BY DEF Spreads
<1>1. IsFiniteSet(Corners)
  BY CornersFinite
<1> DEFINE at == [b \in Corners |-> NodeOf(face, b)]
<1>2. \A m : GroupOf(Corners, at, m) = CornersAt(face, m)
  BY DEF GroupOf, CornersAt
<1>3. \A b \in Corners : at[b] \in N
  OBVIOUS
<1>4. \A b \in Corners : f[b] \in Int
  <2> SUFFICES ASSUME NEW b \in Corners PROVE f[b] \in Int
    OBVIOUS
  <2>1. PICK x \in Int, y \in Int : x = w[b] /\ y = v[NodeOf(face, b)]
    OBVIOUS
  <2>2. x * y \in Int
    OBVIOUS
  <2> QED BY <2>1, <2>2
<1>5. ASSUME NEW m \in N PROVE h[m] = SumFunctionOnSet(f, CornersAt(face, m)) /\ h[m] \in Int
  <2> DEFINE C == CornersAt(face, m)
  <2>1. C \subseteq Corners /\ \A b \in C : NodeOf(face, b) = m
    BY DEF CornersAt
  <2>2. IsFiniteSet(C)
    BY <1>1, <2>1, FS_Subset
  <2> HIDE DEF C
  <2>3. PICK x \in Int : x = v[m]
    OBVIOUS
  <2>4. \A b \in C : w[b] \in Int /\ f[b] = x * w[b]
    <3> SUFFICES ASSUME NEW b \in C PROVE w[b] \in Int /\ f[b] = x * w[b]
      OBVIOUS
    <3>1. PICK y \in Int : y = w[b]
      BY <2>1
    <3>2. f[b] = y * x
      BY <2>1, <2>3, <3>1
    <3>3. y * x = x * y
      OBVIOUS
    <3> QED BY <3>1, <3>2, <3>3
  <2>5. SumFunctionOnSet(f, C) = x * SumFunctionOnSet(w, C)
    BY <2>2, <2>4, SumTimes
  <2>6. SumFunctionOnSet(w, C) \in Int
    BY <2>2, <2>4, SumInt
  <2>7. PICK s \in Int : s = SumFunctionOnSet(w, C)
    BY <2>6
  <2>8. h[m] = s * x
    BY <2>3, <2>7 DEF C
  <2>9. s * x = x * s /\ s * x \in Int
    OBVIOUS
  <2> QED BY <2>5, <2>7, <2>8, <2>9 DEF C
<1>6. \A m \in N : h[m] = SumFunctionOnSet(f, GroupOf(Corners, at, m))
  BY <1>2, <1>5
<1> HIDE DEF at
<1>7. SumFunctionOnSet(h, N) = SumFunctionOnSet(f, Corners)
  BY <1>1, <1>3, <1>4, <1>6, SumOfGroups
<1> QED BY <1>5, <1>7

LEMMA PointGapIs ==
  ASSUME NEW p \in AllPairs, NEW i \in DOMAIN p.rule, NEW n \in NonmortarNodes
  PROVE  /\ PointGap(p, p.rule[i], NodalNormals[n])
              = ShapeSum(p.rule[i], TRUE, AlongNormal(Faces1[p.face1], n)) - ShapeSum(p.rule[i], FALSE, WithResidual(Faces2[p.face2], n))
         /\ PointGap(p, p.rule[i], NodalNormals[n]) \in Int
         /\ ShapeSum(p.rule[i], TRUE, AlongNormal(Faces1[p.face1], n)) \in Int
         /\ ShapeSum(p.rule[i], FALSE, WithResidual(Faces2[p.face2], n)) \in Int
<1> DEFINE ip == p.rule[i]
           f1 == Faces1[p.face1]
           f2 == Faces2[p.face2]
           On(face, phi) == Sum3([b \in Corners |-> Scaled3(phi[b + 1], Position[NodeOf(face, b)])])
           plain == [b \in Corners |-> ip.nonmortar[b + 1] * AlongNormal(f2, n)[b]]
           shape == [b \in Corners |-> ip.nonmortar[b + 1]]
           with == [b \in Corners |-> ip.nonmortar[b + 1] * WithResidual(f2, n)[b]]
<1>1. /\ \A b \in Corners : NodeOf(f1, b) \in AllNodes /\ NodeOf(f2, b) \in AllNodes
      /\ \A b \in Corners : ip.mortar[b + 1] \in Int /\ ip.nonmortar[b + 1] \in Int
  BY PairFacts, PointFacts
<1>2. /\ \A d \in 1 .. 3 : On(f1, ip.mortar)[d] \in Int
      /\ dotProd(NodalNormals[n], On(f1, ip.mortar)) = SumFunctionOnSet([b \in Corners |-> ip.mortar[b + 1] * AlongNormal(f1, n)[b]], Corners)
  BY <1>1, PointAlong
<1>3. /\ \A d \in 1 .. 3 : On(f2, ip.nonmortar)[d] \in Int
      /\ dotProd(NodalNormals[n], On(f2, ip.nonmortar)) = SumFunctionOnSet(plain, Corners)
  BY <1>1, PointAlong
<1>4. SumFunctionOnSet([b \in Corners |-> ip.mortar[b + 1] * AlongNormal(f1, n)[b]], Corners) = ShapeSum(ip, TRUE, AlongNormal(f1, n))
  BY DEF ShapeSum, ShapeOf
<1>5. SumFunctionOnSet(with, Corners) = ShapeSum(ip, FALSE, WithResidual(f2, n))
  BY DEF ShapeSum, ShapeOf
<1>6. PointGap(p, ip, NodalNormals[n]) = dotProd(NodalNormals[n], Apart(On(f1, ip.mortar), On(f2, ip.nonmortar))) - ResidualGap * SumFunction(ip.nonmortar)
  BY DEF PointGap
<1>7. SumFunction(ip.nonmortar) = SumFunctionOnSet(shape, Corners)
  BY PointFacts
<1>8. ResidualGap \in Int
  BY MortarAssumption DEF MortarAssumption
<1>9. \A b \in Corners : plain[b] \in Int /\ shape[b] \in Int /\ with[b] = plain[b] + ResidualGap * shape[b]
  <2> SUFFICES ASSUME NEW b \in Corners PROVE plain[b] \in Int /\ shape[b] \in Int /\ with[b] = plain[b] + ResidualGap * shape[b]
    OBVIOUS
  <2>1. PICK s \in Int, y \in Int : s = ip.nonmortar[b + 1] /\ y = dotProd(NodalNormals[n], Position[NodeOf(f2, b)])
    BY <1>1, AlongFacts
  <2>2. plain[b] = s * y /\ shape[b] = s /\ with[b] = s * (y + ResidualGap)
    BY <2>1 DEF AlongNormal, WithResidual
  <2> HIDE DEF plain, shape, with
  <2> QED BY <1>8, <2>2
<1>10. (\A b \in Corners : AlongNormal(f1, n)[b] \in Int) /\ (\A b \in Corners : WithResidual(f2, n)[b] \in Int)
  <2>1. \A b \in Corners : /\ dotProd(NodalNormals[n], Position[NodeOf(f1, b)]) \in Int
                           /\ dotProd(NodalNormals[n], Position[NodeOf(f2, b)]) \in Int
    BY <1>1, AlongFacts
  <2> QED BY <1>8, <2>1 DEF AlongNormal, WithResidual
<1>11. IsFiniteSet(Corners)
  BY CornersFinite
<1> HIDE DEF plain, shape, with
<1>12. SumFunctionOnSet(with, Corners) = SumFunctionOnSet(plain, Corners) + ResidualGap * SumFunctionOnSet(shape, Corners)
  BY <1>8, <1>9, <1>11, SumLinear
<1>13. SumFunctionOnSet(plain, Corners) \in Int /\ SumFunctionOnSet(shape, Corners) \in Int
  BY <1>9, <1>11, SumInt
<1>14. dotProd(NodalNormals[n], Apart(On(f1, ip.mortar), On(f2, ip.nonmortar)))
         = dotProd(NodalNormals[n], On(f1, ip.mortar)) - dotProd(NodalNormals[n], On(f2, ip.nonmortar))
  <2> HIDE DEF On
  <2>1. PICK n1 \in Int, n2 \in Int, n3 \in Int : n1 = NodalNormals[n][1] /\ n2 = NodalNormals[n][2] /\ n3 = NodalNormals[n][3]
    BY NormalsFine
  <2>2. PICK x1 \in Int, x2 \in Int, x3 \in Int :
          x1 = On(f1, ip.mortar)[1] /\ x2 = On(f1, ip.mortar)[2] /\ x3 = On(f1, ip.mortar)[3]
    BY <1>2
  <2>3. PICK y1 \in Int, y2 \in Int, y3 \in Int :
          y1 = On(f2, ip.nonmortar)[1] /\ y2 = On(f2, ip.nonmortar)[2] /\ y3 = On(f2, ip.nonmortar)[3]
    BY <1>3
  <2>4. n1 * (x1 - y1) + n2 * (x2 - y2) + n3 * (x3 - y3) = (n1 * x1 + n2 * x2 + n3 * x3) - (n1 * y1 + n2 * y2 + n3 * y3)
    OBVIOUS
  <2> QED BY <2>1, <2>2, <2>3, <2>4 DEF dotProd, Apart
<1>15. ShapeSum(ip, TRUE, AlongNormal(f1, n)) \in Int /\ ShapeSum(ip, FALSE, WithResidual(f2, n)) \in Int
  BY <1>10, ShapeSumFine
<1>16. PointGap(p, ip, NodalNormals[n]) = ShapeSum(ip, TRUE, AlongNormal(f1, n)) - ShapeSum(ip, FALSE, WithResidual(f2, n))
  <2> HIDE DEF On, ip, f1, f2
  <2>1. PICK k \in Int, s \in Int, r \in Int : k = SumFunctionOnSet(plain, Corners) /\ s = SumFunctionOnSet(shape, Corners) /\ r = ResidualGap * s
    BY <1>8, <1>13
  <2>0. dotProd(NodalNormals[n], On(f1, ip.mortar)) \in Int /\ dotProd(NodalNormals[n], On(f2, ip.nonmortar)) \in Int
    BY <1>2, <1>3, <1>4, <1>13, <1>15
  <2>2. PICK x \in Int, y \in Int : x = dotProd(NodalNormals[n], On(f1, ip.mortar)) /\ y = dotProd(NodalNormals[n], On(f2, ip.nonmortar))
    BY <2>0
  <2>3. x = ShapeSum(ip, TRUE, AlongNormal(f1, n))
    BY <1>2, <1>4, <2>2
  <2>4. y = k /\ ShapeSum(ip, FALSE, WithResidual(f2, n)) = k + r
    BY <1>3, <1>5, <1>12, <2>1, <2>2
  <2>5. PointGap(p, ip, NodalNormals[n]) = (x - y) - r
    BY <1>6, <1>7, <1>14, <2>1, <2>2
  <2>6. (x - k) - r = x - (k + r)
    OBVIOUS
  <2> QED BY <2>3, <2>4, <2>5, <2>6
<1>17. PointGap(p, ip, NodalNormals[n]) \in Int
  <2>1. PICK x \in Int, y \in Int : /\ x = ShapeSum(ip, TRUE, AlongNormal(f1, n))
                                  /\ y = ShapeSum(ip, FALSE, WithResidual(f2, n))
    BY <1>15
  <2>2. x - y \in Int
    OBVIOUS
  <2> HIDE DEF ip, f1, f2
  <2> QED BY <1>16, <2>1, <2>2
<1> QED BY <1>15, <1>16, <1>17

\* Weights times values at the nodes of a face: the values at the points.
LEMMA WeightedSum ==
  ASSUME NEW p \in AllPairs, NEW mortar \in BOOLEAN, NEW a \in Corners, NEW val, \A b \in Corners : val[b] \in Int
  PROVE  /\ SumFunctionOnSet([b \in Corners |-> val[b] * Weight(p.rule, b, a, mortar)], Corners)
              = SumFunctionOnSet([i \in DOMAIN p.rule |-> p.rule[i].wt * p.rule[i].nonmortar[a + 1] * ShapeSum(p.rule[i], mortar, val)], DOMAIN p.rule)
<1> DEFINE R == DOMAIN p.rule
           f(m) == [b \in Corners |-> [i \in R |-> val[b] * Terms(p.rule, b, a, m)[i]]]
           columns(m) == [i \in R |-> [b \in Corners |-> val[b] * Terms(p.rule, b, a, m)[i]]]
           g(m) == [b \in Corners |-> val[b] * Weight(p.rule, b, a, m)]
           h(m) == [i \in R |-> p.rule[i].wt * p.rule[i].nonmortar[a + 1] * ShapeSum(p.rule[i], m, val)]
<1>1. IsFiniteSet(Corners) /\ IsFiniteSet(R)
  BY CornersFinite, PairFacts
<1>2. \A b \in Corners : \A i \in R : Terms(p.rule, b, a, mortar)[i] \in Int
  BY WeightIs
<1>3. \A b \in Corners : \A i \in R : f(mortar)[b][i] \in Int
  <2> SUFFICES ASSUME NEW b \in Corners, NEW i \in R PROVE f(mortar)[b][i] \in Int
    OBVIOUS
  <2>1. PICK x \in Int, y \in Int : x = val[b] /\ y = Terms(p.rule, b, a, mortar)[i]
    BY <1>2
  <2>2. x * y \in Int
    OBVIOUS
  <2> QED BY <2>1, <2>2
<1>4. \A b \in Corners : g(mortar)[b] = SumFunctionOnSet(f(mortar)[b], R)
  <2> SUFFICES ASSUME NEW b \in Corners PROVE g(mortar)[b] = SumFunctionOnSet(f(mortar)[b], R)
    OBVIOUS
  <2> DEFINE k == f(mortar)[b]
             w == Terms(p.rule, b, a, mortar)
  <2>1. \A i \in R : w[i] \in Int /\ k[i] = val[b] * w[i]
    BY <1>2
  <2>2. val[b] \in Int
    OBVIOUS
  <2>3. Weight(p.rule, b, a, mortar) = SumFunctionOnSet(w, R)
    BY WeightIs
  <2> HIDE DEF k, w, f
  <2>4. SumFunctionOnSet(k, R) = val[b] * SumFunctionOnSet(w, R)
    BY <1>1, <2>1, <2>2, SumTimes
  <2> QED BY <2>3, <2>4 DEF k
<1>5. \A i \in R : h(mortar)[i] = SumFunctionOnSet(columns(mortar)[i], Corners)
  <2> SUFFICES ASSUME NEW i \in R PROVE h(mortar)[i] = SumFunctionOnSet(columns(mortar)[i], Corners)
    OBVIOUS
  <2> DEFINE k == columns(mortar)[i]
             s == [b \in Corners |-> ShapeOf(p.rule[i], mortar, b) * val[b]]
  <2>1. PICK w \in Int, y \in Int : w = p.rule[i].wt /\ y = p.rule[i].nonmortar[a + 1]
    BY PointFacts
  <2>2. \A b \in Corners : s[b] \in Int /\ k[b] = (w * y) * s[b]
    <3> SUFFICES ASSUME NEW b \in Corners PROVE s[b] \in Int /\ k[b] = (w * y) * s[b]
      OBVIOUS
    <3>1. PICK x \in Int, z \in Int : x = ShapeOf(p.rule[i], mortar, b) /\ z = val[b]
      BY PointFacts DEF ShapeOf
    <3>2. s[b] = x * z /\ k[b] = z * (w * x * y)
      BY <2>1, <3>1 DEF Terms
    <3>3. z * (w * x * y) = (w * y) * (x * z) /\ x * z \in Int
      OBVIOUS
    <3> QED BY <3>2, <3>3
  <2>3. ShapeSum(p.rule[i], mortar, val) = SumFunctionOnSet(s, Corners)
    BY DEF ShapeSum
  <2>4. h(mortar)[i] = w * y * ShapeSum(p.rule[i], mortar, val)
    BY <2>1
  <2>5. w * y \in Int
    OBVIOUS
  <2> HIDE DEF k, s, h, columns
  <2>6. SumFunctionOnSet(k, Corners) = (w * y) * SumFunctionOnSet(s, Corners)
    BY <1>1, <2>2, <2>5, SumTimes
  <2> QED BY <2>3, <2>4, <2>6 DEF k
<1>6. \A b \in Corners : \A i \in R : columns(mortar)[i][b] = f(mortar)[b][i]
  OBVIOUS
<1> HIDE DEF f, g, h, R, columns
<1>7. SumFunctionOnSet(g(mortar), Corners) = SumFunctionOnSet(h(mortar), R)
  <2>1. /\ IsTable(f(mortar), columns(mortar), Corners, R) /\ SumsOf(f(mortar), Corners, R, g(mortar))
        /\ SumsOf(columns(mortar), R, Corners, h(mortar))
    BY <1>3, <1>4, <1>5, <1>6 DEF IsTable, SumsOf
  <2> QED BY <1>1, <2>1, SumTransposed
<1> QED BY <1>7 DEF g, h, R

\* Weights of two nodes of the nonmortar face are those of the two the other way round.
LEMMA WeightSymmetric ==
  ASSUME NEW p \in AllPairs, NEW a \in Corners, NEW b \in Corners
  PROVE  Weight(p.rule, a, b, FALSE) = Weight(p.rule, b, a, FALSE)
<1>1. ASSUME NEW i \in DOMAIN p.rule PROVE Terms(p.rule, a, b, FALSE)[i] = Terms(p.rule, b, a, FALSE)[i]
  <2>1. PICK w \in Int, x \in Int, y \in Int :
          w = p.rule[i].wt /\ x = p.rule[i].nonmortar[a + 1] /\ y = p.rule[i].nonmortar[b + 1]
    BY PointFacts
  <2>2. w * x * y = w * y * x
    OBVIOUS
  <2> QED BY <2>1, <2>2 DEF Terms, ShapeOf
<1>2. IsFiniteSet(DOMAIN p.rule)
  BY PairFacts
<1>3. SumFunctionOnSet(Terms(p.rule, a, b, FALSE), DOMAIN p.rule) = SumFunctionOnSet(Terms(p.rule, b, a, FALSE), DOMAIN p.rule)
  BY <1>1, <1>2, SumSame
<1> QED BY <1>3, WeightIs

\* What the points of a rule give at a corner, by the gap at each point; and what a pair gives at a node.
PointsGap(p, n, a) ==
  [i \in DOMAIN p.rule |-> p.rule[i].wt * p.rule[i].nonmortar[a + 1] * PointGap(p, p.rule[i], NodalNormals[n])]
PairGap(p, n) ==
  SumFunctionOnSet([a \in Corners |-> SumFunctionOnSet(PointsGap(p, n, a), DOMAIN p.rule)], CornersAt(Faces2[p.face2], n))

\* The nodes of both faces along a normal, as what the weights of a corner are multiplied with.
LEMMA AlongBoth ==
  ASSUME NEW p \in AllPairs, NEW n \in NonmortarNodes
  PROVE  /\ \A b \in Corners : AlongNormal(Faces1[p.face1], n)[b] \in Int
         /\ \A b \in Corners : WithResidual(Faces2[p.face2], n)[b] \in Int
<1>1. \A b \in Corners : /\ dotProd(NodalNormals[n], Position[NodeOf(Faces1[p.face1], b)]) \in Int
                         /\ dotProd(NodalNormals[n], Position[NodeOf(Faces2[p.face2], b)]) \in Int
  BY PairFacts, AlongFacts
<1>2. ResidualGap \in Int
  BY MortarAssumption DEF MortarAssumption
<1>3. ASSUME NEW b \in Corners PROVE dotProd(NodalNormals[n], Position[NodeOf(Faces2[p.face2], b)]) + ResidualGap \in Int
  <2>1. PICK x \in Int, y \in Int : x = dotProd(NodalNormals[n], Position[NodeOf(Faces2[p.face2], b)]) /\ y = ResidualGap
    BY <1>1, <1>2
  <2> QED BY <2>1
<1> QED BY <1>1, <1>3 DEF AlongNormal, WithResidual

\* The gap of a corner is the sum over the points, at the normal of its node.
LEMMA GapOfCornerIs ==
  ASSUME NEW p \in AllPairs, NEW a \in Corners, NEW n \in NonmortarNodes, n = NodeOf(Faces2[p.face2], a)
  PROVE  /\ GapOfCorner(p, MortarWeights[p], a) = SumFunctionOnSet(PointsGap(p, n, a), DOMAIN p.rule)
         /\ GapOfCorner(p, MortarWeights[p], a) \in Int
<1> DEFINE w == MortarWeights[p]
           v1 == AlongNormal(Faces1[p.face1], n)
           v2 == WithResidual(Faces2[p.face2], n)
           k1 == [b \in Corners |-> dotProd(NodalNormals[n], Position[NodeOf(Faces1[p.face1], b)]) * getNonmortarMortarWt(w, a, b)]
           k2 == [b \in Corners |-> (dotProd(NodalNormals[n], Position[NodeOf(Faces2[p.face2], b)]) + ResidualGap) * getNonmortarNonmortarWt(w, a, b)]
           e1 == [b \in Corners |-> v1[b] * Weight(p.rule, b, a, TRUE)]
           e2 == [b \in Corners |-> v2[b] * Weight(p.rule, b, a, FALSE)]
           s1 == [i \in DOMAIN p.rule |-> p.rule[i].wt * p.rule[i].nonmortar[a + 1] * ShapeSum(p.rule[i], TRUE, v1)]
           s2 == [i \in DOMAIN p.rule |-> p.rule[i].wt * p.rule[i].nonmortar[a + 1] * ShapeSum(p.rule[i], FALSE, v2)]
<1>1. GapOfCorner(p, w, a) = SumFunctionOnSet(k1, Corners) - SumFunctionOnSet(k2, Corners)
  BY DEF GapOfCorner, NormalAt, SumFunction
<1>2. \A b \in Corners : k1[b] = e1[b] /\ k2[b] = e2[b]
  <2> SUFFICES ASSUME NEW b \in Corners PROVE k1[b] = e1[b] /\ k2[b] = e2[b]
    OBVIOUS
  <2>1. getNonmortarMortarWt(w, a, b) = Weight(p.rule, b, a, TRUE)
    BY WeightsAre
  <2>2. getNonmortarNonmortarWt(w, a, b) = Weight(p.rule, b, a, FALSE)
    <3>1. getNonmortarNonmortarWt(w, a, b) = Weight(p.rule, a, b, FALSE)
      BY WeightsAre
    <3>2. Weight(p.rule, a, b, FALSE) = Weight(p.rule, b, a, FALSE)
      BY WeightSymmetric
    <3> HIDE DEF w
    <3> QED BY <3>1, <3>2
  <2>3. /\ v1[b] = dotProd(NodalNormals[n], Position[NodeOf(Faces1[p.face1], b)])
        /\ v2[b] = dotProd(NodalNormals[n], Position[NodeOf(Faces2[p.face2], b)]) + ResidualGap
    BY DEF AlongNormal, WithResidual
  <2> HIDE DEF w, v1, v2
  <2> QED BY <2>1, <2>2, <2>3
<1>3. IsFiniteSet(Corners) /\ IsFiniteSet(DOMAIN p.rule)
  BY CornersFinite, PairFacts
<1>4. (\A b \in Corners : v1[b] \in Int) /\ (\A b \in Corners : v2[b] \in Int)
  BY AlongBoth
<1>5. SumFunctionOnSet(k1, Corners) = SumFunctionOnSet(e1, Corners) /\ SumFunctionOnSet(k2, Corners) = SumFunctionOnSet(e2, Corners)
  <2> HIDE DEF k1, k2, e1, e2
  <2> QED BY <1>2, <1>3, SumSame
<1>6. /\ SumFunctionOnSet(e1, Corners) = SumFunctionOnSet(s1, DOMAIN p.rule)
      /\ SumFunctionOnSet(e2, Corners) = SumFunctionOnSet(s2, DOMAIN p.rule)
  <2> HIDE DEF v1, v2
  <2> QED BY <1>4, WeightedSum
<1>7. ASSUME NEW i \in DOMAIN p.rule
      PROVE  s1[i] \in Int /\ s2[i] \in Int /\ s1[i] = PointsGap(p, n, a)[i] + s2[i] /\ PointsGap(p, n, a)[i] \in Int
  <2>1. PICK x \in Int, y \in Int : x = p.rule[i].wt /\ y = p.rule[i].nonmortar[a + 1]
    BY PointFacts
  <2>2. PICK u \in Int, z \in Int : u = ShapeSum(p.rule[i], TRUE, v1) /\ z = ShapeSum(p.rule[i], FALSE, v2)
    BY PointGapIs
  <2>3. PointGap(p, p.rule[i], NodalNormals[n]) = u - z
    BY <2>2, PointGapIs
  <2>4. PointsGap(p, n, a)[i] = x * y * (u - z)
    BY <2>1, <2>3 DEF PointsGap
  <2>5. s1[i] = x * y * u /\ s2[i] = x * y * z
    BY <2>1, <2>2
  <2>6. x * y * u = x * y * (u - z) + x * y * z /\ x * y * (u - z) \in Int /\ x * y * u \in Int /\ x * y * z \in Int
    OBVIOUS
  <2> HIDE DEF s1, s2
  <2> QED BY <2>4, <2>5, <2>6
<1>8. PICK g : g = PointsGap(p, n, a)
  OBVIOUS
<1>9. SumFunctionOnSet(s1, DOMAIN p.rule) = SumFunctionOnSet(g, DOMAIN p.rule) + SumFunctionOnSet(s2, DOMAIN p.rule)
  <2> HIDE DEF s1, s2
  <2>1. \A i \in DOMAIN p.rule : g[i] \in Int /\ s2[i] \in Int /\ s1[i] = g[i] + s2[i]
    BY <1>7, <1>8
  <2> QED BY <1>3, <2>1, SumPlus
<1>10. SumFunctionOnSet(g, DOMAIN p.rule) \in Int /\ SumFunctionOnSet(s2, DOMAIN p.rule) \in Int
  <2> HIDE DEF s1, s2
  <2>1. \A i \in DOMAIN p.rule : g[i] \in Int /\ s2[i] \in Int
    BY <1>7, <1>8
  <2> QED BY <1>3, <2>1, SumInt
<1>11. PICK x \in Int, y \in Int : x = SumFunctionOnSet(g, DOMAIN p.rule) /\ y = SumFunctionOnSet(s2, DOMAIN p.rule)
  BY <1>10
<1> HIDE DEF w, v1, v2, k1, k2, e1, e2, s1, s2
<1>12. GapOfCorner(p, w, a) = (x + y) - y
  BY <1>1, <1>5, <1>6, <1>9, <1>11
<1>13. (x + y) - y = x
  OBVIOUS
<1> QED BY <1>8, <1>11, <1>12, <1>13 DEF w

\* What the kernels add to the gap of a node.
LEMMA PairGapIs ==
  ASSUME NEW p \in AllPairs, NEW n \in NonmortarNodes
  PROVE  /\ SumFunctionOnSet([a \in Corners |-> GapOfCorner(p, MortarWeights[p], a)], CornersAt(Faces2[p.face2], n)) = PairGap(p, n)
         /\ PairGap(p, n) \in Int
         /\ \A m \in Methods \ {"aligned"} :
              SumFunctionOnSet(Kernel[m][p].gaps, CornersAt(Faces2[p.face2], n)) = PairGap(p, n)
<1> DEFINE C == CornersAt(Faces2[p.face2], n)
           g == [a \in Corners |-> GapOfCorner(p, MortarWeights[p], a)]
           s == [a \in Corners |-> SumFunctionOnSet(PointsGap(p, n, a), DOMAIN p.rule)]
<1>1. C \subseteq Corners /\ \A a \in C : n = NodeOf(Faces2[p.face2], a)
  BY DEF CornersAt
<1>2. IsFiniteSet(C)
  BY <1>1, CornersFinite, FS_Subset
<1>3. \A a \in C : g[a] = s[a] /\ g[a] \in Int
  BY <1>1, GapOfCornerIs
<1>4. SumFunctionOnSet(g, C) = SumFunctionOnSet(s, C) /\ SumFunctionOnSet(g, C) \in Int
  <2> HIDE DEF C, g, s
  <2> QED BY <1>2, <1>3, SumSame, SumInt
<1>5. ASSUME NEW m \in Methods \ {"aligned"} PROVE Kernel[m][p].gaps = g
  <2>1. Kernel[m][p].gaps = GapsOfPair(m, p)
    BY DEF Kernel
  <2>2. m # "aligned"
    OBVIOUS
  <2> QED BY <2>1, <2>2 DEF GapsOfPair
<1>6. PairGap(p, n) = SumFunctionOnSet(s, C)
  BY DEF PairGap
<1> HIDE DEF g, s, C
<1>7. \A m \in Methods \ {"aligned"} : SumFunctionOnSet(Kernel[m][p].gaps, C) = PairGap(p, n)
  BY <1>4, <1>5, <1>6
<1> QED BY <1>4, <1>6, <1>7 DEF g, C

\* What the matrix of the mortar weights has of a corner in a column, and in a row of it.
RowSum(p, a, m) ==
  SumFunctionOnSet([b \in Corners |-> getNonmortarMortarWt(MortarWeights[p], a, b)], CornersAt(Faces1[p.face1], m))
  + SumFunctionOnSet([b \in Corners |-> getNonmortarNonmortarWt(MortarWeights[p], a, b)], CornersAt(Faces2[p.face2], m))
WeightEntry(p, r, c) == SumFunctionOnSet([a \in Corners |-> RowSum(p, a, c)], CornersAt(Faces2[p.face2], r))

\* A node along a normal, the nonmortar side with the other sign and the residual gap.
Along(n, m) ==
  IF m \in NonmortarNodes THEN -dotProd(NodalNormals[n], Position[m]) - ResidualGap
                          ELSE dotProd(NodalNormals[n], Position[m])

\* It is an integer.
LEMMA AlongFine == ASSUME NEW n \in NonmortarNodes, NEW m \in AllNodes PROVE Along(n, m) \in Int
<1>1. PICK x \in Int, r \in Int : x = dotProd(NodalNormals[n], Position[m]) /\ r = ResidualGap
  BY AlongFacts, MortarAssumption DEF MortarAssumption
<1>2. -x - r \in Int
  OBVIOUS
<1> QED BY <1>1, <1>2 DEF Along

\* A row of one corner, times the nodes, is the gap of the corner.
LEMMA RowOfCorner ==
  ASSUME NEW p \in AllPairs, NEW a \in Corners, NEW n \in NonmortarNodes, n = NodeOf(Faces2[p.face2], a)
  PROVE  /\ SumFunctionOnSet([m \in AllNodes |-> RowSum(p, a, m) * Along(n, m)], AllNodes) = GapOfCorner(p, MortarWeights[p], a)
         /\ \A m \in AllNodes : RowSum(p, a, m) \in Int
<1> DEFINE w == MortarWeights[p]
           f1 == Faces1[p.face1]
           f2 == Faces2[p.face2]
           w1 == [b \in Corners |-> getNonmortarMortarWt(w, a, b)]
           w2 == [b \in Corners |-> getNonmortarNonmortarWt(w, a, b)]
           v == [m \in AllNodes |-> Along(n, m)]
           h1 == [m \in AllNodes |-> SumFunctionOnSet(w1, CornersAt(f1, m)) * v[m]]
           h2 == [m \in AllNodes |-> SumFunctionOnSet(w2, CornersAt(f2, m)) * v[m]]
           h == [m \in AllNodes |-> RowSum(p, a, m) * Along(n, m)]
           e1 == [b \in Corners |-> w1[b] * v[NodeOf(f1, b)]]
           e2 == [b \in Corners |-> w2[b] * v[NodeOf(f2, b)]]
           k1 == [b \in Corners |-> dotProd(NodalNormals[n], Position[NodeOf(f1, b)]) * getNonmortarMortarWt(w, a, b)]
           k2 == [b \in Corners |-> (dotProd(NodalNormals[n], Position[NodeOf(f2, b)]) + ResidualGap) * getNonmortarNonmortarWt(w, a, b)]
<1>1. IsFiniteSet(Corners) /\ IsFiniteSet(AllNodes)
  BY CornersFinite
<1>2. /\ \A b \in Corners : NodeOf(f1, b) \in AllNodes
      /\ \A b \in Corners : NodeOf(f2, b) \in AllNodes
  BY PairFacts
<1>3. \A b \in Corners : NodeOf(f1, b) \notin NonmortarNodes /\ NodeOf(f2, b) \in NonmortarNodes
  <2>1. IsFace(f1) /\ Range(f1) \cap NonmortarNodes = {}
    BY PairFacts, MortarAssumption DEF MortarAssumption
  <2>2. \A b \in Corners : b + 1 \in 1 .. NumFaceVert
    BY MortarAssumption DEF Corners, MortarAssumption
  <2>3. \A b \in Corners : NodeOf(f1, b) \in Range(f1)
    BY <2>1, <2>2 DEF IsFace, NodeOf, Range
  <2>4. \A b \in Corners : NodeOf(f2, b) \in NonmortarNodes
    BY PairFacts
  <2> HIDE DEF f1, f2
  <2> QED BY <2>1, <2>3, <2>4
<1>4. ASSUME NEW b \in Corners PROVE w1[b] \in Int /\ w2[b] \in Int
  BY WeightsAre, WeightIs
<1>5. \A m \in AllNodes : v[m] \in Int
  BY AlongFine
<1>6. \A b \in Corners : w1[b] \in Int
  BY <1>4
<1>7. \A b \in Corners : w2[b] \in Int
  BY <1>4
<1>8. /\ SumFunctionOnSet(h1, AllNodes) = SumFunctionOnSet(e1, Corners)
      /\ \A m \in AllNodes : h1[m] \in Int
  <2>1. \A m \in AllNodes : h1[m] = SumFunctionOnSet(w1, CornersAt(f1, m)) * v[m]
    OBVIOUS
  <2>2. \A b \in Corners : e1[b] = w1[b] * v[NodeOf(f1, b)]
    OBVIOUS
  <2> HIDE DEF w, f1, f2, w1, w2, v, h1, e1
  <2>3. Spreads(AllNodes, f1, w1, v, h1, e1)
    BY <1>2, <1>5, <1>6, <2>1, <2>2 DEF Spreads
  <2> QED BY <1>1, <2>3, SpreadOverNodes
<1>9. /\ SumFunctionOnSet(h2, AllNodes) = SumFunctionOnSet(e2, Corners)
      /\ \A m \in AllNodes : h2[m] \in Int
  <2>1. \A m \in AllNodes : h2[m] = SumFunctionOnSet(w2, CornersAt(f2, m)) * v[m]
    OBVIOUS
  <2>2. \A b \in Corners : e2[b] = w2[b] * v[NodeOf(f2, b)]
    OBVIOUS
  <2> HIDE DEF w, f1, f2, w1, w2, v, h2, e2
  <2>3. Spreads(AllNodes, f2, w2, v, h2, e2)
    BY <1>2, <1>5, <1>7, <2>1, <2>2 DEF Spreads
  <2> QED BY <1>1, <2>3, SpreadOverNodes
<1>10. ASSUME NEW m \in AllNodes PROVE RowSum(p, a, m) \in Int /\ h[m] = h1[m] + h2[m]
  <2> DEFINE C1 == CornersAt(f1, m)
             C2 == CornersAt(f2, m)
  <2>1. C1 \subseteq Corners /\ C2 \subseteq Corners
    BY DEF CornersAt
  <2>2. IsFiniteSet(C1) /\ IsFiniteSet(C2)
    BY <1>1, <2>1, FS_Subset
  <2>3. RowSum(p, a, m) = SumFunctionOnSet(w1, C1) + SumFunctionOnSet(w2, C2)
    BY DEF RowSum
  <2>4. h1[m] = SumFunctionOnSet(w1, C1) * v[m] /\ h2[m] = SumFunctionOnSet(w2, C2) * v[m] /\ h[m] = RowSum(p, a, m) * v[m]
    OBVIOUS
  <2> HIDE DEF w1, w2, v, h1, h2, h, C1, C2
  <2>5. SumFunctionOnSet(w1, C1) \in Int
    BY <1>6, <2>1, <2>2, SumInt
  <2>6. SumFunctionOnSet(w2, C2) \in Int
    BY <1>7, <2>1, <2>2, SumInt
  <2>7. PICK x \in Int, y \in Int, z \in Int : x = SumFunctionOnSet(w1, C1) /\ y = SumFunctionOnSet(w2, C2) /\ z = v[m]
    BY <1>5, <2>5, <2>6
  <2>8. (x + y) * z = x * z + y * z /\ x + y \in Int
    OBVIOUS
  <2> QED BY <2>3, <2>4, <2>7, <2>8
<1>11. \A b \in Corners : /\ k1[b] = e1[b]
                          /\ k2[b] \in Int /\ e2[b] = (-1) * k2[b]
  <2> SUFFICES ASSUME NEW b \in Corners PROVE k1[b] = e1[b] /\ k2[b] \in Int /\ e2[b] = (-1) * k2[b]
    OBVIOUS
  <2>1. PICK x \in Int, y \in Int, r \in Int, g \in Int, q \in Int :
          /\ x = dotProd(NodalNormals[n], Position[NodeOf(f1, b)]) /\ y = dotProd(NodalNormals[n], Position[NodeOf(f2, b)])
          /\ r = ResidualGap /\ g = w1[b] /\ q = w2[b]
    <3>1. dotProd(NodalNormals[n], Position[NodeOf(f1, b)]) \in Int /\ dotProd(NodalNormals[n], Position[NodeOf(f2, b)]) \in Int
      BY <1>2, AlongFacts
    <3>2. ResidualGap \in Int
      BY MortarAssumption DEF MortarAssumption
    <3> HIDE DEF w1, w2, f1, f2
    <3> QED BY <1>6, <1>7, <3>1, <3>2
  <2>2. v[NodeOf(f1, b)] = x
    <3>1. v[NodeOf(f1, b)] = Along(n, NodeOf(f1, b))
      BY <1>2
    <3> HIDE DEF v, f1
    <3> QED BY <1>3, <2>1, <3>1 DEF Along
  <2>3. v[NodeOf(f2, b)] = -y - r
    <3>1. v[NodeOf(f2, b)] = Along(n, NodeOf(f2, b))
      BY <1>2
    <3> HIDE DEF v, f2
    <3> QED BY <1>3, <2>1, <3>1 DEF Along
  <2>4. k1[b] = x * g /\ k2[b] = (y + r) * q /\ e1[b] = g * v[NodeOf(f1, b)] /\ e2[b] = q * v[NodeOf(f2, b)]
    BY <2>1
  <2>5. x * g = g * x /\ (y + r) * q \in Int /\ q * (-y - r) = (-1) * ((y + r) * q)
    OBVIOUS
  <2> HIDE DEF k1, k2, e1, e2, v
  <2> QED BY <2>2, <2>3, <2>4, <2>5
<1>12. GapOfCorner(p, w, a) = SumFunctionOnSet(k1, Corners) - SumFunctionOnSet(k2, Corners)
  BY DEF GapOfCorner, NormalAt, SumFunction
<1> HIDE DEF k1, k2, e1, e2, h1, h2, v, w1, w2, f1, f2, w
<1>13. SumFunctionOnSet(h, AllNodes) = SumFunctionOnSet(h1, AllNodes) + SumFunctionOnSet(h2, AllNodes)
  <2> HIDE DEF h
  <2>1. \A m \in AllNodes : h1[m] \in Int /\ h2[m] \in Int /\ h[m] = h1[m] + h2[m]
    BY <1>8, <1>9, <1>10
  <2> QED BY <1>1, <2>1, SumPlus
<1>14. SumFunctionOnSet(k1, Corners) = SumFunctionOnSet(e1, Corners)
  BY <1>1, <1>11, SumSame
<1>15. SumFunctionOnSet(e2, Corners) = (-1) * SumFunctionOnSet(k2, Corners) /\ SumFunctionOnSet(k2, Corners) \in Int
  <2>1. -1 \in Int
    OBVIOUS
  <2>2. \A b \in Corners : k2[b] \in Int /\ e2[b] = (-1) * k2[b]
    BY <1>11
  <2> QED BY <1>1, <2>1, <2>2, SumTimes, SumInt
<1>16. SumFunctionOnSet(h1, AllNodes) \in Int
  BY <1>1, <1>8, SumInt
<1>17. SumFunctionOnSet(h, AllNodes) = GapOfCorner(p, w, a)
  <2> HIDE DEF h
  <2>1. PICK x \in Int, y \in Int : x = SumFunctionOnSet(h1, AllNodes) /\ y = SumFunctionOnSet(k2, Corners)
    BY <1>15, <1>16
  <2>2. x + (-1) * y = x - y
    OBVIOUS
  <2> QED BY <1>8, <1>9, <1>12, <1>13, <1>14, <1>15, <2>1, <2>2
<1> QED BY <1>10, <1>17 DEF w

\* A row of the matrix of one pair, times the nodes, is what the pair gives to the gap of the row's node.
LEMMA RowOfPair ==
  ASSUME NEW p \in AllPairs, NEW n \in NonmortarNodes
  PROVE  /\ SumFunctionOnSet([m \in AllNodes |-> WeightEntry(p, n, m) * Along(n, m)], AllNodes) = PairGap(p, n)
         /\ \A m \in AllNodes : WeightEntry(p, n, m) \in Int
<1> DEFINE C == CornersAt(Faces2[p.face2], n)
           f == [a \in C |-> [m \in AllNodes |-> RowSum(p, a, m) * Along(n, m)]]
           t == [m \in AllNodes |-> [a \in C |-> RowSum(p, a, m) * Along(n, m)]]
           g == [a \in Corners |-> GapOfCorner(p, MortarWeights[p], a)]
           h == [m \in AllNodes |-> WeightEntry(p, n, m) * Along(n, m)]
           k(m) == [a \in Corners |-> RowSum(p, a, m)]
<1>1. C \subseteq Corners /\ \A a \in C : n = NodeOf(Faces2[p.face2], a)
  BY DEF CornersAt
<1>2. IsFiniteSet(C) /\ IsFiniteSet(AllNodes)
  BY <1>1, CornersFinite, FS_Subset
<1>3. ASSUME NEW a \in C, NEW m \in AllNodes PROVE RowSum(p, a, m) \in Int /\ RowSum(p, a, m) * Along(n, m) \in Int
  <2>1. RowSum(p, a, m) \in Int
    BY <1>1, RowOfCorner
  <2>2. PICK x \in Int, y \in Int : x = RowSum(p, a, m) /\ y = Along(n, m)
    BY <2>1, AlongFine
  <2>3. x * y \in Int
    OBVIOUS
  <2> QED BY <2>2, <2>3
<1>4. \A a \in C : \A m \in AllNodes : f[a][m] \in Int /\ t[m][a] = f[a][m]
  BY <1>3
<1>5. \A a \in C : g[a] = SumFunctionOnSet(f[a], AllNodes)
  BY <1>1, RowOfCorner
<1>6. ASSUME NEW m \in AllNodes PROVE h[m] = SumFunctionOnSet(t[m], C) /\ WeightEntry(p, n, m) \in Int
  <2>1. PICK x \in Int : x = Along(n, m)
    BY AlongFine
  <2>2. \A a \in C : k(m)[a] \in Int /\ t[m][a] = x * k(m)[a]
    <3> SUFFICES ASSUME NEW a \in C PROVE k(m)[a] \in Int /\ t[m][a] = x * k(m)[a]
      OBVIOUS
    <3>1. PICK y \in Int : y = RowSum(p, a, m)
      BY <1>3
    <3>2. k(m)[a] = y /\ t[m][a] = y * x
      BY <1>1, <2>1, <3>1
    <3>3. y * x = x * y
      OBVIOUS
    <3> QED BY <3>2, <3>3
  <2>3. WeightEntry(p, n, m) = SumFunctionOnSet(k(m), C)
    BY DEF WeightEntry
  <2>4. h[m] = WeightEntry(p, n, m) * x
    BY <2>1
  <2>5. PICK tm, km : tm = t[m] /\ km = k(m)
    OBVIOUS
  <2>6. \A a \in C : km[a] \in Int /\ tm[a] = x * km[a]
    BY <2>2, <2>5
  <2>7. SumFunctionOnSet(tm, C) = x * SumFunctionOnSet(km, C)
    BY <1>2, <2>6, SumTimes
  <2>8. SumFunctionOnSet(km, C) \in Int
    BY <1>2, <2>6, SumInt
  <2>9. PICK s \in Int : s = SumFunctionOnSet(km, C)
    BY <2>8
  <2>10. s * x = x * s
    OBVIOUS
  <2> HIDE DEF t, k, h, C
  <2> QED BY <2>3, <2>4, <2>5, <2>7, <2>9, <2>10
<1>7. SumFunctionOnSet(g, C) = PairGap(p, n)
  BY PairGapIs
<1> HIDE DEF f, t, g, h, k, C
<1>8. IsTable(f, t, C, AllNodes) /\ SumsOf(f, C, AllNodes, g) /\ SumsOf(t, AllNodes, C, h)
  BY <1>4, <1>5, <1>6 DEF IsTable, SumsOf
<1>9. SumFunctionOnSet(g, C) = SumFunctionOnSet(h, AllNodes)
  BY <1>2, <1>8, SumTransposed
<1>10. SumFunctionOnSet(h, AllNodes) = PairGap(p, n)
  BY <1>7, <1>9
<1>11. \A m \in AllNodes : WeightEntry(p, n, m) \in Int
  BY <1>6
<1> QED BY <1>10, <1>11 DEF h

\* What is added at a place, in the matrix of the update or of nothing yet.
LEMMA AddedAt ==
  ASSUME NEW val, "entries" \in DOMAIN smat, smat' = Added(val), NEW r, NEW c, EntryAt(r, c) \in Int, NEW x \in Int,
         <<r, c>> \in DOMAIN val => val[<<r, c>>] = x, <<r, c>> \notin DOMAIN val => x = 0
  PROVE  EntryAt(r, c)' = EntryAt(r, c) + x /\ "entries" \in DOMAIN smat'
<1> DEFINE new == [at \in DOMAIN smat.entries \cup DOMAIN val |->
                     (IF at \in DOMAIN smat.entries THEN smat.entries[at] ELSE 0) + (IF at \in DOMAIN val THEN val[at] ELSE 0)]
<1>1. smat' = [smat EXCEPT !.entries = new]
  BY DEF Added
<1>2. "entries" \in DOMAIN smat' /\ smat'.entries = new
  <2> HIDE DEF new
  <2> QED BY <1>1
<1>3. PICK y \in Int : y = EntryAt(r, c)
  OBVIOUS
<1>4. y = (IF <<r, c>> \in DOMAIN smat.entries THEN smat.entries[<<r, c>>] ELSE 0)
  BY <1>3 DEF EntryAt
<1>5. EntryAt(r, c)' = IF <<r, c>> \in DOMAIN new THEN new[<<r, c>>] ELSE 0
  <2> HIDE DEF new
  <2> QED BY <1>2 DEF EntryAt
<1>6. y + 0 = y /\ 0 + x = x /\ y + x \in Int
  OBVIOUS
<1>7. CASE <<r, c>> \in DOMAIN val
  <2>1. new[<<r, c>>] = y + x /\ <<r, c>> \in DOMAIN new
    BY <1>4, <1>7
  <2> QED BY <1>2, <1>3, <1>5, <2>1
<1>8. CASE <<r, c>> \notin DOMAIN val /\ <<r, c>> \in DOMAIN smat.entries
  <2>1. new[<<r, c>>] = y + 0 /\ <<r, c>> \in DOMAIN new
    BY <1>4, <1>8
  <2> QED BY <1>2, <1>3, <1>5, <1>8, <2>1
<1>9. CASE <<r, c>> \notin DOMAIN val /\ <<r, c>> \notin DOMAIN smat.entries
  <2>1. <<r, c>> \notin DOMAIN new /\ y = 0
    BY <1>4, <1>9
  <2> QED BY <1>2, <1>3, <1>5, <1>9, <2>1
<1> QED BY <1>7, <1>8, <1>9

\* A face that lacks a node has no corner there.
LEMMA NoCornerAt == ASSUME NEW face, IsFace(face), NEW n, n \notin Range(face) PROVE CornersAt(face, n) = {}
<1>1. \A a \in Corners : a + 1 \in 1 .. NumFaceVert
  BY MortarAssumption DEF MortarAssumption, Corners
<1>2. \A a \in Corners : NodeOf(face, a) \in Range(face)
  BY <1>1 DEF IsFace, NodeOf, Range
<1> QED BY <1>2 DEF CornersAt

\* A pair adds its entries to the matrix; where it has none they are zero.
LEMMA EntryAdded ==
  ASSUME NEW p \in AllPairs, "entries" \in DOMAIN smat, smat' = assembleMortarWts(p, MortarWeights[p]),
         NEW r \in NonmortarNodes, NEW c \in AllNodes, EntryAt(r, c) \in Int
  PROVE  EntryAt(r, c)' = EntryAt(r, c) + WeightEntry(p, r, c) /\ "entries" \in DOMAIN smat'
<1> DEFINE places == Range(Faces2[p.face2]) \X NodesOf(p)
           Val(at) == SumFunctionOnSet([a \in Corners |-> RowSum(p, a, at[2])], CornersAt(Faces2[p.face2], at[1]))
           val == [at \in places |-> Val(at)]
<1>1. smat' = Added(val)
  BY DEF assembleMortarWts, RowSum
<1>2. Val(<<r, c>>) = WeightEntry(p, r, c)
  BY DEF WeightEntry
<1>3. WeightEntry(p, r, c) \in Int
  BY RowOfPair
<1>4. IsFace(Faces1[p.face1]) /\ IsFace(Faces2[p.face2])
  BY PairFacts, MortarAssumption DEF MortarAssumption
<1>5. ASSUME <<r, c>> \notin places PROVE WeightEntry(p, r, c) = 0
  <2>1. CASE r \notin Range(Faces2[p.face2])
    <3>1. CornersAt(Faces2[p.face2], r) = {}
      BY <1>4, <2>1, NoCornerAt
    <3> QED BY <3>1, SumEmpty DEF WeightEntry
  <2>2. CASE c \notin NodesOf(p)
    <3>1. CornersAt(Faces1[p.face1], c) = {} /\ CornersAt(Faces2[p.face2], c) = {}
      BY <1>4, <2>2, NoCornerAt DEF NodesOf
    <3>2. \A a \in Corners : RowSum(p, a, c) = 0
      BY <3>1, SumEmpty DEF RowSum
    <3> DEFINE k == [a \in Corners |-> RowSum(p, a, c)]
               C == CornersAt(Faces2[p.face2], r)
    <3>3. \A a \in C : k[a] = 0
      BY <3>2 DEF CornersAt
    <3>4. IsFiniteSet(C)
      BY CornersFinite, FS_Subset DEF CornersAt
    <3>5. WeightEntry(p, r, c) = SumFunctionOnSet(k, C)
      BY DEF WeightEntry
    <3> HIDE DEF k, C
    <3> QED BY <3>3, <3>4, <3>5, SumZero
  <2> QED BY <1>5, <2>1, <2>2
<1>6. DOMAIN val = places /\ (<<r, c>> \in places => val[<<r, c>>] = WeightEntry(p, r, c))
  BY <1>2
<1> HIDE DEF val, places
<1> QED BY <1>1, <1>3, <1>5, <1>6, AddedAt

\* What the first pairs of a list give to the gap of a node and to an entry of the matrix.
GapTerms(list, n) == [i \in DOMAIN list |-> PairGap(list[i], n)]
EntryTerms(list, r, c) == [i \in DOMAIN list |-> WeightEntry(list[i], r, c)]
GapsAre(k) == \A n \in NonmortarNodes : nodeGap[n] = SumFunctionOnSet(GapTerms(pairs, n), 1 .. k)
EntriesAre(k) ==
  /\ "entries" \in DOMAIN smat
  /\ \A r \in NonmortarNodes : \A c \in AllNodes : EntryAt(r, c) = SumFunctionOnSet(EntryTerms(pairs, r, c), 1 .. k)

\* Enzyme computes no gaps where it is asked for the weights alone.
NoGaps == method = "enzyme" /\ evalMode = "weights"

\* The inductive invariant of the gaps: how many pairs are in them, and in the matrix, at each step of the loops.
GapIInv ==
  /\ mortarStep \in {"idle", "gaps", "reserve", "pairs", "none"} /\ atPair - 1 <= Len(pairs)
  /\ method # "aligned" =>
       /\ mortarStep = "gaps" => method # "enzyme" /\ GapsAre(atPair - 1)
       /\ mortarStep = "reserve" => method = "enzyme" /\ atPair = 1 /\ GapsAre(0)
       /\ mortarStep = "pairs" => NoGaps \/ GapsAre(IF method = "enzyme" THEN atPair - 1 ELSE Len(pairs))
       /\ Ready => NoGaps \/ GapsAre(Len(pairs))
  /\ method = "weights" =>
       /\ mortarStep = "pairs" => EntriesAre(atPair - 1)
       /\ Ready => EntriesAre(Len(pairs))

\* A sum up to a number has one more term than that up to the number before.
LEMMA UpToNext ==
  ASSUME NEW k \in Nat \ {0}, NEW f, \A i \in 1 .. k : f[i] \in Int
  PROVE  SumFunctionOnSet(f, 1 .. k) = SumFunctionOnSet(f, 1 .. (k - 1)) + f[k] /\ SumFunctionOnSet(f, 1 .. (k - 1)) \in Int
<1>1. IsFiniteSet(1 .. k) /\ k \in 1 .. k /\ (1 .. k) \ {k} = 1 .. (k - 1)
  BY FS_Interval
<1>2. SumFunctionOnSet(f, 1 .. k) = f[k] + SumFunctionOnSet(f, (1 .. k) \ {k})
  BY <1>1, SumRemove
<1>3. IsFiniteSet(1 .. (k - 1)) /\ \A i \in 1 .. (k - 1) : f[i] \in Int
  BY FS_Interval
<1>4. SumFunctionOnSet(f, 1 .. (k - 1)) \in Int
  BY <1>3, SumInt
<1>5. PICK x \in Int, y \in Int : x = f[k] /\ y = SumFunctionOnSet(f, 1 .. (k - 1))
  BY <1>1, <1>4
<1>6. x + y = y + x
  OBVIOUS
<1> QED BY <1>1, <1>2, <1>5, <1>6

\* They are integers.
LEMMA TermsFine ==
  ASSUME NEW list \in Seq(AllPairs), NEW n \in NonmortarNodes
  PROVE  /\ \A i \in DOMAIN list : GapTerms(list, n)[i] = PairGap(list[i], n) /\ GapTerms(list, n)[i] \in Int
         /\ \A c \in AllNodes : \A i \in DOMAIN list :
              EntryTerms(list, n, c)[i] = WeightEntry(list[i], n, c) /\ EntryTerms(list, n, c)[i] \in Int
<1>1. \A i \in DOMAIN list : list[i] \in AllPairs
  OBVIOUS
<1> QED BY <1>1, PairGapIs, RowOfPair DEF GapTerms, EntryTerms

\* No pair has been added.
LEMMA NoGapYet ==
  ASSUME NEW f, f = [n \in NonmortarNodes |-> 0], NEW list
  PROVE  \A n \in NonmortarNodes : f[n] = SumFunctionOnSet(GapTerms(list, n), 1 .. 0)
<1>1. 1 .. 0 = {}
  OBVIOUS
<1> QED BY <1>1, SumEmpty

\* One more pair is in the gaps.
LEMMA GapsGrow ==
  ASSUME MortarIInv, method # "aligned", atPair <= Len(pairs), GapsAre(atPair - 1),
         nodeGap' = AddGaps(pairs[atPair]), pairs' = pairs
  PROVE  \A n \in NonmortarNodes : nodeGap'[n] = SumFunctionOnSet(GapTerms(pairs, n), 1 .. atPair)
<1>1. pairs \in Seq(AllPairs) /\ method \in Methods /\ atPair \in Nat \ {0}
  BY DEF MortarIInv
<1>2. PICK k \in Nat \ {0} : k = atPair
  BY <1>1
<1>3. PICK p \in AllPairs : p = pairs[k]
  BY <1>1, <1>2
<1>4. 1 .. k \subseteq DOMAIN pairs /\ k \in DOMAIN pairs
  BY <1>1, <1>2
<1>5. ASSUME NEW n \in NonmortarNodes PROVE nodeGap'[n] = SumFunctionOnSet(GapTerms(pairs, n), 1 .. k)
  <2>1. nodeGap'[n] = nodeGap[n] + SumFunctionOnSet(Kernel[method][p].gaps, CornersAt(Faces2[p.face2], n))
    BY <1>2, <1>3 DEF AddGaps
  <2>2. SumFunctionOnSet(Kernel[method][p].gaps, CornersAt(Faces2[p.face2], n)) = PairGap(p, n)
    BY <1>1, PairGapIs
  <2>3. nodeGap[n] = SumFunctionOnSet(GapTerms(pairs, n), 1 .. (k - 1))
    BY <1>2 DEF GapsAre
  <2>4. \A i \in 1 .. k : GapTerms(pairs, n)[i] \in Int
    BY <1>1, <1>4, TermsFine
  <2>5. GapTerms(pairs, n)[k] = PairGap(p, n)
    BY <1>1, <1>3, <1>4, TermsFine
  <2>6. SumFunctionOnSet(GapTerms(pairs, n), 1 .. k) = SumFunctionOnSet(GapTerms(pairs, n), 1 .. (k - 1)) + GapTerms(pairs, n)[k]
    BY <2>4, UpToNext
  <2> QED BY <2>1, <2>2, <2>3, <2>5, <2>6
<1> QED BY <1>2, <1>5

\* One more pair is in the matrix.
LEMMA EntriesGrow ==
  ASSUME MortarIInv, atPair <= Len(pairs), EntriesAre(atPair - 1),
         smat' = assembleMortarWts(pairs[atPair], MortarWeights[pairs[atPair]])
  PROVE  /\ "entries" \in DOMAIN smat'
         /\ \A r \in NonmortarNodes : \A c \in AllNodes : EntryAt(r, c)' = SumFunctionOnSet(EntryTerms(pairs, r, c), 1 .. atPair)
<1>1. pairs \in Seq(AllPairs) /\ atPair \in Nat \ {0}
  BY DEF MortarIInv
<1>2. PICK k \in Nat \ {0} : k = atPair
  BY <1>1
<1>3. PICK p \in AllPairs : p = pairs[k]
  BY <1>1, <1>2
<1>4. 1 .. k \subseteq DOMAIN pairs /\ k \in DOMAIN pairs
  BY <1>1, <1>2
<1>5. "entries" \in DOMAIN smat /\ smat' = assembleMortarWts(p, MortarWeights[p])
  BY <1>2, <1>3 DEF EntriesAre
<1>6. ASSUME NEW r \in NonmortarNodes, NEW c \in AllNodes
      PROVE  EntryAt(r, c)' = SumFunctionOnSet(EntryTerms(pairs, r, c), 1 .. k) /\ "entries" \in DOMAIN smat'
  <2>1. EntryAt(r, c) = SumFunctionOnSet(EntryTerms(pairs, r, c), 1 .. (k - 1))
    BY <1>2 DEF EntriesAre
  <2>2. \A i \in 1 .. k : EntryTerms(pairs, r, c)[i] \in Int
    BY <1>1, <1>4, TermsFine
  <2>3. EntryTerms(pairs, r, c)[k] = WeightEntry(p, r, c)
    BY <1>1, <1>3, <1>4, TermsFine
  <2>4. /\ SumFunctionOnSet(EntryTerms(pairs, r, c), 1 .. k) = SumFunctionOnSet(EntryTerms(pairs, r, c), 1 .. (k - 1)) + EntryTerms(pairs, r, c)[k]
        /\ SumFunctionOnSet(EntryTerms(pairs, r, c), 1 .. (k - 1)) \in Int
    BY <2>2, UpToNext
  <2>5. EntryAt(r, c) \in Int
    BY <2>1, <2>4
  <2>6. EntryAt(r, c)' = EntryAt(r, c) + WeightEntry(p, r, c) /\ "entries" \in DOMAIN smat'
    BY <1>5, <2>5, EntryAdded
  <2> QED BY <2>1, <2>3, <2>4, <2>6
<1>7. "entries" \in DOMAIN smat'
  BY <1>5 DEF assembleMortarWts, Added
<1> QED BY <1>2, <1>6, <1>7

\* A matrix that is allocated has no entries.
LEMMA NoEntryYet ==
  ASSUME NEW N, smat' = allocateMfemSparseMatrix(N), NEW list
  PROVE  /\ "entries" \in DOMAIN smat'
         /\ \A r \in NonmortarNodes : \A c \in AllNodes : EntryAt(r, c)' = SumFunctionOnSet(EntryTerms(list, r, c), 1 .. 0)
<1>1. "entries" \in DOMAIN smat' /\ DOMAIN smat'.entries = {}
  BY DEF allocateMfemSparseMatrix, NoMatrix
<1>2. \A r, c : EntryAt(r, c)' = 0
  BY <1>1 DEF EntryAt
<1>3. 1 .. 0 = {}
  OBVIOUS
<1> QED BY <1>1, <1>2, <1>3, SumEmpty

\* The first state has neither pairs nor gaps.
LEMMA GapInitHolds == ASSUME MortarInit PROVE GapIInv
<1>1. mortarStep = "idle" /\ updates = 0 /\ atPair = 1 /\ pairs = <<>>
  BY DEF MortarInit
<1>2. ~Ready
  BY <1>1 DEF Ready
<1> QED BY <1>1, <1>2 DEF GapIInv

\* A step that leaves gaps and pairs alone.
LEMMA GapsKept == ASSUME nodeGap' = nodeGap, pairs' = pairs, NEW k PROVE GapsAre(k)' = GapsAre(k)
BY DEF GapsAre

\* A step that leaves the matrix and pairs alone.
LEMMA EntriesKept == ASSUME smat' = smat, pairs' = pairs, NEW k PROVE EntriesAre(k)' = EntriesAre(k)
BY DEF EntriesAre, EntryAt

\* Every step of the mortar methods keeps the invariant of the gaps.
LEMMA GapStepHolds == ASSUME MortarIInv, GapIInv, [MortarNext]_mortarVars PROVE GapIInv'
<1>0. /\ method \in Methods /\ pairs \in Seq(AllPairs) /\ atPair \in Nat \ {0} /\ Len(pairs) \in Nat
      /\ mortarStep \in {"idle", "gaps", "reserve", "pairs", "none"} /\ atPair - 1 <= Len(pairs)
  BY DEF MortarIInv, GapIInv
<1>1. CASE BeginUpdate
  <2>1. /\ nodeGap' = [n \in NonmortarNodes |-> 0] /\ pairs' \in PairLists /\ atPair' = 1 /\ method' = method
        /\ mortarStep' = (IF method = "enzyme" THEN "reserve" ELSE "gaps")
    BY <1>1 DEF BeginUpdate
  <2>2. Len(pairs') \in Nat
    BY <2>1, MortarAssumption DEF MortarAssumption
  <2>3. GapsAre(0)'
    BY <2>1, NoGapYet DEF GapsAre
  <2>4. ~Ready' /\ mortarStep' # "pairs"
    BY <2>1 DEF Ready
  <2>5. atPair' - 1 = 0
    BY <2>1
  <2> QED BY <2>1, <2>2, <2>3, <2>4, <2>5 DEF GapIInv, GapsAre, EntriesAre
<1>2. CASE ComputeGaps
  <2>1. /\ mortarStep = "gaps" /\ mortarStep' = "gaps" /\ atPair <= Len(pairs) /\ nodeGap' = AddGaps(pairs[atPair])
        /\ atPair' = atPair + 1 /\ method' = method /\ pairs' = pairs
    BY <1>2 DEF ComputeGaps
  <2>2. ASSUME method # "aligned" PROVE method # "enzyme" /\ GapsAre(atPair - 1)'
    <3>1. method # "enzyme" /\ GapsAre(atPair - 1)
      BY <2>1, <2>2 DEF GapIInv
    <3>2. \A n \in NonmortarNodes : nodeGap'[n] = SumFunctionOnSet(GapTerms(pairs, n), 1 .. atPair)
      BY <2>1, <2>2, <3>1, GapsGrow
    <3>3. atPair' - 1 = atPair
      BY <1>0, <2>1
    <3> QED BY <2>1, <3>1, <3>2, <3>3 DEF GapsAre
  <2>3. ~Ready' /\ atPair' - 1 <= Len(pairs')
    BY <1>0, <2>1 DEF Ready
  <2> QED BY <2>1, <2>2, <2>3 DEF GapIInv, GapsAre, EntriesAre
<1>3. CASE Allocate
  <2>1. /\ mortarStep = "gaps" /\ mortarStep' = "pairs" /\ atPair > Len(pairs) /\ atPair' = 1
        /\ method' = method /\ pairs' = pairs /\ nodeGap' = nodeGap
        /\ method = "weights" => smat' = allocateMfemSparseMatrix(NumTotalNodes)
    BY <1>3 DEF Allocate
  <2>2. ~Ready' /\ atPair' - 1 = 0 /\ atPair - 1 = Len(pairs)
    BY <1>0, <2>1 DEF Ready
  <2>3. ASSUME method # "aligned" PROVE method # "enzyme" /\ GapsAre(Len(pairs))'
    <3>1. method # "enzyme" /\ GapsAre(Len(pairs))
      BY <2>1, <2>2, <2>3 DEF GapIInv
    <3> QED BY <2>1, <3>1, GapsKept
  <2>4. ASSUME method = "weights" PROVE EntriesAre(0)'
    BY <2>1, <2>4, NoEntryYet DEF EntriesAre
  <2> QED BY <1>0, <2>1, <2>2, <2>3, <2>4 DEF GapIInv, GapsAre, EntriesAre
<1>4. CASE ReserveEnzyme
  <2>1. /\ mortarStep = "reserve" /\ method' = method /\ evalMode' = evalMode /\ pairs' = pairs /\ atPair' = atPair /\ nodeGap' = nodeGap
        /\ (mortarStep' = "idle" /\ status' = 1) \/ mortarStep' = "pairs"
    BY <1>4 DEF ReserveEnzyme
  <2>2. ~Ready' /\ mortarStep' \in {"idle", "pairs"}
    BY <2>1 DEF Ready
  <2>3. ASSUME method # "aligned" PROVE method = "enzyme" /\ GapsAre(atPair - 1)'
    <3>1. method = "enzyme" /\ atPair = 1 /\ GapsAre(0)
      BY <2>1, <2>3 DEF GapIInv
    <3>2. atPair' - 1 = 0
      BY <2>1, <3>1
    <3> QED BY <2>1, <3>1, <3>2, GapsKept
  <2>4. method # "weights"
    BY <2>3
  <2> QED BY <1>0, <2>1, <2>2, <2>3, <2>4 DEF GapIInv, GapsAre, EntriesAre
<1>5. CASE ApplyPair
  <2>1. /\ mortarStep = "pairs" /\ mortarStep' = mortarStep /\ atPair <= Len(pairs) /\ method \in {"single", "aligned"} /\ method' = method
        /\ evalMode' = evalMode /\ pairs' = pairs /\ atPair' = atPair + 1 /\ nodeGap' = nodeGap
    BY <1>5 DEF ApplyPair, NextPair
  <2>2. ~Ready' /\ atPair' - 1 <= Len(pairs')
    BY <1>0, <2>1 DEF Ready
  <2>3. ASSUME method # "aligned" PROVE GapsAre(Len(pairs))'
    BY <2>1, <2>3, GapsKept DEF GapIInv, NoGaps
  <2> QED BY <1>0, <2>1, <2>2, <2>3 DEF GapIInv, GapsAre, EntriesAre
<1>6. CASE ApplyPairEnzyme
  <2>1. /\ mortarStep = "pairs" /\ mortarStep' = mortarStep /\ atPair <= Len(pairs) /\ method = "enzyme" /\ method' = method
        /\ evalMode' = evalMode /\ pairs' = pairs /\ atPair' = atPair + 1
        /\ evalMode = "weights" \/ nodeGap' = AddGaps(pairs[atPair])
    BY <1>6 DEF ApplyPairEnzyme, NextPair
  <2>2. ~Ready' /\ atPair' - 1 <= Len(pairs') /\ atPair' - 1 = atPair
    BY <1>0, <2>1 DEF Ready
  <2>3. ASSUME evalMode # "weights" PROVE GapsAre(atPair - 1)'
    <3>1. GapsAre(atPair - 1)
      BY <2>1, <2>3 DEF GapIInv, NoGaps
    <3>2. \A n \in NonmortarNodes : nodeGap'[n] = SumFunctionOnSet(GapTerms(pairs, n), 1 .. atPair)
      BY <2>1, <2>3, <3>1, GapsGrow
    <3> QED BY <2>1, <2>2, <3>2 DEF GapsAre
  <2> QED BY <2>1, <2>2, <2>3 DEF GapIInv, NoGaps, GapsAre, EntriesAre
<1>7. CASE AssembleWeights
  <2>1. /\ mortarStep = "pairs" /\ atPair <= Len(pairs) /\ method = "weights" /\ method' = method
        /\ evalMode' = evalMode /\ pairs' = pairs /\ atPair' = atPair + 1 /\ nodeGap' = nodeGap
        /\ \/ status' = 1 /\ mortarStep' = "idle"
           \/ mortarStep' = "pairs" /\ smat' = assembleMortarWts(pairs[atPair], MortarWeights[pairs[atPair]])
    BY <1>7 DEF AssembleWeights, NextPair
  <2>2. ~Ready' /\ atPair' - 1 <= Len(pairs') /\ atPair' - 1 = atPair /\ mortarStep' \in {"idle", "pairs"}
    BY <1>0, <2>1 DEF Ready
  <2>3. GapsAre(Len(pairs))'
    BY <2>1, GapsKept DEF GapIInv, NoGaps
  <2>4. ASSUME mortarStep' = "pairs" PROVE EntriesAre(atPair - 1)'
    <3>1. smat' = assembleMortarWts(pairs[atPair], MortarWeights[pairs[atPair]])
      BY <2>1, <2>4
    <3>2. EntriesAre(atPair - 1)
      BY <2>1 DEF GapIInv
    <3>3. /\ "entries" \in DOMAIN smat'
          /\ \A r \in NonmortarNodes : \A c \in AllNodes : EntryAt(r, c)' = SumFunctionOnSet(EntryTerms(pairs, r, c), 1 .. atPair)
      BY <2>1, <3>1, <3>2, EntriesGrow
    <3> QED BY <2>1, <2>2, <3>3 DEF EntriesAre
  <2> QED BY <1>0, <2>1, <2>2, <2>3, <2>4 DEF GapIInv, GapsAre, EntriesAre
<1>8. CASE EndUpdate
  <2>1. /\ mortarStep = "pairs" /\ mortarStep' = "idle" /\ atPair > Len(pairs) /\ method' = method
        /\ evalMode' = evalMode /\ pairs' = pairs /\ atPair' = atPair /\ nodeGap' = nodeGap /\ smat' = smat
    BY <1>8 DEF EndUpdate
  <2>2. atPair - 1 = Len(pairs)
    BY <1>0, <2>1
  <2>3. ASSUME method # "aligned" PROVE NoGaps' \/ GapsAre(Len(pairs))'
    BY <2>1, <2>2, <2>3, GapsKept DEF GapIInv, NoGaps
  <2>4. ASSUME method = "weights" PROVE EntriesAre(Len(pairs))'
    BY <2>1, <2>2, <2>4, EntriesKept DEF GapIInv
  <2> QED BY <1>0, <2>1, <2>3, <2>4 DEF GapIInv, GapsAre, EntriesAre
<1>9. CASE UNCHANGED mortarVars
  <2>1. (\A k : GapsAre(k)' = GapsAre(k)) /\ \A k : EntriesAre(k)' = EntriesAre(k)
    BY <1>9, GapsKept, EntriesKept DEF mortarVars
  <2>2. Ready' = Ready /\ NoGaps' = NoGaps
    BY <1>9 DEF Ready, NoGaps, mortarVars
  <2>3. method' = method /\ pairs' = pairs /\ atPair' = atPair /\ mortarStep' = mortarStep
    BY <1>9 DEF mortarVars
  <2> QED BY <2>1, <2>2, <2>3 DEF GapIInv, GapsAre, EntriesAre
<1> QED BY <1>1, <1>2, <1>3, <1>4, <1>5, <1>6, <1>7, <1>8, <1>9 DEF MortarNext

\* What the weighted gap adds up for a pair.
PairIntegral(p, n) ==
  SumFunctionOnSet(
    [a \in Corners |->
       SumFunction([i \in DOMAIN p.rule |->
         p.rule[i].wt * p.rule[i].nonmortar[a + 1] * PointGap(p, p.rule[i], NodalNormals[n])])],
    CornersAt(Faces2[p.face2], n))

\* It is what the pair gives to the gap.
LEMMA PairIntegralIs == ASSUME NEW p, NEW n PROVE PairIntegral(p, n) = PairGap(p, n)
<1> DEFINE f(a) == [i \in DOMAIN p.rule |-> p.rule[i].wt * p.rule[i].nonmortar[a + 1] * PointGap(p, p.rule[i], NodalNormals[n])]
<1>1. \A a \in Corners : SumFunction(f(a)) = SumFunctionOnSet(PointsGap(p, n, a), DOMAIN p.rule)
  BY DEF SumFunction, PointsGap
<1>2. [a \in Corners |-> SumFunction(f(a))] = [a \in Corners |-> SumFunctionOnSet(PointsGap(p, n, a), DOMAIN p.rule)]
  <2> HIDE DEF f
  <2> QED BY <1>1
<1> QED BY <1>2 DEF PairIntegral, PairGap

\* The weighted gap of a node is the sum over the pairs of what each gives to it.
LEMMA WeightedGapIs ==
  ASSUME pairs \in Seq(AllPairs), NEW n
  PROVE  WeightedGap(n) = SumFunctionOnSet(GapTerms(pairs, n), 1 .. Len(pairs))
<1> DEFINE f == [i \in DOMAIN pairs |-> PairIntegral(pairs[i], n)]
<1>1. WeightedGap(n) = SumFunction(f)
  BY DEF WeightedGap, SumPairs, PairIntegral
<1>2. f = GapTerms(pairs, n)
  BY PairIntegralIs DEF GapTerms
<1>3. DOMAIN GapTerms(pairs, n) = 1 .. Len(pairs)
  BY DEF GapTerms
<1> HIDE DEF f
<1> QED BY <1>1, <1>2, <1>3 DEF SumFunction

\* The matrix of the pairs, times the nodes, gives the gaps of the pairs.
LEMMA FromWeightsIs ==
  ASSUME pairs \in Seq(AllPairs), EntriesAre(Len(pairs)), NEW n \in NonmortarNodes
  PROVE  SumFunctionOnSet([m \in AllNodes |-> EntryAt(n, m) * Along(n, m)], AllNodes)
           = SumFunctionOnSet(GapTerms(pairs, n), 1 .. Len(pairs))
<1> DEFINE I == 1 .. Len(pairs)
           f == [i \in I |-> [m \in AllNodes |-> WeightEntry(pairs[i], n, m) * Along(n, m)]]
           t == [m \in AllNodes |-> [i \in I |-> WeightEntry(pairs[i], n, m) * Along(n, m)]]
           h == [m \in AllNodes |-> EntryAt(n, m) * Along(n, m)]
<1>1. IsFiniteSet(I) /\ IsFiniteSet(AllNodes) /\ I = DOMAIN pairs
  BY CornersFinite, FS_Interval
<1>2. \A i \in I : pairs[i] \in AllPairs
  BY <1>1
<1>3. ASSUME NEW i \in I, NEW m \in AllNodes
      PROVE  WeightEntry(pairs[i], n, m) \in Int /\ WeightEntry(pairs[i], n, m) * Along(n, m) \in Int
  <2>1. WeightEntry(pairs[i], n, m) \in Int
    BY <1>2, RowOfPair
  <2>2. PICK x \in Int, y \in Int : x = WeightEntry(pairs[i], n, m) /\ y = Along(n, m)
    BY <2>1, AlongFine
  <2>3. x * y \in Int
    OBVIOUS
  <2> QED BY <2>2, <2>3
<1>4. \A i \in I : \A m \in AllNodes : f[i][m] \in Int /\ t[m][i] = f[i][m]
  BY <1>3
<1>5. \A i \in I : GapTerms(pairs, n)[i] = SumFunctionOnSet(f[i], AllNodes)
  BY <1>1, <1>2, RowOfPair DEF GapTerms
<1>6. ASSUME NEW m \in AllNodes PROVE h[m] = SumFunctionOnSet(t[m], I)
  <2>1. PICK x \in Int : x = Along(n, m)
    BY AlongFine
  <2>2. PICK e : e = EntryTerms(pairs, n, m)
    OBVIOUS
  <2>3. ASSUME NEW i \in I PROVE e[i] \in Int /\ t[m][i] = x * e[i]
    <3>1. PICK y \in Int : y = WeightEntry(pairs[i], n, m)
      BY <1>3
    <3>2. e[i] = y
      BY <1>1, <2>2, <3>1, TermsFine
    <3>3. t[m][i] = y * x
      BY <2>1, <3>1
    <3>4. y * x = x * y
      OBVIOUS
    <3> QED BY <3>2, <3>3, <3>4
  <2>4. PICK u : u = t[m]
    OBVIOUS
  <2>5. \A i \in I : e[i] \in Int /\ u[i] = x * e[i]
    BY <2>3, <2>4
  <2> HIDE DEF t, I
  <2>6. SumFunctionOnSet(u, I) = x * SumFunctionOnSet(e, I) /\ SumFunctionOnSet(e, I) \in Int
    BY <1>1, <2>5, SumTimes, SumInt
  <2>7. EntryAt(n, m) = SumFunctionOnSet(e, I)
    BY <2>2 DEF EntriesAre, I
  <2>8. PICK s \in Int : s = SumFunctionOnSet(e, I)
    BY <2>6
  <2>9. h[m] = s * x
    BY <2>1, <2>7, <2>8
  <2>10. s * x = x * s
    OBVIOUS
  <2> HIDE DEF h
  <2> QED BY <2>4, <2>6, <2>8, <2>9, <2>10
<1>7. PICK g : g = GapTerms(pairs, n)
  OBVIOUS
<1>8. \A i \in I : g[i] = SumFunctionOnSet(f[i], AllNodes)
  BY <1>5, <1>7
<1> HIDE DEF f, t, h, I
<1>9. IsTable(f, t, I, AllNodes) /\ SumsOf(f, I, AllNodes, g) /\ SumsOf(t, AllNodes, I, h)
  BY <1>4, <1>6, <1>8 DEF IsTable, SumsOf
<1>10. SumFunctionOnSet(g, I) = SumFunctionOnSet(h, AllNodes)
  BY <1>1, <1>9, SumTransposed
<1> QED BY <1>7, <1>10 DEF h, I

\* What it says of the gaps and the matrix of an update.
LEMMA GapInvGives == ASSUME MortarIInv, GapIInv PROVE GapsMatchWeights
<1>1. pairs \in Seq(AllPairs)
  BY DEF MortarIInv
<1>2. ASSUME Ready, method # "aligned", ~NoGaps, NEW n \in NonmortarNodes
      PROVE  nodeGap[n] = WeightedGap(n)
  <2>1. GapsAre(Len(pairs))
    BY <1>2 DEF GapIInv
  <2> QED BY <1>1, <2>1, WeightedGapIs DEF GapsAre
<1>3. ASSUME Ready, method = "weights", NEW n \in NonmortarNodes
      PROVE  nodeGap[n] = SumFunctionOnSet([m \in AllNodes |-> EntryAt(n, m) * Along(n, m)], AllNodes)
  <2>1. EntriesAre(Len(pairs)) /\ GapsAre(Len(pairs))
    BY <1>3 DEF GapIInv, NoGaps
  <2> QED BY <1>1, <2>1, FromWeightsIs DEF GapsAre
<1>4. Ready => IsWeightedIntegral
  BY <1>2 DEF IsWeightedIntegral, NoGaps
<1>5. Ready => FromWeights
  <2> SUFFICES ASSUME Ready, method = "weights", NEW n \in NonmortarNodes
               PROVE  nodeGap[n] = SumFunction([m \in AllNodes |->
                        EntryAt(n, m) * (IF m \in NonmortarNodes THEN -dotProd(NodalNormals[n], Position[m]) - ResidualGap
                                                                  ELSE dotProd(NodalNormals[n], Position[m]))])
    BY DEF FromWeights
  <2>1. nodeGap[n] = SumFunction([m \in AllNodes |-> EntryAt(n, m) * Along(n, m)])
    BY <1>3 DEF SumFunction
  <2> QED BY <2>1 DEF Along
<1> QED BY <1>4, <1>5 DEF GapsMatchWeights

-----------------------------------------------------------------------------
(* The Jacobian: blocks of element matrices, and their rows as forces and gaps of a pair. *)

\* A table by rows and by columns: a value times what its column adds up to, and what a row gives of the values.
Gathers(C, N, R, T, v, g, h) ==
  /\ IsFiniteSet(C) /\ IsFiniteSet(N)
  /\ \A a \in C : \A m \in N : R[a][m] \in Int /\ T[m][a] = R[a][m]
  /\ \A m \in N : v[m] \in Int /\ h[m] = SumFunctionOnSet(T[m], C) * v[m]
  /\ \A a \in C : g[a] = SumFunctionOnSet([m \in N |-> R[a][m] * v[m]], N)

\* Added up by columns or by rows they are the same.
LEMMA GatheredByRows ==
  ASSUME NEW C, NEW N, NEW R, NEW T, NEW v, NEW g, NEW h, Gathers(C, N, R, T, v, g, h)
  PROVE  /\ SumFunctionOnSet(h, N) = SumFunctionOnSet(g, C)
         /\ \A m \in N : h[m] \in Int
<1> DEFINE f == [a \in C |-> [m \in N |-> R[a][m] * v[m]]]
           t == [m \in N |-> [a \in C |-> R[a][m] * v[m]]]
<1>1. IsFiniteSet(C) /\ IsFiniteSet(N)
  BY DEF Gathers
<1>2. ASSUME NEW a \in C, NEW m \in N PROVE f[a][m] \in Int /\ t[m][a] = f[a][m]
  <2>1. PICK x \in Int, y \in Int : x = R[a][m] /\ y = v[m]
    BY DEF Gathers
  <2>2. x * y \in Int
    OBVIOUS
  <2> QED BY <2>1, <2>2
<1>3. \A a \in C : g[a] = SumFunctionOnSet(f[a], N)
  BY DEF Gathers
<1>4. ASSUME NEW m \in N PROVE h[m] = SumFunctionOnSet(t[m], C) /\ h[m] \in Int
  <2>1. PICK x \in Int : x = v[m]
    BY DEF Gathers
  <2>2. PICK s, u : s = T[m] /\ u = t[m]
    OBVIOUS
  <2>3. ASSUME NEW a \in C PROVE s[a] \in Int /\ u[a] = x * s[a]
    <3>1. PICK y \in Int : y = R[a][m] /\ s[a] = y
      BY <2>2 DEF Gathers
    <3>2. u[a] = y * x
      BY <2>1, <2>2, <3>1
    <3>3. y * x = x * y
      OBVIOUS
    <3> QED BY <3>1, <3>2, <3>3
  <2>4. SumFunctionOnSet(u, C) = x * SumFunctionOnSet(s, C) /\ SumFunctionOnSet(s, C) \in Int
    BY <1>1, <2>3, SumTimes, SumInt
  <2>5. PICK z \in Int : z = SumFunctionOnSet(s, C)
    BY <2>4
  <2>6. h[m] = z * x
    BY <2>1, <2>2, <2>5 DEF Gathers
  <2>7. z * x = x * z /\ z * x \in Int
    OBVIOUS
  <2> QED BY <2>2, <2>4, <2>5, <2>6, <2>7
<1> HIDE DEF f, t
<1>5. IsTable(f, t, C, N) /\ SumsOf(f, C, N, g) /\ SumsOf(t, N, C, h)
  BY <1>2, <1>3, <1>4 DEF IsTable, SumsOf
<1>6. SumFunctionOnSet(g, C) = SumFunctionOnSet(h, N)
  BY <1>1, <1>5, SumTransposed
<1> QED BY <1>4, <1>6

\* The columns are the nodes of a face, whose corners each row has a number for.
Weighs(C, N, face, V, T, v, g, h) ==
  /\ IsFiniteSet(C) /\ IsFiniteSet(N)
  /\ \A b \in Corners : NodeOf(face, b) \in N
  /\ \A a \in C : \A b \in Corners : V[a][b] \in Int
  /\ \A a \in C : \A m \in N : T[m][a] = SumFunctionOnSet(V[a], CornersAt(face, m))
  /\ \A m \in N : v[m] \in Int /\ h[m] = SumFunctionOnSet(T[m], C) * v[m]
  /\ \A a \in C : g[a] = SumFunctionOnSet([b \in Corners |-> V[a][b] * v[NodeOf(face, b)]], Corners)

\* So are the nodes of a face, each with its corners.
LEMMA WeighedByCorners ==
  ASSUME NEW C, NEW N, NEW face, NEW V, NEW T, NEW v, NEW g, NEW h, Weighs(C, N, face, V, T, v, g, h)
  PROVE  /\ SumFunctionOnSet(h, N) = SumFunctionOnSet(g, C)
         /\ \A m \in N : h[m] \in Int
<1> DEFINE R == [a \in C |-> [m \in N |-> SumFunctionOnSet(V[a], CornersAt(face, m))]]
<1>1. IsFiniteSet(C) /\ IsFiniteSet(N)
  BY DEF Weighs
<1>2. ASSUME NEW a \in C, NEW m \in N PROVE R[a][m] \in Int /\ T[m][a] = R[a][m]
  <2>1. PICK w, K : w = V[a] /\ K = CornersAt(face, m)
    OBVIOUS
  <2>2. K \subseteq Corners
    BY <2>1 DEF CornersAt
  <2>3. IsFiniteSet(K) /\ \A b \in K : w[b] \in Int
    BY <2>1, <2>2, CornersFinite, FS_Subset DEF Weighs
  <2>4. SumFunctionOnSet(w, K) \in Int
    BY <2>3, SumInt
  <2>5. R[a][m] = SumFunctionOnSet(w, K)
    BY <2>1
  <2>6. T[m][a] = SumFunctionOnSet(w, K)
    BY <2>1 DEF Weighs
  <2> QED BY <2>4, <2>5, <2>6
<1>3. ASSUME NEW a \in C PROVE g[a] = SumFunctionOnSet([m \in N |-> R[a][m] * v[m]], N)
  <2> DEFINE h1 == [m \in N |-> R[a][m] * v[m]]
             f == [b \in Corners |-> V[a][b] * v[NodeOf(face, b)]]
  <2>1. PICK w : w = V[a]
    OBVIOUS
  <2>2. \A m \in N : v[m] \in Int /\ h1[m] = SumFunctionOnSet(w, CornersAt(face, m)) * v[m]
    BY <2>1 DEF Weighs
  <2>3. \A b \in Corners : NodeOf(face, b) \in N /\ w[b] \in Int /\ f[b] = w[b] * v[NodeOf(face, b)]
    BY <2>1 DEF Weighs
  <2>4. g[a] = SumFunctionOnSet(f, Corners)
    BY DEF Weighs
  <2> HIDE DEF h1, f
  <2>5. Spreads(N, face, w, v, h1, f)
    BY <2>2, <2>3 DEF Spreads
  <2>6. SumFunctionOnSet(h1, N) = SumFunctionOnSet(f, Corners)
    BY <1>1, <2>5, SpreadOverNodes
  <2> QED BY <2>4, <2>6 DEF h1
<1>4. \A m \in N : v[m] \in Int /\ h[m] = SumFunctionOnSet(T[m], C) * v[m]
  BY DEF Weighs
<1> HIDE DEF R
<1>5. Gathers(C, N, R, T, v, g, h)
  BY <1>1, <1>2, <1>3, <1>4 DEF Gathers
<1> QED BY <1>5, GatheredByRows

\* Of an array with three indices, the place gives the indices.
LEMMA IndicesOf ==
  ASSUME NEW N \in Nat \ {0}, NEW M \in Nat \ {0}, NEW a \in 0 .. (N - 1), NEW d \in 0 .. (M - 1), NEW b \in Nat,
         NEW x \in 0 .. (N - 1), NEW z \in 0 .. (M - 1), NEW y \in Nat,
         N * (M * b + d) + a = N * (M * y + z) + x
  PROVE  a = x /\ b = y /\ d = z
<1>1. PICK q \in Nat : q = M * b + d
  OBVIOUS
<1>2. PICK r \in Nat : r = M * y + z
  OBVIOUS
<1>3. (N * q + a) \div N = q /\ (N * q + a) % N = a /\ (N * r + x) \div N = r /\ (N * r + x) % N = x
  BY IndexOf
<1>4. N * q + a = N * r + x
  BY <1>1, <1>2
<1>5. q = r /\ a = x
  BY <1>3, <1>4, Zenon
<1>6. (M * b + d) \div M = b /\ (M * b + d) % M = d /\ (M * y + z) \div M = y /\ (M * y + z) % M = z
  BY IndexOf
<1>7. b = y /\ d = z
  BY <1>1, <1>2, <1>5, <1>6, Zenon
<1> QED BY <1>5, <1>7

\* And it is in the array.
LEMMA IndicesFit ==
  ASSUME NEW N \in Nat \ {0}, NEW M \in Nat \ {0}, NEW L \in Nat \ {0},
         NEW a \in 0 .. (N - 1), NEW d \in 0 .. (M - 1), NEW b \in 0 .. (L - 1)
  PROVE  N * (M * b + d) + a \in 0 .. (N * (M * L) - 1)
<1>1. M * b \in Nat /\ M * b <= M * (L - 1) /\ M * (L - 1) = M * L - M /\ M * L \in Nat
  OBVIOUS
<1>2. PICK q \in Nat, P \in Nat : q = M * b + d /\ P = M * L /\ q <= P - 1
  BY <1>1
<1>3. N * q \in Nat /\ N * q <= N * (P - 1) /\ N * (P - 1) = N * P - N /\ N * P \in Nat
  BY <1>2
<1> QED BY <1>2, <1>3

\* Entries of an element matrix have places of their own: corner, dimension, corner for the forces, and corner,
\* corner, dimension for the gaps.
LEMMA PlacesApart ==
  ASSUME NEW k \in Keys, NEW e \in Keys
  PROVE  /\ ElemXDof("Jrp", k) \in 0 .. (Dim * Square4 - 1) /\ ElemXDof("Jgu", k) \in 0 .. (Dim * Square4 - 1)
         /\ ElemXDof("Jrp", k) = ElemXDof("Jrp", e) => k = e
         /\ ElemXDof("Jgu", k) = ElemXDof("Jgu", e) => k = e
<1>1. PICK N \in Nat \ {0} : N = NumFaceVert
  BY MortarAssumption DEF MortarAssumption
<1>2. Dim = 3 /\ Square4 = N * N /\ Corners = 0 .. (N - 1) /\ Dims = 0 .. (3 - 1)
  BY <1>1 DEF Dim, Square4, Corners, Dims
<1>3. PICK a \in Corners, b \in Corners, d \in Dims : k = <<a, b, d>>
  BY DEF Keys
<1>4. PICK x \in Corners, y \in Corners, z \in Dims : e = <<x, y, z>>
  BY DEF Keys
<1>5. ASSUME NEW s \in Corners, NEW t \in Corners, NEW u \in Dims
      PROVE  /\ ElemXDof("Jrp", <<s, t, u>>) = N * (3 * t + u) + s
             /\ ElemXDof("Jgu", <<s, t, u>>) = N * (N * u + t) + s
  <2>1. ElemXDof("Jrp", <<s, t, u>>) = s + (3 * N) * t + u * N
    BY <1>1, <1>2 DEF ElemXDof, getJacobianIndex, getJacobianDimOffset
  <2>2. ElemXDof("Jgu", <<s, t, u>>) = s + N * t + u * (N * N)
    BY <1>1, <1>2 DEF ElemXDof, getJacobianIndex, getJacobianDimOffset
  <2>3. s \in Int /\ t \in Int /\ u \in Int
    BY <1>2
  <2>4. s + (3 * N) * t + u * N = N * (3 * t + u) + s /\ s + N * t + u * (N * N) = N * (N * u + t) + s
    BY <2>3
  <2> QED BY <2>1, <2>2, <2>4
<1>6. /\ ElemXDof("Jrp", k) = N * (3 * b + d) + a /\ ElemXDof("Jgu", k) = N * (N * d + b) + a
      /\ ElemXDof("Jrp", e) = N * (3 * y + z) + x /\ ElemXDof("Jgu", e) = N * (N * z + y) + x
  BY <1>3, <1>4, <1>5
<1>7. 3 \in Nat \ {0} /\ \A c \in Corners : c \in Nat /\ c \in 0 .. (N - 1)
  BY <1>2
<1>8. \A c \in Dims : c \in Nat /\ c \in 0 .. (3 - 1)
  BY <1>2
<1>9. N * (3 * b + d) + a \in 0 .. (N * (3 * N) - 1) /\ N * (N * d + b) + a \in 0 .. (N * (N * 3) - 1)
  BY <1>7, <1>8, IndicesFit
<1>10. N * (3 * N) = 3 * (N * N) /\ N * (N * 3) = 3 * (N * N)
  OBVIOUS
<1>11. ASSUME ElemXDof("Jrp", k) = ElemXDof("Jrp", e) PROVE a = x /\ b = y /\ d = z
  <2>1. N * (3 * b + d) + a = N * (3 * y + z) + x
    BY <1>6, <1>11, Zenon
  <2>2. a \in 0 .. (N - 1) /\ x \in 0 .. (N - 1) /\ d \in 0 .. (3 - 1) /\ z \in 0 .. (3 - 1) /\ b \in Nat /\ y \in Nat
    BY <1>7, <1>8
  <2> QED BY <1>7, <2>1, <2>2, IndicesOf
<1>12. ASSUME ElemXDof("Jgu", k) = ElemXDof("Jgu", e) PROVE a = x /\ b = y /\ d = z
  <2>1. N * (N * d + b) + a = N * (N * z + y) + x
    BY <1>6, <1>12, Zenon
  <2>2. a \in 0 .. (N - 1) /\ x \in 0 .. (N - 1) /\ b \in 0 .. (N - 1) /\ y \in 0 .. (N - 1) /\ d \in Nat /\ z \in Nat
    BY <1>7, <1>8
  <2> QED BY <2>1, <2>2, IndicesOf
<1> QED BY <1>2, <1>3, <1>4, <1>6, <1>9, <1>10, <1>11, <1>12

\* An array that is filled holds at the place of a key what was added there.
LEMMA FilledAt ==
  ASSUME NEW at, NEW val, NEW k \in Keys, at[k] \in 0 .. (Dim * Square4 - 1), \A e \in Keys : at[e] = at[k] => e = k,
         val[k] \in Int
  PROVE  Filled(at, val)[at[k]] = val[k]
<1>1. {e \in Keys : at[e] = at[k]} = {k}
  OBVIOUS
<1>2. Filled(at, val)[at[k]] = SumFunctionOnSet(val, {e \in Keys : at[e] = at[k]})
  BY DEF Filled
<1> QED BY <1>1, <1>2, SumSingle

\* What the element matrices hold: how the force on corner a changes with the pressure of corner b of the nonmortar
\* face, and the gap of corner a of the nonmortar face with the coordinates of corner b, on the mortar face or on the
\* nonmortar one.
SignedWt(p, mortar, a, b) == IF mortar THEN Weight(p.rule, a, b, TRUE) ELSE -Weight(p.rule, a, b, FALSE)
JrpVal(m, p, mortar, a, b, d) == NormalAt(p.face2, IF m = "enzyme" THEN a ELSE b)[d] * SignedWt(p, mortar, a, b)
JguVal(p, mortar, a, b, d) == NormalAt(p.face2, a)[d] * SignedWt(p, mortar, b, a)

\* They are integers.
LEMMA ValuesFine ==
  ASSUME NEW m, NEW p \in AllPairs, NEW mortar \in BOOLEAN, NEW a \in Corners, NEW b \in Corners, NEW d \in 1 .. 3
  PROVE  /\ SignedWt(p, mortar, a, b) \in Int /\ NormalAt(p.face2, a)[d] \in Int
         /\ JrpVal(m, p, mortar, a, b, d) \in Int /\ JguVal(p, mortar, a, b, d) \in Int
<1>1. \A s \in Corners : NormalAt(p.face2, s)[d] \in Int
  BY PairFacts, NormalsFine DEF NormalAt
<1>2. ASSUME NEW s \in Corners, NEW t \in Corners PROVE SignedWt(p, mortar, s, t) \in Int
  <2>1. PICK x \in Int, y \in Int : x = Weight(p.rule, s, t, TRUE) /\ y = Weight(p.rule, s, t, FALSE)
    BY WeightIs
  <2>2. -y \in Int
    OBVIOUS
  <2> QED BY <2>1, <2>2 DEF SignedWt
<1>3. \A x, y \in Int : x * y \in Int
  OBVIOUS
<1> QED BY <1>1, <1>2, <1>3 DEF JrpVal, JguVal

\* Where the matrices of a pair are: Enzyme's nonmortar face comes first.
PosOf(m, mortar) == IF mortar = (m = "enzyme") THEN 2 ELSE 1

\* Where the element matrices have how a force changes with a pressure, with Enzyme or without.
LEMMA ForceBlockAt ==
  ASSUME NEW m \in {"single", "enzyme"}, NEW p \in AllPairs, NEW mortar \in BOOLEAN,
         NEW a \in Corners, NEW b \in Corners, NEW d \in Dims
  PROVE  BlockJ(m, p)[PosOf(m, mortar)][3][ElemXDof("Jrp", <<a, b, d>>)] = JrpVal(m, p, mortar, a, b, d + 1)
<1> DEFINE w == MortarWeights[p]
           k == <<a, b, d>>
           s == IF mortar THEN "mortar" ELSE "nonmortar"
           at == [e \in Keys |-> ElemXDof("Jrp", e)]
           at2 == [e \in Keys |-> e[1] + NumFaceVert * e[3] + Dim * NumFaceVert * e[2]]
           v1 == [e \in Keys |-> NormalAt(p.face2, e[2])[e[3] + 1] *
                    (IF s = "mortar" THEN getMortarNonmortarWt(w, e[1], e[2]) ELSE -getNonmortarNonmortarWt(w, e[1], e[2]))]
           v2 == [e \in Keys |-> NormalAt(p.face2, e[1])[e[3] + 1] *
                    (IF s = "mortar" THEN getMortarNonmortarWt(w, e[1], e[2]) ELSE -getNonmortarNonmortarWt(w, e[2], e[1]))]
<1>1. k \in Keys /\ k[1] = a /\ k[2] = b /\ k[3] = d
  BY DEF Keys
<1>2. BlockJ(m, p)[PosOf(m, mortar)][3] = IF m = "enzyme" THEN Filled(at2, v2) ELSE Filled(at, v1)
  <2>1. WeightsOf(m, p) = w
    BY DEF WeightsOf
  <2>2. s \in {"mortar", "nonmortar"}
    OBVIOUS
  <2>3. EnzymeResidualJacobian(p, w)[s] = Filled(at2, v2)
    BY <2>2 DEF EnzymeResidualJacobian
  <2>4. ResidualJacobian(p, w)[s] = Filled(at, v1)
    BY <2>2 DEF ResidualJacobian
  <2>5. PosOf(m, mortar) \in 1 .. 3 /\ PosOf(m, mortar) < 3 /\ 3 \in 1 .. 3 /\ Third = 3
    BY DEF PosOf, Third
  <2>6. (IF m = "enzyme" THEN NonmortarFirst ELSE MortarFirst)[PosOf(m, mortar)] = s
    BY DEF PosOf, NonmortarFirst, MortarFirst
  <2>7. BlockJ(m, p)[PosOf(m, mortar)][3]
          = (IF m = "enzyme" THEN EnzymeResidualJacobian(p, w) ELSE ResidualJacobian(p, w))[s]
    <3> HIDE DEF w, s, at, at2, v1, v2
    <3> QED BY <2>1, <2>5, <2>6 DEF BlockJ
  <2> HIDE DEF w, s, at, at2, v1, v2
  <2> QED BY <2>3, <2>4, <2>7
<1>3. at2 = at
  <2>1. NumFaceVert \in Nat /\ Dim = 3 /\ Corners \subseteq Nat /\ Dims \subseteq Nat
    BY MortarAssumption, CornersFinite DEF MortarAssumption, Dim, Dims
  <2>2. ASSUME NEW e \in Keys PROVE at2[e] = at[e]
    <3>1. e[1] \in Nat /\ e[2] \in Nat /\ e[3] \in Nat
      BY <2>1 DEF Keys
    <3>2. PICK N \in Nat, x \in Nat, y \in Nat, z \in Nat : N = NumFaceVert /\ x = e[1] /\ y = e[2] /\ z = e[3]
      BY <2>1, <3>1
    <3>3. at[e] = x + (3 * N) * y + z * N
      BY <2>1, <3>2 DEF ElemXDof, getJacobianIndex, getJacobianDimOffset
    <3>4. at2[e] = x + N * z + 3 * N * y
      BY <2>1, <3>2
    <3>5. x + (3 * N) * y + z * N = x + N * z + 3 * N * y
      OBVIOUS
    <3> QED BY <3>3, <3>4, <3>5
  <2> QED BY <2>2
<1>4. v1[k] = JrpVal("single", p, mortar, a, b, d + 1) /\ v2[k] = JrpVal("enzyme", p, mortar, a, b, d + 1)
  <2>1. /\ getMortarNonmortarWt(w, a, b) = Weight(p.rule, a, b, TRUE)
        /\ getNonmortarNonmortarWt(w, a, b) = Weight(p.rule, a, b, FALSE)
        /\ getNonmortarNonmortarWt(w, b, a) = Weight(p.rule, b, a, FALSE)
    BY WeightsAre
  <2>2. Weight(p.rule, b, a, FALSE) = Weight(p.rule, a, b, FALSE)
    BY WeightSymmetric
  <2>3. v1[k] = NormalAt(p.face2, b)[d + 1] * (IF mortar THEN getMortarNonmortarWt(w, a, b) ELSE -getNonmortarNonmortarWt(w, a, b))
    BY <1>1
  <2>4. v2[k] = NormalAt(p.face2, a)[d + 1] * (IF mortar THEN getMortarNonmortarWt(w, a, b) ELSE -getNonmortarNonmortarWt(w, b, a))
    BY <1>1
  <2> HIDE DEF v1, v2, w
  <2> QED BY <2>1, <2>2, <2>3, <2>4 DEF JrpVal, SignedWt
<1>5. d + 1 \in 1 .. 3
  BY DEF Dims
<1>6. v1[k] \in Int /\ v2[k] \in Int
  <2> HIDE DEF v1, v2
  <2> QED BY <1>4, <1>5, ValuesFine
<1>7. at[k] = ElemXDof("Jrp", k) /\ at[k] \in 0 .. (Dim * Square4 - 1) /\ \A e \in Keys : at[e] = at[k] => e = k
  <2> HIDE DEF k
  <2> QED BY <1>1, PlacesApart
<1> HIDE DEF v1, v2, w, at, at2, k, s
<1>8. Filled(at, v1)[at[k]] = v1[k] /\ Filled(at, v2)[at[k]] = v2[k]
  BY <1>1, <1>6, <1>7, FilledAt
<1>9. BlockJ(m, p)[PosOf(m, mortar)][3][ElemXDof("Jrp", k)] = JrpVal(m, p, mortar, a, b, d + 1)
  BY <1>2, <1>3, <1>4, <1>7, <1>8
<1> QED BY <1>9 DEF k

\* Where they have how a gap changes with a coordinate.
LEMMA GapBlockAt ==
  ASSUME NEW p \in AllPairs, NEW mortar \in BOOLEAN, NEW a \in Corners, NEW b \in Corners, NEW d \in Dims
  PROVE  BlockJ("single", p)[3][PosOf("single", mortar)][ElemXDof("Jgu", <<a, b, d>>)] = JguVal(p, mortar, a, b, d + 1)
<1> DEFINE w == MortarWeights[p]
           k == <<a, b, d>>
           s == IF mortar THEN "mortar" ELSE "nonmortar"
           at == [e \in Keys |-> ElemXDof("Jgu", e)]
           v == [e \in Keys |-> NormalAt(p.face2, e[1])[e[3] + 1] *
                    (IF s = "mortar" THEN getNonmortarMortarWt(w, e[1], e[2]) ELSE -getNonmortarNonmortarWt(w, e[1], e[2]))]
<1>1. k \in Keys /\ k[1] = a /\ k[2] = b /\ k[3] = d
  BY DEF Keys
<1>2. BlockJ("single", p)[3][PosOf("single", mortar)] = Filled(at, v)
  <2>1. WeightsOf("single", p) = w
    BY DEF WeightsOf
  <2>2. s \in {"mortar", "nonmortar"}
    OBVIOUS
  <2>3. ConstraintJacobian(p, w)[s] = Filled(at, v)
    BY <2>2 DEF ConstraintJacobian
  <2>4. PosOf("single", mortar) \in 1 .. 3 /\ PosOf("single", mortar) < 3 /\ 3 \in 1 .. 3 /\ Third = 3
    BY DEF PosOf, Third
  <2>5. MortarFirst[PosOf("single", mortar)] = s
    BY DEF PosOf, MortarFirst
  <2>6. BlockJ("single", p)[3][PosOf("single", mortar)] = ConstraintJacobian(p, w)[s]
    <3> HIDE DEF w, s, at, v
    <3> QED BY <2>1, <2>4, <2>5 DEF BlockJ
  <2> HIDE DEF w, s, at, v
  <2> QED BY <2>3, <2>6
<1>3. v[k] = JguVal(p, mortar, a, b, d + 1)
  <2>1. /\ getNonmortarMortarWt(w, a, b) = Weight(p.rule, b, a, TRUE)
        /\ getNonmortarNonmortarWt(w, a, b) = Weight(p.rule, a, b, FALSE)
    BY WeightsAre
  <2>2. Weight(p.rule, a, b, FALSE) = Weight(p.rule, b, a, FALSE)
    BY WeightSymmetric
  <2>3. v[k] = NormalAt(p.face2, a)[d + 1] * (IF mortar THEN getNonmortarMortarWt(w, a, b) ELSE -getNonmortarNonmortarWt(w, a, b))
    BY <1>1
  <2> HIDE DEF v, w
  <2> QED BY <2>1, <2>2, <2>3 DEF JguVal, SignedWt
<1>4. d + 1 \in 1 .. 3
  BY DEF Dims
<1>5. v[k] \in Int
  <2> HIDE DEF v
  <2> QED BY <1>3, <1>4, ValuesFine
<1>6. at[k] = ElemXDof("Jgu", k) /\ at[k] \in 0 .. (Dim * Square4 - 1) /\ \A e \in Keys : at[e] = at[k] => e = k
  <2> HIDE DEF k
  <2> QED BY <1>1, PlacesApart
<1> HIDE DEF v, w, at, k, s
<1>7. Filled(at, v)[at[k]] = v[k]
  BY <1>1, <1>5, <1>6, FilledAt
<1>8. BlockJ("single", p)[3][PosOf("single", mortar)][ElemXDof("Jgu", k)] = JguVal(p, mortar, a, b, d + 1)
  BY <1>2, <1>3, <1>6, <1>7
<1> QED BY <1>8 DEF k

\* The force on a corner is linear in the pressures.
JrpRow(m, p, mortar, a, d) == [b \in Corners |-> JrpVal(m, p, mortar, a, b, d)]
PressedRow(m, p, mortar, a, d) == [b \in Corners |-> JrpVal(m, p, mortar, a, b, d) * PressureAt(p.face2, b)]

\* Pressures are integers.
LEMMA PressureFine == ASSUME NEW p \in AllPairs, NEW b \in Corners PROVE PressureAt(p.face2, b) \in Int
BY PairFacts, MortarAssumption DEF PressureAt, MortarAssumption

\* It is the row of the corner times the pressures of the nonmortar face.
LEMMA CornerForceIs ==
  ASSUME NEW m \in {"single", "enzyme"}, NEW p \in AllPairs, NEW mortar \in BOOLEAN, NEW a \in Corners, NEW d \in 1 .. 3
  PROVE  /\ ForceOnCorner(m, p, MortarWeights[p], mortar, a)[d] = SumFunctionOnSet(PressedRow(m, p, mortar, a, d), Corners)
         /\ ForceOnCorner(m, p, MortarWeights[p], mortar, a)[d] \in Int
<1> DEFINE w == MortarWeights[p]
           r == PressedRow(m, p, mortar, a, d)
<1>1. IsFiniteSet(Corners)
  BY CornersFinite
<1>2. ASSUME NEW b \in Corners PROVE r[b] \in Int /\ r[b] = JrpVal(m, p, mortar, a, b, d) * PressureAt(p.face2, b)
  <2>1. PICK x \in Int, y \in Int : x = JrpVal(m, p, mortar, a, b, d) /\ y = PressureAt(p.face2, b)
    BY ValuesFine, PressureFine
  <2>2. x * y \in Int
    OBVIOUS
  <2> QED BY <2>1, <2>2 DEF PressedRow
<1>3. CASE m = "single"
  <2>1. ForceOnCorner(m, p, w, mortar, a) = SingleForce(p, w, mortar, a)
    BY <1>3 DEF ForceOnCorner
  <2>2. SingleForce(p, w, mortar, a)[d] = SumFunctionOnSet(SingleTerms(p, mortar, d, a), Corners)
    BY SingleForceIs
  <2>3. ASSUME NEW b \in Corners PROVE SingleTerms(p, mortar, d, a)[b] = r[b]
    <3>1. PICK s \in Int, c \in Int, y \in Int : s = SignedWt(p, mortar, a, b) /\ c = NormalAt(p.face2, b)[d] /\ y = PressureAt(p.face2, b)
      BY ValuesFine, PressureFine
    <3>2. ContactForce(p, b)[d] = y * c
      BY <3>1 DEF ContactForce, Scaled3
    <3>3. SingleTerms(p, mortar, d, a)[b] = s * (y * c)
      BY <3>1, <3>2 DEF SingleTerms, SignedWt
    <3>4. r[b] = (c * s) * y
      BY <1>3, <3>1 DEF PressedRow, JrpVal
    <3>5. s * (y * c) = (c * s) * y
      OBVIOUS
    <3> QED BY <3>3, <3>4, <3>5
  <2> HIDE DEF r, w
  <2>4. SumFunctionOnSet(SingleTerms(p, mortar, d, a), Corners) = SumFunctionOnSet(r, Corners)
    BY <1>1, <2>3, SumSame
  <2>5. SumFunctionOnSet(r, Corners) \in Int
    BY <1>1, <1>2, SumInt
  <2> QED BY <2>1, <2>2, <2>4, <2>5 DEF w, r
<1>4. CASE m = "enzyme"
  <2> DEFINE F == [j \in Corners |-> Scaled3(PressureAt(p.face2, j) * (IF mortar THEN getMortarNonmortarWt(w, a, j)
                                                                               ELSE -getNonmortarNonmortarWt(w, j, a)),
                                             NormalAt(p.face2, a))]
             k == [j \in DOMAIN F |-> F[j][d]]
  <2>1. ForceOnCorner(m, p, w, mortar, a) = EnzymeForce(p, w, mortar, a)
    BY <1>4 DEF ForceOnCorner
  <2>2. EnzymeForce(p, w, mortar, a)[d] = SumFunctionOnSet(k, Corners)
    BY DEF EnzymeForce, Sum3, SumFunction
  <2>3. ASSUME NEW b \in Corners PROVE k[b] = r[b]
    <3>1. PICK s \in Int, c \in Int, y \in Int : s = SignedWt(p, mortar, a, b) /\ c = NormalAt(p.face2, a)[d] /\ y = PressureAt(p.face2, b)
      BY ValuesFine, PressureFine
    <3>2. /\ getMortarNonmortarWt(w, a, b) = Weight(p.rule, a, b, TRUE)
          /\ getNonmortarNonmortarWt(w, b, a) = Weight(p.rule, b, a, FALSE)
      BY WeightsAre
    <3>3. Weight(p.rule, b, a, FALSE) = Weight(p.rule, a, b, FALSE)
      BY WeightSymmetric
    <3>4. k[b] = PressureAt(p.face2, b) * (IF mortar THEN getMortarNonmortarWt(w, a, b) ELSE -getNonmortarNonmortarWt(w, b, a))
                   * NormalAt(p.face2, a)[d]
      BY DEF Scaled3
    <3>5. k[b] = y * s * c
      <4> HIDE DEF k, w
      <4> QED BY <3>1, <3>2, <3>3, <3>4 DEF SignedWt
    <3>6. r[b] = (c * s) * y
      BY <1>4, <3>1 DEF PressedRow, JrpVal
    <3>7. y * s * c = (c * s) * y
      OBVIOUS
    <3> HIDE DEF k, r
    <3> QED BY <3>5, <3>6, <3>7
  <2> HIDE DEF r, w, k
  <2>4. SumFunctionOnSet(k, Corners) = SumFunctionOnSet(r, Corners)
    BY <1>1, <2>3, SumSame
  <2>5. SumFunctionOnSet(r, Corners) \in Int
    BY <1>1, <1>2, SumInt
  <2> QED BY <2>1, <2>2, <2>4, <2>5 DEF w, r
<1> QED BY <1>3, <1>4

\* What a pair adds at a node, by face.
FaceOf(p, mortar) == IF mortar THEN Faces1[p.face1] ELSE Faces2[p.face2]
ForceAt(m, p, mortar, n, d) ==
  SumFunctionOnSet([a \in Corners |-> ForceOnCorner(m, p, MortarWeights[p], mortar, a)[d]], CornersAt(FaceOf(p, mortar), n))
PairForce(m, p, n, d) == ForceAt(m, p, TRUE, n, d) + ForceAt(m, p, FALSE, n, d)

\* Finitely many corners are one node.
LEMMA CornersAtFinite == ASSUME NEW face, NEW n PROVE IsFiniteSet(CornersAt(face, n)) /\ CornersAt(face, n) \subseteq Corners
BY CornersFinite, FS_Subset DEF CornersAt

\* It is an integer.
LEMMA ForceAtFine ==
  ASSUME NEW m \in {"single", "enzyme"}, NEW p \in AllPairs, NEW mortar \in BOOLEAN, NEW n, NEW d \in 1 .. 3
  PROVE  ForceAt(m, p, mortar, n, d) \in Int
<1> DEFINE f == [a \in Corners |-> ForceOnCorner(m, p, MortarWeights[p], mortar, a)[d]]
           C == CornersAt(FaceOf(p, mortar), n)
<1>1. IsFiniteSet(C) /\ C \subseteq Corners
  BY CornersAtFinite
<1>2. \A a \in C : f[a] \in Int
  BY <1>1, CornerForceIs
<1>3. ForceAt(m, p, mortar, n, d) = SumFunctionOnSet(f, C)
  BY DEF ForceAt
<1> HIDE DEF f, C
<1> QED BY <1>1, <1>2, <1>3, SumInt

\* Sum3 over the corners of a node, of forces that agree with those.
LEMMA OverCorners ==
  ASSUME NEW face, NEW n, NEW F, NEW f, NEW d \in 1 .. 3, \A a \in CornersAt(face, n) : F[a][d] = f[a]
  PROVE  Sum3([a \in CornersAt(face, n) |-> F[a]])[d] = SumFunctionOnSet(f, CornersAt(face, n))
<1> DEFINE A == CornersAt(face, n)
           G == [a \in A |-> F[a]]
           k == [a \in DOMAIN G |-> G[a][d]]
<1>1. Sum3(G)[d] = SumFunctionOnSet(k, A)
  BY DEF Sum3, SumFunction
<1>2. \A a \in A : k[a] = f[a]
  OBVIOUS
<1>3. IsFiniteSet(A)
  BY CornersAtFinite
<1> HIDE DEF A, k
<1>4. SumFunctionOnSet(k, A) = SumFunctionOnSet(f, A)
  BY <1>2, <1>3, SumSame
<1> QED BY <1>1, <1>4 DEF A

\* The forces of a pair are those of its faces.
LEMMA PairForceIs ==
  ASSUME NEW m \in {"single", "enzyme"}, NEW p \in AllPairs, NEW n \in AllNodes, NEW d \in 1 .. 3
  PROVE  ForcesOfPair(m, p)[n][d] = PairForce(m, p, n, d) /\ PairForce(m, p, n, d) \in Int
<1> DEFINE F(mortar) == [a \in Corners |-> ForceOnCorner(m, p, MortarWeights[p], mortar, a)]
           f(mortar) == [a \in Corners |-> ForceOnCorner(m, p, MortarWeights[p], mortar, a)[d]]
           On(face, mortar) == Sum3([a \in CornersAt(face, n) |-> F(mortar)[a]])
           Of(face, mortar) == Sum3([a \in CornersAt(face, n) |-> ForceOnCorner(m, p, MortarWeights[p], mortar, a)])
<1>1. ForcesOfPair(m, p)[n][d] = Of(Faces1[p.face1], TRUE)[d] + Of(Faces2[p.face2], FALSE)[d]
  BY DEF ForcesOfPair, Plus3
<1>2. ASSUME NEW mortar \in BOOLEAN PROVE Of(FaceOf(p, mortar), mortar)[d] = ForceAt(m, p, mortar, n, d)
  <2> DEFINE C == CornersAt(FaceOf(p, mortar), n)
  <2>1. C \subseteq Corners
    BY DEF CornersAt
  <2>2. \A a \in C : F(mortar)[a][d] = f(mortar)[a] /\ F(mortar)[a] = ForceOnCorner(m, p, MortarWeights[p], mortar, a)
    BY <2>1
  <2>3. Of(FaceOf(p, mortar), mortar) = On(FaceOf(p, mortar), mortar)
    BY <2>2
  <2>4. ForceAt(m, p, mortar, n, d) = SumFunctionOnSet(f(mortar), C)
    BY DEF ForceAt
  <2>5. \A a \in CornersAt(FaceOf(p, mortar), n) : F(mortar)[a][d] = f(mortar)[a]
    BY <2>2
  <2> HIDE DEF F, f
  <2>6. On(FaceOf(p, mortar), mortar)[d] = SumFunctionOnSet(f(mortar), C)
    BY <2>5, OverCorners
  <2> HIDE DEF On, Of
  <2> QED BY <2>3, <2>4, <2>6
<1>3. FaceOf(p, TRUE) = Faces1[p.face1] /\ FaceOf(p, FALSE) = Faces2[p.face2]
  BY DEF FaceOf
<1>4. PICK x \in Int, y \in Int : x = ForceAt(m, p, TRUE, n, d) /\ y = ForceAt(m, p, FALSE, n, d)
  BY ForceAtFine
<1>5. x + y \in Int
  OBVIOUS
<1> HIDE DEF Of
<1> QED BY <1>1, <1>2, <1>3, <1>4, <1>5 DEF PairForce

\* The entries a pair adds to the matrix, in the row of a displacement and the column of a pressure.
JrpPart(p, mortar, n, d, j) ==
  SumFunctionOnSet([a \in Corners |-> SumFunctionOnSet(JrpRow("single", p, mortar, a, d), CornersAt(Faces2[p.face2], j))],
                   CornersAt(FaceOf(p, mortar), n))
JrpEntry(p, n, d, j) == JrpPart(p, TRUE, n, d, j) + JrpPart(p, FALSE, n, d, j)

\* There are finitely many nonmortar nodes.
LEMMA NonmortarFinite == IsFiniteSet(NonmortarNodes) /\ NonmortarNodes \subseteq AllNodes
<1>1. ASSUME NEW f \in DOMAIN Faces2 PROVE Range(Faces2[f]) \subseteq AllNodes
  <2>1. IsFace(Faces2[f])
    BY MortarAssumption DEF MortarAssumption
  <2>2. ASSUME NEW x \in 1 .. NumFaceVert PROVE Faces2[f][x] \in AllNodes
    <3>1. x - 1 \in Corners /\ (x - 1) + 1 = x
      BY MortarAssumption DEF MortarAssumption, Corners
    <3> QED BY <2>1, <3>1 DEF IsFace, NodeOf
  <2> QED BY <2>1, <2>2 DEF IsFace, Range
<1>2. NonmortarNodes \subseteq AllNodes
  BY <1>1 DEF NonmortarNodes
<1> QED BY <1>2, CornersFinite, FS_Subset

\* A row that one face adds, times the pressures, is the force on that face.
LEMMA ForceRowOfFace ==
  ASSUME NEW p \in AllPairs, NEW mortar \in BOOLEAN, NEW n \in AllNodes, NEW d \in 1 .. 3
  PROVE  /\ SumFunctionOnSet([j \in NonmortarNodes |-> JrpPart(p, mortar, n, d, j) * Pressure[j]], NonmortarNodes)
              = ForceAt("single", p, mortar, n, d)
         /\ \A j \in NonmortarNodes : JrpPart(p, mortar, n, d, j) \in Int
<1> DEFINE C == CornersAt(FaceOf(p, mortar), n)
           N == NonmortarNodes
           f2 == Faces2[p.face2]
           V == [a \in Corners |-> JrpRow("single", p, mortar, a, d)]
           T == [j \in N |-> [a \in Corners |-> SumFunctionOnSet(JrpRow("single", p, mortar, a, d), CornersAt(f2, j))]]
           h == [j \in N |-> JrpPart(p, mortar, n, d, j) * Pressure[j]]
           g == [a \in Corners |-> ForceOnCorner("single", p, MortarWeights[p], mortar, a)[d]]
<1>1. IsFiniteSet(C) /\ C \subseteq Corners /\ IsFiniteSet(N)
  BY CornersAtFinite, NonmortarFinite
<1>2. \A b \in Corners : NodeOf(f2, b) \in N
  BY PairFacts
<1>3. \A a \in C : \A b \in Corners : V[a][b] \in Int
  BY <1>1, ValuesFine DEF JrpRow
<1>4. \A a \in C : \A j \in N : T[j][a] = SumFunctionOnSet(V[a], CornersAt(f2, j))
  BY <1>1
<1>5. ASSUME NEW j \in N PROVE Pressure[j] \in Int /\ JrpPart(p, mortar, n, d, j) = SumFunctionOnSet(T[j], C)
  BY MortarAssumption DEF MortarAssumption, JrpPart
<1>6. \A j \in N : h[j] = SumFunctionOnSet(T[j], C) * Pressure[j]
  <2> SUFFICES ASSUME NEW j \in N PROVE h[j] = SumFunctionOnSet(T[j], C) * Pressure[j]
    OBVIOUS
  <2>1. h[j] = JrpPart(p, mortar, n, d, j) * Pressure[j]
    OBVIOUS
  <2> HIDE DEF h, T, C
  <2> QED BY <1>5, <2>1
<1>7. ASSUME NEW a \in C
      PROVE  g[a] = SumFunctionOnSet([b \in Corners |-> V[a][b] * Pressure[NodeOf(f2, b)]], Corners)
  <2>1. a \in Corners
    BY <1>1
  <2>2. "single" \in {"single", "enzyme"}
    OBVIOUS
  <2>3. g[a] = SumFunctionOnSet(PressedRow("single", p, mortar, a, d), Corners)
    BY <2>1, <2>2, CornerForceIs
  <2>4. PressedRow("single", p, mortar, a, d) = [b \in Corners |-> V[a][b] * Pressure[NodeOf(f2, b)]]
    BY <2>1 DEF PressedRow, JrpRow, PressureAt
  <2> HIDE DEF g
  <2> QED BY <2>3, <2>4
<1>8. ForceAt("single", p, mortar, n, d) = SumFunctionOnSet(g, C)
  BY DEF ForceAt
<1>9. ASSUME NEW j \in N PROVE SumFunctionOnSet(T[j], C) \in Int
  <2> DEFINE K == CornersAt(f2, j)
             k == T[j]
  <2>1. IsFiniteSet(K) /\ K \subseteq Corners
    BY CornersAtFinite
  <2>2. \A a \in C : k[a] \in Int
    <3> SUFFICES ASSUME NEW a \in C PROVE k[a] \in Int
      OBVIOUS
    <3>1. PICK r : r = V[a]
      OBVIOUS
    <3>2. \A b \in K : r[b] \in Int
      BY <1>3, <2>1, <3>1
    <3>3. k[a] = SumFunctionOnSet(r, K)
      BY <1>4, <3>1
    <3> HIDE DEF K, k, V
    <3> QED BY <2>1, <3>2, <3>3, SumInt
  <2> HIDE DEF k, C, T
  <2>3. SumFunctionOnSet(k, C) \in Int
    BY <1>1, <2>2, SumInt
  <2> QED BY <2>3 DEF k
<1>10. \A j \in N : JrpPart(p, mortar, n, d, j) \in Int
  <2> HIDE DEF C, T
  <2> QED BY <1>5, <1>9
<1> HIDE DEF C, N, f2, V, T, h, g
<1>11. Weighs(C, N, f2, V, T, Pressure, g, h)
  BY <1>1, <1>2, <1>3, <1>4, <1>5, <1>6, <1>7 DEF Weighs
<1>12. SumFunctionOnSet(h, N) = SumFunctionOnSet(g, C)
  BY <1>11, WeighedByCorners
<1> QED BY <1>8, <1>10, <1>12 DEF h, N

\* A row of the matrix of one pair, times the pressures, is the force of the pair.
LEMMA ForceRowOfPair ==
  ASSUME NEW p \in AllPairs, NEW n \in AllNodes, NEW d \in 1 .. 3
  PROVE  /\ SumFunctionOnSet([j \in NonmortarNodes |-> JrpEntry(p, n, d, j) * Pressure[j]], NonmortarNodes)
              = PairForce("single", p, n, d)
         /\ \A j \in NonmortarNodes : JrpEntry(p, n, d, j) \in Int
<1> DEFINE ofFace(mortar) == [j \in NonmortarNodes |-> JrpPart(p, mortar, n, d, j) * Pressure[j]]
           h == [j \in NonmortarNodes |-> JrpEntry(p, n, d, j) * Pressure[j]]
<1>1. IsFiniteSet(NonmortarNodes)
  BY NonmortarFinite
<1>2. ASSUME NEW j \in NonmortarNodes
      PROVE  /\ ofFace(TRUE)[j] \in Int /\ ofFace(FALSE)[j] \in Int /\ h[j] = ofFace(TRUE)[j] + ofFace(FALSE)[j]
             /\ JrpEntry(p, n, d, j) \in Int
  <2>1. PICK x \in Int, y \in Int, z \in Int : x = JrpPart(p, TRUE, n, d, j) /\ y = JrpPart(p, FALSE, n, d, j) /\ z = Pressure[j]
    BY ForceRowOfFace, MortarAssumption DEF MortarAssumption
  <2>2. ofFace(TRUE)[j] = x * z /\ ofFace(FALSE)[j] = y * z /\ h[j] = (x + y) * z /\ JrpEntry(p, n, d, j) = x + y
    BY <2>1 DEF JrpEntry
  <2>3. (x + y) * z = x * z + y * z /\ x * z \in Int /\ y * z \in Int /\ x + y \in Int
    OBVIOUS
  <2> HIDE DEF ofFace, h
  <2> QED BY <2>2, <2>3
<1>3. /\ SumFunctionOnSet(ofFace(TRUE), NonmortarNodes) = ForceAt("single", p, TRUE, n, d)
      /\ SumFunctionOnSet(ofFace(FALSE), NonmortarNodes) = ForceAt("single", p, FALSE, n, d)
  BY ForceRowOfFace
<1>4. PICK u, t : u = ofFace(TRUE) /\ t = ofFace(FALSE)
  OBVIOUS
<1> HIDE DEF ofFace, h
<1>5. SumFunctionOnSet(h, NonmortarNodes) = SumFunctionOnSet(u, NonmortarNodes) + SumFunctionOnSet(t, NonmortarNodes)
  BY <1>1, <1>2, <1>4, SumPlus
<1>6. SumFunctionOnSet(h, NonmortarNodes) = PairForce("single", p, n, d)
  BY <1>3, <1>4, <1>5 DEF PairForce
<1> QED BY <1>2, <1>6 DEF h

\* The sum of three sums.
LEMMA SumThree ==
  ASSUME NEW T, IsFiniteSet(T), NEW f1, NEW f2, NEW f3, NEW h,
         \A x \in T : f1[x] \in Int /\ f2[x] \in Int /\ f3[x] \in Int /\ h[x] = f1[x] + f2[x] + f3[x]
  PROVE  SumFunctionOnSet(h, T) = SumFunctionOnSet(f1, T) + SumFunctionOnSet(f2, T) + SumFunctionOnSet(f3, T)
<1> DEFINE k == [x \in T |-> f1[x] + f2[x]]
<1>1. \A x \in T : k[x] \in Int /\ k[x] = f1[x] + f2[x] /\ h[x] = k[x] + f3[x]
  OBVIOUS
<1> HIDE DEF k
<1>2. SumFunctionOnSet(k, T) = SumFunctionOnSet(f1, T) + SumFunctionOnSet(f2, T)
  BY <1>1, SumPlus
<1>3. SumFunctionOnSet(h, T) = SumFunctionOnSet(k, T) + SumFunctionOnSet(f3, T)
  BY <1>1, SumPlus
<1> QED BY <1>2, <1>3

\* The entries a pair adds in the row of a pressure and the column of a displacement.
JguRow(p, mortar, a, d) == [b \in Corners |-> JguVal(p, mortar, a, b, d)]
JguPart(p, mortar, j, n, d) ==
  SumFunctionOnSet([a \in Corners |-> SumFunctionOnSet(JguRow(p, mortar, a, d), CornersAt(FaceOf(p, mortar), n))],
                   CornersAt(Faces2[p.face2], j))
JguEntry(p, j, n, d) == JguPart(p, TRUE, j, n, d) + JguPart(p, FALSE, j, n, d)

\* The corners of a face are nodes.
LEMMA FaceOfFine ==
  ASSUME NEW p \in AllPairs, NEW mortar \in BOOLEAN, NEW b \in Corners
  PROVE  NodeOf(FaceOf(p, mortar), b) \in AllNodes
BY PairFacts DEF FaceOf

\* Of one dimension: what a row gives, times the coordinates.
PlacedRow(p, mortar, a, d) == [b \in Corners |-> JguVal(p, mortar, a, b, d) * Position[NodeOf(FaceOf(p, mortar), b)][d]]
PlacedSum(p, mortar, a, d) == SumFunctionOnSet(PlacedRow(p, mortar, a, d), Corners)

\* They are integers.
LEMMA PlacedFine ==
  ASSUME NEW p \in AllPairs, NEW mortar \in BOOLEAN, NEW a \in Corners, NEW d \in 1 .. 3
  PROVE  PlacedSum(p, mortar, a, d) \in Int /\ \A b \in Corners : PlacedRow(p, mortar, a, d)[b] \in Int
<1>1. ASSUME NEW b \in Corners PROVE PlacedRow(p, mortar, a, d)[b] \in Int
  <2>1. PICK x \in Int, y \in Int : x = JguVal(p, mortar, a, b, d) /\ y = Position[NodeOf(FaceOf(p, mortar), b)][d]
    BY ValuesFine, FaceOfFine, MortarAssumption DEF MortarAssumption
  <2>2. x * y \in Int
    OBVIOUS
  <2> QED BY <2>1, <2>2 DEF PlacedRow
<1> QED BY <1>1, CornersFinite, SumInt DEF PlacedSum

\* Over all nodes, a row that one face adds is what its corners give.
LEMMA GapRowOfFace ==
  ASSUME NEW p \in AllPairs, NEW mortar \in BOOLEAN, NEW j \in NonmortarNodes, NEW d \in 1 .. 3
  PROVE  /\ SumFunctionOnSet([n \in AllNodes |-> JguPart(p, mortar, j, n, d) * Position[n][d]], AllNodes)
              = SumFunctionOnSet([a \in Corners |-> PlacedSum(p, mortar, a, d)], CornersAt(Faces2[p.face2], j))
         /\ \A n \in AllNodes : JguPart(p, mortar, j, n, d) \in Int
<1> DEFINE C == CornersAt(Faces2[p.face2], j)
           N == AllNodes
           face == FaceOf(p, mortar)
           v == [n \in N |-> Position[n][d]]
           V == [a \in Corners |-> JguRow(p, mortar, a, d)]
           T == [n \in N |-> [a \in Corners |-> SumFunctionOnSet(JguRow(p, mortar, a, d), CornersAt(face, n))]]
           h == [n \in N |-> JguPart(p, mortar, j, n, d) * Position[n][d]]
           g == [a \in Corners |-> PlacedSum(p, mortar, a, d)]
<1>1. IsFiniteSet(C) /\ C \subseteq Corners /\ IsFiniteSet(N)
  BY CornersAtFinite, CornersFinite
<1>2. \A b \in Corners : NodeOf(face, b) \in N
  BY FaceOfFine
<1>3. \A a \in C : \A b \in Corners : V[a][b] \in Int
  BY <1>1, ValuesFine DEF JguRow
<1>4. \A a \in C : \A n \in N : T[n][a] = SumFunctionOnSet(V[a], CornersAt(face, n))
  BY <1>1
<1>5. ASSUME NEW n \in N PROVE v[n] \in Int /\ v[n] = Position[n][d] /\ JguPart(p, mortar, j, n, d) = SumFunctionOnSet(T[n], C)
  BY MortarAssumption DEF MortarAssumption, JguPart
<1>6. \A n \in N : h[n] = SumFunctionOnSet(T[n], C) * v[n]
  <2> SUFFICES ASSUME NEW n \in N PROVE h[n] = SumFunctionOnSet(T[n], C) * v[n]
    OBVIOUS
  <2>1. h[n] = JguPart(p, mortar, j, n, d) * Position[n][d]
    OBVIOUS
  <2> HIDE DEF h, T, C, v
  <2> QED BY <1>5, <2>1
<1>7. ASSUME NEW a \in C
      PROVE  g[a] = SumFunctionOnSet([b \in Corners |-> V[a][b] * v[NodeOf(face, b)]], Corners)
  <2>1. a \in Corners
    BY <1>1
  <2>2. g[a] = SumFunctionOnSet(PlacedRow(p, mortar, a, d), Corners)
    BY <2>1 DEF PlacedSum
  <2>3. PlacedRow(p, mortar, a, d) = [b \in Corners |-> V[a][b] * v[NodeOf(face, b)]]
    BY <1>2, <2>1 DEF PlacedRow, JguRow
  <2> HIDE DEF g
  <2> QED BY <2>2, <2>3
<1>8. ASSUME NEW n \in N PROVE SumFunctionOnSet(T[n], C) \in Int
  <2> DEFINE K == CornersAt(face, n)
             k == T[n]
  <2>1. IsFiniteSet(K) /\ K \subseteq Corners
    BY CornersAtFinite
  <2>2. \A a \in C : k[a] \in Int
    <3> SUFFICES ASSUME NEW a \in C PROVE k[a] \in Int
      OBVIOUS
    <3>1. PICK r : r = V[a]
      OBVIOUS
    <3>2. \A b \in K : r[b] \in Int
      BY <1>3, <2>1, <3>1
    <3>3. k[a] = SumFunctionOnSet(r, K)
      BY <1>4, <3>1
    <3> HIDE DEF K, k, V
    <3> QED BY <2>1, <3>2, <3>3, SumInt
  <2> HIDE DEF k, C, T
  <2>3. SumFunctionOnSet(k, C) \in Int
    BY <1>1, <2>2, SumInt
  <2> QED BY <2>3 DEF k
<1>9. \A n \in N : JguPart(p, mortar, j, n, d) \in Int
  <2> HIDE DEF C, T
  <2> QED BY <1>5, <1>8
<1> HIDE DEF C, N, face, v, V, T, h, g
<1>10. Weighs(C, N, face, V, T, v, g, h)
  BY <1>1, <1>2, <1>3, <1>4, <1>5, <1>6, <1>7 DEF Weighs
<1>11. SumFunctionOnSet(h, N) = SumFunctionOnSet(g, C)
  BY <1>10, WeighedByCorners
<1> QED BY <1>9, <1>11 DEF h, g, N, C

\* A row of a corner in all three dimensions: the weights times the nodes along the normal of the corner.
AlongRow(p, mortar, a) ==
  [b \in Corners |-> dotProd(NormalAt(p.face2, a), Position[NodeOf(FaceOf(p, mortar), b)]) * SignedWt(p, mortar, b, a)]
PlacedAlong(p, mortar, a) == PlacedSum(p, mortar, a, 1) + PlacedSum(p, mortar, a, 2) + PlacedSum(p, mortar, a, 3)

\* The products of the three dimensions are those along the normal.
LEMMA PlacedAlongIs ==
  ASSUME NEW p \in AllPairs, NEW mortar \in BOOLEAN, NEW a \in Corners
  PROVE  PlacedAlong(p, mortar, a) = SumFunctionOnSet(AlongRow(p, mortar, a), Corners)
<1> DEFINE f(d) == PlacedRow(p, mortar, a, d)
           h == AlongRow(p, mortar, a)
<1>1. 1 \in 1 .. 3 /\ 2 \in 1 .. 3 /\ 3 \in 1 .. 3
  OBVIOUS
<1>2. ASSUME NEW b \in Corners PROVE f(1)[b] \in Int /\ f(2)[b] \in Int /\ f(3)[b] \in Int /\ h[b] = f(1)[b] + f(2)[b] + f(3)[b]
  <2>1. PICK n1 \in Int, n2 \in Int, n3 \in Int, s \in Int :
          /\ n1 = NormalAt(p.face2, a)[1] /\ n2 = NormalAt(p.face2, a)[2] /\ n3 = NormalAt(p.face2, a)[3]
          /\ s = SignedWt(p, mortar, b, a)
    BY <1>1, ValuesFine
  <2>2. PICK x1 \in Int, x2 \in Int, x3 \in Int :
          LET X == Position[NodeOf(FaceOf(p, mortar), b)] IN x1 = X[1] /\ x2 = X[2] /\ x3 = X[3]
    BY <1>1, FaceOfFine, MortarAssumption DEF MortarAssumption
  <2>3. f(1)[b] = (n1 * s) * x1 /\ f(2)[b] = (n2 * s) * x2 /\ f(3)[b] = (n3 * s) * x3
    BY <2>1, <2>2 DEF PlacedRow, JguVal
  <2>4. h[b] = (n1 * x1 + n2 * x2 + n3 * x3) * s
    BY <2>1, <2>2 DEF AlongRow, dotProd
  <2>5. (n1 * x1 + n2 * x2 + n3 * x3) * s = (n1 * s) * x1 + (n2 * s) * x2 + (n3 * s) * x3
    OBVIOUS
  <2>6. (n1 * s) * x1 \in Int /\ (n2 * s) * x2 \in Int /\ (n3 * s) * x3 \in Int
    OBVIOUS
  <2> HIDE DEF f, h
  <2> QED BY <2>3, <2>4, <2>5, <2>6
<1>3. PICK f1, f2, f3 : f1 = f(1) /\ f2 = f(2) /\ f3 = f(3)
  OBVIOUS
<1>4. PlacedAlong(p, mortar, a) = SumFunctionOnSet(f1, Corners) + SumFunctionOnSet(f2, Corners) + SumFunctionOnSet(f3, Corners)
  BY <1>3 DEF PlacedAlong, PlacedSum
<1>5. IsFiniteSet(Corners)
  BY CornersFinite
<1>6. \A b \in Corners : f1[b] \in Int /\ f2[b] \in Int /\ f3[b] \in Int /\ h[b] = f1[b] + f2[b] + f3[b]
  BY <1>2, <1>3
<1> HIDE DEF f, h
<1>7. SumFunctionOnSet(h, Corners) = SumFunctionOnSet(f1, Corners) + SumFunctionOnSet(f2, Corners) + SumFunctionOnSet(f3, Corners)
  BY <1>5, <1>6, SumThree
<1> QED BY <1>4, <1>7 DEF h

\* The integral of the shape function of a corner.
ShapeOfCorner(p, a) == SumFunctionOnSet([b \in Corners |-> Weight(p.rule, a, b, FALSE)], Corners)

\* It is an integer.
LEMMA ShapeOfCornerFine == ASSUME NEW p \in AllPairs, NEW a \in Corners PROVE ShapeOfCorner(p, a) \in Int
<1> DEFINE f == [b \in Corners |-> Weight(p.rule, a, b, FALSE)]
<1>1. \A b \in Corners : f[b] \in Int
  BY WeightIs
<1> HIDE DEF f
<1>2. SumFunctionOnSet(f, Corners) \in Int
  BY <1>1, CornersFinite, SumInt
<1> QED BY <1>2 DEF f, ShapeOfCorner

\* Both rows of a corner give its gap and the residual gap.
LEMMA CornerGapIs ==
  ASSUME NEW p \in AllPairs, NEW a \in Corners
  PROVE  /\ PlacedAlong(p, TRUE, a) + PlacedAlong(p, FALSE, a) = GapOfCorner(p, MortarWeights[p], a) + ResidualGap * ShapeOfCorner(p, a)
         /\ PlacedAlong(p, TRUE, a) \in Int /\ PlacedAlong(p, FALSE, a) \in Int
<1> DEFINE w == MortarWeights[p]
           n == NormalAt(p.face2, a)
           k1 == [b \in Corners |-> dotProd(n, Position[NodeOf(Faces1[p.face1], b)]) * getNonmortarMortarWt(w, a, b)]
           k2 == [b \in Corners |-> (dotProd(n, Position[NodeOf(Faces2[p.face2], b)]) + ResidualGap) * getNonmortarNonmortarWt(w, a, b)]
           e1 == AlongRow(p, TRUE, a)
           e2 == AlongRow(p, FALSE, a)
           s == [b \in Corners |-> Weight(p.rule, a, b, FALSE)]
<1>1. GapOfCorner(p, w, a) = SumFunctionOnSet(k1, Corners) - SumFunctionOnSet(k2, Corners)
  BY DEF GapOfCorner, SumFunction
<1>2. ASSUME NEW b \in Corners
      PROVE  e1[b] \in Int /\ k1[b] = e1[b] /\ e2[b] \in Int /\ k2[b] \in Int /\ s[b] \in Int /\ e2[b] = (-1) * k2[b] + ResidualGap * s[b]
  <2>0. NodeOf(Faces2[p.face2], a) \in NonmortarNodes /\ n = NodalNormals[NodeOf(Faces2[p.face2], a)]
    BY PairFacts DEF NormalAt
  <2>1. PICK x \in Int, y \in Int, u \in Int, t \in Int, r \in Int :
          /\ x = dotProd(n, Position[NodeOf(Faces1[p.face1], b)]) /\ y = dotProd(n, Position[NodeOf(Faces2[p.face2], b)])
          /\ u = Weight(p.rule, b, a, TRUE) /\ t = Weight(p.rule, a, b, FALSE) /\ r = ResidualGap
    <3>1. /\ dotProd(NodalNormals[NodeOf(Faces2[p.face2], a)], Position[NodeOf(Faces1[p.face1], b)]) \in Int
          /\ dotProd(NodalNormals[NodeOf(Faces2[p.face2], a)], Position[NodeOf(Faces2[p.face2], b)]) \in Int
      BY PairFacts, AlongFacts
    <3>2. Weight(p.rule, b, a, TRUE) \in Int /\ Weight(p.rule, a, b, FALSE) \in Int
      BY WeightIs
    <3>3. ResidualGap \in Int
      BY MortarAssumption DEF MortarAssumption
    <3> HIDE DEF n
    <3> QED BY <2>0, <3>1, <3>2, <3>3
  <2>2. getNonmortarMortarWt(w, a, b) = u /\ getNonmortarNonmortarWt(w, a, b) = t
    BY <2>1, WeightsAre
  <2>3. Weight(p.rule, b, a, FALSE) = t
    BY <2>1, WeightSymmetric
  <2>4. e1[b] = x * u
    BY <2>1 DEF AlongRow, SignedWt, FaceOf
  <2>5. e2[b] = y * (-t)
    BY <2>1, <2>3 DEF AlongRow, SignedWt, FaceOf
  <2>6. k1[b] = x * u /\ k2[b] = (y + r) * t /\ s[b] = t
    BY <2>1, <2>2
  <2>7. y * (-t) = (-1) * ((y + r) * t) + r * t /\ x * u \in Int /\ y * (-t) \in Int /\ (y + r) * t \in Int
    OBVIOUS
  <2> HIDE DEF e1, e2, k1, k2, s
  <2> QED BY <2>1, <2>4, <2>5, <2>6, <2>7
<1>3. IsFiniteSet(Corners)
  BY CornersFinite
<1>4. ResidualGap \in Int /\ -1 \in Int
  BY MortarAssumption DEF MortarAssumption
<1> DEFINE z == [b \in Corners |-> (-1) * k2[b]]
<1>5. \A b \in Corners : z[b] \in Int /\ z[b] = (-1) * k2[b]
  <2> SUFFICES ASSUME NEW b \in Corners PROVE z[b] \in Int /\ z[b] = (-1) * k2[b]
    OBVIOUS
  <2>1. PICK y \in Int : y = k2[b]
    BY <1>2
  <2>2. z[b] = (-1) * k2[b]
    OBVIOUS
  <2>3. (-1) * y \in Int
    OBVIOUS
  <2> HIDE DEF k2, z
  <2> QED BY <2>1, <2>2, <2>3
<1>6. PlacedAlong(p, TRUE, a) = SumFunctionOnSet(e1, Corners) /\ PlacedAlong(p, FALSE, a) = SumFunctionOnSet(e2, Corners)
  BY PlacedAlongIs
<1>7. ShapeOfCorner(p, a) = SumFunctionOnSet(s, Corners)
  BY DEF ShapeOfCorner
<1> HIDE DEF w, n, k1, k2, e1, e2, s, z
<1>8. SumFunctionOnSet(k1, Corners) = SumFunctionOnSet(e1, Corners)
  BY <1>2, <1>3, SumSame
<1>9. SumFunctionOnSet(z, Corners) = (-1) * SumFunctionOnSet(k2, Corners)
  BY <1>2, <1>3, <1>4, <1>5, SumTimes
<1>10. SumFunctionOnSet(e2, Corners) = SumFunctionOnSet(z, Corners) + ResidualGap * SumFunctionOnSet(s, Corners)
  <2>1. \A b \in Corners : z[b] \in Int /\ s[b] \in Int /\ e2[b] = z[b] + ResidualGap * s[b]
    BY <1>2, <1>5
  <2> QED BY <1>3, <1>4, <2>1, SumLinear
<1>11. SumFunctionOnSet(e1, Corners) \in Int /\ SumFunctionOnSet(e2, Corners) \in Int /\ SumFunctionOnSet(k2, Corners) \in Int /\ SumFunctionOnSet(s, Corners) \in Int
  <2>1. \A b \in Corners : e1[b] \in Int
    BY <1>2
  <2>2. \A b \in Corners : e2[b] \in Int
    BY <1>2
  <2>3. \A b \in Corners : k2[b] \in Int
    BY <1>2
  <2>4. \A b \in Corners : s[b] \in Int
    BY <1>2
  <2> QED BY <1>3, <2>1, <2>2, <2>3, <2>4, SumInt
<1>12. PICK x \in Int, y \in Int, r \in Int :
         x = SumFunctionOnSet(e1, Corners) /\ y = SumFunctionOnSet(k2, Corners) /\ r = ResidualGap * SumFunctionOnSet(s, Corners)
  BY <1>4, <1>11
<1>13. x + ((-1) * y + r) = (x - y) + r
  OBVIOUS
<1> QED BY <1>1, <1>6, <1>7, <1>8, <1>9, <1>10, <1>11, <1>12, <1>13 DEF w

\* The same in all three dimensions.
PartTimes(p, mortar, j) ==
  [n \in AllNodes |-> JguPart(p, mortar, j, n, 1) * Position[n][1] + JguPart(p, mortar, j, n, 2) * Position[n][2]
                      + JguPart(p, mortar, j, n, 3) * Position[n][3]]

\* Over all nodes, the rows that one face adds are what its corners give in all three.
LEMMA GapRowsOfFace ==
  ASSUME NEW p \in AllPairs, NEW mortar \in BOOLEAN, NEW j \in NonmortarNodes
  PROVE  /\ SumFunctionOnSet(PartTimes(p, mortar, j), AllNodes)
              = SumFunctionOnSet([a \in Corners |-> PlacedAlong(p, mortar, a)], CornersAt(Faces2[p.face2], j))
         /\ \A n \in AllNodes : PartTimes(p, mortar, j)[n] \in Int
<1> DEFINE C == CornersAt(Faces2[p.face2], j)
           h(d) == [n \in AllNodes |-> JguPart(p, mortar, j, n, d) * Position[n][d]]
           g(d) == [a \in Corners |-> PlacedSum(p, mortar, a, d)]
           t == PartTimes(p, mortar, j)
           s == [a \in Corners |-> PlacedAlong(p, mortar, a)]
<1>1. 1 \in 1 .. 3 /\ 2 \in 1 .. 3 /\ 3 \in 1 .. 3
  OBVIOUS
<1>2. ASSUME NEW n \in AllNodes PROVE h(1)[n] \in Int /\ h(2)[n] \in Int /\ h(3)[n] \in Int /\ t[n] = h(1)[n] + h(2)[n] + h(3)[n]
  <2>1. ASSUME NEW d \in 1 .. 3 PROVE h(d)[n] \in Int
    <3>1. PICK x \in Int, y \in Int : x = JguPart(p, mortar, j, n, d) /\ y = Position[n][d]
      BY GapRowOfFace, MortarAssumption DEF MortarAssumption
    <3>2. x * y \in Int
      OBVIOUS
    <3> QED BY <3>1, <3>2
  <2>2. t[n] = h(1)[n] + h(2)[n] + h(3)[n]
    BY DEF PartTimes
  <2> HIDE DEF h, t
  <2> QED BY <1>1, <2>1, <2>2
<1>3. ASSUME NEW a \in C PROVE g(1)[a] \in Int /\ g(2)[a] \in Int /\ g(3)[a] \in Int /\ s[a] = g(1)[a] + g(2)[a] + g(3)[a]
  <2>1. a \in Corners
    BY CornersAtFinite
  <2>2. \A d \in 1 .. 3 : PlacedSum(p, mortar, a, d) \in Int
    BY <2>1, PlacedFine
  <2>3. \A d \in 1 .. 3 : g(d)[a] = PlacedSum(p, mortar, a, d)
    BY <2>1
  <2>4. s[a] = PlacedAlong(p, mortar, a)
    BY <2>1
  <2> HIDE DEF g, s
  <2> QED BY <1>1, <2>2, <2>3, <2>4 DEF PlacedAlong
<1>4. IsFiniteSet(C) /\ IsFiniteSet(AllNodes)
  BY CornersAtFinite, CornersFinite
<1>5. ASSUME NEW d \in 1 .. 3 PROVE SumFunctionOnSet(h(d), AllNodes) = SumFunctionOnSet(g(d), C)
  BY GapRowOfFace
<1>6. PICK h1, h2, h3, g1, g2, g3 : h1 = h(1) /\ h2 = h(2) /\ h3 = h(3) /\ g1 = g(1) /\ g2 = g(2) /\ g3 = g(3)
  OBVIOUS
<1> HIDE DEF h, g, t, s, C
<1>7. SumFunctionOnSet(t, AllNodes) = SumFunctionOnSet(h1, AllNodes) + SumFunctionOnSet(h2, AllNodes) + SumFunctionOnSet(h3, AllNodes)
  <2>1. \A n \in AllNodes : h1[n] \in Int /\ h2[n] \in Int /\ h3[n] \in Int /\ t[n] = h1[n] + h2[n] + h3[n]
    BY <1>2, <1>6
  <2> QED BY <1>4, <2>1, SumThree
<1>8. SumFunctionOnSet(s, C) = SumFunctionOnSet(g1, C) + SumFunctionOnSet(g2, C) + SumFunctionOnSet(g3, C)
  <2>1. \A a \in C : g1[a] \in Int /\ g2[a] \in Int /\ g3[a] \in Int /\ s[a] = g1[a] + g2[a] + g3[a]
    BY <1>3, <1>6
  <2> QED BY <1>4, <2>1, SumThree
<1>9. SumFunctionOnSet(t, AllNodes) = SumFunctionOnSet(s, C)
  BY <1>1, <1>5, <1>6, <1>7, <1>8
<1>10. \A n \in AllNodes : t[n] \in Int
  BY <1>2
<1> QED BY <1>9, <1>10 DEF t, s, C

\* A row of the matrix of one pair, times the coordinates, is the gap of the pair and the residual gap.
PairShape(p, j) == SumFunctionOnSet([a \in Corners |-> ShapeOfCorner(p, a)], CornersAt(Faces2[p.face2], j))
RowTimes(p, j) ==
  [n \in AllNodes |-> JguEntry(p, j, n, 1) * Position[n][1] + JguEntry(p, j, n, 2) * Position[n][2]
                      + JguEntry(p, j, n, 3) * Position[n][3]]

\* Over all nodes, the products are the gap of the pair and the residual gap times the integrals of the shapes.
LEMMA GapRowOfPair ==
  ASSUME NEW p \in AllPairs, NEW j \in NonmortarNodes
  PROVE  /\ SumFunctionOnSet(RowTimes(p, j), AllNodes) = PairGap(p, j) + ResidualGap * PairShape(p, j)
         /\ PairShape(p, j) \in Int
         /\ \A n \in AllNodes : RowTimes(p, j)[n] \in Int /\ \A d \in 1 .. 3 : JguEntry(p, j, n, d) \in Int
<1> DEFINE C == CornersAt(Faces2[p.face2], j)
           t == RowTimes(p, j)
           t1 == PartTimes(p, TRUE, j)
           t2 == PartTimes(p, FALSE, j)
           s1 == [a \in Corners |-> PlacedAlong(p, TRUE, a)]
           s2 == [a \in Corners |-> PlacedAlong(p, FALSE, a)]
           u == [a \in Corners |-> PlacedAlong(p, TRUE, a) + PlacedAlong(p, FALSE, a)]
           g == [a \in Corners |-> GapOfCorner(p, MortarWeights[p], a)]
           k == [a \in Corners |-> ShapeOfCorner(p, a)]
<1>1. IsFiniteSet(C) /\ C \subseteq Corners /\ IsFiniteSet(AllNodes)
  BY CornersAtFinite, CornersFinite
<1>2. ASSUME NEW n \in AllNodes, NEW d \in 1 .. 3
      PROVE  JguPart(p, TRUE, j, n, d) \in Int /\ JguPart(p, FALSE, j, n, d) \in Int /\ Position[n][d] \in Int /\ JguEntry(p, j, n, d) \in Int
  <2>1. PICK x \in Int, y \in Int : x = JguPart(p, TRUE, j, n, d) /\ y = JguPart(p, FALSE, j, n, d)
    BY GapRowOfFace
  <2>2. x + y \in Int
    OBVIOUS
  <2> QED BY <2>1, <2>2, MortarAssumption DEF MortarAssumption, JguEntry
<1>3. ASSUME NEW n \in AllNodes PROVE t1[n] \in Int /\ t2[n] \in Int /\ t[n] = t1[n] + t2[n]
  <2>1. t1[n] \in Int /\ t2[n] \in Int
    BY GapRowsOfFace
  <2>2. PICK x1 \in Int, x2 \in Int, x3 \in Int, a1 \in Int, a2 \in Int, a3 \in Int, b1 \in Int, b2 \in Int, b3 \in Int :
          /\ x1 = Position[n][1] /\ x2 = Position[n][2] /\ x3 = Position[n][3]
          /\ a1 = JguPart(p, TRUE, j, n, 1) /\ a2 = JguPart(p, TRUE, j, n, 2) /\ a3 = JguPart(p, TRUE, j, n, 3)
          /\ b1 = JguPart(p, FALSE, j, n, 1) /\ b2 = JguPart(p, FALSE, j, n, 2) /\ b3 = JguPart(p, FALSE, j, n, 3)
    <3>1. 1 \in 1 .. 3 /\ 2 \in 1 .. 3 /\ 3 \in 1 .. 3
      OBVIOUS
    <3>2. Position[n][1] \in Int /\ Position[n][2] \in Int /\ Position[n][3] \in Int
      BY <1>2, <3>1
    <3>3. JguPart(p, TRUE, j, n, 1) \in Int /\ JguPart(p, TRUE, j, n, 2) \in Int /\ JguPart(p, TRUE, j, n, 3) \in Int
      BY <1>2, <3>1
    <3>4. JguPart(p, FALSE, j, n, 1) \in Int /\ JguPart(p, FALSE, j, n, 2) \in Int /\ JguPart(p, FALSE, j, n, 3) \in Int
      BY <1>2, <3>1
    <3> HIDE DEF t, t1, t2
    <3> QED BY <3>2, <3>3, <3>4
  <2>3. t1[n] = a1 * x1 + a2 * x2 + a3 * x3 /\ t2[n] = b1 * x1 + b2 * x2 + b3 * x3
    BY <2>2 DEF PartTimes
  <2>4. t[n] = (a1 + b1) * x1 + (a2 + b2) * x2 + (a3 + b3) * x3
    BY <2>2 DEF RowTimes, JguEntry
  <2>5. (a1 + b1) * x1 + (a2 + b2) * x2 + (a3 + b3) * x3 = (a1 * x1 + a2 * x2 + a3 * x3) + (b1 * x1 + b2 * x2 + b3 * x3)
    OBVIOUS
  <2> HIDE DEF t, t1, t2
  <2> QED BY <2>1, <2>3, <2>4, <2>5
<1>4. ASSUME NEW a \in C
      PROVE  /\ s1[a] \in Int /\ s2[a] \in Int /\ u[a] = s1[a] + s2[a]
             /\ g[a] \in Int /\ k[a] \in Int /\ u[a] = g[a] + ResidualGap * k[a]
  <2>1. a \in Corners /\ j = NodeOf(Faces2[p.face2], a)
    BY DEF CornersAt
  <2>2. GapOfCorner(p, MortarWeights[p], a) \in Int /\ ShapeOfCorner(p, a) \in Int
    BY <2>1, GapOfCornerIs, ShapeOfCornerFine
  <2>3. PlacedAlong(p, TRUE, a) \in Int /\ PlacedAlong(p, FALSE, a) \in Int
    BY <2>1, CornerGapIs
  <2>4. PlacedAlong(p, TRUE, a) + PlacedAlong(p, FALSE, a) = GapOfCorner(p, MortarWeights[p], a) + ResidualGap * ShapeOfCorner(p, a)
    BY <2>1, CornerGapIs
  <2>5. /\ s1[a] = PlacedAlong(p, TRUE, a) /\ s2[a] = PlacedAlong(p, FALSE, a)
        /\ u[a] = PlacedAlong(p, TRUE, a) + PlacedAlong(p, FALSE, a)
        /\ g[a] = GapOfCorner(p, MortarWeights[p], a) /\ k[a] = ShapeOfCorner(p, a)
    BY <2>1
  <2> HIDE DEF s1, s2, u, g, k
  <2> QED BY <2>2, <2>3, <2>4, <2>5
<1>5. /\ SumFunctionOnSet(t1, AllNodes) = SumFunctionOnSet(s1, C)
      /\ SumFunctionOnSet(t2, AllNodes) = SumFunctionOnSet(s2, C)
  BY GapRowsOfFace
<1>6. SumFunctionOnSet(g, C) = PairGap(p, j)
  BY PairGapIs
<1>7. PairShape(p, j) = SumFunctionOnSet(k, C)
  BY DEF PairShape
<1>8. ResidualGap \in Int
  BY MortarAssumption DEF MortarAssumption
<1> HIDE DEF C, t, t1, t2, s1, s2, u, g, k
<1>9. SumFunctionOnSet(t, AllNodes) = SumFunctionOnSet(t1, AllNodes) + SumFunctionOnSet(t2, AllNodes)
  BY <1>1, <1>3, SumPlus
<1>10. SumFunctionOnSet(u, C) = SumFunctionOnSet(s1, C) + SumFunctionOnSet(s2, C)
  BY <1>1, <1>4, SumPlus
<1>11. SumFunctionOnSet(u, C) = SumFunctionOnSet(g, C) + ResidualGap * SumFunctionOnSet(k, C)
  BY <1>1, <1>4, <1>8, SumLinear
<1>12. PairShape(p, j) \in Int
  BY <1>1, <1>4, <1>7, SumInt
<1>13. \A n \in AllNodes : t[n] \in Int
  BY <1>3
<1>14. SumFunctionOnSet(t, AllNodes) = PairGap(p, j) + ResidualGap * PairShape(p, j)
  BY <1>5, <1>6, <1>7, <1>9, <1>10, <1>11
<1> QED BY <1>2, <1>12, <1>13, <1>14 DEF t

\* What assembling a pair adds at a place, face by face.
JrpAt(p, i, r, c) ==
  SumFunctionOnSet(
    [a \in Corners |->
       SumFunctionOnSet([b \in Corners |-> BlockJ("single", p)[i][3][ElemXDof("Jrp", <<a, b, r % Dim>>)]],
                        CornersAt(Faces2[p.face2], c - presOffset))],
    CornersAt(FaceOf(p, i = 1), r \div Dim))
JguAt(p, i, r, c) ==
  SumFunctionOnSet(
    [a \in Corners |->
       SumFunctionOnSet([b \in Corners |-> BlockJ("single", p)[3][i][ElemXDof("Jgu", <<a, b, c % Dim>>)]],
                        CornersAt(FaceOf(p, i = 1), c \div Dim))],
    CornersAt(Faces2[p.face2], r - presOffset))
DofPlaces(p) == {Dim * n + d : n \in NodesOf(p), d \in Dims}
PressurePlaces(p) == {presOffset + n : n \in Range(Faces2[p.face2])}
JacobianOf(p) ==
  [at \in (DofPlaces(p) \X PressurePlaces(p)) \cup (PressurePlaces(p) \X DofPlaces(p)) |->
     IF at[1] < presOffset THEN JrpAt(p, 1, at[1], at[2]) + JrpAt(p, 2, at[1], at[2])
                           ELSE JguAt(p, 1, at[1], at[2]) + JguAt(p, 2, at[1], at[2])]

\* That is what is assembled.
LEMMA AssembledIs == ASSUME NEW p PROVE assembleJacobian(p, BlockJ("single", p)) = Added(JacobianOf(p))
<1> DEFINE J == BlockJ("single", p)
           face == <<Faces1[p.face1], Faces2[p.face2]>>
           Jrp(i, r, c) ==
             SumFunctionOnSet(
               [a \in Corners |-> SumFunctionOnSet([b \in Corners |-> J[i][Third][ElemXDof("Jrp", <<a, b, r % Dim>>)]],
                                                   CornersAt(face[2], c - presOffset))],
               CornersAt(face[i], r \div Dim))
           Jgu(i, r, c) ==
             SumFunctionOnSet(
               [a \in Corners |-> SumFunctionOnSet([b \in Corners |-> J[Third][i][ElemXDof("Jgu", <<a, b, c % Dim>>)]],
                                                   CornersAt(face[i], c \div Dim))],
               CornersAt(face[2], r - presOffset))
<1>1. assembleJacobian(p, J)
        = Added([at \in (DofPlaces(p) \X PressurePlaces(p)) \cup (PressurePlaces(p) \X DofPlaces(p)) |->
                   IF at[1] < presOffset THEN Jrp(1, at[1], at[2]) + Jrp(2, at[1], at[2])
                                         ELSE Jgu(1, at[1], at[2]) + Jgu(2, at[1], at[2])])
  BY DEF assembleJacobian, DofPlaces, PressurePlaces
<1>2. face[1] = FaceOf(p, 1 = 1) /\ face[2] = FaceOf(p, 2 = 1) /\ face[2] = Faces2[p.face2] /\ Third = 3
  BY DEF FaceOf, Third
<1> HIDE DEF face
<1>3. ASSUME NEW r, NEW c
      PROVE  Jrp(1, r, c) = JrpAt(p, 1, r, c) /\ Jrp(2, r, c) = JrpAt(p, 2, r, c)
  BY <1>2 DEF JrpAt
<1>4. ASSUME NEW r, NEW c
      PROVE  Jgu(1, r, c) = JguAt(p, 1, r, c) /\ Jgu(2, r, c) = JguAt(p, 2, r, c)
  BY <1>2 DEF JguAt
<1> HIDE DEF Jrp, Jgu
<1> QED BY <1>1, <1>3, <1>4 DEF JacobianOf

\* Rows and columns of the displacements are below those of the pressures.
LEMMA PlaceOf ==
  ASSUME NEW n \in AllNodes, NEW d \in 1 .. 3, NEW j \in AllNodes
  PROVE  /\ Dim * n + d - 1 \in Nat /\ presOffset + j \in Nat /\ Dim * n + d - 1 < presOffset /\ ~(presOffset + j < presOffset)
         /\ (Dim * n + d - 1) \div Dim = n /\ (Dim * n + d - 1) % Dim = d - 1 /\ (presOffset + j) - presOffset = j
         /\ d - 1 \in Dims
<1>1. PICK N \in Nat : N = NumTotalNodes /\ n \in 0 .. (N - 1) /\ j \in 0 .. (N - 1)
  BY MortarAssumption DEF MortarAssumption, AllNodes
<1>2. presOffset = 3 * N /\ Dim = 3 /\ Dims = 0 .. 2
  BY <1>1 DEF presOffset, Dim, Dims
<1>3. (3 * n + (d - 1)) \div 3 = n /\ (3 * n + (d - 1)) % 3 = d - 1 /\ 3 * n + d - 1 = 3 * n + (d - 1)
  BY <1>1
<1> QED BY <1>1, <1>2, <1>3

\* It is the entry of the pair.
LEMMA PartAt ==
  ASSUME NEW p \in AllPairs, NEW n \in AllNodes, NEW d \in 1 .. 3, NEW j \in NonmortarNodes
  PROVE  LET r == Dim * n + d - 1
             c == presOffset + j
         IN  /\ JrpAt(p, 1, r, c) + JrpAt(p, 2, r, c) = JrpEntry(p, n, d, j)
             /\ JguAt(p, 1, c, r) + JguAt(p, 2, c, r) = JguEntry(p, j, n, d)
<1> DEFINE r == Dim * n + d - 1
           c == presOffset + j
<1>1. j \in AllNodes
  BY NonmortarFinite
<1>2. r \div Dim = n /\ r % Dim = d - 1 /\ c - presOffset = j /\ d - 1 \in Dims /\ (d - 1) + 1 = d
  BY <1>1, PlaceOf
<1> HIDE DEF r, c
<1>3. PosOf("single", TRUE) = 1 /\ PosOf("single", FALSE) = 2 /\ (1 = 1) = TRUE /\ (2 = 1) = FALSE
  BY DEF PosOf
<1>4. ASSUME NEW mortar \in BOOLEAN, NEW i, i = PosOf("single", mortar), (i = 1) = mortar
      PROVE  JrpAt(p, i, r, c) = JrpPart(p, mortar, n, d, j) /\ JguAt(p, i, c, r) = JguPart(p, mortar, j, n, d)
  <2>1. ASSUME NEW a \in Corners, NEW b \in Corners
        PROVE  /\ BlockJ("single", p)[i][3][ElemXDof("Jrp", <<a, b, r % Dim>>)] = JrpVal("single", p, mortar, a, b, d)
               /\ BlockJ("single", p)[3][i][ElemXDof("Jgu", <<a, b, r % Dim>>)] = JguVal(p, mortar, a, b, d)
    <3>1. PICK e \in Dims : e = d - 1 /\ e + 1 = d /\ r % Dim = e
      BY <1>2
    <3>2. "single" \in {"single", "enzyme"}
      OBVIOUS
    <3>3. BlockJ("single", p)[PosOf("single", mortar)][3][ElemXDof("Jrp", <<a, b, e>>)] = JrpVal("single", p, mortar, a, b, e + 1)
      BY <3>2, ForceBlockAt
    <3>4. BlockJ("single", p)[3][PosOf("single", mortar)][ElemXDof("Jgu", <<a, b, e>>)] = JguVal(p, mortar, a, b, e + 1)
      BY GapBlockAt
    <3> QED BY <1>4, <3>1, <3>3, <3>4
  <2>2. ASSUME NEW a \in Corners
        PROVE  [b \in Corners |-> BlockJ("single", p)[i][3][ElemXDof("Jrp", <<a, b, r % Dim>>)]] = JrpRow("single", p, mortar, a, d)
    BY <2>1 DEF JrpRow
  <2>3. ASSUME NEW a \in Corners
        PROVE  [b \in Corners |-> BlockJ("single", p)[3][i][ElemXDof("Jgu", <<a, b, r % Dim>>)]] = JguRow(p, mortar, a, d)
    BY <2>1 DEF JguRow
  <2>4. JrpAt(p, i, r, c) = JrpPart(p, mortar, n, d, j)
    BY <1>2, <1>4, <2>2 DEF JrpAt, JrpPart
  <2>5. JguAt(p, i, c, r) = JguPart(p, mortar, j, n, d)
    BY <1>2, <1>4, <2>3 DEF JguAt, JguPart
  <2> QED BY <2>4, <2>5
<1>5. JrpAt(p, 1, r, c) = JrpPart(p, TRUE, n, d, j) /\ JguAt(p, 1, c, r) = JguPart(p, TRUE, j, n, d)
  BY <1>3, <1>4
<1>6. JrpAt(p, 2, r, c) = JrpPart(p, FALSE, n, d, j) /\ JguAt(p, 2, c, r) = JguPart(p, FALSE, j, n, d)
  BY <1>3, <1>4
<1>7. /\ JrpAt(p, 1, r, c) + JrpAt(p, 2, r, c) = JrpEntry(p, n, d, j)
      /\ JguAt(p, 1, c, r) + JguAt(p, 2, c, r) = JguEntry(p, j, n, d)
  BY <1>5, <1>6 DEF JrpEntry, JguEntry
<1> QED BY <1>7 DEF r, c

\* Where a pair has no node it has no entry.
LEMMA NoPartAt ==
  ASSUME NEW p \in AllPairs, NEW n \in AllNodes, NEW d \in 1 .. 3, NEW j \in NonmortarNodes,
         n \notin NodesOf(p) \/ j \notin Range(Faces2[p.face2])
  PROVE  JrpEntry(p, n, d, j) = 0 /\ JguEntry(p, j, n, d) = 0
<1>1. IsFace(Faces1[p.face1]) /\ IsFace(Faces2[p.face2])
  BY PairFacts, MortarAssumption DEF MortarAssumption
<1>2. ASSUME NEW mortar \in BOOLEAN PROVE JrpPart(p, mortar, n, d, j) = 0 /\ JguPart(p, mortar, j, n, d) = 0
  <2> DEFINE C == CornersAt(FaceOf(p, mortar), n)
             D == CornersAt(Faces2[p.face2], j)
             f == [a \in Corners |-> SumFunctionOnSet(JrpRow("single", p, mortar, a, d), D)]
             g == [a \in Corners |-> SumFunctionOnSet(JguRow(p, mortar, a, d), C)]
  <2>1. JrpPart(p, mortar, n, d, j) = SumFunctionOnSet(f, C) /\ JguPart(p, mortar, j, n, d) = SumFunctionOnSet(g, D)
    BY DEF JrpPart, JguPart
  <2>2. C = {} \/ D = {}
    <3>1. CASE n \notin NodesOf(p)
      <4>1. IsFace(FaceOf(p, mortar)) /\ n \notin Range(FaceOf(p, mortar))
        BY <1>1, <3>1 DEF NodesOf, FaceOf
      <4> QED BY <4>1, NoCornerAt
    <3>2. CASE j \notin Range(Faces2[p.face2])
      BY <1>1, <3>2, NoCornerAt
    <3> QED BY <3>1, <3>2
  <2>3. IsFiniteSet(C) /\ IsFiniteSet(D) /\ C \subseteq Corners /\ D \subseteq Corners
    BY CornersAtFinite
  <2>4. CASE C = {}
    <3>1. \A a \in D : g[a] = 0
      BY <2>3, <2>4, SumEmpty
    <3> HIDE DEF f, g, C, D
    <3> QED BY <2>1, <2>3, <2>4, <3>1, SumEmpty, SumZero
  <2>5. CASE D = {}
    <3>1. \A a \in C : f[a] = 0
      BY <2>3, <2>5, SumEmpty
    <3> HIDE DEF f, g, C, D
    <3> QED BY <2>1, <2>3, <2>5, <3>1, SumEmpty, SumZero
  <2> HIDE DEF C, D
  <2> QED BY <2>2, <2>4, <2>5
<1>3. /\ JrpPart(p, TRUE, n, d, j) = 0 /\ JguPart(p, TRUE, j, n, d) = 0
      /\ JrpPart(p, FALSE, n, d, j) = 0 /\ JguPart(p, FALSE, j, n, d) = 0
  BY <1>2
<1>4. 0 + 0 = 0
  OBVIOUS
<1>5. JrpEntry(p, n, d, j) = JrpPart(p, TRUE, n, d, j) + JrpPart(p, FALSE, n, d, j)
  BY DEF JrpEntry
<1>6. JguEntry(p, j, n, d) = JguPart(p, TRUE, j, n, d) + JguPart(p, FALSE, j, n, d)
  BY DEF JguEntry
<1>7. JrpEntry(p, n, d, j) = 0
  BY <1>3, <1>4, <1>5, Zenon
<1>8. JguEntry(p, j, n, d) = 0
  BY <1>3, <1>4, <1>6, Zenon
<1> QED BY <1>7, <1>8

\* A pair adds its entries to the matrix.
LEMMA PairAssembled ==
  ASSUME NEW p \in AllPairs, "entries" \in DOMAIN smat, smat' = assembleJacobian(p, BlockJ("single", p)),
         NEW n \in AllNodes, NEW d \in 1 .. 3, NEW j \in NonmortarNodes,
         EntryAt(Dim * n + d - 1, presOffset + j) \in Int, EntryAt(presOffset + j, Dim * n + d - 1) \in Int
  PROVE  /\ EntryAt(Dim * n + d - 1, presOffset + j)' = EntryAt(Dim * n + d - 1, presOffset + j) + JrpEntry(p, n, d, j)
         /\ EntryAt(presOffset + j, Dim * n + d - 1)' = EntryAt(presOffset + j, Dim * n + d - 1) + JguEntry(p, j, n, d)
         /\ "entries" \in DOMAIN smat'
<1>1. j \in AllNodes
  BY NonmortarFinite
<1>2. PICK r, c : r = Dim * n + d - 1 /\ c = presOffset + j
  OBVIOUS
<1>3. r < presOffset /\ ~(c < presOffset)
  BY <1>1, <1>2, PlaceOf
<1>4. PICK val : val = JacobianOf(p)
  OBVIOUS
<1>5. smat' = Added(val)
  BY <1>4, AssembledIs
<1>6. JrpEntry(p, n, d, j) \in Int /\ JguEntry(p, j, n, d) \in Int
  BY ForceRowOfPair, GapRowOfPair
<1>7. /\ JrpAt(p, 1, r, c) + JrpAt(p, 2, r, c) = JrpEntry(p, n, d, j)
      /\ JguAt(p, 1, c, r) + JguAt(p, 2, c, r) = JguEntry(p, j, n, d)
  BY <1>2, PartAt
<1>8. /\ <<r, c>> \in DOMAIN val => val[<<r, c>>] = JrpEntry(p, n, d, j)
      /\ <<c, r>> \in DOMAIN val => val[<<c, r>>] = JguEntry(p, j, n, d)
  BY <1>3, <1>4, <1>7 DEF JacobianOf
<1>9. ASSUME n \in NodesOf(p), j \in Range(Faces2[p.face2]) PROVE <<r, c>> \in DOMAIN val /\ <<c, r>> \in DOMAIN val
  <2>1. d - 1 \in Dims /\ r = Dim * n + (d - 1)
    <3>1. d - 1 \in Dims
      BY <1>1, PlaceOf
    <3>2. PICK x \in Int : x = Dim * n
      BY DEF Dim, AllNodes
    <3>3. x + d - 1 = x + (d - 1)
      OBVIOUS
    <3> QED BY <1>2, <3>1, <3>2, <3>3
  <2>2. r \in DofPlaces(p) /\ c \in PressurePlaces(p)
    BY <1>2, <1>9, <2>1 DEF DofPlaces, PressurePlaces
  <2> QED BY <1>4, <2>2 DEF JacobianOf
<1>10. (<<r, c>> \notin DOMAIN val \/ <<c, r>> \notin DOMAIN val) => JrpEntry(p, n, d, j) = 0 /\ JguEntry(p, j, n, d) = 0
  BY <1>9, NoPartAt
<1>11. EntryAt(r, c)' = EntryAt(r, c) + JrpEntry(p, n, d, j) /\ "entries" \in DOMAIN smat'
  <2>1. EntryAt(r, c) \in Int
    BY <1>2
  <2>2. <<r, c>> \notin DOMAIN val => JrpEntry(p, n, d, j) = 0
    BY <1>10
  <2> QED BY <1>5, <1>6, <1>8, <2>1, <2>2, AddedAt
<1>12. EntryAt(c, r)' = EntryAt(c, r) + JguEntry(p, j, n, d)
  <2>1. EntryAt(c, r) \in Int
    BY <1>2
  <2>2. <<c, r>> \notin DOMAIN val => JguEntry(p, j, n, d) = 0
    BY <1>10
  <2> QED BY <1>5, <1>6, <1>8, <2>1, <2>2, AddedAt
<1> QED BY <1>2, <1>11, <1>12

-----------------------------------------------------------------------------
(* The inductive invariant of the Jacobian. *)

\* What the first pairs of a list give to the force on a node and to the entries of the Jacobian.
ForceTerms(list, m, n, d) == [i \in DOMAIN list |-> PairForce(m, list[i], n, d)]
JrpTerms(list, n, d, j) == [i \in DOMAIN list |-> JrpEntry(list[i], n, d, j)]
JguTerms(list, j, n, d) == [i \in DOMAIN list |-> JguEntry(list[i], j, n, d)]
ForceUpTo(list, m, k, n) == [d \in 1 .. 3 |-> SumFunctionOnSet(ForceTerms(list, m, n, d), 1 .. k)]
ResponsesAre(k) == \A n \in AllNodes : response[n] = ForceUpTo(pairs, method, k, n)
MatrixIs(k) ==
  /\ "entries" \in DOMAIN smat
  /\ \A n \in AllNodes : \A d \in 1 .. 3 : \A j \in NonmortarNodes :
       /\ EntryAt(Dim * n + d - 1, presOffset + j) = SumFunctionOnSet(JrpTerms(pairs, n, d, j), 1 .. k)
       /\ EntryAt(presOffset + j, Dim * n + d - 1) = SumFunctionOnSet(JguTerms(pairs, j, n, d), 1 .. k)

\* Forces of pairs are integers.
LEMMA ForceTermsFine ==
  ASSUME NEW list \in Seq(AllPairs), NEW m \in {"single", "enzyme"}, NEW n \in AllNodes, NEW d \in 1 .. 3
  PROVE  \A i \in DOMAIN list : ForceTerms(list, m, n, d)[i] = PairForce(m, list[i], n, d) /\ ForceTerms(list, m, n, d)[i] \in Int
<1>1. \A i \in DOMAIN list : list[i] \in AllPairs
  OBVIOUS
<1> QED BY <1>1, PairForceIs DEF ForceTerms

\* So are the entries of pairs.
LEMMA JacTermsFine ==
  ASSUME NEW list \in Seq(AllPairs), NEW n \in AllNodes, NEW d \in 1 .. 3, NEW j \in NonmortarNodes
  PROVE  /\ \A i \in DOMAIN list : JrpTerms(list, n, d, j)[i] = JrpEntry(list[i], n, d, j) /\ JrpTerms(list, n, d, j)[i] \in Int
         /\ \A i \in DOMAIN list : JguTerms(list, j, n, d)[i] = JguEntry(list[i], j, n, d) /\ JguTerms(list, j, n, d)[i] \in Int
<1>1. \A i \in DOMAIN list : list[i] \in AllPairs
  OBVIOUS
<1>2. \A i \in DOMAIN list : JrpEntry(list[i], n, d, j) \in Int
  BY <1>1, ForceRowOfPair
<1>3. \A i \in DOMAIN list : JguEntry(list[i], j, n, d) \in Int
  BY <1>1, GapRowOfPair
<1> QED BY <1>2, <1>3 DEF JrpTerms, JguTerms

\* What is computed of a pair by the method at hand.
LEMMA KernelIs ==
  ASSUME MortarIInv, NEW p \in AllPairs
  PROVE  Kernel[method][p].forces = ForcesOfPair(method, p) /\ Kernel[method][p].J = BlockJ(method, p)
<1>1. method \in Methods
  BY DEF MortarIInv
<1>2. Kernel[method][p] = [gaps |-> GapsOfPair(method, p), forces |-> ForcesOfPair(method, p), J |-> BlockJ(method, p)]
  BY <1>1 DEF Kernel
<1> QED BY <1>2

\* One more pair is in the forces.
LEMMA ResponsesGrow ==
  ASSUME MortarIInv, method \in {"single", "enzyme"}, atPair <= Len(pairs), ResponsesAre(atPair - 1),
         response' = AddForces(pairs[atPair])
  PROVE  \A n \in AllNodes : response'[n] = ForceUpTo(pairs, method, atPair, n)
<1>1. pairs \in Seq(AllPairs) /\ atPair \in Nat \ {0}
  BY DEF MortarIInv
<1>2. PICK k \in Nat \ {0} : k = atPair
  BY <1>1
<1>3. PICK p \in AllPairs : p = pairs[k]
  BY <1>1, <1>2
<1>4. 1 .. k \subseteq DOMAIN pairs /\ k \in DOMAIN pairs
  BY <1>1, <1>2
<1>5. ASSUME NEW n \in AllNodes PROVE response'[n] = ForceUpTo(pairs, method, k, n)
  <2>1. response'[n] = [d \in 1 .. 3 |-> response[n][d] + ForcesOfPair(method, p)[n][d]]
    BY <1>2, <1>3, KernelIs DEF AddForces, Plus3
  <2>2. ASSUME NEW d \in 1 .. 3
        PROVE  response[n][d] + ForcesOfPair(method, p)[n][d] = SumFunctionOnSet(ForceTerms(pairs, method, n, d), 1 .. k)
    <3>1. response[n][d] = SumFunctionOnSet(ForceTerms(pairs, method, n, d), 1 .. (k - 1))
      BY <1>2 DEF ResponsesAre, ForceUpTo
    <3>2. \A i \in 1 .. k : ForceTerms(pairs, method, n, d)[i] \in Int
      BY <1>1, <1>4, ForceTermsFine
    <3>3. ForceTerms(pairs, method, n, d)[k] = ForcesOfPair(method, p)[n][d]
      <4>1. ForceTerms(pairs, method, n, d)[k] = PairForce(method, p, n, d)
        BY <1>1, <1>3, <1>4, ForceTermsFine
      <4>2. ForcesOfPair(method, p)[n][d] = PairForce(method, p, n, d)
        BY PairForceIs
      <4> QED BY <4>1, <4>2
    <3>4. SumFunctionOnSet(ForceTerms(pairs, method, n, d), 1 .. k)
            = SumFunctionOnSet(ForceTerms(pairs, method, n, d), 1 .. (k - 1)) + ForceTerms(pairs, method, n, d)[k]
      BY <3>2, UpToNext
    <3> QED BY <3>1, <3>3, <3>4
  <2> QED BY <2>1, <2>2 DEF ForceUpTo
<1> QED BY <1>2, <1>5

\* Forces that are cleared are those of no pair.
LEMMA NoResponseYet ==
  ASSUME NEW f, f = [n \in AllNodes |-> Zero3], NEW list, NEW m
  PROVE  \A n \in AllNodes : f[n] = ForceUpTo(list, m, 0, n)
<1>1. 1 .. 0 = {}
  OBVIOUS
<1>2. ASSUME NEW n \in AllNodes PROVE f[n] = ForceUpTo(list, m, 0, n)
  <2>1. \A d \in 1 .. 3 : SumFunctionOnSet(ForceTerms(list, m, n, d), 1 .. 0) = 0
    BY <1>1, SumEmpty
  <2>2. Zero3 = [d \in 1 .. 3 |-> 0]
    BY DEF Zero3
  <2> QED BY <2>1, <2>2 DEF ForceUpTo
<1> QED BY <1>2

\* One more pair is in the matrix.
LEMMA MatrixGrows ==
  ASSUME MortarIInv, method = "single", atPair <= Len(pairs), MatrixIs(atPair - 1),
         smat' = assembleJacobian(pairs[atPair], Kernel[method][pairs[atPair]].J)
  PROVE  /\ "entries" \in DOMAIN smat'
         /\ \A n \in AllNodes : \A d \in 1 .. 3 : \A j \in NonmortarNodes :
              /\ EntryAt(Dim * n + d - 1, presOffset + j)' = SumFunctionOnSet(JrpTerms(pairs, n, d, j), 1 .. atPair)
              /\ EntryAt(presOffset + j, Dim * n + d - 1)' = SumFunctionOnSet(JguTerms(pairs, j, n, d), 1 .. atPair)
<1>1. pairs \in Seq(AllPairs) /\ atPair \in Nat \ {0}
  BY DEF MortarIInv
<1>2. PICK k \in Nat \ {0} : k = atPair
  BY <1>1
<1>3. PICK p \in AllPairs : p = pairs[k]
  BY <1>1, <1>2
<1>4. 1 .. k \subseteq DOMAIN pairs /\ k \in DOMAIN pairs
  BY <1>1, <1>2
<1>5. "entries" \in DOMAIN smat /\ smat' = assembleJacobian(p, BlockJ("single", p))
  BY <1>2, <1>3, KernelIs DEF MatrixIs
<1>6. ASSUME NEW n \in AllNodes, NEW d \in 1 .. 3, NEW j \in NonmortarNodes
      PROVE  /\ EntryAt(Dim * n + d - 1, presOffset + j)' = SumFunctionOnSet(JrpTerms(pairs, n, d, j), 1 .. k)
             /\ EntryAt(presOffset + j, Dim * n + d - 1)' = SumFunctionOnSet(JguTerms(pairs, j, n, d), 1 .. k)
  <2>1. /\ EntryAt(Dim * n + d - 1, presOffset + j) = SumFunctionOnSet(JrpTerms(pairs, n, d, j), 1 .. (k - 1))
        /\ EntryAt(presOffset + j, Dim * n + d - 1) = SumFunctionOnSet(JguTerms(pairs, j, n, d), 1 .. (k - 1))
    BY <1>2 DEF MatrixIs
  <2>2. (\A i \in 1 .. k : JrpTerms(pairs, n, d, j)[i] \in Int) /\ \A i \in 1 .. k : JguTerms(pairs, j, n, d)[i] \in Int
    BY <1>1, <1>4, JacTermsFine
  <2>3. JrpTerms(pairs, n, d, j)[k] = JrpEntry(p, n, d, j) /\ JguTerms(pairs, j, n, d)[k] = JguEntry(p, j, n, d)
    BY <1>1, <1>3, <1>4, JacTermsFine
  <2>4. /\ SumFunctionOnSet(JrpTerms(pairs, n, d, j), 1 .. k)
             = SumFunctionOnSet(JrpTerms(pairs, n, d, j), 1 .. (k - 1)) + JrpTerms(pairs, n, d, j)[k]
        /\ SumFunctionOnSet(JrpTerms(pairs, n, d, j), 1 .. (k - 1)) \in Int
    BY <2>2, UpToNext
  <2>5. /\ SumFunctionOnSet(JguTerms(pairs, j, n, d), 1 .. k)
             = SumFunctionOnSet(JguTerms(pairs, j, n, d), 1 .. (k - 1)) + JguTerms(pairs, j, n, d)[k]
        /\ SumFunctionOnSet(JguTerms(pairs, j, n, d), 1 .. (k - 1)) \in Int
    BY <2>2, UpToNext
  <2>6. /\ EntryAt(Dim * n + d - 1, presOffset + j)' = EntryAt(Dim * n + d - 1, presOffset + j) + JrpEntry(p, n, d, j)
        /\ EntryAt(presOffset + j, Dim * n + d - 1)' = EntryAt(presOffset + j, Dim * n + d - 1) + JguEntry(p, j, n, d)
    <3>1. EntryAt(Dim * n + d - 1, presOffset + j) \in Int /\ EntryAt(presOffset + j, Dim * n + d - 1) \in Int
      BY <2>1, <2>4, <2>5
    <3> QED BY <1>5, <3>1, PairAssembled
  <2> QED BY <2>1, <2>3, <2>4, <2>5, <2>6
<1>7. "entries" \in DOMAIN smat'
  BY <1>5, AssembledIs DEF Added
<1> QED BY <1>2, <1>6, <1>7

\* A matrix that is allocated has the entries of no pair.
LEMMA NoMatrixYet ==
  ASSUME NEW N, smat' = allocateMfemSparseMatrix(N), NEW list
  PROVE  /\ "entries" \in DOMAIN smat'
         /\ \A n \in AllNodes : \A d \in 1 .. 3 : \A j \in NonmortarNodes :
              /\ EntryAt(Dim * n + d - 1, presOffset + j)' = SumFunctionOnSet(JrpTerms(list, n, d, j), 1 .. 0)
              /\ EntryAt(presOffset + j, Dim * n + d - 1)' = SumFunctionOnSet(JguTerms(list, j, n, d), 1 .. 0)
<1>1. "entries" \in DOMAIN smat' /\ DOMAIN smat'.entries = {}
  BY DEF allocateMfemSparseMatrix, NoMatrix
<1>2. \A r, c : EntryAt(r, c)' = 0
  BY <1>1 DEF EntryAt
<1>3. 1 .. 0 = {}
  OBVIOUS
<1> QED BY <1>1, <1>2, <1>3, SumEmpty

\* The element matrices of the first pairs of a list, and the faces they are of.
FaceIds(list, k, mortar) == [i \in 1 .. k |-> IF mortar THEN list[i].face1 ELSE list[i].face2]
ForceBlocks(list, m, k, mortar) == [i \in 1 .. k |-> BlockJ(m, list[i])[PosOf(m, mortar)][3]]
SpacesOf(m) == IF m = "enzyme" THEN NonmortarFirst ELSE MortarFirst
HoldsBlocks(B, list, m, k) ==
  /\ {"spaces", "ids", "J"} \subseteq DOMAIN B /\ B.spaces = SpacesOf(m)
  /\ B.ids["mortar"] = FaceIds(list, k, TRUE) /\ B.ids["nonmortar"] = FaceIds(list, k, FALSE) /\ B.ids["lm"] = FaceIds(list, k, FALSE)
  /\ B.J["mortar"]["lm"] = ForceBlocks(list, m, k, TRUE) /\ B.J["nonmortar"]["lm"] = ForceBlocks(list, m, k, FALSE)
IdsOf(m, p) == IF m = "enzyme" THEN <<p.face2, p.face1, p.face2>> ELSE <<p.face1, p.face2, p.face2>>

\* Appending the next value of a sequence.
LEMMA AppendUpTo ==
  ASSUME NEW k \in Nat \ {0}, NEW f, NEW g, f = [i \in 1 .. (k - 1) |-> g[i]]
  PROVE  Append(f, g[k]) = [i \in 1 .. k |-> g[i]]
<1>1. f \in Seq({g[i] : i \in 1 .. k}) /\ Len(f) = k - 1
  OBVIOUS
<1>2. g[k] \in {g[i] : i \in 1 .. k}
  OBVIOUS
<1> QED BY <1>1, <1>2

\* A sequence of spaces that lists each of them says where it is.
LEMMA SpaceAt ==
  ASSUME NEW m
  PROVE  LET pos == Inverse(SpacesOf(m), DOMAIN SpacesOf(m), BlockSpaces)
         IN  pos["mortar"] = PosOf(m, TRUE) /\ pos["nonmortar"] = PosOf(m, FALSE) /\ pos["lm"] = 3
<1> DEFINE S == SpacesOf(m)
           pos == Inverse(S, DOMAIN S, BlockSpaces)
<1>1. DOMAIN S = 1 .. 3 /\ S[PosOf(m, TRUE)] = "mortar" /\ S[PosOf(m, FALSE)] = "nonmortar" /\ S[3] = "lm"
      /\ PosOf(m, TRUE) \in {1, 2} /\ PosOf(m, FALSE) \in {1, 2} /\ PosOf(m, TRUE) # PosOf(m, FALSE)
  BY DEF SpacesOf, NonmortarFirst, MortarFirst, PosOf
<1>2. \A i \in 1 .. 3 : i = 3 \/ i = PosOf(m, TRUE) \/ i = PosOf(m, FALSE)
  BY DEF PosOf
<1>3. \A t \in BlockSpaces : pos[t] = CHOOSE s \in DOMAIN S : t \in Range(S) => S[s] = t
  BY DEF Inverse
<1>4. "mortar" # "nonmortar" /\ "mortar" # "lm" /\ "nonmortar" # "lm"
  OBVIOUS
<1> HIDE DEF S, pos
<1>5. ASSUME NEW t \in BlockSpaces, NEW i \in 1 .. 3, S[i] = t PROVE pos[t] \in 1 .. 3 /\ S[pos[t]] = t
  <2>1. t \in Range(S)
    BY <1>1, <1>5 DEF Range
  <2> QED BY <1>1, <1>3, <1>5, <2>1
<1>6. pos["mortar"] \in 1 .. 3 /\ S[pos["mortar"]] = "mortar"
  <2>1. "mortar" \in BlockSpaces /\ PosOf(m, TRUE) \in 1 .. 3
    BY DEF BlockSpaces, PosOf
  <2> QED BY <1>1, <1>5, <2>1
<1>7. pos["nonmortar"] \in 1 .. 3 /\ S[pos["nonmortar"]] = "nonmortar"
  <2>1. "nonmortar" \in BlockSpaces /\ PosOf(m, FALSE) \in 1 .. 3
    BY DEF BlockSpaces, PosOf
  <2> QED BY <1>1, <1>5, <2>1
<1>8. pos["lm"] \in 1 .. 3 /\ S[pos["lm"]] = "lm"
  <2>1. "lm" \in BlockSpaces /\ 3 \in 1 .. 3
    BY DEF BlockSpaces
  <2> QED BY <1>1, <1>5, <2>1
<1>9. pos["mortar"] = PosOf(m, TRUE) /\ pos["nonmortar"] = PosOf(m, FALSE) /\ pos["lm"] = 3
  BY <1>1, <1>2, <1>4, <1>6, <1>7, <1>8
<1> QED BY <1>9 DEF S, pos

\* The element matrices of one more pair are stored.
LEMMA BlocksGrow ==
  ASSUME NEW list, NEW m, NEW k \in Nat \ {0}, HoldsBlocks(blocks, list, m, k - 1),
         blocks' = storeElemBlockJ(IdsOf(m, list[k]), BlockJ(m, list[k]))
  PROVE  HoldsBlocks(blocks', list, m, k)
<1> DEFINE pos == Inverse(SpacesOf(m), DOMAIN SpacesOf(m), BlockSpaces)
           p == list[k]
           ids == IdsOf(m, p)
           J == BlockJ(m, p)
<1>1. blocks.spaces = SpacesOf(m) /\ {"spaces", "ids", "J"} \subseteq DOMAIN blocks
  BY DEF HoldsBlocks
<1>2. blocks' = [blocks EXCEPT
                   !.ids = [s \in BlockSpaces |-> Append(blocks.ids[s], ids[pos[s]])],
                   !.J = [r \in BlockSpaces |-> [c \in BlockSpaces |-> Append(blocks.J[r][c], J[pos[r]][pos[c]])]]]
  BY <1>1 DEF storeElemBlockJ
<1>3. pos["mortar"] = PosOf(m, TRUE) /\ pos["nonmortar"] = PosOf(m, FALSE) /\ pos["lm"] = 3
  BY SpaceAt
<1>4. ids[PosOf(m, TRUE)] = p.face1 /\ ids[PosOf(m, FALSE)] = p.face2 /\ ids[3] = p.face2
  BY DEF IdsOf, PosOf
<1> HIDE DEF pos, ids, J
<1>5. /\ {"spaces", "ids", "J"} \subseteq DOMAIN blocks' /\ blocks'.spaces = SpacesOf(m)
      /\ blocks'.ids = [s \in BlockSpaces |-> Append(blocks.ids[s], ids[pos[s]])]
      /\ blocks'.J = [r \in BlockSpaces |-> [c \in BlockSpaces |-> Append(blocks.J[r][c], J[pos[r]][pos[c]])]]
  BY <1>1, <1>2
<1>6. "mortar" \in BlockSpaces /\ "nonmortar" \in BlockSpaces /\ "lm" \in BlockSpaces
  BY DEF BlockSpaces
<1>7. /\ blocks'.ids["mortar"] = Append(blocks.ids["mortar"], p.face1)
      /\ blocks'.ids["nonmortar"] = Append(blocks.ids["nonmortar"], p.face2)
      /\ blocks'.ids["lm"] = Append(blocks.ids["lm"], p.face2)
  <2>1. \A s \in BlockSpaces : blocks'.ids[s] = Append(blocks.ids[s], ids[pos[s]])
    BY <1>5, Zenon
  <2> QED BY <1>3, <1>4, <1>6, <2>1
<1>8. /\ blocks'.J["mortar"]["lm"] = Append(blocks.J["mortar"]["lm"], J[PosOf(m, TRUE)][3])
      /\ blocks'.J["nonmortar"]["lm"] = Append(blocks.J["nonmortar"]["lm"], J[PosOf(m, FALSE)][3])
  <2>1. ASSUME NEW r \in BlockSpaces PROVE \A c \in BlockSpaces : blocks'.J[r][c] = Append(blocks.J[r][c], J[pos[r]][pos[c]])
    <3>1. blocks'.J[r] = [c \in BlockSpaces |-> Append(blocks.J[r][c], J[pos[r]][pos[c]])]
      BY <1>5
    <3> QED BY <3>1, Zenon
  <2> QED BY <1>3, <1>6, <2>1
<1>9. ASSUME NEW mortar \in BOOLEAN
      PROVE  /\ Append(FaceIds(list, k - 1, mortar), IF mortar THEN p.face1 ELSE p.face2) = FaceIds(list, k, mortar)
             /\ Append(ForceBlocks(list, m, k - 1, mortar), J[PosOf(m, mortar)][3]) = ForceBlocks(list, m, k, mortar)
  <2> DEFINE g == [i \in 1 .. k |-> IF mortar THEN list[i].face1 ELSE list[i].face2]
             h == [i \in 1 .. k |-> BlockJ(m, list[i])[PosOf(m, mortar)][3]]
  <2>1. g[k] = (IF mortar THEN p.face1 ELSE p.face2) /\ h[k] = J[PosOf(m, mortar)][3]
    BY DEF J
  <2>2. /\ FaceIds(list, k - 1, mortar) = [i \in 1 .. (k - 1) |-> g[i]] /\ FaceIds(list, k, mortar) = [i \in 1 .. k |-> g[i]]
        /\ ForceBlocks(list, m, k - 1, mortar) = [i \in 1 .. (k - 1) |-> h[i]] /\ ForceBlocks(list, m, k, mortar) = [i \in 1 .. k |-> h[i]]
    BY DEF FaceIds, ForceBlocks
  <2> HIDE DEF g, h, p
  <2> QED BY <2>1, <2>2, AppendUpTo
<1>10. /\ Append(FaceIds(list, k - 1, TRUE), p.face1) = FaceIds(list, k, TRUE)
      /\ Append(FaceIds(list, k - 1, FALSE), p.face2) = FaceIds(list, k, FALSE)
      /\ Append(ForceBlocks(list, m, k - 1, TRUE), J[PosOf(m, TRUE)][3]) = ForceBlocks(list, m, k, TRUE)
      /\ Append(ForceBlocks(list, m, k - 1, FALSE), J[PosOf(m, FALSE)][3]) = ForceBlocks(list, m, k, FALSE)
  <2>1. (IF TRUE THEN p.face1 ELSE p.face2) = p.face1 /\ (IF FALSE THEN p.face1 ELSE p.face2) = p.face2
    OBVIOUS
  <2> QED BY <1>9, <2>1
<1> HIDE DEF p
<1> QED BY <1>5, <1>7, <1>8, <1>10 DEF HoldsBlocks

\* Room for element matrices has none of them.
LEMMA NoBlocksYet ==
  ASSUME NEW list, NEW m, blocks' = reserveBlockJ(SpacesOf(m))
  PROVE  HoldsBlocks(blocks', list, m, 0)
<1>1. /\ {"spaces", "ids", "J"} \subseteq DOMAIN blocks' /\ blocks'.spaces = SpacesOf(m)
      /\ blocks'.ids = [s \in BlockSpaces |-> <<>>] /\ blocks'.J = [r \in BlockSpaces |-> [c \in BlockSpaces |-> <<>>]]
  BY DEF reserveBlockJ, NoBlocks
<1>2. \A mortar : FaceIds(list, 0, mortar) = <<>> /\ ForceBlocks(list, m, 0, mortar) = <<>>
  <2>1. 1 .. 0 = {}
    OBVIOUS
  <2> QED BY <2>1 DEF FaceIds, ForceBlocks
<1>3. "mortar" \in BlockSpaces /\ "nonmortar" \in BlockSpaces /\ "lm" \in BlockSpaces
  BY DEF BlockSpaces
<1>4. \A s \in BlockSpaces : blocks'.ids[s] = <<>> /\ \A c \in BlockSpaces : blocks'.J[s][c] = <<>>
  BY <1>1
<1> QED BY <1>1, <1>2, <1>3, <1>4 DEF HoldsBlocks

\* Forces, a matrix and element matrices that hold the first pairs of a list.
HoldsForces(f, list, m, k) == \A n \in AllNodes : f[n] = ForceUpTo(list, m, k, n)
EntryIn(S, r, c) == IF <<r, c>> \in DOMAIN S.entries THEN S.entries[<<r, c>>] ELSE 0
HoldsEntries(S, list, k) ==
  /\ "entries" \in DOMAIN S
  /\ \A n \in AllNodes : \A d \in 1 .. 3 : \A j \in NonmortarNodes :
       /\ EntryIn(S, Dim * n + d - 1, presOffset + j) = SumFunctionOnSet(JrpTerms(list, n, d, j), 1 .. k)
       /\ EntryIn(S, presOffset + j, Dim * n + d - 1) = SumFunctionOnSet(JguTerms(list, j, n, d), 1 .. k)
HoldsJacobian(S, B, list, m, mode, k) ==
  IF m = "single" /\ mode = "list" THEN HoldsEntries(S, list, k) ELSE mode = "dense" /\ HoldsBlocks(B, list, m, k)
Holds(f, S, B, list, m, mode, k) == HoldsForces(f, list, m, k) /\ HoldsJacobian(S, B, list, m, mode, k)

\* The inductive invariant of the forces and of the Jacobian: the pairs that are in them at each step of the loop.
JacIInv ==
  /\ sparseMode \in {"list", "dense"}
  /\ method \in {"single", "enzyme"} =>
       /\ mortarStep \in {"gaps", "reserve"} => HoldsForces(response, pairs, method, 0)
       /\ mortarStep = "pairs" /\ WantsJacobian => Holds(response, smat, blocks, pairs, method, sparseMode, atPair - 1)
       /\ Ready /\ WantsJacobian => Holds(response, smat, blocks, pairs, method, sparseMode, Len(pairs))

\* They are the entries of the matrix there is.
LEMMA EntriesIn == \A r, c : EntryAt(r, c) = EntryIn(smat, r, c)
BY DEF EntryAt, EntryIn

\* And of the one after a step.
LEMMA EntriesInNext == \A r, c : EntryAt(r, c)' = EntryIn(smat', r, c)
BY DEF EntryAt, EntryIn

\* The matrix holds the pairs that were added to it.
LEMMA MatrixHolds == ASSUME NEW k PROVE HoldsEntries(smat, pairs, k) <=> MatrixIs(k)
BY EntriesIn DEF HoldsEntries, MatrixIs

\* The first state has neither forces nor a matrix.
LEMMA JacInitHolds == ASSUME MortarInit PROVE JacIInv
<1>1. mortarStep = "idle" /\ updates = 0 /\ sparseMode = "list"
  BY DEF MortarInit
<1>2. ~Ready
  BY <1>1 DEF Ready
<1> QED BY <1>1, <1>2 DEF JacIInv

\* The Jacobian of one more pair is kept where the host asked for it.
LEMMA StoreHolds ==
  ASSUME MortarIInv, method \in {"single", "enzyme"}, WantsJacobian, atPair <= Len(pairs),
         HoldsJacobian(smat, blocks, pairs, method, sparseMode, atPair - 1), StoreJacobian(pairs[atPair])
  PROVE  HoldsJacobian(smat', blocks', pairs, method, sparseMode, atPair)
<1>1. pairs \in Seq(AllPairs) /\ atPair \in Nat \ {0} /\ pairs[atPair] \in AllPairs
  BY DEF MortarIInv
<1>2. Kernel[method][pairs[atPair]].J = BlockJ(method, pairs[atPair])
  BY <1>1, KernelIs
<1>3. CASE method = "single" /\ sparseMode = "list"
  <2>1. HoldsEntries(smat, pairs, atPair - 1)
    BY <1>3 DEF HoldsJacobian
  <2>2. MatrixIs(atPair - 1)
    <3>1. PICK k : k = atPair - 1
      OBVIOUS
    <3>2. MatrixIs(k)
      BY <2>1, <3>1, MatrixHolds
    <3> QED BY <3>1, <3>2
  <2>3. smat' = assembleJacobian(pairs[atPair], Kernel[method][pairs[atPair]].J)
    BY <1>3 DEF StoreJacobian
  <2>4. /\ "entries" \in DOMAIN smat'
        /\ \A n \in AllNodes : \A d \in 1 .. 3 : \A j \in NonmortarNodes :
             /\ EntryAt(Dim * n + d - 1, presOffset + j)' = SumFunctionOnSet(JrpTerms(pairs, n, d, j), 1 .. atPair)
             /\ EntryAt(presOffset + j, Dim * n + d - 1)' = SumFunctionOnSet(JguTerms(pairs, j, n, d), 1 .. atPair)
    BY <1>3, <2>2, <2>3, MatrixGrows
  <2>5. HoldsEntries(smat', pairs, atPair)
    BY <2>4, EntriesInNext DEF HoldsEntries
  <2> QED BY <1>3, <2>5 DEF HoldsJacobian
<1>4. CASE ~(method = "single" /\ sparseMode = "list")
  <2>1. sparseMode = "dense" /\ HoldsBlocks(blocks, pairs, method, atPair - 1)
    BY <1>4 DEF HoldsJacobian
  <2>2. blocks' = storeElemBlockJ(IdsOf(method, pairs[atPair]), BlockJ(method, pairs[atPair]))
    BY <1>2, <2>1 DEF StoreJacobian, IdsOf
  <2>3. HoldsBlocks(blocks', pairs, method, atPair)
    BY <1>1, <2>1, <2>2, BlocksGrow
  <2> QED BY <1>4, <2>1, <2>3 DEF HoldsJacobian
<1> QED BY <1>3, <1>4

\* So are its forces.
LEMMA PairHolds ==
  ASSUME MortarIInv, method \in {"single", "enzyme"}, WantsJacobian, atPair <= Len(pairs),
         Holds(response, smat, blocks, pairs, method, sparseMode, atPair - 1),
         response' = AddForces(pairs[atPair]), StoreJacobian(pairs[atPair])
  PROVE  Holds(response', smat', blocks', pairs, method, sparseMode, atPair)
<1>1. HoldsJacobian(smat', blocks', pairs, method, sparseMode, atPair)
  BY StoreHolds DEF Holds
<1>2. ResponsesAre(atPair - 1)
  BY DEF Holds, HoldsForces, ResponsesAre
<1>3. \A n \in AllNodes : response'[n] = ForceUpTo(pairs, method, atPair, n)
  BY <1>2, ResponsesGrow
<1> QED BY <1>1, <1>3 DEF Holds, HoldsForces

\* Every step of the mortar methods keeps the invariant of the Jacobian.
LEMMA JacStepHolds == ASSUME MortarIInv, GapIInv, JacIInv, [MortarNext]_mortarVars PROVE JacIInv'
<1>0. /\ method \in Methods /\ pairs \in Seq(AllPairs) /\ atPair \in Nat \ {0} /\ Len(pairs) \in Nat
      /\ atPair - 1 <= Len(pairs) /\ sparseMode \in {"list", "dense"}
  BY DEF MortarIInv, GapIInv, JacIInv
<1>1. CASE BeginUpdate
  <2>1. /\ response' = [n \in AllNodes |-> Zero3] /\ mortarStep' # "pairs" /\ mortarStep' # "idle"
        /\ sparseMode' \in {"list", "dense"}
    BY <1>1 DEF BeginUpdate
  <2>2. HoldsForces(response', pairs', method', 0)
    BY <2>1, NoResponseYet DEF HoldsForces
  <2>3. ~Ready'
    BY <2>1 DEF Ready
  <2> QED BY <2>1, <2>2, <2>3 DEF JacIInv
<1>2. CASE ComputeGaps
  <2>1. /\ mortarStep = "gaps" /\ mortarStep' = "gaps" /\ response' = response /\ method' = method /\ pairs' = pairs
        /\ sparseMode' = sparseMode
    BY <1>2 DEF ComputeGaps
  <2>2. ~Ready'
    BY <2>1 DEF Ready
  <2> QED BY <2>1, <2>2 DEF JacIInv
<1>3. CASE Allocate
  <2>1. /\ mortarStep = "gaps" /\ mortarStep' = "pairs" /\ atPair' = 1 /\ response' = response /\ method' = method /\ pairs' = pairs
        /\ sparseMode' = sparseMode
        /\ method = "single" /\ sparseMode = "dense" => blocks' = reserveBlockJ(MortarFirst)
        /\ method = "single" /\ sparseMode # "dense" => smat' = allocateMfemSparseMatrix(4 * NumTotalNodes)
    BY <1>3 DEF Allocate
  <2>2. ~Ready' /\ atPair' - 1 = 0
    BY <2>1 DEF Ready
  <2>3. ASSUME method \in {"single", "enzyme"} PROVE Holds(response', smat', blocks', pairs', method', sparseMode', 0)
    <3>1. method = "single"
      BY <2>1, <2>3 DEF GapIInv
    <3>2. HoldsForces(response', pairs', method', 0)
      BY <2>1, <2>3 DEF JacIInv
    <3>3. CASE sparseMode = "dense"
      <4>1. SpacesOf(method) = MortarFirst
        BY <3>1 DEF SpacesOf
      <4>2. HoldsBlocks(blocks', pairs', method', 0)
        BY <2>1, <3>1, <3>3, <4>1, NoBlocksYet
      <4> QED BY <2>1, <3>2, <3>3, <4>2 DEF Holds, HoldsJacobian
    <3>4. CASE sparseMode = "list"
      <4>1. smat' = allocateMfemSparseMatrix(4 * NumTotalNodes)
        BY <2>1, <3>1, <3>4
      <4>2. HoldsEntries(smat', pairs', 0)
        BY <4>1, NoMatrixYet, EntriesInNext DEF HoldsEntries
      <4> QED BY <2>1, <3>1, <3>2, <3>4, <4>2 DEF Holds, HoldsJacobian
    <3> QED BY <1>0, <3>3, <3>4
  <2> QED BY <1>0, <2>1, <2>2, <2>3 DEF JacIInv
<1>4. CASE ReserveEnzyme
  <2>1. /\ mortarStep = "reserve" /\ response' = response /\ method' = method /\ pairs' = pairs /\ atPair' = atPair
        /\ sparseMode' = sparseMode /\ evalMode' = evalMode
        /\ \/ status' = 1 /\ mortarStep' = "idle"
           \/ /\ mortarStep' = "pairs" /\ ~(WantsJacobian /\ sparseMode = "list")
              /\ WantsJacobian => blocks' = reserveBlockJ(NonmortarFirst)
    BY <1>4 DEF ReserveEnzyme
  <2>2. ~Ready' /\ mortarStep' \in {"idle", "pairs"} /\ WantsJacobian' = WantsJacobian
    BY <2>1 DEF Ready, WantsJacobian
  <2>3. ASSUME method \in {"single", "enzyme"}, mortarStep' = "pairs", WantsJacobian
        PROVE  Holds(response', smat', blocks', pairs', method', sparseMode', atPair' - 1)
    <3>1. method = "enzyme" /\ atPair' - 1 = 0
      BY <2>1, <2>3 DEF GapIInv
    <3>2. HoldsForces(response', pairs', method', 0)
      BY <2>1, <2>3 DEF JacIInv
    <3>3. sparseMode = "dense" /\ blocks' = reserveBlockJ(NonmortarFirst)
      BY <1>0, <2>1, <2>3
    <3>4. SpacesOf(method) = NonmortarFirst
      BY <3>1 DEF SpacesOf
    <3>5. HoldsBlocks(blocks', pairs', method', 0)
      BY <2>1, <3>3, <3>4, NoBlocksYet
    <3> QED BY <2>1, <3>1, <3>2, <3>3, <3>5 DEF Holds, HoldsJacobian
  <2> QED BY <1>0, <2>1, <2>2, <2>3 DEF JacIInv
<1>5. ASSUME mortarStep = "pairs", mortarStep' = mortarStep, atPair <= Len(pairs), method' = method, NextPair,
             StoreJacobian(pairs[atPair]), WantsJacobian => response' = AddForces(pairs[atPair])
      PROVE  JacIInv'
  <2>1. evalMode' = evalMode /\ sparseMode' = sparseMode /\ pairs' = pairs /\ atPair' - 1 = atPair
    BY <1>0, <1>5 DEF NextPair
  <2>2. ~Ready' /\ WantsJacobian' = WantsJacobian
    BY <1>5, <2>1 DEF Ready, WantsJacobian
  <2>3. ASSUME method \in {"single", "enzyme"}, WantsJacobian
        PROVE  Holds(response', smat', blocks', pairs, method, sparseMode, atPair)
    <3>1. Holds(response, smat, blocks, pairs, method, sparseMode, atPair - 1)
      BY <1>5, <2>3 DEF JacIInv
    <3> QED BY <1>5, <2>3, <3>1, PairHolds
  <2> QED BY <1>0, <1>5, <2>1, <2>2, <2>3 DEF JacIInv
<1>6. CASE ApplyPair
  <2>1. method' = method
    BY <1>6 DEF ApplyPair, NextPair
  <2> QED BY <1>5, <1>6, <2>1 DEF ApplyPair
<1>7. CASE ApplyPairEnzyme
  <2>1. WantsJacobian => evalMode # "weights"
    BY DEF WantsJacobian
  <2> QED BY <1>5, <1>7, <2>1 DEF ApplyPairEnzyme, NextPair
<1>8. CASE AssembleWeights
  <2>1. method = "weights" /\ method' = method /\ sparseMode' = sparseMode
    BY <1>8 DEF AssembleWeights, NextPair
  <2> QED BY <1>0, <2>1 DEF JacIInv
<1>9. CASE EndUpdate
  <2>1. /\ mortarStep = "pairs" /\ mortarStep' = "idle" /\ atPair > Len(pairs) /\ method' = method /\ evalMode' = evalMode
        /\ sparseMode' = sparseMode /\ pairs' = pairs /\ response' = response /\ smat' = smat /\ blocks' = blocks
    BY <1>9 DEF EndUpdate
  <2>2. atPair - 1 = Len(pairs) /\ WantsJacobian' = WantsJacobian
    BY <1>0, <2>1 DEF WantsJacobian
  <2>3. ASSUME method \in {"single", "enzyme"}, WantsJacobian
        PROVE  Holds(response, smat, blocks, pairs, method, sparseMode, Len(pairs))
    BY <2>1, <2>2, <2>3 DEF JacIInv
  <2> QED BY <1>0, <2>1, <2>2, <2>3 DEF JacIInv
<1>10. CASE UNCHANGED mortarVars
  <2>1. Ready' = Ready /\ WantsJacobian' = WantsJacobian
    BY <1>10 DEF Ready, WantsJacobian, mortarVars
  <2> QED BY <1>10, <2>1 DEF JacIInv, mortarVars
<1> QED BY <1>1, <1>2, <1>3, <1>4, <1>6, <1>7, <1>8, <1>9, <1>10 DEF MortarNext

\* The matrix of the pairs, times the pressures, gives the forces of the pairs.
LEMMA MatrixForce ==
  ASSUME pairs \in Seq(AllPairs), MatrixIs(Len(pairs)), NEW n \in AllNodes, NEW d \in 1 .. 3
  PROVE  SumFunctionOnSet([j \in NonmortarNodes |-> EntryAt(Dim * n + d - 1, presOffset + j) * Pressure[j]], NonmortarNodes)
           = SumFunctionOnSet(ForceTerms(pairs, "single", n, d), 1 .. Len(pairs))
<1> DEFINE I == 1 .. Len(pairs)
           N == NonmortarNodes
           R == [i \in I |-> [j \in N |-> JrpEntry(pairs[i], n, d, j)]]
           T == [j \in N |-> JrpTerms(pairs, n, d, j)]
           h == [j \in N |-> EntryAt(Dim * n + d - 1, presOffset + j) * Pressure[j]]
           g == ForceTerms(pairs, "single", n, d)
<1>1. IsFiniteSet(I) /\ IsFiniteSet(N) /\ I = DOMAIN pairs /\ \A i \in I : pairs[i] \in AllPairs
  BY NonmortarFinite, FS_Interval
<1>2. \A i \in I : \A j \in N : R[i][j] \in Int /\ T[j][i] = R[i][j]
  BY <1>1, JacTermsFine
<1>3. \A j \in N : Pressure[j] \in Int
  BY MortarAssumption DEF MortarAssumption
<1>4. \A j \in N : h[j] = SumFunctionOnSet(T[j], I) * Pressure[j]
  BY DEF MatrixIs
<1>5. ASSUME NEW i \in I PROVE g[i] = SumFunctionOnSet([j \in N |-> R[i][j] * Pressure[j]], N)
  <2>1. g[i] = PairForce("single", pairs[i], n, d)
    BY <1>1 DEF ForceTerms
  <2>2. [j \in N |-> R[i][j] * Pressure[j]] = [j \in N |-> JrpEntry(pairs[i], n, d, j) * Pressure[j]]
    OBVIOUS
  <2>3. SumFunctionOnSet([j \in N |-> JrpEntry(pairs[i], n, d, j) * Pressure[j]], N) = PairForce("single", pairs[i], n, d)
    BY <1>1, ForceRowOfPair
  <2> HIDE DEF R, g
  <2> QED BY <2>1, <2>2, <2>3
<1> HIDE DEF I, N, R, T, h, g
<1>6. Gathers(I, N, R, T, Pressure, g, h)
  BY <1>1, <1>2, <1>3, <1>4, <1>5 DEF Gathers
<1>7. SumFunctionOnSet(h, N) = SumFunctionOnSet(g, I)
  BY <1>6, GatheredByRows
<1> QED BY <1>7 DEF I, N, h, g

\* The same of a row of a pressure, one dimension of the coordinates at a time.
AlongDim(i, j, d) == SumFunctionOnSet([n \in AllNodes |-> JguEntry(pairs[i], j, n, d) * Position[n][d]], AllNodes)
EntryTimes(j, n, d) == EntryAt(presOffset + j, Dim * n + d - 1) * Position[n][d]

\* Over all nodes, the products of the matrix are those of the pairs.
LEMMA MatrixAlong ==
  ASSUME pairs \in Seq(AllPairs), MatrixIs(Len(pairs)), NEW j \in NonmortarNodes, NEW d \in 1 .. 3
  PROVE  /\ SumFunctionOnSet([n \in AllNodes |-> EntryTimes(j, n, d)], AllNodes)
              = SumFunctionOnSet([i \in 1 .. Len(pairs) |-> AlongDim(i, j, d)], 1 .. Len(pairs))
         /\ \A n \in AllNodes : EntryTimes(j, n, d) \in Int
<1> DEFINE I == 1 .. Len(pairs)
           N == AllNodes
           R == [i \in I |-> [n \in N |-> JguEntry(pairs[i], j, n, d)]]
           T == [n \in N |-> JguTerms(pairs, j, n, d)]
           v == [n \in N |-> Position[n][d]]
           h == [n \in N |-> EntryTimes(j, n, d)]
           g == [i \in I |-> AlongDim(i, j, d)]
<1>1. IsFiniteSet(I) /\ IsFiniteSet(N) /\ I = DOMAIN pairs /\ \A i \in I : pairs[i] \in AllPairs
  BY CornersFinite, FS_Interval
<1>2. \A i \in I : \A n \in N : R[i][n] \in Int /\ T[n][i] = R[i][n]
  BY <1>1, JacTermsFine
<1>3. \A n \in N : v[n] \in Int
  BY MortarAssumption DEF MortarAssumption
<1>4. \A n \in N : h[n] = SumFunctionOnSet(T[n], I) * v[n]
  BY DEF MatrixIs, EntryTimes
<1>5. ASSUME NEW i \in I PROVE g[i] = SumFunctionOnSet([n \in N |-> R[i][n] * v[n]], N)
  <2>1. [n \in N |-> R[i][n] * v[n]] = [n \in N |-> JguEntry(pairs[i], j, n, d) * Position[n][d]]
    OBVIOUS
  <2>2. g[i] = SumFunctionOnSet([n \in N |-> JguEntry(pairs[i], j, n, d) * Position[n][d]], N)
    BY DEF AlongDim
  <2> HIDE DEF R, g, v, N
  <2> QED BY <2>1, <2>2
<1> HIDE DEF I, N, R, T, v, h, g
<1>6. Gathers(I, N, R, T, v, g, h)
  BY <1>1, <1>2, <1>3, <1>4, <1>5 DEF Gathers
<1>7. SumFunctionOnSet(h, N) = SumFunctionOnSet(g, I) /\ \A n \in N : h[n] \in Int
  BY <1>6, GatheredByRows
<1> QED BY <1>7 DEF I, N, h, g

\* A pair's rows give its gap and the residual gap.
LEMMA PairAlong ==
  ASSUME pairs \in Seq(AllPairs), NEW i \in 1 .. Len(pairs), NEW j \in NonmortarNodes
  PROVE  /\ \A d \in 1 .. 3 : AlongDim(i, j, d) \in Int
         /\ AlongDim(i, j, 1) + AlongDim(i, j, 2) + AlongDim(i, j, 3)
              = GapTerms(pairs, j)[i] + ResidualGap * PairShape(pairs[i], j)
<1> DEFINE f(d) == [n \in AllNodes |-> JguEntry(pairs[i], j, n, d) * Position[n][d]]
           h == RowTimes(pairs[i], j)
<1>1. pairs[i] \in AllPairs /\ i \in DOMAIN pairs /\ IsFiniteSet(AllNodes)
  BY CornersFinite
<1>2. ASSUME NEW n \in AllNodes, NEW d \in 1 .. 3 PROVE f(d)[n] \in Int
  <2>1. PICK x \in Int, y \in Int : x = JguEntry(pairs[i], j, n, d) /\ y = Position[n][d]
    BY <1>1, GapRowOfPair, MortarAssumption DEF MortarAssumption
  <2>2. x * y \in Int
    OBVIOUS
  <2> QED BY <2>1, <2>2
<1>3. \A n \in AllNodes : h[n] = f(1)[n] + f(2)[n] + f(3)[n]
  BY DEF RowTimes
<1>4. \A d \in 1 .. 3 : AlongDim(i, j, d) = SumFunctionOnSet(f(d), AllNodes)
  BY DEF AlongDim
<1>5. SumFunctionOnSet(h, AllNodes) = PairGap(pairs[i], j) + ResidualGap * PairShape(pairs[i], j)
  BY <1>1, GapRowOfPair
<1>6. PairGap(pairs[i], j) = GapTerms(pairs, j)[i]
  BY <1>1 DEF GapTerms
<1>7. 1 \in 1 .. 3 /\ 2 \in 1 .. 3 /\ 3 \in 1 .. 3
  OBVIOUS
<1> HIDE DEF f, h
<1>8. SumFunctionOnSet(h, AllNodes) = SumFunctionOnSet(f(1), AllNodes) + SumFunctionOnSet(f(2), AllNodes) + SumFunctionOnSet(f(3), AllNodes)
  <2>1. \A n \in AllNodes : f(1)[n] \in Int /\ f(2)[n] \in Int /\ f(3)[n] \in Int /\ h[n] = f(1)[n] + f(2)[n] + f(3)[n]
    BY <1>2, <1>3, <1>7
  <2> QED BY <1>1, <2>1, SumThree
<1>9. ASSUME NEW d \in 1 .. 3 PROVE AlongDim(i, j, d) \in Int
  <2>1. \A n \in AllNodes : f(d)[n] \in Int
    BY <1>2
  <2>2. SumFunctionOnSet(f(d), AllNodes) \in Int
    BY <1>1, <2>1, SumInt
  <2> QED BY <1>4, <2>2
<1> QED BY <1>4, <1>5, <1>6, <1>7, <1>8, <1>9

\* The matrix of the pairs, times the coordinates, gives the gaps of the pairs and the residual gap.
ShapeTerms(list, j) == [i \in DOMAIN list |-> PairShape(list[i], j)]

\* The integral of a shape function is what the pairs give to it.
LEMMA IntegralIs ==
  ASSUME pairs \in Seq(AllPairs), NEW j
  PROVE  IntegralOfShape(j) = SumFunctionOnSet(ShapeTerms(pairs, j), 1 .. Len(pairs))
<1> DEFINE f(p) == SumFunctionOnSet([a \in Corners |-> SumFunction([b \in Corners |-> Weight(p.rule, a, b, FALSE)])],
                                    CornersAt(Faces2[p.face2], j))
<1>1. IntegralOfShape(j) = SumFunction([i \in DOMAIN pairs |-> f(pairs[i])])
  BY DEF IntegralOfShape, SumPairs
<1>2. ASSUME NEW p PROVE f(p) = PairShape(p, j)
  <2>1. \A a \in Corners : SumFunction([b \in Corners |-> Weight(p.rule, a, b, FALSE)]) = ShapeOfCorner(p, a)
    BY DEF SumFunction, ShapeOfCorner
  <2>2. [a \in Corners |-> SumFunction([b \in Corners |-> Weight(p.rule, a, b, FALSE)])] = [a \in Corners |-> ShapeOfCorner(p, a)]
    BY <2>1
  <2> QED BY <2>2 DEF PairShape
<1> HIDE DEF f
<1>3. [i \in DOMAIN pairs |-> f(pairs[i])] = ShapeTerms(pairs, j)
  BY <1>2 DEF ShapeTerms
<1>4. DOMAIN ShapeTerms(pairs, j) = 1 .. Len(pairs)
  BY DEF ShapeTerms
<1> QED BY <1>1, <1>3, <1>4 DEF SumFunction

\* The matrix times the coordinates is the gap and the residual gap times the integral of the shape function.
LEMMA MatrixGap ==
  ASSUME pairs \in Seq(AllPairs), MatrixIs(Len(pairs)), NEW j \in NonmortarNodes
  PROVE  /\ GapFromJacobian(j)
              = SumFunctionOnSet(GapTerms(pairs, j), 1 .. Len(pairs)) + ResidualGap * SumFunctionOnSet(ShapeTerms(pairs, j), 1 .. Len(pairs))
         /\ SumFunctionOnSet(GapTerms(pairs, j), 1 .. Len(pairs)) \in Int
         /\ SumFunctionOnSet(ShapeTerms(pairs, j), 1 .. Len(pairs)) \in Int
<1> DEFINE I == 1 .. Len(pairs)
           h(d) == [n \in AllNodes |-> EntryTimes(j, n, d)]
           g(d) == [i \in I |-> AlongDim(i, j, d)]
           all == [n \in AllNodes |-> EntryTimes(j, n, 1) + EntryTimes(j, n, 2) + EntryTimes(j, n, 3)]
           both == [i \in I |-> AlongDim(i, j, 1) + AlongDim(i, j, 2) + AlongDim(i, j, 3)]
           gap == GapTerms(pairs, j)
           shape == ShapeTerms(pairs, j)
<1>1. IsFiniteSet(I) /\ IsFiniteSet(AllNodes) /\ I = DOMAIN pairs /\ \A i \in I : pairs[i] \in AllPairs
  BY CornersFinite, FS_Interval
<1>2. GapFromJacobian(j) = SumFunctionOnSet(all, AllNodes)
  BY DEF GapFromJacobian, SumFunction, EntryTimes, dotProd
<1>3. \A n \in AllNodes : h(1)[n] \in Int /\ h(2)[n] \in Int /\ h(3)[n] \in Int /\ all[n] = h(1)[n] + h(2)[n] + h(3)[n]
  <2>1. 1 \in 1 .. 3 /\ 2 \in 1 .. 3 /\ 3 \in 1 .. 3
    OBVIOUS
  <2>2. \A n \in AllNodes : EntryTimes(j, n, 1) \in Int /\ EntryTimes(j, n, 2) \in Int /\ EntryTimes(j, n, 3) \in Int
    BY <2>1, MatrixAlong
  <2> QED BY <2>2
<1>4. \A d \in 1 .. 3 : SumFunctionOnSet(h(d), AllNodes) = SumFunctionOnSet(g(d), I)
  BY MatrixAlong
<1>5. \A i \in I : g(1)[i] \in Int /\ g(2)[i] \in Int /\ g(3)[i] \in Int /\ both[i] = g(1)[i] + g(2)[i] + g(3)[i]
  BY PairAlong
<1>6. ASSUME NEW i \in I PROVE gap[i] \in Int /\ shape[i] \in Int /\ both[i] = gap[i] + ResidualGap * shape[i]
  <2>1. gap[i] \in Int
    BY <1>1, TermsFine
  <2>2. shape[i] = PairShape(pairs[i], j)
    BY <1>1 DEF ShapeTerms
  <2>3. PairShape(pairs[i], j) \in Int
    BY <1>1, GapRowOfPair
  <2>4. both[i] = gap[i] + ResidualGap * PairShape(pairs[i], j)
    BY PairAlong
  <2> HIDE DEF gap, shape, both
  <2> QED BY <2>1, <2>2, <2>3, <2>4
<1>7. 1 \in 1 .. 3 /\ 2 \in 1 .. 3 /\ 3 \in 1 .. 3 /\ ResidualGap \in Int
  BY MortarAssumption DEF MortarAssumption
<1> HIDE DEF I, h, g, all, both, gap, shape
<1>8. SumFunctionOnSet(all, AllNodes) = SumFunctionOnSet(h(1), AllNodes) + SumFunctionOnSet(h(2), AllNodes) + SumFunctionOnSet(h(3), AllNodes)
  BY <1>1, <1>3, SumThree
<1>9. SumFunctionOnSet(both, I) = SumFunctionOnSet(g(1), I) + SumFunctionOnSet(g(2), I) + SumFunctionOnSet(g(3), I)
  <2>1. PICK g1, g2, g3 : g1 = g(1) /\ g2 = g(2) /\ g3 = g(3)
    OBVIOUS
  <2>2. IsFiniteSet(I) /\ \A i \in I : g1[i] \in Int /\ g2[i] \in Int /\ g3[i] \in Int /\ both[i] = g1[i] + g2[i] + g3[i]
    BY <1>1, <1>5, <2>1
  <2>3. SumFunctionOnSet(both, I) = SumFunctionOnSet(g1, I) + SumFunctionOnSet(g2, I) + SumFunctionOnSet(g3, I)
    BY <2>2, SumThree
  <2> QED BY <2>1, <2>3
<1>10. SumFunctionOnSet(both, I) = SumFunctionOnSet(gap, I) + ResidualGap * SumFunctionOnSet(shape, I)
  BY <1>1, <1>6, <1>7, SumLinear
<1>11. SumFunctionOnSet(gap, I) \in Int /\ SumFunctionOnSet(shape, I) \in Int
  BY <1>1, <1>6, SumInt
<1>12. SumFunctionOnSet(h(1), AllNodes) = SumFunctionOnSet(g(1), I) /\ SumFunctionOnSet(h(2), AllNodes) = SumFunctionOnSet(g(2), I)
       /\ SumFunctionOnSet(h(3), AllNodes) = SumFunctionOnSet(g(3), I)
  BY <1>4, <1>7
<1>13. GapFromJacobian(j) = SumFunctionOnSet(gap, I) + ResidualGap * SumFunctionOnSet(shape, I)
  BY <1>2, <1>8, <1>9, <1>10, <1>12, Zenon
<1> QED BY <1>11, <1>13 DEF I, gap, shape

\* Read as a matrix of nodes by component, the element matrix of a face gives the force on its corners.
LEMMA PressedIs ==
  ASSUME NEW m \in {"single", "enzyme"}, NEW p \in AllPairs, NEW mortar \in BOOLEAN, NEW a \in Corners, NEW d \in 1 .. 3, NEW b \in Corners
  PROVE  BlockJ(m, p)[PosOf(m, mortar)][3][a + NumFaceVert * (d - 1) + Dim * NumFaceVert * b] = JrpVal(m, p, mortar, a, b, d)
<1>1. PICK e \in Dims : e = d - 1 /\ e + 1 = d
  BY DEF Dims
<1>2. BlockJ(m, p)[PosOf(m, mortar)][3][ElemXDof("Jrp", <<a, b, e>>)] = JrpVal(m, p, mortar, a, b, d)
  BY <1>1, ForceBlockAt
<1>3. ElemXDof("Jrp", <<a, b, e>>) = a + NumFaceVert * (d - 1) + Dim * NumFaceVert * b
  <2>1. NumFaceVert \in Nat /\ Dim = 3 /\ a \in Nat /\ b \in Nat /\ e \in Nat
    BY MortarAssumption, CornersFinite DEF MortarAssumption, Dim, Dims
  <2>2. PICK N \in Nat, x \in Nat, y \in Nat, z \in Nat : N = NumFaceVert /\ x = a /\ y = b /\ z = e
    BY <2>1
  <2>3. ElemXDof("Jrp", <<a, b, e>>) = x + (3 * N) * y + z * N
    BY <2>1, <2>2 DEF ElemXDof, getJacobianIndex, getJacobianDimOffset
  <2>4. a + NumFaceVert * (d - 1) + Dim * NumFaceVert * b = x + N * z + 3 * N * y
    BY <1>1, <2>1, <2>2
  <2>5. x + N * z + 3 * N * y = x + (3 * N) * y + z * N
    OBVIOUS
  <2> QED BY <2>3, <2>4, <2>5
<1> QED BY <1>2, <1>3

\* It is the force the pair adds to the corner.
LEMMA ElementForceIs ==
  ASSUME method \in {"single", "enzyme"}, pairs \in Seq(AllPairs), HoldsBlocks(blocks, pairs, method, Len(pairs)),
         NEW k \in 1 .. Len(pairs), NEW mortar \in BOOLEAN, NEW a \in Corners, NEW d \in 1 .. 3
  PROVE  ElementForce(IF mortar THEN "mortar" ELSE "nonmortar", k, a)[d]
           = ForceOnCorner(method, pairs[k], MortarWeights[pairs[k]], mortar, a)[d]
<1> DEFINE p == pairs[k]
           s == IF mortar THEN "mortar" ELSE "nonmortar"
           J == BlockJ(method, p)[PosOf(method, mortar)][3]
           f == [b \in Corners |-> J[a + NumFaceVert * (d - 1) + Dim * NumFaceVert * b] * PressureAt(p.face2, b)]
<1>1. p \in AllPairs
  OBVIOUS
<1>2. blocks.ids["lm"][k] = p.face2
  BY DEF HoldsBlocks, FaceIds
<1>3. blocks.J[s]["lm"][k] = J
  BY DEF HoldsBlocks, ForceBlocks
<1> HIDE DEF p, s, J
<1>4. ElementForce(s, k, a)[d] = SumFunction(f)
  BY <1>2, <1>3 DEF ElementForce
<1>5. f = PressedRow(method, p, mortar, a, d)
  <2>1. \A b \in Corners : J[a + NumFaceVert * (d - 1) + Dim * NumFaceVert * b] = JrpVal(method, p, mortar, a, b, d)
    BY <1>1, PressedIs DEF J
  <2> QED BY <2>1 DEF PressedRow
<1>6. SumFunction(f) = SumFunctionOnSet(f, Corners)
  BY DEF SumFunction
<1> HIDE DEF f
<1>7. SumFunctionOnSet(f, Corners) = ForceOnCorner(method, p, MortarWeights[p], mortar, a)[d]
  BY <1>1, <1>5, CornerForceIs
<1> QED BY <1>4, <1>6, <1>7 DEF p, s

\* The element matrices of a pair give its forces.
LEMMA OnFaceIs ==
  ASSUME method \in {"single", "enzyme"}, pairs \in Seq(AllPairs), HoldsBlocks(blocks, pairs, method, Len(pairs)),
         NEW k \in 1 .. Len(pairs), NEW mortar \in BOOLEAN, NEW n, NEW d \in 1 .. 3
  PROVE  Sum3([a \in CornersAt(FaceOf(pairs[k], mortar), n) |-> ElementForce(IF mortar THEN "mortar" ELSE "nonmortar", k, a)])[d]
           = ForceAt(method, pairs[k], mortar, n, d)
<1> DEFINE face == FaceOf(pairs[k], mortar)
           s == IF mortar THEN "mortar" ELSE "nonmortar"
           F == [a \in Corners |-> ElementForce(s, k, a)]
           f == [a \in Corners |-> ForceOnCorner(method, pairs[k], MortarWeights[pairs[k]], mortar, a)[d]]
<1>1. CornersAt(face, n) \subseteq Corners
  BY CornersAtFinite
<1>2. \A a \in CornersAt(face, n) : F[a][d] = f[a]
  BY <1>1, ElementForceIs
<1>3. [a \in CornersAt(face, n) |-> ElementForce(s, k, a)] = [a \in CornersAt(face, n) |-> F[a]]
  BY <1>1
<1>4. ForceAt(method, pairs[k], mortar, n, d) = SumFunctionOnSet(f, CornersAt(face, n))
  BY DEF ForceAt
<1> HIDE DEF F, f, face, s
<1>5. Sum3([a \in CornersAt(face, n) |-> F[a]])[d] = SumFunctionOnSet(f, CornersAt(face, n))
  BY <1>2, OverCorners
<1>6. Sum3([a \in CornersAt(face, n) |-> ElementForce(s, k, a)])[d] = ForceAt(method, pairs[k], mortar, n, d)
  BY <1>3, <1>4, <1>5
<1> QED BY <1>6 DEF face, s

\* Over all pairs, the element matrices times the pressures are the forces.
LEMMA ElementsForce ==
  ASSUME method \in {"single", "enzyme"}, pairs \in Seq(AllPairs), HoldsBlocks(blocks, pairs, method, Len(pairs)), ~Assembled,
         NEW n \in AllNodes
  PROVE  ForceFromJacobian(n) = ForceUpTo(pairs, method, Len(pairs), n)
<1> DEFINE I == 1 .. Len(pairs)
           On(face, s, k) == Sum3([a \in CornersAt(face, n) |-> ElementForce(s, k, a)])
           F == [k \in DOMAIN blocks.ids["lm"] |->
                   Plus3(On(Faces1[blocks.ids["mortar"][k]], "mortar", k), On(Faces2[blocks.ids["nonmortar"][k]], "nonmortar", k))]
<1>1. ForceFromJacobian(n) = Sum3(F)
  BY DEF ForceFromJacobian
<1>2. DOMAIN blocks.ids["lm"] = I /\ I = DOMAIN pairs
  BY DEF HoldsBlocks, FaceIds
<1>3. ASSUME NEW k \in I PROVE Faces1[blocks.ids["mortar"][k]] = FaceOf(pairs[k], TRUE) /\ Faces2[blocks.ids["nonmortar"][k]] = FaceOf(pairs[k], FALSE)
  BY DEF HoldsBlocks, FaceIds, FaceOf
<1>4. ASSUME NEW k \in I, NEW d \in 1 .. 3 PROVE F[k][d] = ForceTerms(pairs, method, n, d)[k]
  <2>1. On(FaceOf(pairs[k], TRUE), "mortar", k)[d] = ForceAt(method, pairs[k], TRUE, n, d)
    BY OnFaceIs
  <2>2. On(FaceOf(pairs[k], FALSE), "nonmortar", k)[d] = ForceAt(method, pairs[k], FALSE, n, d)
    BY OnFaceIs
  <2> HIDE DEF On
  <2>3. F[k][d] = On(FaceOf(pairs[k], TRUE), "mortar", k)[d] + On(FaceOf(pairs[k], FALSE), "nonmortar", k)[d]
    BY <1>2, <1>3 DEF Plus3
  <2>4. ForceTerms(pairs, method, n, d)[k] = PairForce(method, pairs[k], n, d)
    BY <1>2 DEF ForceTerms
  <2> QED BY <2>1, <2>2, <2>3, <2>4 DEF PairForce
<1>5. DOMAIN F = I /\ IsFiniteSet(I)
  BY <1>2, FS_Interval
<1> HIDE DEF F, I
<1>6. ASSUME NEW d \in 1 .. 3 PROVE SumFunction([k \in DOMAIN F |-> F[k][d]]) = SumFunctionOnSet(ForceTerms(pairs, method, n, d), I)
  <2> DEFINE h == [k \in DOMAIN F |-> F[k][d]]
  <2>1. SumFunction(h) = SumFunctionOnSet(h, I) /\ \A k \in I : h[k] = ForceTerms(pairs, method, n, d)[k]
    BY <1>4, <1>5 DEF SumFunction
  <2> HIDE DEF h
  <2>2. SumFunctionOnSet(h, I) = SumFunctionOnSet(ForceTerms(pairs, method, n, d), I)
    BY <1>5, <2>1, SumSame
  <2> QED BY <2>1, <2>2 DEF h
<1> QED BY <1>1, <1>6 DEF Sum3, ForceUpTo, I

\* What it says of the Jacobian of an update.
LEMMA JacInvGives == ASSUME MortarIInv, GapIInv, JacIInv PROVE JacobianIsDerivative
<1> SUFFICES ASSUME Ready, WantsJacobian, method \in {"single", "enzyme"}
             PROVE  /\ \A n \in AllNodes : response[n] = ForceFromJacobian(n)
                    /\ Assembled => \A n \in NonmortarNodes : nodeGap[n] = GapFromJacobian(n) - ResidualGap * IntegralOfShape(n)
  BY DEF JacobianIsDerivative
<1>1. pairs \in Seq(AllPairs)
  BY DEF MortarIInv
<1>2. /\ \A n \in AllNodes : response[n] = ForceUpTo(pairs, method, Len(pairs), n)
      /\ HoldsJacobian(smat, blocks, pairs, method, sparseMode, Len(pairs))
  BY DEF JacIInv, Holds, HoldsForces
<1>3. CASE Assembled
  <2>1. HoldsEntries(smat, pairs, Len(pairs)) /\ method = "single"
    BY <1>2, <1>3 DEF HoldsJacobian, Assembled
  <2>2. MatrixIs(Len(pairs))
    <3>1. PICK k : k = Len(pairs)
      OBVIOUS
    <3>2. MatrixIs(k)
      BY <2>1, <3>1, MatrixHolds
    <3> QED BY <3>1, <3>2
  <2>3. ASSUME NEW n \in AllNodes PROVE response[n] = ForceFromJacobian(n)
    <3> DEFINE f(d) == [j \in NonmortarNodes |-> EntryAt(Dim * n + d - 1, presOffset + j) * Pressure[j]]
    <3>1. ForceFromJacobian(n) = [d \in 1 .. 3 |-> SumFunction(f(d))]
      BY <1>3 DEF ForceFromJacobian
    <3>2. \A d \in 1 .. 3 : SumFunction(f(d)) = SumFunctionOnSet(ForceTerms(pairs, method, n, d), 1 .. Len(pairs))
      BY <1>1, <2>1, <2>2, MatrixForce DEF SumFunction
    <3>3. response[n] = ForceUpTo(pairs, method, Len(pairs), n)
      BY <1>2
    <3> HIDE DEF f
    <3> QED BY <3>1, <3>2, <3>3 DEF ForceUpTo
  <2>4. ASSUME NEW j \in NonmortarNodes PROVE nodeGap[j] = GapFromJacobian(j) - ResidualGap * IntegralOfShape(j)
    <3>1. GapsAre(Len(pairs))
      BY <2>1 DEF GapIInv, NoGaps
    <3>2. nodeGap[j] = SumFunctionOnSet(GapTerms(pairs, j), 1 .. Len(pairs))
      BY <3>1 DEF GapsAre
    <3>3. IntegralOfShape(j) = SumFunctionOnSet(ShapeTerms(pairs, j), 1 .. Len(pairs))
      BY <1>1, IntegralIs
    <3>4. PICK g \in Int, s \in Int, r \in Int :
            /\ g = SumFunctionOnSet(GapTerms(pairs, j), 1 .. Len(pairs)) /\ s = SumFunctionOnSet(ShapeTerms(pairs, j), 1 .. Len(pairs))
            /\ r = ResidualGap /\ GapFromJacobian(j) = g + r * s
      BY <1>1, <2>2, MatrixGap, MortarAssumption DEF MortarAssumption
    <3>5. PICK t \in Int : t = r * s
      OBVIOUS
    <3>6. g = (g + t) - t
      OBVIOUS
    <3> QED BY <3>2, <3>3, <3>4, <3>5, <3>6
  <2> QED BY <2>3, <2>4
<1>4. CASE ~Assembled
  <2>1. HoldsBlocks(blocks, pairs, method, Len(pairs))
    BY <1>2, <1>4 DEF HoldsJacobian, Assembled
  <2> QED BY <1>1, <1>2, <1>4, <2>1, ElementsForce
<1> QED BY <1>3, <1>4

-----------------------------------------------------------------------------
(* The methods together. *)

\* The inductive invariant: that of the method at hand, while the other has nothing to say.
AnyIInv ==
  \/ part = "mortar" /\ MortarIInv /\ GapIInv /\ JacIInv /\ loop = "none"
  \/ part = "plane" /\ PlaneIInv /\ VoteIInv /\ mortarStep = "none"

\* Every step keeps it, and leaves the variables of the other method alone.
LEMMA AnyInvariance == AnySpec => []AnyIInv
<1>1. AnyInit => AnyIInv
  BY InitHolds, VoteInitHolds, MortarInitHolds, GapInitHolds, JacInitHolds DEF AnyInit, AnyIInv
<1>2. ASSUME AnyIInv, [AnyNext]_<<part, mortarVars, planeVars>> PROVE AnyIInv'
  <2>1. CASE part = "mortar"
    <3>1. part' = "mortar" /\ [MortarNext]_mortarVars /\ UNCHANGED planeVars
      BY <1>2, <2>1 DEF AnyNext
    <3>2. MortarIInv /\ GapIInv /\ JacIInv /\ loop = "none"
      BY <1>2, <2>1 DEF AnyIInv
    <3>3. MortarIInv' /\ GapIInv' /\ JacIInv'
      BY <3>1, <3>2, MortarStepHolds, GapStepHolds, JacStepHolds
    <3>4. loop' = loop
      BY <3>1 DEF planeVars
    <3> QED BY <3>1, <3>2, <3>3, <3>4 DEF AnyIInv
  <2>2. CASE part = "plane"
    <3>1. part' = "plane" /\ [PlaneNext]_planeVars /\ UNCHANGED mortarVars
      BY <1>2, <2>2 DEF AnyNext
    <3>2. PlaneIInv /\ VoteIInv /\ mortarStep = "none"
      BY <1>2, <2>2 DEF AnyIInv
    <3>3. PlaneIInv' /\ VoteIInv'
      BY <3>1, <3>2, PlaneStepHolds, VoteStepHolds
    <3>4. mortarStep' = mortarStep
      BY <3>1 DEF mortarVars
    <3> QED BY <3>1, <3>2, <3>3, <3>4 DEF AnyIInv
  <2> QED BY <1>2, <2>1, <2>2 DEF AnyIInv
<1>3. AnyIInv /\ [AnyNext]_<<part, mortarVars, planeVars>> => AnyIInv'
  BY <1>2
<1> QED BY <1>1, <1>3, PTL DEF AnySpec

\* What it says once an update is over.
LEMMA AnyInvGives ==
  AnyIInv => ForcesBalance /\ GapsMatchWeights /\ JacobianIsDerivative /\ PenaltyNeverPulls /\ DampingDissipates /\ VoteLimitsGrowth
<1>1. CASE part = "mortar" /\ MortarIInv /\ GapIInv /\ JacIInv /\ loop = "none"
  <2>1. ~Over
    BY <1>1 DEF Over
  <2> QED BY <1>1, <2>1, MortarInvGives, GapInvGives, JacInvGives
          DEF ForcesBalance, PlaneForcesBalance, PenaltyNeverPulls, DampingDissipates, VoteLimitsGrowth
<1>2. CASE part = "plane" /\ PlaneIInv /\ VoteIInv /\ mortarStep = "none"
  <2>1. ~Ready
    BY <1>2 DEF Ready
  <2> QED BY <1>2, <2>1, PlaneInvGives, VoteInvGives DEF ForcesBalance, MortarForcesBalance, PlaneForcesBalance, GapsMatchWeights, JacobianIsDerivative
<1> QED BY <1>1, <1>2 DEF AnyIInv

\* The forces of an update on all nodes of both meshes add up to nothing, by every method but the one with Enzyme
\* and whatever pairs or planes were found. (Mortar.cpp:360-402, AlignedMortar.cpp:294-313, CommonPlane.cpp:320-352)
THEOREM AnyForcesBalance == AnySpec => []ForcesBalance
BY AnyInvariance, AnyInvGives, PTL

\* The gap of a node is its integral over the overlaps, and the matrix of the mortar weights, times the coordinates,
\* gives the gaps the same update computed. (Mortar.cpp:115-175, 940-962 and 1085-1155, MethodCouplingData.cpp:362-412)
THEOREM AnyGapsMatchWeights == AnySpec => []GapsMatchWeights
BY AnyInvariance, AnyInvGives, PTL

\* The Jacobian an update hands out, assembled or by element, is the derivative of what the same update added: times
\* the pressures it gives the forces, times the coordinates the gaps. (Mortar.cpp:428-565, MethodCouplingData.cpp:109-360)
THEOREM AnyJacobianIsDerivative == AnySpec => []JacobianIsDerivative
BY AnyInvariance, AnyInvGives, PTL

\* Penalty forces push or do nothing: no node of face 1 is pulled against the normal its planes agree on.
\* (CouplingScheme.hpp:1011-1063, CommonPlane.cpp:100-117 and 144-158)
THEOREM AnyPenaltyNeverPulls == AnySpec => []PenaltyNeverPulls
BY AnyInvariance, AnyInvGives, PTL

\* Rate and viscous terms take energy out, whatever the velocities: less the springs, the forces do no work.
\* (CommonPlane.cpp:20-117 and 388-570)
THEOREM AnyDampingDissipates == AnySpec => []DampingDissipates
BY AnyInvariance, AnyInvGives, PTL

\* A vote gives the host a step, no longer than its own, after which no overlap of parallel faces is deeper than it
\* is now or its elements allow, or by no more than they allow. (CouplingScheme.cpp:1347-1348 and 1464-1709)
THEOREM AnyVoteLimitsGrowth == AnySpec => []VoteLimitsGrowth
BY AnyInvariance, AnyInvGives, PTL
=============================================================================
