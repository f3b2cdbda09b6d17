--------------------------- MODULE Redecomp_proofs ---------------------------
(***************************************************************************)
(* Proofs about RedecompMesh and RedecompTransfer, for any parent mesh,    *)
(* any number of ranks and any partition.                                  *)
(*                                                                         *)
(* AnyMeshMatchesParent: the meshes that BuildRedecomp makes are the       *)
(* parent's, vertex for vertex, and their offsets and ghost lists lead     *)
(* back to it.  Everything is numbered in the order in which it arrives,   *)
(* so first what the helpers on sequences do is proved for all sequences:  *)
(* Ascending, FirstAt and LastAt, Distinct, Prefix and FlattenSeq.  Then   *)
(* what the parent sends, what one step of BuildRedecomp makes of it, and  *)
(* what the built mesh is.                                                 *)
(*                                                                         *)
(* AnyFieldsArrive: fields arrive, both ways, for any number of components *)
(* and each kind of field.  Values travel without names: sender and        *)
(* receiver list places on their own, each by its numbers.  So first, the  *)
(* parts of what a rank received lead back to what was sent (SourceIs to   *)
(* ReceivedAre), and lists made of lists keep step (FlattenKeeps to        *)
(* ByDofIs).  Then the lists of places that the two sides make are of the  *)
(* same places one by one, whether the elements are walked                 *)
(* (ElementsOutIn, ElementsBackHome) or the nodes met in them              *)
(* (MetAreTogether to NodesBackHome), and leave out nothing they should    *)
(* have.  So what is written, wherever it is written last, is what belongs *)
(* there (WrittenIs to ParallelFilled), and TransferIInv holds.            *)
(***************************************************************************)
EXTENDS RedecompTransfer, FiniteSetTheorems, TLAPS

-----------------------------------------------------------------------------
(* Numbers. *)

\* Induction over the natural numbers, by their order.
LEMMA NumberInduction ==
  ASSUME NEW Good, 0 \in Good, \A n \in Nat : n \in Good => n + 1 \in Good
  PROVE  \A n \in Nat : n \in Good
<1> DEFINE R == OpToRel(<, Nat)
           Bad == {n \in Nat : n \notin Good}
<1> SUFFICES ASSUME Bad # {} PROVE FALSE
  OBVIOUS
<1>1. \A x, y \in Nat : <<y, x>> \in R <=> y < x
  BY DEF OpToRel
<1>2. IsWellFoundedOn(R, Nat)
  BY NatLessThanWellFounded
<1>3. Bad \subseteq Nat
  OBVIOUS
<1> HIDE DEF R
<1>4. PICK n \in Bad : \A m \in Bad : ~(<<m, n>> \in R)
  <2> HIDE DEF Bad
  <2> QED BY <1>2, <1>3, WFMin
<1>5. n \in Nat /\ n # 0
  OBVIOUS
<1>6. n - 1 \in Nat /\ n - 1 + 1 = n /\ n - 1 < n
  BY <1>5
<1>7. n - 1 \notin Bad
  BY <1>1, <1>4, <1>5, <1>6
<1> QED BY <1>6, <1>7

\* A set of natural numbers has a least element.
LEMMA MinIs ==
  ASSUME NEW S, S \subseteq Nat, S # {}
  PROVE  Min(S) \in S /\ \A x \in S : Min(S) <= x
<1> DEFINE Good == {n \in Nat : \A x \in S : n <= x}
<1>1. \E n \in S : \A x \in S : n <= x
  <2> SUFFICES ASSUME ~ \E n \in S : \A x \in S : n <= x PROVE FALSE
    OBVIOUS
  <2>1. 0 \in Good
    OBVIOUS
  <2>2. ASSUME NEW n \in Nat, n \in Good PROVE n + 1 \in Good
    <3>1. n \notin S
      BY <2>2
    <3> QED BY <2>2, <3>1
  <2> HIDE DEF Good
  <2>3. \A n \in Nat : n \in Good
    BY <2>1, <2>2, NumberInduction
  <2>4. PICK x \in S : TRUE
    OBVIOUS
  <2>5. x + 1 \in Good
    BY <2>3, <2>4
  <2> QED BY <2>4, <2>5 DEF Good
<1> QED BY <1>1 DEF Min

\* A set of natural numbers up to a bound has a greatest element.
LEMMA MaxIs ==
  ASSUME NEW n \in Nat, NEW S, S \subseteq 0 .. n, S # {}
  PROVE  Max(S) \in S /\ \A x \in S : x <= Max(S)
<1> DEFINE T == {k \in 0 .. n : n - k \in S}
<1>1. T \subseteq Nat /\ T # {}
  <2>1. PICK x \in S : TRUE
    OBVIOUS
  <2>2. n - x \in 0 .. n /\ n - (n - x) = x
    OBVIOUS
  <2>3. n - x \in T
    BY <2>2
  <2>4. T \subseteq Nat
    OBVIOUS
  <2> QED BY <2>3, <2>4
<1>2. Min(T) \in T /\ \A k \in T : Min(T) <= k
  BY <1>1, MinIs
<1>3. n - Min(T) \in S /\ \A x \in S : x <= n - Min(T)
  <2>1. n - Min(T) \in S
    BY <1>2
  <2>2. \A x \in S : n - x \in T
    OBVIOUS
  <2>3. ASSUME NEW x \in S PROVE x <= n - Min(T)
    <3>1. Min(T) <= n - x /\ Min(T) \in 0 .. n
      BY <1>2, <2>2
    <3> QED BY <3>1
  <2> QED BY <2>1, <2>3
<1> HIDE DEF T
<1>4. \E m \in S : \A x \in S : x <= m
  BY <1>3
<1> QED BY <1>4 DEF Max

-----------------------------------------------------------------------------
(* Sequences. *)

\* Nothing appended changes nothing.
LEMMA NothingAppended == ASSUME NEW T, NEW s \in Seq(T) PROVE s \o <<>> = s
OBVIOUS

\* Sequences with the same elements are the same.
LEMMA SameSeq ==
  ASSUME NEW T, NEW s \in Seq(T), NEW t \in Seq(T), Len(s) = Len(t), \A i \in DOMAIN s : s[i] = t[i]
  PROVE  s = t
OBVIOUS

\* A function on 1 .. n is a sequence.
LEMMA TableIs ==
  ASSUME NEW n \in Nat, NEW f, f = [k \in 1 .. n |-> f[k]], NEW T, \A k \in 1 .. n : f[k] \in T
  PROVE  f \in Seq(T) /\ Len(f) = n /\ f \o <<>> = f
<1>1. f \in [1 .. n -> T]
  OBVIOUS
<1>2. f \in Seq(T)
  BY <1>1
<1>3. DOMAIN f = 1 .. n
  BY <1>1
<1>4. Len(f) = n
  BY <1>2, <1>3
<1> QED BY <1>2, <1>4, NothingAppended

\* The same whatever its values are.
LEMMA TableKept ==
  ASSUME NEW n \in Nat, NEW f, f = [k \in 1 .. n |-> f[k]]
  PROVE  f \o <<>> = f /\ Len(f) = n /\ DOMAIN f = 1 .. n
<1> DEFINE T == {f[k] : k \in 1 .. n}
<1>1. \A k \in 1 .. n : f[k] \in T
  OBVIOUS
<1> HIDE DEF T
<1>2. f \in Seq(T) /\ Len(f) = n /\ f \o <<>> = f
  BY <1>1, TableIs
<1> QED BY <1>2

\* A sequence of elements of a set is one of elements of a larger set.
LEMMA MoreValues == ASSUME NEW S, NEW T, S \subseteq T, NEW s \in Seq(S) PROVE s \in Seq(T)
<1>1. Len(s) \in Nat /\ s \in [1 .. Len(s) -> S]
  OBVIOUS
<1>2. s \in [1 .. Len(s) -> T]
  BY <1>1
<1> QED BY <1>1, <1>2

\* Where a value is first.
LEMMA FirstAtIs ==
  ASSUME NEW T, NEW s \in Seq(T), NEW x, \E k \in DOMAIN s : s[k] = x
  PROVE  FirstAt(s, x) \in DOMAIN s /\ s[FirstAt(s, x)] = x /\ \A k \in DOMAIN s : s[k] = x => FirstAt(s, x) <= k
<1> DEFINE S == {k \in DOMAIN s : s[k] = x}
<1>1. S \subseteq Nat /\ S # {}
  OBVIOUS
<1>2. Min(S) \in S /\ \A k \in S : Min(S) <= k
  BY <1>1, MinIs
<1> QED BY <1>2 DEF FirstAt

\* Where a value is last.
LEMMA LastAtIs ==
  ASSUME NEW T, NEW s \in Seq(T), NEW x, \E k \in DOMAIN s : s[k] = x
  PROVE  LastAt(s, x) \in DOMAIN s /\ s[LastAt(s, x)] = x
<1> DEFINE S == {k \in DOMAIN s : s[k] = x}
<1>1. S \subseteq 0 .. Len(s) /\ S # {} /\ Len(s) \in Nat
  OBVIOUS
<1>2. Max(S) \in S
  BY <1>1, MaxIs
<1> QED BY <1>2 DEF LastAt

\* The elements below one, of a set of numbers.
Below(S, x) == {y \in S : y < x}

\* A finite set of numbers in ascending order: each of them once.
LEMMA AscendingIs ==
  ASSUME NEW S, S \subseteq Nat, IsFiniteSet(S)
  PROVE  /\ Ascending(S) \in Seq(S) /\ Len(Ascending(S)) = Cardinality(S)
         /\ \A x \in S : \E k \in DOMAIN Ascending(S) : Ascending(S)[k] = x
         /\ \A i, j \in DOMAIN Ascending(S) : Ascending(S)[i] = Ascending(S)[j] => i = j
<1> DEFINE n == Cardinality(S)
           f == [x \in S |-> Cardinality(Below(S, x))]
           pick(k) == CHOOSE x \in S : Cardinality({y \in S : y < x}) = k - 1
           t == [k \in 1 .. n |-> pick(k)]
<1>1. n \in Nat
  BY FS_CardinalityType
<1>2. \A x \in S : IsFiniteSet(Below(S, x)) /\ f[x] \in Nat
  <2> SUFFICES ASSUME NEW x \in S PROVE IsFiniteSet(Below(S, x)) /\ Cardinality(Below(S, x)) \in Nat
    OBVIOUS
  <2>1. Below(S, x) \in SUBSET S
    BY DEF Below
  <2>2. IsFiniteSet(Below(S, x))
    BY <2>1, FS_Subset
  <2> QED BY <2>2, FS_CardinalityType
<1>3. \A x, y \in S : x < y => f[x] < f[y]
  <2> SUFFICES ASSUME NEW x \in S, NEW y \in S, x < y PROVE f[x] < f[y]
    OBVIOUS
  <2>1. Below(S, x) \in SUBSET Below(S, y) /\ x \in Below(S, y) /\ x \notin Below(S, x)
    <3> HIDE DEF f, t, n
    <3>1. \A z \in S : z \in Nat
      OBVIOUS
    <3>2. \A z \in S : z < x => z < y
      BY <3>1
    <3>3. ~(x < x)
      BY <3>1
    <3> QED BY <3>2, <3>3 DEF Below
  <2>2. f[x] <= f[y] /\ f[x] # f[y]
    BY <1>2, <2>1, FS_Subset
  <2> QED BY <1>2, <2>2
<1>4. \A x \in S : f[x] \in 0 .. n - 1
  <2> SUFFICES ASSUME NEW x \in S PROVE f[x] < n
    BY <1>1, <1>2
  <2>1. Below(S, x) \in SUBSET S /\ Below(S, x) # S
    BY DEF Below
  <2>2. f[x] <= n /\ f[x] # n
    BY <2>1, FS_Subset
  <2> QED BY <1>1, <1>2, <2>2
<1>5. f \in Injection(S, 0 .. n - 1)
  <2>1. \A x, y \in S : f[x] = f[y] => x = y
    <3> SUFFICES ASSUME NEW x \in S, NEW y \in S, x # y PROVE f[x] # f[y]
      OBVIOUS
    <3>1. x < y \/ y < x
      OBVIOUS
    <3> QED BY <1>2, <1>3, <3>1
  <2>2. f \in [S -> 0 .. n - 1]
    BY <1>4
  <2> HIDE DEF f
  <2> QED BY <2>1, <2>2 DEF Injection, IsInjective
<1>6. IsFiniteSet(0 .. n - 1) /\ Cardinality(0 .. n - 1) = n
  <2>1. 0 \in Int /\ n - 1 \in Int
    BY <1>1
  <2>2. IsFiniteSet(0 .. n - 1) /\ Cardinality(0 .. n - 1) = IF 0 > n - 1 THEN 0 ELSE n - 1 - 0 + 1
    BY <2>1, FS_Interval
  <2> HIDE DEF n
  <2> QED BY <1>1, <2>2
<1>7. f \in Surjection(S, 0 .. n - 1)
  <2> HIDE DEF f
  <2> QED BY <1>5, <1>6, FS_Injection
<1>8. \A k \in 1 .. n : \E x \in S : f[x] = k - 1
  <2> SUFFICES ASSUME NEW k \in 1 .. n PROVE \E x \in S : f[x] = k - 1
    OBVIOUS
  <2>1. k - 1 \in 0 .. n - 1
    BY <1>1
  <2> HIDE DEF f
  <2> QED BY <1>7, <2>1 DEF Surjection
<1>9. \A k \in 1 .. n : t[k] \in S /\ f[t[k]] = k - 1
  <2> SUFFICES ASSUME NEW k \in 1 .. n PROVE pick(k) \in S /\ f[pick(k)] = k - 1
    OBVIOUS
  <2>1. \E x \in S : Cardinality({y \in S : y < x}) = k - 1
    BY <1>8 DEF Below
  <2>2. pick(k) \in S /\ Cardinality({y \in S : y < pick(k)}) = k - 1
    BY <2>1
  <2> QED BY <2>2 DEF Below
<1>10. Ascending(S) = t \o <<>>
  BY DEF Ascending, Sorted
<1>11. t \in Seq(S) /\ Len(t) = n /\ t \o <<>> = t
  <2>1. t = [k \in 1 .. n |-> t[k]]
    <3> HIDE DEF pick, n
    <3> QED OBVIOUS
  <2> HIDE DEF t
  <2> QED BY <1>1, <1>9, <2>1, TableIs
<1>12. DOMAIN t = 1 .. n
  OBVIOUS
<1>13. \A x \in S : \E k \in DOMAIN t : t[k] = x
  <2> SUFFICES ASSUME NEW x \in S PROVE \E k \in 1 .. n : t[k] = x
    BY <1>12
  <2>1. f[x] + 1 \in 1 .. n /\ f[x] + 1 - 1 = f[x]
    BY <1>1, <1>4
  <2>2. t[f[x] + 1] \in S /\ f[t[f[x] + 1]] = f[x]
    <3> HIDE DEF f, t, n
    <3>1. PICK k : k = f[x] + 1
      OBVIOUS
    <3>2. k \in 1 .. n /\ k - 1 = f[x]
      BY <1>2, <2>1, <3>1
    <3>3. t[k] \in S /\ f[t[k]] = k - 1
      BY <1>9, <3>2
    <3> QED BY <3>1, <3>2, <3>3
  <2>3. t[f[x] + 1] = x
    <3> HIDE DEF f, t
    <3> QED BY <1>5, <2>2 DEF Injection, IsInjective
  <2> QED BY <2>1, <2>3
<1>14. \A i, j \in DOMAIN t : t[i] = t[j] => i = j
  <2> HIDE DEF t, f
  <2> QED BY <1>1, <1>9, <1>12
<1> HIDE DEF t, n
<1> QED BY <1>10, <1>11, <1>13, <1>14 DEF n

\* The places at which a value is met for the first time.
Firsts(s) == {k \in DOMAIN s : FirstAt(s, s[k]) = k}

\* They are finitely many.
LEMMA FirstsFinite ==
  ASSUME NEW T, NEW s \in Seq(T)
  PROVE  Firsts(s) \subseteq DOMAIN s /\ DOMAIN s = 1 .. Len(s) /\ Len(s) \in Nat /\ Firsts(s) \subseteq Nat /\ IsFiniteSet(Firsts(s))
<1>1. Firsts(s) \subseteq DOMAIN s /\ DOMAIN s = 1 .. Len(s) /\ Len(s) \in Nat
  BY DEF Firsts
<1>2. IsFiniteSet(1 .. Len(s))
  BY <1>1, FS_Interval
<1>3. IsFiniteSet(Firsts(s))
  BY <1>1, <1>2, FS_Subset
<1> QED BY <1>1, <1>3

\* Distinct takes the values at these places.
LEMMA DistinctAt ==
  ASSUME NEW T, NEW s \in Seq(T)
  PROVE  /\ Distinct(s) \in Seq(T) /\ Len(Distinct(s)) = Len(Ascending(Firsts(s)))
         /\ \A i \in DOMAIN Distinct(s) : /\ Ascending(Firsts(s))[i] \in DOMAIN s
                                          /\ Distinct(s)[i] = s[Ascending(Firsts(s))[i]]
<1> DEFINE a == Ascending(Firsts(s))
           t == [k \in DOMAIN a |-> s[a[k]]]
<1>1. Firsts(s) \subseteq DOMAIN s /\ Firsts(s) \subseteq Nat /\ IsFiniteSet(Firsts(s))
  BY FirstsFinite
<1>2. a \in Seq(Firsts(s))
  BY <1>1, AscendingIs
<1>3. DOMAIN a = 1 .. Len(a) /\ Len(a) \in Nat /\ \A k \in DOMAIN a : a[k] \in DOMAIN s
  <2> HIDE DEF a
  <2> QED BY <1>1, <1>2
<1>4. \A k \in 1 .. Len(a) : s[a[k]] \in T
  <2> HIDE DEF a
  <2> QED BY <1>3
<1>5. Distinct(s) = t \o <<>>
  BY DEF Distinct, Map, Firsts
<1> HIDE DEF a
<1>6. t \in Seq(T) /\ Len(t) = Len(a) /\ t \o <<>> = t
  <2>1. t = [k \in 1 .. Len(a) |-> t[k]] /\ \A k \in 1 .. Len(a) : t[k] \in T
    BY <1>3, <1>4
  <2> HIDE DEF t
  <2> QED BY <1>3, <2>1, TableIs
<1>7. Distinct(s) = t /\ DOMAIN t = DOMAIN a /\ \A k \in DOMAIN t : t[k] = s[a[k]]
  BY <1>5, <1>6
<1> HIDE DEF t
<1> QED BY <1>3, <1>6, <1>7 DEF a

\* It has every value of a sequence, and has it once.
LEMMA DistinctIs ==
  ASSUME NEW T, NEW s \in Seq(T)
  PROVE  /\ Distinct(s) \in Seq(T)
         /\ \A i \in DOMAIN Distinct(s) : \E k \in DOMAIN s : Distinct(s)[i] = s[k]
         /\ \A k \in DOMAIN s : \E i \in DOMAIN Distinct(s) : Distinct(s)[i] = s[k]
         /\ \A i, j \in DOMAIN Distinct(s) : Distinct(s)[i] = Distinct(s)[j] => i = j
<1> DEFINE a == Ascending(Firsts(s))
           d == Distinct(s)
<1>1. Firsts(s) \subseteq DOMAIN s /\ Firsts(s) \subseteq Nat /\ IsFiniteSet(Firsts(s)) /\ DOMAIN s = 1 .. Len(s)
  BY FirstsFinite
<1>2. /\ a \in Seq(Firsts(s)) /\ (\A x \in Firsts(s) : \E k \in DOMAIN a : a[k] = x)
      /\ (\A i, j \in DOMAIN a : a[i] = a[j] => i = j)
  BY <1>1, AscendingIs
<1>3. d \in Seq(T) /\ Len(d) = Len(a) /\ \A i \in DOMAIN d : a[i] \in DOMAIN s /\ d[i] = s[a[i]]
  BY DistinctAt
<1> HIDE DEF a, d
<1>4. DOMAIN d = DOMAIN a /\ \A i \in DOMAIN d : a[i] \in Firsts(s)
  BY <1>2, <1>3
<1>5. ASSUME NEW k \in DOMAIN s PROVE \E i \in DOMAIN d : d[i] = s[k]
  <2> DEFINE f == FirstAt(s, s[k])
  <2>1. f \in DOMAIN s /\ s[f] = s[k]
    BY FirstAtIs
  <2>2. f \in Firsts(s)
    BY <2>1 DEF Firsts
  <2>3. PICK i \in DOMAIN a : a[i] = f
    BY <1>2, <2>2
  <2> HIDE DEF f
  <2> QED BY <1>3, <1>4, <2>1, <2>3
<1>6. ASSUME NEW i \in DOMAIN d, NEW j \in DOMAIN d, d[i] = d[j] PROVE i = j
  <2>1. a[i] = FirstAt(s, s[a[i]]) /\ a[j] = FirstAt(s, s[a[j]])
    BY <1>4 DEF Firsts
  <2>2. s[a[i]] = s[a[j]]
    BY <1>3, <1>6
  <2>3. a[i] = a[j]
    BY <2>1, <2>2, Zenon
  <2> QED BY <1>2, <1>4, <2>3
<1> QED BY <1>3, <1>5, <1>6 DEF d

\* Two sequences repeat their values at the same places.
Alike(s, t) == Len(s) = Len(t) /\ \A i, j \in DOMAIN s : (s[i] = s[j]) <=> (t[i] = t[j])

\* Of these it takes the values at the same places.
LEMMA DistinctAlike ==
  ASSUME NEW T, NEW s \in Seq(T), NEW U, NEW t \in Seq(U), Alike(s, t)
  PROVE  /\ Len(Distinct(s)) = Len(Distinct(t))
         /\ \A i \in DOMAIN Distinct(s) : \E k \in DOMAIN s : Distinct(s)[i] = s[k] /\ Distinct(t)[i] = t[k]
<1>1. DOMAIN s = DOMAIN t
  BY DEF Alike
<1>2. \A k \in DOMAIN s : {i \in DOMAIN s : s[i] = s[k]} = {i \in DOMAIN t : t[i] = t[k]}
  BY <1>1 DEF Alike
<1>3. \A k \in DOMAIN s : FirstAt(s, s[k]) = FirstAt(t, t[k])
  BY <1>2 DEF FirstAt
<1>4. Firsts(s) = Firsts(t)
  BY <1>1, <1>3 DEF Firsts
<1>5. /\ Distinct(s) \in Seq(T) /\ Len(Distinct(s)) = Len(Ascending(Firsts(s)))
      /\ \A i \in DOMAIN Distinct(s) : Ascending(Firsts(s))[i] \in DOMAIN s /\ Distinct(s)[i] = s[Ascending(Firsts(s))[i]]
  BY DistinctAt
<1>6. /\ Distinct(t) \in Seq(U) /\ Len(Distinct(t)) = Len(Ascending(Firsts(t)))
      /\ \A i \in DOMAIN Distinct(t) : Distinct(t)[i] = t[Ascending(Firsts(t))[i]]
  BY DistinctAt
<1>7. DOMAIN Distinct(s) = DOMAIN Distinct(t) /\ Len(Distinct(s)) = Len(Distinct(t))
  BY <1>4, <1>5, <1>6
<1> DEFINE a == Ascending(Firsts(s))
           d == Distinct(s)
           e == Distinct(t)
<1>8. \A i \in DOMAIN d : a[i] \in DOMAIN s /\ d[i] = s[a[i]]
  BY <1>5
<1>9. \A i \in DOMAIN e : e[i] = t[a[i]]
  BY <1>4, <1>6
<1>10. DOMAIN d = DOMAIN e /\ Len(d) = Len(e)
  BY <1>7
<1> HIDE DEF a, d, e
<1>11. \A i \in DOMAIN d : \E k \in DOMAIN s : d[i] = s[k] /\ e[i] = t[k]
  BY <1>8, <1>9, <1>10
<1> QED BY <1>10, <1>11 DEF d, e

\* h is defined by its value at 0 and, from one number to the next, by a table of steps.
Recurs(h, n, V, base, step) ==
  h \in [0 .. n -> V] /\ h[0] = base /\ \A i \in 1 .. n : h[i] = step[i][h[i - 1]]

\* There is such a function.
LEMMA Recursion ==
  ASSUME NEW n \in Nat, NEW V, NEW base \in V, NEW step \in [1 .. n -> [V -> V]]
  PROVE  \E h : Recurs(h, n, V, base, step)
<1> DEFINE Good == {k \in Nat : k <= n => \E h \in [0 .. k -> V] : h[0] = base /\ \A i \in 1 .. k : h[i] = step[i][h[i - 1]]}
<1>1. 0 \in Good
  <2>1. [i \in 0 .. 0 |-> base] \in [0 .. 0 -> V]
    OBVIOUS
  <2>2. [i \in 0 .. 0 |-> base][0] = base /\ \A i \in 1 .. 0 : FALSE
    OBVIOUS
  <2> QED BY <2>1, <2>2
<1>2. ASSUME NEW k \in Nat, k \in Good PROVE k + 1 \in Good
  <2> SUFFICES ASSUME k + 1 <= n
               PROVE  \E h \in [0 .. k + 1 -> V] : h[0] = base /\ \A i \in 1 .. k + 1 : h[i] = step[i][h[i - 1]]
    OBVIOUS
  <2>1. PICK g \in [0 .. k -> V] : g[0] = base /\ \A i \in 1 .. k : g[i] = step[i][g[i - 1]]
    BY <1>2
  <2>2. step[k + 1] \in [V -> V] /\ g[k] \in V
    OBVIOUS
  <2>3. PICK last \in V : last = step[k + 1][g[k]]
    BY <2>2
  <2> DEFINE h == [i \in 0 .. k + 1 |-> IF i = k + 1 THEN last ELSE g[i]]
  <2>4. h \in [0 .. k + 1 -> V]
    OBVIOUS
  <2>5. h[k + 1] = last /\ (\A i \in 0 .. k : h[i] = g[i])
    OBVIOUS
  <2> HIDE DEF h
  <2>6. h[0] = base
    BY <2>1, <2>5
  <2>7. ASSUME NEW i \in 1 .. k + 1 PROVE h[i] = step[i][h[i - 1]]
    <3>1. CASE i = k + 1
      BY <2>3, <2>5, <3>1
    <3>2. CASE i # k + 1
      <4>1. i \in 1 .. k /\ i \in 0 .. k /\ i - 1 \in 0 .. k
        BY <3>2
      <4>2. h[i] = g[i] /\ h[i - 1] = g[i - 1] /\ g[i] = step[i][g[i - 1]]
        BY <2>1, <2>5, <4>1
      <4> QED BY <4>2
    <3> QED BY <3>1, <3>2
  <2> QED BY <2>4, <2>6, <2>7
<1> HIDE DEF Good
<1>3. n \in Good
  BY <1>1, <1>2, NumberInduction
<1> QED BY <1>3 DEF Good, Recurs

\* Sums of the first elements.
LEMMA PrefixIs ==
  ASSUME NEW s \in Seq(Nat)
  PROVE  /\ Prefix(s, 0) = 0
         /\ \A k \in 1 .. Len(s) : Prefix(s, k) = Prefix(s, k - 1) + s[k]
         /\ \A k \in 0 .. Len(s) : Prefix(s, k) \in Nat
<1> DEFINE n == Len(s)
           next(g) == [i \in 0 .. n |-> IF i = 0 THEN 0 ELSE g[i - 1] + s[i]]
           U == CHOOSE g : g = [i \in 0 .. n |-> IF i = 0 THEN 0 ELSE g[i - 1] + s[i]]
           step == [i \in 1 .. n |-> [v \in Nat |-> v + s[i]]]
<1>1. n \in Nat /\ \A i \in 1 .. n : s[i] \in Nat
  OBVIOUS
<1>2. step \in [1 .. n -> [Nat -> Nat]]
  BY <1>1
<1>3. \A i \in 1 .. n : \A v \in Nat : step[i][v] = v + s[i]
  OBVIOUS
<1>4. PICK h \in [0 .. n -> Nat] : h[0] = 0 /\ \A i \in 1 .. n : h[i] = step[i][h[i - 1]]
  <2> HIDE DEF n, step
  <2>1. n \in Nat /\ 0 \in Nat
    BY <1>1
  <2>2. \E h : Recurs(h, n, Nat, 0, step)
    BY <1>2, <2>1, Recursion
  <2> QED BY <2>2 DEF Recurs
<1>5. h = next(h)
  <2>1. \A i \in 0 .. n : h[i] = IF i = 0 THEN 0 ELSE h[i - 1] + s[i]
    <3> SUFFICES ASSUME NEW i \in 0 .. n, i # 0 PROVE h[i] = h[i - 1] + s[i]
      BY <1>4
    <3>1. i \in 1 .. n /\ i - 1 \in 0 .. n
      BY <1>1
    <3>2. h[i - 1] \in Nat
      BY <3>1
    <3>3. h[i] = step[i][h[i - 1]]
      BY <1>4, <3>1
    <3> HIDE DEF step, n
    <3> QED BY <1>3, <3>1, <3>2, <3>3
  <2> HIDE DEF n
  <2> QED BY <2>1
<1>6. U = next(U)
  BY <1>5
<1>7. \A k \in 0 .. n : Prefix(s, k) = U[k]
  BY DEF Prefix
<1> HIDE DEF U
<1>8. U[0] = 0 /\ \A i \in 1 .. n : U[i] = U[i - 1] + s[i]
  <2>1. \A i \in 0 .. n : U[i] = IF i = 0 THEN 0 ELSE U[i - 1] + s[i]
    BY <1>6
  <2> HIDE DEF n
  <2> QED BY <1>1, <2>1
<1> DEFINE Good == {k \in Nat : k <= n => U[k] \in Nat}
<1> HIDE DEF n
<1>9. 0 \in Good
  BY <1>8
<1>10. ASSUME NEW k \in Nat, k \in Good PROVE k + 1 \in Good
  <2> SUFFICES ASSUME k + 1 <= n PROVE U[k + 1] \in Nat
    OBVIOUS
  <2>1. k + 1 \in 1 .. n /\ k + 1 - 1 = k /\ k <= n
    BY <1>1
  <2>2. U[k + 1] = U[k] + s[k + 1] /\ s[k + 1] \in Nat
    BY <1>1, <1>8, <2>1
  <2> QED BY <1>10, <2>1, <2>2
<1>11. \A k \in Nat : k \in Good
  <2> HIDE DEF Good
  <2> QED BY <1>9, <1>10, NumberInduction
<1>12. \A k \in 0 .. n : U[k] \in Nat
  BY <1>1, <1>11
<1>13. Prefix(s, 0) = 0 /\ \A k \in 0 .. n : Prefix(s, k) \in Nat
  <2>1. 0 \in 0 .. n
    BY <1>1
  <2> QED BY <1>7, <1>8, <1>12, <2>1
<1>14. ASSUME NEW k \in 1 .. n PROVE Prefix(s, k) = Prefix(s, k - 1) + s[k]
  <2>1. k \in 0 .. n /\ k - 1 \in 0 .. n
    BY <1>1
  <2>2. Prefix(s, k) = U[k] /\ Prefix(s, k - 1) = U[k - 1] /\ U[k] = U[k - 1] + s[k]
    BY <1>7, <1>8, <2>1
  <2> QED BY <2>2
<1> QED BY <1>13, <1>14 DEF n

\* A sequence of sequences, one after another: its first i.
LEMMA FlattenStep ==
  ASSUME NEW T, NEW ss \in Seq(Seq(T)), ss # <<>>
  PROVE  \E h \in [1 .. Len(ss) -> Seq(T)] :
           /\ FlattenSeq(ss) = h[Len(ss)] /\ h[1] = ss[1]
           /\ \A i \in 2 .. Len(ss) : h[i] = h[i - 1] \o ss[i]
<1> DEFINE n == Len(ss)
           U == CHOOSE g : g = [i \in 1 .. n |-> IF i = 1 THEN ss[i] ELSE g[i - 1] \o ss[i]]
           step == [i \in 1 .. n |-> [v \in Seq(T) |-> v \o ss[i]]]
<1>1. n \in Nat /\ n # 0 /\ \A i \in 1 .. n : ss[i] \in Seq(T)
  OBVIOUS
<1>2. step \in [1 .. n -> [Seq(T) -> Seq(T)]]
  <2> SUFFICES ASSUME NEW i \in 1 .. n, NEW v \in Seq(T) PROVE v \o ss[i] \in Seq(T)
    OBVIOUS
  <2>1. ss[i] \in Seq(T)
    BY <1>1
  <2> QED BY <2>1
<1>3. \A i \in 1 .. n : \A v \in Seq(T) : step[i][v] = v \o ss[i]
  OBVIOUS
<1>4. PICK h \in [0 .. n -> Seq(T)] : h[0] = <<>> /\ \A i \in 1 .. n : h[i] = step[i][h[i - 1]]
  <2>1. <<>> \in Seq(T)
    OBVIOUS
  <2> HIDE DEF n, step
  <2>2. n \in Nat
    BY <1>1
  <2>3. \E h : Recurs(h, n, Seq(T), <<>>, step)
    BY <1>2, <2>1, <2>2, Recursion
  <2> QED BY <2>3 DEF Recurs
<1> DEFINE g == [i \in 1 .. n |-> h[i]]
<1>5. \A i \in 1 .. n : h[i] = h[i - 1] \o ss[i] /\ h[i - 1] \in Seq(T) /\ h[i] \in Seq(T)
  <2> SUFFICES ASSUME NEW i \in 1 .. n PROVE h[i] = h[i - 1] \o ss[i] /\ h[i - 1] \in Seq(T) /\ h[i] \in Seq(T)
    OBVIOUS
  <2>1. i - 1 \in 0 .. n /\ i \in 0 .. n
    BY <1>1
  <2> HIDE DEF step, n
  <2> QED BY <1>3, <1>4, <2>1
<1>6. h[1] = ss[1]
  <2>1. 1 \in 1 .. n /\ 1 - 1 = 0
    BY <1>1
  <2>2. h[1] = <<>> \o ss[1] /\ ss[1] \in Seq(T)
    <3> HIDE DEF n, g, step
    <3>1. PICK j \in 1 .. n : j = 1
      BY <2>1
    <3>2. h[j] = h[j - 1] \o ss[j]
      BY <1>5
    <3>3. j - 1 = 0
      BY <3>1
    <3>4. ss[j] \in Seq(T)
      BY <1>1
    <3> QED BY <1>4, <3>1, <3>2, <3>3, <3>4
  <2> QED BY <2>2
<1>7. g = [i \in 1 .. n |-> IF i = 1 THEN ss[i] ELSE g[i - 1] \o ss[i]]
  <2>1. \A i \in 1 .. n : g[i] = IF i = 1 THEN ss[i] ELSE g[i - 1] \o ss[i]
    <3> SUFFICES ASSUME NEW i \in 1 .. n, i # 1 PROVE h[i] = g[i - 1] \o ss[i]
      BY <1>6
    <3>1. i - 1 \in 1 .. n
      BY <1>1
    <3>2. g[i - 1] = h[i - 1]
      BY <3>1
    <3> QED BY <1>5, <3>2
  <2>2. g = [i \in 1 .. n |-> g[i]]
    OBVIOUS
  <2> HIDE DEF g
  <2> QED BY <2>1, <2>2
<1>8. U = [i \in 1 .. n |-> IF i = 1 THEN ss[i] ELSE U[i - 1] \o ss[i]]
  <2> HIDE DEF g
  <2> QED BY <1>7
<1>9. FlattenSeq(ss) = U[n]
  BY <1>1 DEF FlattenSeq
<1> HIDE DEF U, n, g, step
<1>10. U[1] = ss[1] /\ \A i \in 2 .. n : U[i] = U[i - 1] \o ss[i]
  <2>1. 1 \in 1 .. n /\ 2 .. n \subseteq 1 .. n /\ 1 \notin 2 .. n
    BY <1>1
  <2>2. \A i \in 1 .. n : U[i] = IF i = 1 THEN ss[i] ELSE U[i - 1] \o ss[i]
    BY <1>8
  <2> QED BY <2>1, <2>2
<1> DEFINE Good == {k \in Nat : 1 <= k /\ k <= n => U[k] \in Seq(T)}
<1>11. 0 \in Good
  OBVIOUS
<1>12. ASSUME NEW k \in Nat, k \in Good PROVE k + 1 \in Good
  <2> SUFFICES ASSUME k + 1 <= n PROVE U[k + 1] \in Seq(T)
    OBVIOUS
  <2>1. CASE k = 0
    BY <1>1, <1>10, <2>1
  <2>2. CASE k # 0
    <3>1. k + 1 \in 2 .. n /\ k + 1 \in 1 .. n /\ k + 1 - 1 = k /\ 1 <= k /\ k <= n
      BY <1>1, <2>2
    <3>2. U[k + 1] = U[k] \o ss[k + 1]
      <4>1. PICK j : j = k + 1
        OBVIOUS
      <4>2. j \in 2 .. n /\ j - 1 = k
        BY <3>1, <4>1
      <4>3. U[j] = U[j - 1] \o ss[j]
        BY <1>10, <4>2, Zenon
      <4> QED BY <4>1, <4>2, <4>3, Zenon
    <3>3. ss[k + 1] \in Seq(T)
      BY <1>1, <3>1
    <3>4. U[k] \in Seq(T)
      BY <1>12, <3>1
    <3> QED BY <3>2, <3>3, <3>4
  <2> QED BY <2>1, <2>2
<1>13. \A k \in Nat : k \in Good
  <2> HIDE DEF Good
  <2> QED BY <1>11, <1>12, NumberInduction
<1>14. \A i \in 1 .. n : U[i] \in Seq(T)
  BY <1>1, <1>13
<1>15. DOMAIN U = 1 .. n /\ U = [i \in 1 .. n |-> U[i]]
  <2>1. DOMAIN U = DOMAIN [i \in 1 .. n |-> IF i = 1 THEN ss[i] ELSE U[i - 1] \o ss[i]]
    BY <1>8
  <2>2. \A i \in 1 .. n : U[i] = IF i = 1 THEN ss[i] ELSE U[i - 1] \o ss[i]
    BY <1>8
  <2> QED BY <1>8, <2>1, <2>2
<1>16. U \in [1 .. n -> Seq(T)]
  BY <1>14, <1>15
<1> QED BY <1>9, <1>10, <1>16 DEF n

\* The elements of a concatenation.
LEMMA JoinedAt ==
  ASSUME NEW T, NEW s \in Seq(T), NEW t \in Seq(T)
  PROVE  /\ s \o t \in Seq(T) /\ Len(s \o t) = Len(s) + Len(t) /\ Len(s) \in Nat /\ Len(t) \in Nat
         /\ \A i \in 1 .. Len(s) : (s \o t)[i] = s[i]
         /\ \A k \in 1 .. Len(t) : (s \o t)[Len(s) + k] = t[k]
<1>1. Len(s) \in Nat /\ Len(t) \in Nat
  OBVIOUS
<1>2. s \o t \in Seq(T) /\ Len(s \o t) = Len(s) + Len(t)
  OBVIOUS
<1>3. ASSUME NEW i \in 1 .. Len(s) PROVE (s \o t)[i] = s[i]
  OBVIOUS
<1>4. ASSUME NEW k \in 1 .. Len(t) PROVE (s \o t)[Len(s) + k] = t[k]
  <2>1. Len(s) + k \in 1 .. Len(s) + Len(t) /\ ~(Len(s) + k <= Len(s)) /\ Len(s) + k - Len(s) = k
    BY <1>1
  <2> QED BY <2>1
<1> QED BY <1>1, <1>2, <1>3, <1>4

\* How long the parts are, and how many elements come before part p.
Lens(ss) == [i \in 1 .. Len(ss) |-> Len(ss[i])]
Start(ss, p) == Prefix(Lens(ss), p - 1)

\* A part ends where the next one begins.
LEMMA StartIs ==
  ASSUME NEW T, NEW ss \in Seq(Seq(T))
  PROVE  /\ Lens(ss) \in Seq(Nat) /\ Len(Lens(ss)) = Len(ss)
         /\ Prefix(Lens(ss), 0) = 0
         /\ \A p \in 1 .. Len(ss) : /\ ss[p] \in Seq(T) /\ Len(ss[p]) \in Nat /\ Start(ss, p) \in Nat
                                    /\ Prefix(Lens(ss), p) = Start(ss, p) + Len(ss[p])
<1>1. Len(ss) \in Nat /\ \A p \in 1 .. Len(ss) : ss[p] \in Seq(T) /\ Len(ss[p]) \in Nat
  OBVIOUS
<1>2. Lens(ss) \in Seq(Nat) /\ Len(Lens(ss)) = Len(ss)
  <2>1. Lens(ss) = [i \in 1 .. Len(ss) |-> Lens(ss)[i]] /\ \A i \in 1 .. Len(ss) : Lens(ss)[i] \in Nat
    BY <1>1 DEF Lens
  <2> QED BY <1>1, <2>1, TableIs
<1>3. /\ Prefix(Lens(ss), 0) = 0
      /\ \A k \in 1 .. Len(ss) : Prefix(Lens(ss), k) = Prefix(Lens(ss), k - 1) + Lens(ss)[k]
      /\ \A k \in 0 .. Len(ss) : Prefix(Lens(ss), k) \in Nat
  BY <1>2, PrefixIs
<1>4. ASSUME NEW p \in 1 .. Len(ss)
      PROVE  Start(ss, p) \in Nat /\ Prefix(Lens(ss), p) = Start(ss, p) + Len(ss[p])
  <2>1. p - 1 \in 0 .. Len(ss)
    BY <1>1
  <2>2. Lens(ss)[p] = Len(ss[p])
    BY DEF Lens
  <2> QED BY <1>3, <2>1, <2>2 DEF Start
<1> QED BY <1>1, <1>2, <1>3, <1>4

\* f is the first m parts of ss, one after another.
Joins(f, ss, m, T) ==
  /\ f \in Seq(T) /\ Len(f) = Prefix(Lens(ss), m)
  /\ \A p \in 1 .. m : \A k \in 1 .. Len(ss[p]) : Start(ss, p) + k \in 1 .. Len(f) /\ f[Start(ss, p) + k] = ss[p][k]
  /\ \A i \in 1 .. Len(f) : \E p \in 1 .. m : \E k \in 1 .. Len(ss[p]) : i = Start(ss, p) + k

\* The first part is the first part of the whole ...
LEMMA JoinsFirst == ASSUME NEW T, NEW ss \in Seq(Seq(T)), ss # <<>> PROVE Joins(ss[1], ss, 1, T)
<1>1. 1 \in 1 .. Len(ss) /\ 1 - 1 = 0
  OBVIOUS
<1>2. ss[1] \in Seq(T) /\ Len(ss[1]) \in Nat /\ Prefix(Lens(ss), 1) = Start(ss, 1) + Len(ss[1]) /\ Start(ss, 1) = 0
  BY <1>1, StartIs DEF Start
<1>3. Len(ss[1]) = Prefix(Lens(ss), 1)
  BY <1>2
<1>4. ASSUME NEW p \in 1 .. 1, NEW k \in 1 .. Len(ss[p])
      PROVE  Start(ss, p) + k \in 1 .. Len(ss[1]) /\ ss[1][Start(ss, p) + k] = ss[p][k]
  <2>1. p = 1
    OBVIOUS
  <2>2. Start(ss, p) + k = k
    BY <1>2, <2>1
  <2> QED BY <2>1, <2>2
<1>5. ASSUME NEW i \in 1 .. Len(ss[1]) PROVE \E p \in 1 .. 1 : \E k \in 1 .. Len(ss[p]) : i = Start(ss, p) + k
  <2>1. i = Start(ss, 1) + i
    BY <1>2
  <2> QED BY <2>1
<1> QED BY <1>2, <1>3, <1>4, <1>5 DEF Joins

\* ... and the next one appended makes one part more.
LEMMA JoinsNext ==
  ASSUME NEW T, NEW ss \in Seq(Seq(T)), NEW m \in Nat \ {0}, m + 1 <= Len(ss), NEW f, Joins(f, ss, m, T)
  PROVE  Joins(f \o ss[m + 1], ss, m + 1, T)
<1>1. m + 1 \in 1 .. Len(ss) /\ m + 1 - 1 = m
  OBVIOUS
<1>2. PICK t : t = ss[m + 1]
  OBVIOUS
<1>3. t \in Seq(T) /\ Len(t) \in Nat /\ Prefix(Lens(ss), m + 1) = Start(ss, m + 1) + Len(t)
  BY <1>1, <1>2, StartIs
<1>4. f \in Seq(T) /\ Start(ss, m + 1) = Len(f)
  BY <1>1 DEF Joins, Start
<1>5. PICK g : g = f \o t
  OBVIOUS
<1>6. /\ g \in Seq(T) /\ Len(g) = Len(f) + Len(t) /\ Len(f) \in Nat
      /\ \A i \in 1 .. Len(f) : g[i] = f[i]
      /\ \A k \in 1 .. Len(t) : g[Len(f) + k] = t[k]
  BY <1>3, <1>4, <1>5, JoinedAt
<1>7. Len(g) = Prefix(Lens(ss), m + 1)
  BY <1>3, <1>4, <1>6
<1>8. ASSUME NEW p \in 1 .. m + 1, NEW k \in 1 .. Len(ss[p])
      PROVE  Start(ss, p) + k \in 1 .. Len(g) /\ g[Start(ss, p) + k] = ss[p][k]
  <2>1. CASE p = m + 1
    <3>1. k \in 1 .. Len(t) /\ Start(ss, p) = Len(f)
      BY <1>2, <1>4, <2>1
    <3>2. Len(f) + k \in 1 .. Len(g)
      BY <1>3, <1>6, <3>1
    <3> QED BY <1>2, <1>6, <2>1, <3>1, <3>2
  <2>2. CASE p # m + 1
    <3>1. p \in 1 .. m
      BY <2>2
    <3>2. Start(ss, p) + k \in 1 .. Len(f) /\ f[Start(ss, p) + k] = ss[p][k]
      BY <3>1 DEF Joins
    <3>3. PICK i : i = Start(ss, p) + k
      OBVIOUS
    <3>4. i \in 1 .. Len(g) /\ g[i] = f[i]
      BY <1>3, <1>6, <3>2, <3>3
    <3> QED BY <3>2, <3>3, <3>4
  <2> QED BY <2>1, <2>2
<1>9. ASSUME NEW i \in 1 .. Len(g) PROVE \E p \in 1 .. m + 1 : \E k \in 1 .. Len(ss[p]) : i = Start(ss, p) + k
  <2>1. CASE i <= Len(f)
    <3>1. i \in 1 .. Len(f)
      BY <1>6, <2>1
    <3>2. PICK p \in 1 .. m : \E k \in 1 .. Len(ss[p]) : i = Start(ss, p) + k
      BY <3>1 DEF Joins
    <3>3. p \in 1 .. m + 1
      OBVIOUS
    <3> QED BY <3>2, <3>3
  <2>2. CASE ~(i <= Len(f))
    <3>1. i - Len(f) \in 1 .. Len(t) /\ i = Len(f) + (i - Len(f))
      BY <1>3, <1>6, <2>2
    <3>2. PICK k \in 1 .. Len(t) : i = Len(f) + k
      BY <3>1
    <3>3. m + 1 \in 1 .. m + 1
      OBVIOUS
    <3> QED BY <1>2, <1>4, <3>2, <3>3
  <2> QED BY <2>1, <2>2
<1> QED BY <1>2, <1>5, <1>6, <1>7, <1>8, <1>9 DEF Joins

\* FlattenSeq puts the elements of part p behind those of the parts before it, and nothing else.
LEMMA FlattenIs == ASSUME NEW T, NEW ss \in Seq(Seq(T)) PROVE Joins(FlattenSeq(ss), ss, Len(ss), T)
<1>1. CASE ss = <<>>
  <2>1. Len(ss) = 0 /\ FlattenSeq(ss) = <<>>
    BY <1>1 DEF FlattenSeq
  <2>2. Prefix(Lens(ss), 0) = 0
    BY StartIs
  <2>3. <<>> \in Seq(T) /\ Len(<<>>) = 0 /\ 1 .. 0 = {}
    OBVIOUS
  <2> QED BY <2>1, <2>2, <2>3 DEF Joins
<1>2. CASE ss # <<>>
  <2>1. PICK h \in [1 .. Len(ss) -> Seq(T)] : /\ FlattenSeq(ss) = h[Len(ss)] /\ h[1] = ss[1]
                                              /\ \A i \in 2 .. Len(ss) : h[i] = h[i - 1] \o ss[i]
    BY <1>2, FlattenStep
  <2> DEFINE Good == {m \in Nat : 1 <= m /\ m <= Len(ss) => Joins(h[m], ss, m, T)}
  <2>2. 0 \in Good
    OBVIOUS
  <2>3. ASSUME NEW m \in Nat, m \in Good PROVE m + 1 \in Good
    <3> SUFFICES ASSUME m + 1 <= Len(ss) PROVE Joins(h[m + 1], ss, m + 1, T)
      OBVIOUS
    <3>1. CASE m = 0
      <4>1. m + 1 = 1
        BY <3>1
      <4>2. Joins(h[1], ss, 1, T)
        BY <1>2, <2>1, JoinsFirst
      <4> QED BY <4>1, <4>2
    <3>2. CASE m # 0
      <4>1. m \in Nat \ {0} /\ m <= Len(ss) /\ 1 <= m /\ Len(ss) \in Nat
        BY <3>2
      <4>2. Joins(h[m], ss, m, T)
        BY <2>3, <4>1
      <4>3. PICK j : j = m + 1
        OBVIOUS
      <4>4. j \in 2 .. Len(ss) /\ j - 1 = m
        BY <4>1, <4>3
      <4>5. h[j] = h[j - 1] \o ss[j]
        BY <2>1, <4>4, Zenon
      <4>6. h[m + 1] = h[m] \o ss[m + 1]
        BY <4>3, <4>4, <4>5, Zenon
      <4> QED BY <4>1, <4>2, <4>6, JoinsNext
    <3> QED BY <3>1, <3>2
  <2>4. Len(ss) \in Nat /\ 1 <= Len(ss)
    BY <1>2
  <2>5. Len(ss) \in Good
    <3> HIDE DEF Good
    <3> QED BY <2>2, <2>3, <2>4, NumberInduction
  <2> QED BY <2>1, <2>4, <2>5
<1> QED BY <1>1, <1>2

\* Sequences of parts of the same lengths ...
SameLens(ss, tt) == Len(ss) = Len(tt) /\ \A p \in 1 .. Len(ss) : Len(ss[p]) = Len(tt[p])

\* ... one after another have matching elements at the same places.
Matches(f, g, ss, tt) ==
  /\ Len(f) = Len(g)
  /\ \A i \in DOMAIN f : \E p \in 1 .. Len(ss) : \E k \in 1 .. Len(ss[p]) : f[i] = ss[p][k] /\ g[i] = tt[p][k]

\* FlattenSeq keeps them in step.
LEMMA FlattenAlike ==
  ASSUME NEW T, NEW ss \in Seq(Seq(T)), NEW U, NEW tt \in Seq(Seq(U)), SameLens(ss, tt)
  PROVE  /\ FlattenSeq(ss) \in Seq(T) /\ FlattenSeq(tt) \in Seq(U)
         /\ Matches(FlattenSeq(ss), FlattenSeq(tt), ss, tt)
<1> DEFINE f == FlattenSeq(ss)
           g == FlattenSeq(tt)
           n == Len(ss)
<1>1. Lens(ss) = Lens(tt) /\ Len(tt) = n
  BY DEF Lens, SameLens
<1>2. \A p : Start(ss, p) = Start(tt, p)
  BY <1>1 DEF Start
<1>3. Joins(f, ss, n, T) /\ Joins(g, tt, n, U)
  BY <1>1, FlattenIs
<1> HIDE DEF f, g
<1>4. f \in Seq(T) /\ g \in Seq(U) /\ Len(f) = Len(g)
  BY <1>1, <1>3 DEF Joins
<1>5. ASSUME NEW i \in DOMAIN f
      PROVE  \E p \in 1 .. n : \E k \in 1 .. Len(ss[p]) : f[i] = ss[p][k] /\ g[i] = tt[p][k]
  <2>1. i \in 1 .. Len(f)
    BY <1>4
  <2>2. PICK p \in 1 .. n : \E k \in 1 .. Len(ss[p]) : i = Start(ss, p) + k
    BY <1>3, <2>1 DEF Joins
  <2>3. PICK k \in 1 .. Len(ss[p]) : i = Start(ss, p) + k
    BY <2>2
  <2>4. f[i] = ss[p][k]
    BY <1>3, <2>3 DEF Joins
  <2>5. k \in 1 .. Len(tt[p]) /\ i = Start(tt, p) + k
    BY <1>2, <2>3 DEF SameLens
  <2>6. g[i] = tt[p][k]
    BY <1>3, <2>5 DEF Joins
  <2> QED BY <2>4, <2>6
<1>6. Matches(f, g, ss, tt)
  BY <1>4, <1>5 DEF Matches
<1> QED BY <1>4, <1>6 DEF f, g

-----------------------------------------------------------------------------
(* The parent. *)

\* The elements a rank of the parent has, and what it may send.
ElemsOf(p) == {e \in Elems : home[e] = p}
Item(p) == [elem : ElemsOf(p), ghost : BOOLEAN]

\* A rank of the parent numbers the vertices of its elements, each once, and sends only its elements.
ParentIs ==
  \A p \in Procs :
    /\ parentVerts[p] \in Seq(Nat)
    /\ \A k, l \in DOMAIN parentVerts[p] : parentVerts[p][k] = parentVerts[p][l] => k = l
    /\ \A e \in ElemsOf(p) : \A i \in DOMAIN Conn[e] : \E k \in DOMAIN parentVerts[p] : parentVerts[p][k] = Conn[e][i]
    /\ \A r \in Procs : p2r[p][r] \in Seq(Item(p))

\* The dofs of an element are the local numbers of its vertices.
LEMMA DofsAre ==
  ASSUME RedecompAssumption, ParentIs, NEW p \in Procs, NEW e \in ElemsOf(p)
  PROVE  /\ GetElementDofs(p, e) \in Seq(Nat) /\ Len(GetElementDofs(p, e)) = Len(Conn[e])
         /\ \A i \in DOMAIN Conn[e] : /\ GetElementDofs(p, e)[i] \in DOMAIN parentVerts[p]
                                      /\ parentVerts[p][GetElementDofs(p, e)[i]] = Conn[e][i]
<1> DEFINE pv == parentVerts[p]
           t == [k \in DOMAIN Conn[e] |-> FirstAt(pv, Conn[e][k])]
<1>1. Conn[e] \in Seq(Nat) /\ Len(Conn[e]) \in Nat /\ DOMAIN Conn[e] = 1 .. Len(Conn[e])
  BY DEF RedecompAssumption, ElemsOf
<1>2. pv \in Seq(Nat) /\ \A i \in DOMAIN Conn[e] : \E k \in DOMAIN pv : pv[k] = Conn[e][i]
  BY DEF ParentIs
<1>3. GetElementDofs(p, e) = t \o <<>>
  BY DEF GetElementDofs, Map
<1> HIDE DEF pv
<1>4. ASSUME NEW i \in DOMAIN Conn[e] PROVE t[i] \in DOMAIN pv /\ t[i] \in Nat /\ pv[t[i]] = Conn[e][i]
  <2>1. t[i] = FirstAt(pv, Conn[e][i])
    OBVIOUS
  <2>2. FirstAt(pv, Conn[e][i]) \in DOMAIN pv /\ pv[FirstAt(pv, Conn[e][i])] = Conn[e][i]
    BY <1>2, FirstAtIs
  <2>3. DOMAIN pv \subseteq Nat
    BY <1>2
  <2> QED BY <2>1, <2>2, <2>3
<1>5. t \in Seq(Nat) /\ Len(t) = Len(Conn[e]) /\ t \o <<>> = t
  <2>1. t = [k \in 1 .. Len(Conn[e]) |-> t[k]]
    BY <1>1
  <2> HIDE DEF t
  <2>2. \A k \in 1 .. Len(Conn[e]) : t[k] \in Nat
    BY <1>1, <1>4
  <2> QED BY <1>1, <2>1, <2>2, TableIs
<1> HIDE DEF t
<1>6. GetElementDofs(p, e) = t
  BY <1>3, <1>5
<1> QED BY <1>4, <1>5, <1>6 DEF pv

\* The vertices that the elements of a list have, in the order they are met, each once.
ConnsOf(list) == [k \in 1 .. Len(list) |-> Conn[list[k].elem]]
VertsOf(list) == Distinct(FlattenSeq(ConnsOf(list)))

\* They are numbers, and no vertex of an element is left out.
LEMMA VertsAre ==
  ASSUME RedecompAssumption, NEW p \in Procs, NEW list \in Seq(Item(p))
  PROVE  /\ ConnsOf(list) \in Seq(Seq(Nat)) /\ Len(ConnsOf(list)) = Len(list)
         /\ VertsOf(list) \in Seq(Nat)
         /\ \A k \in DOMAIN list : \A j \in DOMAIN Conn[list[k].elem] :
              \E i \in DOMAIN VertsOf(list) : VertsOf(list)[i] = Conn[list[k].elem][j]
<1> DEFINE C == ConnsOf(list)
           f == FlattenSeq(C)
<1>1. Len(list) \in Nat /\ DOMAIN list = 1 .. Len(list)
  OBVIOUS
<1>2. \A k \in 1 .. Len(list) : list[k].elem \in Elems /\ Conn[list[k].elem] \in Seq(Nat)
  <2>1. \A k \in 1 .. Len(list) : list[k] \in Item(p)
    OBVIOUS
  <2>2. \A k \in 1 .. Len(list) : list[k].elem \in Elems
    BY <2>1 DEF Item, ElemsOf
  <2> QED BY <2>2 DEF RedecompAssumption
<1>3. \A k \in 1 .. Len(list) : C[k] = Conn[list[k].elem]
  BY DEF ConnsOf
<1>4. C \in Seq(Seq(Nat)) /\ Len(C) = Len(list)
  <2>1. C = [k \in 1 .. Len(list) |-> C[k]]
    BY DEF ConnsOf
  <2>2. \A k \in 1 .. Len(list) : C[k] \in Seq(Nat)
    BY <1>2, <1>3
  <2> HIDE DEF C
  <2> QED BY <1>1, <2>1, <2>2, TableIs
<1> HIDE DEF C
<1>5. Joins(f, C, Len(C), Nat)
  BY <1>4, FlattenIs
<1> HIDE DEF f
<1>6. f \in Seq(Nat) /\ DOMAIN f = 1 .. Len(f)
  BY <1>5 DEF Joins
<1>7. /\ Distinct(f) \in Seq(Nat)
      /\ \A k \in DOMAIN f : \E i \in DOMAIN Distinct(f) : Distinct(f)[i] = f[k]
  BY <1>6, DistinctIs
<1>8. ASSUME NEW k \in DOMAIN list, NEW j \in DOMAIN Conn[list[k].elem]
      PROVE  \E i \in DOMAIN Distinct(f) : Distinct(f)[i] = Conn[list[k].elem][j]
  <2>1. k \in 1 .. Len(C) /\ j \in 1 .. Len(C[k])
    BY <1>1, <1>2, <1>3, <1>4
  <2>2. Start(C, k) + j \in DOMAIN f /\ f[Start(C, k) + j] = C[k][j]
    BY <1>5, <1>6, <2>1 DEF Joins
  <2>3. PICK a \in DOMAIN f : f[a] = C[k][j]
    BY <2>2
  <2> QED BY <1>1, <1>3, <1>7, <2>3
<1> QED BY <1>4, <1>7, <1>8 DEF VertsOf, f, C

-----------------------------------------------------------------------------
(* What is sent. *)

\* The nodes of elements, as NodeList meets them.
Node == [dof : Nat, ghost : BOOLEAN]
Dof(p, d, global) == IF global THEN GetGlobalTDofNumber(p, d) ELSE d
NodesOfItem(p, x, global) ==
  Map(Map(GetElementDofs(p, x.elem), LAMBDA d : IF global THEN GetGlobalTDofNumber(p, d) ELSE d),
      LAMBDA d : [dof |-> d, ghost |-> x.ghost])
Met(p, r, global) == FlattenSeq(Map(p2r[p][r], LAMBDA x : NodesOfItem(p, x, global)))
MetDofs(p, r, global) == Map(Met(p, r, global), LAMBDA m : m.dof)

\* The nodes of one element, in the order of its vertices.
LEMMA NodesOfItemAre ==
  ASSUME RedecompAssumption, ParentIs, NEW p \in Procs, NEW x \in Item(p), NEW global \in BOOLEAN
  PROVE  /\ NodesOfItem(p, x, global) \in Seq(Node) /\ Len(NodesOfItem(p, x, global)) = Len(Conn[x.elem])
         /\ \A i \in DOMAIN Conn[x.elem] :
              NodesOfItem(p, x, global)[i].dof = IF global THEN Conn[x.elem][i] ELSE GetElementDofs(p, x.elem)[i]
<1> DEFINE e == x.elem
           D == GetElementDofs(p, e)
           n == Len(Conn[e])
           t == [k \in DOMAIN D |-> Dof(p, D[k], global)]
           u == [k \in DOMAIN t |-> [dof |-> t[k], ghost |-> x.ghost]]
<1>1. e \in ElemsOf(p) /\ x.ghost \in BOOLEAN
  BY DEF Item
<1>2. e \in Elems /\ n \in Nat /\ DOMAIN Conn[e] = 1 .. n /\ \A i \in 1 .. n : Conn[e][i] \in Nat
  <2>1. e \in Elems /\ Conn[e] \in Seq(Nat)
    BY <1>1 DEF RedecompAssumption, ElemsOf
  <2> QED BY <2>1
<1> HIDE DEF e
<1>3. /\ D \in Seq(Nat) /\ Len(D) = n
      /\ \A i \in 1 .. n : D[i] \in DOMAIN parentVerts[p] /\ parentVerts[p][D[i]] = Conn[e][i]
  BY <1>1, <1>2, DofsAre
<1> HIDE DEF D, n
<1>4. DOMAIN D = 1 .. n /\ \A i \in 1 .. n : D[i] \in Nat
  BY <1>2, <1>3
<1>5. \A i \in 1 .. n : Dof(p, D[i], global) = (IF global THEN Conn[e][i] ELSE D[i]) /\ Dof(p, D[i], global) \in Nat
  BY <1>2, <1>3, <1>4 DEF Dof, GetGlobalTDofNumber
<1>6. t \in Seq(Nat) /\ Len(t) = n /\ t \o <<>> = t
  <2>1. t = [k \in 1 .. n |-> t[k]] /\ \A k \in 1 .. n : t[k] \in Nat
    BY <1>4, <1>5
  <2> HIDE DEF t
  <2> QED BY <1>2, <2>1, TableIs
<1>7. DOMAIN t = 1 .. n /\ \A i \in 1 .. n : t[i] = IF global THEN Conn[e][i] ELSE D[i]
  BY <1>4, <1>5
<1>8. NodesOfItem(p, x, global) = u \o <<>>
  <2>1. Map(D, LAMBDA d : IF global THEN GetGlobalTDofNumber(p, d) ELSE d) = t \o <<>>
    BY DEF Map, Dof
  <2>2. NodesOfItem(p, x, global) = Map(Map(D, LAMBDA d : IF global THEN GetGlobalTDofNumber(p, d) ELSE d), LAMBDA d : [dof |-> d, ghost |-> x.ghost])
    BY DEF NodesOfItem, D, e
  <2>3. Map(t, LAMBDA d : [dof |-> d, ghost |-> x.ghost]) = u \o <<>>
    BY DEF Map
  <2> HIDE DEF t, u
  <2> QED BY <1>6, <2>1, <2>2, <2>3
<1> HIDE DEF t
<1>9. \A k \in 1 .. n : t[k] \in Nat
  BY <1>2, <1>6
<1>10. u \in Seq(Node) /\ Len(u) = n /\ u \o <<>> = u
  <2>1. u = [k \in 1 .. n |-> u[k]] /\ \A k \in 1 .. n : u[k] \in Node
    BY <1>1, <1>7, <1>9 DEF Node
  <2> HIDE DEF u
  <2> QED BY <1>2, <2>1, TableIs
<1>11. \A i \in 1 .. n : u[i].dof = IF global THEN Conn[e][i] ELSE D[i]
  BY <1>7
<1>12. NodesOfItem(p, x, global) = u
  BY <1>8, <1>10
<1> HIDE DEF u
<1> QED BY <1>2, <1>10, <1>11, <1>12 DEF n, D, e

\* The nodes of all elements sent, by global and by local numbers.
LEMMA MetAre ==
  ASSUME RedecompAssumption, ParentIs, NEW p \in Procs, NEW r \in Procs, NEW global \in BOOLEAN
  PROVE  LET F == FlattenSeq(ConnsOf(p2r[p][r]))
         IN  /\ F \in Seq(Nat) /\ MetDofs(p, r, global) \in Seq(Nat) /\ Len(MetDofs(p, r, global)) = Len(F)
             /\ global => MetDofs(p, r, global) = F
             /\ ~global => \A i \in DOMAIN F : /\ MetDofs(p, r, global)[i] \in DOMAIN parentVerts[p]
                                               /\ parentVerts[p][MetDofs(p, r, global)[i]] = F[i]
<1> DEFINE list == p2r[p][r]
           C == ConnsOf(list)
           F == FlattenSeq(C)
           L == [k \in DOMAIN list |-> NodesOfItem(p, list[k], global)]
           M == FlattenSeq(L)
           t == [k \in DOMAIN M |-> M[k].dof]
<1>1. list \in Seq(Item(p)) /\ Len(list) \in Nat /\ DOMAIN list = 1 .. Len(list)
  BY DEF ParentIs
<1> HIDE DEF list
<1>2. \A k \in 1 .. Len(list) : list[k] \in Item(p)
  BY <1>1
<1>3. /\ C \in Seq(Seq(Nat)) /\ Len(C) = Len(list)
      /\ \A k \in 1 .. Len(list) : C[k] = Conn[list[k].elem]
  BY <1>1, VertsAre DEF ConnsOf
<1>4. L \in Seq(Seq(Node)) /\ Len(L) = Len(list) /\ L \o <<>> = L
  <2>1. L = [k \in 1 .. Len(list) |-> L[k]] /\ \A k \in 1 .. Len(list) : L[k] \in Seq(Node)
    BY <1>1, <1>2, NodesOfItemAre
  <2> HIDE DEF L
  <2> QED BY <1>1, <2>1, TableIs
<1>5. Met(p, r, global) = M
  <2>1. Map(list, LAMBDA x : NodesOfItem(p, x, global)) = L \o <<>>
    BY DEF Map
  <2>2. Met(p, r, global) = FlattenSeq(Map(list, LAMBDA x : NodesOfItem(p, x, global)))
    BY DEF Met, list
  <2> HIDE DEF L
  <2> QED BY <1>4, <2>1, <2>2
<1>6. \A k \in 1 .. Len(list) : L[k] = NodesOfItem(p, list[k], global)
  BY <1>1
<1> HIDE DEF L, C
<1>7. \A k \in 1 .. Len(list) : /\ Len(L[k]) = Len(C[k]) /\ DOMAIN C[k] = 1 .. Len(C[k])
                                /\ \A i \in DOMAIN C[k] : L[k][i].dof = IF global THEN C[k][i] ELSE GetElementDofs(p, list[k].elem)[i]
  <2> SUFFICES ASSUME NEW k \in 1 .. Len(list)
               PROVE  /\ Len(L[k]) = Len(C[k]) /\ DOMAIN C[k] = 1 .. Len(C[k])
                      /\ \A i \in DOMAIN C[k] : L[k][i].dof = IF global THEN C[k][i] ELSE GetElementDofs(p, list[k].elem)[i]
    OBVIOUS
  <2>1. C[k] \in Seq(Nat)
    BY <1>3
  <2>2. DOMAIN C[k] = 1 .. Len(C[k])
    BY <2>1
  <2>3. list[k] \in Item(p)
    BY <1>2
  <2>4. /\ Len(NodesOfItem(p, list[k], global)) = Len(Conn[list[k].elem])
        /\ \A i \in DOMAIN Conn[list[k].elem] :
              NodesOfItem(p, list[k], global)[i].dof = IF global THEN Conn[list[k].elem][i] ELSE GetElementDofs(p, list[k].elem)[i]
    BY <2>3, NodesOfItemAre
  <2> QED BY <1>3, <1>6, <2>2, <2>4
<1>8. /\ M \in Seq(Node) /\ F \in Seq(Nat) /\ Len(M) = Len(F)
      /\ \A i \in DOMAIN M : \E k \in 1 .. Len(L) : \E j \in 1 .. Len(L[k]) : M[i] = L[k][j] /\ F[i] = C[k][j]
  <2>1. SameLens(L, C)
    BY <1>3, <1>4, <1>7 DEF SameLens
  <2>2. L \in Seq(Seq(Node)) /\ C \in Seq(Seq(Nat))
    BY <1>3, <1>4
  <2>3. M \in Seq(Node) /\ F \in Seq(Nat) /\ Matches(M, F, L, C)
    BY <2>1, <2>2, FlattenAlike
  <2> HIDE DEF M, F
  <2> QED BY <2>3 DEF Matches
<1> HIDE DEF M, F
<1>9. DOMAIN M = 1 .. Len(F) /\ DOMAIN F = 1 .. Len(F) /\ Len(F) \in Nat /\ \A k \in 1 .. Len(F) : M[k].dof \in Nat
  <2>1. DOMAIN M = 1 .. Len(F) /\ DOMAIN F = 1 .. Len(F) /\ Len(F) \in Nat /\ \A k \in 1 .. Len(F) : M[k] \in Node
    BY <1>8
  <2> QED BY <2>1 DEF Node
<1>10. t \in Seq(Nat) /\ Len(t) = Len(F) /\ t \o <<>> = t
  <2>1. t = [k \in 1 .. Len(F) |-> t[k]] /\ \A k \in 1 .. Len(F) : t[k] \in Nat
    BY <1>9
  <2> HIDE DEF t
  <2> QED BY <1>9, <2>1, TableIs
<1>11. MetDofs(p, r, global) = t
  <2>1. MetDofs(p, r, global) = t \o <<>>
    BY <1>5 DEF MetDofs, Map
  <2> HIDE DEF t
  <2> QED BY <1>10, <2>1
<1>12. ASSUME NEW i \in DOMAIN F
       PROVE  \E k \in 1 .. Len(list) : \E j \in DOMAIN C[k] :
                F[i] = C[k][j] /\ t[i] = IF global THEN C[k][j] ELSE GetElementDofs(p, list[k].elem)[j]
  <2>1. PICK k \in 1 .. Len(L) : \E j \in 1 .. Len(L[k]) : M[i] = L[k][j] /\ F[i] = C[k][j]
    BY <1>8, <1>9
  <2>2. PICK j \in 1 .. Len(L[k]) : M[i] = L[k][j] /\ F[i] = C[k][j]
    BY <2>1
  <2>3. k \in 1 .. Len(list) /\ j \in DOMAIN C[k]
    BY <1>4, <1>7, <2>2
  <2>4. t[i] = M[i].dof
    BY <1>9
  <2> HIDE DEF t
  <2> QED BY <1>7, <2>2, <2>3, <2>4
<1> HIDE DEF t
<1>13. ASSUME global PROVE t = F
  <2>1. \A i \in DOMAIN F : F[i] = t[i]
    BY <1>12, <1>13
  <2>2. t \in Seq(Nat) /\ F \in Seq(Nat) /\ Len(F) = Len(t)
    BY <1>8, <1>10
  <2> QED BY <2>1, <2>2, SameSeq
<1>14. ASSUME ~global, NEW i \in DOMAIN F PROVE t[i] \in DOMAIN parentVerts[p] /\ parentVerts[p][t[i]] = F[i]
  <2>1. PICK k \in 1 .. Len(list) : \E j \in DOMAIN C[k] : F[i] = C[k][j] /\ t[i] = GetElementDofs(p, list[k].elem)[j]
    BY <1>12, <1>14
  <2>2. PICK j \in DOMAIN C[k] : F[i] = C[k][j] /\ t[i] = GetElementDofs(p, list[k].elem)[j]
    BY <2>1
  <2>3. list[k].elem \in ElemsOf(p)
    BY <1>2 DEF Item
  <2>4. C[k] = Conn[list[k].elem]
    BY <1>3
  <2> QED BY <2>2, <2>3, <2>4, DofsAre
<1> QED BY <1>8, <1>10, <1>11, <1>13, <1>14 DEF F, C, list

\* The list of nodes that is sent has each of these once.
LEMMA NodeListIs ==
  ASSUME RedecompAssumption, ParentIs, NEW p \in Procs, NEW r \in Procs, NEW global \in BOOLEAN
  PROVE  Dofs(P2RNodeList(p, r, global)) = Distinct(MetDofs(p, r, global))
<1> DEFINE D == Distinct(MetDofs(p, r, global))
           G(d) == \A k \in DOMAIN Met(p, r, global) : Met(p, r, global)[k].dof = d => Met(p, r, global)[k].ghost
           t == [k \in DOMAIN D |-> [dof |-> D[k], ghost |-> G(D[k])]]
           u == [k \in DOMAIN t |-> t[k].dof]
<1>1. D \in Seq(Nat)
  BY MetAre, DistinctIs
<1>2. P2RNodeList(p, r, global) = t \o <<>>
  BY DEF P2RNodeList, NodeList, Met, MetDofs, NodesOfItem, FlatMap, Map
<1> HIDE DEF D, G
<1>3. Len(D) \in Nat /\ DOMAIN D = 1 .. Len(D) /\ \A k \in 1 .. Len(D) : D[k] \in Nat
  BY <1>1
<1>4. t \in Seq({t[k] : k \in 1 .. Len(D)}) /\ Len(t) = Len(D) /\ t \o <<>> = t
  <2>1. t = [k \in 1 .. Len(D) |-> t[k]]
    BY <1>3
  <2> HIDE DEF t
  <2>2. \A k \in 1 .. Len(D) : t[k] \in {t[j] : j \in 1 .. Len(D)}
    OBVIOUS
  <2> QED BY <1>3, <2>1, <2>2, TableIs
<1>5. DOMAIN t = 1 .. Len(D) /\ \A k \in 1 .. Len(D) : t[k].dof = D[k]
  BY <1>3
<1> HIDE DEF t
<1>6. P2RNodeList(p, r, global) = t
  BY <1>2, <1>4
<1>7. Dofs(P2RNodeList(p, r, global)) = u \o <<>>
  BY <1>6 DEF Dofs, Map
<1>8. u = [k \in 1 .. Len(D) |-> u[k]] /\ \A k \in 1 .. Len(D) : u[k] = D[k]
  BY <1>5
<1> HIDE DEF u
<1>9. u \in Seq(Nat) /\ Len(u) = Len(D) /\ u \o <<>> = u
  BY <1>3, <1>8, TableIs
<1>10. u = D
  BY <1>1, <1>8, <1>9
<1> QED BY <1>7, <1>9, <1>10 DEF D

\* The global numbers that are sent, and the vertices whose coordinates follow: the same, in the same order.
LEMMA SentIs ==
  ASSUME RedecompAssumption, ParentIs, NEW p \in Procs, NEW r \in Procs
  PROVE  /\ Dofs(P2RNodeList(p, r, TRUE)) = VertsOf(p2r[p][r])
         /\ Map(Dofs(P2RNodeList(p, r, FALSE)), LAMBDA d : parentVerts[p][d]) = VertsOf(p2r[p][r])
<1> DEFINE F == FlattenSeq(ConnsOf(p2r[p][r]))
           s == MetDofs(p, r, FALSE)
           pv == parentVerts[p]
           D == Distinct(s)
           E == Distinct(F)
           t == [k \in DOMAIN D |-> pv[D[k]]]
<1>1. MetDofs(p, r, TRUE) = F /\ F \in Seq(Nat)
  BY MetAre
<1>2. /\ s \in Seq(Nat) /\ Len(s) = Len(F)
      /\ \A i \in DOMAIN F : s[i] \in DOMAIN pv /\ pv[s[i]] = F[i]
  BY MetAre
<1>3. \A k, l \in DOMAIN pv : pv[k] = pv[l] => k = l
  BY DEF ParentIs
<1>4. Dofs(P2RNodeList(p, r, TRUE)) = E /\ Dofs(P2RNodeList(p, r, FALSE)) = D
  BY <1>1, NodeListIs
<1>5. Map(Dofs(P2RNodeList(p, r, FALSE)), LAMBDA d : parentVerts[p][d]) = t \o <<>>
  BY <1>4 DEF Map
<1>6. VertsOf(p2r[p][r]) = E
  BY DEF VertsOf
<1> HIDE DEF F, s, pv
<1>7. DOMAIN F = DOMAIN s /\ \A i, j \in DOMAIN s : (s[i] = s[j]) <=> (F[i] = F[j])
  <2>1. DOMAIN F = DOMAIN s
    BY <1>1, <1>2
  <2> QED BY <1>2, <1>3, <2>1
<1>8. /\ Len(D) = Len(E)
      /\ \A i \in DOMAIN D : \E k \in DOMAIN s : D[i] = s[k] /\ E[i] = F[k]
  <2>1. Alike(s, F)
    BY <1>2, <1>7 DEF Alike
  <2>2. s \in Seq(Nat) /\ F \in Seq(Nat)
    BY <1>1, <1>2
  <2> QED BY <2>1, <2>2, DistinctAlike
<1>9. D \in Seq(Nat) /\ E \in Seq(Nat)
  BY <1>1, <1>2, DistinctIs
<1> HIDE DEF D, E
<1>10. Len(D) \in Nat /\ DOMAIN D = 1 .. Len(D) /\ DOMAIN E = 1 .. Len(D)
  BY <1>8, <1>9
<1>11. \A i \in 1 .. Len(D) : pv[D[i]] = E[i] /\ E[i] \in Nat
  <2> SUFFICES ASSUME NEW i \in 1 .. Len(D) PROVE pv[D[i]] = E[i] /\ E[i] \in Nat
    OBVIOUS
  <2>1. PICK k \in DOMAIN s : D[i] = s[k] /\ E[i] = F[k]
    BY <1>8, <1>10
  <2>2. pv[s[k]] = F[k]
    BY <1>2, <1>7, <2>1
  <2> QED BY <1>9, <1>10, <2>1, <2>2
<1>12. t = [k \in 1 .. Len(D) |-> t[k]] /\ \A k \in 1 .. Len(D) : t[k] = E[k]
  BY <1>10, <1>11
<1> HIDE DEF t
<1>13. t \in Seq(Nat) /\ Len(t) = Len(D) /\ t \o <<>> = t
  BY <1>10, <1>11, <1>12, TableIs
<1>14. t = E
  BY <1>8, <1>9, <1>12, <1>13
<1> QED BY <1>4, <1>5, <1>6, <1>13, <1>14

\* The values of a sequence are finitely many.
LEMMA ValuesFinite == ASSUME NEW T, NEW s \in Seq(T) PROVE IsFiniteSet(ToSet(s)) /\ ToSet(s) \subseteq T
<1>1. Len(s) \in Nat /\ DOMAIN s = 1 .. Len(s) /\ ToSet(s) = {s[i] : i \in 1 .. Len(s)}
  BY DEF ToSet
<1>2. s \in Surjection(1 .. Len(s), ToSet(s))
  <2>1. s \in [1 .. Len(s) -> ToSet(s)]
    BY <1>1
  <2> QED BY <1>1, <2>1 DEF Surjection
<1>3. IsFiniteSet(1 .. Len(s))
  BY <1>1, FS_Interval
<1>4. IsFiniteSet(ToSet(s))
  BY <1>2, <1>3, FS_Surjection
<1>5. ToSet(s) \subseteq T
  BY <1>1
<1> QED BY <1>4, <1>5

\* So are the vertices of a set of elements.
VertexSet(H) == UNION {ToSet(Conn[e]) : e \in H}
LEMMA VerticesFinite ==
  ASSUME RedecompAssumption, NEW H, H \subseteq Elems
  PROVE  IsFiniteSet(VertexSet(H)) /\ VertexSet(H) \subseteq Nat
<1> DEFINE f == [e \in H |-> ToSet(Conn[e])]
           S == {ToSet(Conn[e]) : e \in H}
<1>1. \A e \in H : IsFiniteSet(ToSet(Conn[e])) /\ ToSet(Conn[e]) \subseteq Nat
  <2> SUFFICES ASSUME NEW e \in H PROVE IsFiniteSet(ToSet(Conn[e])) /\ ToSet(Conn[e]) \subseteq Nat
    OBVIOUS
  <2>1. Conn[e] \in Seq(Nat)
    BY DEF RedecompAssumption
  <2> QED BY <2>1, ValuesFinite
<1>2. IsFiniteSet(H)
  BY FS_Subset DEF RedecompAssumption
<1>3. f \in Surjection(H, S)
  <2>1. f \in [H -> S] /\ \A y \in S : \E e \in H : f[e] = y
    OBVIOUS
  <2> HIDE DEF f, S
  <2> QED BY <2>1 DEF Surjection
<1>4. IsFiniteSet(S) /\ \A y \in S : IsFiniteSet(y)
  <2>1. IsFiniteSet(S)
    <3> HIDE DEF f, S
    <3> QED BY <1>2, <1>3, FS_Surjection
  <2> QED BY <1>1, <2>1
<1>5. IsFiniteSet(UNION S)
  <2> HIDE DEF S
  <2> QED BY <1>4, FS_UNION
<1> QED BY <1>1, <1>5 DEF VertexSet

\* The parent, as it is when BuildRedecomp starts.
LEMMA ParentInit == ASSUME RedecompAssumption, MeshInit PROVE ParentIs
<1>1. PICK x \in Assignments : home = x.home /\ p2r = P2RElementList(x)
  BY DEF MeshInit
<1>2. home \in [Elems -> Procs]
  BY <1>1 DEF RedecompAssumption
<1>3. ASSUME NEW p \in Procs
      PROVE  /\ parentVerts[p] \in Seq(Nat)
             /\ \A k, l \in DOMAIN parentVerts[p] : parentVerts[p][k] = parentVerts[p][l] => k = l
             /\ \A e \in ElemsOf(p) : \A i \in DOMAIN Conn[e] : \E k \in DOMAIN parentVerts[p] : parentVerts[p][k] = Conn[e][i]
  <2> DEFINE V == VertexSet(ElemsOf(p))
             a == Ascending(V)
  <2>1. parentVerts[p] = a
    BY DEF MeshInit, VertexSet, ElemsOf
  <2>2. ElemsOf(p) \subseteq Elems
    BY DEF ElemsOf
  <2>3. IsFiniteSet(V) /\ V \subseteq Nat
    BY <2>2, VerticesFinite
  <2>4. \A e \in ElemsOf(p) : \A i \in DOMAIN Conn[e] : Conn[e][i] \in V
    BY DEF VertexSet, ToSet
  <2> HIDE DEF V
  <2>5. /\ a \in Seq(V) /\ (\A v \in V : \E k \in DOMAIN a : a[k] = v)
        /\ (\A i, j \in DOMAIN a : a[i] = a[j] => i = j)
    BY <2>3, AscendingIs
  <2> HIDE DEF a
  <2>6. a \in Seq(Nat)
    BY <2>3, <2>5, MoreValues
  <2> QED BY <2>1, <2>4, <2>5, <2>6
<1>4. ASSUME NEW p \in Procs, NEW r \in Procs PROVE p2r[p][r] \in Seq(Item(p))
  <2> DEFINE S == {e \in Elems : x.home[e] = p /\ (x.own[e] = r \/ r \in x.ghosts[e])}
             a == Ascending(S)
             t == [k \in DOMAIN a |-> [elem |-> a[k], ghost |-> x.own[a[k]] # r]]
  <2>1. p2r[p][r] = t \o <<>>
    BY <1>1 DEF P2RElementList, Map
  <2>2. S \subseteq ElemsOf(p) /\ S \subseteq Nat /\ IsFiniteSet(S)
    <3>1. S \subseteq Elems
      OBVIOUS
    <3>2. IsFiniteSet(S) /\ S \subseteq Nat
      BY <3>1, FS_Subset DEF RedecompAssumption
    <3>3. S \subseteq ElemsOf(p)
      BY <1>1 DEF ElemsOf
    <3> QED BY <3>2, <3>3
  <2> HIDE DEF S
  <2>3. a \in Seq(S)
    BY <2>2, AscendingIs
  <2> HIDE DEF a
  <2>4. Len(a) \in Nat /\ DOMAIN a = 1 .. Len(a) /\ \A k \in 1 .. Len(a) : a[k] \in S
    BY <2>3
  <2>5. t = [k \in 1 .. Len(a) |-> t[k]] /\ \A k \in 1 .. Len(a) : t[k] \in Item(p)
    BY <2>2, <2>4 DEF Item
  <2> HIDE DEF t
  <2>6. t \in Seq(Item(p)) /\ t \o <<>> = t
    BY <2>4, <2>5, TableIs
  <2> QED BY <2>1, <2>6
<1> QED BY <1>3, <1>4 DEF ParentIs

-----------------------------------------------------------------------------
(* The steps of BuildRedecomp. *)

\* What rank r receives: the vertices, and the elements, by source.
VertsFrom(q, r) == [p \in Procs |-> VertsOf(q[p][r])]
ItemsFrom(q, r) == [p \in Procs |-> q[p][r]]

\* These are sequences with a place for every rank.
LEMMA FromAre ==
  ASSUME RedecompAssumption, ParentIs, NEW r \in Procs
  PROVE  /\ P \in Nat /\ Procs = 1 .. P
         /\ VertsFrom(p2r, r) \in Seq(Seq(Nat)) /\ Len(VertsFrom(p2r, r)) = P
         /\ \E T : ItemsFrom(p2r, r) \in Seq(Seq(T))
         /\ Len(ItemsFrom(p2r, r)) = P
<1>1. P \in Nat /\ Procs = 1 .. P
  BY DEF RedecompAssumption, Procs
<1>2. \A p \in 1 .. P : p2r[p][r] \in Seq(Item(p))
  BY <1>1 DEF ParentIs
<1> DEFINE V == VertsFrom(p2r, r)
           I == ItemsFrom(p2r, r)
           T == [elem : Elems, ghost : BOOLEAN]
<1>3. V = [p \in 1 .. P |-> V[p]] /\ \A p \in 1 .. P : V[p] \in Seq(Nat)
  <2>1. V = [p \in 1 .. P |-> V[p]] /\ \A p \in 1 .. P : V[p] = VertsOf(p2r[p][r])
    BY <1>1 DEF VertsFrom
  <2>2. \A p \in 1 .. P : VertsOf(p2r[p][r]) \in Seq(Nat)
    BY <1>1, <1>2, VertsAre
  <2> HIDE DEF V
  <2> QED BY <2>1, <2>2
<1>4. I = [p \in 1 .. P |-> I[p]] /\ \A p \in 1 .. P : I[p] \in Seq(T)
  <2>1. I = [p \in 1 .. P |-> I[p]] /\ \A p \in 1 .. P : I[p] = p2r[p][r]
    BY <1>1 DEF ItemsFrom
  <2>2. \A p \in 1 .. P : Item(p) \subseteq T
    BY DEF Item, ElemsOf
  <2>3. \A p \in 1 .. P : p2r[p][r] \in Seq(T)
    BY <1>2, <2>2, MoreValues
  <2> HIDE DEF I, T
  <2> QED BY <2>1, <2>3
<1> HIDE DEF V, I
<1>5. V \in Seq(Seq(Nat)) /\ Len(V) = P
  BY <1>1, <1>3, TableIs
<1>6. I \in Seq(Seq(T)) /\ Len(I) = P
  <2> HIDE DEF T
  <2> QED BY <1>1, <1>4, TableIs
<1> QED BY <1>1, <1>5, <1>6 DEF V, I

\* The vertices of a rank have numbers of their own, and whatever came from a source is at its number.
Numbered(ids, places, q, r) ==
  /\ ids \in Seq(Nat) /\ \A i, j \in DOMAIN ids : ids[i] = ids[j] => i = j
  /\ places \in Seq(Seq(Nat)) /\ Len(places) = P
  /\ \A p \in Procs : /\ Len(places[p]) = Len(VertsOf(q[p][r])) /\ DOMAIN places[p] = DOMAIN VertsOf(q[p][r])
                      /\ \A k \in DOMAIN places[p] : /\ places[p][k] \in DOMAIN ids
                                                     /\ ids[places[p][k]] = VertsOf(q[p][r])[k]
  /\ \A i \in DOMAIN ids : \E p \in Procs : \E k \in DOMAIN places[p] : places[p][k] = i

\* NumberVertices numbers the vertices so.
LEMMA Numbering ==
  ASSUME RedecompAssumption, ParentIs, NumberVertices, NEW r \in Procs
  PROVE  Numbered(vertIds'[r], r2pVerts'[r], p2r, r)
<1> DEFINE received == Exchanged(LAMBDA p, s : Dofs(P2RNodeList(p, s, TRUE)))
           outer == [s \in Procs |-> [p \in Procs |-> Dofs(P2RNodeList(p, s, TRUE))] \o <<>>]
           inner == [p \in Procs |-> Dofs(P2RNodeList(p, r, TRUE))]
           V == VertsFrom(p2r, r)
           F == FlattenSeq(V)
           ids == Distinct(F)
           placed(p) == [k \in DOMAIN V[p] |-> FirstAt(ids, V[p][k])]
           places == [p \in DOMAIN V |-> placed(p)]
<1>1. P \in Nat /\ Procs = 1 .. P /\ V \in Seq(Seq(Nat)) /\ Len(V) = P
  BY FromAre
<1>2. received = outer \o <<>>
  BY DEF Exchanged
<1>3. outer \o <<>> = outer /\ outer[r] = inner \o <<>>
  <2>1. outer = [s \in 1 .. P |-> outer[s]] /\ outer[r] = inner \o <<>>
    BY <1>1
  <2> HIDE DEF outer, inner
  <2> QED BY <1>1, <2>1, TableKept
<1>4. inner \o <<>> = inner /\ inner = V
  <2>1. inner = [p \in 1 .. P |-> inner[p]]
    BY <1>1
  <2>2. inner \o <<>> = inner
    <3> HIDE DEF inner
    <3> QED BY <1>1, <2>1, TableKept
  <2>3. \A p \in Procs : Dofs(P2RNodeList(p, r, TRUE)) = VertsOf(p2r[p][r])
    BY SentIs
  <2>4. inner = V
    BY <2>3 DEF VertsFrom
  <2> QED BY <2>2, <2>4
<1>5. received[r] = V
  <2> HIDE DEF received, outer, inner, V
  <2> QED BY <1>2, <1>3, <1>4
<1>6. vertIds'[r] = ids
  <2>1. vertIds'[r] = Distinct(FlattenSeq(received[r]))
    BY DEF NumberVertices
  <2> HIDE DEF received, V
  <2> QED BY <1>5, <2>1
<1>7. r2pVerts'[r] = [p \in DOMAIN V |-> placed(p) \o <<>>] \o <<>>
  <2>1. r2pVerts'[r] = Map(received[r], LAMBDA list : Map(list, LAMBDA v : FirstAt(vertIds'[r], v)))
    BY DEF NumberVertices
  <2>2. r2pVerts'[r] = Map(V, LAMBDA list : Map(list, LAMBDA v : FirstAt(ids, v)))
    <3> HIDE DEF received, V, ids
    <3> QED BY <1>5, <1>6, <2>1
  <2> HIDE DEF V, ids
  <2> QED BY <2>2 DEF Map
<1> HIDE DEF received, outer, inner
<1>8. \A p \in 1 .. P : V[p] = VertsOf(p2r[p][r])
  BY <1>1 DEF VertsFrom
<1> HIDE DEF V
<1>9. DOMAIN V = 1 .. P /\ \A p \in 1 .. P : V[p] \in Seq(Nat) /\ Len(V[p]) \in Nat /\ DOMAIN V[p] = 1 .. Len(V[p])
  BY <1>1
<1>10. Joins(F, V, P, Nat)
  BY <1>1, FlattenIs
<1> HIDE DEF F
<1>11. F \in Seq(Nat) /\ DOMAIN F = 1 .. Len(F)
  BY <1>10 DEF Joins
<1>12. /\ ids \in Seq(Nat)
       /\ \A i \in DOMAIN ids : \E k \in DOMAIN F : ids[i] = F[k]
       /\ \A k \in DOMAIN F : \E i \in DOMAIN ids : ids[i] = F[k]
       /\ \A i, j \in DOMAIN ids : ids[i] = ids[j] => i = j
  BY <1>11, DistinctIs
<1> HIDE DEF ids
<1>13. ASSUME NEW p \in 1 .. P, NEW k \in DOMAIN V[p]
       PROVE  FirstAt(ids, V[p][k]) \in DOMAIN ids /\ ids[FirstAt(ids, V[p][k])] = V[p][k]
  <2>1. Start(V, p) + k \in DOMAIN F /\ F[Start(V, p) + k] = V[p][k]
    BY <1>9, <1>10, <1>11 DEF Joins
  <2>2. \E i \in DOMAIN ids : ids[i] = V[p][k]
    BY <1>12, <2>1
  <2> QED BY <1>12, <2>2, FirstAtIs
<1>14. DOMAIN ids \subseteq Nat
  BY <1>12
<1>15. \A p \in 1 .. P : /\ placed(p) \in Seq(Nat) /\ Len(placed(p)) = Len(V[p]) /\ placed(p) \o <<>> = placed(p)
                         /\ \A k \in DOMAIN V[p] : placed(p)[k] = FirstAt(ids, V[p][k])
  <2> SUFFICES ASSUME NEW p \in 1 .. P
               PROVE  /\ placed(p) \in Seq(Nat) /\ Len(placed(p)) = Len(V[p]) /\ placed(p) \o <<>> = placed(p)
                      /\ \A k \in DOMAIN V[p] : placed(p)[k] = FirstAt(ids, V[p][k])
    OBVIOUS
  <2>1. \A k \in DOMAIN V[p] : placed(p)[k] = FirstAt(ids, V[p][k])
    OBVIOUS
  <2>2. \A k \in 1 .. Len(V[p]) : placed(p)[k] \in Nat
    BY <1>9, <1>13, <1>14, <2>1
  <2>3. placed(p) = [k \in 1 .. Len(V[p]) |-> placed(p)[k]]
    BY <1>9
  <2> HIDE DEF placed
  <2>4. Len(V[p]) \in Nat
    BY <1>9
  <2> QED BY <2>1, <2>2, <2>3, <2>4, TableIs
<1>16. places = [p \in 1 .. P |-> places[p]] /\ \A p \in 1 .. P : places[p] = placed(p)
  BY <1>9
<1>17. r2pVerts'[r] = places \o <<>>
  <2>1. [p \in DOMAIN V |-> placed(p) \o <<>>] = places
    <3> HIDE DEF placed
    <3> QED BY <1>9, <1>15
  <2> HIDE DEF places, placed
  <2> QED BY <1>7, <2>1
<1> HIDE DEF places, placed
<1>18. places \in Seq(Seq(Nat)) /\ Len(places) = P /\ places \o <<>> = places
  <2>1. \A p \in 1 .. P : places[p] \in Seq(Nat)
    BY <1>15, <1>16
  <2> QED BY <1>1, <1>16, <2>1, TableIs
<1>19. r2pVerts'[r] = places
  BY <1>17, <1>18
<1>20. ASSUME NEW p \in Procs
       PROVE  /\ Len(places[p]) = Len(VertsOf(p2r[p][r])) /\ DOMAIN places[p] = DOMAIN VertsOf(p2r[p][r])
              /\ \A k \in DOMAIN places[p] : places[p][k] \in DOMAIN ids /\ ids[places[p][k]] = VertsOf(p2r[p][r])[k]
  <2>1. p \in 1 .. P
    BY <1>1
  <2>2. places[p] = placed(p) /\ placed(p) \in Seq(Nat) /\ Len(placed(p)) = Len(V[p])
    BY <1>15, <1>16, <2>1
  <2>3. DOMAIN placed(p) = DOMAIN V[p]
    BY <1>9, <2>1, <2>2
  <2>4. \A k \in DOMAIN V[p] : placed(p)[k] \in DOMAIN ids /\ ids[placed(p)[k]] = V[p][k]
    BY <1>13, <1>15, <2>1
  <2> QED BY <1>8, <2>1, <2>2, <2>3, <2>4
<1>21. ASSUME NEW i \in DOMAIN ids PROVE \E p \in Procs : \E k \in DOMAIN places[p] : places[p][k] = i
  <2>1. PICK a \in DOMAIN F : ids[i] = F[a]
    BY <1>12
  <2>2. PICK p \in 1 .. P : \E k \in 1 .. Len(V[p]) : a = Start(V, p) + k
    BY <1>10, <1>11, <2>1 DEF Joins
  <2>3. PICK k \in 1 .. Len(V[p]) : a = Start(V, p) + k
    BY <2>2
  <2>4. F[a] = V[p][k] /\ k \in DOMAIN V[p]
    BY <1>9, <1>10, <2>3 DEF Joins
  <2>5. p \in Procs /\ k \in DOMAIN places[p] /\ ids[places[p][k]] = V[p][k] /\ places[p][k] \in DOMAIN ids
    BY <1>1, <1>8, <1>20, <2>4
  <2>6. places[p][k] = i
    BY <1>12, <2>1, <2>4, <2>5
  <2> QED BY <2>5, <2>6
<1> QED BY <1>6, <1>12, <1>18, <1>19, <1>20, <1>21 DEF Numbered

\* The coordinates are put at the vertices they are of.
LEMMA PutAtVertices ==
  ASSUME RedecompAssumption, ParentIs, SendVertices, NEW r \in Procs, Numbered(vertIds[r], r2pVerts[r], p2r, r)
  PROVE  vertices'[r] = vertIds[r]
<1> DEFINE coords == Exchanged(LAMBDA p, s : Map(Dofs(P2RNodeList(p, s, FALSE)), LAMBDA d : parentVerts[p][d]))
           outer == [s \in Procs |-> [p \in Procs |-> Map(Dofs(P2RNodeList(p, s, FALSE)), LAMBDA d : parentVerts[p][d])] \o <<>>]
           inner == [p \in Procs |-> Map(Dofs(P2RNodeList(p, r, FALSE)), LAMBDA d : parentVerts[p][d])]
           V == VertsFrom(p2r, r)
           R == r2pVerts[r]
           ids == vertIds[r]
           places == FlattenSeq(R)
           values == FlattenSeq(V)
<1>1. P \in Nat /\ Procs = 1 .. P /\ V \in Seq(Seq(Nat)) /\ Len(V) = P
  BY FromAre
<1>2. coords = outer \o <<>>
  BY DEF Exchanged
<1>3. outer \o <<>> = outer /\ outer[r] = inner \o <<>>
  <2>1. outer = [s \in 1 .. P |-> outer[s]] /\ outer[r] = inner \o <<>>
    BY <1>1
  <2> HIDE DEF outer, inner
  <2> QED BY <1>1, <2>1, TableKept
<1>4. inner \o <<>> = inner /\ inner = V
  <2>1. inner = [p \in 1 .. P |-> inner[p]]
    BY <1>1
  <2>2. inner \o <<>> = inner
    <3> HIDE DEF inner
    <3> QED BY <1>1, <2>1, TableKept
  <2>3. \A p \in Procs : Map(Dofs(P2RNodeList(p, r, FALSE)), LAMBDA d : parentVerts[p][d]) = VertsOf(p2r[p][r])
    BY SentIs
  <2>4. inner = V
    BY <2>3 DEF VertsFrom
  <2> QED BY <2>2, <2>4
<1>5. coords[r] = V
  <2> HIDE DEF coords, outer, inner, V
  <2> QED BY <1>2, <1>3, <1>4
<1>6. vertices'[r] = [v \in DOMAIN ids |-> values[LastAt(places, v)]]
  <2>1. vertices'[r] = [v \in DOMAIN vertIds[r] |-> FlattenSeq(coords[r])[LastAt(FlattenSeq(r2pVerts[r]), v)]]
    BY DEF SendVertices, PutVertices
  <2> HIDE DEF coords, V
  <2> QED BY <1>5, <2>1
<1> HIDE DEF coords, outer, inner
<1>7. \A p \in 1 .. P : V[p] = VertsOf(p2r[p][r])
  BY <1>1 DEF VertsFrom
<1> HIDE DEF V
<1>8. /\ ids \in Seq(Nat) /\ R \in Seq(Seq(Nat)) /\ Len(R) = P
      /\ \A p \in 1 .. P : /\ Len(R[p]) = Len(V[p])
                           /\ \A k \in DOMAIN R[p] : R[p][k] \in DOMAIN ids /\ ids[R[p][k]] = V[p][k]
      /\ \A i \in DOMAIN ids : \E p \in 1 .. P : \E k \in DOMAIN R[p] : R[p][k] = i
  <2>1. Numbered(ids, R, p2r, r)
    OBVIOUS
  <2> HIDE DEF R, ids
  <2> QED BY <1>1, <1>7, <2>1 DEF Numbered
<1> HIDE DEF R, ids
<1>9. \A p \in 1 .. P : DOMAIN R[p] = 1 .. Len(R[p])
  BY <1>8
<1>10. Joins(places, R, P, Nat)
  BY <1>8, FlattenIs
<1>11. places \in Seq(Nat) /\ values \in Seq(Nat) /\ Matches(places, values, R, V)
  <2>1. SameLens(R, V)
    BY <1>1, <1>8 DEF SameLens
  <2>2. R \in Seq(Seq(Nat)) /\ V \in Seq(Seq(Nat))
    BY <1>1, <1>8
  <2> QED BY <2>1, <2>2, FlattenAlike
<1> HIDE DEF places, values
<1>12. ASSUME NEW v \in DOMAIN ids PROVE values[LastAt(places, v)] = ids[v]
  <2>1. PICK p \in 1 .. P : \E k \in DOMAIN R[p] : R[p][k] = v
    BY <1>8
  <2>2. PICK k \in DOMAIN R[p] : R[p][k] = v
    BY <2>1
  <2>3. k \in 1 .. Len(R[p])
    BY <1>9
  <2>4. Start(R, p) + k \in 1 .. Len(places) /\ places[Start(R, p) + k] = v
    BY <1>10, <2>2, <2>3 DEF Joins
  <2>5. \E i \in DOMAIN places : places[i] = v
    BY <1>11, <2>4
  <2>6. PICK i \in DOMAIN places : i = LastAt(places, v) /\ places[i] = v
    BY <1>11, <2>5, LastAtIs
  <2>7. PICK q \in 1 .. Len(R) : \E l \in 1 .. Len(R[q]) : places[i] = R[q][l] /\ values[i] = V[q][l]
    BY <1>11 DEF Matches
  <2>8. PICK l \in 1 .. Len(R[q]) : places[i] = R[q][l] /\ values[i] = V[q][l]
    BY <2>7
  <2>9. q \in 1 .. P /\ l \in DOMAIN R[q]
    BY <1>8, <1>9
  <2>10. ids[R[q][l]] = V[q][l]
    BY <1>8, <2>9
  <2> QED BY <2>6, <2>8, <2>10
<1>13. vertices'[r] = [v \in DOMAIN ids |-> ids[v]]
  BY <1>6, <1>12
<1>14. ids = [v \in DOMAIN ids |-> ids[v]]
  BY <1>8
<1> QED BY <1>13, <1>14 DEF ids

\* The elements are those received, in the order of the sources, with the numbers of their vertices.
Numbers(ids, e) == [j \in 1 .. Len(Conn[e]) |-> FirstAt(ids, Conn[e][j])]
ElementsAre(els, ids, items) ==
  /\ DOMAIN els = DOMAIN items
  /\ \A i \in DOMAIN items : els[i] = [verts |-> Numbers(ids, items[i].elem), attribute |-> items[i].elem]

\* An element as it is sent.
LEMMA ElementSent ==
  ASSUME RedecompAssumption, ParentIs, NEW p \in Procs, NEW e \in ElemsOf(p)
  PROVE  Map(GetElementDofs(p, e), LAMBDA d : GetGlobalTDofNumber(p, d)) = Conn[e]
<1> DEFINE D == GetElementDofs(p, e)
           c == Conn[e]
           t == [k \in DOMAIN D |-> parentVerts[p][D[k]]]
<1>1. c \in Seq(Nat)
  BY DEF RedecompAssumption, ElemsOf
<1>2. D \in Seq(Nat) /\ Len(D) = Len(c) /\ \A i \in DOMAIN c : parentVerts[p][D[i]] = c[i]
  BY DofsAre
<1>3. Map(D, LAMBDA d : GetGlobalTDofNumber(p, d)) = t \o <<>>
  BY DEF Map, GetGlobalTDofNumber
<1> HIDE DEF D, c
<1>4. Len(c) \in Nat /\ DOMAIN D = 1 .. Len(c) /\ DOMAIN c = 1 .. Len(c)
  BY <1>1, <1>2
<1>5. t = [k \in 1 .. Len(c) |-> t[k]] /\ \A k \in 1 .. Len(c) : t[k] = c[k]
  BY <1>2, <1>4
<1> HIDE DEF t
<1>6. \A k \in 1 .. Len(c) : t[k] \in Nat
  BY <1>1, <1>5
<1>7. t \in Seq(Nat) /\ Len(t) = Len(c) /\ t \o <<>> = t
  BY <1>4, <1>5, <1>6, TableIs
<1>8. t = c
  BY <1>1, <1>4, <1>5, <1>7, SameSeq
<1> QED BY <1>3, <1>7, <1>8 DEF D, c

\* CreateElements makes such elements of what is received.
LEMMA ElementsCreated ==
  ASSUME RedecompAssumption, ParentIs, CreateElements, NEW r \in Procs
  PROVE  ElementsAre(elements'[r], vertIds[r], FlattenSeq(ItemsFrom(p2r, r)))
<1> DEFINE El(p, x) == [verts |-> Map(GetElementDofs(p, x.elem), LAMBDA d : GetGlobalTDofNumber(p, d)),
                        attribute |-> x.elem]
           made(x) == [verts |-> Conn[x.elem], attribute |-> x.elem]
           conns == Exchanged(LAMBDA p, s : Map(p2r[p][s], LAMBDA x : El(p, x)))
           outer == [s \in Procs |-> [p \in Procs |-> Map(p2r[p][s], LAMBDA x : El(p, x))] \o <<>>]
           inner == [p \in Procs |-> Map(p2r[p][r], LAMBDA x : El(p, x))]
           I == ItemsFrom(p2r, r)
           part(p) == [k \in DOMAIN I[p] |-> made(I[p][k])]
           C == [p \in Procs |-> part(p)]
           F == FlattenSeq(C)
           G == FlattenSeq(I)
           ids == vertIds[r]
           U == [verts : Seq(Nat), attribute : Elems]
           els == [k \in DOMAIN F |-> [F[k] EXCEPT !.verts = Map(@, LAMBDA v : FirstAt(ids, v))]]
<1>1. P \in Nat /\ Procs = 1 .. P /\ Len(I) = P
  BY FromAre
<1>2. PICK T : I \in Seq(Seq(T))
  BY FromAre
<1>3. \A p \in Procs : I[p] \in Seq(Item(p)) /\ I[p] = p2r[p][r]
  BY DEF ParentIs, ItemsFrom
<1>4. conns = outer \o <<>>
  BY DEF Exchanged
<1>5. outer \o <<>> = outer /\ outer[r] = inner \o <<>>
  <2>1. outer = [s \in 1 .. P |-> outer[s]] /\ outer[r] = inner \o <<>>
    BY <1>1
  <2> HIDE DEF outer, inner
  <2> QED BY <1>1, <2>1, TableKept
<1>6. ASSUME NEW p \in Procs PROVE Map(p2r[p][r], LAMBDA x : El(p, x)) = part(p) /\ part(p) \in Seq(U) /\ Len(part(p)) = Len(I[p])
  <2> DEFINE t == [k \in DOMAIN I[p] |-> El(p, I[p][k])]
  <2>1. Map(p2r[p][r], LAMBDA x : El(p, x)) = t \o <<>>
    <3> HIDE DEF El
    <3> QED BY <1>3 DEF Map
  <2>2. Len(I[p]) \in Nat /\ DOMAIN I[p] = 1 .. Len(I[p]) /\ \A k \in DOMAIN I[p] : I[p][k] \in Item(p)
    <3> HIDE DEF I
    <3> QED BY <1>3
  <2> HIDE DEF I
  <2>3. \A k \in DOMAIN I[p] : I[p][k].elem \in ElemsOf(p)
    BY <2>2 DEF Item
  <2>4. \A k \in DOMAIN I[p] : El(p, I[p][k]) = made(I[p][k])
    BY <2>3, ElementSent
  <2>5. \A k \in DOMAIN I[p] : made(I[p][k]) \in U
    BY <2>3 DEF RedecompAssumption, ElemsOf
  <2> HIDE DEF El, made, U
  <2>6. t = part(p)
    BY <2>4
  <2>7. part(p) = [k \in 1 .. Len(I[p]) |-> part(p)[k]] /\ \A k \in 1 .. Len(I[p]) : part(p)[k] \in U
    BY <2>2, <2>5
  <2> HIDE DEF t, part
  <2>8. part(p) \in Seq(U) /\ Len(part(p)) = Len(I[p]) /\ part(p) \o <<>> = part(p)
    BY <2>2, <2>7, TableIs
  <2> QED BY <2>1, <2>6, <2>8
<1>7. \A p \in Procs : \A k \in 1 .. Len(I[p]) : part(p)[k] = made(I[p][k])
  <2> SUFFICES ASSUME NEW p \in Procs, NEW k \in 1 .. Len(I[p]) PROVE part(p)[k] = made(I[p][k])
    OBVIOUS
  <2> HIDE DEF I, made
  <2>1. k \in DOMAIN I[p]
    BY <1>3
  <2> QED BY <2>1
<1> HIDE DEF part
<1>8. inner = C
  <2> HIDE DEF El
  <2> QED BY <1>6
<1>9. inner \o <<>> = inner
  <2>1. inner = [p \in 1 .. P |-> inner[p]]
    BY <1>1
  <2> HIDE DEF inner
  <2> QED BY <1>1, <2>1, TableKept
<1>10. conns[r] = C
  <2> HIDE DEF conns, outer, inner, C
  <2> QED BY <1>4, <1>5, <1>8, <1>9
<1>11. elements'[r] = els \o <<>>
  <2>1. elements'[r] = Map(FlattenSeq(conns[r]), LAMBDA el : [el EXCEPT !.verts = Map(@, LAMBDA v : FirstAt(vertIds[r], v))])
    BY DEF CreateElements
  <2> HIDE DEF conns, C
  <2>2. elements'[r] = Map(F, LAMBDA el : [el EXCEPT !.verts = Map(@, LAMBDA v : FirstAt(ids, v))])
    BY <1>10, <2>1
  <2>3. Map(F, LAMBDA el : [el EXCEPT !.verts = Map(@, LAMBDA v : FirstAt(ids, v))]) = els \o <<>>
    <3> HIDE DEF F, ids
    <3> QED BY DEF Map
  <2> HIDE DEF els, F, ids
  <2> QED BY <2>2, <2>3
<1> HIDE DEF conns, outer, inner
<1>12. C = [p \in 1 .. P |-> C[p]] /\ \A p \in 1 .. P : C[p] = part(p) /\ C[p] \in Seq(U) /\ Len(C[p]) = Len(I[p])
  <2> HIDE DEF I, U
  <2> QED BY <1>1, <1>6
<1>13. C \in Seq(Seq(U)) /\ Len(C) = P
  <2> HIDE DEF C, U, I
  <2> QED BY <1>1, <1>12, TableIs
<1>14. F \in Seq(U) /\ G \in Seq(T) /\ Matches(F, G, C, I)
  <2> HIDE DEF C, U, I
  <2>1. SameLens(C, I)
    BY <1>1, <1>12, <1>13 DEF SameLens
  <2> QED BY <1>2, <1>13, <2>1, FlattenAlike
<1>15. Len(F) \in Nat /\ DOMAIN F = 1 .. Len(F) /\ DOMAIN G = 1 .. Len(F)
  <2> HIDE DEF F, G, U
  <2> QED BY <1>14 DEF Matches
<1>16. \A i \in DOMAIN F : F[i] = made(G[i]) /\ G[i].elem \in Elems
  <2> SUFFICES ASSUME NEW i \in DOMAIN F PROVE F[i] = made(G[i]) /\ G[i].elem \in Elems
    OBVIOUS
  <2> HIDE DEF F, G, C, I, made, U
  <2>1. PICK p \in 1 .. Len(C) : \E k \in 1 .. Len(C[p]) : F[i] = C[p][k] /\ G[i] = I[p][k]
    BY <1>14 DEF Matches
  <2>2. PICK k \in 1 .. Len(C[p]) : F[i] = C[p][k] /\ G[i] = I[p][k]
    BY <2>1
  <2>3. p \in 1 .. P /\ k \in 1 .. Len(I[p])
    BY <1>12, <1>13, <2>2
  <2>4. C[p][k] = made(I[p][k])
    BY <1>1, <1>7, <1>12, <2>3
  <2>5. I[p][k] \in Item(p)
    BY <1>1, <1>3, <2>3
  <2>6. G[i].elem \in Elems
    BY <2>2, <2>5 DEF Item, ElemsOf
  <2> QED BY <2>2, <2>4, <2>6
<1> HIDE DEF C, F, G, I, ids
<1>17. els \o <<>> = els /\ DOMAIN els = DOMAIN G
  <2>1. els = [k \in 1 .. Len(F) |-> els[k]]
    BY <1>15
  <2> HIDE DEF els
  <2>2. els \o <<>> = els /\ DOMAIN els = 1 .. Len(F)
    BY <1>15, <2>1, TableKept
  <2> QED BY <1>15, <2>2
<1>18. ASSUME NEW i \in DOMAIN G PROVE els[i] = [verts |-> Numbers(ids, G[i].elem), attribute |-> G[i].elem]
  <2>1. i \in DOMAIN F /\ F[i] = [verts |-> Conn[G[i].elem], attribute |-> G[i].elem]
    BY <1>15, <1>16
  <2>2. Map(Conn[G[i].elem], LAMBDA v : FirstAt(ids, v)) = Numbers(ids, G[i].elem)
    <3> DEFINE c == Conn[G[i].elem]
               t == [j \in DOMAIN c |-> FirstAt(ids, c[j])]
    <3>1. c \in Seq(Nat)
      BY <1>15, <1>16 DEF RedecompAssumption
    <3>2. Map(c, LAMBDA v : FirstAt(ids, v)) = t \o <<>>
      BY DEF Map
    <3>3. Numbers(ids, G[i].elem) = [j \in 1 .. Len(c) |-> FirstAt(ids, c[j])]
      BY DEF Numbers
    <3> HIDE DEF c
    <3>4. Len(c) \in Nat /\ DOMAIN c = 1 .. Len(c)
      BY <3>1
    <3>5. t = [j \in 1 .. Len(c) |-> t[j]] /\ t = Numbers(ids, G[i].elem)
      BY <3>3, <3>4
    <3> HIDE DEF t
    <3>6. t \o <<>> = t
      BY <3>4, <3>5, TableKept
    <3> QED BY <3>2, <3>5, <3>6 DEF c
  <2>3. els[i] = [F[i] EXCEPT !.verts = Map(F[i].verts, LAMBDA v : FirstAt(ids, v))]
    BY <2>1
  <2>4. F[i].verts = Conn[G[i].elem]
    BY <2>1
  <2>5. els[i] = [F[i] EXCEPT !.verts = Numbers(ids, G[i].elem)]
    BY <2>2, <2>3, <2>4
  <2> HIDE DEF els
  <2> QED BY <2>1, <2>5
<1> HIDE DEF els
<1>19. elements'[r] = els
  BY <1>11, <1>17
<1>20. ElementsAre(els, ids, G)
  BY <1>17, <1>18 DEF ElementsAre
<1> QED BY <1>19, <1>20 DEF ids, G, I

\* The offset of a source is the number of elements of the sources before it.
OffsetsOf(items) == [k \in 1 .. P + 1 |-> Prefix(Lens(items), k - 1)]

\* FillOffsets computes these.
LEMMA OffsetsFilled ==
  ASSUME RedecompAssumption, ParentIs, FillOffsets, NEW r \in Procs
  PROVE  offsets'[r] = OffsetsOf(ItemsFrom(p2r, r))
<1> DEFINE sizes == Exchanged(LAMBDA p, s : Len(p2r[p][s]))
           outer == [s \in Procs |-> [p \in Procs |-> Len(p2r[p][s])] \o <<>>]
           inner == [p \in Procs |-> Len(p2r[p][r])]
<1>1. P \in Nat /\ Procs = 1 .. P /\ Len(ItemsFrom(p2r, r)) = P
  BY FromAre
<1>2. sizes = outer \o <<>>
  BY DEF Exchanged
<1>3. outer \o <<>> = outer /\ outer[r] = inner \o <<>>
  <2>1. outer = [s \in 1 .. P |-> outer[s]] /\ outer[r] = inner \o <<>>
    BY <1>1
  <2> HIDE DEF outer, inner
  <2> QED BY <1>1, <2>1, TableKept
<1>4. inner \o <<>> = inner
  <2>1. inner = [p \in 1 .. P |-> inner[p]]
    BY <1>1
  <2> HIDE DEF inner
  <2> QED BY <1>1, <2>1, TableKept
<1>5. inner = Lens(ItemsFrom(p2r, r))
  <2>1. \A p \in Procs : ItemsFrom(p2r, r)[p] = p2r[p][r]
    BY DEF ItemsFrom
  <2>2. Lens(ItemsFrom(p2r, r)) = [p \in 1 .. P |-> Len(ItemsFrom(p2r, r)[p])]
    BY <1>1 DEF Lens
  <2> QED BY <1>1, <2>1, <2>2
<1>6. sizes[r] = Lens(ItemsFrom(p2r, r))
  <2> HIDE DEF sizes, outer, inner
  <2> QED BY <1>2, <1>3, <1>4, <1>5
<1>7. offsets'[r] = [k \in 1 .. P + 1 |-> Prefix(sizes[r], k - 1)]
  BY DEF FillOffsets
<1> HIDE DEF sizes, outer, inner
<1> QED BY <1>6, <1>7 DEF OffsetsOf

\* The ghost elements of a list, with the offset of its source.
GhostsAre(numbers, list, offset) ==
  ToSet(numbers) = {k + offset : k \in {j \in DOMAIN list : list[j].ghost}}

\* FillGhosts lists these.
LEMMA GhostsFilled ==
  ASSUME RedecompAssumption, ParentIs, FillGhosts, NEW r \in Procs, NEW p \in Procs
  PROVE  GhostsAre(ghostElems'[r][p], p2r[p][r], offsets[r][p])
<1> DEFINE numbers(q, s) == Map(GhostsAt(p2r[q][s]), LAMBDA k : k + offsets[s][q])
           outer == [s \in Procs |-> [q \in Procs |-> numbers(q, s)] \o <<>>]
           inner == [q \in Procs |-> numbers(q, r)]
           list == p2r[p][r]
           off == offsets[r][p]
           S == {k \in DOMAIN list : list[k].ghost}
           a == Ascending(S)
           t == [k \in DOMAIN a |-> a[k] + off]
<1>1. P \in Nat /\ Procs = 1 .. P
  BY FromAre
<1>2. ghostElems' = outer \o <<>>
  BY DEF FillGhosts, Exchanged
<1>3. outer \o <<>> = outer /\ outer[r] = inner \o <<>>
  <2>1. outer = [s \in 1 .. P |-> outer[s]] /\ outer[r] = inner \o <<>>
    BY <1>1
  <2> HIDE DEF outer, inner
  <2> QED BY <1>1, <2>1, TableKept
<1>4. inner \o <<>> = inner /\ inner[p] = numbers(p, r)
  <2>1. inner = [q \in 1 .. P |-> inner[q]] /\ inner[p] = numbers(p, r)
    BY <1>1
  <2> HIDE DEF inner, numbers
  <2> QED BY <1>1, <2>1, TableKept
<1>5. ghostElems'[r][p] = numbers(p, r)
  <2> HIDE DEF outer, inner, numbers
  <2> QED BY <1>2, <1>3, <1>4
<1>6. numbers(p, r) = t \o <<>>
  BY DEF Map, GhostsAt
<1>7. S \subseteq DOMAIN list /\ S \subseteq Nat /\ IsFiniteSet(S)
  <2>1. list \in Seq(Item(p))
    BY DEF ParentIs
  <2> HIDE DEF list
  <2>2. Len(list) \in Nat /\ DOMAIN list = 1 .. Len(list) /\ 1 \in Int
    BY <2>1
  <2>3. IsFiniteSet(1 .. Len(list))
    BY <2>2, FS_Interval
  <2>4. S \subseteq 1 .. Len(list)
    BY <2>2
  <2>5. IsFiniteSet(S)
    BY <2>3, <2>4, FS_Subset
  <2> QED BY <2>2, <2>4, <2>5
<1> HIDE DEF outer, inner, numbers
<1>8. \A k : k \in S <=> k \in DOMAIN list /\ list[k].ghost
  <2> HIDE DEF list
  <2> QED OBVIOUS
<1> HIDE DEF list, off, S
<1>9. a \in Seq(S) /\ \A x \in S : \E k \in DOMAIN a : a[k] = x
  BY <1>7, AscendingIs
<1> HIDE DEF a
<1>10. Len(a) \in Nat /\ DOMAIN a = 1 .. Len(a) /\ \A k \in DOMAIN a : a[k] \in S
  BY <1>9
<1>11. \A k \in DOMAIN a : t[k] = a[k] + off
  OBVIOUS
<1>12. t = [k \in 1 .. Len(a) |-> t[k]]
  BY <1>10
<1> HIDE DEF t
<1>13. t \o <<>> = t /\ DOMAIN t = DOMAIN a
  BY <1>10, <1>12, TableKept
<1>14. ToSet(t) = {k + off : k \in {j \in DOMAIN list : list[j].ghost}}
  <2>1. ASSUME NEW e, e \in ToSet(t) PROVE \E k \in DOMAIN list : list[k].ghost /\ e = k + off
    <3>1. PICK j \in DOMAIN a : e = t[j]
      BY <1>13, <2>1 DEF ToSet
    <3> QED BY <1>8, <1>10, <1>11, <3>1
  <2>2. ASSUME NEW k \in DOMAIN list, list[k].ghost PROVE k + off \in ToSet(t)
    <3>1. PICK j \in DOMAIN a : a[j] = k
      BY <1>8, <1>9, <2>2
    <3>2. t[j] = k + off
      BY <1>11, <3>1
    <3> QED BY <1>13, <3>2 DEF ToSet
  <2> QED BY <2>1, <2>2
<1> QED BY <1>5, <1>6, <1>13, <1>14 DEF GhostsAre, list, off

-----------------------------------------------------------------------------
(* The invariant: what every step has made stays as the later ones need it. *)

HasNumbers == done # "nothing" => \A r \in Procs : Numbered(vertIds[r], r2pVerts[r], p2r, r)
HasVertices == done \in {"vertices", "elements", "offsets", "built"} => \A r \in Procs : vertices[r] = vertIds[r]
HasElements ==
  done \in {"elements", "offsets", "built"} =>
    \A r \in Procs : ElementsAre(elements[r], vertIds[r], FlattenSeq(ItemsFrom(p2r, r)))
HasOffsets == done \in {"offsets", "built"} => \A r \in Procs : offsets[r] = OffsetsOf(ItemsFrom(p2r, r))
HasGhosts == Built => \A r, p \in Procs : GhostsAre(ghostElems[r][p], p2r[p][r], offsets[r][p])

MeshIInv == ParentIs /\ HasNumbers /\ HasVertices /\ HasElements /\ HasOffsets /\ HasGhosts

\* No step touches the parent.
LEMMA ParentStays == ASSUME ParentIs, UNCHANGED <<home, parentVerts, p2r>> PROVE ParentIs'
BY DEF ParentIs, Item, ElemsOf

\* Nothing is built at first.
LEMMA MeshInitially == ASSUME RedecompAssumption, MeshInit PROVE MeshIInv
<1>1. ParentIs
  BY ParentInit
<1>2. done = "nothing"
  BY DEF MeshInit
<1> QED BY <1>1, <1>2 DEF MeshIInv, HasNumbers, HasVertices, HasElements, HasOffsets, HasGhosts, Built

\* Each step makes what its part of the invariant says, and leaves alone what the others need.
LEMMA MeshStep == ASSUME RedecompAssumption, MeshIInv, [BuildRedecomp]_meshVars PROVE MeshIInv'
<1>1. ParentIs /\ HasNumbers /\ HasVertices /\ HasElements /\ HasOffsets /\ HasGhosts
  BY DEF MeshIInv
<1>2. CASE NumberVertices
  <2>1. ParentIs' /\ done' = "numbers" /\ p2r' = p2r
    BY <1>1, <1>2, ParentStays DEF NumberVertices
  <2>2. \A r \in Procs : Numbered(vertIds'[r], r2pVerts'[r], p2r', r)
    BY <1>1, <1>2, <2>1, Numbering
  <2>3. HasNumbers' /\ HasVertices' /\ HasElements' /\ HasOffsets' /\ HasGhosts'
    BY <2>1, <2>2 DEF HasNumbers, HasVertices, HasElements, HasOffsets, HasGhosts, Built
  <2> QED BY <2>1, <2>3 DEF MeshIInv
<1>3. CASE SendVertices
  <2>1. done = "numbers" /\ done' = "vertices" /\ UNCHANGED <<home, parentVerts, p2r, vertIds, r2pVerts>>
    BY <1>3 DEF SendVertices, PutVertices
  <2>2. ParentIs'
    BY <1>1, <2>1, ParentStays
  <2>3. \A r \in Procs : Numbered(vertIds[r], r2pVerts[r], p2r, r)
    BY <1>1, <2>1 DEF HasNumbers
  <2>4. \A r \in Procs : vertices'[r] = vertIds'[r]
    BY <1>1, <1>3, <2>1, <2>3, PutAtVertices
  <2>5. HasNumbers' /\ HasVertices' /\ HasElements' /\ HasOffsets' /\ HasGhosts'
    BY <2>1, <2>3, <2>4 DEF HasNumbers, HasVertices, HasElements, HasOffsets, HasGhosts, Built
  <2> QED BY <2>2, <2>5 DEF MeshIInv
<1>4. CASE CreateElements
  <2>1. done = "vertices" /\ done' = "elements" /\ UNCHANGED <<home, parentVerts, p2r, vertIds, r2pVerts, vertices>>
    BY <1>4 DEF CreateElements
  <2>2. ParentIs'
    BY <1>1, <2>1, ParentStays
  <2>3. \A r \in Procs : ElementsAre(elements'[r], vertIds'[r], FlattenSeq(ItemsFrom(p2r', r)))
    BY <1>1, <1>4, <2>1, ElementsCreated
  <2>4. HasNumbers' /\ HasVertices'
    BY <1>1, <2>1 DEF HasNumbers, HasVertices
  <2>5. HasElements' /\ HasOffsets' /\ HasGhosts'
    BY <2>1, <2>3 DEF HasElements, HasOffsets, HasGhosts, Built
  <2> QED BY <2>2, <2>4, <2>5 DEF MeshIInv
<1>5. CASE FillOffsets
  <2>1. /\ done = "elements" /\ done' = "offsets"
        /\ UNCHANGED <<home, parentVerts, p2r, vertIds, r2pVerts, vertices, elements>>
    BY <1>5 DEF FillOffsets
  <2>2. ParentIs'
    BY <1>1, <2>1, ParentStays
  <2>3. \A r \in Procs : offsets'[r] = OffsetsOf(ItemsFrom(p2r', r))
    BY <1>1, <1>5, <2>1, OffsetsFilled
  <2>4. HasNumbers' /\ HasVertices' /\ HasElements'
    BY <1>1, <2>1 DEF HasNumbers, HasVertices, HasElements
  <2>5. HasOffsets' /\ HasGhosts'
    BY <2>1, <2>3 DEF HasOffsets, HasGhosts, Built
  <2> QED BY <2>2, <2>4, <2>5 DEF MeshIInv
<1>6. CASE FillGhosts
  <2>1. /\ done = "offsets" /\ done' = "built"
        /\ UNCHANGED <<home, parentVerts, p2r, vertIds, r2pVerts, vertices, elements, offsets>>
    BY <1>6 DEF FillGhosts
  <2>2. ParentIs'
    BY <1>1, <2>1, ParentStays
  <2>3. \A r, p \in Procs : GhostsAre(ghostElems'[r][p], p2r'[p][r], offsets'[r][p])
    BY <1>1, <1>6, <2>1, GhostsFilled
  <2>4. HasNumbers' /\ HasVertices' /\ HasElements' /\ HasOffsets'
    BY <1>1, <2>1 DEF HasNumbers, HasVertices, HasElements, HasOffsets
  <2>5. HasGhosts'
    BY <2>3 DEF HasGhosts
  <2> QED BY <2>2, <2>4, <2>5 DEF MeshIInv
<1>7. CASE UNCHANGED meshVars
  <2>1. UNCHANGED <<home, parentVerts, p2r>>
    BY <1>7 DEF meshVars
  <2>2. ParentIs'
    BY <1>1, <2>1, ParentStays
  <2>3. HasNumbers' /\ HasVertices' /\ HasElements' /\ HasOffsets' /\ HasGhosts'
    BY <1>1, <1>7 DEF HasNumbers, HasVertices, HasElements, HasOffsets, HasGhosts, Built, meshVars
  <2> QED BY <2>2, <2>3 DEF MeshIInv
<1> QED BY <1>2, <1>3, <1>4, <1>5, <1>6, <1>7 DEF BuildRedecomp

-----------------------------------------------------------------------------
(* The built mesh. *)

\* Every element of a rank is one that was sent, and all its vertices have numbers there.
LEMMA ElementHas ==
  ASSUME RedecompAssumption, MeshIInv, Built, NEW r \in Procs, NEW k \in DOMAIN elements[r]
  PROVE  /\ elements[r][k].attribute \in Elems
         /\ elements[r][k].verts = Numbers(vertIds[r], elements[r][k].attribute)
         /\ \A i \in 1 .. Len(Conn[elements[r][k].attribute]) :
              /\ elements[r][k].verts[i] \in DOMAIN vertIds[r]
              /\ vertIds[r][elements[r][k].verts[i]] = Conn[elements[r][k].attribute][i]
<1> DEFINE ids == vertIds[r]
           places == r2pVerts[r]
           I == ItemsFrom(p2r, r)
           G == FlattenSeq(I)
           e == elements[r][k].attribute
<1>1. ParentIs /\ Numbered(ids, places, p2r, r) /\ ElementsAre(elements[r], ids, G)
  BY DEF MeshIInv, HasNumbers, HasElements, Built
<1>2. P \in Nat /\ Procs = 1 .. P /\ Len(I) = P
  BY <1>1, FromAre
<1>3. PICK T : I \in Seq(Seq(T))
  BY <1>1, FromAre
<1>4. \A p \in Procs : I[p] = p2r[p][r] /\ I[p] \in Seq(Item(p))
  BY <1>1 DEF ItemsFrom, ParentIs
<1> HIDE DEF I
<1>5. Joins(G, I, P, T)
  BY <1>2, <1>3, FlattenIs
<1> HIDE DEF G
<1>6. k \in DOMAIN G /\ e = G[k].elem /\ elements[r][k].verts = Numbers(ids, G[k].elem)
  <2> HIDE DEF ids
  <2>1. k \in DOMAIN G /\ elements[r][k] = [verts |-> Numbers(ids, G[k].elem), attribute |-> G[k].elem]
    BY <1>1 DEF ElementsAre
  <2> QED BY <2>1
<1>7. G \in Seq(T)
  BY <1>5 DEF Joins
<1>8. k \in 1 .. Len(G)
  BY <1>6, <1>7
<1>9. PICK p \in 1 .. P : \E j \in 1 .. Len(I[p]) : k = Start(I, p) + j
  BY <1>5, <1>8 DEF Joins
<1>10. PICK j \in 1 .. Len(I[p]) : k = Start(I, p) + j
  BY <1>9
<1>11. G[k] = I[p][j]
  BY <1>5, <1>10 DEF Joins
<1>12. p \in Procs /\ p2r[p][r] \in Seq(Item(p)) /\ I[p] = p2r[p][r]
  BY <1>2, <1>4
<1>13. j \in DOMAIN p2r[p][r] /\ p2r[p][r][j] \in Item(p) /\ e = p2r[p][r][j].elem
  BY <1>6, <1>10, <1>11, <1>12
<1>14. e \in Elems
  BY <1>13 DEF Item, ElemsOf
<1>15. ASSUME NEW i \in 1 .. Len(Conn[e])
       PROVE  FirstAt(ids, Conn[e][i]) \in DOMAIN ids /\ ids[FirstAt(ids, Conn[e][i])] = Conn[e][i]
  <2> DEFINE W == VertsOf(p2r[p][r])
  <2>1. Conn[e] \in Seq(Nat)
    BY <1>14 DEF RedecompAssumption
  <2> HIDE DEF e
  <2>2. i \in DOMAIN Conn[e]
    BY <2>1
  <2>3. PICK m \in DOMAIN W : W[m] = Conn[e][i]
    BY <1>12, <1>13, <2>2, VertsAre
  <2> HIDE DEF W
  <2>4. DOMAIN places[p] = DOMAIN W /\ \A l \in DOMAIN places[p] : places[p][l] \in DOMAIN ids /\ ids[places[p][l]] = W[l]
    BY <1>1, <1>12 DEF Numbered, W
  <2>5. ids \in Seq(Nat)
    BY <1>1 DEF Numbered
  <2>6. \E l \in DOMAIN ids : ids[l] = Conn[e][i]
    BY <2>3, <2>4
  <2> HIDE DEF ids
  <2> QED BY <2>5, <2>6, FirstAtIs
<1>16. \A i \in 1 .. Len(Conn[e]) : Numbers(ids, e)[i] = FirstAt(ids, Conn[e][i])
  BY DEF Numbers
<1>17. elements[r][k].verts = Numbers(ids, e)
  BY <1>6
<1>18. \A i \in 1 .. Len(Conn[e]) : elements[r][k].verts[i] \in DOMAIN ids /\ ids[elements[r][k].verts[i]] = Conn[e][i]
  <2> HIDE DEF ids, e
  <2> QED BY <1>15, <1>16, <1>17
<1> QED BY <1>14, <1>17, <1>18

\* The built mesh is the parent's.  Vertices with one number are one vertex because numbers
\* are given once, and one vertex has one number because the first place of a value is one.
LEMMA SameMeshBuilt == ASSUME RedecompAssumption, MeshIInv PROVE SameMesh
<1> SUFFICES ASSUME Built, NEW r \in Procs, NEW k \in DOMAIN elements[r], NEW l \in DOMAIN elements[r]
             PROVE  /\ Map(elements[r][k].verts, LAMBDA v : vertices[r][v]) = Conn[elements[r][k].attribute]
                    /\ \A i \in DOMAIN elements[r][k].verts, j \in DOMAIN elements[r][l].verts :
                         (elements[r][k].verts[i] = elements[r][l].verts[j])
                           = (Conn[elements[r][k].attribute][i] = Conn[elements[r][l].attribute][j])
  BY DEF SameMesh
<1> DEFINE ids == vertIds[r]
           a == elements[r][k]
           b == elements[r][l]
           c == Conn[a.attribute]
           d == Conn[b.attribute]
<1>1. vertices[r] = ids
  BY DEF MeshIInv, HasVertices, Built
<1>2. a.attribute \in Elems /\ a.verts = Numbers(ids, a.attribute) /\ \A i \in 1 .. Len(c) : ids[a.verts[i]] = c[i]
  BY ElementHas
<1>3. b.attribute \in Elems /\ b.verts = Numbers(ids, b.attribute) /\ \A i \in 1 .. Len(d) : ids[b.verts[i]] = d[i]
  BY ElementHas
<1>4. c \in Seq(Nat) /\ d \in Seq(Nat)
  BY <1>2, <1>3 DEF RedecompAssumption
<1>5. /\ a.verts = [j \in 1 .. Len(c) |-> FirstAt(ids, c[j])]
      /\ b.verts = [j \in 1 .. Len(d) |-> FirstAt(ids, d[j])]
  BY <1>2, <1>3 DEF Numbers
<1> HIDE DEF ids, a, b
<1>6. Map(a.verts, LAMBDA v : vertices[r][v]) = c
  <2> DEFINE t == [i \in DOMAIN a.verts |-> ids[a.verts[i]]]
  <2>1. Map(a.verts, LAMBDA v : vertices[r][v]) = t \o <<>>
    BY <1>1 DEF Map
  <2>2. t = [i \in 1 .. Len(c) |-> t[i]] /\ \A i \in 1 .. Len(c) : t[i] = c[i]
    BY <1>2, <1>5
  <2> HIDE DEF t, c
  <2>3. Len(c) \in Nat /\ DOMAIN c = 1 .. Len(c) /\ \A i \in 1 .. Len(c) : t[i] \in Nat
    BY <1>4, <2>2
  <2>4. t \in Seq(Nat) /\ Len(t) = Len(c) /\ t \o <<>> = t
    BY <2>2, <2>3, TableIs
  <2>5. t = c
    BY <1>4, <2>2, <2>3, <2>4, SameSeq
  <2> QED BY <2>1, <2>4, <2>5
<1>7. ASSUME NEW i \in DOMAIN a.verts, NEW j \in DOMAIN b.verts PROVE (a.verts[i] = b.verts[j]) = (c[i] = d[j])
  <2> HIDE DEF c, d
  <2>1. i \in 1 .. Len(c) /\ j \in 1 .. Len(d)
    BY <1>5
  <2>2. ids[a.verts[i]] = c[i] /\ ids[b.verts[j]] = d[j]
    BY <1>2, <1>3, <2>1
  <2>3. a.verts[i] = FirstAt(ids, c[i]) /\ b.verts[j] = FirstAt(ids, d[j])
    BY <1>5, <2>1
  <2>4. a.verts[i] = b.verts[j] => c[i] = d[j]
    BY <2>2
  <2>5. c[i] = d[j] => a.verts[i] = b.verts[j]
    BY <2>3
  <2> QED BY <2>4, <2>5
<1> QED BY <1>6, <1>7 DEF a, b, c, d

\* Offsets and ghost lists lead back: the elements of a source follow those of the sources before it.
LEMMA LeadsToParentBuilt == ASSUME RedecompAssumption, MeshIInv PROVE LeadsToParent
<1> SUFFICES ASSUME Built, NEW r \in Procs, NEW p \in Procs
             PROVE  /\ Cardinality(ElemsFrom(r, p)) = Len(p2r[p][r])
                    /\ \A e \in ElemsFrom(r, p) :
                         /\ elements[r][e].attribute = p2r[p][r][e - offsets[r][p]].elem
                         /\ IsGhost(r, p, e) = p2r[p][r][e - offsets[r][p]].ghost
  BY DEF LeadsToParent
<1> DEFINE I == ItemsFrom(p2r, r)
           G == FlattenSeq(I)
           list == p2r[p][r]
           off == offsets[r][p]
           n == Len(list)
<1>1. /\ ParentIs /\ ElementsAre(elements[r], vertIds[r], G) /\ offsets[r] = OffsetsOf(I)
      /\ GhostsAre(ghostElems[r][p], list, off)
  BY DEF MeshIInv, HasElements, HasOffsets, HasGhosts, Built
<1>2. P \in Nat /\ Procs = 1 .. P /\ Len(I) = P
  BY <1>1, FromAre
<1>3. PICK T : I \in Seq(Seq(T))
  BY <1>1, FromAre
<1>4. I[p] = list /\ list \in Seq(Item(p))
  BY <1>1 DEF ItemsFrom, ParentIs
<1> HIDE DEF I, list
<1>5. Start(I, p) \in Nat /\ Prefix(Lens(I), p) = Start(I, p) + n /\ n \in Nat /\ DOMAIN list = 1 .. n
  BY <1>2, <1>3, <1>4, StartIs
<1>6. off = Start(I, p) /\ offsets[r][p + 1] = off + n
  <2>1. p \in 1 .. P + 1 /\ p + 1 \in 1 .. P + 1 /\ p + 1 - 1 = p
    BY <1>2
  <2>2. offsets[r][p] = Prefix(Lens(I), p - 1)
    BY <1>1, <2>1 DEF OffsetsOf
  <2>3. offsets[r][p + 1] = Prefix(Lens(I), p)
    <3>1. PICK q : q = p + 1
      OBVIOUS
    <3>2. q \in 1 .. P + 1 /\ q - 1 = p
      BY <2>1, <3>1
    <3>3. offsets[r][q] = Prefix(Lens(I), q - 1)
      BY <1>1, <3>2 DEF OffsetsOf
    <3> QED BY <3>1, <3>2, <3>3, Zenon
  <2> QED BY <1>5, <2>2, <2>3 DEF Start
<1> HIDE DEF off, n
<1>7. ElemsFrom(r, p) = off + 1 .. off + n
  BY <1>6 DEF ElemsFrom, off
<1>8. Cardinality(ElemsFrom(r, p)) = n
  <2>1. off + 1 \in Int /\ off + n \in Int
    BY <1>5, <1>6
  <2>2. Cardinality(off + 1 .. off + n) = IF off + 1 > off + n THEN 0 ELSE (off + n) - (off + 1) + 1
    BY <2>1, FS_Interval
  <2>3. (IF off + 1 > off + n THEN 0 ELSE (off + n) - (off + 1) + 1) = n
    BY <1>5, <1>6
  <2> QED BY <1>7, <2>2, <2>3
<1>9. Joins(G, I, P, T)
  BY <1>2, <1>3, FlattenIs
<1> HIDE DEF G
<1>10. ASSUME NEW e \in ElemsFrom(r, p)
       PROVE  elements[r][e].attribute = list[e - off].elem /\ IsGhost(r, p, e) = list[e - off].ghost
  <2>1. PICK k : k = e - off
    OBVIOUS
  <2>2. k \in 1 .. n /\ e = off + k /\ e = k + off
    BY <1>5, <1>6, <1>7, <2>1
  <2>3. p \in 1 .. P /\ k \in 1 .. Len(I[p])
    BY <1>2, <1>4, <2>2 DEF n
  <2>4. Start(I, p) + k \in 1 .. Len(G) /\ G[Start(I, p) + k] = I[p][k]
    BY <1>9, <2>3 DEF Joins
  <2>5. e \in 1 .. Len(G) /\ G[e] = list[k]
    BY <1>4, <1>6, <2>2, <2>4
  <2>6. G \in Seq(T)
    BY <1>9 DEF Joins
  <2>7. e \in DOMAIN G
    BY <2>5, <2>6
  <2>8. elements[r][e].attribute = list[k].elem
    <3>1. elements[r][e] = [verts |-> Numbers(vertIds[r], G[e].elem), attribute |-> G[e].elem]
      BY <1>1, <2>7 DEF ElementsAre
    <3> QED BY <2>5, <3>1
  <2>9. list[k].ghost \in BOOLEAN /\ k \in DOMAIN list
    <3>1. k \in DOMAIN list /\ list[k] \in Item(p)
      BY <1>4, <1>5, <2>2
    <3> QED BY <3>1 DEF Item
  <2>10. IsGhost(r, p, e) <=> list[k].ghost
    <3>1. IsGhost(r, p, e) <=> e \in {j + off : j \in {i \in DOMAIN list : list[i].ghost}}
      BY <1>1 DEF IsGhost, GhostsAre
    <3>2. ASSUME NEW j \in DOMAIN list, e = j + off PROVE j = k
      BY <1>5, <1>6, <2>2, <3>2
    <3> QED BY <2>2, <2>9, <3>1, <3>2
  <2>11. IsGhost(r, p, e) \in BOOLEAN
    BY DEF IsGhost
  <2> QED BY <2>1, <2>8, <2>9, <2>10, <2>11
<1> QED BY <1>8, <1>10 DEF list, off, n

\* BuildRedecomp for any parent mesh, ranks and partition: every rank ends with the elements sent to it,
\* joined as they are in the parent, and with offsets and ghost lists that lead back to what was sent.
THEOREM AnyMeshMatchesParent == ASSUME RedecompAssumption PROVE MeshSpec => []MeshesMatchParent
<1>1. MeshInit => MeshIInv
  BY MeshInitially
<1>2. MeshIInv /\ [BuildRedecomp]_meshVars => MeshIInv'
  BY MeshStep
<1>3. MeshIInv => MeshesMatchParent
  BY SameMeshBuilt, LeadsToParentBuilt DEF MeshesMatchParent
<1> QED BY <1>1, <1>2, <1>3, PTL DEF MeshSpec

-----------------------------------------------------------------------------
(* What a built mesh says of where its elements came from. *)

\* The numbers of an interval in ascending order are the numbers one after another.
LEMMA IntervalAscends ==
  ASSUME NEW a \in Nat, NEW n \in Nat
  PROVE  /\ Ascending(a + 1 .. a + n) \in Seq(Nat) /\ Len(Ascending(a + 1 .. a + n)) = n
         /\ \A k \in 1 .. n : Ascending(a + 1 .. a + n)[k] = a + k
<1> DEFINE S == a + 1 .. a + n
           pick(k) == CHOOSE x \in S : Cardinality({y \in S : y < x}) = k - 1
           t == [k \in 1 .. n |-> pick(k)]
<1>1. Cardinality(S) = n
  <2>1. a + 1 \in Int /\ a + n \in Int
    OBVIOUS
  <2>2. Cardinality(S) = IF a + 1 > a + n THEN 0 ELSE (a + n) - (a + 1) + 1
    BY <2>1, FS_Interval
  <2> QED BY <2>2
<1>2. ASSUME NEW j \in 1 .. n PROVE a + j \in S /\ Cardinality({y \in S : y < a + j}) = j - 1
  <2>1. {y \in S : y < a + j} = a + 1 .. a + (j - 1)
    OBVIOUS
  <2>2. a + 1 \in Int /\ a + (j - 1) \in Int
    OBVIOUS
  <2>3. Cardinality(a + 1 .. a + (j - 1)) = IF a + 1 > a + (j - 1) THEN 0 ELSE (a + (j - 1)) - (a + 1) + 1
    BY <2>2, FS_Interval
  <2>4. (IF a + 1 > a + (j - 1) THEN 0 ELSE (a + (j - 1)) - (a + 1) + 1) = j - 1
    OBVIOUS
  <2>5. a + j \in S
    OBVIOUS
  <2> QED BY <2>1, <2>3, <2>4, <2>5
<1>3. \A x \in S : \E j \in 1 .. n : x = a + j
  <2> SUFFICES ASSUME NEW x \in S PROVE \E j \in 1 .. n : x = a + j
    OBVIOUS
  <2>1. x - a \in 1 .. n /\ x = a + (x - a)
    OBVIOUS
  <2> QED BY <2>1
<1> HIDE DEF S
<1>4. ASSUME NEW k \in 1 .. n PROVE pick(k) = a + k
  <2>1. pick(k) \in S /\ Cardinality({y \in S : y < pick(k)}) = k - 1
    BY <1>2
  <2> HIDE DEF pick
  <2>2. PICK j \in 1 .. n : pick(k) = a + j
    BY <1>3, <2>1
  <2>3. j - 1 = k - 1
    BY <1>2, <2>1, <2>2
  <2> QED BY <2>2, <2>3
<1> HIDE DEF pick
<1>5. t = [k \in 1 .. n |-> t[k]] /\ \A k \in 1 .. n : t[k] = a + k /\ t[k] \in Nat
  BY <1>4
<1>6. Ascending(S) = t \o <<>>
  BY <1>1 DEF Ascending, Sorted, pick
<1> HIDE DEF t
<1>7. t \in Seq(Nat) /\ Len(t) = n /\ t \o <<>> = t
  BY <1>5, TableIs
<1> QED BY <1>5, <1>6, <1>7 DEF S

\* Where the part of a source ends, none of a later one has begun.
LEMMA StartsAscend ==
  ASSUME NEW T, NEW ss \in Seq(Seq(T)), NEW p \in 1 .. Len(ss), NEW q \in 1 .. Len(ss), p < q
  PROVE  Start(ss, p) + Len(ss[p]) <= Start(ss, q)
<1> DEFINE Good == {n \in Nat : p + 1 + n <= Len(ss) => Prefix(Lens(ss), p) <= Start(ss, p + 1 + n)}
           n0 == Len(ss)
<1>1. /\ n0 \in Nat
      /\ \A i \in 1 .. n0 : /\ Len(ss[i]) \in Nat /\ Start(ss, i) \in Nat
                            /\ Prefix(Lens(ss), i) = Start(ss, i) + Len(ss[i])
  BY StartIs
<1>2. \A i \in 1 .. n0 : Prefix(Lens(ss), i) \in Nat
  <2> SUFFICES ASSUME NEW i \in 1 .. n0 PROVE Prefix(Lens(ss), i) \in Nat
    OBVIOUS
  <2> HIDE DEF n0
  <2>1. PICK a, b : a = Start(ss, i) /\ b = Len(ss[i])
    OBVIOUS
  <2>2. a \in Nat /\ b \in Nat /\ Prefix(Lens(ss), i) = a + b
    BY <1>1, <2>1
  <2>3. a + b \in Nat
    BY <2>2
  <2> QED BY <2>2, <2>3
<1>3. 0 \in Good
  <2>1. p + 1 + 0 - 1 = p
    OBVIOUS
  <2>2. ASSUME p + 1 + 0 <= n0 PROVE Prefix(Lens(ss), p) <= Start(ss, p + 1 + 0)
    <3>1. Start(ss, p + 1 + 0) = Prefix(Lens(ss), p)
      BY <2>1 DEF Start
    <3> QED BY <1>2, <3>1
  <2> QED BY <2>2
<1>4. ASSUME NEW n \in Nat, n \in Good PROVE n + 1 \in Good
  <2> SUFFICES ASSUME p + 1 + (n + 1) <= n0 PROVE Prefix(Lens(ss), p) <= Start(ss, p + 1 + (n + 1))
    OBVIOUS
  <2>1. PICK i : i = p + 1 + n
    OBVIOUS
  <2>2. PICK j : j = p + 1 + (n + 1)
    OBVIOUS
  <2>3. i \in 1 .. n0 /\ j - 1 = i
    BY <1>1, <2>1, <2>2
  <2>4. Start(ss, j) = Prefix(Lens(ss), i)
    BY <2>3 DEF Start
  <2>5. Prefix(Lens(ss), i) = Start(ss, i) + Len(ss[i]) /\ Start(ss, i) \in Nat /\ Len(ss[i]) \in Nat
    BY <1>1, <2>3
  <2>6. Prefix(Lens(ss), p) \in Nat
    BY <1>2
  <2>7. Prefix(Lens(ss), p) <= Start(ss, i)
    BY <1>1, <1>4, <2>1, <2>3
  <2>8. Prefix(Lens(ss), p) <= Start(ss, j)
    <3> HIDE DEF n0, Good
    <3>1. Prefix(Lens(ss), p) <= Start(ss, i) + Len(ss[i])
      BY <2>5, <2>6, <2>7
    <3> QED BY <2>4, <2>5, <3>1
  <2> QED BY <2>2, <2>8
<1> HIDE DEF Good
<1>5. \A n \in Nat : n \in Good
  BY <1>3, <1>4, NumberInduction
<1>6. q - p - 1 \in Nat /\ p + 1 + (q - p - 1) = q
  BY <1>1
<1>7. PICK n \in Nat : p + 1 + n = q
  BY <1>6
<1>8. Prefix(Lens(ss), p) <= Start(ss, q)
  <2>1. p + 1 + n <= Len(ss) => Prefix(Lens(ss), p) <= Start(ss, p + 1 + n)
    BY <1>5 DEF Good
  <2>2. q <= Len(ss)
    BY <1>1
  <2> QED BY <1>7, <2>1, <2>2
<1>9. Prefix(Lens(ss), p) = Start(ss, p) + Len(ss[p])
  BY <1>1
<1> QED BY <1>8, <1>9

\* Where the elements of a source are, and what they are.
LEMMA SourceIs ==
  ASSUME RedecompAssumption, MeshIInv, Built, NEW r \in Procs, NEW p \in Procs
  PROVE  LET list == p2r[p][r]
             off == offsets[r][p]
         IN  /\ list \in Seq(Item(p)) /\ off = Start(ItemsFrom(p2r, r), p) /\ off \in Nat
             /\ ElemsFrom(r, p) = off + 1 .. off + Len(list)
             /\ \A k \in 1 .. Len(list) : /\ off + k \in DOMAIN elements[r]
                                          /\ elements[r][off + k].attribute = list[k].elem
                                          /\ IsGhost(r, p, off + k) = list[k].ghost
<1> DEFINE I == ItemsFrom(p2r, r)
           G == FlattenSeq(I)
           list == p2r[p][r]
           off == offsets[r][p]
           n == Len(list)
<1>1. /\ ParentIs /\ ElementsAre(elements[r], vertIds[r], G) /\ offsets[r] = OffsetsOf(I)
      /\ GhostsAre(ghostElems[r][p], list, off)
  BY DEF MeshIInv, HasElements, HasOffsets, HasGhosts, Built
<1>2. P \in Nat /\ Procs = 1 .. P /\ Len(I) = P
  BY <1>1, FromAre
<1>3. PICK T : I \in Seq(Seq(T))
  BY <1>1, FromAre
<1>4. I[p] = list /\ list \in Seq(Item(p))
  BY <1>1 DEF ItemsFrom, ParentIs
<1> HIDE DEF I, list
<1>5. Start(I, p) \in Nat /\ Prefix(Lens(I), p) = Start(I, p) + n /\ n \in Nat /\ DOMAIN list = 1 .. n
  BY <1>2, <1>3, <1>4, StartIs
<1>6. off = Start(I, p) /\ offsets[r][p + 1] = off + n
  <2>1. p \in 1 .. P + 1 /\ p + 1 \in 1 .. P + 1 /\ p + 1 - 1 = p
    BY <1>2
  <2>2. offsets[r][p] = Prefix(Lens(I), p - 1)
    BY <1>1, <2>1 DEF OffsetsOf
  <2>3. offsets[r][p + 1] = Prefix(Lens(I), p)
    <3>1. PICK q : q = p + 1
      OBVIOUS
    <3>2. q \in 1 .. P + 1 /\ q - 1 = p
      BY <2>1, <3>1
    <3>3. offsets[r][q] = Prefix(Lens(I), q - 1)
      BY <1>1, <3>2 DEF OffsetsOf
    <3> QED BY <3>1, <3>2, <3>3, Zenon
  <2> QED BY <1>5, <2>2, <2>3 DEF Start
<1> HIDE DEF off, n
<1>7. ElemsFrom(r, p) = off + 1 .. off + n
  BY <1>6 DEF ElemsFrom, off
<1>8. Joins(G, I, P, T)
  BY <1>2, <1>3, FlattenIs
<1> HIDE DEF G
<1>9. ASSUME NEW k \in 1 .. n
      PROVE  /\ off + k \in DOMAIN elements[r] /\ elements[r][off + k].attribute = list[k].elem
             /\ IsGhost(r, p, off + k) = list[k].ghost
  <2>1. p \in 1 .. P /\ k \in 1 .. Len(I[p])
    BY <1>2, <1>4 DEF n
  <2>2. off + k \in 1 .. Len(G) /\ G[off + k] = list[k]
    BY <1>4, <1>6, <1>8, <2>1 DEF Joins
  <2>3. G \in Seq(T)
    BY <1>8 DEF Joins
  <2>4. off + k \in DOMAIN G
    BY <2>2, <2>3
  <2>5. off + k \in DOMAIN elements[r] /\ elements[r][off + k].attribute = list[k].elem
    <3>1. /\ elements[r][off + k] = [verts |-> Numbers(vertIds[r], G[off + k].elem), attribute |-> G[off + k].elem]
          /\ DOMAIN elements[r] = DOMAIN G
      BY <1>1, <2>4 DEF ElementsAre
    <3> QED BY <2>2, <2>4, <3>1
  <2>6. list[k].ghost \in BOOLEAN /\ k \in DOMAIN list
    <3>1. k \in DOMAIN list /\ list[k] \in Item(p)
      BY <1>4, <1>5
    <3> QED BY <3>1 DEF Item
  <2>7. IsGhost(r, p, off + k) <=> list[k].ghost
    <3>1. IsGhost(r, p, off + k) <=> off + k \in {j + off : j \in {i \in DOMAIN list : list[i].ghost}}
      BY <1>1 DEF IsGhost, GhostsAre
    <3>2. ASSUME NEW j \in DOMAIN list, off + k = j + off PROVE j = k
      BY <1>5, <1>6, <3>2
    <3>3. off + k = k + off
      BY <1>5, <1>6
    <3> QED BY <2>6, <3>1, <3>2, <3>3
  <2>8. IsGhost(r, p, off + k) \in BOOLEAN
    BY DEF IsGhost
  <2> QED BY <2>5, <2>6, <2>7, <2>8
<1> QED BY <1>4, <1>5, <1>6, <1>7, <1>9 DEF I, list, off, n

\* Every element of a rank came from a source.
LEMMA SourceOf ==
  ASSUME RedecompAssumption, MeshIInv, Built, NEW r \in Procs, NEW e \in DOMAIN elements[r]
  PROVE  \E p \in Procs : \E k \in 1 .. Len(p2r[p][r]) : e = offsets[r][p] + k
<1> DEFINE I == ItemsFrom(p2r, r)
           G == FlattenSeq(I)
<1>1. ParentIs /\ ElementsAre(elements[r], vertIds[r], G)
  BY DEF MeshIInv, HasElements, Built
<1>2. P \in Nat /\ Procs = 1 .. P /\ Len(I) = P
  BY <1>1, FromAre
<1>3. PICK T : I \in Seq(Seq(T))
  BY <1>1, FromAre
<1>4. \A p \in Procs : I[p] = p2r[p][r]
  BY DEF ItemsFrom
<1>5. \A p \in Procs : offsets[r][p] = Start(I, p)
  BY SourceIs
<1> HIDE DEF I
<1>6. Joins(G, I, P, T)
  BY <1>2, <1>3, FlattenIs
<1> HIDE DEF G
<1>7. G \in Seq(T) /\ DOMAIN elements[r] = DOMAIN G
  BY <1>1, <1>6 DEF Joins, ElementsAre
<1>8. e \in 1 .. Len(G)
  BY <1>7
<1>9. PICK p \in 1 .. P : \E k \in 1 .. Len(I[p]) : e = Start(I, p) + k
  BY <1>6, <1>8 DEF Joins
<1> QED BY <1>2, <1>4, <1>5, <1>9

\* The ghosts of one source are not among the elements of another.
LEMMA GhostOfSource ==
  ASSUME RedecompAssumption, MeshIInv, Built, NEW r \in Procs, NEW p \in Procs, NEW k \in 1 .. Len(p2r[p][r])
  PROVE  (\A q \in Procs : ~IsGhost(r, q, offsets[r][p] + k)) <=> ~p2r[p][r][k].ghost
<1> DEFINE I == ItemsFrom(p2r, r)
           e == offsets[r][p] + k
<1>1. ParentIs
  BY DEF MeshIInv
<1>2. P \in Nat /\ Procs = 1 .. P /\ Len(I) = P
  BY <1>1, FromAre
<1>3. PICK T : I \in Seq(Seq(T))
  BY <1>1, FromAre
<1>4. \A q \in Procs : I[q] = p2r[q][r] /\ offsets[r][q] = Start(I, q) /\ offsets[r][q] \in Nat
  BY SourceIs DEF ItemsFrom
<1> HIDE DEF I
<1>5. IsGhost(r, p, e) = p2r[p][r][k].ghost
  BY SourceIs
<1>6. ASSUME NEW q \in Procs, IsGhost(r, q, e) PROVE q = p
  <2>1. GhostsAre(ghostElems[r][q], p2r[q][r], offsets[r][q])
    BY DEF MeshIInv, HasGhosts
  <2>2. e \in {j + offsets[r][q] : j \in {i \in DOMAIN p2r[q][r] : p2r[q][r][i].ghost}}
    BY <1>6, <2>1 DEF IsGhost, GhostsAre
  <2>3. PICK j \in DOMAIN p2r[q][r] : e = j + offsets[r][q]
    BY <2>2
  <2>4. p2r[q][r] \in Seq(Item(q)) /\ p2r[p][r] \in Seq(Item(p))
    BY <1>1 DEF ParentIs
  <2>5. j \in 1 .. Len(I[q]) /\ k \in 1 .. Len(I[p]) /\ Len(I[q]) \in Nat /\ Len(I[p]) \in Nat
    BY <1>4, <2>3, <2>4
  <2>6. e = Start(I, q) + j /\ e = Start(I, p) + k /\ Start(I, p) \in Nat /\ Start(I, q) \in Nat
    BY <1>4, <2>3, <2>5
  <2> HIDE DEF e
  <2>7. CASE q < p
    <3>1. Start(I, q) + Len(I[q]) <= Start(I, p)
      BY <1>2, <1>3, <2>7, StartsAscend
    <3> QED BY <2>5, <2>6, <3>1
  <2>8. CASE p < q
    <3>1. Start(I, p) + Len(I[p]) <= Start(I, q)
      BY <1>2, <1>3, <2>8, StartsAscend
    <3> QED BY <2>5, <2>6, <3>1
  <2> QED BY <1>2, <2>7, <2>8
<1> QED BY <1>5, <1>6

\* An element as it was received: its number, and whether it is a ghost.
LEMMA ReceivedAre ==
  ASSUME RedecompAssumption, MeshIInv, Built, NEW r \in Procs, NEW p \in Procs
  PROVE  /\ Len(ReceivedElems(r, p)) = Len(p2r[p][r]) /\ DOMAIN ReceivedElems(r, p) = 1 .. Len(p2r[p][r])
         /\ \A k \in 1 .. Len(p2r[p][r]) :
              ReceivedElems(r, p)[k] = [elem |-> offsets[r][p] + k, ghost |-> p2r[p][r][k].ghost]
<1> DEFINE list == p2r[p][r]
           n == Len(list)
           off == offsets[r][p]
           S == ElemsFrom(r, p)
           a == Ascending(S)
           t == [k \in DOMAIN a |-> [elem |-> a[k], ghost |-> IsGhost(r, p, a[k])]]
<1>1. /\ list \in Seq(Item(p)) /\ off \in Nat /\ S = off + 1 .. off + n
      /\ \A k \in 1 .. n : IsGhost(r, p, off + k) = list[k].ghost
  BY SourceIs
<1> HIDE DEF list
<1>2. n \in Nat
  BY <1>1
<1> HIDE DEF S, n, off
<1>3. a \in Seq(Nat) /\ Len(a) = n /\ \A k \in 1 .. n : a[k] = off + k
  BY <1>1, <1>2, IntervalAscends
<1>4. ReceivedElems(r, p) = t \o <<>>
  BY DEF ReceivedElems, Map, S
<1> HIDE DEF a
<1>5. DOMAIN a = 1 .. n
  BY <1>2, <1>3
<1>6. t = [k \in 1 .. n |-> t[k]] /\ \A k \in 1 .. n : t[k] = [elem |-> off + k, ghost |-> list[k].ghost]
  BY <1>1, <1>3, <1>5
<1> HIDE DEF t
<1>7. t \o <<>> = t /\ Len(t) = n /\ DOMAIN t = 1 .. n
  BY <1>2, <1>6, TableKept
<1> QED BY <1>4, <1>6, <1>7 DEF n, off, list

-----------------------------------------------------------------------------
(* Lists of lists, and the places of lists of nodes. *)

\* Nothing of parts in step is left out.
Keeps(f, g, ss, tt) ==
  \A p \in 1 .. Len(ss) : \A k \in 1 .. Len(ss[p]) : \E i \in 1 .. Len(f) : f[i] = ss[p][k] /\ g[i] = tt[p][k]

LEMMA FlattenKeeps ==
  ASSUME NEW T, NEW ss \in Seq(Seq(T)), NEW U, NEW tt \in Seq(Seq(U)), SameLens(ss, tt)
  PROVE  Keeps(FlattenSeq(ss), FlattenSeq(tt), ss, tt)
<1> SUFFICES ASSUME NEW p \in 1 .. Len(ss), NEW k \in 1 .. Len(ss[p])
             PROVE  \E i \in 1 .. Len(FlattenSeq(ss)) : FlattenSeq(ss)[i] = ss[p][k] /\ FlattenSeq(tt)[i] = tt[p][k]
  BY DEF Keeps
<1>1. Lens(ss) = Lens(tt) /\ Len(tt) = Len(ss) /\ Len(tt[p]) = Len(ss[p])
  BY DEF Lens, SameLens
<1>2. Start(ss, p) = Start(tt, p)
  BY <1>1 DEF Start
<1>3. Joins(FlattenSeq(ss), ss, Len(ss), T) /\ Joins(FlattenSeq(tt), tt, Len(tt), U)
  BY FlattenIs
<1>4. Start(ss, p) + k \in 1 .. Len(FlattenSeq(ss)) /\ FlattenSeq(ss)[Start(ss, p) + k] = ss[p][k]
  BY <1>3 DEF Joins
<1>5. FlattenSeq(tt)[Start(tt, p) + k] = tt[p][k]
  BY <1>1, <1>3 DEF Joins
<1> QED BY <1>2, <1>4, <1>5

-----------------------------------------------------------------------------
(* Places. *)

\* S and U are the places of the nodes s and u, all components of each, in the same order.
PlacesOfNodes(S, U, s, u) ==
  /\ S \in Seq(Nat \X Components) /\ U \in Seq(Nat \X Components) /\ Len(S) = Len(U)
  /\ \A j \in 1 .. Len(S) : \E i \in 1 .. Len(s) : \E d \in Components : S[j] = <<s[i], d>> /\ U[j] = <<u[i], d>>
  /\ \A i \in 1 .. Len(s) : \A d \in Components : \E j \in 1 .. Len(S) : S[j] = <<s[i], d>> /\ U[j] = <<u[i], d>>

\* Parts that are component by component, or node by node, make such places.
OfNodes(ss, tt, s, u) ==
  /\ ss \in Seq(Seq(Nat \X Components)) /\ tt \in Seq(Seq(Nat \X Components)) /\ SameLens(ss, tt)
  /\ \A q \in 1 .. Len(ss) : \A k \in 1 .. Len(ss[q]) :
       \E i \in 1 .. Len(s) : \E d \in Components : ss[q][k] = <<s[i], d>> /\ tt[q][k] = <<u[i], d>>
  /\ \A i \in 1 .. Len(s) : \A d \in Components :
       \E q \in 1 .. Len(ss) : \E k \in 1 .. Len(ss[q]) : ss[q][k] = <<s[i], d>> /\ tt[q][k] = <<u[i], d>>

LEMMA FlattenPlaces ==
  ASSUME NEW s, NEW u, NEW ss, NEW tt, OfNodes(ss, tt, s, u)
  PROVE  PlacesOfNodes(FlattenSeq(ss), FlattenSeq(tt), s, u)
<1> DEFINE T == Nat \X Components
           S == FlattenSeq(ss)
           U == FlattenSeq(tt)
<1>1. ss \in Seq(Seq(T)) /\ tt \in Seq(Seq(T)) /\ SameLens(ss, tt)
  BY DEF OfNodes
<1>2. S \in Seq(T) /\ U \in Seq(T) /\ Matches(S, U, ss, tt)
  BY <1>1, FlattenAlike
<1>3. Keeps(S, U, ss, tt)
  BY <1>1, FlattenKeeps
<1> HIDE DEF S, U
<1>4. DOMAIN S = 1 .. Len(S) /\ Len(S) = Len(U)
  BY <1>2 DEF Matches
<1>5. ASSUME NEW j \in 1 .. Len(S)
      PROVE  \E i \in 1 .. Len(s) : \E d \in Components : S[j] = <<s[i], d>> /\ U[j] = <<u[i], d>>
  <2>1. PICK q \in 1 .. Len(ss) : \E k \in 1 .. Len(ss[q]) : S[j] = ss[q][k] /\ U[j] = tt[q][k]
    BY <1>2, <1>4 DEF Matches
  <2>2. PICK k \in 1 .. Len(ss[q]) : S[j] = ss[q][k] /\ U[j] = tt[q][k]
    BY <2>1
  <2>3. PICK i \in 1 .. Len(s) : \E d \in Components : ss[q][k] = <<s[i], d>> /\ tt[q][k] = <<u[i], d>>
    BY DEF OfNodes
  <2> QED BY <2>2, <2>3
<1>6. ASSUME NEW i \in 1 .. Len(s), NEW d \in Components
      PROVE  \E j \in 1 .. Len(S) : S[j] = <<s[i], d>> /\ U[j] = <<u[i], d>>
  <2>1. PICK q \in 1 .. Len(ss) : \E k \in 1 .. Len(ss[q]) : ss[q][k] = <<s[i], d>> /\ tt[q][k] = <<u[i], d>>
    BY DEF OfNodes
  <2>2. PICK k \in 1 .. Len(ss[q]) : ss[q][k] = <<s[i], d>> /\ tt[q][k] = <<u[i], d>>
    BY <2>1
  <2> QED BY <1>3, <2>2 DEF Keeps
<1>7. PlacesOfNodes(S, U, s, u)
  BY <1>2, <1>4, <1>5, <1>6 DEF PlacesOfNodes
<1> QED BY <1>7 DEF S, U

\* One component of all nodes.
LEMMA ComponentOf ==
  ASSUME NEW s \in Seq(Nat), NEW d \in Components
  PROVE  /\ Map(s, LAMBDA n : <<n, d>>) \in Seq(Nat \X Components) /\ Len(Map(s, LAMBDA n : <<n, d>>)) = Len(s)
         /\ \A k \in 1 .. Len(s) : Map(s, LAMBDA n : <<n, d>>)[k] = <<s[k], d>>
<1> DEFINE t == [k \in DOMAIN s |-> <<s[k], d>>]
<1>1. Len(s) \in Nat /\ DOMAIN s = 1 .. Len(s) /\ \A k \in 1 .. Len(s) : s[k] \in Nat
  OBVIOUS
<1>2. t = [k \in 1 .. Len(s) |-> t[k]] /\ \A k \in 1 .. Len(s) : t[k] = <<s[k], d>> /\ t[k] \in Nat \X Components
  BY <1>1
<1>3. Map(s, LAMBDA n : <<n, d>>) = t \o <<>>
  BY DEF Map
<1> HIDE DEF t
<1>4. t \in Seq(Nat \X Components) /\ Len(t) = Len(s) /\ t \o <<>> = t
  BY <1>1, <1>2, TableIs
<1> QED BY <1>2, <1>3, <1>4

\* All components of all nodes, component by component.
LEMMA ByComponentIs ==
  ASSUME TransferAssumption, NEW s \in Seq(Nat), NEW u \in Seq(Nat), Len(s) = Len(u)
  PROVE  PlacesOfNodes(ByComponent(s), ByComponent(u), s, u)
<1> DEFINE ss == [d \in Components |-> Map(s, LAMBDA n : <<n, d>>)]
           tt == [d \in Components |-> Map(u, LAMBDA n : <<n, d>>)]
           T == Nat \X Components
<1>1. VDim \in Nat /\ Components = 1 .. VDim /\ Len(s) \in Nat
  BY DEF TransferAssumption, Components
<1>2. \A d \in Components : /\ ss[d] \in Seq(T) /\ Len(ss[d]) = Len(s)
                            /\ \A k \in 1 .. Len(s) : ss[d][k] = <<s[k], d>>
  BY ComponentOf
<1>3. \A d \in Components : /\ tt[d] \in Seq(T) /\ Len(tt[d]) = Len(s)
                            /\ \A k \in 1 .. Len(s) : tt[d][k] = <<u[k], d>>
  BY ComponentOf
<1>4. ss = [d \in 1 .. VDim |-> ss[d]] /\ tt = [d \in 1 .. VDim |-> tt[d]]
  BY <1>1
<1>5. ByComponent(s) = FlattenSeq(ss) /\ ByComponent(u) = FlattenSeq(tt)
  BY DEF ByComponent
<1> HIDE DEF ss, tt
<1>6. ss \in Seq(Seq(T)) /\ Len(ss) = VDim /\ tt \in Seq(Seq(T)) /\ Len(tt) = VDim
  <2> HIDE DEF T
  <2>1. \A d \in 1 .. VDim : ss[d] \in Seq(T) /\ tt[d] \in Seq(T)
    BY <1>1, <1>2, <1>3
  <2>2. ss \in Seq(Seq(T)) /\ Len(ss) = VDim
    BY <1>1, <1>4, <2>1, TableIs
  <2>3. tt \in Seq(Seq(T)) /\ Len(tt) = VDim
    BY <1>1, <1>4, <2>1, TableIs
  <2> QED BY <2>2, <2>3
<1>7. SameLens(ss, tt)
  BY <1>1, <1>2, <1>3, <1>6 DEF SameLens
<1>8. ASSUME NEW q \in Components, NEW k \in 1 .. Len(s) PROVE ss[q][k] = <<s[k], q>> /\ tt[q][k] = <<u[k], q>>
  BY <1>2, <1>3
<1>9. \A q \in Components : Len(ss[q]) = Len(s)
  BY <1>2
<1>10. \A q \in 1 .. Len(ss) : \A k \in 1 .. Len(ss[q]) :
         \E i \in 1 .. Len(s) : \E d \in Components : ss[q][k] = <<s[i], d>> /\ tt[q][k] = <<u[i], d>>
  <2> SUFFICES ASSUME NEW q \in 1 .. Len(ss), NEW k \in 1 .. Len(ss[q])
               PROVE  \E i \in 1 .. Len(s) : \E d \in Components : ss[q][k] = <<s[i], d>> /\ tt[q][k] = <<u[i], d>>
    OBVIOUS
  <2>1. q \in Components /\ k \in 1 .. Len(s)
    BY <1>1, <1>6, <1>9
  <2> QED BY <1>8, <2>1
<1>11. \A i \in 1 .. Len(s) : \A d \in Components :
         \E q \in 1 .. Len(ss) : \E k \in 1 .. Len(ss[q]) : ss[q][k] = <<s[i], d>> /\ tt[q][k] = <<u[i], d>>
  <2> SUFFICES ASSUME NEW i \in 1 .. Len(s), NEW d \in Components
               PROVE  \E q \in 1 .. Len(ss) : \E k \in 1 .. Len(ss[q]) : ss[q][k] = <<s[i], d>> /\ tt[q][k] = <<u[i], d>>
    OBVIOUS
  <2>1. d \in 1 .. Len(ss) /\ i \in 1 .. Len(ss[d])
    BY <1>1, <1>6, <1>9
  <2>2. ss[d][i] = <<s[i], d>> /\ tt[d][i] = <<u[i], d>>
    BY <1>8
  <2> QED BY <2>1, <2>2
<1>12. OfNodes(ss, tt, s, u)
  BY <1>6, <1>7, <1>10, <1>11 DEF OfNodes
<1> QED BY <1>5, <1>12, FlattenPlaces

\* All components of all nodes, node by node.
LEMMA ByDofIs ==
  ASSUME TransferAssumption, NEW s \in Seq(Nat), NEW u \in Seq(Nat), Len(s) = Len(u)
  PROVE  PlacesOfNodes(ByDof(s), ByDof(u), s, u)
<1> DEFINE row(n) == [d \in Components |-> <<n, d>>]
           ss == [k \in DOMAIN s |-> row(s[k])]
           tt == [k \in DOMAIN u |-> row(u[k])]
           T == Nat \X Components
           n0 == Len(s)
<1>1. VDim \in Nat /\ Components = 1 .. VDim
  BY DEF TransferAssumption, Components
<1>2. /\ n0 \in Nat /\ DOMAIN s = 1 .. n0 /\ DOMAIN u = 1 .. n0
      /\ \A k \in 1 .. n0 : s[k] \in Nat /\ u[k] \in Nat
  OBVIOUS
<1>3. ASSUME NEW n \in Nat
      PROVE  row(n) \in Seq(T) /\ Len(row(n)) = VDim /\ \A d \in Components : row(n)[d] = <<n, d>>
  <2>1. row(n) = [d \in 1 .. VDim |-> row(n)[d]] /\ \A d \in 1 .. VDim : row(n)[d] = <<n, d>> /\ row(n)[d] \in T
    BY <1>1
  <2> HIDE DEF row, T
  <2>2. row(n) \in Seq(T) /\ Len(row(n)) = VDim
    BY <1>1, <2>1, TableIs
  <2> QED BY <1>1, <2>1, <2>2
<1>4. /\ ss = [k \in 1 .. n0 |-> ss[k]] /\ tt = [k \in 1 .. n0 |-> tt[k]]
      /\ \A k \in 1 .. n0 : ss[k] = row(s[k]) /\ tt[k] = row(u[k])
  BY <1>2
<1>5. ByDof(s) = FlattenSeq(ss \o <<>>) /\ ByDof(u) = FlattenSeq(tt \o <<>>)
  BY DEF ByDof, FlatMap, Map
<1> HIDE DEF ss, tt, row, n0
<1>6. /\ ss \in Seq(Seq(T)) /\ Len(ss) = n0 /\ ss \o <<>> = ss
      /\ tt \in Seq(Seq(T)) /\ Len(tt) = n0 /\ tt \o <<>> = tt
  <2> HIDE DEF T
  <2>1. \A d \in 1 .. n0 : ss[d] \in Seq(T) /\ tt[d] \in Seq(T)
    BY <1>2, <1>3, <1>4
  <2>2. ss \in Seq(Seq(T)) /\ Len(ss) = n0 /\ ss \o <<>> = ss
    BY <1>2, <1>4, <2>1, TableIs
  <2>3. tt \in Seq(Seq(T)) /\ Len(tt) = n0 /\ tt \o <<>> = tt
    BY <1>2, <1>4, <2>1, TableIs
  <2> QED BY <2>2, <2>3
<1>7. \A k \in 1 .. n0 : /\ Len(ss[k]) = VDim /\ Len(tt[k]) = VDim
                         /\ \A d \in Components : ss[k][d] = <<s[k], d>> /\ tt[k][d] = <<u[k], d>>
  <2> SUFFICES ASSUME NEW k \in 1 .. n0
               PROVE  /\ Len(ss[k]) = VDim /\ Len(tt[k]) = VDim
                      /\ \A d \in Components : ss[k][d] = <<s[k], d>> /\ tt[k][d] = <<u[k], d>>
    OBVIOUS
  <2>1. s[k] \in Nat /\ u[k] \in Nat /\ ss[k] = row(s[k]) /\ tt[k] = row(u[k])
    BY <1>2, <1>4
  <2>2. Len(row(s[k])) = VDim /\ \A d \in Components : row(s[k])[d] = <<s[k], d>>
    BY <1>3, <2>1
  <2>3. Len(row(u[k])) = VDim /\ \A d \in Components : row(u[k])[d] = <<u[k], d>>
    BY <1>3, <2>1
  <2> QED BY <2>1, <2>2, <2>3
<1>8. SameLens(ss, tt)
  BY <1>6, <1>7 DEF SameLens
<1>9. \A q \in 1 .. Len(ss) : \A k \in 1 .. Len(ss[q]) :
        \E i \in 1 .. n0 : \E d \in Components : ss[q][k] = <<s[i], d>> /\ tt[q][k] = <<u[i], d>>
  <2> SUFFICES ASSUME NEW q \in 1 .. Len(ss), NEW k \in 1 .. Len(ss[q])
               PROVE  \E i \in 1 .. n0 : \E d \in Components : ss[q][k] = <<s[i], d>> /\ tt[q][k] = <<u[i], d>>
    OBVIOUS
  <2>1. q \in 1 .. n0 /\ k \in Components
    BY <1>1, <1>6, <1>7
  <2>2. ss[q][k] = <<s[q], k>> /\ tt[q][k] = <<u[q], k>>
    BY <1>7, <2>1
  <2> QED BY <2>1, <2>2
<1>10. \A i \in 1 .. n0 : \A d \in Components :
         \E q \in 1 .. Len(ss) : \E k \in 1 .. Len(ss[q]) : ss[q][k] = <<s[i], d>> /\ tt[q][k] = <<u[i], d>>
  <2> SUFFICES ASSUME NEW i \in 1 .. n0, NEW d \in Components
               PROVE  \E q \in 1 .. Len(ss) : \E k \in 1 .. Len(ss[q]) : ss[q][k] = <<s[i], d>> /\ tt[q][k] = <<u[i], d>>
    OBVIOUS
  <2>1. i \in 1 .. Len(ss) /\ d \in 1 .. Len(ss[i])
    BY <1>1, <1>6, <1>7
  <2>2. ss[i][d] = <<s[i], d>> /\ tt[i][d] = <<u[i], d>>
    BY <1>7
  <2> QED BY <2>1, <2>2
<1>11. OfNodes(ss, tt, s, u)
  BY <1>6, <1>8, <1>9, <1>10 DEF OfNodes, n0
<1> QED BY <1>5, <1>6, <1>11, FlattenPlaces

-----------------------------------------------------------------------------
(* Places that both sides have. *)

\* A sequence whose elements are in a set.
LEMMA InSet == ASSUME NEW T, NEW s \in Seq(T), NEW Q, \A j \in 1 .. Len(s) : s[j] \in Q PROVE s \in Seq(Q)
<1>1. Len(s) \in Nat /\ DOMAIN s = 1 .. Len(s) /\ s = [j \in 1 .. Len(s) |-> s[j]]
  OBVIOUS
<1> QED BY <1>1, TableIs

\* S has places of the parent on rank p and U places of the mesh of rank r, which are the same one by one.
Paired(p, r, S, U) ==
  /\ S \in Seq(ParentPlaces(p)) /\ U \in Seq(Places(r)) /\ Len(S) = Len(U)
  /\ \A j \in 1 .. Len(S) : ParentName(p, S[j]) = Name(r, U[j])

\* The places of nodes are, if the nodes are.
SameNodes(p, r, s, u) ==
  \A i \in 1 .. Len(s) :
    /\ parentVerts[p][s[i]] = vertices[r][u[i]]
    /\ \A d \in Components : <<s[i], d>> \in ParentPlaces(p) /\ <<u[i], d>> \in Places(r)

LEMMA NodesPaired ==
  ASSUME method # "quadrature", NEW p, NEW r, NEW s, NEW u, SameNodes(p, r, s, u),
         NEW S, NEW U, PlacesOfNodes(S, U, s, u)
  PROVE  Paired(p, r, S, U)
<1>1. S \in Seq(Nat \X Components) /\ U \in Seq(Nat \X Components) /\ Len(S) = Len(U)
  BY DEF PlacesOfNodes
<1>2. ASSUME NEW j \in 1 .. Len(S)
      PROVE  S[j] \in ParentPlaces(p) /\ U[j] \in Places(r) /\ ParentName(p, S[j]) = Name(r, U[j])
  <2>1. PICK i \in 1 .. Len(s) : \E d \in Components : S[j] = <<s[i], d>> /\ U[j] = <<u[i], d>>
    BY DEF PlacesOfNodes
  <2>2. PICK d \in Components : S[j] = <<s[i], d>> /\ U[j] = <<u[i], d>>
    BY <2>1
  <2>3. S[j] \in ParentPlaces(p) /\ U[j] \in Places(r) /\ parentVerts[p][s[i]] = vertices[r][u[i]]
    BY <2>2 DEF SameNodes
  <2>4. ParentName(p, S[j]) = <<parentVerts[p][s[i]], d>>
    BY <2>2 DEF ParentName, GetGlobalTDofNumber
  <2>5. Name(r, U[j]) = <<vertices[r][u[i]], d>>
    BY <2>2 DEF Name
  <2> QED BY <2>3, <2>4, <2>5
<1>3. S \in Seq(ParentPlaces(p))
  <2>1. \A j \in 1 .. Len(S) : S[j] \in ParentPlaces(p)
    BY <1>2
  <2> QED BY <1>1, <2>1, InSet
<1>4. U \in Seq(Places(r))
  <2>1. \A j \in 1 .. Len(U) : U[j] \in Places(r)
    BY <1>1, <1>2
  <2> QED BY <1>1, <2>1, InSet
<1> QED BY <1>1, <1>2, <1>3, <1>4 DEF Paired

\* The vertices of an element that was received.
LEMMA VertsReceived ==
  ASSUME RedecompAssumption, MeshIInv, Built, NEW r \in Procs, NEW p \in Procs, NEW k \in 1 .. Len(p2r[p][r])
  PROVE  LET e == p2r[p][r][k].elem
             v == elements[r][offsets[r][p] + k].verts
         IN  /\ e \in ElemsOf(p) /\ Conn[e] \in Seq(Nat)
             /\ v \in Seq(Nat) /\ Len(v) = Len(Conn[e])
             /\ \A i \in 1 .. Len(Conn[e]) : v[i] \in DOMAIN vertices[r] /\ vertices[r][v[i]] = Conn[e][i]
<1> DEFINE list == p2r[p][r]
           e == list[k].elem
           f == offsets[r][p] + k
           ids == vertIds[r]
           v == elements[r][f].verts
<1>1. list \in Seq(Item(p)) /\ f \in DOMAIN elements[r] /\ elements[r][f].attribute = e
  BY SourceIs
<1>2. e \in ElemsOf(p)
  <2>1. list[k] \in Item(p)
    BY <1>1
  <2> QED BY <2>1 DEF Item
<1>3. Conn[e] \in Seq(Nat)
  BY <1>2 DEF ElemsOf, RedecompAssumption
<1>4. /\ v = Numbers(ids, e)
      /\ \A i \in 1 .. Len(Conn[e]) : v[i] \in DOMAIN ids /\ ids[v[i]] = Conn[e][i]
  <2> HIDE DEF f, e, ids
  <2>1. LET a == elements[r][f].attribute
        IN  /\ elements[r][f].verts = Numbers(vertIds[r], a)
            /\ \A i \in 1 .. Len(Conn[a]) : elements[r][f].verts[i] \in DOMAIN vertIds[r] /\ vertIds[r][elements[r][f].verts[i]] = Conn[a][i]
    BY <1>1, ElementHas
  <2> QED BY <1>1, <2>1 DEF ids
<1>5. ids \in Seq(Nat) /\ vertices[r] = ids
  BY DEF MeshIInv, HasNumbers, HasVertices, Numbered, Built
<1> HIDE DEF ids, v
<1>6. v = [j \in 1 .. Len(Conn[e]) |-> FirstAt(ids, Conn[e][j])]
  BY <1>4 DEF Numbers
<1>7. v = [j \in 1 .. Len(Conn[e]) |-> v[j]]
  BY <1>6
<1>8. Len(Conn[e]) \in Nat /\ \A j \in 1 .. Len(Conn[e]) : v[j] \in Nat
  <2>1. DOMAIN ids \subseteq Nat
    BY <1>5
  <2>2. \A j \in 1 .. Len(Conn[e]) : v[j] \in DOMAIN ids
    BY <1>4
  <2>3. Len(Conn[e]) \in Nat
    <3> HIDE DEF e
    <3> QED BY <1>3
  <2> QED BY <2>1, <2>2, <2>3
<1>9. v \in Seq(Nat) /\ Len(v) = Len(Conn[e])
  <2> HIDE DEF e
  <2> QED BY <1>7, <1>8, TableIs
<1> QED BY <1>2, <1>3, <1>4, <1>5, <1>9 DEF v

\* All components of the nodes, and nothing else, are among the places.
LEMMA NodesPlaced ==
  ASSUME NEW s, NEW u, NEW S, NEW U, PlacesOfNodes(S, U, s, u)
  PROVE  /\ \A i \in 1 .. Len(s) : \A d \in Components : <<s[i], d>> \in ToSet(S) /\ <<u[i], d>> \in ToSet(U)
         /\ \A x \in ToSet(S) : \E i \in 1 .. Len(s) : \E d \in Components : x = <<s[i], d>>
         /\ \A x \in ToSet(U) : \E i \in 1 .. Len(s) : \E d \in Components : x = <<u[i], d>>
<1>1. DOMAIN S = 1 .. Len(S) /\ DOMAIN U = 1 .. Len(S)
  <2>1. S \in Seq(Nat \X Components) /\ U \in Seq(Nat \X Components) /\ Len(S) = Len(U)
    BY DEF PlacesOfNodes
  <2> QED BY <2>1
<1>2. ASSUME NEW i \in 1 .. Len(s), NEW d \in Components PROVE <<s[i], d>> \in ToSet(S) /\ <<u[i], d>> \in ToSet(U)
  <2>1. PICK j \in 1 .. Len(S) : S[j] = <<s[i], d>> /\ U[j] = <<u[i], d>>
    BY DEF PlacesOfNodes
  <2> QED BY <1>1, <2>1 DEF ToSet
<1>3. ASSUME NEW j \in 1 .. Len(S)
      PROVE  \E i \in 1 .. Len(s) : \E d \in Components : S[j] = <<s[i], d>> /\ U[j] = <<u[i], d>>
  BY DEF PlacesOfNodes
<1>4. \A x \in ToSet(S) : \E j \in 1 .. Len(S) : x = S[j]
  BY <1>1 DEF ToSet
<1>5. \A x \in ToSet(U) : \E j \in 1 .. Len(S) : x = U[j]
  BY <1>1 DEF ToSet
<1>6. ASSUME NEW x \in ToSet(S) PROVE \E i \in 1 .. Len(s) : \E d \in Components : x = <<s[i], d>>
  <2>1. PICK j \in 1 .. Len(S) : x = S[j]
    BY <1>4
  <2> QED BY <1>3, <2>1
<1>7. ASSUME NEW x \in ToSet(U) PROVE \E i \in 1 .. Len(s) : \E d \in Components : x = <<u[i], d>>
  <2>1. PICK j \in 1 .. Len(S) : x = U[j]
    BY <1>5
  <2> QED BY <1>3, <2>1
<1> QED BY <1>2, <1>6, <1>7

\* Nodal fields know an element by its nodes.
LEMMA ElementNodes ==
  ASSUME TransferAssumption, MeshIInv, Built, method # "quadrature",
         NEW r \in Procs, NEW p \in Procs, NEW k \in 1 .. Len(p2r[p][r])
  PROVE  PlacesOfNodes(ParentElem(p, p2r[p][r][k].elem), RedecompElem(r, offsets[r][p] + k),
                       GetElementDofs(p, p2r[p][r][k].elem), elements[r][offsets[r][p] + k].verts)
<1> DEFINE e == p2r[p][r][k].elem
           f == offsets[r][p] + k
           v == elements[r][f].verts
           D == GetElementDofs(p, e)
<1>1. RedecompAssumption /\ ParentIs
  BY DEF TransferAssumption, MeshIInv
<1>2. e \in ElemsOf(p) /\ v \in Seq(Nat) /\ Len(v) = Len(Conn[e])
  BY <1>1, VertsReceived
<1> HIDE DEF e, f
<1>3. D \in Seq(Nat) /\ Len(D) = Len(Conn[e])
  BY <1>1, <1>2, DofsAre
<1>4. ParentElem(p, e) = ByComponent(D) /\ RedecompElem(r, f) = ByComponent(v)
  BY DEF ParentElem, RedecompElem, PlacesOf
<1> HIDE DEF D, v
<1>5. PlacesOfNodes(ByComponent(D), ByComponent(v), D, v)
  BY <1>2, <1>3, ByComponentIs
<1> QED BY <1>4, <1>5 DEF D, v, e, f

\* Nodes and points of an element that was sent, and of the one made of it.
LEMMA ElementPaired ==
  ASSUME TransferAssumption, MeshIInv, Built, NEW r \in Procs, NEW p \in Procs, NEW k \in 1 .. Len(p2r[p][r])
  PROVE  Paired(p, r, ParentElem(p, p2r[p][r][k].elem), RedecompElem(r, offsets[r][p] + k))
<1> DEFINE e == p2r[p][r][k].elem
           f == offsets[r][p] + k
           v == elements[r][f].verts
           n == Len(Conn[e])
           S == ParentElem(p, e)
           U == RedecompElem(r, f)
<1>1. RedecompAssumption /\ ParentIs
  BY DEF TransferAssumption, MeshIInv
<1>2. /\ e \in ElemsOf(p) /\ Conn[e] \in Seq(Nat) /\ v \in Seq(Nat) /\ Len(v) = n
      /\ \A i \in 1 .. n : vertices[r][v[i]] = Conn[e][i]
  <2>1. e \in ElemsOf(p) /\ Conn[e] \in Seq(Nat) /\ v \in Seq(Nat) /\ Len(v) = n
    BY <1>1, VertsReceived
  <2>2. \A i \in 1 .. n : vertices[r][v[i]] = Conn[e][i]
    BY <1>1, VertsReceived
  <2> QED BY <2>1, <2>2
<1>3. f \in DOMAIN elements[r] /\ elements[r][f].attribute = e
  BY <1>1, SourceIs
<1> HIDE DEF f, e
<1>4. \A x \in ToSet(S) : x \in ParentPlaces(p)
  BY <1>2 DEF ParentPlaces, ElemsOf
<1>5. \A x \in ToSet(U) : x \in Places(r)
  BY <1>3 DEF Places
<1>6. n \in Nat /\ DOMAIN Conn[e] = 1 .. n
  BY <1>2
<1> HIDE DEF v, n
<1>7. CASE method = "quadrature"
  <2>1. S = [i \in 1 .. n |-> <<e, i>>] /\ U = [i \in 1 .. n |-> <<f, i>>]
    BY <1>2, <1>7 DEF ParentElem, RedecompElem, PlacesOf, Points, n, v
  <2>2. /\ S = [i \in 1 .. n |-> S[i]] /\ U = [i \in 1 .. n |-> U[i]] /\ DOMAIN S = 1 .. n /\ DOMAIN U = 1 .. n
        /\ \A i \in 1 .. n : S[i] = <<e, i>> /\ U[i] = <<f, i>>
    BY <2>1
  <2> HIDE DEF S, U
  <2>3. \A i \in 1 .. n : S[i] \in ParentPlaces(p) /\ U[i] \in Places(r)
    BY <1>4, <1>5, <2>2 DEF ToSet
  <2>4. S \in Seq(ParentPlaces(p)) /\ Len(S) = n /\ U \in Seq(Places(r)) /\ Len(U) = n
    BY <1>6, <2>2, <2>3, TableIs
  <2>5. \A i \in 1 .. n : ParentName(p, S[i]) = <<e, i>> /\ Name(r, U[i]) = <<e, i>>
    BY <1>3, <1>7, <2>2 DEF ParentName, Name
  <2>6. Paired(p, r, S, U)
    BY <2>4, <2>5 DEF Paired
  <2> QED BY <2>6 DEF S, U, e, f
<1>8. CASE method # "quadrature"
  <2> DEFINE D == GetElementDofs(p, e)
  <2>1. D \in Seq(Nat) /\ Len(D) = n /\ \A i \in 1 .. n : parentVerts[p][D[i]] = Conn[e][i]
    <3>1. D \in Seq(Nat) /\ Len(D) = Len(Conn[e]) /\ \A i \in DOMAIN Conn[e] : parentVerts[p][D[i]] = Conn[e][i]
      BY <1>1, <1>2, DofsAre
    <3> HIDE DEF D
    <3> QED BY <1>6, <3>1 DEF n
  <2> HIDE DEF D, S, U
  <2>2. PlacesOfNodes(S, U, D, v)
    BY <1>8, ElementNodes DEF S, U, D, v, e, f
  <2>3. \A i \in 1 .. Len(D) : \A d \in Components : <<D[i], d>> \in ToSet(S) /\ <<v[i], d>> \in ToSet(U)
    BY <2>2, NodesPlaced
  <2>4. \A i \in 1 .. Len(D) : \A d \in Components : <<D[i], d>> \in ParentPlaces(p) /\ <<v[i], d>> \in Places(r)
    BY <1>4, <1>5, <2>3 DEF S, U
  <2>5. SameNodes(p, r, D, v)
    BY <1>2, <2>1, <2>4 DEF SameNodes
  <2>6. Paired(p, r, S, U)
    BY <1>8, <2>2, <2>5, NodesPaired
  <2> QED BY <2>6 DEF S, U, e, f
<1> QED BY <1>7, <1>8

\* Places of the parent and of the mesh, part by part in step, are in step one after another.
LEMMA PartsPaired ==
  ASSUME NEW p, NEW r, NEW n \in Nat, NEW ss, NEW tt, ss = [k \in 1 .. n |-> ss[k]], tt = [k \in 1 .. n |-> tt[k]],
         \A k \in 1 .. n : Paired(p, r, ss[k], tt[k])
  PROVE  /\ Paired(p, r, FlattenSeq(ss), FlattenSeq(tt))
         /\ \A k \in 1 .. n : /\ ToSet(ss[k]) \subseteq ToSet(FlattenSeq(ss))
                              /\ ToSet(tt[k]) \subseteq ToSet(FlattenSeq(tt))
         /\ \A x \in ToSet(FlattenSeq(tt)) : \E k \in 1 .. n : x \in ToSet(tt[k])
<1> DEFINE A == ParentPlaces(p)
           B == Places(r)
           S == FlattenSeq(ss)
           U == FlattenSeq(tt)
<1>1. \A k \in 1 .. n : ss[k] \in Seq(A) /\ tt[k] \in Seq(B) /\ Len(ss[k]) = Len(tt[k])
  BY DEF Paired
<1>2. ss \in Seq(Seq(A)) /\ Len(ss) = n /\ tt \in Seq(Seq(B)) /\ Len(tt) = n
  <2> HIDE DEF A, B
  <2>1. ss \in Seq(Seq(A)) /\ Len(ss) = n
    BY <1>1, TableIs
  <2>2. tt \in Seq(Seq(B)) /\ Len(tt) = n
    BY <1>1, TableIs
  <2> QED BY <2>1, <2>2
<1>3. SameLens(ss, tt)
  BY <1>1, <1>2 DEF SameLens
<1>4. S \in Seq(A) /\ U \in Seq(B) /\ Matches(S, U, ss, tt)
  <2> HIDE DEF A, B
  <2> QED BY <1>2, <1>3, FlattenAlike
<1>5. ASSUME NEW k \in 1 .. n, NEW j \in 1 .. Len(ss[k])
      PROVE  \E i \in 1 .. Len(S) : S[i] = ss[k][j] /\ U[i] = tt[k][j]
  <2> HIDE DEF A, B
  <2>1. Keeps(S, U, ss, tt)
    BY <1>2, <1>3, FlattenKeeps
  <2>2. k \in 1 .. Len(ss)
    BY <1>2
  <2> HIDE DEF S, U
  <2> QED BY <2>1, <2>2 DEF Keeps
<1> HIDE DEF S, U
<1>6. Len(S) = Len(U) /\ DOMAIN S = 1 .. Len(S) /\ DOMAIN U = 1 .. Len(S)
  BY <1>4 DEF Matches
<1>7. ASSUME NEW i \in 1 .. Len(S)
      PROVE  \E k \in 1 .. n : \E j \in 1 .. Len(ss[k]) : S[i] = ss[k][j] /\ U[i] = tt[k][j]
  BY <1>2, <1>4, <1>6 DEF Matches
<1>8. ASSUME NEW i \in 1 .. Len(S) PROVE ParentName(p, S[i]) = Name(r, U[i])
  <2>1. PICK k \in 1 .. n : \E j \in 1 .. Len(ss[k]) : S[i] = ss[k][j] /\ U[i] = tt[k][j]
    BY <1>7
  <2>2. PICK j \in 1 .. Len(ss[k]) : S[i] = ss[k][j] /\ U[i] = tt[k][j]
    BY <2>1
  <2>3. ParentName(p, ss[k][j]) = Name(r, tt[k][j])
    BY DEF Paired
  <2> QED BY <2>2, <2>3
<1>9. Paired(p, r, S, U)
  BY <1>4, <1>6, <1>8 DEF Paired
<1>10. ASSUME NEW k \in 1 .. n
       PROVE  ToSet(ss[k]) \subseteq ToSet(S) /\ ToSet(tt[k]) \subseteq ToSet(U)
  <2> HIDE DEF A, B
  <2>1. DOMAIN ss[k] = 1 .. Len(ss[k]) /\ DOMAIN tt[k] = 1 .. Len(ss[k])
    BY <1>1
  <2>2. ASSUME NEW x \in ToSet(ss[k]) PROVE x \in ToSet(S)
    <3>1. PICK j \in 1 .. Len(ss[k]) : x = ss[k][j]
      BY <2>1 DEF ToSet
    <3> QED BY <1>5, <1>6, <3>1 DEF ToSet
  <2>3. ASSUME NEW x \in ToSet(tt[k]) PROVE x \in ToSet(U)
    <3>1. PICK j \in 1 .. Len(ss[k]) : x = tt[k][j]
      BY <2>1 DEF ToSet
    <3> QED BY <1>5, <1>6, <3>1 DEF ToSet
  <2> QED BY <2>2, <2>3
<1>11. ASSUME NEW x \in ToSet(U) PROVE \E k \in 1 .. n : x \in ToSet(tt[k])
  <2>1. PICK i \in 1 .. Len(S) : x = U[i]
    BY <1>6 DEF ToSet
  <2>2. PICK k \in 1 .. n : \E j \in 1 .. Len(ss[k]) : S[i] = ss[k][j] /\ U[i] = tt[k][j]
    BY <1>7
  <2>3. PICK j \in 1 .. Len(ss[k]) : U[i] = tt[k][j]
    BY <2>2
  <2>4. j \in DOMAIN tt[k]
    BY <1>1
  <2> QED BY <2>1, <2>3, <2>4 DEF ToSet
<1> QED BY <1>9, <1>10, <1>11 DEF S, U

\* The places in a list that are not ghosts, and what Owned takes there.
OwnedAt(list) == Ascending({k \in DOMAIN list : ~list[k].ghost})

LEMMA OwnedIs ==
  ASSUME NEW n \in Nat, NEW list, DOMAIN list = 1 .. n
  PROVE  /\ OwnedAt(list) \in Seq(1 .. n)
         /\ \A i \in 1 .. Len(OwnedAt(list)) : ~list[OwnedAt(list)[i]].ghost
         /\ \A k \in 1 .. n : ~list[k].ghost => \E i \in 1 .. Len(OwnedAt(list)) : OwnedAt(list)[i] = k
         /\ Len(Owned(list)) = Len(OwnedAt(list)) /\ DOMAIN Owned(list) = 1 .. Len(OwnedAt(list))
         /\ \A i \in 1 .. Len(OwnedAt(list)) : Owned(list)[i] = list[OwnedAt(list)[i]]
<1> DEFINE K == {k \in DOMAIN list : ~list[k].ghost}
           a == Ascending(K)
           t == [i \in DOMAIN a |-> list[a[i]]]
<1>1. K \subseteq 1 .. n /\ K \subseteq Nat
  OBVIOUS
<1>2. IsFiniteSet(K)
  <2>1. IsFiniteSet(1 .. n)
    BY FS_Interval
  <2> QED BY <1>1, <2>1, FS_Subset
<1>3. \A k \in K : ~list[k].ghost
  OBVIOUS
<1>4. \A k \in 1 .. n : ~list[k].ghost => k \in K
  OBVIOUS
<1>5. OwnedAt(list) = a /\ Owned(list) = t \o <<>>
  BY DEF OwnedAt, Owned, Map
<1> HIDE DEF K
<1>6. a \in Seq(K) /\ \A x \in K : \E k \in DOMAIN a : a[k] = x
  BY <1>1, <1>2, AscendingIs
<1> HIDE DEF a
<1>7. Len(a) \in Nat /\ DOMAIN a = 1 .. Len(a) /\ \A i \in 1 .. Len(a) : a[i] \in K
  BY <1>6
<1>8. a \in Seq(1 .. n)
  BY <1>1, <1>6, MoreValues
<1>9. t = [i \in 1 .. Len(a) |-> t[i]] /\ \A i \in 1 .. Len(a) : t[i] = list[a[i]]
  BY <1>7
<1> HIDE DEF t
<1>10. t \o <<>> = t /\ Len(t) = Len(a) /\ DOMAIN t = 1 .. Len(a)
  BY <1>7, <1>9, TableKept
<1> QED BY <1>3, <1>4, <1>5, <1>6, <1>7, <1>8, <1>9, <1>10

\* Places of some of the elements sent, and of the elements made of them.
SentPlaces(p, r, a) == FlattenSeq([i \in 1 .. Len(a) |-> ParentElem(p, p2r[p][r][a[i]].elem)])
MadePlaces(p, r, a) == FlattenSeq([i \in 1 .. Len(a) |-> RedecompElem(r, offsets[r][p] + a[i])])

LEMMA SomePaired ==
  ASSUME TransferAssumption, MeshIInv, Built, NEW r \in Procs, NEW p \in Procs, NEW a \in Seq(1 .. Len(p2r[p][r]))
  PROVE  /\ Paired(p, r, SentPlaces(p, r, a), MadePlaces(p, r, a))
         /\ \A i \in 1 .. Len(a) :
              /\ ToSet(ParentElem(p, p2r[p][r][a[i]].elem)) \subseteq ToSet(SentPlaces(p, r, a))
              /\ ToSet(RedecompElem(r, offsets[r][p] + a[i])) \subseteq ToSet(MadePlaces(p, r, a))
         /\ \A x \in ToSet(MadePlaces(p, r, a)) :
              \E i \in 1 .. Len(a) : x \in ToSet(RedecompElem(r, offsets[r][p] + a[i]))
<1> DEFINE n == Len(a)
           ss == [i \in 1 .. n |-> ParentElem(p, p2r[p][r][a[i]].elem)]
           tt == [i \in 1 .. n |-> RedecompElem(r, offsets[r][p] + a[i])]
<1>1. n \in Nat /\ \A i \in 1 .. n : a[i] \in 1 .. Len(p2r[p][r])
  OBVIOUS
<1>2. \A i \in 1 .. n : Paired(p, r, ParentElem(p, p2r[p][r][a[i]].elem), RedecompElem(r, offsets[r][p] + a[i]))
  BY <1>1, ElementPaired
<1>3. /\ ss = [i \in 1 .. n |-> ss[i]] /\ tt = [i \in 1 .. n |-> tt[i]]
      /\ \A i \in 1 .. n : /\ ss[i] = ParentElem(p, p2r[p][r][a[i]].elem)
                           /\ tt[i] = RedecompElem(r, offsets[r][p] + a[i])
  OBVIOUS
<1>4. SentPlaces(p, r, a) = FlattenSeq(ss) /\ MadePlaces(p, r, a) = FlattenSeq(tt)
  BY DEF SentPlaces, MadePlaces
<1> HIDE DEF ss, tt, n
<1>5. \A i \in 1 .. n : Paired(p, r, ss[i], tt[i])
  BY <1>2, <1>3
<1>6. /\ Paired(p, r, FlattenSeq(ss), FlattenSeq(tt))
      /\ \A k \in 1 .. n : ToSet(ss[k]) \subseteq ToSet(FlattenSeq(ss)) /\ ToSet(tt[k]) \subseteq ToSet(FlattenSeq(tt))
      /\ \A x \in ToSet(FlattenSeq(tt)) : \E k \in 1 .. n : x \in ToSet(tt[k])
  BY <1>1, <1>3, <1>5, PartsPaired
<1> QED BY <1>3, <1>4, <1>6 DEF n

-----------------------------------------------------------------------------
(* Element by element. *)

\* Elements are sent and received in step, and none of a source is left out.
LEMMA ElementsOutIn ==
  ASSUME TransferAssumption, MeshIInv, Built, NEW r \in Procs, NEW p \in Procs
  PROVE  /\ Paired(p, r, ElementsOut(p, r), ElementsIn(r, p))
         /\ \A k \in 1 .. Len(p2r[p][r]) : ToSet(RedecompElem(r, offsets[r][p] + k)) \subseteq ToSet(ElementsIn(r, p))
<1> DEFINE list == p2r[p][r]
           off == offsets[r][p]
           n == Len(list)
           R == ReceivedElems(r, p)
           a == [k \in 1 .. n |-> k]
           ss == [k \in DOMAIN list |-> ParentElem(p, list[k].elem)]
           tt == [k \in DOMAIN R |-> RedecompElem(r, R[k].elem)]
<1>1. RedecompAssumption /\ list \in Seq(Item(p))
  BY DEF TransferAssumption, MeshIInv, ParentIs
<1>2. DOMAIN R = 1 .. n /\ \A k \in 1 .. n : R[k] = [elem |-> off + k, ghost |-> list[k].ghost]
  BY <1>1, ReceivedAre
<1>3. ElementsOut(p, r) = FlattenSeq(ss \o <<>>) /\ ElementsIn(r, p) = FlattenSeq(tt \o <<>>)
  BY DEF ElementsOut, ElementsIn, FlatMap, Map
<1> HIDE DEF R, list
<1>4. n \in Nat /\ DOMAIN list = 1 .. n
  BY <1>1
<1> HIDE DEF n
<1>5. a \in Seq(1 .. n) /\ Len(a) = n /\ \A k \in 1 .. n : a[k] = k
  <2>1. a = [k \in 1 .. n |-> a[k]] /\ \A k \in 1 .. n : a[k] = k /\ a[k] \in 1 .. n
    OBVIOUS
  <2> HIDE DEF a
  <2> QED BY <1>4, <2>1, TableIs
<1> HIDE DEF a
<1>6. ss = [i \in 1 .. Len(a) |-> ParentElem(p, list[a[i]].elem)] /\ ss = [k \in 1 .. n |-> ss[k]]
  BY <1>4, <1>5
<1>7. tt = [i \in 1 .. Len(a) |-> RedecompElem(r, off + a[i])] /\ tt = [k \in 1 .. n |-> tt[k]]
  BY <1>2, <1>5
<1> HIDE DEF ss, tt
<1>8. ss \o <<>> = ss /\ tt \o <<>> = tt
  BY <1>4, <1>6, <1>7, TableKept
<1>9. ElementsOut(p, r) = SentPlaces(p, r, a) /\ ElementsIn(r, p) = MadePlaces(p, r, a)
  BY <1>3, <1>6, <1>7, <1>8 DEF SentPlaces, MadePlaces, list, off
<1>10. /\ Paired(p, r, SentPlaces(p, r, a), MadePlaces(p, r, a))
       /\ \A i \in 1 .. Len(a) : ToSet(RedecompElem(r, offsets[r][p] + a[i])) \subseteq ToSet(MadePlaces(p, r, a))
  BY <1>5, SomePaired DEF n, list
<1> QED BY <1>5, <1>9, <1>10 DEF n, list

\* So are elements that are not ghosts, on the way back, and no others.
LEMMA ElementsBackHome ==
  ASSUME TransferAssumption, MeshIInv, Built, NEW r \in Procs, NEW p \in Procs
  PROVE  /\ Paired(p, r, ElementsHome(p, r), ElementsBack(r, p))
         /\ \A k \in 1 .. Len(p2r[p][r]) :
              ~p2r[p][r][k].ghost => ToSet(ParentElem(p, p2r[p][r][k].elem)) \subseteq ToSet(ElementsHome(p, r))
         /\ ToSet(ElementsBack(r, p)) \subseteq OwnedPlaces(r)
<1> DEFINE list == p2r[p][r]
           off == offsets[r][p]
           n == Len(list)
           R == ReceivedElems(r, p)
           a == OwnedAt(list)
           L == Owned(list)
           Q == Owned(R)
           ss == [k \in DOMAIN L |-> ParentElem(p, L[k].elem)]
           tt == [k \in DOMAIN Q |-> RedecompElem(r, Q[k].elem)]
<1>1. RedecompAssumption /\ list \in Seq(Item(p))
  BY DEF TransferAssumption, MeshIInv, ParentIs
<1>2. DOMAIN R = 1 .. n /\ \A k \in 1 .. n : R[k] = [elem |-> off + k, ghost |-> list[k].ghost]
  BY <1>1, ReceivedAre
<1>3. ElementsHome(p, r) = FlattenSeq(ss \o <<>>) /\ ElementsBack(r, p) = FlattenSeq(tt \o <<>>)
  BY DEF ElementsHome, ElementsBack, FlatMap, Map
<1> HIDE DEF R, list
<1>4. n \in Nat /\ DOMAIN list = 1 .. n
  BY <1>1
<1> HIDE DEF n
<1>5. OwnedAt(R) = a
  <2>1. {k \in DOMAIN R : ~R[k].ghost} = {k \in DOMAIN list : ~list[k].ghost}
    BY <1>2, <1>4
  <2> QED BY <2>1 DEF OwnedAt
<1>6. /\ a \in Seq(1 .. n) /\ DOMAIN L = 1 .. Len(a)
      /\ \A i \in 1 .. Len(a) : ~list[a[i]].ghost /\ L[i] = list[a[i]]
      /\ \A k \in 1 .. n : ~list[k].ghost => \E i \in 1 .. Len(a) : a[i] = k
  <2>1. a \in Seq(1 .. n) /\ \A k \in 1 .. n : ~list[k].ghost => \E i \in 1 .. Len(a) : a[i] = k
    BY <1>4, OwnedIs
  <2>2. \A i \in 1 .. Len(a) : ~list[a[i]].ghost
    BY <1>4, OwnedIs
  <2>3. DOMAIN L = 1 .. Len(a) /\ \A i \in 1 .. Len(a) : L[i] = list[a[i]]
    BY <1>4, OwnedIs
  <2> HIDE DEF a, L
  <2> QED BY <2>1, <2>2, <2>3
<1>7. DOMAIN Q = 1 .. Len(a) /\ \A i \in 1 .. Len(a) : Q[i] = R[a[i]]
  <2> HIDE DEF a
  <2>1. /\ DOMAIN Owned(R) = 1 .. Len(OwnedAt(R))
        /\ \A i \in 1 .. Len(OwnedAt(R)) : Owned(R)[i] = R[OwnedAt(R)[i]]
    BY <1>2, <1>4, OwnedIs
  <2> QED BY <1>5, <2>1
<1> HIDE DEF a, L, Q
<1>8. Len(a) \in Nat /\ \A i \in 1 .. Len(a) : a[i] \in 1 .. n
  <2>1. PICK T : T = 1 .. n
    OBVIOUS
  <2>2. a \in Seq(T)
    BY <1>6, <2>1
  <2>3. Len(a) \in Nat /\ \A i \in 1 .. Len(a) : a[i] \in T
    BY <2>2
  <2> QED BY <2>1, <2>3
<1>9. ss = [i \in 1 .. Len(a) |-> ParentElem(p, list[a[i]].elem)] /\ ss = [k \in 1 .. Len(a) |-> ss[k]]
  BY <1>6
<1>10. tt = [i \in 1 .. Len(a) |-> RedecompElem(r, off + a[i])] /\ tt = [k \in 1 .. Len(a) |-> tt[k]]
  <2>1. \A i \in 1 .. Len(a) : Q[i].elem = off + a[i]
    BY <1>2, <1>7, <1>8
  <2> QED BY <1>7, <2>1
<1> HIDE DEF ss, tt
<1>11. ss \o <<>> = ss /\ tt \o <<>> = tt
  BY <1>8, <1>9, <1>10, TableKept
<1>12. ElementsHome(p, r) = SentPlaces(p, r, a) /\ ElementsBack(r, p) = MadePlaces(p, r, a)
  BY <1>3, <1>9, <1>10, <1>11 DEF SentPlaces, MadePlaces, list, off
<1>13. /\ Paired(p, r, SentPlaces(p, r, a), MadePlaces(p, r, a))
       /\ \A i \in 1 .. Len(a) : ToSet(ParentElem(p, list[a[i]].elem)) \subseteq ToSet(SentPlaces(p, r, a))
       /\ \A x \in ToSet(MadePlaces(p, r, a)) : \E i \in 1 .. Len(a) : x \in ToSet(RedecompElem(r, off + a[i]))
  BY <1>6, SomePaired DEF n, list, off
<1>14. ASSUME NEW k \in 1 .. n, ~list[k].ghost
       PROVE  ToSet(ParentElem(p, list[k].elem)) \subseteq ToSet(ElementsHome(p, r))
  BY <1>6, <1>12, <1>13, <1>14
<1>15. ASSUME NEW x \in ToSet(ElementsBack(r, p)) PROVE x \in OwnedPlaces(r)
  <2>1. PICK i \in 1 .. Len(a) : x \in ToSet(RedecompElem(r, off + a[i]))
    BY <1>12, <1>13
  <2>2. PICK k \in 1 .. n : k = a[i] /\ ~list[k].ghost
    BY <1>6, <1>8
  <2>3. off + k \in DOMAIN elements[r]
    BY <1>1, SourceIs DEF n, list, off
  <2>4. \A q \in Procs : ~IsGhost(r, q, off + k)
    BY <1>1, <2>2, GhostOfSource DEF n, list, off
  <2> QED BY <2>1, <2>2, <2>3, <2>4 DEF OwnedPlaces
<1> QED BY <1>12, <1>13, <1>14, <1>15 DEF n, list

-----------------------------------------------------------------------------
(* Node by node: the nodes met in the elements. *)

\* The nodes that the rank of the mesh meets in the elements of a source.
MetThere(r, p) ==
  FlatMap(ReceivedElems(r, p), LAMBDA x : Map(elements[r][x.elem].verts, LAMBDA d : [dof |-> d, ghost |-> x.ghost]))

\* The i-th node of the k-th element of a source, as both meet it at place j.
MetAt(p, r, m, w, j, k, i) ==
  /\ m[j] = [dof |-> GetElementDofs(p, p2r[p][r][k].elem)[i], ghost |-> p2r[p][r][k].ghost]
  /\ w[j] = [dof |-> elements[r][offsets[r][p] + k].verts[i], ghost |-> p2r[p][r][k].ghost]

\* They meet the same nodes, in the same order.
MetTogether(p, r, m, w) ==
  /\ m \in Seq(Node) /\ w \in Seq(Node) /\ Len(m) = Len(w)
  /\ \A j \in 1 .. Len(m) : \E k \in 1 .. Len(p2r[p][r]) : \E i \in 1 .. Len(Conn[p2r[p][r][k].elem]) :
       MetAt(p, r, m, w, j, k, i)
  /\ \A k \in 1 .. Len(p2r[p][r]) : \A i \in 1 .. Len(Conn[p2r[p][r][k].elem]) : \E j \in 1 .. Len(m) :
       MetAt(p, r, m, w, j, k, i)

\* The nodes of an element, with the mark it has.
Marked(s, g) == Map(s, LAMBDA d : [dof |-> d, ghost |-> g])

LEMMA MarkedIs ==
  ASSUME NEW s \in Seq(Nat), NEW g \in BOOLEAN
  PROVE  /\ Marked(s, g) \in Seq(Node) /\ Len(Marked(s, g)) = Len(s)
         /\ \A i \in 1 .. Len(s) : Marked(s, g)[i] = [dof |-> s[i], ghost |-> g]
         /\ Map(s, LAMBDA d : d) = s
<1> DEFINE t == [k \in DOMAIN s |-> [dof |-> s[k], ghost |-> g]]
           u == [k \in DOMAIN s |-> s[k]]
<1>1. Len(s) \in Nat /\ DOMAIN s = 1 .. Len(s) /\ \A k \in 1 .. Len(s) : s[k] \in Nat
  OBVIOUS
<1>2. t = [k \in 1 .. Len(s) |-> t[k]] /\ \A k \in 1 .. Len(s) : t[k] = [dof |-> s[k], ghost |-> g] /\ t[k] \in Node
  BY <1>1 DEF Node
<1>3. Marked(s, g) = t \o <<>> /\ Map(s, LAMBDA d : d) = u \o <<>>
  BY DEF Marked, Map
<1>4. u = s
  OBVIOUS
<1> HIDE DEF t, u
<1>5. t \in Seq(Node) /\ Len(t) = Len(s) /\ t \o <<>> = t
  BY <1>1, <1>2, TableIs
<1>6. s \o <<>> = s
  BY NothingAppended
<1> QED BY <1>2, <1>3, <1>4, <1>5, <1>6

LEMMA MetAreTogether ==
  ASSUME RedecompAssumption, MeshIInv, Built, NEW r \in Procs, NEW p \in Procs
  PROVE  MetTogether(p, r, Met(p, r, FALSE), MetThere(r, p))
<1> DEFINE list == p2r[p][r]
           off == offsets[r][p]
           n == Len(list)
           R == ReceivedElems(r, p)
           D(k) == GetElementDofs(p, list[k].elem)
           V(k) == elements[r][off + k].verts
           ss == [k \in DOMAIN list |-> NodesOfItem(p, list[k], FALSE)]
           tt == [k \in DOMAIN R |-> Marked(elements[r][R[k].elem].verts, R[k].ghost)]
           m == FlattenSeq(ss)
           w == FlattenSeq(tt)
<1>1. ParentIs /\ list \in Seq(Item(p))
  BY DEF MeshIInv, ParentIs
<1>2. DOMAIN R = 1 .. n /\ \A k \in 1 .. n : R[k] = [elem |-> off + k, ghost |-> list[k].ghost]
  BY ReceivedAre
<1>3. Met(p, r, FALSE) = FlattenSeq(ss \o <<>>) /\ MetThere(r, p) = FlattenSeq(tt \o <<>>)
  BY DEF Met, MetThere, FlatMap, Map, Marked
<1>4. \A k \in 1 .. n : /\ list[k].elem \in ElemsOf(p) /\ Conn[list[k].elem] \in Seq(Nat)
                        /\ V(k) \in Seq(Nat) /\ Len(V(k)) = Len(Conn[list[k].elem])
  BY VertsReceived
<1> HIDE DEF R, list
<1>5. n \in Nat /\ DOMAIN list = 1 .. n /\ \A k \in 1 .. n : list[k].ghost \in BOOLEAN
  <2>1. n \in Nat /\ DOMAIN list = 1 .. n /\ \A k \in 1 .. n : list[k] \in Item(p)
    BY <1>1
  <2> QED BY <2>1 DEF Item
<1> HIDE DEF n
<1>6. \A k \in 1 .. n : D(k) \in Seq(Nat) /\ Len(D(k)) = Len(Conn[list[k].elem])
  BY <1>1, <1>4, DofsAre
<1>7. ASSUME NEW k \in 1 .. n
      PROVE  /\ ss[k] \in Seq(Node) /\ Len(ss[k]) = Len(Conn[list[k].elem])
             /\ \A i \in 1 .. Len(Conn[list[k].elem]) : ss[k][i] = [dof |-> D(k)[i], ghost |-> list[k].ghost]
  <2>1. ss[k] = Marked(Map(D(k), LAMBDA d : d), list[k].ghost)
    <3> DEFINE u == [i \in DOMAIN D(k) |-> IF FALSE THEN GetGlobalTDofNumber(p, D(k)[i]) ELSE D(k)[i]]
               q == Map(D(k), LAMBDA d : IF FALSE THEN GetGlobalTDofNumber(p, d) ELSE d)
    <3>1. u = [i \in DOMAIN D(k) |-> D(k)[i]]
      OBVIOUS
    <3>2. q = u \o <<>>
      BY DEF Map
    <3>3. Map(D(k), LAMBDA d : d) = [i \in DOMAIN D(k) |-> D(k)[i]] \o <<>>
      BY DEF Map
    <3>4. ss[k] = NodesOfItem(p, list[k], FALSE)
      BY <1>5
    <3>5. NodesOfItem(p, list[k], FALSE) = Marked(q, list[k].ghost)
      BY DEF NodesOfItem, Marked
    <3> HIDE DEF u, q, ss, D
    <3>6. q = Map(D(k), LAMBDA d : d)
      BY <3>1, <3>2, <3>3
    <3> QED BY <3>4, <3>5, <3>6
  <2> HIDE DEF ss, D
  <2>2. D(k) \in Seq(Nat) /\ list[k].ghost \in BOOLEAN /\ Len(D(k)) = Len(Conn[list[k].elem])
    BY <1>5, <1>6
  <2>3. Map(D(k), LAMBDA d : d) = D(k)
    BY <2>2, MarkedIs
  <2>4. ss[k] = Marked(D(k), list[k].ghost)
    BY <2>1, <2>3
  <2>5. /\ Marked(D(k), list[k].ghost) \in Seq(Node) /\ Len(Marked(D(k), list[k].ghost)) = Len(D(k))
        /\ \A i \in 1 .. Len(D(k)) : Marked(D(k), list[k].ghost)[i] = [dof |-> D(k)[i], ghost |-> list[k].ghost]
    BY <2>2, MarkedIs
  <2> QED BY <2>2, <2>4, <2>5
<1>8. ASSUME NEW k \in 1 .. n
      PROVE  /\ tt[k] \in Seq(Node) /\ Len(tt[k]) = Len(Conn[list[k].elem])
             /\ \A i \in 1 .. Len(Conn[list[k].elem]) : tt[k][i] = [dof |-> V(k)[i], ghost |-> list[k].ghost]
  <2>1. tt[k] = Marked(V(k), list[k].ghost)
    BY <1>2
  <2> HIDE DEF tt, V
  <2>2. V(k) \in Seq(Nat) /\ list[k].ghost \in BOOLEAN /\ Len(V(k)) = Len(Conn[list[k].elem])
    BY <1>4, <1>5
  <2>3. /\ Marked(V(k), list[k].ghost) \in Seq(Node) /\ Len(Marked(V(k), list[k].ghost)) = Len(V(k))
        /\ \A i \in 1 .. Len(V(k)) : Marked(V(k), list[k].ghost)[i] = [dof |-> V(k)[i], ghost |-> list[k].ghost]
    BY <2>2, MarkedIs
  <2> QED BY <2>1, <2>2, <2>3
<1>9. ss = [k \in 1 .. n |-> ss[k]] /\ tt = [k \in 1 .. n |-> tt[k]]
  BY <1>2, <1>5
<1> HIDE DEF ss, tt
<1>10. ss \in Seq(Seq(Node)) /\ Len(ss) = n /\ ss \o <<>> = ss
  BY <1>5, <1>7, <1>9, TableIs
<1>11. tt \in Seq(Seq(Node)) /\ Len(tt) = n /\ tt \o <<>> = tt
  BY <1>5, <1>8, <1>9, TableIs
<1>12. SameLens(ss, tt)
  BY <1>7, <1>8, <1>10, <1>11 DEF SameLens
<1>13. m \in Seq(Node) /\ w \in Seq(Node) /\ Matches(m, w, ss, tt)
  BY <1>10, <1>11, <1>12, FlattenAlike
<1>14. Keeps(m, w, ss, tt)
  BY <1>10, <1>11, <1>12, FlattenKeeps
<1> HIDE DEF m, w
<1>15. Len(m) = Len(w) /\ DOMAIN m = 1 .. Len(m)
  BY <1>13 DEF Matches
<1>16. ASSUME NEW j \in 1 .. Len(m)
       PROVE  \E k \in 1 .. n : \E i \in 1 .. Len(Conn[list[k].elem]) : MetAt(p, r, m, w, j, k, i)
  <2>1. PICK k \in 1 .. n : \E i \in 1 .. Len(ss[k]) : m[j] = ss[k][i] /\ w[j] = tt[k][i]
    BY <1>10, <1>13, <1>15 DEF Matches
  <2>2. PICK i \in 1 .. Len(Conn[list[k].elem]) : m[j] = ss[k][i] /\ w[j] = tt[k][i]
    BY <1>7, <2>1
  <2>3. m[j] = [dof |-> D(k)[i], ghost |-> list[k].ghost] /\ w[j] = [dof |-> V(k)[i], ghost |-> list[k].ghost]
    BY <1>7, <1>8, <2>2
  <2>4. MetAt(p, r, m, w, j, k, i)
    BY <2>3 DEF MetAt, list
  <2> QED BY <2>4
<1>17. ASSUME NEW k \in 1 .. n, NEW i \in 1 .. Len(Conn[list[k].elem])
       PROVE  \E j \in 1 .. Len(m) : MetAt(p, r, m, w, j, k, i)
  <2>1. k \in 1 .. Len(ss) /\ i \in 1 .. Len(ss[k])
    BY <1>7, <1>10
  <2>2. PICK j \in 1 .. Len(m) : m[j] = ss[k][i] /\ w[j] = tt[k][i]
    BY <1>14, <2>1 DEF Keeps
  <2>3. m[j] = [dof |-> D(k)[i], ghost |-> list[k].ghost] /\ w[j] = [dof |-> V(k)[i], ghost |-> list[k].ghost]
    BY <1>7, <1>8, <2>2
  <2>4. MetAt(p, r, m, w, j, k, i)
    BY <2>3 DEF MetAt, list
  <2> QED BY <2>4
<1>18. MetTogether(p, r, m, w)
  BY <1>13, <1>15, <1>16, <1>17 DEF MetTogether, n, list
<1> QED BY <1>3, <1>10, <1>11, <1>18 DEF m, w

\* The list of nodes that NodeList makes of those it meets.
DofsMet(m) == Map(m, LAMBDA x : x.dof)
NodesMet(m) ==
  Map(Distinct(DofsMet(m)), LAMBDA d : [dof |-> d, ghost |-> \A k \in DOMAIN m : m[k].dof = d => m[k].ghost])

LEMMA NodeListsAre ==
  ASSUME NEW p, NEW r
  PROVE  P2RNodeList(p, r, FALSE) = NodesMet(Met(p, r, FALSE)) /\ R2PNodeList(r, p) = NodesMet(MetThere(r, p))
<1>1. P2RNodeList(p, r, FALSE) = NodesMet(Met(p, r, FALSE))
  BY DEF P2RNodeList, NodeList, Met, NodesOfItem, NodesMet, DofsMet, FlatMap, Map
<1>2. R2PNodeList(r, p) = NodesMet(MetThere(r, p))
  BY DEF R2PNodeList, NodeList, MetThere, NodesMet, DofsMet, FlatMap, Map
<1> QED BY <1>1, <1>2

\* The dofs of the nodes met.
LEMMA DofsMetAre ==
  ASSUME NEW m \in Seq(Node)
  PROVE  /\ DofsMet(m) \in Seq(Nat) /\ Len(DofsMet(m)) = Len(m) /\ Len(m) \in Nat
         /\ DOMAIN m = 1 .. Len(m) /\ DOMAIN DofsMet(m) = 1 .. Len(m)
         /\ \A k \in 1 .. Len(m) : DofsMet(m)[k] = m[k].dof /\ m[k].ghost \in BOOLEAN
<1> DEFINE t == [k \in DOMAIN m |-> m[k].dof]
<1>1. Len(m) \in Nat /\ DOMAIN m = 1 .. Len(m)
  OBVIOUS
<1>2. \A k \in 1 .. Len(m) : m[k].dof \in Nat /\ m[k].ghost \in BOOLEAN
  <2>1. \A k \in 1 .. Len(m) : m[k] \in Node
    OBVIOUS
  <2> QED BY <2>1 DEF Node
<1>3. t = [k \in 1 .. Len(m) |-> t[k]] /\ \A k \in 1 .. Len(m) : t[k] = m[k].dof /\ t[k] \in Nat
  BY <1>1, <1>2
<1>4. DofsMet(m) = t \o <<>>
  BY DEF DofsMet, Map
<1> HIDE DEF t
<1>5. t \in Seq(Nat) /\ Len(t) = Len(m) /\ t \o <<>> = t
  BY <1>1, <1>3, TableIs
<1> QED BY <1>1, <1>2, <1>3, <1>4, <1>5

\* A node that is in the list has the dof of one that was met, and is a ghost if all these are.
LEMMA NodesMetAre ==
  ASSUME NEW m \in Seq(Node)
  PROVE  LET D == Distinct(DofsMet(m))
         IN  /\ D \in Seq(Nat) /\ Len(NodesMet(m)) = Len(D) /\ DOMAIN NodesMet(m) = 1 .. Len(D)
             /\ \A i \in 1 .. Len(D) : /\ NodesMet(m)[i].dof = D[i]
                                       /\ NodesMet(m)[i].ghost = \A k \in 1 .. Len(m) : m[k].dof = D[i] => m[k].ghost
<1> DEFINE D == Distinct(DofsMet(m))
           G(d) == \A k \in DOMAIN m : m[k].dof = d => m[k].ghost
           t == [i \in DOMAIN D |-> [dof |-> D[i], ghost |-> G(D[i])]]
<1>1. D \in Seq(Nat)
  BY DofsMetAre, DistinctIs
<1>2. DOMAIN m = 1 .. Len(m)
  OBVIOUS
<1>3. \A i : G(D[i]) = \A k \in 1 .. Len(m) : m[k].dof = D[i] => m[k].ghost
  BY <1>2
<1>4. NodesMet(m) = t \o <<>>
  BY DEF NodesMet, Map
<1> HIDE DEF D, G
<1>5. Len(D) \in Nat /\ DOMAIN D = 1 .. Len(D)
  BY <1>1
<1>6. t = [i \in 1 .. Len(D) |-> t[i]] /\ \A i \in 1 .. Len(D) : t[i].dof = D[i] /\ t[i].ghost = G(D[i])
  BY <1>5
<1> HIDE DEF t
<1>7. t \o <<>> = t /\ Len(t) = Len(D) /\ DOMAIN t = 1 .. Len(D)
  BY <1>5, <1>6, TableKept
<1>8. \A i \in 1 .. Len(D) : /\ NodesMet(m)[i].dof = D[i]
                            /\ NodesMet(m)[i].ghost = \A k \in 1 .. Len(m) : m[k].dof = D[i] => m[k].ghost
  <2> SUFFICES ASSUME NEW i \in 1 .. Len(D)
               PROVE  /\ NodesMet(m)[i].dof = D[i]
                      /\ NodesMet(m)[i].ghost = \A k \in 1 .. Len(m) : m[k].dof = D[i] => m[k].ghost
    OBVIOUS
  <2>1. NodesMet(m)[i].dof = D[i] /\ NodesMet(m)[i].ghost = G(D[i])
    BY <1>4, <1>6, <1>7
  <2> QED BY <1>3, <2>1
<1>9. Len(NodesMet(m)) = Len(D) /\ DOMAIN NodesMet(m) = 1 .. Len(D)
  BY <1>4, <1>7
<1> QED BY <1>1, <1>8, <1>9 DEF D

\* Two ranks that meet the same nodes, each by numbers of its own.
MetAlike(m, w) ==
  /\ m \in Seq(Node) /\ w \in Seq(Node) /\ Len(m) = Len(w)
  /\ \A k \in 1 .. Len(m) : m[k].ghost = w[k].ghost
  /\ \A k, l \in 1 .. Len(m) : (m[k].dof = m[l].dof) <=> (w[k].dof = w[l].dof)

\* Their lists have the same nodes at the same places, with the same marks.
ListsAlike(N, W, m, w) ==
  /\ Len(N) = Len(W) /\ Len(N) \in Nat /\ DOMAIN N = 1 .. Len(N) /\ DOMAIN W = 1 .. Len(N)
  /\ \A i \in 1 .. Len(N) : \E k \in 1 .. Len(m) :
       N[i].dof = m[k].dof /\ W[i].dof = w[k].dof /\ N[i].ghost = m[k].ghost
  /\ \A i \in 1 .. Len(N) : N[i].ghost = W[i].ghost
  /\ \A k \in 1 .. Len(m) : \E i \in 1 .. Len(N) :
       N[i].dof = m[k].dof /\ W[i].dof = w[k].dof /\ (~m[k].ghost => ~N[i].ghost)

LEMMA NodesAlike == ASSUME NEW m, NEW w, MetAlike(m, w) PROVE ListsAlike(NodesMet(m), NodesMet(w), m, w)
<1> DEFINE N == NodesMet(m)
           W == NodesMet(w)
           s == DofsMet(m)
           t == DofsMet(w)
           D == Distinct(s)
           E == Distinct(t)
           n == Len(m)
<1>1. /\ m \in Seq(Node) /\ w \in Seq(Node) /\ Len(w) = n
      /\ \A k \in 1 .. n : m[k].ghost = w[k].ghost
      /\ \A k, l \in 1 .. n : (m[k].dof = m[l].dof) <=> (w[k].dof = w[l].dof)
  BY DEF MetAlike
<1>2. /\ s \in Seq(Nat) /\ Len(s) = n /\ DOMAIN s = 1 .. n /\ n \in Nat
      /\ \A k \in 1 .. n : s[k] = m[k].dof /\ m[k].ghost \in BOOLEAN
  BY <1>1, DofsMetAre
<1>3. t \in Seq(Nat) /\ Len(t) = n /\ DOMAIN t = 1 .. n /\ \A k \in 1 .. n : t[k] = w[k].dof
  BY <1>1, DofsMetAre
<1>4. Alike(s, t)
  <2> HIDE DEF s, t, n
  <2>1. ASSUME NEW i \in DOMAIN s, NEW j \in DOMAIN s PROVE (s[i] = s[j]) <=> (t[i] = t[j])
    <3>1. s[i] = m[i].dof /\ s[j] = m[j].dof /\ t[i] = w[i].dof /\ t[j] = w[j].dof
      BY <1>2, <1>3
    <3> QED BY <1>1, <1>2, <3>1
  <2> QED BY <1>2, <1>3, <2>1 DEF Alike
<1>5. /\ D \in Seq(Nat) /\ Len(N) = Len(D) /\ DOMAIN N = 1 .. Len(D)
      /\ \A i \in 1 .. Len(D) : N[i].dof = D[i] /\ N[i].ghost = \A k \in 1 .. n : m[k].dof = D[i] => m[k].ghost
  BY <1>1, NodesMetAre
<1>6. /\ E \in Seq(Nat) /\ Len(W) = Len(E) /\ DOMAIN W = 1 .. Len(E)
      /\ \A i \in 1 .. Len(E) : W[i].dof = E[i] /\ W[i].ghost = \A k \in 1 .. n : w[k].dof = E[i] => w[k].ghost
  <2>1. /\ E \in Seq(Nat) /\ Len(W) = Len(E) /\ DOMAIN W = 1 .. Len(E)
        /\ \A i \in 1 .. Len(E) : W[i].dof = E[i] /\ W[i].ghost = \A k \in 1 .. Len(w) : w[k].dof = E[i] => w[k].ghost
    BY <1>1, NodesMetAre
  <2> HIDE DEF W, E, n
  <2> QED BY <1>1, <2>1
<1> HIDE DEF s, t, n, N, W
<1>7. Len(D) = Len(E) /\ \A i \in DOMAIN D : \E k \in DOMAIN s : D[i] = s[k] /\ E[i] = t[k]
  <2>1. s \in Seq(Nat) /\ t \in Seq(Nat)
    BY <1>2, <1>3
  <2> QED BY <1>4, <2>1, DistinctAlike
<1>8. \A k \in DOMAIN s : \E i \in DOMAIN D : D[i] = s[k]
  BY <1>2, DistinctIs
<1> HIDE DEF D, E
<1>9. Len(D) \in Nat /\ DOMAIN D = 1 .. Len(D)
  BY <1>5
<1>10. ASSUME NEW i \in 1 .. Len(D) PROVE \E l \in 1 .. n : D[i] = m[l].dof /\ E[i] = w[l].dof
  <2>1. PICK l \in 1 .. n : D[i] = s[l] /\ E[i] = t[l]
    BY <1>2, <1>7, <1>9
  <2> QED BY <1>2, <1>3, <2>1
<1>11. ASSUME NEW i \in 1 .. Len(D), NEW k \in 1 .. n, D[i] = m[k].dof
       PROVE  E[i] = w[k].dof
  <2>1. PICK l \in 1 .. n : D[i] = m[l].dof /\ E[i] = w[l].dof
    BY <1>10
  <2>2. (m[k].dof = m[l].dof) <=> (w[k].dof = w[l].dof)
    BY <1>1
  <2> QED BY <1>11, <2>1, <2>2
<1>12. ASSUME NEW i \in 1 .. Len(D), NEW k \in 1 .. n, E[i] = w[k].dof PROVE D[i] = m[k].dof
  <2>1. PICK l \in 1 .. n : D[i] = m[l].dof /\ E[i] = w[l].dof
    BY <1>10
  <2>2. (m[k].dof = m[l].dof) <=> (w[k].dof = w[l].dof)
    BY <1>1
  <2> QED BY <1>12, <2>1, <2>2
<1>13. ASSUME NEW i \in 1 .. Len(D) PROVE N[i].ghost = W[i].ghost
  <2>1. (\A k \in 1 .. n : m[k].dof = D[i] => m[k].ghost) <=> (\A k \in 1 .. n : w[k].dof = E[i] => w[k].ghost)
    <3>1. \A k \in 1 .. n : (m[k].dof = D[i]) <=> (w[k].dof = E[i])
      BY <1>11, <1>12
    <3>2. \A k \in 1 .. n : m[k].ghost = w[k].ghost
      BY <1>1
    <3> QED BY <3>1, <3>2
  <2>2. N[i].ghost = \A k \in 1 .. n : m[k].dof = D[i] => m[k].ghost
    BY <1>5
  <2>3. W[i].ghost = \A k \in 1 .. n : w[k].dof = E[i] => w[k].ghost
    BY <1>6, <1>7
  <2> QED BY <2>1, <2>2, <2>3
<1>14. ASSUME NEW i \in 1 .. Len(D)
       PROVE  \E k \in 1 .. n : N[i].dof = m[k].dof /\ W[i].dof = w[k].dof /\ N[i].ghost = m[k].ghost
  <2>1. N[i].ghost = \A k \in 1 .. n : m[k].dof = D[i] => m[k].ghost
    BY <1>5
  <2>2. N[i].dof = D[i] /\ W[i].dof = E[i]
    BY <1>5, <1>6, <1>7
  <2>3. CASE \A k \in 1 .. n : m[k].dof = D[i] => m[k].ghost
    <3>1. PICK k \in 1 .. n : D[i] = m[k].dof /\ E[i] = w[k].dof
      BY <1>10
    <3>2. m[k].ghost = TRUE /\ N[i].ghost = TRUE
      BY <1>2, <2>1, <2>3, <3>1
    <3> QED BY <2>2, <3>1, <3>2
  <2>4. CASE ~ \A k \in 1 .. n : m[k].dof = D[i] => m[k].ghost
    <3>1. PICK k \in 1 .. n : m[k].dof = D[i] /\ ~m[k].ghost
      BY <2>4
    <3>2. m[k].ghost = FALSE /\ N[i].ghost = FALSE
      BY <1>2, <2>1, <2>4, <3>1
    <3>3. E[i] = w[k].dof
      BY <1>11, <3>1
    <3> QED BY <2>2, <3>1, <3>2, <3>3
  <2> QED BY <2>3, <2>4
<1>15. ASSUME NEW k \in 1 .. n
       PROVE  \E i \in 1 .. Len(D) : N[i].dof = m[k].dof /\ W[i].dof = w[k].dof /\ (~m[k].ghost => ~N[i].ghost)
  <2>1. PICK i \in 1 .. Len(D) : D[i] = s[k]
    BY <1>2, <1>8, <1>9
  <2>2. D[i] = m[k].dof /\ E[i] = w[k].dof
    BY <1>2, <1>11, <2>1
  <2>3. N[i].dof = D[i] /\ W[i].dof = E[i] /\ N[i].ghost = \A l \in 1 .. n : m[l].dof = D[i] => m[l].ghost
    BY <1>5, <1>6, <1>7
  <2> QED BY <2>2, <2>3
<1>16. ListsAlike(N, W, m, w)
  BY <1>5, <1>6, <1>7, <1>9, <1>13, <1>14, <1>15 DEF ListsAlike, n
<1> QED BY <1>16 DEF N, W

\* What is met is the same, whatever numbers it has on each side, and where it is no ghost its places are owned.
MetSame(p, r, m, w) ==
  \A j \in 1 .. Len(m) :
    /\ parentVerts[p][m[j].dof] = vertices[r][w[j].dof]
    /\ \A d \in Components : /\ <<m[j].dof, d>> \in ParentPlaces(p) /\ <<w[j].dof, d>> \in Places(r)
                             /\ ~m[j].ghost => <<w[j].dof, d>> \in OwnedPlaces(r)

LEMMA MetIsSame ==
  ASSUME TransferAssumption, MeshIInv, Built, method # "quadrature", NEW r \in Procs, NEW p \in Procs,
         NEW m, NEW w, MetTogether(p, r, m, w)
  PROVE  MetAlike(m, w) /\ MetSame(p, r, m, w)
<1> DEFINE list == p2r[p][r]
           off == offsets[r][p]
           n == Len(list)
           D(k) == GetElementDofs(p, list[k].elem)
           V(k) == elements[r][off + k].verts
           pv == parentVerts[p]
           vs == vertices[r]
<1>1. RedecompAssumption /\ ParentIs /\ list \in Seq(Item(p))
  BY DEF TransferAssumption, MeshIInv, ParentIs
<1>2. /\ m \in Seq(Node) /\ w \in Seq(Node) /\ Len(m) = Len(w)
      /\ \A j \in 1 .. Len(m) : \E k \in 1 .. n : \E i \in 1 .. Len(Conn[list[k].elem]) : MetAt(p, r, m, w, j, k, i)
  BY DEF MetTogether
<1>3. ASSUME NEW j \in 1 .. Len(m), NEW k \in 1 .. n, NEW i \in 1 .. Len(Conn[list[k].elem]), MetAt(p, r, m, w, j, k, i)
      PROVE  /\ m[j].ghost = w[j].ghost
             /\ m[j].dof \in DOMAIN pv /\ w[j].dof \in DOMAIN vs /\ pv[m[j].dof] = vs[w[j].dof]
             /\ \A d \in Components : /\ <<m[j].dof, d>> \in ParentPlaces(p) /\ <<w[j].dof, d>> \in Places(r)
                                      /\ ~m[j].ghost => <<w[j].dof, d>> \in OwnedPlaces(r)
  <2>1. m[j].dof = D(k)[i] /\ m[j].ghost = list[k].ghost /\ w[j].dof = V(k)[i] /\ w[j].ghost = list[k].ghost
    BY <1>3 DEF MetAt
  <2>2. /\ list[k].elem \in ElemsOf(p) /\ Conn[list[k].elem] \in Seq(Nat)
        /\ V(k)[i] \in DOMAIN vs /\ vs[V(k)[i]] = Conn[list[k].elem][i]
    BY <1>1, VertsReceived
  <2>3. i \in DOMAIN Conn[list[k].elem]
    BY <2>2
  <2>4. D(k)[i] \in DOMAIN pv /\ pv[D(k)[i]] = Conn[list[k].elem][i] /\ Len(D(k)) = Len(Conn[list[k].elem])
    BY <1>1, <2>2, <2>3, DofsAre
  <2>5. PlacesOfNodes(ParentElem(p, list[k].elem), RedecompElem(r, off + k), D(k), V(k))
    BY ElementNodes
  <2>6. off + k \in DOMAIN elements[r]
    BY <1>1, SourceIs
  <2>7. ~list[k].ghost => \A q \in Procs : ~IsGhost(r, q, off + k)
    BY <1>1, GhostOfSource
  <2> HIDE DEF D, V, list, off, pv, vs
  <2>8. ASSUME NEW d \in Components
        PROVE  <<D(k)[i], d>> \in ToSet(ParentElem(p, list[k].elem)) /\ <<V(k)[i], d>> \in ToSet(RedecompElem(r, off + k))
    BY <2>4, <2>5, NodesPlaced
  <2>9. \A x \in ToSet(ParentElem(p, list[k].elem)) : x \in ParentPlaces(p)
    BY <2>2 DEF ParentPlaces, ElemsOf
  <2>10. \A x \in ToSet(RedecompElem(r, off + k)) : x \in Places(r) /\ (~list[k].ghost => x \in OwnedPlaces(r))
    BY <2>6, <2>7 DEF Places, OwnedPlaces
  <2> QED BY <2>1, <2>2, <2>4, <2>8, <2>9, <2>10
<1>4. ASSUME NEW j \in 1 .. Len(m)
      PROVE  /\ m[j].ghost = w[j].ghost
             /\ m[j].dof \in DOMAIN pv /\ w[j].dof \in DOMAIN vs /\ pv[m[j].dof] = vs[w[j].dof]
             /\ \A d \in Components : /\ <<m[j].dof, d>> \in ParentPlaces(p) /\ <<w[j].dof, d>> \in Places(r)
                                      /\ ~m[j].ghost => <<w[j].dof, d>> \in OwnedPlaces(r)
  <2>1. PICK k \in 1 .. n : \E i \in 1 .. Len(Conn[list[k].elem]) : MetAt(p, r, m, w, j, k, i)
    BY <1>2
  <2>2. PICK i \in 1 .. Len(Conn[list[k].elem]) : MetAt(p, r, m, w, j, k, i)
    BY <2>1
  <2> QED BY <1>3, <2>2
<1>5. \A k, l \in DOMAIN pv : pv[k] = pv[l] => k = l
  BY <1>1 DEF ParentIs
<1>6. \A k, l \in DOMAIN vs : vs[k] = vs[l] => k = l
  <2>1. Numbered(vertIds[r], r2pVerts[r], p2r, r) /\ vs = vertIds[r]
    BY DEF MeshIInv, HasNumbers, HasVertices, Built
  <2> HIDE DEF vs
  <2> QED BY <2>1 DEF Numbered
<1> HIDE DEF pv, vs
<1>7. \A k, l \in 1 .. Len(m) : (m[k].dof = m[l].dof) <=> (w[k].dof = w[l].dof)
  BY <1>4, <1>5, <1>6
<1>8. MetAlike(m, w)
  BY <1>2, <1>4, <1>7 DEF MetAlike
<1>9. MetSame(p, r, m, w)
  BY <1>4 DEF MetSame, pv, vs
<1> QED BY <1>8, <1>9

\* The dofs of a list of nodes.
LEMMA DofsOf ==
  ASSUME NEW n \in Nat, NEW N, DOMAIN N = 1 .. n
  PROVE  /\ Len(Dofs(N)) = n /\ \A i \in 1 .. n : Dofs(N)[i] = N[i].dof
         /\ (\A i \in 1 .. n : N[i].dof \in Nat) => Dofs(N) \in Seq(Nat)
<1> DEFINE t == [k \in DOMAIN N |-> N[k].dof]
<1>1. t = [k \in 1 .. n |-> t[k]] /\ \A k \in 1 .. n : t[k] = N[k].dof
  OBVIOUS
<1>2. Dofs(N) = t \o <<>>
  BY DEF Dofs, Map
<1> HIDE DEF t
<1>3. t \o <<>> = t /\ Len(t) = n
  BY <1>1, TableKept
<1>4. (\A i \in 1 .. n : N[i].dof \in Nat) => t \in Seq(Nat)
  BY <1>1, TableIs
<1> QED BY <1>1, <1>2, <1>3, <1>4

\* Dofs that are met together are of the same nodes.
LEMMA SomeNodesSame ==
  ASSUME NEW p, NEW r, NEW m, NEW w, MetSame(p, r, m, w), NEW s, NEW u,
         \A i \in 1 .. Len(s) : \E k \in 1 .. Len(m) : s[i] = m[k].dof /\ u[i] = w[k].dof
  PROVE  SameNodes(p, r, s, u)
<1> SUFFICES ASSUME NEW i \in 1 .. Len(s)
             PROVE  /\ parentVerts[p][s[i]] = vertices[r][u[i]]
                    /\ \A d \in Components : <<s[i], d>> \in ParentPlaces(p) /\ <<u[i], d>> \in Places(r)
  BY DEF SameNodes
<1>1. PICK k \in 1 .. Len(m) : s[i] = m[k].dof /\ u[i] = w[k].dof
  OBVIOUS
<1> QED BY <1>1 DEF MetSame

-----------------------------------------------------------------------------
(* The lists of nodes. *)

\* The lists that both sides make of what they meet, and what is known of it.
LEMMA ListsOf ==
  ASSUME TransferAssumption, MeshIInv, Built, method # "quadrature", NEW r \in Procs, NEW p \in Procs
  PROVE  \E m, w : /\ MetTogether(p, r, m, w) /\ MetSame(p, r, m, w) /\ m \in Seq(Node) /\ w \in Seq(Node) /\ Len(m) = Len(w)
                   /\ ListsAlike(P2RNodeList(p, r, FALSE), R2PNodeList(r, p), m, w)
<1> DEFINE m == Met(p, r, FALSE)
           w == MetThere(r, p)
<1>1. RedecompAssumption
  BY DEF TransferAssumption
<1>2. MetTogether(p, r, m, w)
  BY <1>1, MetAreTogether
<1> HIDE DEF m, w
<1>3. MetAlike(m, w) /\ MetSame(p, r, m, w)
  BY <1>2, MetIsSame
<1>4. ListsAlike(NodesMet(m), NodesMet(w), m, w)
  BY <1>3, NodesAlike
<1>5. P2RNodeList(p, r, FALSE) = NodesMet(m) /\ R2PNodeList(r, p) = NodesMet(w)
  BY NodeListsAre DEF m, w
<1>6. m \in Seq(Node) /\ w \in Seq(Node) /\ Len(m) = Len(w)
  BY <1>2 DEF MetTogether
<1> QED BY <1>2, <1>3, <1>4, <1>5, <1>6

\* Where an element meets its nodes.
LEMMA MetOf ==
  ASSUME TransferAssumption, MeshIInv, Built, method # "quadrature", NEW r \in Procs, NEW p \in Procs,
         NEW m, NEW w, MetTogether(p, r, m, w), NEW k \in 1 .. Len(p2r[p][r])
  PROVE  /\ \A x \in ToSet(ParentElem(p, p2r[p][r][k].elem)) : \E j \in 1 .. Len(m) : \E d \in Components :
              x = <<m[j].dof, d>> /\ m[j].ghost = p2r[p][r][k].ghost
         /\ \A x \in ToSet(RedecompElem(r, offsets[r][p] + k)) : \E j \in 1 .. Len(m) : \E d \in Components :
              x = <<w[j].dof, d>>
<1> DEFINE e == p2r[p][r][k].elem
           S == ParentElem(p, e)
           U == RedecompElem(r, offsets[r][p] + k)
           s == GetElementDofs(p, e)
           u == elements[r][offsets[r][p] + k].verts
<1>1. RedecompAssumption /\ ParentIs
  BY DEF TransferAssumption, MeshIInv
<1>2. e \in ElemsOf(p)
  BY <1>1, VertsReceived
<1>3. Len(s) = Len(Conn[e])
  BY <1>1, <1>2, DofsAre
<1>4. PlacesOfNodes(S, U, s, u)
  BY ElementNodes
<1>5. ASSUME NEW i \in 1 .. Len(Conn[e])
      PROVE  \E j \in 1 .. Len(m) : m[j].dof = s[i] /\ m[j].ghost = p2r[p][r][k].ghost /\ w[j].dof = u[i]
  <2>1. PICK j \in 1 .. Len(m) : MetAt(p, r, m, w, j, k, i)
    BY DEF MetTogether
  <2> QED BY <2>1 DEF MetAt
<1> HIDE DEF e, S, U, s, u
<1>6. /\ \A x \in ToSet(S) : \E i \in 1 .. Len(s) : \E d \in Components : x = <<s[i], d>>
      /\ \A x \in ToSet(U) : \E i \in 1 .. Len(s) : \E d \in Components : x = <<u[i], d>>
  BY <1>4, NodesPlaced
<1>7. ASSUME NEW x \in ToSet(S)
      PROVE  \E j \in 1 .. Len(m) : \E d \in Components : x = <<m[j].dof, d>> /\ m[j].ghost = p2r[p][r][k].ghost
  <2>1. PICK i \in 1 .. Len(s) : \E d \in Components : x = <<s[i], d>>
    BY <1>6
  <2>2. PICK j \in 1 .. Len(m) : m[j].dof = s[i] /\ m[j].ghost = p2r[p][r][k].ghost
    BY <1>3, <1>5
  <2> QED BY <2>1, <2>2
<1>8. ASSUME NEW x \in ToSet(U) PROVE \E j \in 1 .. Len(m) : \E d \in Components : x = <<w[j].dof, d>>
  <2>1. PICK i \in 1 .. Len(s) : \E d \in Components : x = <<u[i], d>>
    BY <1>6
  <2>2. PICK j \in 1 .. Len(m) : w[j].dof = u[i]
    BY <1>3, <1>5
  <2> QED BY <2>1, <2>2
<1> QED BY <1>7, <1>8 DEF S, U, e

\* Nodes are sent and received in step, and none of a source is left out.
LEMMA NodesOutIn ==
  ASSUME TransferAssumption, MeshIInv, Built, method # "quadrature", NEW r \in Procs, NEW p \in Procs
  PROVE  /\ Paired(p, r, NodesOut(p, r), NodesIn(r, p))
         /\ \A k \in 1 .. Len(p2r[p][r]) : ToSet(RedecompElem(r, offsets[r][p] + k)) \subseteq ToSet(NodesIn(r, p))
<1> DEFINE N == P2RNodeList(p, r, FALSE)
           W == R2PNodeList(r, p)
           n == Len(N)
           s == Dofs(N)
           u == Dofs(W)
           S == ByComponent(s)
           U == ByComponent(u)
<1>1. PICK m, w : /\ MetTogether(p, r, m, w) /\ MetSame(p, r, m, w) /\ m \in Seq(Node) /\ w \in Seq(Node) /\ Len(m) = Len(w)
                  /\ ListsAlike(N, W, m, w)
  BY ListsOf
<1>2. NodesOut(p, r) = S /\ NodesIn(r, p) = U
  BY DEF NodesOut, NodesIn
<1> HIDE DEF N, W
<1>3. /\ n \in Nat /\ DOMAIN N = 1 .. n /\ DOMAIN W = 1 .. n
      /\ \A i \in 1 .. n : \E k \in 1 .. Len(m) : N[i].dof = m[k].dof /\ W[i].dof = w[k].dof
      /\ \A k \in 1 .. Len(m) : \E i \in 1 .. n : N[i].dof = m[k].dof /\ W[i].dof = w[k].dof
  BY <1>1 DEF ListsAlike
<1>4. \A k \in 1 .. Len(m) : m[k].dof \in Nat /\ w[k].dof \in Nat
  <2>1. \A k \in 1 .. Len(m) : m[k] \in Node /\ w[k] \in Node
    BY <1>1
  <2> QED BY <2>1 DEF Node
<1> HIDE DEF n
<1>5. /\ n \in Nat /\ DOMAIN N = 1 .. n /\ DOMAIN W = 1 .. n
      /\ \A i \in 1 .. n : N[i].dof \in Nat
      /\ \A i \in 1 .. n : W[i].dof \in Nat
  BY <1>3, <1>4
<1>6. s \in Seq(Nat) /\ Len(s) = n /\ \A i \in 1 .. n : s[i] = N[i].dof
  <2>1. n \in Nat /\ DOMAIN N = 1 .. n
    BY <1>5
  <2>2. /\ Len(s) = n /\ \A i \in 1 .. n : s[i] = N[i].dof
        /\ (\A i \in 1 .. n : N[i].dof \in Nat) => s \in Seq(Nat)
    BY <2>1, DofsOf
  <2> HIDE DEF s
  <2> QED BY <1>5, <2>2
<1>7. u \in Seq(Nat) /\ Len(u) = n /\ \A i \in 1 .. n : u[i] = W[i].dof
  <2>1. n \in Nat /\ DOMAIN W = 1 .. n
    BY <1>5
  <2>2. /\ Len(u) = n /\ \A i \in 1 .. n : u[i] = W[i].dof
        /\ (\A i \in 1 .. n : W[i].dof \in Nat) => u \in Seq(Nat)
    BY <2>1, DofsOf
  <2> HIDE DEF u
  <2> QED BY <1>5, <2>2
<1> HIDE DEF s, u
<1>8. PlacesOfNodes(S, U, s, u)
  BY <1>6, <1>7, ByComponentIs
<1> HIDE DEF S, U
<1>9. SameNodes(p, r, s, u)
  <2>1. ASSUME NEW i \in 1 .. n PROVE \E k \in 1 .. Len(m) : s[i] = m[k].dof /\ u[i] = w[k].dof
    <3>1. PICK k \in 1 .. Len(m) : N[i].dof = m[k].dof /\ W[i].dof = w[k].dof
      BY <1>3
    <3>2. s[i] = N[i].dof /\ u[i] = W[i].dof
      BY <1>6, <1>7
    <3> QED BY <3>1, <3>2
  <2>2. Len(s) = n /\ MetSame(p, r, m, w)
    BY <1>1, <1>6
  <2>3. \A i \in 1 .. Len(s) : \E k \in 1 .. Len(m) : s[i] = m[k].dof /\ u[i] = w[k].dof
    BY <2>1, <2>2
  <2> QED BY <2>2, <2>3, SomeNodesSame
<1>10. Paired(p, r, S, U)
  BY <1>8, <1>9, NodesPaired
<1>11. \A i \in 1 .. Len(s) : \A d \in Components : <<u[i], d>> \in ToSet(U)
  BY <1>8, NodesPlaced
<1>12. ASSUME NEW k \in 1 .. Len(p2r[p][r]), NEW x \in ToSet(RedecompElem(r, offsets[r][p] + k))
       PROVE  x \in ToSet(U)
  <2>1. PICK j \in 1 .. Len(m) : \E d \in Components : x = <<w[j].dof, d>>
    BY <1>1, MetOf
  <2>2. PICK i \in 1 .. n : W[i].dof = w[j].dof
    BY <1>3
  <2> QED BY <1>6, <1>7, <1>11, <2>1, <2>2
<1> QED BY <1>2, <1>10, <1>12

\* So are nodes that some element that is no ghost has, on the way back, and no others.
LEMMA NodesBackHome ==
  ASSUME TransferAssumption, MeshIInv, Built, method # "quadrature", NEW r \in Procs, NEW p \in Procs
  PROVE  /\ Paired(p, r, NodesHome(p, r), NodesBack(r, p))
         /\ \A k \in 1 .. Len(p2r[p][r]) :
              ~p2r[p][r][k].ghost => ToSet(ParentElem(p, p2r[p][r][k].elem)) \subseteq ToSet(NodesHome(p, r))
         /\ ToSet(NodesBack(r, p)) \subseteq OwnedPlaces(r)
<1> DEFINE N == P2RNodeList(p, r, FALSE)
           W == R2PNodeList(r, p)
           n == Len(N)
           a == OwnedAt(N)
           s == Dofs(Owned(N))
           u == Dofs(Owned(W))
           S == ByDof(s)
           U == ByDof(u)
<1>1. PICK m, w : /\ MetTogether(p, r, m, w) /\ MetSame(p, r, m, w) /\ m \in Seq(Node) /\ w \in Seq(Node) /\ Len(m) = Len(w)
                  /\ ListsAlike(N, W, m, w)
  BY ListsOf
<1>2. NodesHome(p, r) = S /\ NodesBack(r, p) = U
  BY DEF NodesHome, NodesBack
<1> HIDE DEF N, W
<1>3. /\ n \in Nat /\ DOMAIN N = 1 .. n /\ DOMAIN W = 1 .. n
      /\ \A i \in 1 .. n : \E k \in 1 .. Len(m) : N[i].dof = m[k].dof /\ W[i].dof = w[k].dof /\ N[i].ghost = m[k].ghost
      /\ \A i \in 1 .. n : N[i].ghost = W[i].ghost
      /\ \A k \in 1 .. Len(m) : \E i \in 1 .. n : N[i].dof = m[k].dof /\ W[i].dof = w[k].dof /\ (~m[k].ghost => ~N[i].ghost)
  BY <1>1 DEF ListsAlike
<1>4. \A k \in 1 .. Len(m) : m[k].dof \in Nat /\ w[k].dof \in Nat
  <2>1. \A k \in 1 .. Len(m) : m[k] \in Node /\ w[k] \in Node
    BY <1>1
  <2> QED BY <2>1 DEF Node
<1> HIDE DEF n
<1>5. OwnedAt(W) = a
  <2>1. {k \in DOMAIN N : ~N[k].ghost} = {k \in DOMAIN W : ~W[k].ghost}
    BY <1>3
  <2> QED BY <2>1 DEF OwnedAt
<1>6. /\ a \in Seq(1 .. n) /\ DOMAIN Owned(N) = 1 .. Len(a)
      /\ \A i \in 1 .. Len(a) : ~N[a[i]].ghost /\ Owned(N)[i] = N[a[i]]
      /\ \A k \in 1 .. n : ~N[k].ghost => \E i \in 1 .. Len(a) : a[i] = k
  <2>1. n \in Nat /\ DOMAIN N = 1 .. n
    BY <1>3
  <2>2. /\ OwnedAt(N) \in Seq(1 .. n)
        /\ \A i \in 1 .. Len(OwnedAt(N)) : ~N[OwnedAt(N)[i]].ghost
        /\ \A k \in 1 .. n : ~N[k].ghost => \E i \in 1 .. Len(OwnedAt(N)) : OwnedAt(N)[i] = k
        /\ DOMAIN Owned(N) = 1 .. Len(OwnedAt(N))
        /\ \A i \in 1 .. Len(OwnedAt(N)) : Owned(N)[i] = N[OwnedAt(N)[i]]
    <3> HIDE DEF a, s, u, S, U
    <3>1. /\ OwnedAt(N) \in Seq(1 .. n)
          /\ \A k \in 1 .. n : ~N[k].ghost => \E i \in 1 .. Len(OwnedAt(N)) : OwnedAt(N)[i] = k
      BY <2>1, OwnedIs
    <3>2. \A i \in 1 .. Len(OwnedAt(N)) : ~N[OwnedAt(N)[i]].ghost
      BY <2>1, OwnedIs
    <3>3. /\ DOMAIN Owned(N) = 1 .. Len(OwnedAt(N))
          /\ \A i \in 1 .. Len(OwnedAt(N)) : Owned(N)[i] = N[OwnedAt(N)[i]]
      BY <2>1, OwnedIs
    <3> QED BY <3>1, <3>2, <3>3
  <2> HIDE DEF a
  <2>3. a = OwnedAt(N)
    BY DEF a
  <2> QED BY <2>2, <2>3
<1>7. DOMAIN Owned(W) = 1 .. Len(a) /\ \A i \in 1 .. Len(a) : Owned(W)[i] = W[a[i]]
  <2> HIDE DEF a
  <2>1. /\ DOMAIN Owned(W) = 1 .. Len(OwnedAt(W))
        /\ \A i \in 1 .. Len(OwnedAt(W)) : Owned(W)[i] = W[OwnedAt(W)[i]]
    <3>1. n \in Nat /\ DOMAIN W = 1 .. n
      BY <1>3
    <3> QED BY <3>1, OwnedIs
  <2> QED BY <1>5, <2>1
<1> HIDE DEF a
<1>8. Len(a) \in Nat /\ \A i \in 1 .. Len(a) : a[i] \in 1 .. n
  <2>1. PICK T : T = 1 .. n
    OBVIOUS
  <2>2. a \in Seq(T)
    BY <1>6, <2>1
  <2>3. Len(a) \in Nat /\ \A i \in 1 .. Len(a) : a[i] \in T
    BY <2>2
  <2> QED BY <2>1, <2>3
<1>9. ASSUME NEW i \in 1 .. Len(a)
      PROVE  \E k \in 1 .. Len(m) : Owned(N)[i].dof = m[k].dof /\ Owned(W)[i].dof = w[k].dof /\ ~m[k].ghost
  <2>1. PICK j \in 1 .. n : j = a[i]
    BY <1>8
  <2>2. Owned(N)[i] = N[j] /\ Owned(W)[i] = W[j] /\ ~N[j].ghost
    BY <1>6, <1>7, <2>1
  <2>3. PICK k \in 1 .. Len(m) : N[j].dof = m[k].dof /\ W[j].dof = w[k].dof /\ N[j].ghost = m[k].ghost
    BY <1>3
  <2>4. Owned(N)[i].dof = m[k].dof /\ Owned(W)[i].dof = w[k].dof /\ ~m[k].ghost
    BY <2>2, <2>3
  <2> QED BY <2>4
<1>10. \A i \in 1 .. Len(a) : Owned(N)[i].dof \in Nat /\ Owned(W)[i].dof \in Nat
  <2> SUFFICES ASSUME NEW i \in 1 .. Len(a) PROVE Owned(N)[i].dof \in Nat /\ Owned(W)[i].dof \in Nat
    OBVIOUS
  <2>1. PICK k \in 1 .. Len(m) : Owned(N)[i].dof = m[k].dof /\ Owned(W)[i].dof = w[k].dof
    BY <1>9
  <2> QED BY <1>4, <2>1
<1>11. s \in Seq(Nat) /\ Len(s) = Len(a) /\ \A i \in 1 .. Len(a) : s[i] = Owned(N)[i].dof
  <2>1. Len(a) \in Nat /\ DOMAIN Owned(N) = 1 .. Len(a)
    BY <1>6, <1>8
  <2>2. /\ Len(s) = Len(a) /\ \A i \in 1 .. Len(a) : s[i] = Owned(N)[i].dof
        /\ (\A i \in 1 .. Len(a) : Owned(N)[i].dof \in Nat) => s \in Seq(Nat)
    BY <2>1, DofsOf
  <2> HIDE DEF s
  <2> QED BY <1>10, <2>2
<1>12. u \in Seq(Nat) /\ Len(u) = Len(a) /\ \A i \in 1 .. Len(a) : u[i] = Owned(W)[i].dof
  <2>1. Len(a) \in Nat /\ DOMAIN Owned(W) = 1 .. Len(a)
    BY <1>7, <1>8
  <2>2. /\ Len(u) = Len(a) /\ \A i \in 1 .. Len(a) : u[i] = Owned(W)[i].dof
        /\ (\A i \in 1 .. Len(a) : Owned(W)[i].dof \in Nat) => u \in Seq(Nat)
    BY <2>1, DofsOf
  <2> HIDE DEF u
  <2> QED BY <1>10, <2>2
<1> HIDE DEF s, u
<1>13. PlacesOfNodes(S, U, s, u)
  BY <1>11, <1>12, ByDofIs
<1> HIDE DEF S, U
<1>14. \A i \in 1 .. Len(s) : \E k \in 1 .. Len(m) : s[i] = m[k].dof /\ u[i] = w[k].dof /\ ~m[k].ghost
  BY <1>9, <1>11, <1>12
<1>15. SameNodes(p, r, s, u)
  BY <1>1, <1>14, SomeNodesSame
<1>16. Paired(p, r, S, U)
  BY <1>13, <1>15, NodesPaired
<1>17. /\ \A i \in 1 .. Len(s) : \A d \in Components : <<s[i], d>> \in ToSet(S)
       /\ \A x \in ToSet(U) : \E i \in 1 .. Len(s) : \E d \in Components : x = <<u[i], d>>
  <2>1. \A i \in 1 .. Len(s) : \A d \in Components : <<s[i], d>> \in ToSet(S)
    BY <1>13, NodesPlaced
  <2>2. \A x \in ToSet(U) : \E i \in 1 .. Len(s) : \E d \in Components : x = <<u[i], d>>
    BY <1>13, NodesPlaced
  <2> QED BY <2>1, <2>2
<1>18. ASSUME NEW k \in 1 .. Len(p2r[p][r]), ~p2r[p][r][k].ghost, NEW x \in ToSet(ParentElem(p, p2r[p][r][k].elem))
       PROVE  x \in ToSet(S)
  <2>1. PICK j \in 1 .. Len(m) : \E d \in Components : x = <<m[j].dof, d>> /\ m[j].ghost = p2r[p][r][k].ghost
    BY <1>1, MetOf
  <2>2. PICK i \in 1 .. n : N[i].dof = m[j].dof /\ ~N[i].ghost
    BY <1>3, <1>18, <2>1
  <2>3. PICK l \in 1 .. Len(a) : a[l] = i
    BY <1>6, <2>2
  <2>4. l \in 1 .. Len(s) /\ s[l] = m[j].dof
    BY <1>6, <1>11, <2>2, <2>3
  <2> QED BY <1>17, <2>1, <2>4
<1>19. ASSUME NEW x \in ToSet(U) PROVE x \in OwnedPlaces(r)
  <2>1. PICK i \in 1 .. Len(s) : \E d \in Components : x = <<u[i], d>>
    BY <1>17
  <2>2. PICK k \in 1 .. Len(m) : u[i] = w[k].dof /\ ~m[k].ghost
    BY <1>14
  <2> QED BY <1>1, <2>1, <2>2 DEF MetSame
<1> QED BY <1>2, <1>16, <1>18, <1>19

-----------------------------------------------------------------------------
(* What is written. *)

\* The values of f in one list of places are those of g in another.
SameValues(f, S, g, U) == Len(S) = Len(U) /\ \A j \in 1 .. Len(S) : f[S[j]] = g[U[j]]

ValuesAt(g, U) == [j \in 1 .. Len(U) |-> g[U[j]]]

LEMMA ReadGives ==
  ASSUME NEW A, NEW B, NEW S \in Seq(A), NEW U \in Seq(B), NEW f, NEW g, SameValues(f, S, g, U)
  PROVE  Read(f, S) = ValuesAt(g, U)
<1> DEFINE t == [k \in DOMAIN S |-> f[S[k]]]
<1>1. Len(U) \in Nat /\ DOMAIN S = 1 .. Len(U)
  BY DEF SameValues
<1>2. t = [k \in 1 .. Len(U) |-> t[k]] /\ t = [j \in 1 .. Len(U) |-> g[U[j]]]
  BY <1>1 DEF SameValues
<1>3. Read(f, S) = t \o <<>>
  BY DEF Read, Map
<1> HIDE DEF t
<1>4. t \o <<>> = t
  BY <1>1, <1>2, TableKept
<1> QED BY <1>2, <1>3, <1>4 DEF ValuesAt

\* Values written at the places they are of, which leave none out, are where they belong whatever
\* was there, and whatever is written last.
Brought(n, B, g, ins, values) ==
  /\ ins = [p \in 1 .. n |-> ins[p]] /\ values = [p \in 1 .. n |-> values[p]]
  /\ \A p \in 1 .. n : ins[p] \in Seq(B) /\ values[p] = ValuesAt(g, ins[p])
  /\ \A x \in B : \E p \in 1 .. n : x \in ToSet(ins[p])

LEMMA WrittenIs ==
  ASSUME NEW n \in Nat, NEW B, NEW f, DOMAIN f = B, NEW g, NEW ins, NEW values, Brought(n, B, g, ins, values)
  PROVE  Written(f, ins, values) = [x \in B |-> g[x]]
<1> USE DEF Brought, ValuesAt
<1> DEFINE G == {g[x] : x \in B}
           S == FlattenSeq(ins)
           V == FlattenSeq(values)
<1>1. \A p \in 1 .. n : Len(ins[p]) \in Nat /\ DOMAIN ins[p] = 1 .. Len(ins[p]) /\ \A j \in 1 .. Len(ins[p]) : ins[p][j] \in B
  OBVIOUS
<1>2. \A x \in B : g[x] \in G
  OBVIOUS
<1> HIDE DEF G
<1>3. ASSUME NEW p \in 1 .. n
      PROVE  values[p] \in Seq(G) /\ Len(values[p]) = Len(ins[p]) /\ \A j \in 1 .. Len(ins[p]) : values[p][j] = g[ins[p][j]]
  <2>1. /\ values[p] = [j \in 1 .. Len(ins[p]) |-> values[p][j]]
        /\ \A j \in 1 .. Len(ins[p]) : values[p][j] = g[ins[p][j]] /\ values[p][j] \in G
    BY <1>1, <1>2
  <2>2. Len(ins[p]) \in Nat
    BY <1>1
  <2>3. values[p] \in Seq(G) /\ Len(values[p]) = Len(ins[p])
    BY <2>1, <2>2, TableIs
  <2> QED BY <2>1, <2>3
<1>4. ins \in Seq(Seq(B)) /\ Len(ins) = n
  BY TableIs
<1>5. values \in Seq(Seq(G)) /\ Len(values) = n
  BY <1>3, TableIs
<1>6. SameLens(ins, values)
  BY <1>3, <1>4, <1>5 DEF SameLens
<1>7. S \in Seq(B) /\ V \in Seq(G) /\ Matches(S, V, ins, values) /\ Keeps(S, V, ins, values)
  BY <1>4, <1>5, <1>6, FlattenAlike, FlattenKeeps
<1> HIDE DEF S, V
<1>8. Len(S) \in Nat /\ DOMAIN S = 1 .. Len(S)
  BY <1>7
<1>9. ASSUME NEW i \in 1 .. Len(S) PROVE V[i] = g[S[i]]
  <2>1. PICK p \in 1 .. n : \E j \in 1 .. Len(ins[p]) : S[i] = ins[p][j] /\ V[i] = values[p][j]
    <3>1. \E p \in 1 .. Len(ins) : \E j \in 1 .. Len(ins[p]) : S[i] = ins[p][j] /\ V[i] = values[p][j]
      BY <1>7, <1>8 DEF Matches
    <3> QED BY <1>4, <3>1
  <2>2. PICK j \in 1 .. Len(ins[p]) : S[i] = ins[p][j] /\ V[i] = values[p][j]
    BY <2>1
  <2> QED BY <1>3, <2>2
<1>10. ASSUME NEW x \in B PROVE x \in ToSet(S) /\ V[LastAt(S, x)] = g[x]
  <2>1. PICK p \in 1 .. n : x \in ToSet(ins[p])
    OBVIOUS
  <2>2. PICK j \in 1 .. Len(ins[p]) : x = ins[p][j]
    BY <1>1, <2>1 DEF ToSet
  <2>3. p \in 1 .. Len(ins)
    BY <1>4
  <2>4. PICK i \in 1 .. Len(S) : S[i] = x
    BY <1>7, <2>2, <2>3 DEF Keeps
  <2>5. \E k \in DOMAIN S : S[k] = x
    BY <1>8, <2>4
  <2>6. LastAt(S, x) \in DOMAIN S /\ S[LastAt(S, x)] = x
    BY <1>7, <2>5, LastAtIs
  <2>7. V[LastAt(S, x)] = g[x]
    BY <1>8, <1>9, <2>6
  <2> QED BY <2>5, <2>7 DEF ToSet
<1>11. Written(f, ins, values) = [x \in DOMAIN f |-> IF x \in ToSet(S) THEN V[LastAt(S, x)] ELSE f[x]]
  BY DEF Written, SetSubVector, S, V
<1>12. Written(f, ins, values) = [x \in B |-> IF x \in ToSet(S) THEN V[LastAt(S, x)] ELSE f[x]]
  BY <1>11
<1> QED BY <1>10, <1>12

\* What sources read and a rank writes.
Fetched(n, B, g, src, A, outs, ins) ==
  /\ ins = [p \in 1 .. n |-> ins[p]]
  /\ \A p \in 1 .. n : outs[p] \in Seq(A[p]) /\ ins[p] \in Seq(B) /\ SameValues(src[p], outs[p], g, ins[p])
  /\ \A x \in B : \E p \in 1 .. n : x \in ToSet(ins[p])

LEMMA Arrives ==
  ASSUME NEW n \in Nat, NEW B, NEW f, DOMAIN f = B, NEW g, NEW src, NEW A, NEW outs, NEW ins,
         Fetched(n, B, g, src, A, outs, ins)
  PROVE  Written(f, ins, [p \in 1 .. n |-> Read(src[p], outs[p])]) = [x \in B |-> g[x]]
<1> DEFINE values == [p \in 1 .. n |-> Read(src[p], outs[p])]
<1>1. ASSUME NEW p \in 1 .. n PROVE Read(src[p], outs[p]) = ValuesAt(g, ins[p])
  <2>1. outs[p] \in Seq(A[p]) /\ ins[p] \in Seq(B) /\ SameValues(src[p], outs[p], g, ins[p])
    BY DEF Fetched
  <2> QED BY <2>1, ReadGives
<1>2. Brought(n, B, g, ins, values)
  <2>1. values = [p \in 1 .. n |-> values[p]] /\ \A p \in 1 .. n : values[p] = ValuesAt(g, ins[p])
    BY <1>1
  <2> HIDE DEF values
  <2> QED BY <2>1 DEF Brought, Fetched
<1> HIDE DEF values
<1>3. Written(f, ins, values) = [x \in B |-> g[x]]
  BY <1>2, WrittenIs
<1> QED BY <1>3 DEF values

\* The fields that are filled, computed and wanted.
GivenTo(p) == [x \in ParentPlaces(p) |-> Value("given", ParentName(p, x))]
Arrived(r) == [x \in Places(r) |-> Value("given", Name(r, x))]
ComputedOn(r) == [x \in Places(r) |-> Value(IF x \in OwnedPlaces(r) THEN "result" ELSE "partial", Name(r, x))]
Returned(p) == [x \in ParentPlaces(p) |-> Value("result", ParentName(p, x))]

\* Lists that are paired bring the values of the parent to a rank, if no element made of what it received
\* is left out.
LEMMA SerialArrives ==
  ASSUME RedecompAssumption, MeshIInv, Built, NEW r \in Procs, NEW f, DOMAIN f = Places(r),
         NEW src, \A p \in Procs : src[p] = GivenTo(p),
         NEW outs, NEW ins, ins = [p \in Procs |-> ins[p]],
         \A p \in Procs :
           /\ Paired(p, r, outs[p], ins[p])
           /\ \A k \in 1 .. Len(p2r[p][r]) : ToSet(RedecompElem(r, offsets[r][p] + k)) \subseteq ToSet(ins[p])
  PROVE  Written(f, ins, [p \in Procs |-> Read(src[p], outs[p])]) = Arrived(r)
<1> DEFINE g == Arrived(r)
           A == [p \in Procs |-> ParentPlaces(p)]
           B == Places(r)
<1>1. P \in Nat /\ Procs = 1 .. P
  BY DEF RedecompAssumption, Procs
<1>2. ASSUME NEW p \in Procs
      PROVE  outs[p] \in Seq(A[p]) /\ ins[p] \in Seq(B) /\ SameValues(src[p], outs[p], g, ins[p])
  <2>1. outs[p] \in Seq(ParentPlaces(p)) /\ ins[p] \in Seq(B) /\ Len(outs[p]) = Len(ins[p])
    BY DEF Paired
  <2>2. ASSUME NEW j \in 1 .. Len(outs[p]) PROVE src[p][outs[p][j]] = g[ins[p][j]]
    <3> HIDE DEF B
    <3>1. outs[p][j] \in ParentPlaces(p) /\ ins[p][j] \in B
      BY <2>1
    <3>2. ParentName(p, outs[p][j]) = Name(r, ins[p][j])
      BY DEF Paired
    <3>3. src[p][outs[p][j]] = Value("given", ParentName(p, outs[p][j]))
      BY <3>1 DEF GivenTo
    <3>4. g[ins[p][j]] = Value("given", Name(r, ins[p][j]))
      BY <3>1 DEF Arrived, B
    <3> QED BY <3>2, <3>3, <3>4
  <2> QED BY <2>1, <2>2 DEF SameValues
<1>3. ASSUME NEW x \in B PROVE \E p \in Procs : x \in ToSet(ins[p])
  <2>1. PICK e \in DOMAIN elements[r] : x \in ToSet(RedecompElem(r, e))
    BY DEF Places
  <2>2. PICK p \in Procs : \E k \in 1 .. Len(p2r[p][r]) : e = offsets[r][p] + k
    BY SourceOf
  <2>3. PICK k \in 1 .. Len(p2r[p][r]) : e = offsets[r][p] + k
    BY <2>2
  <2>4. ToSet(RedecompElem(r, e)) \subseteq ToSet(ins[p])
    BY <2>3
  <2> QED BY <2>1, <2>4
<1> HIDE DEF A, B, g
<1>4. DOMAIN f = B
  BY DEF B
<1>5. Fetched(P, B, g, src, A, outs, ins)
  BY <1>1, <1>2, <1>3 DEF Fetched
<1>6. Written(f, ins, [p \in 1 .. P |-> Read(src[p], outs[p])]) = [x \in B |-> g[x]]
  BY <1>1, <1>4, <1>5, Arrives
<1>7. [x \in B |-> g[x]] = g
  BY DEF g, Arrived, B
<1> QED BY <1>1, <1>6, <1>7 DEF g

\* Some rank owns each element.
OwnersHave ==
  \A e \in Elems : \E r \in Procs : \E k \in DOMAIN p2r[home[e]][r] : p2r[home[e]][r][k] = [elem |-> e, ghost |-> FALSE]

\* They bring results back to the parent if they leave no element out that is no ghost, and none that is a
\* ghost sends.
LEMMA ParallelArrives ==
  ASSUME RedecompAssumption, MeshIInv, OwnersHave, Built, NEW p \in Procs, NEW f, DOMAIN f = ParentPlaces(p),
         NEW src, \A r \in Procs : src[r] = ComputedOn(r),
         NEW backs, NEW homes, homes = [r \in Procs |-> homes[r]],
         \A r \in Procs :
           /\ Paired(p, r, homes[r], backs[r])
           /\ \A k \in 1 .. Len(p2r[p][r]) :
                ~p2r[p][r][k].ghost => ToSet(ParentElem(p, p2r[p][r][k].elem)) \subseteq ToSet(homes[r])
           /\ ToSet(backs[r]) \subseteq OwnedPlaces(r)
  PROVE  Written(f, homes, [r \in Procs |-> Read(src[r], backs[r])]) = Returned(p)
<1> DEFINE g == Returned(p)
           A == [r \in Procs |-> Places(r)]
           B == ParentPlaces(p)
<1>1. P \in Nat /\ Procs = 1 .. P
  BY DEF RedecompAssumption, Procs
<1>2. ASSUME NEW r \in Procs
      PROVE  backs[r] \in Seq(A[r]) /\ homes[r] \in Seq(B) /\ SameValues(src[r], backs[r], g, homes[r])
  <2>1. backs[r] \in Seq(Places(r)) /\ homes[r] \in Seq(B) /\ Len(backs[r]) = Len(homes[r])
    BY DEF Paired
  <2>2. ASSUME NEW j \in 1 .. Len(backs[r]) PROVE src[r][backs[r][j]] = g[homes[r][j]]
    <3> HIDE DEF B
    <3>1. backs[r][j] \in Places(r) /\ homes[r][j] \in B /\ j \in DOMAIN backs[r] /\ j \in 1 .. Len(homes[r])
      BY <2>1
    <3>2. backs[r][j] \in OwnedPlaces(r)
      BY <3>1 DEF ToSet
    <3>3. ParentName(p, homes[r][j]) = Name(r, backs[r][j])
      BY <3>1 DEF Paired
    <3>4. src[r][backs[r][j]] = Value("result", Name(r, backs[r][j]))
      BY <3>1, <3>2 DEF ComputedOn
    <3>5. g[homes[r][j]] = Value("result", ParentName(p, homes[r][j]))
      BY <3>1 DEF Returned, B
    <3> QED BY <3>3, <3>4, <3>5
  <2> QED BY <2>1, <2>2 DEF SameValues
<1>3. ASSUME NEW x \in B PROVE \E r \in Procs : x \in ToSet(homes[r])
  <2>1. PICK e \in Elems : home[e] = p /\ x \in ToSet(ParentElem(p, e))
    BY DEF ParentPlaces
  <2>2. PICK r \in Procs : \E k \in DOMAIN p2r[p][r] : p2r[p][r][k] = [elem |-> e, ghost |-> FALSE]
    BY <2>1 DEF OwnersHave
  <2>3. PICK k \in DOMAIN p2r[p][r] : p2r[p][r][k] = [elem |-> e, ghost |-> FALSE]
    BY <2>2
  <2>4. p2r[p][r] \in Seq(Item(p))
    BY DEF MeshIInv, ParentIs
  <2>5. k \in 1 .. Len(p2r[p][r]) /\ p2r[p][r][k].elem = e /\ ~p2r[p][r][k].ghost
    BY <2>3, <2>4
  <2>6. ToSet(ParentElem(p, e)) \subseteq ToSet(homes[r])
    BY <2>5
  <2> QED BY <2>1, <2>6
<1> HIDE DEF A, B, g
<1>4. DOMAIN f = B
  BY DEF B
<1>5. Fetched(P, B, g, src, A, backs, homes)
  BY <1>1, <1>2, <1>3 DEF Fetched
<1>6. Written(f, homes, [r \in 1 .. P |-> Read(src[r], backs[r])]) = [x \in B |-> g[x]]
  BY <1>1, <1>4, <1>5, Arrives
<1>7. [x \in B |-> g[x]] = g
  BY DEF g, Returned, B
<1> QED BY <1>1, <1>6, <1>7 DEF g

\* What every rank receives, as a table.
TableOf(v) == [r \in Procs |-> [p \in Procs |-> v[r][p]] \o <<>>] \o <<>>

LEMMA TablesKept ==
  ASSUME RedecompAssumption, NEW v, v = [r \in Procs |-> [p \in Procs |-> v[r][p]]]
  PROVE  TableOf(v) = v
<1> DEFINE row(r) == [p \in Procs |-> v[r][p]]
           t == [r \in Procs |-> row(r) \o <<>>]
<1>1. P \in Nat /\ Procs = 1 .. P
  BY DEF RedecompAssumption, Procs
<1>2. ASSUME NEW r \in Procs PROVE row(r) \o <<>> = row(r)
  <2> DEFINE s == row(r)
  <2>1. s = [p \in 1 .. P |-> s[p]]
    BY <1>1
  <2> HIDE DEF s, row
  <2>2. s \o <<>> = s
    BY <1>1, <2>1, TableKept
  <2> QED BY <2>2 DEF s
<1> HIDE DEF row
<1>3. t = [r \in 1 .. P |-> t[r]] /\ t = [r \in Procs |-> row(r)]
  BY <1>1, <1>2
<1> HIDE DEF t
<1>4. t \o <<>> = t
  BY <1>1, <1>3, TableKept
<1> QED BY <1>3, <1>4 DEF t, row, TableOf

\* TransferToSerial brings the values of the parent to every place of every rank.
LEMMA SerialFilled ==
  ASSUME TransferAssumption, MeshIInv, Built, method \in Methods, TransferToSerial,
         \A p \in Procs : parentField[p] = GivenTo(p), NEW r \in Procs, DOMAIN field[r] = Places(r)
  PROVE  field'[r] = Arrived(r)
<1>1. RedecompAssumption
  BY DEF TransferAssumption
<1>2. CASE method = "nodes"
  <2> DEFINE outs == [p \in Procs |-> NodesOut(p, r)]
             ins == [p \in Procs |-> NodesIn(r, p)]
             v == [q \in Procs |-> [p \in Procs |-> Read(parentField[p], NodesOut(p, q))]]
  <2>1. method # "quadrature"
    BY <1>2
  <2>2. field' = ToSerial(field, NodesOut, NodesIn)
    BY <1>2 DEF TransferToSerial
  <2>3. Exchanged(LAMBDA p, q : Read(parentField[p], NodesOut(p, q))) = v
    <3>1. v = [q \in Procs |-> [z \in Procs |-> v[q][z]]]
      OBVIOUS
    <3>2. Exchanged(LAMBDA p, q : Read(parentField[p], NodesOut(p, q))) = TableOf(v)
      BY DEF Exchanged, TableOf
    <3> HIDE DEF v
    <3> QED BY <1>1, <3>1, <3>2, TablesKept
  <2>4. v[r] = [p \in Procs |-> Read(parentField[p], outs[p])]
    OBVIOUS
  <2>5. field'[r] = Written(field[r], ins, v[r])
    <3> HIDE DEF v
    <3> QED BY <2>2, <2>3 DEF ToSerial
  <2>6. \A p \in Procs :
           /\ Paired(p, r, outs[p], ins[p])
           /\ \A k \in 1 .. Len(p2r[p][r]) : ToSet(RedecompElem(r, offsets[r][p] + k)) \subseteq ToSet(ins[p])
    BY <2>1, NodesOutIn
  <2>7. ins = [p \in Procs |-> ins[p]]
    OBVIOUS
  <2> HIDE DEF v, outs, ins
  <2>8. Written(field[r], ins, [p \in Procs |-> Read(parentField[p], outs[p])]) = Arrived(r)
    BY <1>1, <2>6, <2>7, SerialArrives
  <2> QED BY <2>4, <2>5, <2>8
<1>3. CASE method # "nodes"
  <2> DEFINE outs == [p \in Procs |-> ElementsOut(p, r)]
             ins == [p \in Procs |-> ElementsIn(r, p)]
             v == [q \in Procs |-> [p \in Procs |-> Read(parentField[p], ElementsOut(p, q))]]
  <2>2. field' = ToSerial(field, ElementsOut, ElementsIn)
    BY <1>3 DEF TransferToSerial
  <2>3. Exchanged(LAMBDA p, q : Read(parentField[p], ElementsOut(p, q))) = v
    <3>1. v = [q \in Procs |-> [z \in Procs |-> v[q][z]]]
      OBVIOUS
    <3>2. Exchanged(LAMBDA p, q : Read(parentField[p], ElementsOut(p, q))) = TableOf(v)
      BY DEF Exchanged, TableOf
    <3> HIDE DEF v
    <3> QED BY <1>1, <3>1, <3>2, TablesKept
  <2>4. v[r] = [p \in Procs |-> Read(parentField[p], outs[p])]
    OBVIOUS
  <2>5. field'[r] = Written(field[r], ins, v[r])
    <3> HIDE DEF v
    <3> QED BY <2>2, <2>3 DEF ToSerial
  <2>6. \A p \in Procs :
           /\ Paired(p, r, outs[p], ins[p])
           /\ \A k \in 1 .. Len(p2r[p][r]) : ToSet(RedecompElem(r, offsets[r][p] + k)) \subseteq ToSet(ins[p])
    BY ElementsOutIn
  <2>7. ins = [p \in Procs |-> ins[p]]
    OBVIOUS
  <2> HIDE DEF v, outs, ins
  <2>8. Written(field[r], ins, [p \in Procs |-> Read(parentField[p], outs[p])]) = Arrived(r)
    BY <1>1, <2>6, <2>7, SerialArrives
  <2> QED BY <2>4, <2>5, <2>8
<1> QED BY <1>2, <1>3

\* TransferToParallel brings a result to every place of the parent.
LEMMA ParallelFilled ==
  ASSUME TransferAssumption, MeshIInv, OwnersHave, Built, method \in Methods, TransferToParallel,
         \A r \in Procs : field[r] = ComputedOn(r), NEW p \in Procs, DOMAIN parentField[p] = ParentPlaces(p)
  PROVE  parentField'[p] = Returned(p)
<1>1. RedecompAssumption
  BY DEF TransferAssumption
<1>2. CASE method = "nodes"
  <2> DEFINE backs == [r \in Procs |-> NodesBack(r, p)]
             homes == [r \in Procs |-> NodesHome(p, r)]
             v == [q \in Procs |-> [r \in Procs |-> Read(field[r], NodesBack(r, q))]]
  <2>1. method # "quadrature"
    BY <1>2
  <2>2. parentField' = ToParallel(parentField, NodesBack, NodesHome)
    BY <1>2 DEF TransferToParallel
  <2>3. Exchanged(LAMBDA r, q : Read(field[r], NodesBack(r, q))) = v
    <3>1. v = [q \in Procs |-> [z \in Procs |-> v[q][z]]]
      OBVIOUS
    <3>2. Exchanged(LAMBDA r, q : Read(field[r], NodesBack(r, q))) = TableOf(v)
      BY DEF Exchanged, TableOf
    <3> HIDE DEF v
    <3> QED BY <1>1, <3>1, <3>2, TablesKept
  <2>4. v[p] = [r \in Procs |-> Read(field[r], backs[r])]
    OBVIOUS
  <2>5. parentField'[p] = Written(parentField[p], homes, v[p])
    <3> HIDE DEF v
    <3> QED BY <2>2, <2>3 DEF ToParallel
  <2>6. \A r \in Procs :
           /\ Paired(p, r, homes[r], backs[r])
           /\ \A k \in 1 .. Len(p2r[p][r]) :
                ~p2r[p][r][k].ghost => ToSet(ParentElem(p, p2r[p][r][k].elem)) \subseteq ToSet(homes[r])
           /\ ToSet(backs[r]) \subseteq OwnedPlaces(r)
    BY <2>1, NodesBackHome
  <2>7. homes = [r \in Procs |-> homes[r]]
    OBVIOUS
  <2> HIDE DEF v, backs, homes
  <2>8. Written(parentField[p], homes, [r \in Procs |-> Read(field[r], backs[r])]) = Returned(p)
    BY <1>1, <2>6, <2>7, ParallelArrives
  <2> QED BY <2>4, <2>5, <2>8
<1>3. CASE method # "nodes"
  <2> DEFINE backs == [r \in Procs |-> ElementsBack(r, p)]
             homes == [r \in Procs |-> ElementsHome(p, r)]
             v == [q \in Procs |-> [r \in Procs |-> Read(field[r], ElementsBack(r, q))]]
  <2>2. parentField' = ToParallel(parentField, ElementsBack, ElementsHome)
    BY <1>3 DEF TransferToParallel
  <2>3. Exchanged(LAMBDA r, q : Read(field[r], ElementsBack(r, q))) = v
    <3>1. v = [q \in Procs |-> [z \in Procs |-> v[q][z]]]
      OBVIOUS
    <3>2. Exchanged(LAMBDA r, q : Read(field[r], ElementsBack(r, q))) = TableOf(v)
      BY DEF Exchanged, TableOf
    <3> HIDE DEF v
    <3> QED BY <1>1, <3>1, <3>2, TablesKept
  <2>4. v[p] = [r \in Procs |-> Read(field[r], backs[r])]
    OBVIOUS
  <2>5. parentField'[p] = Written(parentField[p], homes, v[p])
    <3> HIDE DEF v
    <3> QED BY <2>2, <2>3 DEF ToParallel
  <2>6. \A r \in Procs :
           /\ Paired(p, r, homes[r], backs[r])
           /\ \A k \in 1 .. Len(p2r[p][r]) :
                ~p2r[p][r][k].ghost => ToSet(ParentElem(p, p2r[p][r][k].elem)) \subseteq ToSet(homes[r])
           /\ ToSet(backs[r]) \subseteq OwnedPlaces(r)
    BY ElementsBackHome
  <2>7. homes = [r \in Procs |-> homes[r]]
    OBVIOUS
  <2> HIDE DEF v, backs, homes
  <2>8. Written(parentField[p], homes, [r \in Procs |-> Read(field[r], backs[r])]) = Returned(p)
    BY <1>1, <2>6, <2>7, ParallelArrives
  <2> QED BY <2>4, <2>5, <2>8
<1> QED BY <1>2, <1>3

-----------------------------------------------------------------------------
(* The invariant. *)

\* The partitioner gives every element an owner.
LEMMA OwnersAtFirst == ASSUME RedecompAssumption, MeshInit PROVE OwnersHave
<1>1. PICK x \in Assignments : home = x.home /\ p2r = P2RElementList(x)
  BY DEF MeshInit
<1>2. SUFFICES ASSUME NEW e \in Elems
               PROVE  \E r \in Procs : \E k \in DOMAIN p2r[home[e]][r] : p2r[home[e]][r][k] = [elem |-> e, ghost |-> FALSE]
  BY DEF OwnersHave
<1> DEFINE p == x.home[e]
           r == x.own[e]
           S == {y \in Elems : x.home[y] = p /\ (x.own[y] = r \/ r \in x.ghosts[y])}
           a == Ascending(S)
           t == [k \in DOMAIN a |-> [elem |-> a[k], ghost |-> x.own[a[k]] # r]]
<1>3. p \in Procs /\ r \in Procs /\ home[e] = p /\ e \in S
  BY <1>1 DEF RedecompAssumption
<1>4. S \subseteq Nat /\ IsFiniteSet(S)
  <2>1. S \subseteq Elems
    OBVIOUS
  <2> QED BY <2>1, FS_Subset DEF RedecompAssumption
<1>5. p2r[p][r] = t \o <<>>
  BY <1>1, <1>3 DEF P2RElementList, Map
<1> HIDE DEF S
<1>6. a \in Seq(S) /\ \E k \in DOMAIN a : a[k] = e
  BY <1>3, <1>4, AscendingIs
<1> HIDE DEF a
<1>7. Len(a) \in Nat /\ DOMAIN a = 1 .. Len(a)
  BY <1>6
<1>8. PICK k \in 1 .. Len(a) : a[k] = e
  BY <1>6, <1>7
<1>9. t = [j \in 1 .. Len(a) |-> t[j]] /\ t[k] = [elem |-> e, ghost |-> FALSE]
  BY <1>7, <1>8
<1> HIDE DEF t
<1>10. t \o <<>> = t /\ DOMAIN t = 1 .. Len(a)
  BY <1>7, <1>9, TableKept
<1> HIDE DEF p, r
<1>11. k \in DOMAIN p2r[p][r] /\ p2r[p][r][k] = [elem |-> e, ghost |-> FALSE]
  BY <1>5, <1>8, <1>9, <1>10
<1> QED BY <1>3, <1>11

\* What the fields hold between two steps.
FieldsBetween ==
  /\ stage # "idle" => Built /\ method \in Methods
  /\ stage \in {"filled", "serial", "computed"} => \A p \in Procs : parentField[p] = GivenTo(p)
  /\ stage = "filled" => \A r \in Procs : DOMAIN field[r] = Places(r)
  /\ stage = "serial" => \A r \in Procs : field[r] = Arrived(r)
  /\ stage = "computed" => \A r \in Procs : field[r] = ComputedOn(r)
  /\ stage = "parallel" => \A p \in Procs : parentField[p] = Returned(p)

TransferIInv == MeshIInv /\ OwnersHave /\ FieldsBetween

\* As long as the mesh stays, so do its places and their names.
LEMMA PlacesStay ==
  ASSUME UNCHANGED <<meshVars, method>>
  PROVE  /\ \A p \in Procs : GivenTo(p)' = GivenTo(p) /\ Returned(p)' = Returned(p)
         /\ \A r \in Procs : Places(r)' = Places(r) /\ Arrived(r)' = Arrived(r) /\ ComputedOn(r)' = ComputedOn(r)
         /\ Built' = Built
<1> USE DEF meshVars
<1>1. \A p : ParentPlaces(p)' = ParentPlaces(p)
  <2>1. \A p, e : GetElementDofs(p, e)' = GetElementDofs(p, e)
    BY DEF GetElementDofs, Map
  <2>2. \A p, e : ParentElem(p, e)' = ParentElem(p, e)
    BY <2>1 DEF ParentElem, PlacesOf
  <2> QED BY <2>2 DEF ParentPlaces
<1>2. \A p, x : ParentName(p, x)' = ParentName(p, x)
  BY DEF ParentName, GetGlobalTDofNumber
<1>3. \A r : Places(r)' = Places(r)
  BY DEF Places, RedecompElem, PlacesOf
<1>4. \A r, x : Name(r, x)' = Name(r, x)
  BY DEF Name
<1>5. \A r : OwnedPlaces(r)' = OwnedPlaces(r)
  BY DEF OwnedPlaces, RedecompElem, PlacesOf, IsGhost
<1>6. \A p \in Procs : GivenTo(p)' = GivenTo(p) /\ Returned(p)' = Returned(p)
  BY <1>1, <1>2 DEF GivenTo, Returned
<1>7. \A r \in Procs : Arrived(r)' = Arrived(r) /\ ComputedOn(r)' = ComputedOn(r)
  BY <1>3, <1>4, <1>5 DEF Arrived, ComputedOn
<1> QED BY <1>3, <1>6, <1>7 DEF Built

\* A step of the transfers on a mesh that stays.
LEMMA FieldsStep ==
  ASSUME TransferAssumption, TransferIInv, Transfers, UNCHANGED meshVars
  PROVE  FieldsBetween'
<1> USE DEF TransferIInv
<1>1. CASE Construct
  BY <1>1 DEF Construct, FieldsBetween, Built, meshVars
<1>2. CASE NewFields
  <2>1. UNCHANGED <<meshVars, method>> /\ stage = "constructed" /\ stage' = "filled"
    BY <1>2 DEF NewFields
  <2>2. Built' /\ method' \in Methods
    BY <2>1, PlacesStay DEF FieldsBetween
  <2>3. \A p \in Procs : parentField'[p] = GivenTo(p)
    BY <1>2 DEF NewFields, GivenTo
  <2>4. \A r \in Procs : DOMAIN field'[r] = Places(r)
    BY <1>2 DEF NewFields
  <2>5. \A p \in Procs : parentField'[p] = GivenTo(p)'
    BY <2>1, <2>3, PlacesStay
  <2>6. \A r \in Procs : DOMAIN field'[r] = Places(r)'
    BY <2>1, <2>4, PlacesStay
  <2> QED BY <2>1, <2>2, <2>5, <2>6 DEF FieldsBetween
<1>3. CASE TransferToSerial
  <2>1. UNCHANGED <<meshVars, method, parentField>> /\ stage = "filled" /\ stage' = "serial"
    BY <1>3 DEF TransferToSerial
  <2>2. /\ Built /\ method \in Methods
        /\ \A p \in Procs : parentField[p] = GivenTo(p)
        /\ \A r \in Procs : DOMAIN field[r] = Places(r)
    BY <2>1 DEF FieldsBetween
  <2>3. \A r \in Procs : field'[r] = Arrived(r)
    BY <1>3, <2>2, SerialFilled
  <2>4. \A r \in Procs : field'[r] = Arrived(r)'
    BY <2>1, <2>3, PlacesStay
  <2>5. Built' /\ method' \in Methods /\ \A p \in Procs : parentField'[p] = GivenTo(p)'
    BY <2>1, <2>2, PlacesStay
  <2> QED BY <2>1, <2>4, <2>5 DEF FieldsBetween
<1>4. CASE Compute
  <2>1. UNCHANGED <<meshVars, method, parentField>> /\ stage = "serial" /\ stage' = "computed"
    BY <1>4 DEF Compute
  <2>2. Built /\ method \in Methods /\ \A p \in Procs : parentField[p] = GivenTo(p)
    BY <2>1 DEF FieldsBetween
  <2>3. \A r \in Procs : field'[r] = ComputedOn(r)
    BY <1>4 DEF Compute, ComputedOn
  <2>4. \A r \in Procs : field'[r] = ComputedOn(r)'
    BY <2>1, <2>3, PlacesStay
  <2>5. Built' /\ method' \in Methods /\ \A p \in Procs : parentField'[p] = GivenTo(p)'
    BY <2>1, <2>2, PlacesStay
  <2> QED BY <2>1, <2>4, <2>5 DEF FieldsBetween
<1>5. CASE TransferToParallel
  <2>1. UNCHANGED <<meshVars, method, field>> /\ stage = "computed" /\ stage' = "parallel"
    BY <1>5 DEF TransferToParallel
  <2>2. /\ Built /\ method \in Methods
        /\ \A p \in Procs : parentField[p] = GivenTo(p)
        /\ \A r \in Procs : field[r] = ComputedOn(r)
    BY <2>1 DEF FieldsBetween
  <2>3. \A p \in Procs : DOMAIN parentField[p] = ParentPlaces(p)
    BY <2>2 DEF GivenTo
  <2>4. \A p \in Procs : parentField'[p] = Returned(p)
    BY <1>5, <2>2, <2>3, ParallelFilled
  <2>5. \A p \in Procs : parentField'[p] = Returned(p)'
    BY <2>1, <2>4, PlacesStay
  <2>6. Built' /\ method' \in Methods
    BY <2>1, <2>2, PlacesStay
  <2> QED BY <2>1, <2>5, <2>6 DEF FieldsBetween
<1> QED BY <1>1, <1>2, <1>3, <1>4, <1>5 DEF Transfers

\* No step changes what the partitioner did.
LEMMA OwnersStay == ASSUME OwnersHave, [TransferNext]_<<meshVars, transferVars>> PROVE OwnersHave'
<1>1. UNCHANGED <<home, p2r>>
  BY DEF TransferNext, BuildRedecomp, NumberVertices, SendVertices, PutVertices, CreateElements, FillOffsets, FillGhosts, meshVars
<1> QED BY <1>1 DEF OwnersHave

\* RedecompTransfer for any parent mesh, ranks, partition and number of components, and for fields of all
\* kinds: on the way there every place of every rank's mesh, ghosts included, gets the value of its place in
\* the parent; on the way back every copy of every place of the parent gets a result, never a partial one.
THEOREM AnyFieldsArrive == ASSUME TransferAssumption PROVE TransferSpec => []FieldsArrive
<1>1. RedecompAssumption
  BY DEF TransferAssumption
<1>2. MeshInit /\ TransferInit => TransferIInv
  <2> SUFFICES ASSUME MeshInit, TransferInit PROVE TransferIInv
    OBVIOUS
  <2>1. MeshIInv /\ OwnersHave
    BY <1>1, MeshInitially, OwnersAtFirst
  <2>2. FieldsBetween
    BY DEF TransferInit, FieldsBetween
  <2> QED BY <2>1, <2>2 DEF TransferIInv
<1>3. TransferIInv /\ [TransferNext]_<<meshVars, transferVars>> => TransferIInv'
  <2> SUFFICES ASSUME TransferIInv, [TransferNext]_<<meshVars, transferVars>> PROVE TransferIInv'
    OBVIOUS
  <2>1. [BuildRedecomp]_meshVars
    BY DEF TransferNext
  <2>2. MeshIInv'
    BY <1>1, <2>1, MeshStep DEF TransferIInv
  <2>3. OwnersHave'
    BY OwnersStay DEF TransferIInv
  <2>4. FieldsBetween'
    <3>1. CASE BuildRedecomp /\ UNCHANGED transferVars
      <4>1. done # "built"
        BY <3>1 DEF BuildRedecomp, NumberVertices, SendVertices, PutVertices, CreateElements, FillOffsets, FillGhosts
      <4>2. stage = "idle" /\ stage' = "idle"
        BY <3>1, <4>1 DEF TransferIInv, FieldsBetween, Built, transferVars
      <4> QED BY <4>2 DEF FieldsBetween
    <3>2. CASE Transfers /\ UNCHANGED meshVars
      BY <3>2, FieldsStep
    <3>3. CASE UNCHANGED <<meshVars, transferVars>>
      <4>1. UNCHANGED <<meshVars, method>> /\ UNCHANGED <<field, parentField, stage>>
        BY <3>3 DEF transferVars
      <4> QED BY <4>1, PlacesStay DEF TransferIInv, FieldsBetween
    <3> QED BY <3>1, <3>2, <3>3 DEF TransferNext
  <2> QED BY <2>2, <2>3, <2>4 DEF TransferIInv
<1>4. TransferIInv => FieldsArrive
  <2> SUFFICES ASSUME TransferIInv PROVE FieldsArrive
    OBVIOUS
  <2>1. SerialHasParentValues
    BY DEF TransferIInv, FieldsBetween, SerialHasParentValues, Arrived
  <2>2. ParentHasResults
    BY DEF TransferIInv, FieldsBetween, ParentHasResults, Returned
  <2> QED BY <2>1, <2>2 DEF FieldsArrive
<1> QED BY <1>2, <1>3, <1>4, PTL DEF TransferSpec

=============================================================================
