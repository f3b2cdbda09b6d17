------------------------ MODULE MatrixTransfer_proofs ------------------------
(***************************************************************************)
(* Proofs about MatrixTransfer: the contributions of all ranks arrive in   *)
(* the matrix of the parent, dense or sparse, each once and at its place,  *)
(* for any parent mesh, ranks and partition, and the pairs they compute.   *)
(*                                                                         *)
(* Entries travel as lists without names: arrays are cut by the dofs they  *)
(* are read with, and columns are renumbered on arrival.  What is wanted   *)
(* of a list is that it has every element of a set, and each once (Lists); *)
(* lists that are mapped, cut, joined and sorted are followed so.          *)
(*                                                                         *)
(* Dense: what a rank sends are the values of the pairs whose test element *)
(* is its own (no ghost), and the receiver takes them apart in step with   *)
(* the dofs of test and trial elements.  So the entries it makes are       *)
(* OwnedEntries, each once; adding them up entry by entry (DenseArrives)   *)
(* and merging sorted triplets into compressed rows (FlatArrives) both     *)
(* give OwnedSums.                                                         *)
(*                                                                         *)
(* Sparse: rows are sent to the rank of their element, named by element    *)
(* offsets, and arrive as cells of a row, a column and the column's rank.  *)
(* Columns of the receiver's own elements and the others split what        *)
(* arrives; the column map lists the others in increasing order, each      *)
(* once, so a column found in it is the column sent (SparseArrives).       *)
(*                                                                         *)
(* MatrixIInv adds to MeshIInv that a rank of the parent sends an element  *)
(* to a rank once, that elements are known to be of the rank they came     *)
(* from, ghosts of none, and that each rank lists a pair once.             *)
(***************************************************************************)
EXTENDS MatrixTransfer, Redecomp_proofs, SequenceTheorems

-----------------------------------------------------------------------------
(* Lists of the elements of a set. *)

\* s has every element of X, and has it once.
Lists(s, X) ==
  /\ s \in Seq(X)
  /\ \A x \in X : \E k \in 1 .. Len(s) : s[k] = x
  /\ \A i, j \in 1 .. Len(s) : s[i] = s[j] => i = j

\* Then X is finite, and s as long as X is large.
LEMMA ListsCount ==
  ASSUME NEW s, NEW X, Lists(s, X)
  PROVE  IsFiniteSet(X) /\ Cardinality(X) = Len(s) /\ Len(s) \in Nat
<1>1. Len(s) \in Nat /\ s \in [1 .. Len(s) -> X]
  BY DEF Lists
<1>2. s \in Bijection(1 .. Len(s), X)
  BY <1>1 DEF Lists, Bijection, Injection, IsInjective, Surjection
<1>3. IsFiniteSet(1 .. Len(s)) /\ Cardinality(1 .. Len(s)) = Len(s)
  <2>1. 1 \in Int /\ Len(s) \in Int
    BY <1>1
  <2>2. IsFiniteSet(1 .. Len(s)) /\ Cardinality(1 .. Len(s)) = IF 1 > Len(s) THEN 0 ELSE Len(s) - 1 + 1
    BY <2>1, FS_Interval
  <2> QED BY <1>1, <2>2
<1>4. ExistsBijection(1 .. Len(s), X)
  BY <1>2 DEF ExistsBijection
<1> QED BY <1>1, <1>3, <1>4, FS_Bijection

\* R puts any two elements of S in an order.
Orders(R, S) ==
  /\ \A x \in S : <<x, x>> \notin R
  /\ \A x, y \in S : x # y => <<x, y>> \in R \/ <<y, x>> \in R
  /\ \A x, y, z \in S : <<x, y>> \in R /\ <<y, z>> \in R => <<x, z>> \in R
Before(R, S, x) == {y \in S : <<y, x>> \in R}
Ranks(R, S) == [x \in S |-> Cardinality(Before(R, S, x))]

\* The number of elements before one tells where it is.
LEMMA RanksAre ==
  ASSUME NEW S, IsFiniteSet(S), NEW R, Orders(R, S)
  PROVE  /\ Cardinality(S) \in Nat
         /\ Ranks(R, S) \in [S -> 0 .. Cardinality(S) - 1]
         /\ \A x, y \in S : Ranks(R, S)[x] = Ranks(R, S)[y] => x = y
         /\ \A k \in 1 .. Cardinality(S) : \E x \in S : Ranks(R, S)[x] = k - 1
<1> DEFINE n == Cardinality(S)
           f == [x \in S |-> Cardinality(Before(R, S, x))]
<1>1. n \in Nat
  BY FS_CardinalityType
<1>2. \A x \in S : IsFiniteSet(Before(R, S, x)) /\ f[x] \in Nat
  <2> SUFFICES ASSUME NEW x \in S PROVE IsFiniteSet(Before(R, S, x)) /\ Cardinality(Before(R, S, x)) \in Nat
    OBVIOUS
  <2>1. Before(R, S, x) \in SUBSET S
    BY DEF Before
  <2>2. IsFiniteSet(Before(R, S, x))
    BY <2>1, FS_Subset
  <2> QED BY <2>2, FS_CardinalityType
<1>3. ASSUME NEW x \in S, NEW y \in S, <<x, y>> \in R PROVE f[x] < f[y]
  <2>1. Before(R, S, x) \in SUBSET Before(R, S, y) /\ x \in Before(R, S, y) /\ x \notin Before(R, S, x)
    BY <1>3 DEF Before, Orders
  <2>2. Cardinality(Before(R, S, x)) <= Cardinality(Before(R, S, y))
        /\ Cardinality(Before(R, S, x)) # Cardinality(Before(R, S, y))
    BY <1>2, <2>1, FS_Subset
  <2>3. f[x] <= f[y] /\ f[x] # f[y]
    BY <2>2
  <2> QED BY <1>2, <2>3
<1>4. \A x \in S : f[x] \in 0 .. n - 1
  <2> SUFFICES ASSUME NEW x \in S PROVE f[x] < n
    BY <1>1, <1>2
  <2>1. Before(R, S, x) \in SUBSET S /\ Before(R, S, x) # S
    BY DEF Before, Orders
  <2>2. Cardinality(Before(R, S, x)) <= n /\ Cardinality(Before(R, S, x)) # n
    BY <2>1, FS_Subset
  <2> QED BY <1>1, <1>2, <2>2
<1>5. \A x, y \in S : f[x] = f[y] => x = y
  <2> SUFFICES ASSUME NEW x \in S, NEW y \in S, x # y PROVE f[x] # f[y]
    OBVIOUS
  <2>1. <<x, y>> \in R \/ <<y, x>> \in R
    BY DEF Orders
  <2> QED BY <1>2, <1>3, <2>1
<1>6. f \in Injection(S, 0 .. n - 1)
  <2>1. f \in [S -> 0 .. n - 1]
    BY <1>4
  <2> QED BY <1>5, <2>1 DEF Injection, IsInjective
<1>7. IsFiniteSet(0 .. n - 1) /\ Cardinality(0 .. n - 1) = n
  <2>1. 0 \in Int /\ n - 1 \in Int
    BY <1>1
  <2>2. IsFiniteSet(0 .. n - 1) /\ Cardinality(0 .. n - 1) = IF 0 > n - 1 THEN 0 ELSE n - 1 - 0 + 1
    BY <2>1, FS_Interval
  <2> HIDE DEF n
  <2> QED BY <1>1, <2>2
<1>8. f \in Surjection(S, 0 .. n - 1)
  BY <1>6, <1>7, FS_Injection
<1>9. \A k \in 1 .. n : \E x \in S : f[x] = k - 1
  <2> SUFFICES ASSUME NEW k \in 1 .. n PROVE \E x \in S : f[x] = k - 1
    OBVIOUS
  <2>1. k - 1 \in 0 .. n - 1
    BY <1>1
  <2> QED BY <1>8, <2>1 DEF Surjection
<1>10. f \in [S -> 0 .. n - 1]
  BY <1>4
<1> QED BY <1>1, <1>5, <1>9, <1>10 DEF n, Ranks

\* So a table of the elements by their ranks lists them.
LEMMA RankedLists ==
  ASSUME NEW S, IsFiniteSet(S), NEW R, Orders(R, S), NEW t, t = [k \in 1 .. Cardinality(S) |-> t[k]],
         \A k \in 1 .. Cardinality(S) : t[k] \in S /\ Ranks(R, S)[t[k]] = k - 1
  PROVE  t \o <<>> = t /\ Lists(t, S) /\ Len(t) = Cardinality(S)
<1> DEFINE n == Cardinality(S)
           f == Ranks(R, S)
<1>1. /\ n \in Nat /\ (\A x \in S : f[x] \in 0 .. n - 1)
      /\ (\A x, y \in S : f[x] = f[y] => x = y)
  BY RanksAre
<1>2. t \in Seq(S) /\ Len(t) = n /\ t \o <<>> = t
  BY <1>1, TableIs
<1> HIDE DEF n, f
<1>3. ASSUME NEW x \in S PROVE \E k \in 1 .. n : t[k] = x
  <2>1. PICK k : k = f[x] + 1
    OBVIOUS
  <2>2. k \in 1 .. n /\ k - 1 = f[x]
    BY <1>1, <2>1
  <2>3. t[k] \in S /\ f[t[k]] = k - 1
    BY <2>2 DEF n, f
  <2> QED BY <1>1, <2>2, <2>3
<1>4. ASSUME NEW i \in 1 .. n, NEW j \in 1 .. n, t[i] = t[j] PROVE i = j
  <2>1. f[t[i]] = i - 1 /\ f[t[j]] = j - 1
    BY DEF n, f
  <2> QED BY <1>1, <1>4, <2>1
<1> QED BY <1>2, <1>3, <1>4 DEF Lists, n

\* Numbers in ascending order: where each is, and that they ascend.
LEMMA AscendingLists ==
  ASSUME NEW S, S \subseteq Nat, IsFiniteSet(S)
  PROVE  /\ Lists(Ascending(S), S) /\ Len(Ascending(S)) = Cardinality(S)
         /\ \A k \in 1 .. Len(Ascending(S)) : Cardinality(Below(S, Ascending(S)[k])) = k - 1
         /\ \A i, j \in 1 .. Len(Ascending(S)) : i < j => Ascending(S)[i] < Ascending(S)[j]
<1> DEFINE n == Cardinality(S)
           R == {x \in S \X S : x[1] < x[2]}
           f == Ranks(R, S)
           pick(k) == CHOOSE x \in S : Cardinality({y \in S : y < x}) = k - 1
           t == [k \in 1 .. n |-> pick(k)]
<1>1. Orders(R, S)
  <2>1. \A x, y \in S : <<x, y>> \in R <=> x < y
    OBVIOUS
  <2>2. \A x \in S : x \in Nat
    OBVIOUS
  <2> HIDE DEF R
  <2> QED BY <2>1, <2>2 DEF Orders
<1>2. \A x \in S : Before(R, S, x) = {y \in S : y < x} /\ Before(R, S, x) = Below(S, x)
  BY DEF Before, Below
<1> HIDE DEF R
<1>3. (\A k \in 1 .. n : \E x \in S : f[x] = k - 1) /\ \A x \in S : f[x] = Cardinality(Below(S, x))
  <2>1. \A k \in 1 .. n : \E x \in S : f[x] = k - 1
    BY <1>1, RanksAre
  <2> QED BY <1>2, <2>1 DEF Ranks
<1> HIDE DEF f
<1>4. \A k \in 1 .. n : t[k] \in S /\ f[t[k]] = k - 1
  <2> SUFFICES ASSUME NEW k \in 1 .. n PROVE pick(k) \in S /\ f[pick(k)] = k - 1
    OBVIOUS
  <2>1. \E x \in S : Cardinality({y \in S : y < x}) = k - 1
    BY <1>3 DEF Below
  <2>2. pick(k) \in S /\ Cardinality({y \in S : y < pick(k)}) = k - 1
    BY <2>1
  <2> HIDE DEF pick
  <2> QED BY <1>3, <2>2 DEF Below
<1>5. Ascending(S) = t \o <<>>
  BY DEF Ascending, Sorted
<1>6. t = [k \in 1 .. n |-> t[k]]
  <2> HIDE DEF pick, n
  <2> QED OBVIOUS
<1> HIDE DEF t
<1>7. t \o <<>> = t /\ Lists(t, S) /\ Len(t) = n
  <2>1. \A k \in 1 .. n : t[k] \in S /\ Ranks(R, S)[t[k]] = k - 1
    BY <1>4 DEF f
  <2> QED BY <1>1, <1>6, <2>1, RankedLists
<1>8. \A k \in 1 .. n : t[k] \in S /\ Cardinality(Below(S, t[k])) = k - 1
  BY <1>3, <1>4
<1>9. n \in Nat
  BY FS_CardinalityType
<1> HIDE DEF n
<1>10. ASSUME NEW i \in 1 .. n, NEW j \in 1 .. n, i < j PROVE t[i] < t[j]
  <2> SUFFICES ASSUME ~(t[i] < t[j]) PROVE FALSE
    OBVIOUS
  <2>1. t[i] \in Nat /\ t[j] \in Nat /\ t[j] <= t[i]
    <3>1. t[i] \in S /\ t[j] \in S
      BY <1>8
    <3>2. \A x, y \in S : x \in Nat /\ (~(x < y) => y <= x)
      OBVIOUS
    <3> QED BY <3>1, <3>2
  <2>2. Below(S, t[j]) \in SUBSET Below(S, t[i]) /\ IsFiniteSet(Below(S, t[i]))
    <3>1. Below(S, t[i]) \in SUBSET S
      BY DEF Below
    <3>2. \A y \in S : y \in Nat
      OBVIOUS
    <3>3. ASSUME NEW y \in S, y < t[j] PROVE y < t[i]
      BY <2>1, <3>2, <3>3
    <3>4. Below(S, t[j]) \in SUBSET Below(S, t[i])
      BY <3>3 DEF Below
    <3> QED BY <3>1, <3>4, FS_Subset
  <2>3. Cardinality(Below(S, t[j])) <= Cardinality(Below(S, t[i]))
    BY <2>2, FS_Subset
  <2>4. j - 1 <= i - 1
    BY <1>8, <2>3
  <2> QED BY <1>9, <1>10, <2>4
<1> QED BY <1>5, <1>7, <1>8, <1>10 DEF n

\* The indices that pass a test, in order.
LEMMA PlacesAscend ==
  ASSUME NEW T, NEW s \in Seq(T), NEW K, K \subseteq DOMAIN s
  PROVE  /\ IsFiniteSet(K) /\ K \subseteq Nat /\ K \subseteq 1 .. Len(s) /\ Len(s) \in Nat
         /\ Lists(Ascending(K), K) /\ Len(Ascending(K)) \in Nat
<1>1. K \subseteq 1 .. Len(s) /\ Len(s) \in Nat /\ K \subseteq Nat
  OBVIOUS
<1>2. IsFiniteSet(1 .. Len(s))
  BY <1>1, FS_Interval
<1>3. IsFiniteSet(K)
  BY <1>1, <1>2, FS_Subset
<1>4. Lists(Ascending(K), K)
  BY <1>1, <1>3, AscendingLists
<1>5. Len(Ascending(K)) \in Nat
  BY <1>4, ListsCount
<1> QED BY <1>1, <1>3, <1>4, <1>5

\* What passes a test, in order.
LEMMA TakenIs ==
  ASSUME NEW T, NEW s \in Seq(T), NEW K, K \subseteq DOMAIN s
  PROVE  /\ Taken(s, K) \in Seq(T) /\ Len(Taken(s, K)) = Len(Ascending(K)) /\ Len(Ascending(K)) \in Nat
         /\ \A i \in 1 .. Len(Ascending(K)) : Ascending(K)[i] \in K /\ Taken(s, K)[i] = s[Ascending(K)[i]]
<1> DEFINE a == Ascending(K)
           t == [i \in DOMAIN a |-> s[a[i]]]
<1>1. K \subseteq 1 .. Len(s) /\ Lists(a, K) /\ Len(a) \in Nat
  BY PlacesAscend
<1>2. Taken(s, K) = t \o <<>>
  BY DEF Taken, Map
<1> HIDE DEF a
<1>3. DOMAIN a = 1 .. Len(a) /\ \A i \in 1 .. Len(a) : a[i] \in K
  <2>1. a \in Seq(K)
    BY <1>1 DEF Lists
  <2> QED BY <2>1
<1>4. \A i \in 1 .. Len(a) : s[a[i]] \in T
  <2> SUFFICES ASSUME NEW i \in 1 .. Len(a) PROVE s[a[i]] \in T
    OBVIOUS
  <2>1. PICK k : k = a[i]
    OBVIOUS
  <2>2. k \in 1 .. Len(s)
    BY <1>1, <1>3, <2>1
  <2> QED BY <2>1, <2>2
<1>5. t = [i \in 1 .. Len(a) |-> t[i]] /\ \A i \in 1 .. Len(a) : t[i] = s[a[i]] /\ t[i] \in T
  BY <1>3, <1>4
<1> HIDE DEF t
<1>6. t \in Seq(T) /\ Len(t) = Len(a) /\ t \o <<>> = t
  BY <1>1, <1>5, TableIs
<1> QED BY <1>1, <1>2, <1>3, <1>5, <1>6 DEF a

\* Of a list it is a list.
LEMMA TakenLists ==
  ASSUME NEW s, NEW X, Lists(s, X), NEW K, K \subseteq DOMAIN s
  PROVE  Lists(Taken(s, K), {s[k] : k \in K})
<1> DEFINE a == Ascending(K)
           Y == {s[k] : k \in K}
           t == Taken(s, K)
<1>1. s \in Seq(X) /\ \A i, j \in 1 .. Len(s) : s[i] = s[j] => i = j
  BY DEF Lists
<1>2. K \subseteq 1 .. Len(s) /\ Lists(a, K) /\ Len(a) \in Nat
  BY <1>1, PlacesAscend
<1>3. t \in Seq(X) /\ Len(t) = Len(a) /\ \A i \in 1 .. Len(a) : a[i] \in K /\ t[i] = s[a[i]]
  BY <1>1, TakenIs
<1> HIDE DEF a, t
<1>4. t \in Seq(Y)
  <2>1. \A i \in 1 .. Len(t) : t[i] \in Y
    BY <1>3
  <2> HIDE DEF Y
  <2> QED BY <1>3, <2>1
<1>5. ASSUME NEW y \in Y PROVE \E i \in 1 .. Len(t) : t[i] = y
  <2>1. PICK k \in K : y = s[k]
    OBVIOUS
  <2>2. PICK i \in 1 .. Len(a) : a[i] = k
    BY <1>2 DEF Lists
  <2> QED BY <1>3, <2>1, <2>2
<1>6. ASSUME NEW i \in 1 .. Len(t), NEW j \in 1 .. Len(t), t[i] = t[j] PROVE i = j
  <2>1. i \in 1 .. Len(a) /\ j \in 1 .. Len(a)
    BY <1>3
  <2>2. a[i] \in K /\ a[j] \in K /\ s[a[i]] = s[a[j]]
    BY <1>3, <1>6, <2>1
  <2>3. a[i] = a[j]
    BY <1>1, <1>2, <2>2
  <2> QED BY <1>2, <2>1, <2>3 DEF Lists
<1> QED BY <1>4, <1>5, <1>6 DEF Lists, t, Y

\* A list under a function that keeps elements apart.
LEMMA ImageLists ==
  ASSUME NEW s, NEW X, Lists(s, X), NEW g, \A x, y \in X : g[x] = g[y] => x = y,
         NEW t, t = [k \in 1 .. Len(s) |-> t[k]], \A k \in 1 .. Len(s) : t[k] = g[s[k]]
  PROVE  t \o <<>> = t /\ Lists(t, {g[x] : x \in X}) /\ Len(t) = Len(s)
<1> DEFINE Y == {g[x] : x \in X}
<1>1. s \in Seq(X) /\ Len(s) \in Nat /\ \A k \in 1 .. Len(s) : s[k] \in X
  BY DEF Lists
<1>2. \A k \in 1 .. Len(s) : t[k] \in Y
  BY <1>1
<1>3. ASSUME NEW y \in Y PROVE \E k \in 1 .. Len(s) : t[k] = y
  <2>1. PICK x \in X : y = g[x]
    OBVIOUS
  <2>2. PICK k \in 1 .. Len(s) : s[k] = x
    BY DEF Lists
  <2> QED BY <2>1, <2>2
<1> HIDE DEF Y
<1>4. t \in Seq(Y) /\ Len(t) = Len(s) /\ t \o <<>> = t
  BY <1>1, <1>2, TableIs
<1>5. ASSUME NEW i \in 1 .. Len(s), NEW j \in 1 .. Len(s), t[i] = t[j] PROVE i = j
  <2>1. s[i] = s[j]
    BY <1>1, <1>5
  <2> QED BY <2>1 DEF Lists
<1> QED BY <1>3, <1>4, <1>5 DEF Lists, Y

\* Lists of sets that have nothing in common, one after another, list all of them.
Apart(X, n) == \A p, q \in 1 .. n : \A x : x \in X[p] /\ x \in X[q] => p = q
AllOf(X, n) == UNION {X[p] : p \in 1 .. n}
LEMMA FlattenLists ==
  ASSUME NEW n \in Nat, NEW ss, ss = [p \in 1 .. n |-> ss[p]], NEW X, \A p \in 1 .. n : Lists(ss[p], X[p]), Apart(X, n)
  PROVE  /\ Lists(FlattenSeq(ss), AllOf(X, n))
         /\ ss \in Seq(Seq(AllOf(X, n))) /\ Len(ss) = n
<1> DEFINE T == AllOf(X, n)
           f == FlattenSeq(ss)
<1>1. \A p \in 1 .. n : ss[p] \in Seq(X[p]) /\ X[p] \subseteq T
  BY DEF Lists, AllOf
<1>2. \A p \in 1 .. n : ss[p] \in Seq(T)
  BY <1>1, MoreValues
<1> HIDE DEF T
<1>3. ss \in Seq(Seq(T)) /\ Len(ss) = n
  BY <1>2, TableIs
<1>4. Joins(f, ss, n, T)
  BY <1>3, FlattenIs
<1> HIDE DEF f
<1>5. ASSUME NEW x \in T PROVE \E k \in 1 .. Len(f) : f[k] = x
  <2>1. PICK p \in 1 .. n : x \in X[p]
    BY DEF T, AllOf
  <2>2. PICK k \in 1 .. Len(ss[p]) : ss[p][k] = x
    BY <2>1 DEF Lists
  <2> QED BY <1>4, <2>2 DEF Joins
<1>6. ASSUME NEW i \in 1 .. Len(f), NEW j \in 1 .. Len(f), f[i] = f[j] PROVE i = j
  <2>1. PICK p \in 1 .. n : \E k \in 1 .. Len(ss[p]) : i = Start(ss, p) + k
    BY <1>4 DEF Joins
  <2>2. PICK k \in 1 .. Len(ss[p]) : i = Start(ss, p) + k
    BY <2>1
  <2>3. PICK q \in 1 .. n : \E l \in 1 .. Len(ss[q]) : j = Start(ss, q) + l
    BY <1>4 DEF Joins
  <2>4. PICK l \in 1 .. Len(ss[q]) : j = Start(ss, q) + l
    BY <2>3
  <2>5. f[i] = ss[p][k] /\ f[j] = ss[q][l]
    BY <1>4, <2>2, <2>4 DEF Joins
  <2>6. ss[p][k] \in X[p] /\ ss[q][l] \in X[q]
    BY <1>1, <2>2, <2>4
  <2>7. p = q
    BY <1>6, <2>5, <2>6 DEF Apart
  <2>8. k = l
    BY <1>6, <2>2, <2>4, <2>5, <2>7 DEF Lists
  <2> QED BY <2>2, <2>4, <2>7, <2>8
<1>7. f \in Seq(T)
  BY <1>4 DEF Joins
<1> QED BY <1>3, <1>5, <1>6, <1>7 DEF Lists, f, T

\* A sum of first elements depends on these only.
LEMMA PrefixSame ==
  ASSUME NEW s \in Seq(Nat), NEW t \in Seq(Nat), NEW n \in Nat, n <= Len(s), n <= Len(t), \A i \in 1 .. n : s[i] = t[i]
  PROVE  Prefix(s, n) = Prefix(t, n)
<1> DEFINE Good == {k \in Nat : k <= n => Prefix(s, k) = Prefix(t, k)}
<1>1. Len(s) \in Nat /\ Len(t) \in Nat
  OBVIOUS
<1>2. /\ Prefix(s, 0) = 0 /\ Prefix(t, 0) = 0
      /\ \A k \in 1 .. Len(s) : Prefix(s, k) = Prefix(s, k - 1) + s[k]
      /\ \A k \in 1 .. Len(t) : Prefix(t, k) = Prefix(t, k - 1) + t[k]
  BY PrefixIs
<1>3. 0 \in Good
  BY <1>2
<1>4. ASSUME NEW k \in Nat, k \in Good PROVE k + 1 \in Good
  <2> SUFFICES ASSUME k + 1 <= n PROVE Prefix(s, k + 1) = Prefix(t, k + 1)
    OBVIOUS
  <2>1. Prefix(s, k) = Prefix(t, k)
    BY <1>4
  <2>2. PICK m : m = k + 1
    OBVIOUS
  <2>3. m \in 1 .. Len(s) /\ m \in 1 .. Len(t) /\ m \in 1 .. n /\ m - 1 = k
    BY <1>1, <2>2
  <2>4. Prefix(s, m) = Prefix(s, k) + s[m] /\ Prefix(t, m) = Prefix(t, k) + t[m]
    <3>1. Prefix(s, m) = Prefix(s, m - 1) + s[m] /\ Prefix(t, m) = Prefix(t, m - 1) + t[m]
      BY <1>2, <2>3
    <3> QED BY <2>3, <3>1
  <2>5. s[m] = t[m]
    BY <2>3
  <2> QED BY <2>1, <2>2, <2>4, <2>5
<1> HIDE DEF Good
<1>5. \A k \in Nat : k \in Good
  BY <1>3, <1>4, NumberInduction
<1> QED BY <1>5 DEF Good

\* The sum of k equal numbers.
LEMMA PrefixOfEqual ==
  ASSUME NEW s \in Seq(Nat), NEW w \in Nat, \A i \in 1 .. Len(s) : s[i] = w
  PROVE  \A k \in 0 .. Len(s) : Prefix(s, k) = k * w
<1> DEFINE Good == {k \in Nat : k <= Len(s) => Prefix(s, k) = k * w}
<1>1. Len(s) \in Nat
  OBVIOUS
<1>2. Prefix(s, 0) = 0 /\ \A k \in 1 .. Len(s) : Prefix(s, k) = Prefix(s, k - 1) + s[k]
  BY PrefixIs
<1>3. 0 \in Good
  BY <1>2
<1>4. ASSUME NEW k \in Nat, k \in Good PROVE k + 1 \in Good
  <2> SUFFICES ASSUME k + 1 <= Len(s) PROVE Prefix(s, k + 1) = (k + 1) * w
    OBVIOUS
  <2>1. Prefix(s, k) = k * w
    BY <1>1, <1>4
  <2>2. PICK m : m = k + 1
    OBVIOUS
  <2>3. m \in 1 .. Len(s) /\ m - 1 = k
    BY <1>1, <2>2
  <2>4. Prefix(s, m) = Prefix(s, k) + w
    <3>1. Prefix(s, m) = Prefix(s, m - 1) + s[m]
      BY <1>2, <2>3
    <3> QED BY <2>3, <3>1
  <2>5. (k + 1) * w = k * w + w
    OBVIOUS
  <2> QED BY <2>1, <2>2, <2>4, <2>5
<1> HIDE DEF Good
<1>5. \A k \in Nat : k \in Good
  BY <1>3, <1>4, NumberInduction
<1> QED BY <1>1, <1>5 DEF Good

\* Lengths w, those of K kept and the others 0, up to k.
Masked(w, K, k) == [l \in 1 .. k |-> IF l \in K THEN w[l] ELSE 0]
Kept(w, K) == [i \in 1 .. Len(Ascending(K)) |-> w[Ascending(K)[i]]]

LEMMA MaskedIs ==
  ASSUME NEW n \in Nat, NEW w, \A l \in 1 .. n : w[l] \in Nat, NEW K, K \subseteq 1 .. n
  PROVE  /\ \A k \in 0 .. n : Masked(w, K, k) \in Seq(Nat) /\ Len(Masked(w, K, k)) = k
         /\ Kept(w, K) \in Seq(Nat) /\ Len(Kept(w, K)) = Len(Ascending(K))
         /\ Lists(Ascending(K), K) /\ Len(Ascending(K)) \in Nat /\ IsFiniteSet(K) /\ K \subseteq Nat
<1>1. IsFiniteSet(1 .. n)
  BY FS_Interval
<1>2. IsFiniteSet(K) /\ K \subseteq Nat
  <2>1. K \in SUBSET (1 .. n) /\ K \subseteq Nat
    OBVIOUS
  <2> QED BY <1>1, <2>1, FS_Subset
<1>3. Lists(Ascending(K), K)
  BY <1>2, AscendingLists
<1>4. Len(Ascending(K)) \in Nat
  BY <1>3, ListsCount
<1>5. \A i \in 1 .. Len(Ascending(K)) : Ascending(K)[i] \in K
  BY <1>3 DEF Lists
<1>6. ASSUME NEW k \in 0 .. n PROVE Masked(w, K, k) \in Seq(Nat) /\ Len(Masked(w, K, k)) = k
  <2> DEFINE t == Masked(w, K, k)
  <2>1. t = [l \in 1 .. k |-> t[l]] /\ \A l \in 1 .. k : t[l] \in Nat
    BY DEF Masked
  <2> HIDE DEF t
  <2>2. t \in Seq(Nat) /\ Len(t) = k
    BY <2>1, TableIs
  <2> QED BY <2>2 DEF t
<1>7. Kept(w, K) \in Seq(Nat) /\ Len(Kept(w, K)) = Len(Ascending(K))
  <2> DEFINE t == Kept(w, K)
  <2>1. t = [i \in 1 .. Len(Ascending(K)) |-> t[i]] /\ \A i \in 1 .. Len(Ascending(K)) : t[i] \in Nat
    BY <1>5 DEF Kept
  <2> HIDE DEF t
  <2>2. t \in Seq(Nat) /\ Len(t) = Len(Ascending(K))
    BY <1>4, <2>1, TableIs
  <2> QED BY <2>2 DEF t
<1> QED BY <1>2, <1>3, <1>4, <1>6, <1>7

\* What is kept before element i of K adds up to the same with the zeros between.
MaskKeeps(w, K, i) == Prefix(Masked(w, K, Ascending(K)[i]), Ascending(K)[i] - 1) = Prefix(Kept(w, K), i - 1)

LEMMA MaskedPrefix ==
  ASSUME NEW n \in Nat, NEW w, \A l \in 1 .. n : w[l] \in Nat, NEW K, K \subseteq 1 .. n, NEW i \in 1 .. Len(Ascending(K))
  PROVE  MaskKeeps(w, K, i)
<1> DEFINE a == Ascending(K)
           m == Masked(w, K, n)
           v == Kept(w, K)
           Good == {j \in Nat : j <= n => Prefix(m, j) = Prefix(v, Cardinality(Below(K, j + 1)))}
<1>1. /\ \A k \in 0 .. n : Masked(w, K, k) \in Seq(Nat) /\ Len(Masked(w, K, k)) = k
      /\ v \in Seq(Nat) /\ Len(v) = Len(a)
      /\ Lists(a, K) /\ Len(a) \in Nat /\ IsFiniteSet(K) /\ K \subseteq Nat
  BY MaskedIs
<1>2. \A k \in 1 .. Len(a) : a[k] \in K /\ Cardinality(Below(K, a[k])) = k - 1
  <2>1. \A k \in 1 .. Len(a) : a[k] \in K
    BY <1>1 DEF Lists
  <2> QED BY <1>1, <2>1, AscendingLists
<1>3. n \in 0 .. n
  OBVIOUS
<1>4. m \in Seq(Nat) /\ Len(m) = n
  BY <1>1, <1>3
<1>5. /\ Prefix(m, 0) = 0 /\ Prefix(v, 0) = 0
      /\ \A k \in 1 .. n : Prefix(m, k) = Prefix(m, k - 1) + m[k]
      /\ \A k \in 1 .. Len(a) : Prefix(v, k) = Prefix(v, k - 1) + v[k]
      /\ \A k \in 0 .. n : Prefix(m, k) \in Nat
  <2> HIDE DEF m, v, a
  <2> QED BY <1>1, <1>4, PrefixIs
<1>6. /\ \A k \in 1 .. n : m[k] = IF k \in K THEN w[k] ELSE 0
      /\ \A k \in 1 .. Len(a) : v[k] = w[a[k]]
  BY DEF Masked, Kept
<1> HIDE DEF m, v, a
<1>7. 0 \in Good
  <2>1. \A y \in K : y \in 1 .. n /\ ~(y < 0 + 1)
    OBVIOUS
  <2>2. Below(K, 0 + 1) = {}
    BY <2>1 DEF Below
  <2>3. Cardinality(Below(K, 0 + 1)) = 0
    BY <2>2, FS_EmptySet
  <2> QED BY <1>5, <2>3
<1>8. ASSUME NEW j \in Nat, j \in Good PROVE j + 1 \in Good
  <2> SUFFICES ASSUME j + 1 <= n PROVE Prefix(m, j + 1) = Prefix(v, Cardinality(Below(K, j + 1 + 1)))
    OBVIOUS
  <2>1. Prefix(m, j) = Prefix(v, Cardinality(Below(K, j + 1)))
    BY <1>8
  <2>2. PICK l : l = j + 1
    OBVIOUS
  <2>3. l \in 1 .. n /\ l - 1 = j /\ l \in Nat
    BY <2>2
  <2>4. Prefix(m, l) = Prefix(v, Cardinality(Below(K, l))) + m[l]
    <3>1. Prefix(m, l) = Prefix(m, l - 1) + m[l]
      BY <1>5, <2>3
    <3> QED BY <2>1, <2>2, <2>3, <3>1
  <2>5. IsFiniteSet(Below(K, l)) /\ l \notin Below(K, l)
    <3>1. Below(K, l) \in SUBSET K
      BY DEF Below
    <3>2. IsFiniteSet(Below(K, l))
      BY <1>1, <3>1, FS_Subset
    <3> QED BY <2>3, <3>2 DEF Below
  <2>6. CASE l \in K
    <3>1. PICK k \in 1 .. Len(a) : a[k] = l
      BY <1>1, <2>6 DEF Lists
    <3>2. Below(K, l + 1) = Below(K, l) \cup {l}
      <4>1. \A y \in K : y < l + 1 <=> y < l \/ y = l
        BY <2>3
      <4> QED BY <2>6, <4>1 DEF Below
    <3>3. Cardinality(Below(K, l)) = k - 1
      BY <1>2, <3>1
    <3>4. Cardinality(Below(K, l + 1)) = k
      <4>1. Cardinality(Below(K, l) \cup {l}) = Cardinality(Below(K, l)) + 1
        <5>1. PICK S : S = Below(K, l)
          OBVIOUS
        <5>2. IsFiniteSet(S) /\ l \notin S
          BY <2>5, <5>1
        <5>3. Cardinality(S \cup {l}) = IF l \in S THEN Cardinality(S) ELSE Cardinality(S) + 1
          BY <5>2, FS_AddElement
        <5> QED BY <5>1, <5>2, <5>3
      <4>2. k - 1 + 1 = k
        BY <1>1
      <4> QED BY <3>2, <3>3, <4>1, <4>2
    <3>5. m[l] = v[k]
      BY <1>6, <2>3, <2>6, <3>1
    <3>6. Prefix(m, l) = Prefix(v, k)
      BY <1>5, <2>4, <3>3, <3>5
    <3> QED BY <2>2, <3>4, <3>6
  <2>7. CASE l \notin K
    <3>1. Below(K, l + 1) = Below(K, l)
      <4>1. \A y \in K : y < l + 1 <=> y < l
        BY <2>3, <2>7
      <4> QED BY <4>1 DEF Below
    <3>2. Prefix(m, l) = Prefix(m, j)
      BY <1>5, <1>6, <2>3, <2>7
    <3> QED BY <2>1, <2>2, <3>1, <3>2
  <2> QED BY <2>6, <2>7
<1>9. PICK j : j = a[i] - 1
  OBVIOUS
<1>10. i \in 1 .. Len(a) /\ a[i] \in 1 .. n /\ j \in Nat /\ j <= n /\ j + 1 = a[i]
  <2>1. i \in 1 .. Len(a)
    BY DEF a
  <2>2. a[i] \in K
    BY <1>2, <2>1
  <2>3. a[i] \in 1 .. n
    BY <2>2
  <2> QED BY <1>9, <2>1, <2>3
<1>11. Prefix(m, j) = Prefix(v, i - 1)
  <2> HIDE DEF Good
  <2>1. \A k \in Nat : k \in Good
    BY <1>7, <1>8, NumberInduction
  <2>2. Prefix(m, j) = Prefix(v, Cardinality(Below(K, j + 1)))
    BY <1>10, <2>1 DEF Good
  <2> QED BY <1>2, <1>10, <2>2
<1>12. Prefix(Masked(w, K, a[i]), j) = Prefix(m, j)
  <2>1. a[i] \in 0 .. n
    BY <1>10
  <2>2. PICK t : t = Masked(w, K, a[i])
    OBVIOUS
  <2>3. t \in Seq(Nat) /\ Len(t) = a[i]
    BY <1>1, <2>1, <2>2
  <2>4. \A k \in 1 .. j : t[k] = m[k]
    BY <1>10, <2>2 DEF Masked, m
  <2>5. j <= Len(t) /\ j <= Len(m)
    BY <1>4, <1>10, <2>3
  <2>6. Prefix(t, j) = Prefix(m, j)
    BY <1>4, <1>10, <2>3, <2>4, <2>5, PrefixSame
  <2> QED BY <2>2, <2>6
<1> QED BY <1>9, <1>11, <1>12 DEF a, v, MaskKeeps

-----------------------------------------------------------------------------
(* Elements and pairs of elements. *)

\* A rank of the parent sends an element to a rank once.
ListedOnce ==
  \A p, r \in Procs : \A k, l \in 1 .. Len(p2r[p][r]) : p2r[p][r][k].elem = p2r[p][r][l].elem => k = l

\* An element came from one source.
LEMMA RankOfIs ==
  ASSUME RedecompAssumption, MeshIInv, Built, NEW r \in Procs, NEW p \in Procs, NEW k \in 1 .. Len(p2r[p][r])
  PROVE  RankOf(r, offsets[r][p] + k) = p
<1> DEFINE I == ItemsFrom(p2r, r)
           e == offsets[r][p] + k
<1>1. ParentIs
  BY DEF MeshIInv
<1>2. P \in Nat /\ Procs = 1 .. P /\ Len(I) = P
  BY <1>1, FromAre
<1>3. PICK T : I \in Seq(Seq(T))
  BY <1>1, FromAre
<1>4. \A q \in Procs : /\ I[q] = p2r[q][r] /\ offsets[r][q] = Start(I, q) /\ offsets[r][q] \in Nat
                       /\ ElemsFrom(r, q) = offsets[r][q] + 1 .. offsets[r][q] + Len(p2r[q][r])
  BY SourceIs DEF ItemsFrom
<1> HIDE DEF I
<1>5. \A q \in Procs : Len(I[q]) \in Nat
  BY <1>2, <1>3
<1>6. e \in ElemsFrom(r, p)
  BY <1>4, <1>5
<1>7. ASSUME NEW q \in Procs, e \in ElemsFrom(r, q) PROVE q = p
  <2>1. PICK j : j = e - offsets[r][q]
    OBVIOUS
  <2>2. PICK a, b, m, n : a = offsets[r][q] /\ b = offsets[r][p] /\ m = Len(I[q]) /\ n = Len(I[p])
    OBVIOUS
  <2>20. /\ a = Start(I, q) /\ b = Start(I, p) /\ a \in Nat /\ b \in Nat /\ m \in Nat /\ n \in Nat
         /\ ElemsFrom(r, q) = a + 1 .. a + m /\ k \in 1 .. n /\ e = b + k /\ j = e - a
    BY <1>4, <1>5, <2>1, <2>2
  <2> HIDE DEF e
  <2>21. e \in a + 1 .. a + m
    BY <1>7, <2>20
  <2>22. j \in 1 .. m /\ e = a + j
    <3>1. PICK x : x = e
      OBVIOUS
    <3>2. a \in Nat /\ m \in Nat /\ x \in a + 1 .. a + m /\ j = x - a
      BY <2>20, <2>21, <3>1
    <3>3. j \in 1 .. m /\ x = a + j
      BY ONLY <3>2
    <3> QED BY <3>1, <3>3
  <2>3. CASE q < p
    <3>1. Start(I, q) + Len(I[q]) <= Start(I, p)
      BY <1>2, <1>3, <2>3, StartsAscend
    <3>2. a + m <= b
      BY <2>2, <2>20, <3>1
    <3> QED BY <2>20, <2>22, <3>2
  <2>4. CASE p < q
    <3>1. Start(I, p) + Len(I[p]) <= Start(I, q)
      BY <1>2, <1>3, <2>4, StartsAscend
    <3>2. b + n <= a
      BY <2>2, <2>20, <3>1
    <3> QED BY <2>20, <2>22, <3>2
  <2> QED BY <1>2, <2>3, <2>4
<1>8. RankOf(r, e) = CHOOSE q \in Procs : e \in ElemsFrom(r, q)
  BY DEF RankOf
<1> HIDE DEF e
<1>9. RankOf(r, e) = p
  BY <1>6, <1>7, <1>8
<1> QED BY <1>9 DEF e

\* What an element is, by the list it came in.
Came(r, e, q, k, a) ==
  /\ q \in Procs /\ q = RankOf(r, e) /\ offsets[r][q] \in Nat /\ k = e - offsets[r][q] /\ e = offsets[r][q] + k
  /\ k \in 1 .. Len(p2r[q][r]) /\ p2r[q][r][k].elem = a /\ p2r[q][r][k].ghost = IsGhost(r, q, e)
  /\ a = elements[r][e].attribute /\ a \in Elems /\ home[a] = q
  /\ Conn[a] \in Seq(Nat) /\ Len(Conn[a]) \in Nat /\ Len(elements[r][e].verts) = Len(Conn[a])

LEMMA ElementOf ==
  ASSUME RedecompAssumption, MeshIInv, Built, NEW r \in Procs, NEW e \in DOMAIN elements[r]
  PROVE  Came(r, e, RankOf(r, e), e - offsets[r][RankOf(r, e)], elements[r][e].attribute)
<1> DEFINE a == elements[r][e].attribute
<1>1. PICK q \in Procs : \E k \in 1 .. Len(p2r[q][r]) : e = offsets[r][q] + k
  BY SourceOf
<1>2. PICK k \in 1 .. Len(p2r[q][r]) : e = offsets[r][q] + k
  BY <1>1
<1>3. RankOf(r, e) = q
  BY <1>2, RankOfIs
<1>4. PICK list : list = p2r[q][r]
  OBVIOUS
<1>5. /\ list \in Seq(Item(q)) /\ offsets[r][q] \in Nat
      /\ a = list[k].elem /\ IsGhost(r, q, e) = list[k].ghost
  BY <1>2, <1>4, SourceIs
<1>6. list[k] \in Item(q)
  BY <1>2, <1>4, <1>5
<1>7. a \in Elems /\ home[a] = q
  BY <1>5, <1>6 DEF Item, ElemsOf
<1>8. Conn[a] \in Seq(Nat) /\ elements[r][e].verts = Numbers(vertIds[r], a)
  BY <1>7, ElementHas DEF RedecompAssumption
<1> HIDE DEF a
<1>9. PICK c : c = Conn[a]
  OBVIOUS
<1>10. Len(c) \in Nat
  BY <1>8, <1>9
<1>11. Len(Numbers(vertIds[r], a)) = Len(c)
  <2> DEFINE t == Numbers(vertIds[r], a)
  <2>1. t = [j \in 1 .. Len(c) |-> t[j]]
    BY <1>9 DEF Numbers
  <2> HIDE DEF t
  <2>2. Len(t) = Len(c)
    BY <1>10, <2>1, TableKept
  <2> QED BY <2>2 DEF t
<1>12. k = e - offsets[r][q]
  <2>1. Len(list) \in Nat
    BY <1>5
  <2> QED BY <1>2, <1>4, <1>5, <2>1
<1>13. k \in 1 .. Len(p2r[q][r]) /\ p2r[q][r][k].elem = a /\ p2r[q][r][k].ghost = IsGhost(r, q, e)
  BY <1>2, <1>4, <1>5
<1>14. a = elements[r][e].attribute
  BY DEF a
<1>15. Len(Conn[a]) \in Nat /\ Len(elements[r][e].verts) = Len(Conn[a])
  BY <1>8, <1>9, <1>10, <1>11
<1>16. q \in Procs /\ q = RankOf(r, e) /\ offsets[r][q] \in Nat /\ e = offsets[r][q] + k
  BY <1>2, <1>3, <1>5
<1>17. Came(r, e, q, k, a)
  BY <1>7, <1>8, <1>12, <1>13, <1>14, <1>15, <1>16, Zenon DEF Came
<1> QED BY <1>3, <1>12, <1>17 DEF a

\* A rank has an element once.
LEMMA AttributeTells ==
  ASSUME RedecompAssumption, MeshIInv, Built, ListedOnce, NEW r \in Procs, NEW e \in DOMAIN elements[r],
         NEW f \in DOMAIN elements[r], elements[r][e].attribute = elements[r][f].attribute
  PROVE  e = f
<1>1. PICK q, k, a : Came(r, e, q, k, a)
  BY ElementOf
<1>2. PICK s, l, b : Came(r, f, s, l, b)
  BY ElementOf
<1>3. a = b /\ q = s
  BY <1>1, <1>2 DEF Came
<1>4. q \in Procs /\ k \in 1 .. Len(p2r[q][r]) /\ p2r[q][r][k].elem = a /\ e = offsets[r][q] + k
  BY <1>1, Zenon DEF Came
<1>5. l \in 1 .. Len(p2r[s][r]) /\ p2r[s][r][l].elem = b /\ f = offsets[r][s] + l
  BY <1>2, Zenon DEF Came
<1>6. l \in 1 .. Len(p2r[q][r]) /\ p2r[q][r][l].elem = p2r[q][r][k].elem
  BY <1>3, <1>4, <1>5
<1>7. k = l
  BY <1>4, <1>6, Zenon DEF ListedOnce
<1> QED BY <1>3, <1>4, <1>5, <1>7

\* What the constructors know of ranks, and the pairs that were computed.
RanksKnown ==
  \A r \in Procs : \A e \in DOMAIN elements[r] :
    /\ trialRank[r][e] = RankOf(r, e)
    /\ testRank[r][e] = IF IsGhost(r, RankOf(r, e), e) THEN NoRank ELSE RankOf(r, e)
PairsListed == \A r \in Procs : ToSet(pairs[r]) \subseteq AllPairs(r) /\ Lists(pairs[r], ToSet(pairs[r]))
Ready == MeshIInv /\ Built /\ ListedOnce /\ RanksKnown /\ PairsListed

\* The elements of a pair, and the pairs that rank r sends to rank p.
TestOf(r, i) == elements[r][pairs[r][i][1]].attribute
TrialOf(r, i) == elements[r][pairs[r][i][2]].attribute
TrialFrom(r, i) == trialRank[r][pairs[r][i][2]]
TestIndex(r, i, p) == pairs[r][i][1] - offsets[r][p]
TrialIndex(r, i) == pairs[r][i][2] - offsets[r][TrialFrom(r, i)]
Sent(r, p) == {i \in DOMAIN pairs[r] : testRank[r][pairs[r][i][1]] = p}

LEMMA PairIs ==
  ASSUME RedecompAssumption, Ready, NEW r \in Procs, NEW i \in DOMAIN pairs[r]
  PROVE  /\ pairs[r][i][1] \in DOMAIN elements[r] /\ pairs[r][i][2] \in DOMAIN elements[r]
         /\ TestOf(r, i) \in Elems /\ Conn[TestOf(r, i)] \in Seq(Nat) /\ NTest(r, i) = Len(Conn[TestOf(r, i)])
         /\ TrialOf(r, i) \in Elems /\ Conn[TrialOf(r, i)] \in Seq(Nat) /\ NTrial(r, i) = Len(Conn[TrialOf(r, i)])
         /\ NTest(r, i) \in Nat /\ NTrial(r, i) \in Nat
         /\ TrialFrom(r, i) = home[TrialOf(r, i)] /\ TrialFrom(r, i) \in Procs
         /\ p2r[TrialFrom(r, i)][r][TrialIndex(r, i)].elem = TrialOf(r, i)
         /\ \A p \in Procs : i \in Sent(r, p) <=> home[TestOf(r, i)] = p /\ ~IsGhost(r, RankOf(r, pairs[r][i][1]), pairs[r][i][1])
         /\ \A p \in Procs : i \in Sent(r, p) => p2r[p][r][TestIndex(r, i, p)].elem = TestOf(r, i)
<1> DEFINE e == pairs[r][i][1]
           f == pairs[r][i][2]
<1>1. pairs[r][i] \in AllPairs(r)
  <2>1. pairs[r][i] \in ToSet(pairs[r])
    BY DEF ToSet
  <2> QED BY <2>1 DEF Ready, PairsListed
<1>2. e \in DOMAIN elements[r] /\ f \in DOMAIN elements[r]
  BY <1>1 DEF AllPairs
<1>3. PICK q, k, a : Came(r, e, q, k, a)
  BY <1>2, ElementOf DEF Ready
<1>4. PICK s, l, b : Came(r, f, s, l, b)
  BY <1>2, ElementOf DEF Ready
<1>5. a = TestOf(r, i) /\ b = TrialOf(r, i)
  BY <1>3, <1>4 DEF Came, TestOf, TrialOf
<1>6. TrialFrom(r, i) = s
  BY <1>2, <1>4 DEF Ready, RanksKnown, TrialFrom, Came
<1>7. testRank[r][e] = IF IsGhost(r, q, e) THEN NoRank ELSE q
  BY <1>2, <1>3 DEF Ready, RanksKnown, Came
<1>8. NoRank \notin Procs
  BY DEF NoRank, Procs
<1>9. \A p \in Procs : i \in Sent(r, p) <=> q = p /\ ~IsGhost(r, q, e)
  BY <1>3, <1>7, <1>8 DEF Sent, Came
<1>10. NTest(r, i) = Len(Conn[a]) /\ NTrial(r, i) = Len(Conn[b])
  BY <1>3, <1>4 DEF NTest, NTrial, Came
<1>11. p2r[s][r][TrialIndex(r, i)].elem = b
  BY <1>4, <1>6 DEF TrialIndex, Came
<1>12. p2r[q][r][TestIndex(r, i, q)].elem = a
  BY <1>3 DEF TestIndex, Came
<1> QED BY <1>2, <1>3, <1>4, <1>5, <1>6, <1>9, <1>10, <1>11, <1>12 DEF Came

\* Two pairs of a rank are of different elements.
LEMMA PairTells ==
  ASSUME RedecompAssumption, Ready, NEW r \in Procs, NEW i \in DOMAIN pairs[r], NEW j \in DOMAIN pairs[r],
         TestOf(r, i) = TestOf(r, j), TrialOf(r, i) = TrialOf(r, j)
  PROVE  i = j
<1>1. \A k \in DOMAIN pairs[r] : pairs[r][k] \in AllPairs(r)
  <2> SUFFICES ASSUME NEW k \in DOMAIN pairs[r] PROVE pairs[r][k] \in AllPairs(r)
    OBVIOUS
  <2>1. pairs[r][k] \in ToSet(pairs[r])
    BY DEF ToSet
  <2> QED BY <2>1 DEF Ready, PairsListed
<1>2. pairs[r][i][1] = pairs[r][j][1] /\ pairs[r][i][2] = pairs[r][j][2]
  <2>1. MeshIInv /\ Built /\ ListedOnce
    BY DEF Ready
  <2>2. /\ pairs[r][i][1] \in DOMAIN elements[r] /\ pairs[r][i][2] \in DOMAIN elements[r]
        /\ pairs[r][j][1] \in DOMAIN elements[r] /\ pairs[r][j][2] \in DOMAIN elements[r]
    BY PairIs
  <2>3. elements[r][pairs[r][i][1]].attribute = elements[r][pairs[r][j][1]].attribute
    BY DEF TestOf
  <2>4. elements[r][pairs[r][i][2]].attribute = elements[r][pairs[r][j][2]].attribute
    BY DEF TrialOf
  <2>5. pairs[r][i][1] = pairs[r][j][1]
    BY <2>1, <2>2, <2>3, AttributeTells
  <2>6. pairs[r][i][2] = pairs[r][j][2]
    BY <2>1, <2>2, <2>4, AttributeTells
  <2> QED BY <2>5, <2>6
<1>3. pairs[r][i] = pairs[r][j]
  BY <1>1, <1>2 DEF AllPairs
<1>4. Lists(pairs[r], ToSet(pairs[r]))
  BY DEF Ready, PairsListed
<1>5. DOMAIN pairs[r] = 1 .. Len(pairs[r])
  BY <1>4 DEF Lists
<1> QED BY <1>3, <1>4, <1>5 DEF Lists

\* What lies between the start and the end of a part is that part.
LEMMA PartAt ==
  ASSUME NEW T, NEW ss \in Seq(Seq(T)), NEW p \in 1 .. Len(ss), NEW n \in Nat \ {0}, n = Len(ss[p])
  PROVE  SubSeq(FlattenSeq(ss), Start(ss, p) + 1, Start(ss, p) + n) = ss[p]
<1> DEFINE F == FlattenSeq(ss)
<1>1. PICK a : a = Start(ss, p)
  OBVIOUS
<1>2. a \in Nat /\ ss[p] \in Seq(T)
  BY <1>1, StartIs
<1>3. /\ F \in Seq(T) /\ \A k \in 1 .. n : a + k \in 1 .. Len(F) /\ F[a + k] = ss[p][k]
  BY <1>1, FlattenIs DEF Joins
<1> HIDE DEF F
<1>4. a + n \in 1 .. Len(F) /\ Len(F) \in Nat
  <2>1. n \in 1 .. n
    OBVIOUS
  <2>2. a + n \in 1 .. Len(F)
    BY <1>3, <2>1, Zenon
  <2> QED BY <1>3, <2>2
<1>5. PICK b, c : b = a + 1 /\ c = a + n
  OBVIOUS
<1>6. b \in 1 .. Len(F) + 1 /\ c \in b - 1 .. Len(F) /\ c - b + 1 = n
  BY <1>2, <1>4, <1>5
<1>7. PICK u : u = SubSeq(F, b, c)
  OBVIOUS
<1>8. u \in Seq(T) /\ Len(u) = n /\ \A i \in 1 .. n : u[i] = F[b + i - 1]
  BY <1>3, <1>6, <1>7, SubSeqProperties
<1>9. \A i \in 1 .. n : u[i] = ss[p][i]
  <2> SUFFICES ASSUME NEW i \in 1 .. n PROVE u[i] = ss[p][i]
    OBVIOUS
  <2>1. b + i - 1 = a + i
    BY <1>2, <1>5
  <2> QED BY <1>3, <1>8, <2>1
<1>10. u = ss[p]
  BY <1>2, <1>8, <1>9, SameSeq
<1> QED BY <1>1, <1>5, <1>7, <1>10 DEF F

\* Parts of equal length are at its multiples.
LEMMA UniformAt ==
  ASSUME NEW T, NEW ss \in Seq(Seq(T)), NEW w \in Nat, \A p \in 1 .. Len(ss) : Len(ss[p]) = w
  PROVE  /\ FlattenSeq(ss) \in Seq(T) /\ Len(FlattenSeq(ss)) = Len(ss) * w
         /\ \A j \in 1 .. Len(ss), k \in 1 .. w :
              /\ FlattenSeq(ss)[k + (j - 1) * w] = ss[j][k]
              /\ k + (j - 1) * w \in 1 .. Len(FlattenSeq(ss))
<1> DEFINE F == FlattenSeq(ss)
           n == Len(ss)
           L == Lens(ss)
<1>1. n \in Nat /\ L \in Seq(Nat) /\ Len(L) = n
  BY StartIs
<1>2. \A i \in 1 .. Len(L) : L[i] = w
  BY <1>1 DEF Lens
<1>3. Joins(F, ss, n, T)
  BY FlattenIs
<1> HIDE DEF L, F, n
<1>4. \A k \in 0 .. n : Prefix(L, k) = k * w
  BY <1>1, <1>2, PrefixOfEqual
<1>5. F \in Seq(T) /\ Len(F) = n * w
  <2>1. n \in 0 .. n
    BY <1>1
  <2>2. Prefix(L, n) = n * w
    BY <1>4, <2>1
  <2>3. F \in Seq(T) /\ Len(F) = Prefix(L, n)
    BY <1>3 DEF Joins, L
  <2> QED BY <2>2, <2>3
<1>6. ASSUME NEW j \in 1 .. n, NEW k \in 1 .. w
      PROVE  F[k + (j - 1) * w] = ss[j][k] /\ k + (j - 1) * w \in 1 .. Len(F)
  <2>1. j - 1 \in 0 .. n
    BY <1>1
  <2>2. Start(ss, j) = (j - 1) * w
    BY <1>4, <2>1 DEF Start, L
  <2>3. j \in 1 .. Len(ss) /\ k \in 1 .. Len(ss[j])
    BY DEF n
  <2>4. Start(ss, j) + k \in 1 .. Len(F) /\ F[Start(ss, j) + k] = ss[j][k]
    BY <1>3, <2>3 DEF Joins, n
  <2>5. PICK m : m = (j - 1) * w
    OBVIOUS
  <2>6. m \in Int
    BY <2>1, <2>5
  <2>7. m + k = k + m
    BY <2>6
  <2> QED BY <2>2, <2>4, <2>5, <2>7
<1> QED BY <1>5, <1>6 DEF n, F

-----------------------------------------------------------------------------
(* What rank r sends to rank p, pair by pair. *)
Ids(r, p) == Ascending(Sent(r, p))
SizesSent(r, p) == [e \in 1 .. Len(Ids(r, p)) |-> <<NTest(r, Ids(r, p)[e]), NTrial(r, Ids(r, p)[e])>>]
TestsSent(r, p) == [e \in 1 .. Len(Ids(r, p)) |-> TestIndex(r, Ids(r, p)[e], p)]
GlobalDofs(s) == [b \in 1 .. Len(Conn[s]) |-> GlobalDof(s, b)]
TrialParts(r, p) == [e \in 1 .. Len(Ids(r, p)) |-> GlobalDofs(TrialOf(r, Ids(r, p)[e]))]
ValueParts(r, p) == [e \in 1 .. Len(Ids(r, p)) |-> ElementMatrix(r, Ids(r, p)[e])]
Symbols(r) == {Symbol(r, i, j, k) : i \in DOMAIN pairs[r], j \in Nat, k \in Nat}

LEMMA IdsAre ==
  ASSUME RedecompAssumption, Ready, NEW r \in Procs, NEW p \in Procs
  PROVE  /\ Len(Ids(r, p)) \in Nat /\ Lists(Ids(r, p), Sent(r, p)) /\ Ids(r, p) = buildSendArrayIDs(r, p)
         /\ \A e \in 1 .. Len(Ids(r, p)) : Ids(r, p)[e] \in Sent(r, p) /\ Ids(r, p)[e] \in DOMAIN pairs[r]
<1>1. pairs[r] \in Seq(ToSet(pairs[r]))
  BY DEF Ready, PairsListed, Lists
<1>2. Sent(r, p) \subseteq DOMAIN pairs[r]
  BY DEF Sent
<1>3. Lists(Ids(r, p), Sent(r, p)) /\ Len(Ids(r, p)) \in Nat
  BY <1>1, <1>2, PlacesAscend DEF Ids
<1>4. \A e \in 1 .. Len(Ids(r, p)) : Ids(r, p)[e] \in Sent(r, p)
  BY <1>3 DEF Lists
<1> QED BY <1>2, <1>3, <1>4 DEF Ids, buildSendArrayIDs, Sent

\* A matrix of an element has a symbol for each row and column.
LEMMA MatrixIs ==
  ASSUME RedecompAssumption, Ready, NEW r \in Procs, NEW i \in DOMAIN pairs[r]
  PROVE  /\ ElementMatrix(r, i) \in Seq(Symbols(r)) /\ Len(ElementMatrix(r, i)) = NTest(r, i) * NTrial(r, i)
         /\ \A k \in 1 .. NTest(r, i), j \in 1 .. NTrial(r, i) :
              /\ ElementMatrix(r, i)[k + (j - 1) * NTest(r, i)] = Symbol(r, i, k, j)
              /\ k + (j - 1) * NTest(r, i) \in 1 .. Len(ElementMatrix(r, i))
<1>1. PICK m, w : m = NTest(r, i) /\ w = NTrial(r, i)
  OBVIOUS
<1>2. m \in Nat /\ w \in Nat
  BY <1>1, PairIs
<1> DEFINE column(j) == [k \in 1 .. m |-> Symbol(r, i, k, j)]
           ss == [j \in 1 .. w |-> column(j)]
<1>3. ASSUME NEW j \in 1 .. w PROVE column(j) \in Seq(Symbols(r)) /\ Len(column(j)) = m
  <2> DEFINE c == column(j)
  <2>1. c = [k \in 1 .. m |-> c[k]]
    OBVIOUS
  <2>2. \A k \in 1 .. m : c[k] \in Symbols(r)
    BY <1>2 DEF Symbols
  <2> HIDE DEF c
  <2>3. c \in Seq(Symbols(r)) /\ Len(c) = m
    BY <1>2, <2>1, <2>2, TableIs
  <2> QED BY <2>3 DEF c
<1>4. ss = [j \in 1 .. w |-> ss[j]] /\ \A j \in 1 .. w : ss[j] = column(j)
  OBVIOUS
<1>5. \A j \in 1 .. w : \A k \in 1 .. m : ss[j][k] = Symbol(r, i, k, j)
  OBVIOUS
<1>6. ElementMatrix(r, i) = FlattenSeq(ss)
  BY <1>1 DEF ElementMatrix
<1> HIDE DEF column, ss
<1>7. ss \in Seq(Seq(Symbols(r))) /\ Len(ss) = w
  BY <1>2, <1>3, <1>4, TableIs
<1>8. \A j \in 1 .. Len(ss) : Len(ss[j]) = m
  BY <1>3, <1>4, <1>7
<1>9. PICK F : F = FlattenSeq(ss)
  OBVIOUS
<1>10. /\ F \in Seq(Symbols(r)) /\ Len(F) = w * m
       /\ \A j \in 1 .. w, k \in 1 .. m : F[k + (j - 1) * m] = ss[j][k] /\ k + (j - 1) * m \in 1 .. Len(F)
  <2>1. /\ FlattenSeq(ss) \in Seq(Symbols(r)) /\ Len(FlattenSeq(ss)) = Len(ss) * m
        /\ \A j \in 1 .. Len(ss), k \in 1 .. m :
             /\ FlattenSeq(ss)[k + (j - 1) * m] = ss[j][k]
             /\ k + (j - 1) * m \in 1 .. Len(FlattenSeq(ss))
    BY <1>2, <1>7, <1>8, UniformAt
  <2> QED BY <1>7, <1>9, <2>1, Zenon
<1>11. w * m = m * w
  BY <1>2
<1>12. \A k \in 1 .. m, j \in 1 .. w : F[k + (j - 1) * m] = Symbol(r, i, k, j) /\ k + (j - 1) * m \in 1 .. Len(F)
  BY <1>5, <1>10
<1> QED BY <1>1, <1>6, <1>9, <1>10, <1>11, <1>12

\* The values that arrive, pair by pair: where those of pair e begin, by columns.
LEMMA ValueAt ==
  ASSUME RedecompAssumption, Ready, NEW r \in Procs, NEW p \in Procs, NEW e \in 1 .. Len(Ids(r, p)),
         NEW k \in 1 .. NTest(r, Ids(r, p)[e]), NEW j \in 1 .. NTrial(r, Ids(r, p)[e])
  PROVE  LET sizes == SizesSent(r, p)
         IN  FlattenSeq(ValueParts(r, p))[Prefix([x \in DOMAIN sizes |-> sizes[x][1] * sizes[x][2]], e - 1)
                                          + k + (j - 1) * NTest(r, Ids(r, p)[e])] = Symbol(r, Ids(r, p)[e], k, j)
<1> DEFINE A == Ids(r, p)
           n == Len(A)
           ss == ValueParts(r, p)
           L == Lens(ss)
           S == SizesSent(r, p)
           W == [x \in DOMAIN S |-> S[x][1] * S[x][2]]
<1>1. n \in Nat /\ \A x \in 1 .. n : A[x] \in DOMAIN pairs[r]
  BY IdsAre
<1>2. \A x \in 1 .. n : /\ ElementMatrix(r, A[x]) \in Seq(Symbols(r))
                        /\ Len(ElementMatrix(r, A[x])) = NTest(r, A[x]) * NTrial(r, A[x])
  BY <1>1, MatrixIs
<1>3. PICK m : m = NTest(r, A[e])
  OBVIOUS
<1>4. PICK M : M = ElementMatrix(r, A[e])
  OBVIOUS
<1>5. k + (j - 1) * m \in 1 .. Len(M) /\ M[k + (j - 1) * m] = Symbol(r, A[e], k, j)
  BY <1>1, <1>3, <1>4, MatrixIs
<1>6. ss = [x \in 1 .. n |-> ss[x]] /\ \A x \in 1 .. n : ss[x] = ElementMatrix(r, A[x])
  BY DEF ValueParts
<1>7. DOMAIN S = 1 .. n /\ \A x \in 1 .. n : S[x][1] = NTest(r, A[x]) /\ S[x][2] = NTrial(r, A[x])
  BY DEF SizesSent
<1> HIDE DEF ss, S, n, A
<1>8. ss \in Seq(Seq(Symbols(r))) /\ Len(ss) = n
  BY <1>1, <1>2, <1>6, TableIs
<1>9. L = W
  <2>1. L = [x \in 1 .. n |-> Len(ss[x])]
    BY <1>8 DEF Lens
  <2>2. \A x \in 1 .. n : Len(ss[x]) = S[x][1] * S[x][2]
    BY <1>2, <1>6, <1>7
  <2> HIDE DEF L
  <2> QED BY <1>7, <2>1, <2>2
<1>10. PICK a : a = Prefix(L, e - 1)
  OBVIOUS
<1>11. e \in 1 .. Len(ss) /\ e \in 1 .. n /\ ss[e] = M
  BY <1>4, <1>6, <1>8 DEF n, A
<1>12. a = Start(ss, e)
  BY <1>10 DEF Start, L
<1>13. a \in Nat
  BY <1>8, <1>11, <1>12, StartIs
<1>14. PICK F : F = FlattenSeq(ss)
  OBVIOUS
<1>15. PICK x : x = k + (j - 1) * m
  OBVIOUS
<1>16. x \in 1 .. Len(ss[e])
  BY <1>5, <1>11, <1>15
<1>17. F[a + x] = ss[e][x]
  BY <1>8, <1>11, <1>12, <1>14, <1>16, FlattenIs DEF Joins
<1>18. F[a + x] = Symbol(r, A[e], k, j)
  BY <1>5, <1>11, <1>15, <1>17
<1>19. a + x = a + k + (j - 1) * m
  <2>1. m \in Nat
    BY <1>1, <1>3, <1>11, PairIs
  <2>2. j \in Int /\ k \in Int
    <3>1. NTrial(r, Ids(r, p)[e]) \in Nat /\ NTest(r, Ids(r, p)[e]) \in Nat
      BY <1>1, <1>11, PairIs DEF A
    <3> QED BY <3>1
  <2>3. PICK y : y = (j - 1) * m
    OBVIOUS
  <2>4. y \in Int
    BY <2>1, <2>2, <2>3
  <2> QED BY <1>13, <1>15, <2>2, <2>3, <2>4
<1>20. F[Prefix(W, e - 1) + k + (j - 1) * m] = Symbol(r, A[e], k, j)
  BY <1>9, <1>10, <1>18, <1>19
<1> QED BY <1>3, <1>14, <1>20 DEF ss, A, S

-----------------------------------------------------------------------------
(* What arrives. *)
LEMMA SizesArrive ==
  ASSUME RedecompAssumption, Ready, NEW r \in Procs, NEW p \in Procs
  PROVE  buildRecvMatSizes[p][r] = SizesSent(r, p)
<1> DEFINE v == [q \in Procs |-> [s \in Procs |-> Map(buildSendArrayIDs(s, q), LAMBDA i : <<NTest(s, i), NTrial(s, i)>>)]]
           t == SizesSent(r, p)
           A == Ids(r, p)
<1>1. v = [q \in Procs |-> [s \in Procs |-> v[q][s]]]
  OBVIOUS
<1>2. buildRecvMatSizes = TableOf(v)
  BY DEF buildRecvMatSizes, Exchanged, TableOf
<1>3. v[p][r] = Map(buildSendArrayIDs(r, p), LAMBDA i : <<NTest(r, i), NTrial(r, i)>>)
  OBVIOUS
<1> HIDE DEF v
<1>4. buildRecvMatSizes = v
  BY <1>1, <1>2, TablesKept
<1>5. A = buildSendArrayIDs(r, p) /\ Len(A) \in Nat /\ DOMAIN A = 1 .. Len(A)
  BY IdsAre DEF Lists
<1>6. Map(A, LAMBDA i : <<NTest(r, i), NTrial(r, i)>>) = t \o <<>>
  BY <1>5 DEF Map, SizesSent
<1>7. t = [e \in 1 .. Len(A) |-> t[e]]
  BY DEF SizesSent
<1> HIDE DEF t, A
<1>8. t \o <<>> = t
  BY <1>5, <1>7, TableKept
<1> QED BY <1>3, <1>4, <1>5, <1>6, <1>8 DEF t

LEMMA TestsArrive ==
  ASSUME RedecompAssumption, Ready, NEW r \in Procs, NEW p \in Procs
  PROVE  buildRecvTestElemOffsets[p][r] = TestsSent(r, p)
<1> DEFINE v == [q \in Procs |-> [s \in Procs |-> Map(buildSendArrayIDs(s, q), LAMBDA i : pairs[s][i][1] - offsets[s][q])]]
           t == TestsSent(r, p)
           A == Ids(r, p)
<1>1. v = [q \in Procs |-> [s \in Procs |-> v[q][s]]]
  OBVIOUS
<1>2. buildRecvTestElemOffsets = TableOf(v)
  BY DEF buildRecvTestElemOffsets, Exchanged, TableOf
<1>3. v[p][r] = Map(buildSendArrayIDs(r, p), LAMBDA i : pairs[r][i][1] - offsets[r][p])
  OBVIOUS
<1> HIDE DEF v
<1>4. buildRecvTestElemOffsets = v
  BY <1>1, <1>2, TablesKept
<1>5. A = buildSendArrayIDs(r, p) /\ Len(A) \in Nat /\ DOMAIN A = 1 .. Len(A)
  BY IdsAre DEF Lists
<1>6. Map(A, LAMBDA i : pairs[r][i][1] - offsets[r][p]) = t \o <<>>
  BY <1>5 DEF Map, TestsSent, TestIndex
<1>7. t = [e \in 1 .. Len(A) |-> t[e]]
  BY DEF TestsSent
<1> HIDE DEF t, A
<1>8. t \o <<>> = t
  BY <1>5, <1>7, TableKept
<1> QED BY <1>3, <1>4, <1>5, <1>6, <1>8 DEF t

\* The numbers that a rank of the parent gives the nodes of an element.
LEMMA DofsHere ==
  ASSUME RedecompAssumption, MeshIInv, NEW e \in Elems, home[e] \in Procs
  PROVE  /\ GetElementDofs(home[e], e) \in Seq(Nat)
         /\ Len(GetElementDofs(home[e], e)) = Len(Conn[e]) /\ Conn[e] \in Seq(Nat) /\ Len(Conn[e]) \in Nat \ {0}
         /\ \A i \in 1 .. Len(Conn[e]) : /\ GetElementDofs(home[e], e)[i] = LocalDof(e, i)
                                         /\ LocalDof(e, i) \in 1 .. Len(parentVerts[home[e]])
<1> DEFINE p == home[e]
           t == [k \in DOMAIN Conn[e] |-> LocalDof(e, k)]
<1>1. PICK c : c = Conn[e]
  OBVIOUS
<1>2. c \in Seq(Nat) /\ c # <<>>
  BY <1>1 DEF RedecompAssumption
<1>3. Len(c) \in Nat \ {0} /\ DOMAIN c = 1 .. Len(c)
  BY <1>2
<1>4. ParentIs /\ e \in ElemsOf(p)
  BY DEF MeshIInv, ElemsOf
<1>5. /\ GetElementDofs(p, e) \in Seq(Nat) /\ Len(GetElementDofs(p, e)) = Len(c)
      /\ \A i \in DOMAIN c : GetElementDofs(p, e)[i] \in DOMAIN parentVerts[p]
  BY <1>1, <1>4, DofsAre
<1>6. DOMAIN parentVerts[p] = 1 .. Len(parentVerts[p])
  <2>1. parentVerts[p] \in Seq(Nat)
    BY <1>4 DEF ParentIs
  <2> QED BY <2>1
<1>7. GetElementDofs(p, e) = t \o <<>>
  BY DEF GetElementDofs, Map, LocalDof
<1>8. t = [k \in 1 .. Len(c) |-> t[k]] /\ \A k \in 1 .. Len(c) : t[k] = LocalDof(e, k)
  BY <1>1, <1>3
<1> HIDE DEF t, p
<1>9. GetElementDofs(p, e) = t
  BY <1>3, <1>7, <1>8, TableKept
<1>10. \A i \in 1 .. Len(c) : t[i] = LocalDof(e, i) /\ LocalDof(e, i) \in 1 .. Len(parentVerts[p])
  BY <1>3, <1>5, <1>6, <1>8, <1>9
<1> QED BY <1>1, <1>2, <1>3, <1>5, <1>9, <1>10 DEF p

\* And their numbers over all ranks.
NumbersOn(q, s) == Map(GetElementDofs(q, s), LAMBDA d : MyDofOffset(q) + d)

LEMMA GlobalDofsAre ==
  ASSUME RedecompAssumption, MeshIInv, NEW s \in Elems, home[s] \in Procs
  PROVE  /\ NumbersOn(home[s], s) = GlobalDofs(s)
         /\ GlobalDofs(s) \in Seq(Nat) /\ Len(GlobalDofs(s)) = Len(Conn[s])
         /\ \A j \in 1 .. Len(Conn[s]) : GlobalDofs(s)[j] = GlobalDof(s, j)
<1> DEFINE q == home[s]
           off == MyDofOffset(q)
           D == GetElementDofs(q, s)
           t == GlobalDofs(s)
<1>1. PICK n : n = Len(Conn[s])
  OBVIOUS
<1>2. /\ D \in Seq(Nat) /\ Len(D) = n /\ n \in Nat
      /\ \A i \in 1 .. n : D[i] = LocalDof(s, i)
  BY <1>1, DofsHere
<1>3. DOMAIN D = 1 .. n /\ \A i \in 1 .. n : D[i] \in Nat
  BY <1>2
<1>4. off \in Nat
  <2> DEFINE w == [x \in Procs |-> Len(parentVerts[x])]
  <2>1. P \in Nat /\ Procs = 1 .. P
    BY DEF RedecompAssumption, Procs
  <2>2. \A x \in 1 .. P : w[x] \in Nat
    <3>1. \A x \in Procs : parentVerts[x] \in Seq(Nat)
      BY DEF MeshIInv, ParentIs
    <3> QED BY <2>1, <3>1
  <2>3. w = [x \in 1 .. P |-> w[x]]
    BY <2>1
  <2>4. off = Prefix(w, q - 1)
    BY DEF MyDofOffset
  <2> HIDE DEF w, q, off
  <2>5. w \in Seq(Nat) /\ Len(w) = P
    BY <2>1, <2>2, <2>3, TableIs
  <2>6. q - 1 \in 0 .. P
    BY <2>1 DEF q
  <2> QED BY <2>4, <2>5, <2>6, PrefixIs
<1>5. Map(D, LAMBDA d : off + d) = [i \in DOMAIN D |-> off + D[i]] \o <<>>
  BY DEF Map
<1>6. t = [i \in 1 .. n |-> t[i]] /\ \A i \in 1 .. n : t[i] = GlobalDof(s, i)
  BY <1>1 DEF GlobalDofs
<1>7. \A i \in 1 .. n : t[i] = off + D[i]
  BY <1>2, <1>6 DEF GlobalDof
<1> HIDE DEF D, off, t
<1>8. [i \in DOMAIN D |-> off + D[i]] = t
  BY <1>3, <1>6, <1>7
<1>9. \A i \in 1 .. n : t[i] \in Nat
  BY <1>3, <1>4, <1>7
<1>10. t \in Seq(Nat) /\ Len(t) = n /\ t \o <<>> = t
  BY <1>2, <1>6, <1>9, TableIs
<1>11. Map(D, LAMBDA d : off + d) = t
  BY <1>5, <1>8, <1>10
<1> QED BY <1>1, <1>6, <1>10, <1>11 DEF t, off, D, NumbersOn

-----------------------------------------------------------------------------
(* The dofs of trial elements, from the ranks these came from. *)
FromRank(r, p, q) == {k \in 1 .. Len(Ids(r, p)) : TrialFrom(r, Ids(r, p)[k]) = q}
Asked(r, p, q) == Ascending(FromRank(r, p, q))
Answers(r, p, q) == [i \in 1 .. Len(Asked(r, p, q)) |-> GlobalDofs(TrialOf(r, Ids(r, p)[Asked(r, p, q)[i]]))]

TrialAt(r, q, i) ==
  /\ i \in DOMAIN pairs[r] /\ TrialFrom(r, i) = q /\ TrialOf(r, i) \in Elems /\ home[TrialOf(r, i)] = q
  /\ p2r[q][r][TrialIndex(r, i)].elem = TrialOf(r, i)

LEMMA AskedIs ==
  ASSUME RedecompAssumption, Ready, NEW r \in Procs, NEW p \in Procs, NEW q \in Procs
  PROVE  /\ Lists(Asked(r, p, q), FromRank(r, p, q)) /\ Len(Asked(r, p, q)) \in Nat
         /\ FromRank(r, p, q) \subseteq 1 .. Len(Ids(r, p))
         /\ \A i \in 1 .. Len(Asked(r, p, q)) : /\ Asked(r, p, q)[i] \in 1 .. Len(Ids(r, p))
                                                /\ TrialAt(r, q, Ids(r, p)[Asked(r, p, q)[i]])
<1> DEFINE A == Ids(r, p)
           K == FromRank(r, p, q)
           a == Asked(r, p, q)
<1>1. A \in Seq(Sent(r, p)) /\ \A e \in 1 .. Len(A) : A[e] \in DOMAIN pairs[r]
  BY IdsAre DEF Lists
<1>2. K \subseteq 1 .. Len(A) /\ \A k \in K : TrialFrom(r, A[k]) = q
  BY DEF FromRank
<1>3. K \subseteq DOMAIN A
  BY <1>1, <1>2
<1> HIDE DEF A, K
<1>4. Lists(a, K) /\ Len(a) \in Nat
  BY <1>1, <1>3, PlacesAscend DEF Asked, K
<1>5. \A i \in 1 .. Len(a) : a[i] \in K
  BY <1>4 DEF Lists
<1>6. ASSUME NEW k \in K
      PROVE  /\ A[k] \in DOMAIN pairs[r] /\ TrialOf(r, A[k]) \in Elems /\ home[TrialOf(r, A[k])] = q
             /\ p2r[q][r][TrialIndex(r, A[k])].elem = TrialOf(r, A[k])
  <2>1. PICK i : i = A[k]
    OBVIOUS
  <2>2. i \in DOMAIN pairs[r] /\ TrialFrom(r, i) = q
    BY <1>1, <1>2, <2>1
  <2>3. TrialOf(r, i) \in Elems /\ home[TrialOf(r, i)] = q /\ p2r[q][r][TrialIndex(r, i)].elem = TrialOf(r, i)
    BY <2>2, PairIs
  <2> QED BY <2>1, <2>2, <2>3
<1>7. \A k \in K : TrialAt(r, q, A[k])
  BY <1>2, <1>6 DEF TrialAt
<1> QED BY <1>2, <1>4, <1>5, <1>7 DEF A, K, a

LEMMA AnswersAre ==
  ASSUME RedecompAssumption, Ready, NEW r \in Procs, NEW p \in Procs, NEW q \in Procs
  PROVE  TrialDofs(r, p, q) = FlattenSeq(Answers(r, p, q))
<1> DEFINE A == Ids(r, p)
           a == Asked(r, p, q)
           n == Len(a)
           ids == Taken(A, FromRank(r, p, q))
           offs == TrialElemOffsets(r, p, q)
           ofItem(k) == Map(GetElementDofs(q, p2r[q][r][k].elem), LAMBDA d : MyDofOffset(q) + d)
           t == [i \in 1 .. n |-> TrialIndex(r, A[a[i]])]
           u == [i \in 1 .. n |-> ofItem(t[i])]
           ans == Answers(r, p, q)
<1>1. /\ n \in Nat /\ FromRank(r, p, q) \subseteq 1 .. Len(A)
      /\ \A i \in 1 .. n : TrialAt(r, q, A[a[i]])
  BY AskedIs
<1>2. A \in Seq(Sent(r, p)) /\ DOMAIN A = 1 .. Len(A) /\ A = buildSendArrayIDs(r, p)
  BY IdsAre DEF Lists
<1>3. Len(ids) = n /\ DOMAIN ids = 1 .. n /\ \A i \in 1 .. n : ids[i] = A[a[i]]
  <2>1. FromRank(r, p, q) \subseteq DOMAIN A
    BY <1>1, <1>2
  <2>2. ids \in Seq(Sent(r, p)) /\ Len(ids) = Len(a) /\ \A i \in 1 .. Len(a) : ids[i] = A[a[i]]
    BY <1>2, <2>1, TakenIs DEF Asked
  <2> QED BY <2>2
<1>4. Select(buildSendArrayIDs(r, p), LAMBDA i : trialRank[r][pairs[r][i][2]] = q) = ids
  BY <1>2 DEF Select, FromRank, TrialFrom
<1>5. offs = t
  <2>1. offs = Map(ids, LAMBDA i : pairs[r][i][2] - offsets[r][q])
    BY <1>4 DEF TrialElemOffsets
  <2>2. Map(ids, LAMBDA i : pairs[r][i][2] - offsets[r][q]) = [i \in 1 .. n |-> pairs[r][ids[i]][2] - offsets[r][q]] \o <<>>
    BY <1>3 DEF Map
  <2>3. [i \in 1 .. n |-> pairs[r][ids[i]][2] - offsets[r][q]] = t
    BY <1>1, <1>3 DEF TrialIndex, TrialAt
  <2>4. t = [i \in 1 .. n |-> t[i]]
    OBVIOUS
  <2> HIDE DEF t, n, ids
  <2>5. t \o <<>> = t
    BY <1>1, <2>4, TableKept
  <2> QED BY <2>1, <2>2, <2>3, <2>5
<1>6. TrialDofs(r, p, q) = FlattenSeq([i \in DOMAIN offs |-> ofItem(offs[i])] \o <<>>)
  BY DEF TrialDofs, FlatMap, Map
<1>7. [i \in DOMAIN offs |-> ofItem(offs[i])] = u
  <2>1. DOMAIN t = 1 .. n
    OBVIOUS
  <2> HIDE DEF ofItem, t, n, offs
  <2> QED BY <1>5, <2>1
<1>8. \A i \in 1 .. n : u[i] = ans[i]
  <2> SUFFICES ASSUME NEW i \in 1 .. n PROVE u[i] = ans[i]
    OBVIOUS
  <2>1. PICK s : s = TrialOf(r, A[a[i]])
    OBVIOUS
  <2>2. s \in Elems /\ home[s] = q /\ p2r[q][r][t[i]].elem = s
    BY <1>1, <2>1 DEF TrialAt
  <2>3. u[i] = NumbersOn(q, p2r[q][r][t[i]].elem)
    BY DEF ofItem, NumbersOn
  <2>4. u[i] = NumbersOn(q, s)
    <3> HIDE DEF u, t
    <3> QED BY <2>2, <2>3
  <2>5. NumbersOn(home[s], s) = GlobalDofs(s)
    <3>1. MeshIInv
      BY DEF Ready
    <3> QED BY <2>2, <3>1, GlobalDofsAre, Zenon
  <2>6. ans[i] = GlobalDofs(s)
    BY <2>1 DEF Answers
  <2> HIDE DEF u, ans
  <2>7. u[i] = GlobalDofs(s)
    BY <2>2, <2>4, <2>5, Zenon
  <2> QED BY <2>6, <2>7
<1>9. u = [i \in 1 .. n |-> u[i]] /\ ans = [i \in 1 .. n |-> ans[i]]
  BY DEF Answers
<1> HIDE DEF u, n, ans
<1>10. u \o <<>> = u /\ u = ans
  BY <1>1, <1>8, <1>9, TableKept
<1> QED BY <1>6, <1>7, <1>10 DEF ans

\* The answers of a rank are as long as the elements they are for, and sequences of numbers.
LEMMA AnswersFit ==
  ASSUME RedecompAssumption, Ready, NEW r \in Procs, NEW p \in Procs, NEW q \in Procs
  PROVE  LET ans == Answers(r, p, q)
             w == [l \in 1 .. Len(Ids(r, p)) |-> NTrial(r, Ids(r, p)[l])]
         IN  ans \in Seq(Seq(Nat)) /\ Len(ans) = Len(Asked(r, p, q)) /\ Lens(ans) = Kept(w, FromRank(r, p, q))
<1> DEFINE A == Ids(r, p)
           a == Asked(r, p, q)
           n == Len(a)
           ans == Answers(r, p, q)
           w == [l \in 1 .. Len(A) |-> NTrial(r, A[l])]
<1>1. /\ n \in Nat /\ \A i \in 1 .. n : a[i] \in 1 .. Len(A) /\ TrialAt(r, q, A[a[i]])
  BY AskedIs
<1>2. ASSUME NEW i \in 1 .. n PROVE ans[i] \in Seq(Nat) /\ Len(ans[i]) = w[a[i]]
  <2>1. PICK x : x = A[a[i]]
    OBVIOUS
  <2>2. PICK s : s = TrialOf(r, x)
    OBVIOUS
  <2>3. x \in DOMAIN pairs[r] /\ s \in Elems /\ home[s] \in Procs
    BY <1>1, <2>1, <2>2 DEF TrialAt
  <2>4. GlobalDofs(s) \in Seq(Nat) /\ Len(GlobalDofs(s)) = Len(Conn[s])
    <3>1. MeshIInv
      BY DEF Ready
    <3> QED BY <2>3, <3>1, GlobalDofsAre
  <2>5. NTrial(r, x) = Len(Conn[s])
    BY <2>2, <2>3, PairIs
  <2>6. ans[i] = GlobalDofs(s)
    BY <2>1, <2>2 DEF Answers
  <2>7. w[a[i]] = NTrial(r, x)
    BY <1>1, <2>1
  <2> QED BY <2>4, <2>5, <2>6, <2>7
<1>3. ans = [i \in 1 .. n |-> ans[i]]
  BY DEF Answers
<1> HIDE DEF ans, w, n, a
<1>4. ans \in Seq(Seq(Nat)) /\ Len(ans) = n
  BY <1>1, <1>2, <1>3, TableIs
<1>5. Lens(ans) = [i \in 1 .. n |-> w[a[i]]]
  BY <1>2, <1>4 DEF Lens
<1>6. Kept(w, FromRank(r, p, q)) = [i \in 1 .. n |-> w[a[i]]]
  BY DEF Kept, n, a, Asked
<1> QED BY <1>4, <1>5, <1>6 DEF ans, n, a, w

\* The part that is taken for a pair is the one that answers it.
LEMMA ExtentIs ==
  ASSUME RedecompAssumption, Ready, NEW r \in Procs, NEW p \in Procs, NEW k \in 1 .. Len(Ids(r, p)),
         NEW q, q = TrialFrom(r, Ids(r, p)[k])
  PROVE  SubSeq(TrialDofs(r, p, q), ExtentStart(r, Ids(r, p), k) + 1,
                ExtentStart(r, Ids(r, p), k) + NTrial(r, Ids(r, p)[k])) = GlobalDofs(TrialOf(r, Ids(r, p)[k]))
<1> DEFINE A == Ids(r, p)
           a == Asked(r, p, q)
           K == FromRank(r, p, q)
           ans == Answers(r, p, q)
           n == Len(A)
           w == [l \in 1 .. n |-> NTrial(r, A[l])]
<1>1. n \in Nat /\ \A l \in 1 .. n : A[l] \in DOMAIN pairs[r]
  BY IdsAre
<1>2. PICK x : x = A[k]
  OBVIOUS
<1>3. PICK s : s = TrialOf(r, x)
  OBVIOUS
<1>4. PICK m : m = NTrial(r, x)
  OBVIOUS
<1>5. x \in DOMAIN pairs[r] /\ q = TrialFrom(r, x)
  BY <1>1, <1>2
<1>6. q \in Procs /\ s \in Elems /\ home[s] = q /\ m = Len(Conn[s])
  BY <1>3, <1>4, <1>5, PairIs
<1>7. m \in Nat \ {0} /\ GlobalDofs(s) \in Seq(Nat) /\ Len(GlobalDofs(s)) = m
  <2>1. MeshIInv
    BY DEF Ready
  <2> QED BY <1>6, <2>1, DofsHere, GlobalDofsAre
<1>8. k \in K
  BY DEF FromRank
<1>9. Lists(a, K) /\ K \subseteq 1 .. n /\ Len(a) \in Nat
  BY <1>6, AskedIs
<1>10. PICK i \in 1 .. Len(a) : a[i] = k
  BY <1>8, <1>9 DEF Lists
<1>11. \A l \in 1 .. n : w[l] \in Nat
  <2> SUFFICES ASSUME NEW l \in 1 .. n PROVE NTrial(r, A[l]) \in Nat
    OBVIOUS
  <2> QED BY <1>1, PairIs
<1>12. ExtentStart(r, A, k) = Prefix(Masked(w, K, k), k - 1)
  <2>1. ExtentStart(r, A, k) = Prefix([l \in 1 .. k |-> IF TrialFrom(r, A[l]) = q THEN NTrial(r, A[l]) ELSE 0], k - 1)
    BY DEF ExtentStart, TrialFrom
  <2>2. \A l \in 1 .. k : l \in 1 .. n
    BY <1>1
  <2>3. \A l \in 1 .. k : (l \in K) <=> (TrialFrom(r, A[l]) = q)
    BY <2>2 DEF FromRank
  <2>4. Masked(w, K, k) = [l \in 1 .. k |-> IF TrialFrom(r, A[l]) = q THEN NTrial(r, A[l]) ELSE 0]
    <3>1. Masked(w, K, k) = [l \in 1 .. k |-> IF l \in K THEN w[l] ELSE 0]
      BY DEF Masked
    <3>2. \A l \in 1 .. k : w[l] = NTrial(r, A[l])
      BY <2>2
    <3> HIDE DEF w, K
    <3> QED BY <2>3, <3>1, <3>2
  <2> QED BY <2>1, <2>4
<1>13. ans \in Seq(Seq(Nat)) /\ Len(ans) = Len(a) /\ Lens(ans) = Kept(w, K)
  BY <1>6, AnswersFit
<1>14. ans[i] = GlobalDofs(s)
  BY <1>2, <1>3, <1>10 DEF Answers
<1>15. TrialDofs(r, p, q) = FlattenSeq(ans)
  BY <1>6, AnswersAre
<1> HIDE DEF w, ans, n
<1>16. Prefix(Masked(w, K, k), k - 1) = Prefix(Kept(w, K), i - 1)
  <2>1. a = Ascending(K)
    BY DEF Asked
  <2> HIDE DEF K, a
  <2>2. Prefix(Masked(w, K, Ascending(K)[i]), Ascending(K)[i] - 1) = Prefix(Kept(w, K), i - 1)
    <3>1. i \in 1 .. Len(Ascending(K))
      BY <2>1
    <3>2. n \in Nat /\ K \subseteq 1 .. n /\ \A l \in 1 .. n : w[l] \in Nat
      BY <1>1, <1>9, <1>11
    <3>3. MaskKeeps(w, K, i)
      BY <3>1, <3>2, MaskedPrefix
    <3> QED BY <3>3 DEF MaskKeeps
  <2> QED BY <1>10, <2>1, <2>2
<1>17. ExtentStart(r, A, k) = Start(ans, i)
  BY <1>12, <1>13, <1>16 DEF Start
<1>18. SubSeq(FlattenSeq(ans), Start(ans, i) + 1, Start(ans, i) + m) = ans[i]
  BY <1>7, <1>13, <1>14, PartAt
<1> QED BY <1>2, <1>3, <1>4, <1>14, <1>15, <1>17, <1>18

TrialSent(r, to) ==
  LET ids == buildSendArrayIDs(r, to)
      unsorted == [q \in Procs |-> TrialDofs(r, to, q)] \o <<>>
  IN FlatMap([k \in DOMAIN ids |-> k], LAMBDA k :
       SubSeq(unsorted[trialRank[r][pairs[r][ids[k]][2]]],
              ExtentStart(r, ids, k) + 1, ExtentStart(r, ids, k) + NTrial(r, ids[k])))

LEMMA TrialSentIs ==
  ASSUME RedecompAssumption, Ready, NEW r \in Procs, NEW p \in Procs
  PROVE  TrialSent(r, p) = FlattenSeq(TrialParts(r, p))
<1> DEFINE A == Ids(r, p)
           n == Len(A)
           one == [k \in DOMAIN A |-> k]
           U == [q \in Procs |-> TrialDofs(r, p, q)]
           part(k) == SubSeq(U[TrialFrom(r, A[k])], ExtentStart(r, A, k) + 1, ExtentStart(r, A, k) + NTrial(r, A[k]))
           t == TrialParts(r, p)
           u == [k \in 1 .. n |-> part(k)]
           B == buildSendArrayIDs(r, p)
           oneB == [k \in DOMAIN B |-> k]
           raw(k) == SubSeq((U \o <<>>)[trialRank[r][pairs[r][B[k]][2]]],
                            ExtentStart(r, B, k) + 1, ExtentStart(r, B, k) + NTrial(r, B[k]))
<1>1. n \in Nat /\ DOMAIN A = 1 .. n /\ A = buildSendArrayIDs(r, p) /\ \A k \in 1 .. n : A[k] \in DOMAIN pairs[r]
  BY IdsAre DEF Lists
<1>2. U \o <<>> = U
  <2>1. P \in Nat /\ Procs = 1 .. P
    BY DEF RedecompAssumption, Procs
  <2>2. U = [q \in 1 .. P |-> U[q]]
    BY <2>1
  <2> HIDE DEF U
  <2> QED BY <2>1, <2>2, TableKept
<1>3. TrialSent(r, p) = FlattenSeq([k \in DOMAIN oneB |-> raw(oneB[k])] \o <<>>)
  BY DEF TrialSent, FlatMap, Map
<1>4. TrialSent(r, p) = FlattenSeq([k \in DOMAIN one |-> part(one[k])] \o <<>>)
  <2>1. B = A /\ oneB = one
    BY <1>1
  <2>2. \A k : raw(k) = part(k)
    BY <1>1, <1>2 DEF TrialFrom
  <2> HIDE DEF raw, part, oneB, one
  <2> QED BY <1>3, <2>1, <2>2
<1>5. [k \in DOMAIN one |-> part(one[k])] = u
  <2>1. DOMAIN one = 1 .. n /\ \A k \in 1 .. n : one[k] = k
    BY <1>1
  <2> HIDE DEF one, part
  <2> QED BY <2>1
<1>6. ASSUME NEW k \in 1 .. n PROVE u[k] = t[k]
  <2>1. PICK q : q = TrialFrom(r, A[k])
    OBVIOUS
  <2>2. q \in Procs
    BY <1>1, <2>1, PairIs
  <2>3. u[k] = SubSeq(TrialDofs(r, p, q), ExtentStart(r, A, k) + 1, ExtentStart(r, A, k) + NTrial(r, A[k]))
    BY <2>1, <2>2
  <2>4. t[k] = GlobalDofs(TrialOf(r, A[k]))
    BY DEF TrialParts
  <2>5. SubSeq(TrialDofs(r, p, q), ExtentStart(r, Ids(r, p), k) + 1,
               ExtentStart(r, Ids(r, p), k) + NTrial(r, Ids(r, p)[k])) = GlobalDofs(TrialOf(r, Ids(r, p)[k]))
    BY <2>1, ExtentIs
  <2> QED BY <2>3, <2>4, <2>5
<1>7. t = [k \in 1 .. n |-> t[k]]
  BY DEF TrialParts
<1> HIDE DEF t, part
<1>70. u = [k \in 1 .. n |-> u[k]]
  OBVIOUS
<1> HIDE DEF u, n
<1>8. u \o <<>> = u /\ u = t
  BY <1>1, <1>6, <1>7, <1>70, TableKept
<1> QED BY <1>4, <1>5, <1>8 DEF t

LEMMA TrialsArrive ==
  ASSUME RedecompAssumption, Ready, NEW r \in Procs, NEW p \in Procs
  PROVE  buildRecvTrialElemDofs[p][r] = FlattenSeq(TrialParts(r, p))
<1> DEFINE v == [q \in Procs |-> [s \in Procs |-> TrialSent(s, q)]]
<1>1. v = [q \in Procs |-> [s \in Procs |-> v[q][s]]]
  OBVIOUS
<1>2. buildRecvTrialElemDofs = TableOf(v)
  BY DEF buildRecvTrialElemDofs, Exchanged, TableOf, TrialSent
<1>3. v[p][r] = TrialSent(r, p)
  OBVIOUS
<1> HIDE DEF v
<1>4. buildRecvTrialElemDofs = v
  BY <1>1, <1>2, TablesKept
<1> QED BY <1>3, <1>4, TrialSentIs

ValuesSent == Exchanged(LAMBDA r, to : FlatMap(buildSendArrayIDs(r, to), LAMBDA i : ElementMatrix(r, i)))

LEMMA ValuesComeIn ==
  ASSUME RedecompAssumption, Ready, NEW r \in Procs, NEW p \in Procs
  PROVE  ValuesSent[p][r] = FlattenSeq(ValueParts(r, p))
<1> DEFINE v == [q \in Procs |-> [s \in Procs |-> FlatMap(buildSendArrayIDs(s, q), LAMBDA i : ElementMatrix(s, i))]]
           A == Ids(r, p)
           t == ValueParts(r, p)
<1>1. v = [q \in Procs |-> [s \in Procs |-> v[q][s]]]
  OBVIOUS
<1>2. ValuesSent = TableOf(v)
  BY DEF ValuesSent, Exchanged, TableOf
<1>3. v[p][r] = FlatMap(buildSendArrayIDs(r, p), LAMBDA i : ElementMatrix(r, i))
  OBVIOUS
<1> HIDE DEF v
<1>4. ValuesSent = v
  BY <1>1, <1>2, TablesKept
<1>5. A = buildSendArrayIDs(r, p) /\ Len(A) \in Nat /\ DOMAIN A = 1 .. Len(A)
  BY IdsAre DEF Lists
<1>6. FlatMap(A, LAMBDA i : ElementMatrix(r, i)) = FlattenSeq([k \in DOMAIN A |-> ElementMatrix(r, A[k])] \o <<>>)
  BY DEF FlatMap, Map
<1>7. [k \in DOMAIN A |-> ElementMatrix(r, A[k])] = t
  BY <1>5 DEF ValueParts
<1>8. t = [e \in 1 .. Len(A) |-> t[e]]
  BY DEF ValueParts
<1> HIDE DEF t, A
<1>9. t \o <<>> = t
  BY <1>5, <1>8, TableKept
<1> QED BY <1>3, <1>4, <1>5, <1>6, <1>7, <1>9 DEF t

-----------------------------------------------------------------------------
(* The entries made of what arrives. *)
EntryOf(r, t, s, i, j) == <<LocalDof(t, i), GlobalDof(s, j), <<r, t, s, i, j>>>>
EntryColumn(r, t, s, j) == [i \in 1 .. Len(Conn[t]) |-> EntryOf(r, t, s, i, j)]
EntryColumns(r, t, s) == [j \in 1 .. Len(Conn[s]) |-> EntryColumn(r, t, s, j)]
PairList(r, t, s) == FlattenSeq(EntryColumns(r, t, s))
EntryLists(r, p) == [e \in 1 .. Len(Ids(r, p)) |-> PairList(r, TestOf(r, Ids(r, p)[e]), TrialOf(r, Ids(r, p)[e]))]

EntriesOf(p, r, sizes, tests, trials, values, e) ==
  LET rows == GetElementDofs(p, p2r[p][r][tests[e]].elem)
      trialAt == Prefix([k \in DOMAIN sizes |-> sizes[k][2]], e - 1)
      valueAt == Prefix([k \in DOMAIN sizes |-> sizes[k][1] * sizes[k][2]], e - 1)
      cols == SubSeq(trials, trialAt + 1, trialAt + sizes[e][2])
  IN FlattenSeq([j \in DOMAIN cols |-> [i \in DOMAIN rows |->
       <<rows[i], cols[j], values[valueAt + i + (j - 1) * Len(rows)]>>]])

\* The columns of a pair are those of its trial element.
LEMMA ColumnsAre ==
  ASSUME RedecompAssumption, Ready, NEW r \in Procs, NEW p \in Procs, NEW e \in 1 .. Len(Ids(r, p)), NEW sizes, sizes = SizesSent(r, p)
  PROVE  LET trialAt == Prefix([k \in DOMAIN sizes |-> sizes[k][2]], e - 1)
         IN  SubSeq(FlattenSeq(TrialParts(r, p)), trialAt + 1, trialAt + sizes[e][2]) = GlobalDofs(TrialOf(r, Ids(r, p)[e]))
<1> DEFINE A == Ids(r, p)
           n == Len(A)
           ss == TrialParts(r, p)
           W == [k \in DOMAIN sizes |-> sizes[k][2]]
<1>1. n \in Nat /\ \A k \in 1 .. n : A[k] \in DOMAIN pairs[r]
  BY IdsAre
<1>2. DOMAIN sizes = 1 .. n /\ \A k \in 1 .. n : sizes[k][2] = NTrial(r, A[k])
  BY DEF SizesSent
<1>3. ss = [k \in 1 .. n |-> ss[k]] /\ \A k \in 1 .. n : ss[k] = GlobalDofs(TrialOf(r, A[k]))
  BY DEF TrialParts
<1>4. MeshIInv
  BY DEF Ready
<1> HIDE DEF ss, n
<1>5. ASSUME NEW k \in 1 .. n PROVE ss[k] \in Seq(Nat) /\ Len(ss[k]) = sizes[k][2] /\ sizes[k][2] \in Nat \ {0}
  <2>1. PICK s : s = TrialOf(r, A[k])
    OBVIOUS
  <2>2. s \in Elems /\ home[s] \in Procs /\ sizes[k][2] = Len(Conn[s])
    BY <1>1, <1>2, <2>1, PairIs
  <2>3. GlobalDofs(s) \in Seq(Nat) /\ Len(GlobalDofs(s)) = Len(Conn[s]) /\ Len(Conn[s]) \in Nat \ {0}
    BY <1>4, <2>2, DofsHere, GlobalDofsAre
  <2> QED BY <1>3, <2>1, <2>2, <2>3
<1>6. ss \in Seq(Seq(Nat)) /\ Len(ss) = n
  BY <1>1, <1>3, <1>5, TableIs
<1>7. Lens(ss) = W
  <2>1. Lens(ss) = [k \in 1 .. n |-> Len(ss[k])]
    BY <1>6 DEF Lens
  <2> QED BY <1>2, <1>5, <2>1
<1>8. e \in 1 .. Len(ss) /\ e \in 1 .. n
  BY <1>6 DEF n
<1>9. Start(ss, e) = Prefix(W, e - 1)
  BY <1>7 DEF Start
<1>10. SubSeq(FlattenSeq(ss), Start(ss, e) + 1, Start(ss, e) + sizes[e][2]) = ss[e]
  BY <1>5, <1>6, <1>8, PartAt
<1> QED BY <1>3, <1>8, <1>9, <1>10 DEF ss, n

LEMMA EntriesOfPair ==
  ASSUME RedecompAssumption, Ready, NEW r \in Procs, NEW p \in Procs, NEW e \in 1 .. Len(Ids(r, p))
  PROVE  EntriesOf(p, r, SizesSent(r, p), TestsSent(r, p), FlattenSeq(TrialParts(r, p)), FlattenSeq(ValueParts(r, p)), e)
           = EntryLists(r, p)[e]
<1> DEFINE A == Ids(r, p)
<1>1. PICK x : x = A[e]
  OBVIOUS
<1>2. PICK t, s : t = TestOf(r, x) /\ s = TrialOf(r, x)
  OBVIOUS
<1>3. PICK sizes, tests, trials, values :
        sizes = SizesSent(r, p) /\ tests = TestsSent(r, p) /\ trials = FlattenSeq(TrialParts(r, p)) /\ values = FlattenSeq(ValueParts(r, p))
  OBVIOUS
<1>4. x \in Sent(r, p) /\ x \in DOMAIN pairs[r]
  BY <1>1, IdsAre
<1>5. /\ t \in Elems /\ home[t] = p /\ s \in Elems /\ home[s] \in Procs
      /\ NTest(r, x) = Len(Conn[t]) /\ NTrial(r, x) = Len(Conn[s])
      /\ p2r[p][r][TestIndex(r, x, p)].elem = t
  BY <1>2, <1>4, PairIs
<1>6. MeshIInv
  BY DEF Ready
<1>7. PICK rows : rows = GetElementDofs(p, t)
  OBVIOUS
<1>8. PICK cols : cols = GlobalDofs(s)
  OBVIOUS
<1>9. PICK m, w : m = Len(Conn[t]) /\ w = Len(Conn[s])
  OBVIOUS
<1>10. /\ DOMAIN rows = 1 .. m /\ Len(rows) = m /\ \A i \in 1 .. m : rows[i] = LocalDof(t, i)
  <2>1. rows \in Seq(Nat) /\ Len(rows) = m /\ \A i \in 1 .. m : rows[i] = LocalDof(t, i)
    BY <1>5, <1>6, <1>7, <1>9, DofsHere
  <2> QED BY <2>1
<1>11. DOMAIN cols = 1 .. w /\ \A j \in 1 .. w : cols[j] = GlobalDof(s, j)
  BY <1>8, <1>9 DEF GlobalDofs
<1>12. GetElementDofs(p, p2r[p][r][tests[e]].elem) = rows
  <2>1. tests[e] = TestIndex(r, x, p)
    BY <1>1, <1>3 DEF TestsSent
  <2> QED BY <1>5, <1>7, <2>1
<1>13. PICK trialAt, valueAt : /\ trialAt = Prefix([k \in DOMAIN sizes |-> sizes[k][2]], e - 1)
                               /\ valueAt = Prefix([k \in DOMAIN sizes |-> sizes[k][1] * sizes[k][2]], e - 1)
  OBVIOUS
<1>14. SubSeq(trials, trialAt + 1, trialAt + sizes[e][2]) = cols
  BY <1>1, <1>2, <1>3, <1>8, <1>13, ColumnsAre
<1>15. ASSUME NEW i \in 1 .. m, NEW j \in 1 .. w PROVE values[valueAt + i + (j - 1) * Len(rows)] = <<r, t, s, i, j>>
  <2>1. i \in 1 .. NTest(r, Ids(r, p)[e]) /\ j \in 1 .. NTrial(r, Ids(r, p)[e]) /\ NTest(r, Ids(r, p)[e]) = m
    BY <1>1, <1>5, <1>9
  <2>2. values[valueAt + i + (j - 1) * NTest(r, Ids(r, p)[e])] = Symbol(r, Ids(r, p)[e], i, j)
    BY <1>3, <1>13, <2>1, ValueAt
  <2>3. Symbol(r, Ids(r, p)[e], i, j) = <<r, t, s, i, j>>
    BY <1>1, <1>2 DEF Symbol, TestOf, TrialOf
  <2> QED BY <1>10, <2>1, <2>2, <2>3
<1> DEFINE raw == [j \in DOMAIN cols |-> [i \in DOMAIN rows |-> <<rows[i], cols[j], values[valueAt + i + (j - 1) * Len(rows)]>>]]
<1>16. EntriesOf(p, r, sizes, tests, trials, values, e) = FlattenSeq(raw)
  BY <1>12, <1>13, <1>14 DEF EntriesOf
<1>17. ASSUME NEW j \in 1 .. w
       PROVE  [i \in DOMAIN rows |-> <<rows[i], cols[j], values[valueAt + i + (j - 1) * Len(rows)]>>] = EntryColumn(r, t, s, j)
  <2>1. \A i \in 1 .. m : <<rows[i], cols[j], values[valueAt + i + (j - 1) * Len(rows)]>> = EntryOf(r, t, s, i, j)
    BY <1>10, <1>11, <1>15 DEF EntryOf
  <2>2. EntryColumn(r, t, s, j) = [i \in 1 .. m |-> EntryOf(r, t, s, i, j)]
    BY <1>9 DEF EntryColumn
  <2> QED BY <1>10, <2>1, <2>2
<1>18. raw = EntryColumns(r, t, s)
  <2>1. EntryColumns(r, t, s) = [j \in 1 .. w |-> EntryColumn(r, t, s, j)]
    BY <1>9 DEF EntryColumns
  <2> QED BY <1>11, <1>17, <2>1
<1>19. EntryLists(r, p)[e] = PairList(r, t, s)
  BY <1>1, <1>2 DEF EntryLists
<1> HIDE DEF raw
<1> QED BY <1>3, <1>16, <1>18, <1>19 DEF PairList

LEMMA EntriesAre ==
  ASSUME RedecompAssumption, Ready, NEW r \in Procs, NEW p \in Procs
  PROVE  Entries(p, r, SizesSent(r, p), TestsSent(r, p), FlattenSeq(TrialParts(r, p)), FlattenSeq(ValueParts(r, p)))
           = FlattenSeq(EntryLists(r, p))
<1> DEFINE tests == TestsSent(r, p)
           one == [e \in DOMAIN tests |-> e]
           raw(e) == EntriesOf(p, r, SizesSent(r, p), tests, FlattenSeq(TrialParts(r, p)), FlattenSeq(ValueParts(r, p)), e)
           n == Len(Ids(r, p))
           u == EntryLists(r, p)
<1>1. n \in Nat
  BY IdsAre
<1>2. Entries(p, r, SizesSent(r, p), tests, FlattenSeq(TrialParts(r, p)), FlattenSeq(ValueParts(r, p)))
        = FlattenSeq([e \in DOMAIN one |-> raw(one[e])] \o <<>>)
  BY DEF Entries, FlatMap, Map, EntriesOf
<1>3. DOMAIN one = 1 .. n /\ \A e \in 1 .. n : one[e] = e
  BY DEF TestsSent
<1>4. \A e \in 1 .. n : raw(e) = u[e]
  BY EntriesOfPair
<1>5. u = [e \in 1 .. n |-> u[e]]
  BY DEF EntryLists
<1> HIDE DEF one, raw, u, n
<1>6. [e \in DOMAIN one |-> raw(one[e])] = u
  BY <1>3, <1>4, <1>5
<1>7. u \o <<>> = u
  BY <1>1, <1>5, TableKept
<1> QED BY <1>2, <1>6, <1>7 DEF u

PairEntries(r, t, s) == {EntryOf(r, t, s, i, j) : i \in 1 .. Len(Conn[t]), j \in 1 .. Len(Conn[s])}
RankEntries(r, p) == UNION {PairEntries(r, TestOf(r, i), TrialOf(r, i)) : i \in Sent(r, p)}

\* An entry tells what it is of.
Tells(x, r, t, s, i, j) == x[3] = <<r, t, s, i, j>>

LEMMA EntryTells == ASSUME NEW r, NEW t, NEW s, NEW i, NEW j PROVE Tells(EntryOf(r, t, s, i, j), r, t, s, i, j)
BY DEF EntryOf, Tells

LEMMA Appended == ASSUME NEW r, NEW t, NEW s, NEW k, NEW l PROVE <<r, t, s>> \o <<k, l>> = <<r, t, s, k, l>>
<1>1. PICK a, b, c, T : a = <<r, t, s>> /\ b = <<k, l>> /\ c = <<r, t, s, k, l>> /\ T = {r, t, s, k, l}
  OBVIOUS
<1>2. a \in Seq(T) /\ b \in Seq(T) /\ c \in Seq(T) /\ Len(a) = 3 /\ Len(b) = 2 /\ Len(c) = 5
  BY <1>1
<1>3. PICK d : d = a \o b
  OBVIOUS
<1>4. d \in Seq(T) /\ Len(d) = 5 /\ (\A i \in 1 .. 3 : d[i] = a[i]) /\ (\A i \in 1 .. 2 : d[3 + i] = b[i])
  <2>1. /\ a \o b \in Seq(T) /\ Len(a \o b) = Len(a) + Len(b)
        /\ \A i \in 1 .. Len(a) : (a \o b)[i] = a[i]
        /\ \A i \in 1 .. Len(b) : (a \o b)[Len(a) + i] = b[i]
    <3>1. a \in Seq(T)
      BY <1>2
    <3>2. b \in Seq(T)
      BY <1>2
    <3>3. PICK m, n : m = Len(a) /\ n = Len(b)
      OBVIOUS
    <3>4. /\ a \o b \in Seq(T) /\ Len(a \o b) = m + n
          /\ \A i \in 1 .. m : (a \o b)[i] = a[i]
          /\ \A i \in 1 .. n : (a \o b)[m + i] = b[i]
      BY <3>1, <3>2, <3>3, JoinedAt
    <3> QED BY <3>3, <3>4
  <2> QED BY <1>2, <1>3, <2>1
<1>5. d[1] = r /\ d[2] = t /\ d[3] = s /\ d[3 + 1] = k /\ d[3 + 2] = l
  <2>1. 1 \in 1 .. 3 /\ 2 \in 1 .. 3 /\ 3 \in 1 .. 3 /\ 1 \in 1 .. 2 /\ 2 \in 1 .. 2
    OBVIOUS
  <2>2. d[1] = a[1] /\ d[2] = a[2] /\ d[3] = a[3] /\ d[3 + 1] = b[1] /\ d[3 + 2] = b[2]
    BY <1>4, <2>1
  <2> QED BY <1>1, <2>2
<1>6. \A i \in 1 .. 5 : d[i] = c[i]
  <2>1. 3 + 1 = 4 /\ 3 + 2 = 5
    OBVIOUS
  <2>2. \A i \in 1 .. 5 : i = 1 \/ i = 2 \/ i = 3 \/ i = 4 \/ i = 5
    OBVIOUS
  <2>3. d[1] = c[1] /\ d[2] = c[2] /\ d[3] = c[3] /\ d[4] = c[4] /\ d[5] = c[5]
    BY <1>1, <1>5, <2>1
  <2> QED BY <2>2, <2>3
<1>7. d = c
  <2>1. d \in Seq(T) /\ Len(d) = Len(c)
    BY <1>2, <1>4
  <2>2. DOMAIN d = 1 .. 5
    BY <1>4
  <2>3. c \in Seq(T)
    BY <1>2
  <2>4. \A i \in DOMAIN d : d[i] = c[i]
    BY <1>6, <2>2
  <2> QED BY <2>1, <2>3, <2>4, SameSeq, Zenon
<1> QED BY <1>1, <1>3, <1>7

LEMMA PairListed ==
  ASSUME NEW r, NEW t, NEW s, Len(Conn[t]) \in Nat, Len(Conn[s]) \in Nat
  PROVE  Lists(PairList(r, t, s), PairEntries(r, t, s))
<1> DEFINE m == Len(Conn[t])
           w == Len(Conn[s])
           ss == EntryColumns(r, t, s)
           X == [j \in 1 .. w |-> {EntryOf(r, t, s, i, j) : i \in 1 .. m}]
<1>1. ASSUME NEW j \in 1 .. w PROVE Lists(ss[j], X[j])
  <2> DEFINE c == EntryColumn(r, t, s, j)
             Y == {EntryOf(r, t, s, i, j) : i \in 1 .. m}
  <2>1. c = [i \in 1 .. m |-> c[i]] /\ \A i \in 1 .. m : c[i] = EntryOf(r, t, s, i, j)
    BY DEF EntryColumn
  <2>2. \A i \in 1 .. m : c[i] \in Y
    BY <2>1
  <2>3. \A y \in Y : \E i \in 1 .. m : c[i] = y
    BY <2>1
  <2>4. ASSUME NEW i \in 1 .. m, NEW k \in 1 .. m, c[i] = c[k] PROVE i = k
    <3>1. Tells(c[i], r, t, s, i, j)
      BY <2>1, EntryTells
    <3>2. Tells(c[k], r, t, s, k, j)
      BY <2>1, EntryTells
    <3> HIDE DEF c
    <3>3. <<r, t, s, i, j>> = <<r, t, s, k, j>>
      BY <2>4, <3>1, <3>2 DEF Tells
    <3> QED BY <3>3
  <2>5. ss[j] = c
    BY DEF EntryColumns
  <2>6. X[j] = Y
    OBVIOUS
  <2> HIDE DEF c, Y, m
  <2>7. c \in Seq(Y) /\ Len(c) = m
    <3>1. m \in Nat
      BY DEF m
    <3> QED BY <2>1, <2>2, <3>1, TableIs
  <2>8. Lists(c, Y)
    BY <2>3, <2>4, <2>7 DEF Lists
  <2> QED BY <2>5, <2>6, <2>8
<1>2. ss = [j \in 1 .. w |-> ss[j]]
  BY DEF EntryColumns
<1>3. Apart(X, w)
  <2> SUFFICES ASSUME NEW p \in 1 .. w, NEW q \in 1 .. w, NEW x, x \in X[p], x \in X[q] PROVE p = q
    BY DEF Apart
  <2>1. PICK i \in 1 .. m : x = EntryOf(r, t, s, i, p)
    OBVIOUS
  <2>2. PICK k \in 1 .. m : x = EntryOf(r, t, s, k, q)
    OBVIOUS
  <2>3. Tells(x, r, t, s, i, p) /\ Tells(x, r, t, s, k, q)
    BY <2>1, <2>2, EntryTells
  <2>4. <<r, t, s, i, p>> = <<r, t, s, k, q>>
    BY <2>3 DEF Tells
  <2> QED BY <2>4
<1>4. AllOf(X, w) = PairEntries(r, t, s)
  <2>1. \A x : x \in AllOf(X, w) <=> \E j \in 1 .. w : x \in X[j]
    BY DEF AllOf
  <2>2. \A j \in 1 .. w : \A x : x \in X[j] <=> \E i \in 1 .. m : x = EntryOf(r, t, s, i, j)
    OBVIOUS
  <2>3. \A x : x \in PairEntries(r, t, s) <=> \E i \in 1 .. m, j \in 1 .. w : x = EntryOf(r, t, s, i, j)
    BY DEF PairEntries
  <2> HIDE DEF X, m, w
  <2>4. \A x : x \in AllOf(X, w) <=> x \in PairEntries(r, t, s)
    BY <2>1, <2>2, <2>3
  <2> QED BY <2>4
<1> HIDE DEF X, ss
<1>5. Lists(FlattenSeq(ss), AllOf(X, w))
  BY <1>1, <1>2, <1>3, FlattenLists
<1> QED BY <1>4, <1>5 DEF PairList, ss

LEMMA RankListed ==
  ASSUME RedecompAssumption, Ready, NEW r \in Procs, NEW p \in Procs
  PROVE  Lists(FlattenSeq(EntryLists(r, p)), RankEntries(r, p))
<1> DEFINE A == Ids(r, p)
           n == Len(A)
           ss == EntryLists(r, p)
           X == [e \in 1 .. n |-> PairEntries(r, TestOf(r, A[e]), TrialOf(r, A[e]))]
<1>1. n \in Nat /\ Lists(A, Sent(r, p)) /\ \A e \in 1 .. n : A[e] \in Sent(r, p) /\ A[e] \in DOMAIN pairs[r]
  BY IdsAre
<1>2. ASSUME NEW e \in 1 .. n PROVE Lists(ss[e], X[e])
  <2>1. PICK t, s : t = TestOf(r, A[e]) /\ s = TrialOf(r, A[e])
    OBVIOUS
  <2>2. Len(Conn[t]) \in Nat /\ Len(Conn[s]) \in Nat
    <3>1. Conn[t] \in Seq(Nat) /\ Conn[s] \in Seq(Nat)
      BY <1>1, <2>1, PairIs
    <3> QED BY <3>1
  <2>3. Lists(PairList(r, t, s), PairEntries(r, t, s))
    BY <2>2, PairListed
  <2>4. ss[e] = PairList(r, t, s)
    BY <2>1 DEF EntryLists
  <2>5. X[e] = PairEntries(r, t, s)
    BY <2>1
  <2> QED BY <2>3, <2>4, <2>5
<1>3. ss = [e \in 1 .. n |-> ss[e]]
  BY DEF EntryLists
<1>4. Apart(X, n)
  <2> SUFFICES ASSUME NEW d \in 1 .. n, NEW e \in 1 .. n, NEW x, x \in X[d], x \in X[e] PROVE d = e
    BY DEF Apart
  <2>1. PICK i, j : x = EntryOf(r, TestOf(r, A[d]), TrialOf(r, A[d]), i, j)
    BY DEF PairEntries
  <2>2. PICK k, l : x = EntryOf(r, TestOf(r, A[e]), TrialOf(r, A[e]), k, l)
    BY DEF PairEntries
  <2>3. TestOf(r, A[d]) = TestOf(r, A[e]) /\ TrialOf(r, A[d]) = TrialOf(r, A[e])
    <3>1. Tells(x, r, TestOf(r, A[d]), TrialOf(r, A[d]), i, j) /\ Tells(x, r, TestOf(r, A[e]), TrialOf(r, A[e]), k, l)
      BY <2>1, <2>2, EntryTells
    <3>2. <<r, TestOf(r, A[d]), TrialOf(r, A[d]), i, j>> = <<r, TestOf(r, A[e]), TrialOf(r, A[e]), k, l>>
      BY <3>1 DEF Tells
    <3> QED BY <3>2
  <2>4. A[d] = A[e]
    <3>1. A[d] \in DOMAIN pairs[r] /\ A[e] \in DOMAIN pairs[r]
      BY <1>1
    <3> HIDE DEF A
    <3> QED BY <2>3, <3>1, PairTells
  <2> QED BY <1>1, <2>4 DEF Lists
<1>5. AllOf(X, n) = RankEntries(r, p)
  <2>1. \A x : x \in AllOf(X, n) <=> \E e \in 1 .. n : x \in X[e]
    BY DEF AllOf
  <2>2. \A e \in 1 .. n : X[e] = PairEntries(r, TestOf(r, A[e]), TrialOf(r, A[e]))
    OBVIOUS
  <2>3. \A x : x \in RankEntries(r, p) <=> \E i \in Sent(r, p) : x \in PairEntries(r, TestOf(r, i), TrialOf(r, i))
    BY DEF RankEntries
  <2>4. \A i \in Sent(r, p) : \E e \in 1 .. n : A[e] = i
    BY <1>1 DEF Lists
  <2> HIDE DEF X, n, A
  <2>5. \A x : x \in AllOf(X, n) <=> x \in RankEntries(r, p)
    BY <1>1, <2>1, <2>2, <2>3, <2>4
  <2> QED BY <2>5
<1> HIDE DEF X, ss
<1>6. Lists(FlattenSeq(ss), AllOf(X, n))
  BY <1>1, <1>2, <1>3, <1>4, FlattenLists
<1> QED BY <1>5, <1>6 DEF ss

\* The pairs of a rank of the parent are those that ranks send to it.
LEMMA OwnedPairsAre ==
  ASSUME RedecompAssumption, Ready, NEW p \in Procs
  PROVE  \A x : x \in OwnedPairsAt(p) <=> \E r \in Procs : \E i \in Sent(r, p) : x = <<r, TestOf(r, i), TrialOf(r, i)>>
<1> DEFINE owned(r) == {y \in ToSet(pairs[r]) : ~IsGhost(r, RankOf(r, y[1]), y[1])}
           named(r, y) == <<elements[r][y[1]].attribute, elements[r][y[2]].attribute>>
<1>1. ASSUME NEW r \in Procs, NEW i \in DOMAIN pairs[r]
      PROVE  /\ named(r, pairs[r][i]) = <<TestOf(r, i), TrialOf(r, i)>> /\ pairs[r][i] \in ToSet(pairs[r])
             /\ i \in Sent(r, p) <=> home[TestOf(r, i)] = p /\ pairs[r][i] \in owned(r)
  <2>1. pairs[r][i] \in ToSet(pairs[r])
    BY DEF ToSet
  <2>2. i \in Sent(r, p) <=> home[TestOf(r, i)] = p /\ ~IsGhost(r, RankOf(r, pairs[r][i][1]), pairs[r][i][1])
    BY PairIs
  <2> QED BY <2>1, <2>2 DEF TestOf, TrialOf
<1>2. ASSUME NEW r \in Procs, NEW y \in owned(r) PROVE \E i \in DOMAIN pairs[r] : y = pairs[r][i]
  BY DEF ToSet
<1>3. \A r \in Procs : \A z : z \in OwnedPairs(r) <=> \E y \in owned(r) : z = named(r, y)
  BY DEF OwnedPairs
<1>4. \A x : x \in OwnedPairsAt(p) <=> \E r \in Procs : \E z \in OwnedPairs(r) : home[z[1]] = p /\ x = <<r, z[1], z[2]>>
  BY DEF OwnedPairsAt
<1>5. \A r \in Procs : Sent(r, p) \subseteq DOMAIN pairs[r]
  BY DEF Sent
<1> HIDE DEF owned, named
<1>6. ASSUME NEW x, x \in OwnedPairsAt(p) PROVE \E r \in Procs : \E i \in Sent(r, p) : x = <<r, TestOf(r, i), TrialOf(r, i)>>
  <2>0. PICK r \in Procs : \E z \in OwnedPairs(r) : home[z[1]] = p /\ x = <<r, z[1], z[2]>>
    BY <1>4, <1>6
  <2>1. PICK z \in OwnedPairs(r) : home[z[1]] = p /\ x = <<r, z[1], z[2]>>
    BY <2>0
  <2>2. PICK y \in owned(r) : z = named(r, y)
    BY <1>3, <2>1
  <2>3. PICK i \in DOMAIN pairs[r] : y = pairs[r][i]
    BY <1>2
  <2>4. z = <<TestOf(r, i), TrialOf(r, i)>>
    BY <1>1, <2>2, <2>3
  <2>5. z[1] = TestOf(r, i) /\ z[2] = TrialOf(r, i)
    BY <2>4
  <2>6. i \in Sent(r, p)
    BY <1>1, <2>1, <2>3, <2>5
  <2> QED BY <2>1, <2>5, <2>6
<1>7. ASSUME NEW r \in Procs, NEW i \in Sent(r, p) PROVE <<r, TestOf(r, i), TrialOf(r, i)>> \in OwnedPairsAt(p)
  <2>1. i \in DOMAIN pairs[r]
    BY <1>5
  <2>2. PICK z : z = <<TestOf(r, i), TrialOf(r, i)>>
    OBVIOUS
  <2>3. z[1] = TestOf(r, i) /\ z[2] = TrialOf(r, i)
    BY <2>2
  <2>4. home[z[1]] = p /\ pairs[r][i] \in owned(r) /\ z = named(r, pairs[r][i])
    BY <1>1, <2>1, <2>2, <2>3
  <2>5. z \in OwnedPairs(r)
    BY <1>3, <2>4
  <2> QED BY <1>4, <2>3, <2>4, <2>5
<1> QED BY <1>6, <1>7

OwnedOf(y) ==
  {<<LocalDof(y[2], i), GlobalDof(y[3], j), y \o <<i, j>>>> : i \in DOMAIN Conn[y[2]], j \in DOMAIN Conn[y[3]]}

LEMMA OwnedOfIs ==
  ASSUME NEW r, NEW t, NEW s, Conn[t] \in Seq(Nat), Conn[s] \in Seq(Nat)
  PROVE  OwnedOf(<<r, t, s>>) = PairEntries(r, t, s)
<1>1. PICK y : y = <<r, t, s>>
  OBVIOUS
<1>2. y[2] = t /\ y[3] = s
  BY <1>1
<1>3. DOMAIN Conn[t] = 1 .. Len(Conn[t]) /\ DOMAIN Conn[s] = 1 .. Len(Conn[s])
  OBVIOUS
<1>4. ASSUME NEW k, NEW l PROVE <<LocalDof(y[2], k), GlobalDof(y[3], l), y \o <<k, l>>>> = EntryOf(r, t, s, k, l)
  <2>1. y \o <<k, l>> = <<r, t, s, k, l>>
    BY <1>1, Appended
  <2> QED BY <1>2, <2>1 DEF EntryOf
<1>5. \A x : x \in OwnedOf(y) <=> \E k \in 1 .. Len(Conn[t]), l \in 1 .. Len(Conn[s]) : x = EntryOf(r, t, s, k, l)
  <2>1. \A x : x \in OwnedOf(y) <=> \E k \in DOMAIN Conn[y[2]], l \in DOMAIN Conn[y[3]] :
                  x = <<LocalDof(y[2], k), GlobalDof(y[3], l), y \o <<k, l>>>>
    BY DEF OwnedOf
  <2>2. DOMAIN Conn[y[2]] = 1 .. Len(Conn[t]) /\ DOMAIN Conn[y[3]] = 1 .. Len(Conn[s])
    BY <1>2, <1>3
  <2>3. ASSUME NEW x, x \in OwnedOf(y) PROVE \E k \in 1 .. Len(Conn[t]), l \in 1 .. Len(Conn[s]) : x = EntryOf(r, t, s, k, l)
    <3>1. PICK k \in DOMAIN Conn[y[2]], l \in DOMAIN Conn[y[3]] : x = <<LocalDof(y[2], k), GlobalDof(y[3], l), y \o <<k, l>>>>
      BY <2>1, <2>3, Zenon
    <3>2. x = EntryOf(r, t, s, k, l)
      BY <1>4, <3>1, Zenon
    <3> QED BY <2>2, <3>2
  <2>4. ASSUME NEW k \in 1 .. Len(Conn[t]), NEW l \in 1 .. Len(Conn[s]) PROVE EntryOf(r, t, s, k, l) \in OwnedOf(y)
    <3>1. EntryOf(r, t, s, k, l) = <<LocalDof(y[2], k), GlobalDof(y[3], l), y \o <<k, l>>>>
      BY <1>4, Zenon
    <3>2. k \in DOMAIN Conn[y[2]] /\ l \in DOMAIN Conn[y[3]]
      BY <2>2
    <3> QED BY <2>1, <3>1, <3>2, Zenon
  <2> QED BY <2>3, <2>4, Zenon
<1>6. \A x : x \in PairEntries(r, t, s) <=> \E k \in 1 .. Len(Conn[t]), l \in 1 .. Len(Conn[s]) : x = EntryOf(r, t, s, k, l)
  BY DEF PairEntries
<1>7. \A x : x \in OwnedOf(y) <=> x \in PairEntries(r, t, s)
  BY <1>5, <1>6
<1>8. OwnedOf(y) = PairEntries(r, t, s)
  <2>1. PICK S, U : S = OwnedOf(y) /\ U = PairEntries(r, t, s)
    OBVIOUS
  <2>2. \A x : x \in S <=> x \in U
    BY <1>7, <2>1
  <2>3. S = U
    BY <2>2
  <2> QED BY <2>1, <2>3
<1> QED BY <1>1, <1>8

\* They are the entries that ranks send.
LEMMA OwnedEntriesAre ==
  ASSUME RedecompAssumption, Ready, NEW p \in Procs
  PROVE  \A x : x \in OwnedEntries(p) <=> \E r \in Procs : x \in RankEntries(r, p)
<1>1. \A x : x \in OwnedEntries(p) <=> \E y \in OwnedPairsAt(p) : x \in OwnedOf(y)
  <2>1. OwnedEntries(p) = UNION {OwnedOf(y) : y \in OwnedPairsAt(p)}
    BY DEF OwnedEntries, OwnedOf
  <2> QED BY <2>1
<1>2. ASSUME NEW r \in Procs, NEW i \in Sent(r, p)
      PROVE  OwnedOf(<<r, TestOf(r, i), TrialOf(r, i)>>) = PairEntries(r, TestOf(r, i), TrialOf(r, i))
  <2>1. i \in DOMAIN pairs[r]
    BY DEF Sent
  <2>2. PICK t, s : t = TestOf(r, i) /\ s = TrialOf(r, i)
    OBVIOUS
  <2>3. Conn[t] \in Seq(Nat) /\ Conn[s] \in Seq(Nat)
    BY <2>1, <2>2, PairIs
  <2>4. OwnedOf(<<r, t, s>>) = PairEntries(r, t, s)
    BY <2>3, OwnedOfIs
  <2> QED BY <2>2, <2>4
<1>3. \A r : \A x : x \in RankEntries(r, p) <=> \E i \in Sent(r, p) : x \in PairEntries(r, TestOf(r, i), TrialOf(r, i))
  BY DEF RankEntries
<1>4. ASSUME NEW x, x \in OwnedEntries(p) PROVE \E r \in Procs : x \in RankEntries(r, p)
  <2>1. PICK y \in OwnedPairsAt(p) : x \in OwnedOf(y)
    BY <1>1, <1>4
  <2>2. PICK r \in Procs : \E i \in Sent(r, p) : y = <<r, TestOf(r, i), TrialOf(r, i)>>
    BY OwnedPairsAre
  <2>3. PICK i \in Sent(r, p) : y = <<r, TestOf(r, i), TrialOf(r, i)>>
    BY <2>2
  <2>4. x \in PairEntries(r, TestOf(r, i), TrialOf(r, i))
    BY <1>2, <2>1, <2>3
  <2> QED BY <1>3, <2>4
<1>5. ASSUME NEW r \in Procs, NEW x \in RankEntries(r, p) PROVE x \in OwnedEntries(p)
  <2>1. PICK i \in Sent(r, p) : x \in PairEntries(r, TestOf(r, i), TrialOf(r, i))
    BY <1>3
  <2>2. PICK y : y = <<r, TestOf(r, i), TrialOf(r, i)>>
    OBVIOUS
  <2>3. y \in OwnedPairsAt(p)
    BY <2>2, OwnedPairsAre
  <2>4. x \in OwnedOf(y)
    BY <1>2, <2>1, <2>2
  <2> QED BY <1>1, <2>3, <2>4
<1> QED BY <1>4, <1>5

\* The entries are those of the pairs that owners computed, each once.
LEMMA AllListed ==
  ASSUME RedecompAssumption, Ready, NEW p \in Procs
  PROVE  Lists(ReceivedEntries[p], OwnedEntries(p))
<1> DEFINE ss == [r \in Procs |-> FlattenSeq(EntryLists(r, p))]
           X == [r \in 1 .. P |-> RankEntries(r, p)]
           arrive(q) == [r \in Procs |-> Entries(q, r, buildRecvMatSizes[q][r], buildRecvTestElemOffsets[q][r],
                                                  buildRecvTrialElemDofs[q][r], ValuesSent[q][r])]
           all == [q \in Procs |-> FlattenSeq(arrive(q))]
<1>1. P \in Nat /\ Procs = 1 .. P
  BY DEF RedecompAssumption, Procs
<1>2. ReceivedEntries = all \o <<>>
  BY DEF ReceivedEntries, ValuesSent
<1>3. arrive(p) = ss
  <2>1. ASSUME NEW r \in Procs
        PROVE  Entries(p, r, buildRecvMatSizes[p][r], buildRecvTestElemOffsets[p][r], buildRecvTrialElemDofs[p][r],
                       ValuesSent[p][r]) = FlattenSeq(EntryLists(r, p))
    BY SizesArrive, TestsArrive, TrialsArrive, ValuesComeIn, EntriesAre
  <2> QED BY <2>1
<1>4. all[p] = FlattenSeq(arrive(p))
  OBVIOUS
<1> HIDE DEF arrive
<1>5. all = [q \in 1 .. P |-> all[q]]
  BY <1>1
<1> HIDE DEF all
<1>6. ReceivedEntries = all
  BY <1>1, <1>2, <1>5, TableKept
<1>7. ASSUME NEW r \in 1 .. P PROVE Lists(ss[r], X[r])
  BY <1>1, RankListed
<1>8. ss = [r \in 1 .. P |-> ss[r]]
  BY <1>1
<1>9. Apart(X, P)
  <2> SUFFICES ASSUME NEW q \in 1 .. P, NEW r \in 1 .. P, NEW x, x \in X[q], x \in X[r] PROVE q = r
    BY DEF Apart
  <2>1. PICK t, s, i, j : x = EntryOf(q, t, s, i, j)
    BY DEF RankEntries, PairEntries
  <2>2. PICK u, v, k, l : x = EntryOf(r, u, v, k, l)
    BY DEF RankEntries, PairEntries
  <2>3. Tells(x, q, t, s, i, j) /\ Tells(x, r, u, v, k, l)
    BY <2>1, <2>2, EntryTells
  <2>4. <<q, t, s, i, j>> = <<r, u, v, k, l>>
    BY <2>3 DEF Tells
  <2> QED BY <2>4
<1>10. AllOf(X, P) = OwnedEntries(p)
  <2>1. \A x : x \in AllOf(X, P) <=> \E r \in Procs : x \in RankEntries(r, p)
    BY <1>1 DEF AllOf
  <2> HIDE DEF X
  <2>2. \A x : x \in AllOf(X, P) <=> x \in OwnedEntries(p)
    BY <2>1, OwnedEntriesAre
  <2> QED BY <2>2
<1> HIDE DEF X, ss
<1>11. Lists(FlattenSeq(ss), AllOf(X, P))
  BY <1>1, <1>7, <1>8, <1>9, FlattenLists
<1> QED BY <1>3, <1>4, <1>6, <1>10, <1>11

-----------------------------------------------------------------------------
(* Sums of entries, dense and sorted. *)

\* A value names its entry; rows are those of the parent.
ValuesName(O) == \A x, y \in O : x[3] = y[3] => x = y
InRows(O, rows) == \A x \in O : x[1] \in 1 .. rows /\ x[2] \in Nat

LEMMA OwnedEntriesName ==
  ASSUME RedecompAssumption, Ready, NEW p \in Procs
  PROVE  ValuesName(OwnedEntries(p)) /\ InRows(OwnedEntries(p), Len(parentVerts[p]))
<1> DEFINE rows == Len(parentVerts[p])
<1>1. ASSUME NEW x \in OwnedEntries(p)
      PROVE  \E r, t, s, i, j : x = EntryOf(r, t, s, i, j) /\ x[1] \in 1 .. rows /\ x[2] \in Nat
  <2>1. PICK r \in Procs : x \in RankEntries(r, p)
    BY OwnedEntriesAre
  <2>2. PICK k \in Sent(r, p) : x \in PairEntries(r, TestOf(r, k), TrialOf(r, k))
    BY <2>1 DEF RankEntries
  <2>3. PICK t, s : t = TestOf(r, k) /\ s = TrialOf(r, k)
    OBVIOUS
  <2>4. PICK i \in 1 .. Len(Conn[t]), j \in 1 .. Len(Conn[s]) : x = EntryOf(r, t, s, i, j)
    BY <2>2, <2>3 DEF PairEntries
  <2>5. k \in DOMAIN pairs[r]
    BY DEF Sent
  <2>6. t \in Elems /\ home[t] = p /\ s \in Elems /\ home[s] \in Procs
    BY <2>3, <2>5, PairIs
  <2>7. MeshIInv
    BY DEF Ready
  <2>8. LocalDof(t, i) \in 1 .. rows
    BY <2>6, <2>7, DofsHere
  <2>9. GlobalDof(s, j) \in Nat
    <3>1. PICK D : D = GlobalDofs(s)
      OBVIOUS
    <3>2. D \in Seq(Nat) /\ Len(D) = Len(Conn[s]) /\ D[j] = GlobalDof(s, j)
      BY <2>6, <2>7, <3>1, GlobalDofsAre
    <3> QED BY <3>2
  <2>10. x[1] = LocalDof(t, i) /\ x[2] = GlobalDof(s, j)
    BY <2>4 DEF EntryOf
  <2> QED BY <2>4, <2>8, <2>9, <2>10
<1>2. InRows(OwnedEntries(p), rows)
  BY <1>1 DEF InRows
<1>3. ASSUME NEW x \in OwnedEntries(p), NEW y \in OwnedEntries(p), x[3] = y[3] PROVE x = y
  <2>1. PICK r, t, s, i, j : x = EntryOf(r, t, s, i, j)
    BY <1>1
  <2>2. PICK q, u, v, k, l : y = EntryOf(q, u, v, k, l)
    BY <1>1
  <2>3. Tells(x, r, t, s, i, j) /\ Tells(y, q, u, v, k, l)
    BY <2>1, <2>2, EntryTells
  <2>4. <<r, t, s, i, j>> = <<q, u, v, k, l>>
    BY <1>3, <2>3 DEF Tells
  <2>5. r = q /\ t = u /\ s = v /\ i = k /\ j = l
    BY <2>4
  <2> QED BY <2>1, <2>2, <2>5
<1> QED BY <1>2, <1>3 DEF ValuesName

\* The values of the entries at a place.
At(O, at) == {x[3] : x \in {y \in O : <<y[1], y[2]>> = at}}

LEMMA SumIs ==
  ASSUME NEW Z, NEW O, Lists(Z, O), ValuesName(O), NEW at
  PROVE  Sum(Z, at) = SetToBag(At(O, at))
<1> DEFINE here == {k \in DOMAIN Z : <<Z[k][1], Z[k][2]>> = at}
           V == {Z[k][3] : k \in here}
<1>1. DOMAIN Z = 1 .. Len(Z) /\ \A k \in DOMAIN Z : Z[k] \in O
  BY DEF Lists
<1>2. \A x \in O : \E k \in DOMAIN Z : Z[k] = x
  BY <1>1 DEF Lists
<1>3. V = At(O, at)
  <2>1. ASSUME NEW v \in V PROVE v \in At(O, at)
    <3>1. PICK k \in here : v = Z[k][3]
      OBVIOUS
    <3>2. PICK x \in O : x = Z[k]
      BY <1>1, <3>1
    <3>3. <<x[1], x[2]>> = at
      BY <3>1, <3>2
    <3> QED BY <3>1, <3>2, <3>3 DEF At
  <2>2. ASSUME NEW v \in At(O, at) PROVE v \in V
    <3>1. PICK x \in O : <<x[1], x[2]>> = at /\ v = x[3]
      BY DEF At
    <3>2. PICK k \in DOMAIN Z : Z[k] = x
      BY <1>2
    <3>3. k \in here
      BY <3>1, <3>2
    <3> QED BY <3>1, <3>2, <3>3
  <2> QED BY <2>1, <2>2
<1>4. ASSUME NEW v \in V PROVE Cardinality({k \in here : Z[k][3] = v}) = 1
  <2>1. PICK k \in here : v = Z[k][3]
    OBVIOUS
  <2>2. ASSUME NEW l \in here, Z[l][3] = v PROVE l = k
    <3>1. Z[l] \in O /\ Z[k] \in O
      BY <1>1
    <3>2. Z[l] = Z[k]
      BY <2>1, <2>2, <3>1 DEF ValuesName
    <3>3. k \in 1 .. Len(Z) /\ l \in 1 .. Len(Z)
      BY <1>1
    <3> QED BY <3>2, <3>3 DEF Lists
  <2> HIDE DEF here
  <2>3. {j \in here : Z[j][3] = v} = {k}
    BY <2>1, <2>2
  <2>4. Cardinality({k}) = 1
    BY FS_Singleton
  <2> QED BY <2>3, <2>4
<1>5. Sum(Z, at) = [v \in V |-> Cardinality({k \in here : Z[k][3] = v})]
  BY DEF Sum
<1> HIDE DEF here, V
<1>6. Sum(Z, at) = [v \in V |-> 1]
  BY <1>4, <1>5
<1> QED BY <1>3, <1>6 DEF SetToBag

\* The places of entries.
PlacesIn(O) == {<<x[1], x[2]>> : x \in O}

LEMMA EntryPlacesAre ==
  ASSUME NEW Z, NEW O, Lists(Z, O)
  PROVE  EntryPlaces(Z) = PlacesIn(O) /\ IsFiniteSet(PlacesIn(O))
<1>1. Z \in Seq(O) /\ \A x \in O : \E k \in 1 .. Len(Z) : Z[k] = x
  BY DEF Lists
<1>2. ToSet(Z) = O
  <2>1. \A k \in DOMAIN Z : Z[k] \in O
    BY <1>1
  <2>2. DOMAIN Z = 1 .. Len(Z)
    BY <1>1
  <2> QED BY <1>1, <2>1, <2>2 DEF ToSet
<1>3. EntryPlaces(Z) = PlacesIn(O)
  BY <1>2 DEF EntryPlaces, PlacesIn
<1> DEFINE s == [k \in 1 .. Len(Z) |-> <<Z[k][1], Z[k][2]>>]
<1>4. \A k \in 1 .. Len(Z) : s[k] \in PlacesIn(O)
  <2> SUFFICES ASSUME NEW k \in 1 .. Len(Z) PROVE <<Z[k][1], Z[k][2]>> \in PlacesIn(O)
    OBVIOUS
  <2>1. Z[k] \in O
    BY <1>1
  <2> QED BY <2>1 DEF PlacesIn
<1>5. s = [k \in 1 .. Len(Z) |-> s[k]] /\ Len(Z) \in Nat
  BY <1>1
<1>6. \A x \in O : \E k \in 1 .. Len(Z) : s[k] = <<x[1], x[2]>>
  BY <1>1
<1> HIDE DEF s
<1>7. s \in Seq(PlacesIn(O)) /\ Len(s) = Len(Z)
  BY <1>4, <1>5, TableIs
<1>8. IsFiniteSet(ToSet(s))
  BY <1>7, ValuesFinite
<1>9. ToSet(s) = PlacesIn(O)
  <2>1. DOMAIN s = 1 .. Len(Z)
    BY <1>7
  <2>2. \A y \in PlacesIn(O) : \E k \in 1 .. Len(Z) : s[k] = y
    BY <1>6 DEF PlacesIn
  <2> QED BY <1>4, <2>1, <2>2 DEF ToSet
<1> QED BY <1>3, <1>8, <1>9

\* Sums at all places.
SumsOf(O) == {<<at[1], at[2], SetToBag(At(O, at))>> : at \in PlacesIn(O)}

LEMMA OwnedSumsAre == ASSUME NEW p PROVE OwnedSums(p) = SumsOf(OwnedEntries(p))
BY DEF OwnedSums, SumsOf, At, PlacesIn

LEMMA SumsAre ==
  ASSUME NEW Z, NEW O, Lists(Z, O), ValuesName(O)
  PROVE  {<<at[1], at[2], Sum(Z, at)>> : at \in EntryPlaces(Z)} = SumsOf(O)
<1>1. EntryPlaces(Z) = PlacesIn(O)
  BY EntryPlacesAre
<1>2. \A at : Sum(Z, at) = SetToBag(At(O, at))
  BY SumIs
<1> QED BY <1>1, <1>2 DEF SumsOf

\* Places by row, and in a row by column.
LEMMA RowsSorted ==
  ASSUME NEW Q, IsFiniteSet(Q), \A x \in Q : x[1] \in Nat /\ x[2] \in Nat /\ x = <<x[1], x[2]>>
  PROVE  /\ Lists(Sorted(Q, ByRow), Q) /\ Len(Sorted(Q, ByRow)) = Cardinality(Q)
         /\ \A k \in 1 .. Cardinality(Q) : Cardinality({y \in Q : ByRow(y, Sorted(Q, ByRow)[k])}) = k - 1
<1> DEFINE n == Cardinality(Q)
           R == {x \in Q \X Q : ByRow(x[1], x[2])}
           f == Ranks(R, Q)
           pick(k) == CHOOSE x \in Q : Cardinality({y \in Q : ByRow(y, x)}) = k - 1
           t == [k \in 1 .. n |-> pick(k)]
<1>1. Orders(R, Q)
  <2>1. \A x, y \in Q : <<x, y>> \in R <=> x[1] < y[1] \/ (x[1] = y[1] /\ x[2] < y[2])
    BY DEF ByRow
  <2> HIDE DEF R
  <2>2. \A x \in Q : <<x, x>> \notin R
    BY <2>1
  <2>3. ASSUME NEW x \in Q, NEW y \in Q, x # y PROVE <<x, y>> \in R \/ <<y, x>> \in R
    <3>1. x[1] # y[1] \/ x[2] # y[2]
      BY <2>3
    <3> QED BY <2>1, <3>1
  <2>4. ASSUME NEW x \in Q, NEW y \in Q, NEW z \in Q, <<x, y>> \in R, <<y, z>> \in R PROVE <<x, z>> \in R
    BY <2>1, <2>4
  <2> QED BY <2>2, <2>3, <2>4 DEF Orders
<1>2. \A x \in Q : Before(R, Q, x) = {y \in Q : ByRow(y, x)}
  BY DEF Before
<1> HIDE DEF R
<1>3. (\A k \in 1 .. n : \E x \in Q : f[x] = k - 1) /\ \A x \in Q : f[x] = Cardinality({y \in Q : ByRow(y, x)})
  <2>1. \A k \in 1 .. n : \E x \in Q : f[x] = k - 1
    BY <1>1, RanksAre
  <2> QED BY <1>2, <2>1 DEF Ranks
<1> HIDE DEF f
<1>4. \A k \in 1 .. n : t[k] \in Q /\ f[t[k]] = k - 1
  <2> SUFFICES ASSUME NEW k \in 1 .. n PROVE pick(k) \in Q /\ f[pick(k)] = k - 1
    OBVIOUS
  <2>1. \E x \in Q : Cardinality({y \in Q : ByRow(y, x)}) = k - 1
    BY <1>3
  <2>2. pick(k) \in Q /\ Cardinality({y \in Q : ByRow(y, pick(k))}) = k - 1
    BY <2>1
  <2> HIDE DEF pick
  <2> QED BY <1>3, <2>2
<1>5. Sorted(Q, ByRow) = t \o <<>>
  BY DEF Sorted
<1>6. t = [k \in 1 .. n |-> t[k]]
  <2> HIDE DEF pick, n
  <2> QED OBVIOUS
<1> HIDE DEF t
<1>7. t \o <<>> = t /\ Lists(t, Q) /\ Len(t) = n
  <2>1. \A k \in 1 .. n : t[k] \in Q /\ Ranks(R, Q)[t[k]] = k - 1
    BY <1>4 DEF f
  <2> QED BY <1>1, <1>6, <2>1, RankedLists
<1>8. \A k \in 1 .. n : Cardinality({y \in Q : ByRow(y, t[k])}) = k - 1
  BY <1>3, <1>4
<1> QED BY <1>5, <1>7, <1>8 DEF n

\* A place is in the rows before row k if and only if it is listed before row k starts.
RowsStart(at, I, n) == \A k \in DOMAIN I : I[k] \in 0 .. n /\ \A i \in 1 .. n : at[i][1] < k <=> i <= I[k]

LEMMA StartsSplit ==
  ASSUME NEW rows \in Nat, NEW Q, IsFiniteSet(Q), \A x \in Q : x[1] \in 1 .. rows /\ x[2] \in Nat /\ x = <<x[1], x[2]>>
  PROVE  /\ RowsStart(Sorted(Q, ByRow), RowStarts(Q, rows), Cardinality(Q))
         /\ Len(RowStarts(Q, rows)) = rows + 1 /\ DOMAIN RowStarts(Q, rows) = 1 .. rows + 1
         /\ RowStarts(Q, rows)[1] = 0 /\ RowStarts(Q, rows)[rows + 1] = Cardinality(Q)
<1> DEFINE n == Cardinality(Q)
           at == Sorted(Q, ByRow)
           In(k) == {x \in Q : x[1] < k}
           Pre(i) == {y \in Q : ByRow(y, at[i])}
           I == [k \in 1 .. rows + 1 |-> Cardinality(In(k))]
<1>1. RowStarts(Q, rows) = I
  BY DEF RowStarts
<1>2. /\ Lists(at, Q) /\ Len(at) = n /\ n \in Nat /\ \A i \in 1 .. n : Cardinality(Pre(i)) = i - 1 /\ at[i] \in Q
  <2>0. \A x \in Q : x[1] \in Nat /\ x[2] \in Nat /\ x = <<x[1], x[2]>>
    OBVIOUS
  <2>1. /\ Lists(at, Q) /\ Len(at) = n /\ \A i \in 1 .. n : Cardinality(Pre(i)) = i - 1
    BY <2>0, RowsSorted, Zenon
  <2>2. n \in Nat
    BY FS_CardinalityType
  <2>3. \A i \in 1 .. n : at[i] \in Q
    BY <2>1, <2>2 DEF Lists
  <2> QED BY <2>1, <2>2, <2>3
<1> HIDE DEF at, n
<1>3. \A k : IsFiniteSet(In(k)) /\ Cardinality(In(k)) \in 0 .. n
  <2> SUFFICES ASSUME NEW k PROVE IsFiniteSet(In(k)) /\ Cardinality(In(k)) \in 0 .. n
    OBVIOUS
  <2>1. In(k) \in SUBSET Q
    OBVIOUS
  <2>2. IsFiniteSet(In(k)) /\ Cardinality(In(k)) <= n
    BY <2>1, FS_Subset DEF n
  <2>3. Cardinality(In(k)) \in Nat
    BY <2>2, FS_CardinalityType
  <2> QED BY <1>2, <2>2, <2>3
<1>4. ASSUME NEW k \in 1 .. rows + 1, NEW i \in 1 .. n PROVE at[i][1] < k <=> i <= Cardinality(In(k))
  <2>1. at[i] \in Q /\ Cardinality(Pre(i)) = i - 1 /\ at[i][1] \in Nat /\ at[i][2] \in Nat
    BY <1>2
  <2>2. IsFiniteSet(Pre(i))
    <3>1. Pre(i) \in SUBSET Q
      OBVIOUS
    <3> QED BY <3>1, FS_Subset
  <2>3. CASE at[i][1] < k
    <3>1. Pre(i) \in SUBSET In(k)
      BY <2>1, <2>3 DEF ByRow
    <3>2. at[i] \in In(k) /\ at[i] \notin Pre(i)
      BY <2>1, <2>3 DEF ByRow
    <3>3. Pre(i) # In(k)
      BY <3>2
    <3>4. Cardinality(Pre(i)) <= Cardinality(In(k)) /\ Cardinality(Pre(i)) # Cardinality(In(k))
      BY <1>3, <3>1, <3>3, FS_Subset
    <3> HIDE DEF In, Pre
    <3>5. i - 1 <= Cardinality(In(k)) /\ i - 1 # Cardinality(In(k)) /\ Cardinality(In(k)) \in Nat
      BY <1>3, <2>1, <3>4
    <3> QED BY <1>2, <2>3, <3>5
  <2>4. CASE ~(at[i][1] < k)
    <3>1. In(k) \in SUBSET Pre(i)
      BY <2>1, <2>4 DEF ByRow
    <3>2. Cardinality(In(k)) <= Cardinality(Pre(i))
      BY <2>2, <3>1, FS_Subset
    <3> HIDE DEF In, Pre
    <3>3. Cardinality(In(k)) <= i - 1 /\ Cardinality(In(k)) \in Nat
      BY <1>3, <2>1, <3>2
    <3> QED BY <1>2, <2>4, <3>3
  <2> QED BY <2>3, <2>4
<1>5. Cardinality(In(1)) = 0
  <2>1. In(1) = {}
    OBVIOUS
  <2> HIDE DEF In
  <2> QED BY <2>1, FS_EmptySet
<1>6. Cardinality(In(rows + 1)) = n
  <2>1. In(rows + 1) = Q
    OBVIOUS
  <2> HIDE DEF In
  <2> QED BY <2>1 DEF n
<1> HIDE DEF In
<1>7. I[1] = 0 /\ I[rows + 1] = n /\ \A k \in 1 .. rows + 1 : I[k] = Cardinality(In(k))
  BY <1>5, <1>6
<1>8. DOMAIN I = 1 .. rows + 1 /\ Len(I) = rows + 1
  <2>1. I = [k \in 1 .. rows + 1 |-> I[k]] /\ rows + 1 \in Nat
    OBVIOUS
  <2> HIDE DEF I
  <2> QED BY <2>1, TableKept
<1> HIDE DEF I
<1>9. RowsStart(at, I, n)
  BY <1>3, <1>4, <1>7, <1>8 DEF RowsStart
<1> QED BY <1>1, <1>7, <1>8, <1>9 DEF at, n

\* The entries of a matrix whose rows start where its places say.
EntriesAt(m, at, n) == \A x : x \in CSREntries(m) <=> \E i \in 1 .. n : x = <<at[i][1], m.J[i], m.data[i]>>

LEMMA CSREntriesAre ==
  ASSUME NEW rows \in Nat, NEW n \in Nat, NEW m, NEW at, RowsStart(at, m.I, n), Len(m.I) = rows + 1,
         DOMAIN m.I = 1 .. rows + 1, \A i \in 1 .. n : at[i][1] \in 1 .. rows
  PROVE  EntriesAt(m, at, n)
<1> DEFINE I == m.I
<1>1. \A x : x \in CSREntries(m) <=> \E k \in 1 .. rows : \E i \in I[k] + 1 .. I[k + 1] : x = <<k, m.J[i], m.data[i]>>
  <2>1. Len(I) - 1 = rows
    OBVIOUS
  <2>2. CSREntries(m) = UNION {{<<k, m.J[i], m.data[i]>> : i \in I[k] + 1 .. I[k + 1]} : k \in 1 .. rows}
    BY <2>1, Zenon DEF CSREntries
  <2> QED BY <2>2
<1>2. \A k \in 1 .. rows + 1 : I[k] \in 0 .. n /\ \A i \in 1 .. n : at[i][1] < k <=> i <= I[k]
  BY DEF RowsStart
<1> HIDE DEF I
<1>3. ASSUME NEW k \in 1 .. rows, NEW i \in I[k] + 1 .. I[k + 1] PROVE i \in 1 .. n /\ at[i][1] = k
  <2>1. k \in 1 .. rows + 1 /\ k + 1 \in 1 .. rows + 1
    OBVIOUS
  <2>2. I[k] \in 0 .. n /\ I[k + 1] \in 0 .. n
    BY <1>2, <2>1
  <2>3. i \in 1 .. n /\ ~(i <= I[k]) /\ i <= I[k + 1]
    BY <2>2
  <2>4. ~(at[i][1] < k) /\ at[i][1] < k + 1
    BY <1>2, <2>1, <2>3
  <2> QED BY <2>3, <2>4
<1>4. ASSUME NEW i \in 1 .. n PROVE i \in I[at[i][1]] + 1 .. I[at[i][1] + 1]
  <2>1. PICK k \in 1 .. rows : at[i][1] = k
    OBVIOUS
  <2>2. k \in 1 .. rows + 1 /\ k + 1 \in 1 .. rows + 1
    OBVIOUS
  <2>3. I[k] \in 0 .. n /\ I[k + 1] \in 0 .. n
    BY <1>2, <2>2
  <2>4. ~(i <= I[k]) /\ i <= I[k + 1]
    BY <1>2, <2>1, <2>2
  <2> QED BY <2>1, <2>3, <2>4
<1>5. ASSUME NEW x, x \in CSREntries(m) PROVE \E i \in 1 .. n : x = <<at[i][1], m.J[i], m.data[i]>>
  <2>1. PICK k \in 1 .. rows : \E i \in I[k] + 1 .. I[k + 1] : x = <<k, m.J[i], m.data[i]>>
    BY <1>1, <1>5
  <2>2. PICK i \in I[k] + 1 .. I[k + 1] : x = <<k, m.J[i], m.data[i]>>
    BY <2>1
  <2>3. i \in 1 .. n /\ at[i][1] = k
    BY <1>3
  <2> QED BY <2>2, <2>3
<1>6. ASSUME NEW i \in 1 .. n PROVE <<at[i][1], m.J[i], m.data[i]>> \in CSREntries(m)
  <2>1. PICK k \in 1 .. rows : at[i][1] = k
    OBVIOUS
  <2>2. i \in I[k] + 1 .. I[k + 1]
    BY <1>4, <2>1
  <2> QED BY <1>1, <2>1, <2>2
<1> QED BY <1>5, <1>6 DEF EntriesAt

\* Sorted triplets hold the sums at all places.
LEMMA SortedSumsAre ==
  ASSUME NEW Z, NEW O, Lists(Z, O), ValuesName(O), NEW rows \in Nat, InRows(O, rows), NEW m, m = CSR(Z, rows)
  PROVE  WellFormed(m) /\ CSREntries(m) = SumsOf(O)
<1> DEFINE Q == PlacesIn(O)
           n == Cardinality(Q)
           at == Sorted(Q, ByRow)
           J == [i \in DOMAIN at |-> at[i][2]]
           D == [i \in DOMAIN at |-> Sum(Z, at[i])]
<1>1. EntryPlaces(Z) = Q /\ IsFiniteSet(Q)
  BY EntryPlacesAre
<1>2. \A x \in Q : x[1] \in 1 .. rows /\ x[2] \in Nat /\ x = <<x[1], x[2]>>
  BY DEF InRows, PlacesIn
<1>3. m = [I |-> RowStarts(Q, rows), J |-> J \o <<>>, data |-> D \o <<>>]
  <2>1. m = [I |-> RowStarts(EntryPlaces(Z), rows), J |-> Map(Sorted(EntryPlaces(Z), ByRow), LAMBDA x : x[2]),
             data |-> Map(Sorted(EntryPlaces(Z), ByRow), LAMBDA x : Sum(Z, x))]
    BY Zenon DEF CSR
  <2>2. Map(at, LAMBDA x : x[2]) = J \o <<>>
    BY DEF Map
  <2>3. Map(at, LAMBDA x : Sum(Z, x)) = D \o <<>>
    BY DEF Map
  <2> HIDE DEF J, D, Q
  <2> QED BY <1>1, <2>1, <2>2, <2>3, Zenon
<1> HIDE DEF Q
<1>4. /\ n \in Nat /\ Lists(at, Q) /\ Len(at) = n /\ DOMAIN at = 1 .. n
  <2>1. \A x \in Q : x[1] \in Nat /\ x[2] \in Nat /\ x = <<x[1], x[2]>>
    BY <1>2
  <2>2. Lists(at, Q) /\ Len(at) = n
    BY <1>1, <2>1, RowsSorted, Zenon
  <2>3. n \in Nat
    BY <1>1, FS_CardinalityType
  <2>4. at \in Seq(Q)
    BY <2>2 DEF Lists
  <2> QED BY <2>2, <2>3, <2>4
<1>5. /\ RowsStart(at, RowStarts(Q, rows), n) /\ Len(RowStarts(Q, rows)) = rows + 1
      /\ DOMAIN RowStarts(Q, rows) = 1 .. rows + 1
      /\ RowStarts(Q, rows)[1] = 0 /\ RowStarts(Q, rows)[rows + 1] = n
  BY <1>1, <1>2, StartsSplit, Zenon
<1> HIDE DEF at, n
<1>6. J = [i \in 1 .. n |-> J[i]] /\ D = [i \in 1 .. n |-> D[i]] /\ \A i \in 1 .. n : J[i] = at[i][2] /\ D[i] = Sum(Z, at[i])
  BY <1>4
<1> HIDE DEF J, D
<1>7. J \o <<>> = J /\ D \o <<>> = D /\ Len(J) = n /\ Len(D) = n
  BY <1>4, <1>6, TableKept
<1>8. m.I = RowStarts(Q, rows) /\ m.J = J /\ m.data = D
  BY <1>3, <1>7
<1>9. WellFormed(m)
  BY <1>5, <1>7, <1>8 DEF WellFormed
<1>10. \A i \in 1 .. n : at[i] \in Q /\ at[i][1] \in 1 .. rows /\ D[i] = SetToBag(At(O, at[i]))
  <2> SUFFICES ASSUME NEW i \in 1 .. n PROVE at[i] \in Q /\ at[i][1] \in 1 .. rows /\ D[i] = SetToBag(At(O, at[i]))
    OBVIOUS
  <2>1. at[i] \in Q
    BY <1>4 DEF Lists
  <2>2. PICK x : x = at[i]
    OBVIOUS
  <2>3. Sum(Z, x) = SetToBag(At(O, x))
    BY SumIs
  <2> QED BY <1>2, <1>6, <2>1, <2>2, <2>3
<1>11. \A x : x \in CSREntries(m) <=> \E i \in 1 .. n : x = <<at[i][1], m.J[i], m.data[i]>>
  <2>1. RowsStart(at, m.I, n) /\ Len(m.I) = rows + 1 /\ DOMAIN m.I = 1 .. rows + 1
    BY <1>5, <1>8, Zenon
  <2>2. \A i \in 1 .. n : at[i][1] \in 1 .. rows
    BY <1>10
  <2>3. n \in Nat
    BY <1>4
  <2>4. EntriesAt(m, at, n)
    BY <2>1, <2>2, <2>3, CSREntriesAre
  <2> QED BY <2>4 DEF EntriesAt
<1>12. \A i \in 1 .. n : <<at[i][1], m.J[i], m.data[i]>> = <<at[i][1], at[i][2], SetToBag(At(O, at[i]))>>
  BY <1>6, <1>8, <1>10
<1>13. \A x : x \in SumsOf(O) <=> \E a \in Q : x = <<a[1], a[2], SetToBag(At(O, a))>>
  BY DEF SumsOf, Q
<1>14. \A a \in Q : \E i \in 1 .. n : at[i] = a
  BY <1>4 DEF Lists
<1>15. \A x : x \in CSREntries(m) <=> x \in SumsOf(O)
  <2>1. ASSUME NEW x, x \in CSREntries(m) PROVE x \in SumsOf(O)
    <3>1. PICK i \in 1 .. n : x = <<at[i][1], m.J[i], m.data[i]>>
      BY <1>11, <2>1
    <3> QED BY <1>10, <1>12, <1>13, <3>1
  <2>2. ASSUME NEW x, x \in SumsOf(O) PROVE x \in CSREntries(m)
    <3>1. PICK a \in Q : x = <<a[1], a[2], SetToBag(At(O, a))>>
      BY <1>13, <2>2
    <3>2. PICK i \in 1 .. n : at[i] = a
      BY <1>14
    <3>3. x = <<at[i][1], m.J[i], m.data[i]>>
      BY <1>12, <3>1, <3>2
    <3> QED BY <1>11, <3>3
  <2> QED BY <2>1, <2>2
<1>16. CSREntries(m) = SumsOf(O)
  <2>1. PICK S, U : S = CSREntries(m) /\ U = SumsOf(O)
    OBVIOUS
  <2>2. \A x : x \in S <=> x \in U
    BY <1>15, <2>1
  <2> QED BY <2>1, <2>2
<1> QED BY <1>9, <1>16

\* The matrix of the parent, assembled entry by entry.
LEMMA DenseArrives ==
  ASSUME RedecompAssumption, Ready, TransferDense, NEW p \in Procs
  PROVE  {<<at[1], at[2], parentJ'[p].entries[at]>> : at \in DOMAIN parentJ'[p].entries} = OwnedSums(p)
<1> DEFINE Z == ReceivedEntries[p]
           all(q) == ReceivedEntries[q]
<1>1. Lists(Z, OwnedEntries(p)) /\ ValuesName(OwnedEntries(p))
  BY AllListed, OwnedEntriesName
<1>2. {<<at[1], at[2], Sum(Z, at)>> : at \in EntryPlaces(Z)} = OwnedSums(p)
  BY <1>1, SumsAre, OwnedSumsAre
<1>3. parentJ' = [q \in Procs |-> [entries |-> [at \in EntryPlaces(all(q)) |-> Sum(all(q), at)]]]
  BY DEF TransferDense
<1> HIDE DEF all
<1>4. parentJ'[p].entries = [at \in EntryPlaces(all(p)) |-> Sum(all(p), at)]
  BY <1>3
<1>5. all(p) = Z
  BY DEF all
<1> HIDE DEF Z
<1>6. parentJ'[p].entries = [at \in EntryPlaces(Z) |-> Sum(Z, at)]
  BY <1>4, <1>5
<1> QED BY <1>2, <1>6

\* ... or from sorted triplets.
LEMMA FlatArrives ==
  ASSUME RedecompAssumption, Ready, TransferFlat, NEW p \in Procs
  PROVE  WellFormed(parentJ'[p]) /\ CSREntries(parentJ'[p]) = OwnedSums(p)
<1> DEFINE Z == ReceivedEntries[p]
           rows == Len(parentVerts[p])
           all(q) == ReceivedEntries[q]
<1>1. Lists(Z, OwnedEntries(p)) /\ ValuesName(OwnedEntries(p)) /\ InRows(OwnedEntries(p), rows)
  BY AllListed, OwnedEntriesName
<1>2. rows \in Nat
  <2>1. parentVerts[p] \in Seq(Nat)
    BY DEF Ready, MeshIInv, ParentIs
  <2> QED BY <2>1
<1>3. parentJ' = [q \in Procs |-> CSR(all(q), Len(parentVerts[q]))]
  BY DEF TransferFlat
<1> HIDE DEF all
<1>4. parentJ'[p] = CSR(all(p), Len(parentVerts[p]))
  BY <1>3
<1>5. all(p) = Z
  BY DEF all
<1> HIDE DEF Z
<1>6. PICK m : m = CSR(Z, rows)
  OBVIOUS
<1> HIDE DEF rows
<1>7. WellFormed(m) /\ CSREntries(m) = SumsOf(OwnedEntries(p))
  BY <1>1, <1>2, <1>6, SortedSumsAre
<1>8. parentJ'[p] = m
  BY <1>4, <1>5, <1>6 DEF rows
<1> QED BY <1>7, <1>8, OwnedSumsAre

-----------------------------------------------------------------------------
(* One row per element: what rank r sends to rank p, row by row. *)

\* The elements of a rank are a sequence.
LEMMA ElementsListed ==
  ASSUME RedecompAssumption, MeshIInv, Built, NEW r \in Procs
  PROVE  \E n \in Nat : DOMAIN elements[r] = 1 .. n
<1> DEFINE I == ItemsFrom(p2r, r)
<1>1. PICK T : I \in Seq(Seq(T))
  <2>1. ParentIs
    BY DEF MeshIInv
  <2> QED BY <2>1, FromAre
<1>2. FlattenSeq(I) \in Seq(T)
  BY <1>1, FlattenIs DEF Joins
<1>3. ElementsAre(elements[r], vertIds[r], FlattenSeq(I))
  BY DEF MeshIInv, HasElements, Built
<1> HIDE DEF I
<1>4. PICK f : f = FlattenSeq(I)
  OBVIOUS
<1>5. DOMAIN elements[r] = DOMAIN f
  BY <1>3, <1>4 DEF ElementsAre
<1> QED BY <1>2, <1>4, <1>5

\* Rows in order have every pair once.
LEMMA RowOrderLists ==
  ASSUME RedecompAssumption, Ready, NEW r \in Procs
  PROVE  Lists(RowOrder(r), DOMAIN pairs[r])
<1>1. PICK n \in Nat : DOMAIN elements[r] = 1 .. n
  BY ElementsListed DEF Ready
<1> DEFINE K(e) == {i \in DOMAIN pairs[r] : pairs[r][i][1] = e}
           X == [e \in 1 .. n |-> K(e)]
           one == [e \in DOMAIN elements[r] |-> e]
           raw(e) == Ascending(K(e))
           ss == [e \in 1 .. n |-> raw(e)]
           tt == [k \in DOMAIN one |-> raw(one[k])]
<1>2. RowOrder(r) = FlattenSeq(tt \o <<>>)
  BY DEF RowOrder, FlatMap, Map
<1>3. \A e \in 1 .. n : Lists(raw(e), X[e])
  <2> SUFFICES ASSUME NEW e \in 1 .. n PROVE Lists(raw(e), K(e))
    OBVIOUS
  <2>1. pairs[r] \in Seq(ToSet(pairs[r]))
    BY DEF Ready, PairsListed, Lists
  <2>2. K(e) \subseteq DOMAIN pairs[r]
    OBVIOUS
  <2> HIDE DEF K
  <2> QED BY <2>1, <2>2, PlacesAscend
<1>4. Apart(X, n)
  BY DEF Apart
<1>5. AllOf(X, n) = DOMAIN pairs[r]
  <2>1. \A i \in DOMAIN pairs[r] : pairs[r][i][1] \in 1 .. n
    BY <1>1, PairIs
  <2>2. \A x : x \in AllOf(X, n) <=> \E e \in 1 .. n : x \in K(e)
    BY DEF AllOf
  <2>3. \A x : x \in AllOf(X, n) <=> x \in DOMAIN pairs[r]
    BY <2>1, <2>2
  <2> HIDE DEF X
  <2> QED BY <2>3
<1> HIDE DEF X, raw
<1>6. tt = ss
  BY <1>1
<1>7. ss = [e \in 1 .. n |-> ss[e]] /\ \A e \in 1 .. n : ss[e] = raw(e)
  OBVIOUS
<1> HIDE DEF ss, tt
<1>8. ss \o <<>> = ss
  BY <1>1, <1>7, TableKept
<1>9. Lists(FlattenSeq(ss), AllOf(X, n))
  <2>1. \A e \in 1 .. n : Lists(ss[e], X[e])
    BY <1>3, <1>7
  <2> QED BY <1>1, <1>4, <1>7, <2>1, FlattenLists
<1> QED BY <1>2, <1>5, <1>6, <1>8, <1>9

RowIds(r, p) == Select(RowOrder(r), LAMBDA i : testRank[r][pairs[r][i][1]] = p)

LEMMA RowIdsAre ==
  ASSUME RedecompAssumption, Ready, NEW r \in Procs, NEW p \in Procs
  PROVE  Lists(RowIds(r, p), Sent(r, p))
<1> DEFINE s == RowOrder(r)
           K == {k \in DOMAIN s : testRank[r][pairs[r][s[k]][1]] = p}
<1>1. Lists(s, DOMAIN pairs[r])
  BY RowOrderLists
<1>2. RowIds(r, p) = Taken(s, K)
  BY DEF RowIds, Select
<1>3. K \subseteq DOMAIN s /\ DOMAIN s = 1 .. Len(s) /\ \A k \in DOMAIN s : s[k] \in DOMAIN pairs[r]
  BY <1>1 DEF Lists
<1>4. \A i \in DOMAIN pairs[r] : \E k \in DOMAIN s : s[k] = i
  BY <1>1, <1>3 DEF Lists
<1>5. {s[k] : k \in K} = Sent(r, p)
  <2>1. \A k \in K : s[k] \in Sent(r, p)
    BY <1>3 DEF Sent
  <2>2. \A i \in Sent(r, p) : \E k \in K : s[k] = i
    BY <1>4 DEF Sent
  <2> QED BY <2>1, <2>2
<1> HIDE DEF K, s
<1>6. Lists(Taken(s, K), {s[k] : k \in K})
  BY <1>1, <1>3, TakenLists
<1> QED BY <1>2, <1>5, <1>6

\* The entry of a pair, with the numbers that the parent has for its elements.
Cell(r, t, s) ==
  [row |-> ElemNumber(home[t], t), colRank |-> home[s], col |-> ElemNumber(home[s], s), value |-> <<r, t, s, 1, 1>>]
CellOf(r, i) == Cell(r, TestOf(r, i), TrialOf(r, i))
CellList(r, p) == [k \in 1 .. Len(RowIds(r, p)) |-> CellOf(r, RowIds(r, p)[k])]
CellsFrom(r, p) == {CellOf(r, i) : i \in Sent(r, p)}
CellTells(c, r, t, s) == c.value[1] = r /\ c.value[2] = t /\ c.value[3] = s

LEMMA CellNames == ASSUME NEW r, NEW t, NEW s PROVE CellTells(Cell(r, t, s), r, t, s)
BY DEF CellTells, Cell

LEMMA CellsListed ==
  ASSUME RedecompAssumption, Ready, NEW r \in Procs, NEW p \in Procs
  PROVE  Lists(CellList(r, p), CellsFrom(r, p)) /\ CellList(r, p) \o <<>> = CellList(r, p)
<1> DEFINE s == RowIds(r, p)
           X == Sent(r, p)
           g == [i \in X |-> CellOf(r, i)]
           t == CellList(r, p)
<1>1. Lists(s, X) /\ X \subseteq DOMAIN pairs[r]
  BY RowIdsAre DEF Sent
<1>2. ASSUME NEW i \in X, NEW j \in X, g[i] = g[j] PROVE i = j
  <2>1. CellOf(r, i) = CellOf(r, j)
    BY <1>2
  <2>2. CellTells(CellOf(r, i), r, TestOf(r, i), TrialOf(r, i))
    BY CellNames DEF CellOf
  <2>3. CellTells(CellOf(r, j), r, TestOf(r, j), TrialOf(r, j))
    BY CellNames DEF CellOf
  <2>4. TestOf(r, i) = TestOf(r, j) /\ TrialOf(r, i) = TrialOf(r, j)
    BY <2>1, <2>2, <2>3 DEF CellTells
  <2>5. i \in DOMAIN pairs[r] /\ j \in DOMAIN pairs[r]
    BY <1>1
  <2> QED BY <2>4, <2>5, PairTells
<1>3. \A k \in 1 .. Len(s) : s[k] \in X
  BY <1>1 DEF Lists
<1>4. t = [k \in 1 .. Len(s) |-> t[k]] /\ \A k \in 1 .. Len(s) : t[k] = g[s[k]]
  BY <1>3 DEF CellList
<1>5. {g[i] : i \in X} = CellsFrom(r, p)
  BY DEF CellsFrom
<1> HIDE DEF s, X, g, t
<1>6. t \o <<>> = t /\ Lists(t, {g[i] : i \in X})
  BY <1>1, <1>2, <1>4, ImageLists
<1> QED BY <1>5, <1>6 DEF t

\* The rows of what arrives get the numbers of the parent.
SparseReceived == Exchanged(LAMBDA r, to : SparseSend(r, to))
RowNamed(p, r, x) == [x EXCEPT !.row = ElemNumber(p, p2r[p][r][x.row].elem)]
RowsNamed(p, r) == Map(SparseReceived[p][r], LAMBDA x : RowNamed(p, r, x))
RowSent(r, p, i) ==
  [row |-> TestIndex(r, i, p), colRank |-> TrialFrom(r, i),
   col |-> ElemNumber(TrialFrom(r, i), p2r[TrialFrom(r, i)][r][TrialIndex(r, i)].elem), value |-> Symbol(r, i, 1, 1)]

LEMMA RowSentIs ==
  ASSUME RedecompAssumption, Ready, NEW r \in Procs, NEW p \in Procs, NEW i \in Sent(r, p)
  PROVE  RowNamed(p, r, RowSent(r, p, i)) = CellOf(r, i)
<1>1. i \in DOMAIN pairs[r]
  BY DEF Sent
<1>2. PICK t, s : t = TestOf(r, i) /\ s = TrialOf(r, i)
  OBVIOUS
<1>3. /\ home[t] = p /\ p2r[p][r][TestIndex(r, i, p)].elem = t
      /\ TrialFrom(r, i) = home[s] /\ p2r[TrialFrom(r, i)][r][TrialIndex(r, i)].elem = s
  BY <1>1, <1>2, PairIs
<1>4. Symbol(r, i, 1, 1) = <<r, t, s, 1, 1>>
  BY <1>2 DEF Symbol, TestOf, TrialOf
<1>5. RowSent(r, p, i) = [row |-> TestIndex(r, i, p), colRank |-> home[s], col |-> ElemNumber(home[s], s),
                          value |-> <<r, t, s, 1, 1>>]
  BY <1>3, <1>4, Zenon DEF RowSent
<1>6. PICK x : x = RowSent(r, p, i)
  OBVIOUS
<1>7. PICK v : v = <<r, t, s, 1, 1>>
  OBVIOUS
<1>8. PICK c : c = ElemNumber(home[s], s)
  OBVIOUS
<1>9. PICK k : k = TestIndex(r, i, p)
  OBVIOUS
<1>10. x = [row |-> k, colRank |-> home[s], col |-> c, value |-> v]
  BY <1>5, <1>6, <1>7, <1>8, <1>9, Zenon
<1>11. p2r[p][r][x.row].elem = t
  BY <1>3, <1>9, <1>10
<1>12. RowNamed(p, r, x) = [x EXCEPT !.row = ElemNumber(p, t)]
  BY <1>11, Zenon DEF RowNamed
<1>13. PICK m : m = ElemNumber(p, t)
  OBVIOUS
<1>14. [x EXCEPT !.row = m] = [row |-> m, colRank |-> home[s], col |-> c, value |-> v]
  BY <1>10
<1>15. CellOf(r, i) = [row |-> ElemNumber(home[t], t), colRank |-> home[s], col |-> ElemNumber(home[s], s),
                       value |-> <<r, t, s, 1, 1>>]
  BY <1>2, Zenon DEF CellOf, Cell
<1>16. CellOf(r, i) = [row |-> m, colRank |-> home[s], col |-> c, value |-> v]
  BY <1>3, <1>7, <1>8, <1>13, <1>15, Zenon
<1> QED BY <1>6, <1>12, <1>13, <1>14, <1>16, Zenon

LEMMA RowsNamedAre ==
  ASSUME RedecompAssumption, Ready, NEW r \in Procs, NEW p \in Procs
  PROVE  RowsNamed(p, r) = CellList(r, p)
<1> DEFINE v == [q \in Procs |-> [s \in Procs |-> SparseSend(s, q)]]
           ids == RowIds(r, p)
           t == [k \in DOMAIN ids |-> RowSent(r, p, ids[k])]
           u == [k \in DOMAIN t |-> RowNamed(p, r, t[k])]
<1>1. v = [q \in Procs |-> [s \in Procs |-> v[q][s]]]
  OBVIOUS
<1>2. SparseReceived = TableOf(v)
  BY DEF SparseReceived, Exchanged, TableOf
<1>3. v[p][r] = SparseSend(r, p)
  OBVIOUS
<1> HIDE DEF v
<1>4. SparseReceived[p][r] = SparseSend(r, p)
  BY <1>1, <1>2, <1>3, TablesKept
<1>5. SparseSend(r, p) = t \o <<>>
  BY DEF SparseSend, Map, RowIds, RowSent, TestIndex, TrialFrom, TrialIndex
<1>6. Lists(ids, Sent(r, p)) /\ Len(ids) \in Nat /\ DOMAIN ids = 1 .. Len(ids) /\ \A k \in DOMAIN ids : ids[k] \in Sent(r, p)
  BY RowIdsAre DEF Lists
<1>7. t = [k \in 1 .. Len(ids) |-> t[k]] /\ \A k \in 1 .. Len(ids) : t[k] = RowSent(r, p, ids[k])
  BY <1>6
<1>8. Map(t, LAMBDA x : RowNamed(p, r, x)) = u \o <<>>
  BY DEF Map
<1> HIDE DEF ids, t
<1>9. t \o <<>> = t /\ Len(t) = Len(ids) /\ DOMAIN t = 1 .. Len(ids)
  BY <1>6, <1>7, TableKept
<1>10. u = CellList(r, p)
  <2>1. \A k \in 1 .. Len(ids) : RowNamed(p, r, t[k]) = CellOf(r, ids[k])
    BY <1>6, <1>7, RowSentIs
  <2> QED BY <1>9, <2>1 DEF CellList, ids
<1>11. RowsNamed(p, r) = Map(t, LAMBDA x : RowNamed(p, r, x))
  BY <1>4, <1>5, <1>9, Zenon DEF RowsNamed
<1> HIDE DEF u
<1> QED BY <1>8, <1>10, <1>11, CellsListed

\* All entries that arrive at a rank of the parent.
RowsHere(p) == FlattenSeq([r \in Procs |-> RowsNamed(p, r)])
Cells(p) == {Cell(x[1], x[2], x[3]) : x \in OwnedPairsAt(p)}

LEMMA RowsHereList ==
  ASSUME RedecompAssumption, Ready, NEW p \in Procs
  PROVE  Lists(RowsHere(p), Cells(p))
<1> DEFINE ss == [r \in Procs |-> RowsNamed(p, r)]
           X == [r \in 1 .. P |-> CellsFrom(r, p)]
<1>1. P \in Nat /\ Procs = 1 .. P
  BY DEF RedecompAssumption, Procs
<1>2. ASSUME NEW r \in 1 .. P PROVE Lists(ss[r], X[r])
  BY <1>1, RowsNamedAre, CellsListed
<1>3. ss = [r \in 1 .. P |-> ss[r]]
  BY <1>1
<1>4. Apart(X, P)
  <2> SUFFICES ASSUME NEW q \in 1 .. P, NEW r \in 1 .. P, NEW x, x \in X[q], x \in X[r] PROVE q = r
    BY DEF Apart
  <2>1. PICK i : x = CellOf(q, i)
    BY DEF CellsFrom
  <2>2. PICK j : x = CellOf(r, j)
    BY DEF CellsFrom
  <2>3. CellTells(x, q, TestOf(q, i), TrialOf(q, i)) /\ CellTells(x, r, TestOf(r, j), TrialOf(r, j))
    BY <2>1, <2>2, CellNames DEF CellOf
  <2> QED BY <2>3 DEF CellTells
<1>5. AllOf(X, P) = Cells(p)
  <2>1. \A x : x \in AllOf(X, P) <=> \E r \in Procs : \E i \in Sent(r, p) : x = CellOf(r, i)
    BY <1>1 DEF AllOf, CellsFrom
  <2>2. \A x : x \in Cells(p) <=> \E y \in OwnedPairsAt(p) : x = Cell(y[1], y[2], y[3])
    BY DEF Cells
  <2>3. ASSUME NEW x, x \in Cells(p) PROVE x \in AllOf(X, P)
    <3>1. PICK y \in OwnedPairsAt(p) : x = Cell(y[1], y[2], y[3])
      BY <2>2, <2>3
    <3>2. PICK r \in Procs : \E i \in Sent(r, p) : y = <<r, TestOf(r, i), TrialOf(r, i)>>
      BY OwnedPairsAre
    <3>3. PICK i \in Sent(r, p) : y = <<r, TestOf(r, i), TrialOf(r, i)>>
      BY <3>2
    <3>4. y[1] = r /\ y[2] = TestOf(r, i) /\ y[3] = TrialOf(r, i)
      BY <3>3
    <3>5. x = CellOf(r, i)
      BY <3>1, <3>4 DEF CellOf
    <3> QED BY <2>1, <3>5
  <2>4. ASSUME NEW x, x \in AllOf(X, P) PROVE x \in Cells(p)
    <3>1. PICK r \in Procs : \E i \in Sent(r, p) : x = CellOf(r, i)
      BY <2>1, <2>4
    <3>2. PICK i \in Sent(r, p) : x = CellOf(r, i)
      BY <3>1
    <3>3. PICK y : y = <<r, TestOf(r, i), TrialOf(r, i)>>
      OBVIOUS
    <3>4. y \in OwnedPairsAt(p)
      BY <3>3, OwnedPairsAre
    <3>5. x = Cell(y[1], y[2], y[3])
      BY <3>2, <3>3 DEF CellOf
    <3> QED BY <2>2, <3>4, <3>5
  <2> HIDE DEF X
  <2>5. \A x : x \in AllOf(X, P) <=> x \in Cells(p)
    BY <2>3, <2>4
  <2> QED BY <2>5
<1> HIDE DEF X, ss
<1>6. Lists(FlattenSeq(ss), AllOf(X, P))
  BY <1>1, <1>2, <1>3, <1>4, FlattenLists
<1> QED BY <1>5, <1>6 DEF ss, RowsHere

\* A part of a matrix: entries by row, with a column for each.
RowsOf(s, rows) == [k \in 1 .. rows |-> InRow(s, k)]
ByRows(s, rows) == FlattenSeq(RowsOf(s, rows))
RowLens(s, rows) == [l \in 1 .. rows |-> Len(RowsOf(s, rows)[l])]
IsPart(m, s, rows, g) ==
  /\ m.I = [k \in 1 .. rows + 1 |-> Prefix(RowLens(s, rows), k - 1)]
  /\ m.J = [i \in DOMAIN ByRows(s, rows) |-> g[ByRows(s, rows)[i]]] \o <<>>
  /\ m.data = [i \in DOMAIN ByRows(s, rows) |-> ByRows(s, rows)[i].value] \o <<>>
CellsAre(m, X, g) == \A x : x \in CSREntries(m) <=> \E c \in X : x = <<c.row, g[c], c.value>>

\* Entries by row: all of them, and where rows start.
RowPlaces(F) == [i \in 1 .. Len(F) |-> <<F[i].row>>]
LEMMA ByRowsAre ==
  ASSUME NEW s, NEW X, Lists(s, X), NEW rows \in Nat, \A x \in X : x.row \in 1 .. rows, NEW I,
         I = [k \in 1 .. rows + 1 |-> Prefix(RowLens(s, rows), k - 1)]
  PROVE  /\ Lists(ByRows(s, rows), X)
         /\ I[1] = 0 /\ I[rows + 1] = Len(ByRows(s, rows)) /\ DOMAIN I = 1 .. rows + 1 /\ Len(I) = rows + 1
         /\ RowsStart(RowPlaces(ByRows(s, rows)), I, Len(ByRows(s, rows)))
<1> DEFINE ss == RowsOf(s, rows)
           In(k) == {x \in X : x.row = k}
           Y == [k \in 1 .. rows |-> In(k)]
           F == ByRows(s, rows)
<1>1. s \in Seq(X) /\ DOMAIN s = 1 .. Len(s) /\ (\A j \in DOMAIN s : s[j] \in X) /\ \A x \in X : \E j \in DOMAIN s : s[j] = x
  <2>1. s \in Seq(X) /\ \A x \in X : \E j \in 1 .. Len(s) : s[j] = x
    BY DEF Lists
  <2>2. DOMAIN s = 1 .. Len(s)
    BY <2>1
  <2>3. \A j \in DOMAIN s : s[j] \in X
    BY <2>1
  <2> QED BY <2>1, <2>2, <2>3
<1>2. ASSUME NEW k \in 1 .. rows PROVE Lists(ss[k], Y[k])
  <2> DEFINE K == {j \in DOMAIN s : s[j].row = k}
  <2>1. ss[k] = Taken(s, K)
    BY DEF RowsOf, InRow, Select
  <2>2. {s[j] : j \in K} = In(k)
    <3>1. \A j \in K : s[j] \in In(k)
      BY <1>1
    <3>2. \A x \in In(k) : \E j \in K : s[j] = x
      BY <1>1
    <3> QED BY <3>1, <3>2
  <2>3. K \subseteq DOMAIN s
    OBVIOUS
  <2> HIDE DEF K, In
  <2>4. Lists(Taken(s, K), {s[j] : j \in K})
    BY <2>3, TakenLists
  <2> QED BY <2>1, <2>2, <2>4
<1>3. ss = [k \in 1 .. rows |-> ss[k]]
  BY DEF RowsOf
<1>4. Apart(Y, rows)
  BY DEF Apart
<1>5. AllOf(Y, rows) = X
  <2>1. \A x : x \in AllOf(Y, rows) <=> \E k \in 1 .. rows : x \in In(k)
    BY DEF AllOf
  <2>2. \A x : x \in AllOf(Y, rows) <=> x \in X
    BY <2>1
  <2> HIDE DEF Y
  <2> QED BY <2>2
<1>6. \A k \in 1 .. rows : \A x \in Y[k] : x.row = k
  OBVIOUS
<1> HIDE DEF ss, Y, In
<1>7. Lists(FlattenSeq(ss), AllOf(Y, rows)) /\ ss \in Seq(Seq(X)) /\ Len(ss) = rows
  <2>1. Lists(FlattenSeq(ss), AllOf(Y, rows)) /\ ss \in Seq(Seq(AllOf(Y, rows))) /\ Len(ss) = rows
    BY <1>2, <1>3, <1>4, FlattenLists
  <2> QED BY <1>5, <2>1
<1>8. Lists(F, X) /\ F = FlattenSeq(ss)
  BY <1>5, <1>7 DEF ByRows, ss
<1>9. Joins(F, ss, rows, X)
  BY <1>7, <1>8, FlattenIs
<1>10. PICK n \in Nat : n = Len(F)
  BY <1>8 DEF Lists
<1>11. RowLens(s, rows) = Lens(ss)
  BY <1>7 DEF RowLens, Lens, ss
<1>12. \A k \in 1 .. rows + 1 : I[k] = Prefix(Lens(ss), k - 1)
  BY <1>11
<1>13. I[1] = 0 /\ I[rows + 1] = n
  <2>1. 1 \in 1 .. rows + 1 /\ rows + 1 \in 1 .. rows + 1 /\ 1 - 1 = 0 /\ rows + 1 - 1 = rows
    OBVIOUS
  <2>2. Prefix(Lens(ss), 0) = 0
    BY <1>7, StartIs
  <2>3. Prefix(Lens(ss), rows) = n
    BY <1>9, <1>10 DEF Joins
  <2> QED BY <1>12, <2>1, <2>2, <2>3
<1>14. DOMAIN I = 1 .. rows + 1 /\ Len(I) = rows + 1
  <2>1. I = [k \in 1 .. rows + 1 |-> I[k]] /\ rows + 1 \in Nat
    OBVIOUS
  <2> QED BY <2>1, TableKept
<1>15. \A k \in 1 .. rows : /\ I[k] = Start(ss, k) /\ I[k] \in Nat /\ Len(ss[k]) \in Nat /\ I[k + 1] = I[k] + Len(ss[k])
  <2> SUFFICES ASSUME NEW k \in 1 .. rows
               PROVE  /\ I[k] = Start(ss, k) /\ I[k] \in Nat /\ Len(ss[k]) \in Nat /\ I[k + 1] = I[k] + Len(ss[k])
    OBVIOUS
  <2>1. k \in 1 .. rows + 1 /\ k + 1 \in 1 .. rows + 1 /\ k + 1 - 1 = k
    OBVIOUS
  <2>2. I[k] = Start(ss, k) /\ I[k + 1] = Prefix(Lens(ss), k)
    BY <1>12, <2>1 DEF Start
  <2>3. Start(ss, k) \in Nat /\ Len(ss[k]) \in Nat /\ Prefix(Lens(ss), k) = Start(ss, k) + Len(ss[k])
    BY <1>7, StartIs
  <2> QED BY <2>2, <2>3
<1>21. \A k \in 1 .. rows : I[k] \in Nat /\ I[k + 1] \in Nat /\ I[k] <= I[k + 1]
  <2> SUFFICES ASSUME NEW k \in 1 .. rows PROVE I[k] \in Nat /\ I[k + 1] \in Nat /\ I[k] <= I[k + 1]
    OBVIOUS
  <2>1. PICK a, b, c : a = I[k] /\ b = Len(ss[k]) /\ c = I[k + 1]
    OBVIOUS
  <2>2. a \in Nat /\ b \in Nat /\ c = a + b
    BY <1>15, <2>1
  <2> QED BY <2>1, <2>2
<1>16. \A p, q \in 1 .. rows : p < q => I[p + 1] <= I[q]
  <2> SUFFICES ASSUME NEW p \in 1 .. rows, NEW q \in 1 .. rows, p < q PROVE I[p + 1] <= I[q]
    OBVIOUS
  <2>1. Start(ss, p) + Len(ss[p]) <= Start(ss, q)
    BY <1>7, StartsAscend
  <2> QED BY <1>15, <2>1
<1>17. \A k \in 1 .. rows + 1 : I[k] \in 0 .. n
  <2> SUFFICES ASSUME NEW k \in 1 .. rows + 1 PROVE I[k] \in 0 .. n
    OBVIOUS
  <2>1. CASE k = rows + 1
    BY <1>13, <2>1
  <2>2. CASE k # rows + 1
    <3>1. k \in 1 .. rows /\ rows \in 1 .. rows
      BY <2>2
    <3>2. I[k] \in Nat /\ I[rows] \in Nat /\ I[k] <= I[k + 1] /\ I[rows] <= I[rows + 1]
      BY <1>21, <3>1
    <3>3. k < rows => I[k + 1] <= I[rows]
      BY <1>16, <3>1
    <3>4. k = rows => I[k] <= n
      BY <1>13, <3>2
    <3>5. k < rows => I[k] <= n
      <4>1. k + 1 \in 1 .. rows + 1 /\ (k < rows => k + 1 \in 1 .. rows)
        BY <3>1
      <4>2. k < rows => I[k + 1] \in Nat
        BY <1>15, <4>1
      <4> QED BY <1>13, <3>2, <3>3, <4>2
    <3> QED BY <3>1, <3>2, <3>4, <3>5
  <2> QED BY <2>1, <2>2
<1>18. ASSUME NEW k \in 1 .. rows + 1, NEW i \in 1 .. n PROVE F[i].row < k <=> i <= I[k]
  <2>1. PICK q \in 1 .. rows : \E j \in 1 .. Len(ss[q]) : i = Start(ss, q) + j
    BY <1>9, <1>10 DEF Joins
  <2>2. PICK j \in 1 .. Len(ss[q]) : i = Start(ss, q) + j
    BY <2>1
  <2>3. F[i] = ss[q][j]
    BY <1>9, <2>2 DEF Joins
  <2>4. ss[q][j] \in Y[q]
    <3>1. ss[q] \in Seq(Y[q])
      BY <1>2 DEF Lists
    <3> QED BY <3>1
  <2>5. F[i].row = q
    BY <1>6, <2>3, <2>4
  <2>6. I[q] \in Nat /\ Len(ss[q]) \in Nat /\ i = I[q] + j /\ I[q + 1] = I[q] + Len(ss[q])
    BY <1>15, <2>2
  <2>7. i > I[q] /\ i <= I[q + 1] /\ I[q + 1] \in Nat /\ I[k] \in Nat
    BY <1>17, <2>6
  <2>8. CASE q < k
    <3>1. I[q + 1] <= I[k]
      <4>1. CASE k = q + 1
        BY <2>7, <4>1
      <4>2. CASE k # q + 1 /\ k \in 1 .. rows
        BY <1>16, <2>8, <4>2
      <4>3. CASE k # q + 1 /\ k = rows + 1
        <5>1. rows \in 1 .. rows /\ q < rows
          BY <2>8, <4>3
        <5>2. I[q + 1] <= I[rows] /\ I[rows] \in Nat /\ I[rows] <= I[rows + 1]
          BY <1>16, <1>21, <5>1
        <5> QED BY <2>7, <4>3, <5>2
      <4> QED BY <4>1, <4>2, <4>3
    <3> QED BY <2>5, <2>7, <2>8, <3>1
  <2>9. CASE ~(q < k)
    <3>1. I[k] <= I[q]
      <4>1. CASE k = q
        BY <2>6, <4>1
      <4>2. CASE k # q
        <5>1. k \in 1 .. rows /\ k < q
          BY <2>9, <4>2
        <5>2. I[k + 1] <= I[q] /\ I[k] \in Nat /\ I[k] <= I[k + 1]
          BY <1>16, <1>21, <5>1
        <5>3. I[k + 1] \in Nat
          BY <1>21, <5>1
        <5> QED BY <2>6, <5>2, <5>3
      <4> QED BY <4>1, <4>2
    <3> QED BY <2>5, <2>6, <2>7, <2>9, <3>1
  <2> QED BY <2>8, <2>9
<1>19. \A i \in 1 .. n : RowPlaces(F)[i][1] = F[i].row
  BY <1>10 DEF RowPlaces
<1>20. RowsStart(RowPlaces(F), I, n)
  BY <1>14, <1>17, <1>18, <1>19 DEF RowsStart
<1> QED BY <1>8, <1>10, <1>13, <1>14, <1>20

\* Such a part is well formed, and has each entry once.
LEMMA PartIs ==
  ASSUME NEW s, NEW X, Lists(s, X), NEW rows \in Nat, \A x \in X : x.row \in 1 .. rows, NEW g, NEW m, IsPart(m, s, rows, g)
  PROVE  WellFormed(m) /\ Len(m.J) = Cardinality(X) /\ CellsAre(m, X, g)
<1> DEFINE F == ByRows(s, rows)
           n == Len(F)
           at == RowPlaces(F)
           J == [i \in DOMAIN F |-> g[F[i]]]
           D == [i \in DOMAIN F |-> F[i].value]
           I == m.I
<1>1. I = [k \in 1 .. rows + 1 |-> Prefix(RowLens(s, rows), k - 1)] /\ m.J = J \o <<>> /\ m.data = D \o <<>>
  BY DEF IsPart
<1> HIDE DEF I
<1>2. /\ Lists(F, X) /\ I[1] = 0 /\ I[rows + 1] = n /\ DOMAIN I = 1 .. rows + 1 /\ Len(I) = rows + 1
      /\ RowsStart(at, I, n)
  BY <1>1, ByRowsAre
<1> HIDE DEF F
<1>3. n \in Nat /\ n = Cardinality(X) /\ DOMAIN F = 1 .. n
  <2>1. n \in Nat /\ n = Cardinality(X)
    BY <1>2, ListsCount
  <2>2. F \in Seq(X)
    BY <1>2 DEF Lists
  <2> QED BY <2>1, <2>2
<1>4. \A i \in 1 .. n : F[i] \in X /\ F[i].row \in 1 .. rows
  BY <1>2, <1>3 DEF Lists
<1>5. \A i \in 1 .. n : at[i][1] = F[i].row
  BY DEF RowPlaces
<1>6. /\ J = [i \in 1 .. n |-> J[i]] /\ D = [i \in 1 .. n |-> D[i]]
      /\ \A i \in 1 .. n : J[i] = g[F[i]] /\ D[i] = F[i].value
  BY <1>3
<1> HIDE DEF J, D, n, at
<1>7. J \o <<>> = J /\ D \o <<>> = D /\ Len(J) = n /\ Len(D) = n
  BY <1>3, <1>6, TableKept
<1>8. m.J = J /\ m.data = D
  BY <1>1, <1>7
<1>9. WellFormed(m)
  BY <1>2, <1>7, <1>8 DEF WellFormed, I
<1>10. EntriesAt(m, at, n)
  <2>1. \A i \in 1 .. n : at[i][1] \in 1 .. rows
    BY <1>4, <1>5
  <2>2. RowsStart(at, m.I, n) /\ Len(m.I) = rows + 1 /\ DOMAIN m.I = 1 .. rows + 1
    BY <1>2 DEF I
  <2> QED BY <1>3, <2>1, <2>2, CSREntriesAre
<1>11. \A i \in 1 .. n : <<at[i][1], m.J[i], m.data[i]>> = <<F[i].row, g[F[i]], F[i].value>>
  BY <1>5, <1>6, <1>8
<1>12. ASSUME NEW x, x \in CSREntries(m) PROVE \E c \in X : x = <<c.row, g[c], c.value>>
  <2>1. PICK i \in 1 .. n : x = <<at[i][1], m.J[i], m.data[i]>>
    BY <1>10, <1>12 DEF EntriesAt
  <2>2. x = <<F[i].row, g[F[i]], F[i].value>>
    BY <1>11, <2>1
  <2> QED BY <1>4, <2>2
<1>13. ASSUME NEW c \in X PROVE <<c.row, g[c], c.value>> \in CSREntries(m)
  <2>1. PICK i \in 1 .. n : F[i] = c
    BY <1>2, <1>3 DEF Lists, n
  <2>2. <<at[i][1], m.J[i], m.data[i]>> = <<c.row, g[c], c.value>>
    BY <1>11, <2>1
  <2>3. <<at[i][1], m.J[i], m.data[i]>> \in CSREntries(m)
    BY <1>10 DEF EntriesAt
  <2> QED BY <2>2, <2>3
<1>14. CellsAre(m, X, g)
  BY <1>12, <1>13 DEF CellsAre
<1> QED BY <1>3, <1>7, <1>8, <1>9, <1>14

-----------------------------------------------------------------------------
(* Numbers of elements. *)
AllParentElems == [q \in Procs |-> ParentElems(q)]
ElemOffset(q) == BuildParentElementRankOffsets[q]

\* The elements of a rank are numbered from 1, and have their place among all elements.
LEMMA ElemNumberIs ==
  ASSUME RedecompAssumption, NEW e \in Elems, home[e] \in Procs
  PROVE  Len(ParentElems(home[e])) \in Nat /\ ElemNumber(home[e], e) \in 1 .. Len(ParentElems(home[e]))
<1> DEFINE p == home[e]
           S == {x \in Elems : home[x] = p}
           a == ParentElems(p)
<1>1. S \subseteq Nat /\ IsFiniteSet(S)
  <2>1. S \in SUBSET Elems
    OBVIOUS
  <2>2. IsFiniteSet(Elems) /\ Elems \subseteq Nat
    BY DEF RedecompAssumption
  <2> QED BY <2>1, <2>2, FS_Subset
<1>2. a = Ascending(S)
  BY DEF ParentElems
<1>3. e \in S
  OBVIOUS
<1> HIDE DEF S
<1>4. Lists(a, S)
  BY <1>1, <1>2, AscendingLists
<1> HIDE DEF a
<1>5. a \in Seq(S) /\ \E k \in DOMAIN a : a[k] = e
  <2>1. a \in Seq(S)
    BY <1>4 DEF Lists
  <2>2. \E k \in 1 .. Len(a) : a[k] = e
    BY <1>3, <1>4 DEF Lists
  <2> QED BY <2>1, <2>2
<1>6. FirstAt(a, e) \in DOMAIN a
  BY <1>5, FirstAtIs
<1> QED BY <1>5, <1>6 DEF ElemNumber, a

LEMMA ElemOffsetsAre ==
  ASSUME RedecompAssumption
  PROVE  /\ \A q \in Procs : /\ ElemOffset(q) \in Nat /\ Len(ParentElems(q)) \in Nat
                             /\ ElemOffset(q + 1) = ElemOffset(q) + Len(ParentElems(q))
         /\ \A q, p \in Procs : q < p => ElemOffset(q) + Len(ParentElems(q)) <= ElemOffset(p)
<1> DEFINE A == AllParentElems
           w == [q \in Procs |-> Len(ParentElems(q))]
<1>1. P \in Nat /\ Procs = 1 .. P
  BY DEF RedecompAssumption, Procs
<1>2. \A q \in Procs : ParentElems(q) \in Seq(Elems)
  <2> SUFFICES ASSUME NEW q \in Procs PROVE ParentElems(q) \in Seq(Elems)
    OBVIOUS
  <2> DEFINE S == {x \in Elems : home[x] = q}
  <2>1. S \in SUBSET Elems
    OBVIOUS
  <2>2. IsFiniteSet(Elems) /\ Elems \subseteq Nat
    BY DEF RedecompAssumption
  <2>3. S \subseteq Nat /\ IsFiniteSet(S)
    BY <2>1, <2>2, FS_Subset
  <2>4. ParentElems(q) = Ascending(S)
    BY DEF ParentElems
  <2> HIDE DEF S
  <2>5. Ascending(S) \in Seq(S)
    BY <2>3, AscendingLists DEF Lists
  <2> QED BY <2>1, <2>4, <2>5, MoreValues
<1>3. A = [q \in 1 .. P |-> A[q]] /\ \A q \in 1 .. P : A[q] = ParentElems(q)
  BY <1>1 DEF AllParentElems
<1> HIDE DEF A
<1>4. A \in Seq(Seq(Elems)) /\ Len(A) = P
  <2>1. \A q \in 1 .. P : A[q] \in Seq(Elems)
    BY <1>1, <1>2, <1>3
  <2> QED BY <1>1, <1>3, <2>1, TableIs
<1>5. w = Lens(A)
  BY <1>1, <1>3, <1>4 DEF Lens
<1>6. \A k \in 1 .. P + 1 : ElemOffset(k) = Prefix(Lens(A), k - 1)
  BY <1>5 DEF ElemOffset, BuildParentElementRankOffsets
<1>7. ASSUME NEW q \in Procs
      PROVE  /\ ElemOffset(q) = Start(A, q) /\ ElemOffset(q) \in Nat /\ Len(ParentElems(q)) \in Nat
             /\ ElemOffset(q + 1) = ElemOffset(q) + Len(ParentElems(q)) /\ A[q] = ParentElems(q)
  <2>1. q \in 1 .. P /\ q \in 1 .. P + 1 /\ q + 1 \in 1 .. P + 1 /\ q + 1 - 1 = q
    BY <1>1
  <2>2. ElemOffset(q) = Start(A, q) /\ ElemOffset(q + 1) = Prefix(Lens(A), q)
    BY <1>6, <2>1 DEF Start
  <2>3. Start(A, q) \in Nat /\ Len(A[q]) \in Nat /\ Prefix(Lens(A), q) = Start(A, q) + Len(A[q])
    BY <1>4, <2>1, StartIs
  <2> QED BY <1>3, <2>1, <2>2, <2>3
<1>8. ASSUME NEW q \in Procs, NEW p \in Procs, q < p PROVE ElemOffset(q) + Len(ParentElems(q)) <= ElemOffset(p)
  <2>1. q \in 1 .. Len(A) /\ p \in 1 .. Len(A)
    BY <1>1, <1>4
  <2>2. Start(A, q) + Len(A[q]) <= Start(A, p)
    BY <1>4, <1>8, <2>1, StartsAscend
  <2> QED BY <1>7, <2>2
<1> QED BY <1>7, <1>8

-----------------------------------------------------------------------------
(* The cells of a rank of the parent. *)
CellFits(c, p) ==
  /\ c.row \in 1 .. Len(ParentElems(p)) /\ c.colRank \in Procs
  /\ Len(ParentElems(c.colRank)) \in Nat /\ c.col \in 1 .. Len(ParentElems(c.colRank))
  /\ ElemOffset(c.colRank) \in Nat /\ GlobalCol(c) = ElemOffset(c.colRank) + c.col /\ GlobalCol(c) \in Nat

LEMMA CellIs ==
  ASSUME RedecompAssumption, Ready, NEW p \in Procs, NEW x \in OwnedPairsAt(p)
  PROVE  /\ CellFits(Cell(x[1], x[2], x[3]), p)
         /\ x = <<x[1], x[2], x[3]>> /\ home[x[2]] = p
         /\ Cell(x[1], x[2], x[3]).row = ElemNumber(p, x[2])
         /\ GlobalCol(Cell(x[1], x[2], x[3])) = ElemOffset(home[x[3]]) + ElemNumber(home[x[3]], x[3])
         /\ Cell(x[1], x[2], x[3]).value = x \o <<1, 1>>
<1>1. PICK r \in Procs : \E i \in Sent(r, p) : x = <<r, TestOf(r, i), TrialOf(r, i)>>
  BY OwnedPairsAre
<1>2. PICK i \in Sent(r, p) : x = <<r, TestOf(r, i), TrialOf(r, i)>>
  BY <1>1
<1>3. PICK t, s : t = TestOf(r, i) /\ s = TrialOf(r, i)
  OBVIOUS
<1>4. x = <<r, t, s>> /\ x[1] = r /\ x[2] = t /\ x[3] = s
  BY <1>2, <1>3
<1>5. i \in DOMAIN pairs[r]
  BY DEF Sent
<1>6. t \in Elems /\ home[t] = p /\ s \in Elems /\ home[s] \in Procs
  BY <1>3, <1>5, PairIs
<1>7. PICK q : q = home[s]
  OBVIOUS
<1>8. PICK k, l : k = ElemNumber(p, t) /\ l = ElemNumber(q, s)
  OBVIOUS
<1>9. k \in 1 .. Len(ParentElems(p)) /\ l \in 1 .. Len(ParentElems(q)) /\ Len(ParentElems(q)) \in Nat
  BY <1>6, <1>7, <1>8, ElemNumberIs
<1>10. PICK c : c = Cell(r, t, s)
  OBVIOUS
<1>11. c = [row |-> k, colRank |-> q, col |-> l, value |-> <<r, t, s, 1, 1>>]
  BY <1>6, <1>7, <1>8, <1>10, Zenon DEF Cell
<1>12. c.row = k /\ c.colRank = q /\ c.col = l /\ c.value = <<r, t, s, 1, 1>>
  BY <1>11
<1>13. q \in Procs /\ ElemOffset(q) \in Nat
  BY <1>6, <1>7, ElemOffsetsAre
<1>14. GlobalCol(c) = ElemOffset(q) + l
  BY <1>12 DEF GlobalCol, ElemOffset
<1>15. ElemOffset(q) + l \in Nat
  BY <1>9, <1>13
<1>16. CellFits(c, p)
  BY <1>9, <1>12, <1>13, <1>14, <1>15 DEF CellFits
<1>17. x \o <<1, 1>> = <<r, t, s, 1, 1>>
  BY <1>4, Appended
<1> QED BY <1>4, <1>6, <1>7, <1>8, <1>10, <1>12, <1>14, <1>16, <1>17

\* There are as many as there are pairs.
LEMMA CellsCount ==
  ASSUME RedecompAssumption, Ready, NEW p \in Procs
  PROVE  IsFiniteSet(Cells(p)) /\ Cardinality(Cells(p)) = Cardinality(OwnedPairsAt(p))
<1> DEFINE O == OwnedPairsAt(p)
           C == Cells(p)
           f == [x \in O |-> Cell(x[1], x[2], x[3])]
<1>1. IsFiniteSet(C)
  <2>1. Lists(RowsHere(p), C)
    BY RowsHereList
  <2> QED BY <2>1, ListsCount
<1>2. \A x \in O : x = <<x[1], x[2], x[3]>>
  BY CellIs
<1>3. ASSUME NEW x \in O, NEW y \in O, f[x] = f[y] PROVE x = y
  <2>1. CellTells(f[x], x[1], x[2], x[3])
    BY CellNames
  <2>2. CellTells(f[y], y[1], y[2], y[3])
    BY CellNames
  <2>3. x[1] = y[1] /\ x[2] = y[2] /\ x[3] = y[3]
    BY <1>3, <2>1, <2>2 DEF CellTells
  <2> QED BY <1>2, <2>3
<1>4. f \in [O -> C] /\ \A c \in C : \E x \in O : f[x] = c
  BY DEF Cells
<1> HIDE DEF f, O, C
<1>5. f \in Injection(O, C) /\ f \in Surjection(O, C)
  BY <1>3, <1>4 DEF Injection, IsInjective, Surjection
<1>6. Cardinality(O) = Cardinality(C)
  BY <1>1, <1>5, FS_Injection
<1> QED BY <1>1, <1>6 DEF O, C

\* Entries that pass a test.
LEMMA SelectedList ==
  ASSUME NEW s, NEW X, Lists(s, X), NEW Y, Y \subseteq X, NEW K, K = {j \in DOMAIN s : s[j] \in Y}
  PROVE  Lists(Taken(s, K), Y)
<1>1. s \in Seq(X) /\ \A x \in X : \E j \in 1 .. Len(s) : s[j] = x
  BY DEF Lists
<1>2. DOMAIN s = 1 .. Len(s) /\ K \subseteq DOMAIN s
  BY <1>1
<1>3. {s[j] : j \in K} = Y
  <2>1. \A j \in K : s[j] \in Y
    OBVIOUS
  <2>2. \A y \in Y : \E j \in K : s[j] = y
    BY <1>1, <1>2
  <2> QED BY <2>1, <2>2
<1> QED BY <1>2, <1>3, TakenLists

OwnCells(p) == {c \in Cells(p) : c.colRank = p}
OtherCells(p) == {c \in Cells(p) : c.colRank # p}
Own(p) == Select(RowsHere(p), LAMBDA x : x.colRank = p)
Others(p) == Select(RowsHere(p), LAMBDA x : x.colRank # p)

LEMMA SelectedAre ==
  ASSUME RedecompAssumption, Ready, NEW p \in Procs
  PROVE  Lists(Own(p), OwnCells(p)) /\ Lists(Others(p), OtherCells(p))
<1> DEFINE s == RowsHere(p)
           K == {j \in DOMAIN s : s[j].colRank = p}
           L == {j \in DOMAIN s : s[j].colRank # p}
<1>1. Lists(s, Cells(p))
  BY RowsHereList
<1>2. \A j \in DOMAIN s : s[j] \in Cells(p)
  BY <1>1 DEF Lists
<1>3. Own(p) = Taken(s, K) /\ Others(p) = Taken(s, L)
  BY DEF Own, Others, Select
<1>4. K = {j \in DOMAIN s : s[j] \in OwnCells(p)}
  BY <1>2 DEF OwnCells
<1>5. L = {j \in DOMAIN s : s[j] \in OtherCells(p)}
  BY <1>2 DEF OtherCells
<1>6. OwnCells(p) \subseteq Cells(p) /\ OtherCells(p) \subseteq Cells(p)
  BY DEF OwnCells, OtherCells
<1> HIDE DEF s, K, L
<1>7. Lists(Taken(s, K), OwnCells(p))
  BY <1>1, <1>4, <1>6, SelectedList
<1>8. Lists(Taken(s, L), OtherCells(p))
  BY <1>1, <1>5, <1>6, SelectedList
<1> QED BY <1>3, <1>7, <1>8

OwnCols(p) == [c \in OwnCells(p) |-> c.col]

\* The part on the columns of the rank.
LEMMA DiagonalIs ==
  ASSUME RedecompAssumption, Ready, NEW p \in Procs, NEW d, d = Diagonal(p, RowsHere(p))
  PROVE  WellFormed(d) /\ Len(d.J) = Cardinality(OwnCells(p)) /\ CellsAre(d, OwnCells(p), OwnCols(p))
<1> DEFINE rows == Len(ParentElems(p))
           s == Own(p)
           X == OwnCells(p)
           g == OwnCols(p)
           F == ByRows(s, rows)
<1>1. d = [ I |-> [k \in 1 .. rows + 1 |-> Prefix(RowLens(s, rows), k - 1)],
            J |-> [i \in DOMAIN F |-> F[i].col] \o <<>>, data |-> [i \in DOMAIN F |-> F[i].value] \o <<>> ]
  BY DEF Diagonal, Part, Map, Own, RowLens, RowsOf, ByRows
<1>2. Lists(s, X)
  BY SelectedAre
<1>3. rows \in Nat
  BY ElemOffsetsAre
<1>4. \A x \in X : x.row \in 1 .. rows
  <2> SUFFICES ASSUME NEW x \in X PROVE x.row \in 1 .. rows
    OBVIOUS
  <2>1. x \in Cells(p)
    BY DEF OwnCells
  <2>2. PICK y \in OwnedPairsAt(p) : x = Cell(y[1], y[2], y[3])
    BY <2>1 DEF Cells
  <2>3. CellFits(x, p)
    BY <2>2, CellIs
  <2> QED BY <2>3 DEF CellFits
<1> HIDE DEF rows, s
<1>5. Lists(F, X)
  <2> DEFINE I == [k \in 1 .. rows + 1 |-> Prefix(RowLens(s, rows), k - 1)]
  <2>1. PICK J : J = I
    OBVIOUS
  <2> QED BY <1>2, <1>3, <1>4, <2>1, ByRowsAre
<1> HIDE DEF F
<1>6. \A i \in DOMAIN F : F[i] \in X
  BY <1>5 DEF Lists
<1> HIDE DEF X
<1>7. \A i \in DOMAIN F : F[i].col = g[F[i]]
  BY <1>6 DEF OwnCols, X
<1> HIDE DEF g
<1>8. [i \in DOMAIN F |-> F[i].col] = [i \in DOMAIN F |-> g[F[i]]]
  BY <1>7
<1>9. PICK A, B, D : /\ A = [k \in 1 .. rows + 1 |-> Prefix(RowLens(s, rows), k - 1)]
                     /\ B = [i \in DOMAIN F |-> F[i].col] \o <<>> /\ D = [i \in DOMAIN F |-> F[i].value] \o <<>>
  OBVIOUS
<1>10. d = [I |-> A, J |-> B, data |-> D]
  BY <1>1, <1>9, Zenon
<1>11. d.I = A /\ d.J = B /\ d.data = D
  BY <1>10
<1>12. IsPart(d, s, rows, g)
  BY <1>8, <1>9, <1>11, Zenon DEF IsPart, F
<1> QED BY <1>2, <1>3, <1>4, <1>12, PartIs DEF X, g

-----------------------------------------------------------------------------
(* The columns of other ranks. *)
ColumnsAt(p) == {GlobalCol(c) : c \in OtherCells(p)}
Columns(p) == Ascending(ColumnsAt(p))
OtherCols(p) == [c \in OtherCells(p) |-> FirstAt(Columns(p), GlobalCol(c))]

\* They are listed in ascending order.
LEMMA ColumnMapIs ==
  ASSUME RedecompAssumption, Ready, NEW p \in Procs
  PROVE  /\ OffDiagonal(p, RowsHere(p)).cmap = Columns(p)
         /\ Lists(Columns(p), ColumnsAt(p)) /\ ToSet(Columns(p)) = ColumnsAt(p)
         /\ ColumnsAt(p) \subseteq Nat
         /\ \A k, l \in 1 .. Len(Columns(p)) : k < l => Columns(p)[k] < Columns(p)[l]
<1> DEFINE s == Others(p)
           X == OtherCells(p)
           h == [i \in DOMAIN s |-> GlobalCol(s[i])]
           G == ColumnsAt(p)
           a == Columns(p)
<1>1. Lists(s, X) /\ s \in Seq(X) /\ Len(s) \in Nat /\ DOMAIN s = 1 .. Len(s) /\ \A i \in DOMAIN s : s[i] \in X
  <2>1. Lists(s, X)
    BY SelectedAre
  <2>2. s \in Seq(X)
    BY <2>1 DEF Lists
  <2> QED BY <2>1, <2>2
<1>2. \A x \in X : \E i \in DOMAIN s : s[i] = x
  BY <1>1 DEF Lists
<1>3. \A c \in X : GlobalCol(c) \in Nat
  <2> SUFFICES ASSUME NEW c \in X PROVE GlobalCol(c) \in Nat
    OBVIOUS
  <2>1. c \in Cells(p)
    BY DEF OtherCells
  <2>2. PICK y \in OwnedPairsAt(p) : c = Cell(y[1], y[2], y[3])
    BY <2>1 DEF Cells
  <2>3. CellFits(c, p)
    BY <2>2, CellIs
  <2> QED BY <2>3 DEF CellFits
<1>4. OffDiagonal(p, RowsHere(p)).cmap = Ascending(ToSet(h \o <<>>))
  <2>1. OffDiagonal(p, RowsHere(p)).cmap = ColumnMap(Map(Others(p), GlobalCol))
    BY DEF OffDiagonal, Others
  <2>2. Map(Others(p), GlobalCol) = h \o <<>>
    BY DEF Map
  <2> HIDE DEF h
  <2> QED BY <2>1, <2>2 DEF ColumnMap
<1>5. h = [i \in 1 .. Len(s) |-> h[i]] /\ \A i \in 1 .. Len(s) : h[i] = GlobalCol(s[i]) /\ h[i] \in Nat
  BY <1>1, <1>3
<1> HIDE DEF s, X, h
<1>6. h \in Seq(Nat) /\ h \o <<>> = h /\ Len(h) = Len(s)
  BY <1>1, <1>5, TableIs
<1>7. ToSet(h) = G
  <2>1. DOMAIN h = 1 .. Len(s)
    BY <1>6
  <2>2. \A x : x \in ToSet(h) <=> \E i \in 1 .. Len(s) : x = h[i]
    BY <2>1 DEF ToSet
  <2>3. \A x : x \in G <=> \E c \in X : x = GlobalCol(c)
    BY DEF ColumnsAt, X
  <2>4. ASSUME NEW x, x \in ToSet(h) PROVE x \in G
    <3>1. PICK i \in 1 .. Len(s) : x = h[i]
      BY <2>2, <2>4
    <3>2. s[i] \in X /\ x = GlobalCol(s[i])
      BY <1>1, <1>5, <3>1
    <3> HIDE DEF G
    <3> QED BY <2>3, <3>2
  <2>5. ASSUME NEW x, x \in G PROVE x \in ToSet(h)
    <3>1. PICK c \in X : x = GlobalCol(c)
      BY <2>3, <2>5
    <3>2. PICK i \in DOMAIN s : s[i] = c
      BY <1>2
    <3>3. i \in 1 .. Len(s) /\ h[i] = x
      BY <1>1, <1>5, <3>1, <3>2
    <3> QED BY <2>2, <3>3
  <2> HIDE DEF G
  <2> QED BY <2>4, <2>5
<1>8. IsFiniteSet(G) /\ G \subseteq Nat
  BY <1>6, <1>7, ValuesFinite
<1>9. a = Ascending(G)
  BY DEF Columns
<1> HIDE DEF a, G
<1>10. Lists(a, G) /\ \A k, l \in 1 .. Len(a) : k < l => a[k] < a[l]
  BY <1>8, <1>9, AscendingLists
<1>11. ToSet(a) = G
  <2>1. a \in Seq(G) /\ \A x \in G : \E k \in 1 .. Len(a) : a[k] = x
    BY <1>10 DEF Lists
  <2>2. DOMAIN a = 1 .. Len(a) /\ \A k \in 1 .. Len(a) : a[k] \in G
    BY <2>1
  <2>3. \A x : x \in ToSet(a) <=> \E k \in 1 .. Len(a) : x = a[k]
    BY <2>2 DEF ToSet
  <2>4. \A x : x \in ToSet(a) <=> x \in G
    BY <2>1, <2>2, <2>3
  <2> QED BY <2>4
<1> QED BY <1>4, <1>6, <1>7, <1>8, <1>9, <1>10, <1>11 DEF a, G

\* A column of another rank is where the map has it, and the map has no column of the rank.
LEMMA ColumnIs ==
  ASSUME RedecompAssumption, Ready, NEW p \in Procs
  PROVE  /\ \A c \in OtherCells(p) : /\ OtherCols(p)[c] \in 1 .. Len(Columns(p))
                                     /\ Columns(p)[OtherCols(p)[c]] = GlobalCol(c)
         /\ \A k \in 1 .. Len(Columns(p)) : Columns(p)[k] \notin ElemOffset(p) + 1 .. ElemOffset(p + 1)
         /\ Columns(p) \in Seq(Nat)
<1> DEFINE a == Columns(p)
           X == OtherCells(p)
<1>1. Lists(a, ColumnsAt(p)) /\ ColumnsAt(p) \subseteq Nat
  BY ColumnMapIs
<1>2. /\ a \in Seq(ColumnsAt(p)) /\ DOMAIN a = 1 .. Len(a)
      /\ \A y \in ColumnsAt(p) : \E k \in DOMAIN a : a[k] = y
  <2>1. a \in Seq(ColumnsAt(p)) /\ \A y \in ColumnsAt(p) : \E k \in 1 .. Len(a) : a[k] = y
    BY <1>1 DEF Lists
  <2>2. DOMAIN a = 1 .. Len(a)
    BY <2>1
  <2> QED BY <2>1, <2>2
<1>3. a \in Seq(Nat)
  BY <1>1, <1>2, MoreValues
<1>4. \A c \in X : GlobalCol(c) \in ColumnsAt(p) /\ OtherCols(p)[c] = FirstAt(a, GlobalCol(c))
  BY DEF ColumnsAt, OtherCols
<1> HIDE DEF a
<1>5. ASSUME NEW c \in X PROVE OtherCols(p)[c] \in 1 .. Len(a) /\ a[OtherCols(p)[c]] = GlobalCol(c)
  <2>1. PICK y : y = GlobalCol(c)
    OBVIOUS
  <2>2. \E k \in DOMAIN a : a[k] = y
    BY <1>2, <1>4, <2>1
  <2>3. FirstAt(a, y) \in DOMAIN a /\ a[FirstAt(a, y)] = y
    BY <1>3, <2>2, FirstAtIs
  <2> QED BY <1>2, <1>4, <2>1, <2>3
<1>6. ASSUME NEW k \in 1 .. Len(a) PROVE a[k] \notin ElemOffset(p) + 1 .. ElemOffset(p + 1)
  <2>1. a[k] \in ColumnsAt(p)
    BY <1>2
  <2>2. PICK c \in X : a[k] = GlobalCol(c)
    BY <2>1 DEF ColumnsAt
  <2>3. c \in Cells(p) /\ c.colRank # p
    BY DEF OtherCells
  <2>4. PICK y \in OwnedPairsAt(p) : c = Cell(y[1], y[2], y[3])
    BY <2>3 DEF Cells
  <2>5. CellFits(c, p)
    BY <2>4, CellIs
  <2>6. PICK q \in Procs : q = c.colRank
    BY <2>5 DEF CellFits
  <2>7. PICK n, l, v, w, f : n = Len(ParentElems(q)) /\ l = c.col /\ v = ElemOffset(q) /\ w = ElemOffset(p) /\ f = Len(ParentElems(p))
    OBVIOUS
  <2>8. n \in Nat /\ l \in 1 .. n /\ v \in Nat /\ a[k] = v + l
    BY <2>2, <2>5, <2>6, <2>7 DEF CellFits
  <2>9. w \in Nat /\ f \in Nat /\ ElemOffset(p + 1) = w + f
    BY <2>7, ElemOffsetsAre
  <2>10. q # p /\ q \in Int /\ p \in Int
    BY <2>3, <2>6 DEF Procs
  <2>11. q < p => v + n <= w
    BY <2>6, <2>7, ElemOffsetsAre
  <2>12. p < q => w + f <= v
    BY <2>6, <2>7, ElemOffsetsAre
  <2>13. v + l \notin w + 1 .. w + f
    BY ONLY <2>8, <2>9, <2>10, <2>11, <2>12
  <2> QED BY <2>7, <2>8, <2>9, <2>13
<1> QED BY <1>3, <1>5, <1>6 DEF a

\* The part on the columns of other ranks.
LEMMA OffDiagonalIs ==
  ASSUME RedecompAssumption, Ready, NEW p \in Procs, NEW d, d = OffDiagonal(p, RowsHere(p)).part
  PROVE  WellFormed(d) /\ Len(d.J) = Cardinality(OtherCells(p)) /\ CellsAre(d, OtherCells(p), OtherCols(p))
<1> DEFINE rows == Len(ParentElems(p))
           s == Others(p)
           X == OtherCells(p)
           g == OtherCols(p)
           F == ByRows(s, rows)
           cm == OffDiagonal(p, RowsHere(p)).cmap
<1>1. d = [ I |-> [k \in 1 .. rows + 1 |-> Prefix(RowLens(s, rows), k - 1)],
            J |-> [i \in DOMAIN F |-> FirstAt(Ascending(ToSet(cm)), GlobalCol(F[i]))] \o <<>>,
            data |-> [i \in DOMAIN F |-> F[i].value] \o <<>> ]
  BY DEF OffDiagonal, Part, Map, Others, RowLens, RowsOf, ByRows
<1>2. Lists(s, X)
  BY SelectedAre
<1>3. rows \in Nat
  BY ElemOffsetsAre
<1>4. \A x \in X : x.row \in 1 .. rows
  <2> SUFFICES ASSUME NEW x \in X PROVE x.row \in 1 .. rows
    OBVIOUS
  <2>1. x \in Cells(p)
    BY DEF OtherCells
  <2>2. PICK y \in OwnedPairsAt(p) : x = Cell(y[1], y[2], y[3])
    BY <2>1 DEF Cells
  <2>3. CellFits(x, p)
    BY <2>2, CellIs
  <2> QED BY <2>3 DEF CellFits
<1>5. Ascending(ToSet(cm)) = Columns(p)
  <2>1. cm = Columns(p)
    BY ColumnMapIs
  <2>2. ToSet(Columns(p)) = ColumnsAt(p)
    BY ColumnMapIs
  <2> HIDE DEF cm
  <2> QED BY <2>1, <2>2 DEF Columns
<1> HIDE DEF rows, s, cm
<1>6. Lists(F, X)
  <2> DEFINE I == [k \in 1 .. rows + 1 |-> Prefix(RowLens(s, rows), k - 1)]
  <2>1. PICK J : J = I
    OBVIOUS
  <2> QED BY <1>2, <1>3, <1>4, <2>1, ByRowsAre
<1> HIDE DEF F
<1>7. \A i \in DOMAIN F : F[i] \in X
  BY <1>6 DEF Lists
<1> HIDE DEF X
<1>8. \A i \in DOMAIN F : FirstAt(Columns(p), GlobalCol(F[i])) = g[F[i]]
  BY <1>7 DEF OtherCols, X
<1> HIDE DEF g
<1>9. [i \in DOMAIN F |-> FirstAt(Columns(p), GlobalCol(F[i]))] = [i \in DOMAIN F |-> g[F[i]]]
  BY <1>8
<1>10. PICK A, B, D : /\ A = [k \in 1 .. rows + 1 |-> Prefix(RowLens(s, rows), k - 1)]
                      /\ B = [i \in DOMAIN F |-> FirstAt(Ascending(ToSet(cm)), GlobalCol(F[i]))] \o <<>>
                      /\ D = [i \in DOMAIN F |-> F[i].value] \o <<>>
  OBVIOUS
<1>11. d = [I |-> A, J |-> B, data |-> D]
  BY <1>1, <1>10, Zenon
<1>12. d.I = A /\ d.J = B /\ d.data = D
  BY <1>11
<1>13. B = [i \in DOMAIN F |-> g[F[i]]] \o <<>>
  BY <1>5, <1>9, <1>10, Zenon
<1>14. IsPart(d, s, rows, g)
  BY <1>10, <1>12, <1>13, Zenon DEF IsPart, F
<1> QED BY <1>2, <1>3, <1>4, <1>14, PartIs DEF X, g

Placed(c) == <<c.row, GlobalCol(c), c.value>>

\* Both parts together have the cells of the rank.
LEMMA PartsHaveCells ==
  ASSUME RedecompAssumption, Ready, NEW p \in Procs, NEW d, d = Diagonal(p, RowsHere(p)),
         NEW o, o = OffDiagonal(p, RowsHere(p)).part
  PROVE  /\ Len(d.J) + Len(o.J) = Cardinality(OwnedPairsAt(p))
         /\ {<<x[1], ElemOffset(p) + x[2], x[3]>> : x \in CSREntries(d)}
              \cup {<<x[1], Columns(p)[x[2]], x[3]>> : x \in CSREntries(o)} = {Placed(c) : c \in Cells(p)}
<1> DEFINE D == {<<x[1], ElemOffset(p) + x[2], x[3]>> : x \in CSREntries(d)}
           E == {<<x[1], Columns(p)[x[2]], x[3]>> : x \in CSREntries(o)}
<1>1. Len(d.J) = Cardinality(OwnCells(p)) /\ CellsAre(d, OwnCells(p), OwnCols(p))
  BY DiagonalIs
<1>2. Len(o.J) = Cardinality(OtherCells(p)) /\ CellsAre(o, OtherCells(p), OtherCols(p))
  BY OffDiagonalIs
<1>3. Len(d.J) + Len(o.J) = Cardinality(OwnedPairsAt(p))
  <2>1. IsFiniteSet(Cells(p)) /\ Cardinality(Cells(p)) = Cardinality(OwnedPairsAt(p))
    BY CellsCount
  <2>2. Cells(p) = OwnCells(p) \cup OtherCells(p) /\ OwnCells(p) \cap OtherCells(p) = {}
        /\ OwnCells(p) \in SUBSET Cells(p) /\ OtherCells(p) \in SUBSET Cells(p)
    BY DEF OwnCells, OtherCells
  <2>3. IsFiniteSet(OwnCells(p)) /\ IsFiniteSet(OtherCells(p))
    BY <2>1, <2>2, FS_Subset
  <2>4. Cardinality(OwnCells(p)) \in Nat /\ Cardinality(OtherCells(p)) \in Nat
    BY <2>3, FS_CardinalityType
  <2>5. Cardinality(OwnCells(p) \cup OtherCells(p))
          = Cardinality(OwnCells(p)) + Cardinality(OtherCells(p)) - Cardinality(OwnCells(p) \cap OtherCells(p))
    BY <2>3, FS_Union
  <2>6. Cardinality(OwnCells(p) \cap OtherCells(p)) = 0
    BY <2>2, FS_EmptySet
  <2>7. PICK a, b, c : a = Cardinality(OwnCells(p)) /\ b = Cardinality(OtherCells(p)) /\ c = Cardinality(Cells(p))
    OBVIOUS
  <2>8. c = a + b - 0
    BY <2>2, <2>5, <2>6, <2>7
  <2> QED BY <1>1, <1>2, <2>1, <2>4, <2>7, <2>8
<1>4. ASSUME NEW c \in OwnCells(p) PROVE <<c.row, ElemOffset(p) + OwnCols(p)[c], c.value>> = Placed(c)
  <2>1. c \in Cells(p) /\ c.colRank = p /\ OwnCols(p)[c] = c.col
    BY DEF OwnCells, OwnCols
  <2>2. PICK y \in OwnedPairsAt(p) : c = Cell(y[1], y[2], y[3])
    BY <2>1 DEF Cells
  <2>3. CellFits(c, p)
    BY <2>2, CellIs
  <2>4. GlobalCol(c) = ElemOffset(p) + c.col
    BY <2>1, <2>3 DEF CellFits
  <2> QED BY <2>1, <2>4 DEF Placed
<1>5. ASSUME NEW c \in OtherCells(p) PROVE <<c.row, Columns(p)[OtherCols(p)[c]], c.value>> = Placed(c)
  <2>1. Columns(p)[OtherCols(p)[c]] = GlobalCol(c)
    BY ColumnIs
  <2> QED BY <2>1 DEF Placed
<1>6. ASSUME NEW z, z \in D PROVE \E c \in OwnCells(p) : z = Placed(c)
  <2>1. PICK x \in CSREntries(d) : z = <<x[1], ElemOffset(p) + x[2], x[3]>>
    BY <1>6
  <2>2. PICK c \in OwnCells(p) : x = <<c.row, OwnCols(p)[c], c.value>>
    BY <1>1 DEF CellsAre
  <2>3. x[1] = c.row /\ x[2] = OwnCols(p)[c] /\ x[3] = c.value
    BY <2>2
  <2>4. z = <<c.row, ElemOffset(p) + OwnCols(p)[c], c.value>>
    BY <2>1, <2>3
  <2> QED BY <1>4, <2>4
<1>7. ASSUME NEW z, z \in E PROVE \E c \in OtherCells(p) : z = Placed(c)
  <2>1. PICK x \in CSREntries(o) : z = <<x[1], Columns(p)[x[2]], x[3]>>
    BY <1>7
  <2>2. PICK c \in OtherCells(p) : x = <<c.row, OtherCols(p)[c], c.value>>
    BY <1>2 DEF CellsAre
  <2>3. x[1] = c.row /\ x[2] = OtherCols(p)[c] /\ x[3] = c.value
    BY <2>2
  <2>4. z = <<c.row, Columns(p)[OtherCols(p)[c]], c.value>>
    BY <2>1, <2>3
  <2> QED BY <1>5, <2>4
<1>8. ASSUME NEW c \in OwnCells(p) PROVE Placed(c) \in D
  <2>1. PICK x : x = <<c.row, OwnCols(p)[c], c.value>>
    OBVIOUS
  <2>2. x \in CSREntries(d)
    BY <1>1, <2>1 DEF CellsAre
  <2>3. x[1] = c.row /\ x[2] = OwnCols(p)[c] /\ x[3] = c.value
    BY <2>1
  <2>4. <<x[1], ElemOffset(p) + x[2], x[3]>> = Placed(c)
    BY <1>4, <2>3
  <2>5. <<x[1], ElemOffset(p) + x[2], x[3]>> \in D
    BY <2>2
  <2> HIDE DEF D
  <2> QED BY <2>4, <2>5
<1>9. ASSUME NEW c \in OtherCells(p) PROVE Placed(c) \in E
  <2>1. PICK x : x = <<c.row, OtherCols(p)[c], c.value>>
    OBVIOUS
  <2>2. x \in CSREntries(o)
    BY <1>2, <2>1 DEF CellsAre
  <2>3. x[1] = c.row /\ x[2] = OtherCols(p)[c] /\ x[3] = c.value
    BY <2>1
  <2>4. <<x[1], Columns(p)[x[2]], x[3]>> = Placed(c)
    BY <1>5, <2>3
  <2>5. <<x[1], Columns(p)[x[2]], x[3]>> \in E
    BY <2>2
  <2> HIDE DEF E
  <2> QED BY <2>4, <2>5
<1>10. \A c : c \in Cells(p) <=> c \in OwnCells(p) \/ c \in OtherCells(p)
  BY DEF OwnCells, OtherCells
<1> HIDE DEF D, E
<1>11. D \cup E = {Placed(c) : c \in Cells(p)}
  <2>1. \A z : z \in D \cup E => \E c \in Cells(p) : z = Placed(c)
    BY <1>6, <1>7, <1>10
  <2>2. \A c \in Cells(p) : Placed(c) \in D \cup E
    BY <1>8, <1>9, <1>10
  <2> QED BY <2>1, <2>2
<1> QED BY <1>3, <1>11 DEF D, E

\* They are the pairs that owners computed, at the numbers of the parent.
PairAt(p, x) ==
  <<ElemNumber(p, x[2]), ElemOffset(home[x[3]]) + ElemNumber(home[x[3]], x[3]), x \o <<1, 1>>>>
LEMMA CellsAreOwned ==
  ASSUME RedecompAssumption, Ready, NEW p \in Procs
  PROVE  {Placed(c) : c \in Cells(p)} = {PairAt(p, x) : x \in OwnedPairsAt(p)}
<1>1. ASSUME NEW x \in OwnedPairsAt(p) PROVE Cell(x[1], x[2], x[3]) \in Cells(p) /\ Placed(Cell(x[1], x[2], x[3])) = PairAt(p, x)
  <2>1. PICK c : c = Cell(x[1], x[2], x[3])
    OBVIOUS
  <2>2. /\ c.row = ElemNumber(p, x[2]) /\ c.value = x \o <<1, 1>>
        /\ GlobalCol(c) = ElemOffset(home[x[3]]) + ElemNumber(home[x[3]], x[3])
    BY <2>1, CellIs
  <2>3. Placed(c) = PairAt(p, x)
    BY <2>2, Zenon DEF Placed, PairAt
  <2>4. c \in Cells(p)
    BY <2>1 DEF Cells
  <2> QED BY <2>1, <2>3, <2>4
<1>2. \A c \in Cells(p) : \E x \in OwnedPairsAt(p) : c = Cell(x[1], x[2], x[3])
  BY DEF Cells
<1>3. \A c \in Cells(p) : \E x \in OwnedPairsAt(p) : Placed(c) = PairAt(p, x)
  BY <1>1, <1>2
<1>4. \A x \in OwnedPairsAt(p) : \E c \in Cells(p) : PairAt(p, x) = Placed(c)
  BY <1>1
<1> QED BY <1>3, <1>4

\* The sparse matrix of a rank of the parent.
IsSparse(m, p) ==
  LET diag == m.diag
      offd == m.offd.part
      cmap == m.offd.cmap
      first == BuildParentElementRankOffsets[p]
  IN /\ WellFormed(diag) /\ WellFormed(offd)
     /\ \A k \in 1 .. Len(cmap) - 1 : cmap[k] < cmap[k + 1]
     /\ \A k \in DOMAIN cmap : cmap[k] \notin first + 1 .. BuildParentElementRankOffsets[p + 1]
     /\ Len(diag.J) + Len(offd.J) = Cardinality(OwnedPairsAt(p))
     /\ {<<x[1], first + x[2], x[3]>> : x \in CSREntries(diag)}
          \cup {<<x[1], cmap[x[2]], x[3]>> : x \in CSREntries(offd)}
        = {<<ElemNumber(p, x[2]),
             BuildParentElementRankOffsets[home[x[3]]] + ElemNumber(home[x[3]], x[3]),
             x \o <<1, 1>>>> : x \in OwnedPairsAt(p)}

LEMMA SparseArrives ==
  ASSUME RedecompAssumption, Ready, TransferSparse, NEW p \in Procs
  PROVE  IsSparse(parentJ'[p], p)
<1>1. parentJ' = [q \in Procs |-> [diag |-> Diagonal(q, RowsHere(q)), offd |-> OffDiagonal(q, RowsHere(q))]]
  BY DEF TransferSparse, RowsHere, RowsNamed, RowNamed, SparseReceived
<1>2. parentJ'[p] = [diag |-> Diagonal(p, RowsHere(p)), offd |-> OffDiagonal(p, RowsHere(p))]
  BY <1>1
<1>3. PICK d, w : d = Diagonal(p, RowsHere(p)) /\ w = OffDiagonal(p, RowsHere(p))
  OBVIOUS
<1>4. PICK m : m = parentJ'[p]
  OBVIOUS
<1>5. m = [diag |-> d, offd |-> w]
  BY <1>2, <1>3, <1>4
<1>6. m.diag = d /\ m.offd = w
  BY <1>5
<1>7. PICK o : o = w.part
  OBVIOUS
<1>8. WellFormed(d) /\ WellFormed(o)
  BY <1>3, <1>7, DiagonalIs, OffDiagonalIs
<1>9. PICK a : a = Columns(p)
  OBVIOUS
<1>10. w.cmap = a /\ \A k, l \in 1 .. Len(a) : k < l => a[k] < a[l]
  BY <1>3, <1>9, ColumnMapIs
<1>11. a \in Seq(Nat) /\ \A k \in 1 .. Len(a) : a[k] \notin ElemOffset(p) + 1 .. ElemOffset(p + 1)
  BY <1>9, ColumnIs
<1>12. \A k \in 1 .. Len(a) - 1 : a[k] < a[k + 1]
  <2> SUFFICES ASSUME NEW k \in 1 .. Len(a) - 1 PROVE a[k] < a[k + 1]
    OBVIOUS
  <2>1. Len(a) \in Nat
    BY <1>11
  <2>2. PICK l : l = k + 1
    OBVIOUS
  <2>3. k \in 1 .. Len(a) /\ l \in 1 .. Len(a) /\ k < l
    BY <2>1, <2>2
  <2> QED BY <1>10, <2>2, <2>3
<1>13. \A k \in DOMAIN a : a[k] \notin ElemOffset(p) + 1 .. ElemOffset(p + 1)
  <2>1. DOMAIN a = 1 .. Len(a)
    BY <1>11
  <2> QED BY <1>11, <2>1
<1>14. /\ Len(d.J) + Len(o.J) = Cardinality(OwnedPairsAt(p))
       /\ {<<x[1], ElemOffset(p) + x[2], x[3]>> : x \in CSREntries(d)}
            \cup {<<x[1], a[x[2]], x[3]>> : x \in CSREntries(o)} = {Placed(c) : c \in Cells(p)}
  <2>1. d = Diagonal(p, RowsHere(p)) /\ o = OffDiagonal(p, RowsHere(p)).part
    BY <1>3, <1>7
  <2>2. /\ Len(d.J) + Len(o.J) = Cardinality(OwnedPairsAt(p))
        /\ {<<x[1], ElemOffset(p) + x[2], x[3]>> : x \in CSREntries(d)}
             \cup {<<x[1], Columns(p)[x[2]], x[3]>> : x \in CSREntries(o)} = {Placed(c) : c \in Cells(p)}
    BY <2>1, PartsHaveCells
  <2> QED BY <1>9, <2>2
<1>15. {<<x[1], ElemOffset(p) + x[2], x[3]>> : x \in CSREntries(d)}
         \cup {<<x[1], a[x[2]], x[3]>> : x \in CSREntries(o)} = {PairAt(p, x) : x \in OwnedPairsAt(p)}
  BY <1>14, CellsAreOwned
<1>16. IsSparse(m, p)
  BY <1>6, <1>7, <1>8, <1>10, <1>12, <1>13, <1>14, <1>15, Zenon DEF IsSparse, ElemOffset, PairAt
<1> QED BY <1>4, <1>16

-----------------------------------------------------------------------------
(* The steps. *)

\* A rank of the parent lists an element once for each rank.
LEMMA ListsOnce == ASSUME RedecompAssumption, MeshInit PROVE ListedOnce
<1>1. PICK x \in Assignments : home = x.home /\ p2r = P2RElementList(x)
  BY DEF MeshInit
<1> SUFFICES ASSUME NEW p \in Procs, NEW r \in Procs
             PROVE  \A k, l \in 1 .. Len(p2r[p][r]) : p2r[p][r][k].elem = p2r[p][r][l].elem => k = l
  BY DEF ListedOnce
<1> DEFINE S == {e \in Elems : x.home[e] = p /\ (x.own[e] = r \/ r \in x.ghosts[e])}
           a == Ascending(S)
           t == [k \in DOMAIN a |-> [elem |-> a[k], ghost |-> x.own[a[k]] # r]]
<1>2. S \subseteq Nat /\ IsFiniteSet(S)
  <2>1. S \in SUBSET Elems
    OBVIOUS
  <2>2. IsFiniteSet(Elems) /\ Elems \subseteq Nat
    BY DEF RedecompAssumption
  <2> QED BY <2>1, <2>2, FS_Subset
<1>3. p2r[p][r] = t \o <<>>
  BY <1>1 DEF P2RElementList, Map
<1> HIDE DEF S
<1>4. Lists(a, S)
  BY <1>2, AscendingLists
<1> HIDE DEF a
<1>5. Len(a) \in Nat /\ DOMAIN a = 1 .. Len(a)
  BY <1>4 DEF Lists
<1>6. t = [k \in 1 .. Len(a) |-> t[k]] /\ \A k \in 1 .. Len(a) : t[k].elem = a[k]
  BY <1>5
<1> HIDE DEF t
<1>7. t \o <<>> = t /\ Len(t) = Len(a)
  BY <1>5, <1>6, TableKept
<1>8. p2r[p][r] = t
  BY <1>3, <1>7
<1>9. \A k, l \in 1 .. Len(a) : a[k] = a[l] => k = l
  BY <1>4 DEF Lists
<1> HIDE DEF t
<1>10. \A k, l \in 1 .. Len(t) : t[k].elem = t[l].elem => k = l
  BY <1>6, <1>7, <1>9
<1> QED BY <1>8, <1>10

\* A list backwards.
LEMMA BackwardsLists == ASSUME NEW s, NEW X, Lists(s, X) PROVE Lists(Reverse(s), X)
<1> DEFINE n == Len(s)
           t == [i \in 1 .. n |-> s[n - i + 1]]
<1>1. n \in Nat /\ \A i \in 1 .. n : s[i] \in X
  BY DEF Lists
<1>2. Reverse(s) = t
  BY DEF Reverse
<1> HIDE DEF n
<1>3. \A i \in 1 .. n : n - i + 1 \in 1 .. n /\ n - (n - i + 1) + 1 = i
  BY <1>1
<1>4. t = [i \in 1 .. n |-> t[i]] /\ \A i \in 1 .. n : t[i] = s[n - i + 1] /\ t[i] \in X
  BY <1>1, <1>3
<1> HIDE DEF t
<1>5. t \in Seq(X) /\ Len(t) = n
  BY <1>1, <1>4, TableIs
<1>6. ASSUME NEW x \in X PROVE \E i \in 1 .. n : t[i] = x
  <2>1. PICK j \in 1 .. n : s[j] = x
    BY DEF Lists, n
  <2>2. PICK i : i = n - j + 1
    OBVIOUS
  <2>3. i \in 1 .. n /\ n - i + 1 = j
    BY <1>3, <2>2
  <2> QED BY <1>4, <2>1, <2>3
<1>7. ASSUME NEW i \in 1 .. n, NEW j \in 1 .. n, t[i] = t[j] PROVE i = j
  <2>1. PICK k, l : k = n - i + 1 /\ l = n - j + 1
    OBVIOUS
  <2>2. k \in 1 .. n /\ l \in 1 .. n /\ s[k] = s[l]
    BY <1>3, <1>4, <1>7, <2>1
  <2>3. k = l
    BY <2>2 DEF Lists, n
  <2> QED BY <1>1, <2>1, <2>3
<1> QED BY <1>2, <1>5, <1>6, <1>7 DEF Lists

\* The values of a list.
LEMMA ListValues == ASSUME NEW s, NEW X, Lists(s, X) PROVE ToSet(s) = X
<1>1. s \in Seq(X) /\ \A x \in X : \E k \in 1 .. Len(s) : s[k] = x
  BY DEF Lists
<1>2. DOMAIN s = 1 .. Len(s) /\ \A k \in DOMAIN s : s[k] \in X
  BY <1>1
<1> QED BY <1>1, <1>2 DEF ToSet

\* The pairs that a rank computes are listed, whatever their order.
LEMMA PairsComputed ==
  ASSUME RedecompAssumption, MeshIInv, Built, ComputePairs, NEW r \in Procs
  PROVE  ToSet(pairs'[r]) \subseteq AllPairs(r) /\ Lists(pairs'[r], ToSet(pairs'[r]))
<1> DEFINE of(distinct, q) == {x \in AllPairs(q) : distinct => x[1] # x[2]}
<1>1. PICK distinct \in BOOLEAN, backwards \in BOOLEAN :
        pairs' = [q \in Procs |-> IF backwards THEN Reverse(Sorted(of(distinct, q), ByRow)) ELSE Sorted(of(distinct, q), ByRow)]
  BY DEF ComputePairs
<1> DEFINE Q == of(distinct, r)
           s == Sorted(Q, ByRow)
<1>2. pairs'[r] = IF backwards THEN Reverse(s) ELSE s
  BY <1>1
<1>3. PICK n \in Nat : DOMAIN elements[r] = 1 .. n
  BY ElementsListed
<1>4. AllPairs(r) = (1 .. n) \X (1 .. n)
  BY <1>3 DEF AllPairs
<1>5. IsFiniteSet(AllPairs(r))
  <2>1. IsFiniteSet(1 .. n)
    BY FS_Interval
  <2> QED BY <1>4, <2>1, FS_Product
<1>6. Q \subseteq AllPairs(r) /\ Q \in SUBSET AllPairs(r)
  OBVIOUS
<1>7. \A x \in Q : x[1] \in Nat /\ x[2] \in Nat /\ x = <<x[1], x[2]>>
  BY <1>4, <1>6
<1> HIDE DEF of
<1>8. IsFiniteSet(Q)
  BY <1>5, <1>6, FS_Subset
<1>9. Lists(s, Q)
  <2> HIDE DEF Q
  <2> QED BY <1>7, <1>8, RowsSorted, Zenon
<1> HIDE DEF s, Q
<1>10. Lists(pairs'[r], Q)
  BY <1>2, <1>9, BackwardsLists
<1> QED BY <1>6, <1>10, ListValues

\* What a matrix is compared with does not change when meshes and pairs do not.
LEMMA OwnedStay ==
  ASSUME UNCHANGED <<meshVars, pairs>>, NEW p
  PROVE  OwnedPairsAt(p)' = OwnedPairsAt(p) /\ OwnedSums(p)' = OwnedSums(p)
<1>1. UNCHANGED <<home, parentVerts, p2r, done, vertIds, r2pVerts, vertices, elements, offsets, ghostElems, pairs>>
  BY DEF meshVars
<1>2. OwnedPairsAt(p)' = OwnedPairsAt(p)
  BY <1>1 DEF OwnedPairsAt, OwnedPairs, RankOf, ElemsFrom, IsGhost
<1>3. OwnedEntries(p)' = OwnedEntries(p)
  BY <1>1, <1>2 DEF OwnedEntries, LocalDof, GlobalDof, MyDofOffset
<1> QED BY <1>2, <1>3 DEF OwnedSums

LEMMA SparseStays ==
  ASSUME UNCHANGED <<meshVars, pairs>>, NEW p, NEW m, IsSparse(m, p)
  PROVE  IsSparse(m, p)'
<1>1. UNCHANGED home
  BY DEF meshVars
<1>2. OwnedPairsAt(p)' = OwnedPairsAt(p)
  BY OwnedStay
<1>3. BuildParentElementRankOffsets' = BuildParentElementRankOffsets
  BY <1>1 DEF BuildParentElementRankOffsets, ParentElems
<1>4. \A q, e : ElemNumber(q, e)' = ElemNumber(q, e)
  BY <1>1 DEF ElemNumber, ParentElems
<1> QED BY <1>1, <1>2, <1>3, <1>4 DEF IsSparse

\* What holds between steps.
PairsKnown ==
  /\ form # "none" => Built /\ RanksKnown
  /\ form \notin {"none", "constructed"} => PairsListed
MatrixIInv == MeshIInv /\ ListedOnce /\ PairsKnown /\ MatricesArrive

\* Without a matrix at the parent nothing is said of one.
LEMMA NothingArrived == ASSUME form' \in {"none", "constructed", "computed"} PROVE MatricesArrive'
BY DEF MatricesArrive, MatrixIsSumOfOwned, SparseMatrixIsOwned

LEMMA RanksStay == ASSUME UNCHANGED <<meshVars, testRank, trialRank>>, RanksKnown PROVE RanksKnown'
<1>1. UNCHANGED <<elements, offsets, ghostElems, testRank, trialRank>>
  BY DEF meshVars
<1>2. \A r, e : RankOf(r, e)' = RankOf(r, e)
  BY <1>1 DEF RankOf, ElemsFrom
<1>3. \A r, q, e : IsGhost(r, q, e)' = IsGhost(r, q, e)
  BY <1>1 DEF IsGhost
<1> QED BY <1>1, <1>2, <1>3 DEF RanksKnown

LEMMA PairsStay == ASSUME UNCHANGED <<meshVars, pairs>>, PairsListed PROVE PairsListed'
BY DEF meshVars, PairsListed, AllPairs

\* The steps keep what is known of ranks and pairs.
LEMMA PairsStep ==
  ASSUME RedecompAssumption, MatrixIInv, Matrices, UNCHANGED meshVars
  PROVE  PairsKnown'
<1>1. Built' = Built
  BY DEF meshVars, Built
<1>2. CASE ConstructMatrixTransfer
  <2>1. Built /\ form' = "constructed"
    BY <1>2 DEF ConstructMatrixTransfer
  <2>2. /\ testRank' = [r \in Procs |-> [e \in DOMAIN elements[r] |-> IF IsGhost(r, RankOf(r, e), e) THEN NoRank ELSE RankOf(r, e)]]
        /\ trialRank' = [r \in Procs |-> [e \in DOMAIN elements[r] |-> RankOf(r, e)]]
    BY <1>2 DEF ConstructMatrixTransfer, buildRedecomp2ParentElemRank
  <2>3. \A r \in Procs : \A e \in DOMAIN elements[r] :
          /\ trialRank'[r][e] = RankOf(r, e)
          /\ testRank'[r][e] = IF IsGhost(r, RankOf(r, e), e) THEN NoRank ELSE RankOf(r, e)
    BY <2>2
  <2>4. RanksKnown'
    BY <2>3 DEF meshVars, RanksKnown, RankOf, ElemsFrom, IsGhost
  <2> QED BY <1>1, <2>1, <2>4 DEF PairsKnown
<1>3. CASE ComputePairs
  <2>1. form = "computed" \/ form = "constructed"
    BY <1>3 DEF ComputePairs
  <2>2. Built /\ RanksKnown /\ MeshIInv
    BY <2>1 DEF MatrixIInv, PairsKnown
  <2>3. UNCHANGED <<testRank, trialRank>>
    BY <1>3 DEF ComputePairs
  <2>4. RanksKnown'
    BY <2>2, <2>3, RanksStay
  <2>5. \A r \in Procs : ToSet(pairs'[r]) \subseteq AllPairs(r) /\ Lists(pairs'[r], ToSet(pairs'[r]))
    BY <1>3, <2>2, PairsComputed
  <2>6. PairsListed'
    BY <2>5 DEF meshVars, PairsListed, AllPairs
  <2> QED BY <1>1, <2>2, <2>4, <2>6 DEF PairsKnown
<1>4. CASE TransferDense \/ TransferFlat \/ TransferSparse
  <2>1. form = "computed" /\ UNCHANGED <<testRank, trialRank, pairs>>
    BY <1>4 DEF TransferDense, TransferFlat, TransferSparse
  <2>2. Built /\ RanksKnown /\ PairsListed
    BY <2>1 DEF MatrixIInv, PairsKnown
  <2>3. RanksKnown' /\ PairsListed'
    BY <2>1, <2>2, RanksStay, PairsStay
  <2> QED BY <1>1, <2>2, <2>3 DEF PairsKnown
<1> QED BY <1>2, <1>3, <1>4 DEF Matrices

\* A transfer gives the parent what it should have.
LEMMA ArriveStep ==
  ASSUME RedecompAssumption, MatrixIInv, Matrices, UNCHANGED meshVars
  PROVE  MatricesArrive'
<1>1. CASE ConstructMatrixTransfer \/ ComputePairs
  <2>1. form' \in {"none", "constructed", "computed"}
    BY <1>1 DEF ConstructMatrixTransfer, ComputePairs
  <2> QED BY <2>1, NothingArrived
<1>2. form = "computed" => Ready
  BY DEF MatrixIInv, PairsKnown, Ready
<1>3. CASE TransferDense
  <2>1. form' = "dense" /\ Ready /\ UNCHANGED <<meshVars, pairs>>
    BY <1>2, <1>3 DEF TransferDense
  <2>2. ASSUME NEW p \in Procs
        PROVE  {<<at[1], at[2], parentJ'[p].entries[at]>> : at \in DOMAIN parentJ'[p].entries} = OwnedSums(p)'
    BY <1>3, <2>1, DenseArrives, OwnedStay
  <2> QED BY <2>1, <2>2 DEF MatricesArrive, MatrixIsSumOfOwned, SparseMatrixIsOwned
<1>4. CASE TransferFlat
  <2>1. form' = "flat" /\ Ready /\ UNCHANGED <<meshVars, pairs>>
    BY <1>2, <1>4 DEF TransferFlat
  <2>2. ASSUME NEW p \in Procs PROVE WellFormed(parentJ'[p]) /\ CSREntries(parentJ'[p]) = OwnedSums(p)'
    BY <1>4, <2>1, FlatArrives, OwnedStay
  <2> QED BY <2>1, <2>2 DEF MatricesArrive, MatrixIsSumOfOwned, SparseMatrixIsOwned
<1>5. CASE TransferSparse
  <2>1. form' = "sparse" /\ Ready /\ UNCHANGED <<meshVars, pairs>>
    BY <1>2, <1>5 DEF TransferSparse
  <2>2. ASSUME NEW p \in Procs PROVE IsSparse(parentJ[p], p)'
    <3>1. IsSparse(parentJ'[p], p)
      BY <1>5, <2>1, SparseArrives
    <3>2. PICK m : m = parentJ'[p]
      OBVIOUS
    <3>3. IsSparse(m, p)'
      BY <2>1, <3>1, <3>2, SparseStays
    <3> QED BY <3>2, <3>3
  <2>3. SparseMatrixIsOwned'
    BY <2>2 DEF SparseMatrixIsOwned, IsSparse
  <2>4. MatrixIsSumOfOwned'
    BY <2>1 DEF MatrixIsSumOfOwned
  <2> QED BY <2>3, <2>4 DEF MatricesArrive
<1> QED BY <1>1, <1>3, <1>4, <1>5 DEF Matrices

LEMMA ArriveStays == ASSUME MatricesArrive, UNCHANGED <<meshVars, matrixVars>> PROVE MatricesArrive'
<1>1. UNCHANGED <<meshVars, pairs>> /\ UNCHANGED <<parentJ, form>>
  BY DEF matrixVars
<1>2. MatrixIsSumOfOwned'
  <2>1. \A p \in Procs : OwnedSums(p)' = OwnedSums(p)
    BY <1>1, OwnedStay
  <2> QED BY <1>1, <2>1 DEF MatricesArrive, MatrixIsSumOfOwned
<1>3. SparseMatrixIsOwned'
  <2> SUFFICES ASSUME form = "sparse" PROVE SparseMatrixIsOwned'
    BY <1>1 DEF SparseMatrixIsOwned
  <2>1. ASSUME NEW p \in Procs PROVE IsSparse(parentJ[p], p)'
    <3>1. IsSparse(parentJ[p], p)
      BY DEF MatricesArrive, SparseMatrixIsOwned, IsSparse
    <3>2. PICK m : m = parentJ[p]
      OBVIOUS
    <3>3. IsSparse(m, p)'
      BY <1>1, <3>1, <3>2, SparseStays
    <3> QED BY <1>1, <3>2, <3>3
  <2> QED BY <2>1 DEF SparseMatrixIsOwned, IsSparse
<1> QED BY <1>2, <1>3 DEF MatricesArrive

\* Whatever the mesh, its partition and the pairs computed on it, and whatever the order of the
\* pairs, the matrices that MatrixTransfer and SparseMatrixTransfer give the parent are those
\* of its owners.
THEOREM AnyMatricesArrive == ASSUME RedecompAssumption PROVE MatrixSpec => []MatricesArrive
<1>1. MeshInit /\ MatrixInit => MatrixIInv
  <2> SUFFICES ASSUME MeshInit, MatrixInit PROVE MatrixIInv
    OBVIOUS
  <2>1. MeshIInv /\ ListedOnce
    BY MeshInitially, ListsOnce
  <2>2. form = "none"
    BY DEF MatrixInit
  <2>3. MatricesArrive
    BY <2>2 DEF MatricesArrive, MatrixIsSumOfOwned, SparseMatrixIsOwned
  <2> QED BY <2>1, <2>2, <2>3 DEF MatrixIInv, PairsKnown
<1>2. MatrixIInv /\ [MatrixNext]_<<meshVars, matrixVars>> => MatrixIInv'
  <2> SUFFICES ASSUME MatrixIInv, [MatrixNext]_<<meshVars, matrixVars>> PROVE MatrixIInv'
    OBVIOUS
  <2>1. [BuildRedecomp]_meshVars
    BY DEF MatrixNext
  <2>2. MeshIInv'
    BY <2>1, MeshStep DEF MatrixIInv
  <2>3. ListedOnce'
    <3>1. p2r' = p2r
      BY <2>1 DEF BuildRedecomp, NumberVertices, SendVertices, PutVertices, CreateElements, FillOffsets, FillGhosts, meshVars
    <3> QED BY <3>1 DEF MatrixIInv, ListedOnce
  <2>4. CASE BuildRedecomp /\ UNCHANGED matrixVars
    <3>1. done # "built"
      BY <2>4 DEF BuildRedecomp, NumberVertices, SendVertices, PutVertices, CreateElements, FillOffsets, FillGhosts
    <3>2. form = "none" /\ form' = "none"
      BY <2>4, <3>1 DEF MatrixIInv, PairsKnown, Built, matrixVars
    <3>3. MatricesArrive' /\ PairsKnown'
      BY <3>2, NothingArrived DEF PairsKnown
    <3> QED BY <2>2, <2>3, <3>3 DEF MatrixIInv
  <2>5. CASE Matrices /\ UNCHANGED meshVars
    BY <2>2, <2>3, <2>5, PairsStep, ArriveStep DEF MatrixIInv
  <2>6. CASE UNCHANGED <<meshVars, matrixVars>>
    <3>1. UNCHANGED <<meshVars, testRank, trialRank>> /\ UNCHANGED <<meshVars, pairs>> /\ form' = form /\ Built' = Built
      BY <2>6 DEF meshVars, matrixVars, Built
    <3>2. PairsKnown'
      BY <3>1, RanksStay, PairsStay DEF MatrixIInv, PairsKnown
    <3>3. MatricesArrive'
      BY <2>6, ArriveStays DEF MatrixIInv
    <3> QED BY <2>2, <2>3, <3>2, <3>3 DEF MatrixIInv
  <2> QED BY <2>4, <2>5, <2>6 DEF MatrixNext
<1>3. MatrixIInv => MatricesArrive
  BY DEF MatrixIInv
<1> QED BY <1>1, <1>2, <1>3, PTL DEF MatrixSpec

==============================================================================
